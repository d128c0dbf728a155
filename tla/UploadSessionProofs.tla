-------------------------- MODULE UploadSessionProofs --------------------------
(***************************************************************************)
(* Proofs about UploadSession, for any number of accounts, sessions and     *)
(* uploads, bodies of any length, and any faults.                           *)
(***************************************************************************)
EXTENDS UploadSession, TLAPS

-------------------------------------------------------------------------------
(* The contents of a file. *)

(* Writing a chunk gives a sequence that reaches at least as far as the chunk. *)
LEMMA WrittenOK ==
  ASSUME NEW d \in Seq(Upload \cup {Hole}), NEW k \in Nat \ {0}, NEW u \in Upload
  PROVE  /\ Written(d, k, u) \in Seq(Upload \cup {Hole})
         /\ Len(Written(d, k, u)) = IF Len(d) < k THEN k ELSE Len(d)
<1> DEFINE S == Upload \cup {Hole}
           n == IF Len(d) < k THEN k ELSE Len(d)
<1>1. n \in Nat /\ Len(d) \in Nat
  OBVIOUS
<1>2. \A j \in 1..n : (IF j = k THEN u ELSE IF j <= Len(d) THEN d[j] ELSE Hole) \in S
  OBVIOUS
<1>3. Written(d, k, u) \in [1..n -> S]
  BY <1>2 DEF Written
<1> HIDE DEF n
<1>4. Written(d, k, u) \in Seq(S) /\ Len(Written(d, k, u)) = n
  BY <1>1, <1>3
<1> QED BY <1>4 DEF n

(* A file that one upload writes in order grows by its next chunk. *)
LEMMA WrittenNext ==
  ASSUME NEW u, NEW n \in Nat
  PROVE  Written([k \in 1..n |-> u], n + 1, u) = [k \in 1..n + 1 |-> u]
<1> DEFINE d == [k \in 1..n |-> u]
<1>1. d \in Seq({u}) /\ Len(d) = n
  <2>1. d \in [1..n -> {u}]
    OBVIOUS
  <2> QED BY <2>1
<1>2. \A j \in 1..n + 1 : (IF j = n + 1 THEN u ELSE IF j <= Len(d) THEN d[j] ELSE Hole) = u
  BY <1>1
<1> QED BY <1>1, <1>2 DEF Written

-------------------------------------------------------------------------------
(* What a step does to the uploads. *)

(* All of an upload but its program counter. *)
Body(rec) == <<rec.who, rec.session, rec.size, rec.sent, rec.landed, rec.inode>>

UpOK(rec) ==
  /\ rec \in UploadRecord
  /\ rec.landed <= rec.sent /\ rec.sent <= rec.size /\ rec.sent <= rec.landed + 1

(* TypeOK in the words of UpOK. *)
LEMMA TypeUp ==
  TypeOK => up \in [Upload -> UploadRecord] /\ \A u \in Upload : UpOK(up[u])
BY DEF TypeOK, UpOK

(* Go moves one upload on and changes nothing else. *)
LEMMA GoOK ==
  ASSUME TypeOK, NEW u \in Upload, NEW pc \in Pc, Go(u, pc)
  PROVE  /\ up' \in [Upload -> UploadRecord] /\ \A v \in Upload : UpOK(up'[v])
         /\ up'[u].pc = pc /\ Body(up'[u]) = Body(up[u])
         /\ \A v \in Upload \ {u} : up'[v] = up[v]
<1>1. up \in [Upload -> UploadRecord] /\ \A v \in Upload : UpOK(up[v])
  BY TypeUp
<1>2. up[u] \in UploadRecord /\ UpOK(up[u])
  BY <1>1
<1> DEFINE rec == [up[u] EXCEPT !.pc = pc]
<1>3. rec \in UploadRecord /\ rec.pc = pc /\ Body(rec) = Body(up[u]) /\ UpOK(rec)
  BY <1>2 DEF UploadRecord, Body, UpOK
<1>4. up' = [up EXCEPT ![u] = rec]
  BY DEF Go
<1> HIDE DEF rec
<1> QED BY <1>1, <1>3, <1>4

(* The other steps of one upload, field by field. *)
LEMMA BeginOK ==
  ASSUME TypeOK, NEW u \in Upload, NEW a \in Account, NEW s \in Session, NEW n \in 0..MaxLen + 1,
         Begin(u, a, s, n), up[u].sent = 0
  PROVE  /\ up' \in [Upload -> UploadRecord] /\ \A v \in Upload : UpOK(up'[v])
         /\ up[u].pc = "idle"
         /\ up'[u].pc = "create" /\ up'[u].session = s /\ up'[u].sent = 0 /\ up'[u].landed = 0
         /\ up'[u].inode = up[u].inode
         /\ \A v \in Upload \ {u} : up'[v] = up[v]
<1>1. /\ up \in [Upload -> UploadRecord] /\ \A v \in Upload : UpOK(up[v])
      /\ up[u] \in UploadRecord /\ UpOK(up[u])
  BY TypeUp
<1> DEFINE rec == [up[u] EXCEPT !.pc = "create", !.who = a, !.session = s, !.size = n]
<1>2. /\ rec \in UploadRecord /\ UpOK(rec)
      /\ rec.pc = "create" /\ rec.session = s /\ rec.sent = 0 /\ rec.landed = 0
      /\ rec.inode = up[u].inode
  <2>1. up[u].landed = 0
    <3>1. up[u].landed \in 0..MaxLen + 1
      BY <1>1 DEF UploadRecord
    <3> QED BY <1>1, <3>1, LengthAssumption DEF UpOK
  <2>2. rec \in UploadRecord
    BY <1>1 DEF UploadRecord, Pc
  <2>3. /\ rec.pc = "create" /\ rec.session = s /\ rec.sent = 0 /\ rec.landed = 0
        /\ rec.inode = up[u].inode /\ rec.size = n
    BY <1>1, <2>1 DEF UploadRecord
  <2> QED BY <2>2, <2>3, LengthAssumption DEF UpOK
<1>3. up' = [up EXCEPT ![u] = rec] /\ up[u].pc = "idle"
  BY DEF Begin
<1> HIDE DEF rec
<1> QED BY <1>1, <1>2, <1>3

(* Create gives the upload the inode behind the buffer name, or a new one. *)
LEMMA CreateOK ==
  ASSUME TypeOK, NEW u \in Upload, Create(u), up[u].session \in Session
  PROVE  LET s == up[u].session  i == IF buf[s] = NoFile THEN u ELSE buf[s] IN
         /\ up' \in [Upload -> UploadRecord] /\ \A v \in Upload : UpOK(up'[v])
         /\ i \in Upload /\ up[u].pc = "create" /\ up'[u].pc = "write" /\ up'[u].inode = i
         /\ up'[u].session = s /\ up'[u].who = up[u].who /\ up'[u].size = up[u].size
         /\ up'[u].sent = up[u].sent /\ up'[u].landed = up[u].landed
         /\ \A v \in Upload \ {u} : up'[v] = up[v]
         /\ buf' \in [Session -> Upload \cup {NoFile}] /\ buf'[s] = i
         /\ \A x \in Session \ {s} : buf'[x] = buf[x]
         /\ data' = [data EXCEPT ![i] = << >>]
<1> DEFINE s == up[u].session
           i == IF buf[s] = NoFile THEN u ELSE buf[s]
           rec == [up[u] EXCEPT !.pc = "write", !.inode = i]
<1>1. /\ up \in [Upload -> UploadRecord] /\ \A v \in Upload : UpOK(up[v])
      /\ up[u] \in UploadRecord /\ UpOK(up[u])
  BY TypeUp
<1>2. buf \in [Session -> Upload \cup {NoFile}] /\ i \in Upload
  BY DEF TypeOK
<1>3. /\ up' = [up EXCEPT ![u] = rec] /\ up[u].pc = "create"
      /\ buf' = [buf EXCEPT ![s] = i] /\ data' = [data EXCEPT ![i] = << >>]
  BY <1>1 DEF Create
<1> HIDE DEF i
<1>4. /\ rec \in UploadRecord /\ UpOK(rec) /\ rec.pc = "write" /\ rec.inode = i
      /\ rec.session = s /\ rec.who = up[u].who /\ rec.size = up[u].size
      /\ rec.sent = up[u].sent /\ rec.landed = up[u].landed
  BY <1>1, <1>2 DEF UploadRecord, UpOK, Pc
<1> HIDE DEF rec
<1>5. /\ up' \in [Upload -> UploadRecord] /\ \A v \in Upload : UpOK(up'[v])
      /\ up'[u] = rec /\ \A v \in Upload \ {u} : up'[v] = up[v]
  BY <1>1, <1>3, <1>4
<1>6. /\ buf' \in [Session -> Upload \cup {NoFile}] /\ buf'[s] = i
      /\ \A x \in Session \ {s} : buf'[x] = buf[x]
  BY <1>2, <1>3
<1>7. i = IF buf[s] = NoFile THEN u ELSE buf[s]
  BY DEF i
<1> HIDE DEF s
<1> QED BY <1>2, <1>3, <1>4, <1>5, <1>6, <1>7 DEF s

(* Send counts a chunk of one upload. *)
LEMMA SendOK ==
  ASSUME TypeOK, NEW u \in Upload, Send(u), MaxLen \in Nat
  PROVE  /\ up' \in [Upload -> UploadRecord] /\ \A v \in Upload : UpOK(up'[v])
         /\ up[u].pc = "write" /\ up'[u].pc = "write" /\ up'[u].session = up[u].session
         /\ up'[u].who = up[u].who /\ up'[u].size = up[u].size
         /\ up'[u].inode = up[u].inode /\ up'[u].landed = up[u].landed
         /\ \A v \in Upload \ {u} : up'[v] = up[v]
<1>1. /\ up \in [Upload -> UploadRecord] /\ \A v \in Upload : UpOK(up[v])
      /\ up[u] \in UploadRecord /\ UpOK(up[u])
  BY TypeUp
<1> DEFINE rec == [up[u] EXCEPT !.sent = up[u].sent + 1]
<1>2. up' = [up EXCEPT ![u] = rec] /\ up[u].pc = "write" /\ up[u].landed = up[u].sent
      /\ up[u].sent < up[u].size
  BY DEF Send
<1>3. rec \in UploadRecord /\ UpOK(rec) /\ rec.pc = up[u].pc /\ rec.session = up[u].session
      /\ rec.who = up[u].who /\ rec.size = up[u].size
      /\ rec.inode = up[u].inode /\ rec.landed = up[u].landed
  BY <1>1, <1>2 DEF UploadRecord, UpOK
<1> HIDE DEF rec
<1> QED BY <1>1, <1>2, <1>3

(* Land counts a chunk of one upload as on disk. *)
LEMMA LandOK ==
  ASSUME TypeOK, NEW u \in Upload, Land(u), MaxLen \in Nat
  PROVE  /\ up' \in [Upload -> UploadRecord] /\ \A v \in Upload : UpOK(up'[v])
         /\ up[u].landed < up[u].sent /\ up'[u].landed = up[u].landed + 1
         /\ up'[u].pc = up[u].pc /\ up'[u].session = up[u].session
         /\ up'[u].who = up[u].who /\ up'[u].size = up[u].size
         /\ up'[u].inode = up[u].inode /\ up'[u].sent = up[u].sent
         /\ \A v \in Upload \ {u} : up'[v] = up[v]
<1>1. /\ up \in [Upload -> UploadRecord] /\ \A v \in Upload : UpOK(up[v])
      /\ up[u] \in UploadRecord /\ UpOK(up[u])
  BY TypeUp
<1> DEFINE rec == [up[u] EXCEPT !.landed = up[u].landed + 1]
<1>2. up' = [up EXCEPT ![u] = rec] /\ up[u].landed < up[u].sent
  BY DEF Land
<1>3. rec \in UploadRecord /\ UpOK(rec) /\ rec.pc = up[u].pc /\ rec.session = up[u].session
      /\ rec.who = up[u].who /\ rec.size = up[u].size
      /\ rec.inode = up[u].inode /\ rec.sent = up[u].sent /\ rec.landed = up[u].landed + 1
  BY <1>1, <1>2 DEF UploadRecord, UpOK
<1> HIDE DEF rec
<1> QED BY <1>1, <1>2, <1>3

(* After a restart every upload that was under way has stopped where it was. *)
LEMMA RestartOK ==
  ASSUME TypeOK, Restart
  PROVE  /\ up' \in [Upload -> UploadRecord] /\ \A v \in Upload : UpOK(up'[v])
         /\ \A v \in Upload :
              /\ up'[v].session = up[v].session /\ up'[v].inode = up[v].inode
              /\ up'[v].who = up[v].who /\ up'[v].size = up[v].size
              /\ up'[v].landed = up[v].landed
              /\ up[v].pc = "idle" => up'[v] = up[v]
              /\ up[v].pc = "refused" => up'[v].pc = "refused"
              /\ up[v].pc \notin {"idle", "refused"} => up'[v].pc = "done"
              /\ up[v].pc # "idle" => up'[v].sent = up[v].landed
<1>1. up \in [Upload -> UploadRecord] /\ \A v \in Upload : UpOK(up[v])
  BY TypeUp
<1>2. ASSUME NEW v \in Upload
      PROVE  up'[v] = IF up[v].pc = "idle" THEN up[v]
                      ELSE [up[v] EXCEPT !.pc = IF up[v].pc = "refused" THEN "refused" ELSE "done",
                                         !.sent = up[v].landed]
  BY DEF Restart
<1>3. ASSUME NEW v \in Upload
      PROVE  /\ up'[v] \in UploadRecord /\ UpOK(up'[v])
             /\ up'[v].session = up[v].session /\ up'[v].inode = up[v].inode
             /\ up'[v].who = up[v].who /\ up'[v].size = up[v].size
             /\ up'[v].landed = up[v].landed
             /\ up[v].pc = "idle" => up'[v] = up[v]
             /\ up[v].pc = "refused" => up'[v].pc = "refused"
             /\ up[v].pc \notin {"idle", "refused"} => up'[v].pc = "done"
             /\ up[v].pc # "idle" => up'[v].sent = up[v].landed
  <2>1. CASE up[v].pc = "idle"
    BY <1>1, <1>2, <2>1
  <2>2. CASE up[v].pc # "idle"
    <3> DEFINE pc == IF up[v].pc = "refused" THEN "refused" ELSE "done"
               rec == [up[v] EXCEPT !.pc = pc, !.sent = up[v].landed]
    <3>1. /\ pc \in Pc /\ up'[v] = rec
          /\ up[v].pc = "refused" => pc = "refused"
          /\ up[v].pc \notin {"idle", "refused"} => pc = "done"
      BY <1>2, <2>2 DEF Pc
    <3> HIDE DEF pc
    <3>2. up[v] \in UploadRecord /\ UpOK(up[v])
      BY <1>1
    <3>3. up[v].landed \in 0..MaxLen + 1 /\ up[v].size \in 0..MaxLen + 1 /\ up[v].sent \in 0..MaxLen + 1
      BY <3>2 DEF UploadRecord
    <3>4. /\ rec \in UploadRecord /\ rec.pc = pc /\ rec.sent = up[v].landed
          /\ rec.session = up[v].session /\ rec.inode = up[v].inode
          /\ rec.who = up[v].who /\ rec.size = up[v].size
          /\ rec.landed = up[v].landed
      BY <3>1, <3>2, <3>3 DEF UploadRecord
    <3> HIDE DEF rec
    <3>5. UpOK(rec)
      BY <3>2, <3>3, <3>4, LengthAssumption DEF UpOK
    <3> QED BY <2>2, <3>1, <3>4, <3>5
  <2> QED BY <2>1, <2>2
<1>4. up' = [v \in Upload |-> up'[v]]
  BY DEF Restart
<1> QED BY <1>3, <1>4

-------------------------------------------------------------------------------
(* Steps by what they leave alone. *)

(* No upload changes what it is about, or loses its inode. *)
Quiet ==
  \A v \in Upload :
    /\ up'[v].session = up[v].session /\ up'[v].who = up[v].who
    /\ up'[v].size = up[v].size /\ up'[v].inode = up[v].inode
    /\ up[v].pc \notin {"idle", "create"} => up'[v].pc \notin {"idle", "create"}

(* The steps of a handler that only move it on. *)
Moves(u) ==
  TooLarge(u) \/ Unlink(u) \/ Sync(u) \/ Accept(u) \/ Rename(u) \/ Insert(u) \/ Cancel(u)

(* Where each of these starts and ends. *)
MoveTo(u, from, to) ==
  /\ from \in Pc \ {"idle", "done", "refused"} /\ to \in Pc \ {"idle", "create", "write"}
  /\ up[u].pc = from /\ Go(u, to)

(* The control flow of a handler, step by step. *)
LEMMA MoveKinds ==
  ASSUME TypeOK, NEW u \in Upload
  PROVE  /\ TooLarge(u) => MoveTo(u, "write", "unlink")
         /\ Unlink(u) => MoveTo(u, "unlink", "refused")
         /\ Sync(u) => MoveTo(u, "write", "accept")
         /\ Accept(u) => \E to \in {"rename", "done"} : MoveTo(u, "accept", to)
         /\ Rename(u) => \E to \in {"insert", "done"} : MoveTo(u, "rename", to)
         /\ Insert(u) => MoveTo(u, "insert", "done")
         /\ Cancel(u) => MoveTo(u, up[u].pc, "done")
<1>1. up[u].pc \in Pc
  BY TypeUp DEF UploadRecord
<1>2. TooLarge(u) => MoveTo(u, "write", "unlink")
  BY DEF TooLarge, MoveTo, Pc
<1>3. Unlink(u) => MoveTo(u, "unlink", "refused")
  BY DEF Unlink, MoveTo, Pc
<1>4. Sync(u) => MoveTo(u, "write", "accept")
  BY DEF Sync, MoveTo, Pc
<1>5. Accept(u) => \E to \in {"rename", "done"} : MoveTo(u, "accept", to)
  <2>1. Accept(u) => up[u].pc = "accept" /\ (Go(u, "rename") \/ Go(u, "done"))
    BY DEF Accept
  <2> QED BY <2>1 DEF MoveTo, Pc
<1>6. Rename(u) => \E to \in {"insert", "done"} : MoveTo(u, "rename", to)
  <2>1. Rename(u) => up[u].pc = "rename" /\ (Go(u, "insert") \/ Go(u, "done"))
    BY DEF Rename
  <2> QED BY <2>1 DEF MoveTo, Pc
<1>7. Insert(u) => MoveTo(u, "insert", "done")
  BY DEF Insert, MoveTo, Pc
<1>8. Cancel(u) => MoveTo(u, up[u].pc, "done")
  BY <1>1 DEF Cancel, MoveTo, Pc
<1> QED BY <1>2, <1>3, <1>4, <1>5, <1>6, <1>7, <1>8

(* Such a step is quiet and touches one upload. *)
LEMMA MoveOK ==
  ASSUME TypeOK, NEW u \in Upload, NEW from, NEW to, MoveTo(u, from, to)
  PROVE  /\ up' \in [Upload -> UploadRecord] /\ \A v \in Upload : UpOK(up'[v])
         /\ Quiet
         /\ up'[u].pc = to /\ up'[u].landed = up[u].landed /\ up'[u].sent = up[u].sent
         /\ \A v \in Upload \ {u} : up'[v] = up[v]
<1>1. to \in Pc /\ Go(u, to) /\ to \notin {"idle", "create"}
  BY DEF MoveTo
<1> QED BY <1>1, GoOK DEF Quiet, Body

(* The steps that leave the uploads alone. *)
Elsewhere ==
  \/ \E s \in Session : Expire(s) \/ \E a \in Account : NewSession(s, a)
  \/ \E u \in Upload : GetPayload(u) \/ Destroy(u)
  \/ Flush
  \/ UNCHANGED vars

(* They leave the directory and the files alone as well. *)
LEMMA ElsewhereOK == Elsewhere => UNCHANGED <<up, buf, file, data>>
BY DEF Elsewhere, Expire, NewSession, GetPayload, Destroy, Flush, vars

(* Every step is of one of these kinds. *)
LEMMA Kinds ==
  ASSUME [Next]_vars
  PROVE  \/ Elsewhere \/ Restart
         \/ \E u \in Upload :
              \/ \E a \in Account, s \in Session, n \in 0..MaxLen + 1 : Begin(u, a, s, n)
              \/ Create(u) \/ Send(u) \/ Land(u) \/ Moves(u)
BY DEF Next, Serve, Elsewhere, Moves

(* Sessions never come back, whatever a step does to the map. *)
LEMMA GoneKept ==
  ASSUME TypeOK, [Next]_vars
  PROVE  /\ session' \in [Session -> SessionRecord]
         /\ \A s \in Session : session[s].state = "gone" => session'[s] = session[s]
<1>0. session \in [Session -> SessionRecord]
  BY DEF TypeOK
<1>1. /\ CleanedUp \in [Session -> SessionRecord]
      /\ \A s \in Session : session[s].state = "gone" => CleanedUp[s] = session[s]
  BY <1>0 DEF CleanedUp, SessionRecord
<1>2. ASSUME NEW s \in Session, NEW a \in Account, NewSession(s, a)
      PROVE  /\ session' \in [Session -> SessionRecord]
             /\ \A x \in Session : session[x].state = "gone" => session'[x] = session[x]
  <2>1. [state |-> "open", owner |-> a] \in SessionRecord
    BY DEF SessionRecord
  <2> QED BY <1>1, <1>2, <2>1 DEF NewSession
<1>3. ASSUME NEW s \in Session, Expire(s)
      PROVE  /\ session' \in [Session -> SessionRecord]
             /\ \A x \in Session : session[x].state = "gone" => session'[x] = session[x]
  <2>1. [session[s] EXCEPT !.state = "expired"] \in SessionRecord
    BY <1>0 DEF SessionRecord
  <2>2. session' = [session EXCEPT ![s] = [session[s] EXCEPT !.state = "expired"]]
        /\ session[s].state = "open"
    BY <1>3 DEF Expire
  <2> QED BY <1>0, <2>1, <2>2
<1>4. ASSUME NEW u \in Upload, Accept(u)
      PROVE  /\ session' \in [Session -> SessionRecord]
             /\ \A x \in Session : session[x].state = "gone" => session'[x] = session[x]
  <2>1. CASE session' = CleanedUp
    BY <1>1, <2>1
  <2>2. CASE /\ CleanedUp[up[u].session].state = "open"
             /\ session' = [CleanedUp EXCEPT ![up[u].session].state = "gone"]
    <3>1. ASSUME up[u].session \in Session
          PROVE  [CleanedUp[up[u].session] EXCEPT !.state = "gone"] \in SessionRecord
      BY <1>1, <3>1 DEF SessionRecord
    <3>2. session' = [CleanedUp EXCEPT ![up[u].session] =
                        [CleanedUp[up[u].session] EXCEPT !.state = "gone"]]
      BY <2>2
    <3> QED BY <1>1, <2>2, <3>1, <3>2
  <2> QED BY <1>4, <2>1, <2>2 DEF Accept
<1>5. CASE Restart
  <2>1. ASSUME NEW s \in Session
        PROVE  /\ (IF InMap(s) THEN [session[s] EXCEPT !.state = "gone"] ELSE session[s])
                      \in SessionRecord
               /\ session[s].state = "gone" => ~InMap(s)
    BY <1>0 DEF SessionRecord, InMap
  <2> QED BY <1>5, <2>1 DEF Restart
<1>6. CASE UNCHANGED session
  BY <1>0, <1>6
<1> QED BY <1>2, <1>3, <1>4, <1>5, <1>6 DEF Next, Serve, vars, Begin, Create, Send, TooLarge, Unlink,
          Sync, Rename, Insert, Land, Cancel, GetPayload, Destroy, Flush

-------------------------------------------------------------------------------
(* Types. *)

(* The parts of TypeOK that are about names and records. *)
NamesOK ==
  /\ buf \in [Session -> Upload \cup {NoFile}]
  /\ file \in [Upload -> Upload \cup {NoFile}]
  /\ loaded \subseteq record /\ record \subseteq Upload /\ flushed \subseteq Upload
  /\ panicked \in BOOLEAN

DataOK ==
  /\ data \in [Upload -> Seq(Upload \cup {Hole})]
  /\ \A u \in Upload : Len(data[u]) <= MaxLen + 1

(* They make up TypeOK, with the sessions and the uploads. *)
LEMMA TypeParts ==
  /\ TypeOK => NamesOK /\ DataOK
  /\ /\ session' \in [Session -> SessionRecord]
     /\ up' \in [Upload -> UploadRecord] /\ \A v \in Upload : UpOK(up'[v])
     /\ NamesOK' /\ DataOK'
     => TypeOK'
BY DEF TypeOK, NamesOK, DataOK, UpOK

(* Every step keeps the uploads well typed. *)
LEMMA UpStep ==
  ASSUME SafeInv, [Next]_vars
  PROVE  up' \in [Upload -> UploadRecord] /\ \A v \in Upload : UpOK(up'[v])
<1>0. /\ TypeOK /\ MaxLen \in Nat
      /\ up \in [Upload -> UploadRecord] /\ \A v \in Upload : UpOK(up[v])
  BY TypeUp, LengthAssumption DEF SafeInv
<1>1. CASE Elsewhere
  BY <1>0, <1>1, ElsewhereOK
<1>2. CASE Restart
  BY <1>0, <1>2, RestartOK
<1>3. ASSUME NEW u \in Upload, NEW a \in Account, NEW s \in Session, NEW n \in 0..MaxLen + 1,
             Begin(u, a, s, n)
      PROVE  up' \in [Upload -> UploadRecord] /\ \A v \in Upload : UpOK(up'[v])
  <2>1. up[u].sent = 0
    BY <1>3 DEF Begin, SafeInv, Started
  <2> QED BY <1>0, <1>3, <2>1, BeginOK
<1>4. ASSUME NEW u \in Upload, Create(u)
      PROVE  up' \in [Upload -> UploadRecord] /\ \A v \in Upload : UpOK(up'[v])
  <2>1. up[u].session \in Session
    BY <1>4 DEF Create, SafeInv, Started
  <2> QED BY <1>0, <1>4, <2>1, CreateOK
<1>5. ASSUME NEW u \in Upload, Send(u) \/ Land(u)
      PROVE  up' \in [Upload -> UploadRecord] /\ \A v \in Upload : UpOK(up'[v])
  BY <1>0, <1>5, SendOK, LandOK
<1>6. ASSUME NEW u \in Upload, Moves(u)
      PROVE  up' \in [Upload -> UploadRecord] /\ \A v \in Upload : UpOK(up'[v])
  <2>1. PICK from, to : MoveTo(u, from, to)
    BY <1>0, <1>6, MoveKinds DEF Moves
  <2> QED BY <1>0, <2>1, MoveOK
<1> QED BY <1>1, <1>2, <1>3, <1>4, <1>5, <1>6, Kinds

(* Every step keeps the names and the records well typed. *)
LEMMA NamesStep ==
  ASSUME SafeInv, [Next]_vars
  PROVE  NamesOK'
<1>0. TypeOK /\ NamesOK
  BY TypeParts DEF SafeInv
<1>1. CASE Elsewhere
  BY <1>0, <1>1 DEF NamesOK, Elsewhere, Expire, NewSession, GetPayload, Destroy, Flush, vars
<1>2. CASE Restart
  BY <1>0, <1>2 DEF NamesOK, Restart
<1>3. ASSUME NEW u \in Upload, NEW a \in Account, NEW s \in Session, NEW n \in 0..MaxLen + 1,
             Begin(u, a, s, n)
      PROVE  NamesOK'
  BY <1>0, <1>3 DEF NamesOK, Begin
<1>4. ASSUME NEW u \in Upload, Create(u)
      PROVE  NamesOK'
  <2>1. up[u].session \in Session
    BY <1>4 DEF Create, SafeInv, Started
  <2>2. buf' \in [Session -> Upload \cup {NoFile}]
    BY <1>0, <1>4, <2>1, CreateOK
  <2> QED BY <1>0, <1>4, <2>2 DEF NamesOK, Create
<1>5. ASSUME NEW u \in Upload, Send(u) \/ Land(u) \/ TooLarge(u) \/ Sync(u) \/ Accept(u) \/ Cancel(u)
      PROVE  NamesOK'
  BY <1>0, <1>5 DEF NamesOK, Send, Land, TooLarge, Sync, Accept, Cancel
<1>6. ASSUME NEW u \in Upload, Unlink(u) \/ Insert(u)
      PROVE  NamesOK'
  BY <1>0, <1>6 DEF NamesOK, Unlink, Insert
<1>7. ASSUME NEW u \in Upload, Rename(u)
      PROVE  NamesOK'
  <2>1. up[u].session \in Session
    BY <1>7 DEF Rename, SafeInv, Started
  <2>2. buf[up[u].session] \in Upload \cup {NoFile}
    BY <1>0, <2>1 DEF NamesOK
  <2> QED BY <1>0, <1>7, <2>2 DEF NamesOK, Rename
<1> QED BY <1>1, <1>2, <1>3, <1>4, <1>5, <1>6, <1>7, Kinds DEF Moves

(* Every step keeps the files well typed and short enough. *)
LEMMA DataStep ==
  ASSUME SafeInv, [Next]_vars
  PROVE  DataOK'
<1>0. /\ TypeOK /\ DataOK /\ MaxLen \in Nat
      /\ up \in [Upload -> UploadRecord] /\ \A v \in Upload : UpOK(up[v])
  BY TypeParts, TypeUp, LengthAssumption DEF SafeInv
<1>1. ASSUME NEW u \in Upload, Create(u) PROVE DataOK'
  <2>1. PICK i \in Upload : data' = [data EXCEPT ![i] = << >>]
    BY <1>0, <1>1, CreateOK DEF Create, SafeInv, Started
  <2>2. << >> \in Seq(Upload \cup {Hole}) /\ Len(<< >>) = 0
    OBVIOUS
  <2> QED BY <1>0, <2>1, <2>2 DEF DataOK
<1>2. ASSUME NEW u \in Upload, Land(u) PROVE DataOK'
  <2> DEFINE i == up[u].inode  k == up[u].landed + 1
  <2>1. up[u] \in UploadRecord /\ UpOK(up[u])
    BY <1>0
  <2>2. up[u].landed \in 0..MaxLen + 1 /\ up[u].sent \in 0..MaxLen + 1 /\ up[u].landed < up[u].sent
    BY <1>2, <2>1 DEF Land, UploadRecord
  <2>3. k \in Nat \ {0} /\ k <= MaxLen + 1
    BY <1>0, <2>2
  <2>4. i \in Upload
    BY <2>1, <2>2, <1>0 DEF SafeInv, Started, UploadRecord
  <2>5. data' = [data EXCEPT ![i] = Written(data[i], k, u)]
    BY <1>2 DEF Land
  <2>6. data[i] \in Seq(Upload \cup {Hole}) /\ Len(data[i]) <= MaxLen + 1
    BY <1>0, <2>4 DEF DataOK
  <2> HIDE DEF i, k
  <2>7. /\ Written(data[i], k, u) \in Seq(Upload \cup {Hole})
        /\ Len(Written(data[i], k, u)) = IF Len(data[i]) < k THEN k ELSE Len(data[i])
    BY <2>3, <2>6, WrittenOK
  <2>8. Len(Written(data[i], k, u)) <= MaxLen + 1
    BY <2>3, <2>6, <2>7
  <2> QED BY <1>0, <2>4, <2>5, <2>7, <2>8 DEF DataOK
<1>3. CASE UNCHANGED data
  BY <1>0, <1>3 DEF DataOK
<1> QED BY <1>1, <1>2, <1>3, ElsewhereOK, Kinds DEF Moves, Restart, Begin, Send, TooLarge, Unlink, Sync,
          Accept, Rename, Insert, Cancel

(* Every step keeps TypeOK. *)
LEMMA TypeStep ==
  ASSUME SafeInv, [Next]_vars
  PROVE  TypeOK'
BY UpStep, NamesStep, DataStep, GoneKept, TypeParts DEF SafeInv

-------------------------------------------------------------------------------
(* Progress of an upload. *)

(* What Started says of one upload. *)
StartedAt(rec, name, stored) ==
  /\ IF rec.pc = "idle" THEN rec.session = Nowhere ELSE rec.session \in Session
  /\ rec.pc \in {"idle", "create"} => rec.inode = NoFile /\ rec.sent = 0
  /\ rec.pc \in {"write", "accept", "rename", "insert"} \/ stored => rec.inode # NoFile
  /\ rec.pc \in {"accept", "rename", "insert"} \/ stored => rec.landed = rec.size
  /\ rec.inode = NoFile => rec.sent = 0
  /\ rec.pc = "insert" \/ stored => name # NoFile
  /\ name # NoFile => rec.pc \in {"insert", "done"}
  /\ stored => rec.pc = "done"

(* Started, upload by upload, before and after a step. *)
LEMMA StartedAll ==
  /\ Started <=> \A u \in Upload : StartedAt(up[u], file[u], Stored(u))
  /\ Started' <=> \A u \in Upload : StartedAt(up'[u], file'[u], Stored(u)')
BY DEF Started, StartedAt

(* Nothing is stored by a step but what is being inserted. *)
LEMMA StoredStep ==
  ASSUME [Next]_vars, NEW v \in Upload, Stored(v)'
  PROVE  Stored(v) \/ Insert(v)
<1>1. CASE \E u \in Upload : Insert(u)
  BY <1>1 DEF Stored, Insert
<1>2. CASE \E u \in Upload : Destroy(u)
  BY <1>2 DEF Stored, Destroy
<1>3. CASE Flush \/ Restart
  BY <1>3 DEF Stored, Flush, Restart
<1>4. CASE UNCHANGED <<record, flushed>>
  BY <1>4 DEF Stored
<1> QED BY <1>1, <1>2, <1>3, <1>4 DEF Next, Serve, vars, NewSession, Expire, Begin, Create, Send,
          TooLarge, Unlink, Sync, Accept, Rename, Land, Cancel, GetPayload

(* Every step keeps Started. *)
LEMMA StartedStep ==
  ASSUME SafeInv, [Next]_vars
  PROVE  Started'
<1>0. /\ TypeOK /\ MaxLen \in Nat
      /\ up \in [Upload -> UploadRecord] /\ \A v \in Upload : UpOK(up[v])
      /\ \A v \in Upload : StartedAt(up[v], file[v], Stored(v))
  BY TypeUp, LengthAssumption, StartedAll DEF SafeInv
<1>1. SUFFICES ASSUME NEW v \in Upload
               PROVE  StartedAt(up'[v], file'[v], Stored(v)')
  BY StartedAll
<1>2. StartedAt(up[v], file[v], Stored(v)) /\ up[v] \in UploadRecord /\ UpOK(up[v])
  BY <1>0
(* An upload that a step leaves alone. *)
<1>3. ASSUME up'[v] = up[v], file'[v] = file[v], Stored(v)' => Stored(v)
      PROVE  StartedAt(up'[v], file'[v], Stored(v)')
  BY <1>2, <1>3 DEF StartedAt
<1>4. CASE Elsewhere
  <2>1. UNCHANGED <<up, file>>
    BY <1>4, ElsewhereOK
  <2>2. Stored(v)' => Stored(v)
    BY <1>4 DEF Elsewhere, Stored, Expire, NewSession, GetPayload, Destroy, Flush, vars
  <2> QED BY <1>3, <2>1, <2>2
<1>5. CASE Restart
  <2>1. file'[v] = file[v] /\ (Stored(v)' => Stored(v))
    BY <1>5 DEF Restart, Stored
  <2>2. up[v].landed \in 0..MaxLen + 1 /\ up[v].sent \in 0..MaxLen + 1 /\ up[v].landed <= up[v].sent
    BY <1>2 DEF UploadRecord, UpOK
  <2>3. up[v].sent = 0 => up[v].landed = 0
    BY <1>0, <2>2
  <2>4. /\ up'[v].session = up[v].session /\ up'[v].inode = up[v].inode
        /\ up'[v].size = up[v].size /\ up'[v].landed = up[v].landed
        /\ up[v].pc = "idle" => up'[v] = up[v]
        /\ up[v].pc = "refused" => up'[v].pc = "refused"
        /\ up[v].pc \notin {"idle", "refused"} => up'[v].pc = "done"
        /\ up[v].pc # "idle" => up'[v].sent = up[v].landed
    BY <1>0, <1>5, RestartOK
  <2>5. CASE up[v].pc = "idle"
    BY <1>3, <2>1, <2>4, <2>5
  <2>6. CASE up[v].pc = "refused"
    <3>1. ~Stored(v) /\ file[v] = NoFile /\ up'[v].pc = "refused" /\ up'[v].sent = up[v].landed
      BY <1>2, <2>4, <2>6 DEF StartedAt
    <3>2. ~Stored(v)' /\ file'[v] = NoFile
      BY <2>1, <3>1
    <3> QED BY <1>2, <2>3, <2>4, <2>6, <3>1, <3>2 DEF StartedAt
  <2>7. CASE up[v].pc \notin {"idle", "refused"}
    BY <1>2, <2>1, <2>3, <2>4, <2>7 DEF StartedAt
  <2> QED BY <2>5, <2>6, <2>7
<1>6. ASSUME NEW u \in Upload, NEW a \in Account, NEW s \in Session, NEW n \in 0..MaxLen + 1,
             Begin(u, a, s, n)
      PROVE  StartedAt(up'[v], file'[v], Stored(v)')
  <2>1. file' = file /\ Stored(v)' = Stored(v)
    BY <1>6 DEF Begin, Stored
  <2>2. up[u].sent = 0 /\ up[u].pc = "idle"
    BY <1>6 DEF Begin, SafeInv, Started
  <2>3. /\ up'[u].pc = "create" /\ up'[u].session = s /\ up'[u].sent = 0
        /\ up'[u].inode = up[u].inode
        /\ \A w \in Upload \ {u} : up'[w] = up[w]
    BY <1>0, <1>6, <2>2, BeginOK
  <2> QED BY <1>2, <1>3, <2>1, <2>2, <2>3 DEF StartedAt
<1>7. ASSUME NEW u \in Upload, Create(u)
      PROVE  StartedAt(up'[v], file'[v], Stored(v)')
  <2>1. file' = file /\ Stored(v)' = Stored(v) /\ up[u].session \in Session
    BY <1>7 DEF Create, Stored, SafeInv, Started
  <2>2. /\ up[u].pc = "create" /\ up'[u].pc = "write" /\ up'[u].inode \in Upload
        /\ up'[u].session = up[u].session
        /\ \A w \in Upload \ {u} : up'[w] = up[w]
    BY <1>0, <1>7, <2>1, CreateOK
  <2> QED BY <1>2, <1>3, <2>1, <2>2, NullAssumption DEF StartedAt
<1>8. ASSUME NEW u \in Upload, Send(u)
      PROVE  StartedAt(up'[v], file'[v], Stored(v)')
  <2>1. file' = file /\ Stored(v)' = Stored(v)
    BY <1>8 DEF Send, Stored
  <2>2. /\ up[u].pc = "write" /\ up'[u].pc = "write" /\ up'[u].session = up[u].session
        /\ up'[u].inode = up[u].inode
        /\ \A w \in Upload \ {u} : up'[w] = up[w]
    BY <1>0, <1>8, SendOK
  <2> QED BY <1>2, <1>3, <2>1, <2>2 DEF StartedAt
<1>9. ASSUME NEW u \in Upload, Land(u)
      PROVE  StartedAt(up'[v], file'[v], Stored(v)')
  <2>1. file' = file /\ Stored(v)' = Stored(v)
    BY <1>9 DEF Land, Stored
  <2>2. /\ up'[u].pc = up[u].pc /\ up'[u].session = up[u].session
        /\ up'[u].inode = up[u].inode /\ up'[u].sent = up[u].sent
        /\ up[u].landed < up[u].sent
        /\ \A w \in Upload \ {u} : up'[w] = up[w]
    BY <1>0, <1>9, LandOK
  <2>3. ASSUME v = u PROVE up[v].landed # up[v].size /\ up[v].sent # 0
    <3>1. /\ up[v].landed \in 0..MaxLen + 1 /\ up[v].sent \in 0..MaxLen + 1
          /\ up[v].size \in 0..MaxLen + 1 /\ up[v].sent <= up[v].size
      BY <1>2 DEF UploadRecord, UpOK
    <3> QED BY <1>0, <2>2, <2>3, <3>1
  <2> QED BY <1>2, <1>3, <2>1, <2>2, <2>3 DEF StartedAt
<1>10. ASSUME NEW u \in Upload, Moves(u)
       PROVE  StartedAt(up'[v], file'[v], Stored(v)')
  <2>0. up[u].session \in Session
    <3>1. up[u].pc # "idle"
      BY <1>10 DEF Moves, TooLarge, Unlink, Sync, Accept, Rename, Insert, Cancel
    <3> QED BY <3>1 DEF SafeInv, Started
  <2>1. ASSUME v # u PROVE StartedAt(up'[v], file'[v], Stored(v)')
    <3>1. up'[v] = up[v]
      <4>1. PICK from, to : MoveTo(u, from, to)
        BY <1>0, <1>10, MoveKinds DEF Moves
      <4> QED BY <1>0, <2>1, <4>1, MoveOK
    <3>2. file'[v] = file[v]
      BY <1>0, <1>10, <2>1 DEF TypeOK, Moves, TooLarge, Unlink, Sync, Accept, Rename, Insert, Cancel
    <3>3. Stored(v)' => Stored(v)
      BY <1>10, <2>1 DEF Stored, Moves, TooLarge, Unlink, Sync, Accept, Rename, Insert, Cancel
    <3> QED BY <1>3, <3>1, <3>2, <3>3
  <2>2. ASSUME v = u, TooLarge(u) \/ Unlink(u) \/ Cancel(u)
        PROVE StartedAt(up'[v], file'[v], Stored(v)')
    <3>1. file' = file /\ Stored(v)' = Stored(v)
      BY <2>2 DEF TooLarge, Unlink, Cancel, Stored
    <3>2. PICK from \in Pc, to \in {"unlink", "done", "refused"} :
            /\ MoveTo(u, from, to)
            /\ to = "unlink" => from = "write"
            /\ to = "refused" => from = "unlink"
      BY <1>0, <2>2, MoveKinds DEF MoveTo
    <3>3. /\ up'[u].pc = to /\ up[u].pc = from /\ up'[u].session = up[u].session
          /\ up'[u].inode = up[u].inode /\ up'[u].sent = up[u].sent
          /\ up'[u].landed = up[u].landed /\ up'[u].size = up[u].size
      BY <1>0, <3>2, MoveOK DEF Quiet, MoveTo
    <3>4. CASE to = "unlink"
      BY <1>2, <2>0, <2>2, <3>1, <3>2, <3>3, <3>4 DEF StartedAt
    <3>5. CASE to = "done"
      BY <1>2, <2>0, <2>2, <3>1, <3>2, <3>3, <3>5 DEF StartedAt
    <3>6. CASE to = "refused"
      <4>1. from = "unlink"
        BY <3>2, <3>6
      <4> QED BY <1>2, <2>0, <2>2, <3>1, <3>3, <3>6, <4>1 DEF StartedAt
    <3> QED BY <3>4, <3>5, <3>6
  <2>3. ASSUME v = u, Sync(u) PROVE StartedAt(up'[v], file'[v], Stored(v)')
    <3>1. file' = file /\ Stored(v)' = Stored(v) /\ up[u].landed = up[u].size
      BY <2>3 DEF Sync, Flushed, Stored
    <3>2. MoveTo(u, "write", "accept")
      BY <1>0, <2>3, MoveKinds
    <3>3. /\ up'[u].pc = "accept" /\ up[u].pc = "write" /\ up'[u].session = up[u].session
          /\ up'[u].inode = up[u].inode /\ up'[u].sent = up[u].sent
          /\ up'[u].landed = up[u].landed /\ up'[u].size = up[u].size
      BY <1>0, <3>2, MoveOK DEF Quiet, MoveTo
    <3> QED BY <1>2, <2>0, <2>3, <3>1, <3>3 DEF StartedAt
  <2>4. ASSUME v = u, Accept(u) PROVE StartedAt(up'[v], file'[v], Stored(v)')
    <3>1. file' = file /\ Stored(v)' = Stored(v)
      BY <2>4 DEF Accept, Stored
    <3>2. PICK to \in {"rename", "done"} : MoveTo(u, "accept", to)
      BY <1>0, <2>4, MoveKinds
    <3>3. /\ up'[u].pc = to /\ up[u].pc = "accept" /\ up'[u].session = up[u].session
          /\ up'[u].inode = up[u].inode /\ up'[u].sent = up[u].sent
          /\ up'[u].landed = up[u].landed /\ up'[u].size = up[u].size
      BY <1>0, <3>2, MoveOK DEF Quiet, MoveTo
    <3> QED BY <1>2, <2>0, <2>4, <3>1, <3>3 DEF StartedAt
  <2>5. ASSUME v = u, Rename(u) PROVE StartedAt(up'[v], file'[v], Stored(v)')
    <3>1. /\ file'[u] = buf[up[u].session] /\ Stored(v)' = Stored(v)
          /\ Go(u, IF buf[up[u].session] = NoFile THEN "done" ELSE "insert")
      BY <1>0, <2>5 DEF Rename, Stored, TypeOK
    <3>2. MoveTo(u, "rename", IF file'[u] = NoFile THEN "done" ELSE "insert")
      BY <2>5, <3>1 DEF MoveTo, Pc, Rename
    <3>3. /\ up'[u].pc = IF file'[u] = NoFile THEN "done" ELSE "insert"
          /\ up[u].pc = "rename" /\ up'[u].session = up[u].session
          /\ up'[u].inode = up[u].inode /\ up'[u].sent = up[u].sent
          /\ up'[u].landed = up[u].landed /\ up'[u].size = up[u].size
      BY <1>0, <3>2, MoveOK DEF Quiet, MoveTo
    <3> QED BY <1>2, <2>0, <2>5, <3>1, <3>3 DEF StartedAt
  <2>6. ASSUME v = u, Insert(u) PROVE StartedAt(up'[v], file'[v], Stored(v)')
    <3>1. file' = file
      BY <2>6 DEF Insert
    <3>2. MoveTo(u, "insert", "done")
      BY <1>0, <2>6, MoveKinds
    <3>3. /\ up'[u].pc = "done" /\ up[u].pc = "insert" /\ up'[u].session = up[u].session
          /\ up'[u].inode = up[u].inode /\ up'[u].sent = up[u].sent
          /\ up'[u].landed = up[u].landed /\ up'[u].size = up[u].size
      BY <1>0, <3>2, MoveOK DEF Quiet, MoveTo
    <3> QED BY <1>2, <2>0, <2>6, <3>1, <3>3 DEF StartedAt
  <2> QED BY <1>10, <2>1, <2>2, <2>3, <2>4, <2>5, <2>6 DEF Moves
<1> QED BY <1>4, <1>5, <1>6, <1>7, <1>8, <1>9, <1>10, Kinds

-------------------------------------------------------------------------------
(* Names and inodes. *)

(* All steps but the first two of an upload are quiet. *)
LEMMA QuietStep ==
  ASSUME TypeOK, [Next]_vars
  PROVE  \/ Quiet
         \/ \E u \in Upload :
              \/ \E a \in Account, s \in Session, n \in 0..MaxLen + 1 : Begin(u, a, s, n)
              \/ Create(u)
<1>0. MaxLen \in Nat
  BY LengthAssumption
<1>1. CASE Elsewhere
  BY <1>1, ElsewhereOK DEF Quiet
<1>2. CASE Restart
  BY <1>2, RestartOK DEF Quiet
<1>3. ASSUME NEW u \in Upload, Send(u) PROVE Quiet
  BY <1>0, <1>3, SendOK DEF Quiet
<1>4. ASSUME NEW u \in Upload, Land(u) PROVE Quiet
  BY <1>0, <1>4, LandOK DEF Quiet
<1>5. ASSUME NEW u \in Upload, Moves(u) PROVE Quiet
  <2>1. PICK from, to : MoveTo(u, from, to)
    BY <1>5, MoveKinds DEF Moves
  <2> QED BY <2>1, MoveOK
<1> QED BY <1>1, <1>2, <1>3, <1>4, <1>5, Kinds

(* Begun, after the step. *)
BegunThen(u) == up'[u].pc \notin {"idle", "create"}

(* Every step keeps Inodes: only Create and Rename give an inode a name. *)
LEMMA InodesStep ==
  ASSUME SafeInv, [Next]_vars
  PROVE  Inodes'
<1>0. /\ TypeOK /\ Inodes /\ NoFile \notin Upload
      /\ buf \in [Session -> Upload \cup {NoFile}] /\ file \in [Upload -> Upload \cup {NoFile}]
      /\ \A v \in Upload : up[v].inode \in Upload \cup {NoFile}
  BY TypeUp, NullAssumption DEF SafeInv, TypeOK, UploadRecord
<1>1. ASSUME Quiet, UNCHANGED file,
             \A s \in Session : buf'[s] \in {buf[s], NoFile}
      PROVE  Inodes'
  BY <1>0, <1>1 DEF Quiet, Inodes, Begun, BegunThen
<1>2. ASSUME NEW u \in Upload, NEW a \in Account, NEW s \in Session, NEW n \in 0..MaxLen + 1,
             Begin(u, a, s, n)
      PROVE  Inodes'
  <2>1. /\ UNCHANGED <<buf, file>> /\ up[u].pc = "idle" /\ up[u].sent = 0
        /\ up[u].inode = NoFile /\ file[u] = NoFile
    BY <1>2 DEF Begin, SafeInv, Started
  <2>2. /\ up'[u].inode = NoFile /\ \A v \in Upload \ {u} : up'[v] = up[v]
    BY <1>0, <1>2, <2>1, BeginOK
  <2>3. /\ \A x \in Session : buf[x] # u
        /\ \A v \in Upload : up[v].inode # u /\ file[v] # u
    BY <1>0, <2>1 DEF Inodes, Begun, BegunThen
  <2> QED BY <1>0, <2>1, <2>2, <2>3 DEF Inodes, Begun, BegunThen
<1>3. ASSUME NEW u \in Upload, Create(u)
      PROVE  Inodes'
  <2> DEFINE s == up[u].session
             i == IF buf[s] = NoFile THEN u ELSE buf[s]
  <2>1. /\ UNCHANGED file /\ up[u].pc = "create" /\ file[u] = NoFile /\ s \in Session
    BY <1>3 DEF Create, SafeInv, Started
  <2>2. /\ i \in Upload /\ up'[u].pc = "write" /\ up'[u].inode = i /\ up'[u].session = s
        /\ \A v \in Upload \ {u} : up'[v] = up[v]
        /\ buf'[s] = i /\ \A x \in Session \ {s} : buf'[x] = buf[x]
    BY <1>0, <1>3, <2>1, CreateOK
  <2>3. /\ \A x \in Session : buf[x] # u
        /\ \A v \in Upload : up[v].inode # u /\ file[v] # u
    BY <1>0, <2>1 DEF Inodes, Begun, BegunThen
  <2>4. BegunThen(i) /\ up'[i].session = s /\ \A v \in Upload : file[v] # i
    BY <1>0, <2>1, <2>2, <2>3 DEF Inodes, Begun, BegunThen
  <2> HIDE DEF i, s
  <2>5. \A x \in Session : buf'[x] # NoFile => BegunThen(buf'[x]) /\ up'[buf'[x]].session = x
    BY <1>0, <2>1, <2>2, <2>3, <2>4 DEF Inodes, Begun, BegunThen
  <2>6. ASSUME NEW v \in Upload, up'[v].inode # NoFile
        PROVE  BegunThen(up'[v].inode) /\ up'[up'[v].inode].session = up'[v].session
    BY <1>0, <2>1, <2>2, <2>3, <2>4, <2>6 DEF Inodes, Begun, BegunThen
  <2>7. ASSUME NEW v \in Upload, file'[v] # NoFile
        PROVE  /\ BegunThen(file'[v]) /\ up'[file'[v]].session = up'[v].session
               /\ \A x \in Session : buf'[x] # file'[v]
               /\ \A w \in Upload : v # w => file'[v] # file'[w]
    BY <1>0, <2>1, <2>2, <2>3, <2>4, <2>7 DEF Inodes, Begun, BegunThen
  <2> QED BY <2>5, <2>6, <2>7 DEF Inodes, Begun, BegunThen
<1>4. ASSUME NEW u \in Upload, Unlink(u), Quiet
      PROVE  Inodes'
  BY <1>0, <1>1, <1>4 DEF Unlink
<1>5. ASSUME NEW u \in Upload, Rename(u), Quiet
      PROVE  Inodes'
  <2> DEFINE s == up[u].session
  <2>1. s \in Session
    BY <1>5 DEF Rename, SafeInv, Started
  <2>2. /\ file'[u] = buf[s] /\ \A v \in Upload \ {u} : file'[v] = file[v]
        /\ buf'[s] = NoFile /\ \A x \in Session \ {s} : buf'[x] = buf[x]
    BY <1>0, <1>5, <2>1 DEF Rename
  <2> HIDE DEF s
  <2>3. \A x \in Session : buf'[x] # NoFile => BegunThen(buf'[x]) /\ up'[buf'[x]].session = x
    BY <1>0, <1>5, <2>1, <2>2 DEF Quiet, Inodes, Begun, BegunThen
  <2>4. \A v \in Upload : LET i == up'[v].inode IN
          i # NoFile => BegunThen(i) /\ up'[i].session = up'[v].session
    BY <1>0, <1>5 DEF Quiet, Inodes, Begun, BegunThen
  <2>5. ASSUME NEW v \in Upload, file'[v] # NoFile, v # u
        PROVE  /\ BegunThen(file'[v]) /\ up'[file'[v]].session = up'[v].session
               /\ \A x \in Session : buf'[x] # file'[v]
               /\ \A w \in Upload : v # w => file'[v] # file'[w]
    BY <1>0, <1>5, <2>1, <2>2, <2>5 DEF Quiet, Inodes, Begun, BegunThen
  <2>6. ASSUME file'[u] # NoFile
        PROVE  /\ BegunThen(file'[u]) /\ up'[file'[u]].session = up'[u].session
               /\ \A x \in Session : buf'[x] # file'[u]
               /\ \A w \in Upload : u # w => file'[u] # file'[w]
    <3>1. /\ buf[s] \in Upload /\ Begun(buf[s]) /\ up[buf[s]].session = s
      BY <1>0, <2>1, <2>2, <2>6 DEF Inodes
    <3>2. BegunThen(file'[u]) /\ up'[file'[u]].session = up'[u].session
      BY <1>0, <1>5, <2>2, <3>1 DEF Quiet, Begun, BegunThen, s
    <3>3. \A x \in Session : buf'[x] # file'[u]
      BY <1>0, <2>1, <2>2, <3>1 DEF Inodes
    <3>4. \A w \in Upload : u # w => file'[u] # file'[w]
      BY <1>0, <2>1, <2>2, <3>1 DEF Inodes
    <3> QED BY <3>2, <3>3, <3>4
  <2> QED BY <2>3, <2>4, <2>5, <2>6 DEF Inodes, Begun, BegunThen
<1>6. ASSUME Quiet, ~\E u \in Upload : Unlink(u) \/ Rename(u) \/ Create(u)
      PROVE  Inodes'
  <2>1. UNCHANGED <<buf, file>>
    BY <1>6, ElsewhereOK, Kinds DEF Moves, Restart, Begin, Send, Land, TooLarge, Sync, Accept, Insert, Cancel
  <2> QED BY <1>0, <1>1, <1>6, <2>1
<1> QED BY <1>0, <1>2, <1>3, <1>4, <1>5, <1>6, QuietStep

-------------------------------------------------------------------------------
(* Sessions and their resources. *)

(* Only Accept makes a winner, and who has won stays as it is. *)
LEMMA WonStep ==
  ASSUME SafeInv, [Next]_vars, NEW v \in Upload, Won(v)', ~Accept(v)
  PROVE  Won(v) /\ up'[v].session = up[v].session /\ up'[v].who = up[v].who
<1>0. TypeOK /\ MaxLen \in Nat
  BY LengthAssumption DEF SafeInv
<1>1. ASSUME Stored(v)' PROVE Won(v)
  <2>1. CASE Stored(v)
    BY <2>1 DEF Won
  <2>2. CASE Insert(v)
    BY <2>2 DEF Insert, Won
  <2> QED BY <1>1, <2>1, <2>2, StoredStep
<1>2. ASSUME up'[v].pc \in {"rename", "insert"} PROVE Won(v)
  <2>1. CASE up'[v].pc = up[v].pc
    BY <1>2, <2>1 DEF Won
  <2>2. CASE Restart
    BY <1>0, <1>2, <2>1, <2>2, RestartOK
  <2>3. ASSUME NEW u \in Upload, NEW a \in Account, NEW s \in Session, NEW n \in 0..MaxLen + 1,
               Begin(u, a, s, n)
        PROVE  Won(v)
    <3>1. up[u].sent = 0
      BY <2>3 DEF Begin, SafeInv, Started
    <3>2. up'[u].pc = "create" /\ \A w \in Upload \ {u} : up'[w] = up[w]
      BY <1>0, <2>3, <3>1, BeginOK
    <3> QED BY <1>2, <2>1, <3>2
  <2>4. ASSUME NEW u \in Upload, Create(u) PROVE Won(v)
    <3>1. up[u].session \in Session
      BY <2>4 DEF Create, SafeInv, Started
    <3>2. up'[u].pc = "write" /\ \A w \in Upload \ {u} : up'[w] = up[w]
      BY <1>0, <2>4, <3>1, CreateOK
    <3> QED BY <1>2, <2>1, <3>2
  <2>5. ASSUME NEW u \in Upload, Send(u) \/ Land(u) PROVE Won(v)
    BY <1>0, <2>1, <2>5, SendOK, LandOK
  <2>6. ASSUME NEW u \in Upload, Moves(u), u # v PROVE Won(v)
    <3>1. PICK from, to : MoveTo(u, from, to)
      BY <1>0, <2>6, MoveKinds DEF Moves
    <3> QED BY <1>0, <2>1, <2>6, <3>1, MoveOK
  <2>7. CASE Moves(v)
    <3>1. CASE Rename(v)
      BY <3>1 DEF Rename, Won
    <3>2. CASE ~Rename(v)
      <4>1. CASE Accept(v)
        BY <4>1
      <4>2. CASE ~Accept(v)
        <5>1. PICK from \in Pc, to \in {"unlink", "accept", "done", "refused"} : MoveTo(v, from, to)
          BY <1>0, <2>7, <3>2, <4>2, MoveKinds DEF Moves, MoveTo
        <5> QED BY <1>0, <1>2, <5>1, MoveOK
      <4> QED BY <4>1, <4>2
    <3> QED BY <3>1, <3>2
  <2>8. CASE Elsewhere
    BY <2>1, <2>8, ElsewhereOK
  <2> QED BY <2>2, <2>3, <2>4, <2>5, <2>6, <2>7, <2>8, Kinds
<1>3. Won(v)
  BY <1>1, <1>2 DEF Won
<1>4. up[v].pc \notin {"idle", "create"}
  BY <1>3 DEF Won, SafeInv, Started
<1>5. ASSUME NEW u \in Upload, NEW a \in Account, NEW s \in Session, NEW n \in 0..MaxLen + 1,
             Begin(u, a, s, n)
      PROVE  up'[v] = up[v]
  <2>1. up[u].sent = 0 /\ up[u].pc = "idle"
    BY <1>5 DEF Begin, SafeInv, Started
  <2> QED BY <1>0, <1>4, <1>5, <2>1, BeginOK
<1>6. ASSUME NEW u \in Upload, Create(u) PROVE up'[v] = up[v]
  <2>1. up[u].session \in Session /\ up[u].pc = "create"
    BY <1>6 DEF Create, SafeInv, Started
  <2> QED BY <1>0, <1>4, <1>6, <2>1, CreateOK
<1> QED BY <1>0, <1>3, <1>5, <1>6, QuietStep DEF Quiet

(* Every step keeps OneWinner: Accept takes an open session, and leaves it gone. *)
LEMMA WinnerStep ==
  ASSUME SafeInv, [Next]_vars
  PROVE  OneWinner'
<1>0. TypeOK /\ session \in [Session -> SessionRecord]
  BY DEF SafeInv, TypeOK
<1>1. ASSUME NEW v \in Upload, Won(v)
      PROVE  up[v].session \in Session
  BY <1>1 DEF Won, SafeInv, Started
<1>2. ASSUME NEW v \in Upload, Won(v)', ~Accept(v)
      PROVE  session'[up'[v].session] = [state |-> "gone", owner |-> up'[v].who]
  <2>1. Won(v) /\ up'[v].session = up[v].session /\ up'[v].who = up[v].who
    BY <1>2, WonStep
  <2> QED BY <1>0, <1>1, <2>1, GoneKept DEF SafeInv, OneWinner
<1>3. ASSUME NEW u \in Upload, Accept(u), Won(u)'
      PROVE  /\ up'[u].session = up[u].session /\ up'[u].who = up[u].who
             /\ session'[up[u].session] = [state |-> "gone", owner |-> up[u].who]
             /\ session[up[u].session].state = "open" /\ up[u].session \in Session
  <2> DEFINE s == up[u].session
  <2>1. s \in Session /\ up[u].pc = "accept" /\ ~Stored(u)
    BY <1>3 DEF Accept, SafeInv, Started
  <2>2. ~Stored(u)'
    BY <1>3, <2>1 DEF Accept, Stored
  <2>3. up'[u].pc = "rename"
    <3>1. PICK to \in {"rename", "done"} : MoveTo(u, "accept", to)
      BY <1>0, <1>3, MoveKinds
    <3> QED BY <1>0, <1>3, <2>2, <3>1, MoveOK DEF Won
  <2>4. ~Go(u, "done")
    <3>1. ASSUME Go(u, "done") PROVE up'[u].pc = "done"
      BY <1>0, <3>1, GoOK DEF Pc
    <3> QED BY <2>3, <3>1
  <2>5. /\ CleanedUp[s].state = "open" /\ session[s].owner = up[u].who
        /\ session' = [CleanedUp EXCEPT ![s].state = "gone"] /\ Go(u, "rename")
    BY <1>3, <2>4 DEF Accept
  <2>6. session[s].state = "open" /\ CleanedUp[s] = session[s]
    BY <2>1, <2>5 DEF CleanedUp
  <2>7. session'[s] = [session[s] EXCEPT !.state = "gone"]
    <3>1. CleanedUp = [x \in Session |-> CleanedUp[x]]
      BY DEF CleanedUp
    <3>2. session' = [CleanedUp EXCEPT ![s] = [CleanedUp[s] EXCEPT !.state = "gone"]]
      BY <2>5
    <3> HIDE DEF s
    <3> QED BY <2>1, <2>6, <3>1, <3>2
  <2>8. session'[s] = [state |-> "gone", owner |-> up[u].who]
    <3>1. session[s] \in SessionRecord /\ session[s].owner = up[u].who
      BY <1>0, <2>1, <2>5
    <3> QED BY <2>7, <3>1 DEF SessionRecord
  <2>9. up'[u].session = s /\ up'[u].who = up[u].who
    BY <1>0, <2>5, GoOK DEF Pc, Body
  <2> QED BY <2>1, <2>6, <2>8, <2>9
<1>4. ASSUME NEW v \in Upload, Won(v)'
      PROVE  session'[up'[v].session] = [state |-> "gone", owner |-> up'[v].who]
  BY <1>2, <1>3, <1>4
<1>5. ASSUME NEW u \in Upload, NEW v \in Upload, u # v, Won(u)', Won(v)', ~Accept(v)
      PROVE  up'[u].session # up'[v].session
  <2>1. Won(v) /\ up'[v].session = up[v].session /\ session[up[v].session].state = "gone"
    <3>1. Won(v) /\ up'[v].session = up[v].session
      BY <1>5, WonStep
    <3>2. session[up[v].session] = [state |-> "gone", owner |-> up[v].who]
      BY <3>1 DEF SafeInv, OneWinner
    <3> QED BY <3>1, <3>2
  <2>2. CASE Accept(u)
    BY <1>3, <1>5, <2>1, <2>2
  <2>3. CASE ~Accept(u)
    <3>1. Won(u) /\ up'[u].session = up[u].session
      BY <1>5, <2>3, WonStep
    <3> QED BY <1>5, <2>1, <3>1 DEF SafeInv, OneWinner
  <2> QED BY <2>2, <2>3
<1>6. ASSUME NEW u \in Upload, NEW v \in Upload, u # v, Accept(u)
      PROVE  ~Accept(v)
  <2>1. up[v].pc = "accept" => up'[v].pc = "accept"
    <3>1. PICK to \in {"rename", "done"} : MoveTo(u, "accept", to)
      BY <1>0, <1>6, MoveKinds
    <3> QED BY <1>0, <1>6, <3>1, MoveOK
  <2>2. ASSUME Accept(v) PROVE up[v].pc = "accept" /\ up'[v].pc # "accept"
    <3>1. PICK to \in {"rename", "done"} : MoveTo(v, "accept", to)
      BY <1>0, <2>2, MoveKinds
    <3> QED BY <1>0, <2>2, <3>1, MoveOK DEF MoveTo
  <2> QED BY <2>1, <2>2
<1> QED BY <1>4, <1>5, <1>6 DEF OneWinner

(* Only Accept lets an upload past "accept", and it cleans up first. *)
LEMMA AcceptInTime ==
  ASSUME SafeInv, [Next]_vars, NEW u \in Upload, up[u].pc = "accept", up'[u].pc = "rename"
  PROVE  session[up[u].session].state = "open"
<1>1. ~Won(u)
  BY DEF Won, SafeInv, Started
<1>2. Won(u)'
  BY DEF Won
<1>3. Accept(u)
  BY <1>1, <1>2, WonStep
<1>4. TypeOK /\ up[u].session \in Session
  BY DEF SafeInv, Started
<1>5. ~Go(u, "done")
  <2>1. ASSUME Go(u, "done") PROVE up'[u].pc = "done"
    BY <1>4, <2>1, GoOK DEF Pc
  <2> QED BY <2>1
<1>6. CleanedUp[up[u].session].state = "open"
  BY <1>3, <1>5 DEF Accept
<1> QED BY <1>4, <1>6 DEF CleanedUp, TypeOK, SessionRecord

-------------------------------------------------------------------------------
(* The buffer of an upload at work. *)

Working == {"write", "unlink", "accept", "rename"}

(* What a step does to one upload: it leaves it alone, or it is a step of that *)
(* upload, or the restart.                                                     *)
LEMMA OneMoves ==
  ASSUME SafeInv, [Next]_vars, NEW v \in Upload
  PROVE  \/ up'[v] = up[v]
         \/ /\ up[v].pc = "idle" /\ up'[v].pc = "create"
         \/ Create(v)
         \/ /\ up'[v].pc = up[v].pc \/ (up'[v].pc = "done" /\ Restart)
            /\ up'[v].session = up[v].session
         \/ /\ Moves(v) /\ \E from, to : MoveTo(v, from, to)
            /\ up'[v].session = up[v].session
<1>0. TypeOK /\ MaxLen \in Nat
  BY LengthAssumption DEF SafeInv
<1>1. CASE Elsewhere
  BY <1>1, ElsewhereOK
<1>2. CASE Restart
  BY <1>0, <1>2, RestartOK
<1>3. ASSUME NEW u \in Upload, NEW a \in Account, NEW s \in Session, NEW n \in 0..MaxLen + 1,
             Begin(u, a, s, n)
      PROVE  up'[v] = up[v] \/ (up[v].pc = "idle" /\ up'[v].pc = "create")
  <2>1. up[u].sent = 0
    BY <1>3 DEF Begin, SafeInv, Started
  <2> QED BY <1>0, <1>3, <2>1, BeginOK
<1>4. ASSUME NEW u \in Upload, Create(u) PROVE up'[v] = up[v] \/ Create(v)
  <2>1. up[u].session \in Session
    BY <1>4 DEF Create, SafeInv, Started
  <2> QED BY <1>0, <1>4, <2>1, CreateOK
<1>5. ASSUME NEW u \in Upload, Send(u) \/ Land(u)
      PROVE  \/ up'[v] = up[v]
             \/ up'[v].pc = up[v].pc /\ up'[v].session = up[v].session
  BY <1>0, <1>5, SendOK, LandOK
<1>6. ASSUME NEW u \in Upload, Moves(u), up'[v] # up[v]
      PROVE  /\ Moves(v) /\ \E from, to : MoveTo(v, from, to)
             /\ up'[v].session = up[v].session
  <2>1. PICK from, to : MoveTo(u, from, to)
    BY <1>0, <1>6, MoveKinds DEF Moves
  <2>2. v = u /\ Quiet
    BY <1>0, <1>6, <2>1, MoveOK
  <2> QED BY <1>6, <2>1, <2>2 DEF Quiet
<1> QED BY <1>1, <1>2, <1>3, <1>4, <1>5, <1>6, Kinds

(* An upload refused as too large stays so, with the session it had. *)
LEMMA RefusedStays ==
  ASSUME SafeInv, [Next]_vars, NEW v \in Upload, up[v].pc = "refused"
  PROVE  up'[v].pc = "refused" /\ up'[v].session = up[v].session
<1>1. Restart => up'[v].pc = "refused"
  BY RestartOK DEF SafeInv
<1> QED BY <1>1, OneMoves DEF Create, MoveTo

(* The way of an upload between its buffer and the rename of that. *)
LEMMA AtWork ==
  ASSUME SafeInv, [Next]_vars, NEW u \in Upload, up'[u].pc \in Working, ~Create(u)
  PROVE  /\ up[u].pc \in Working
         /\ up'[u].session = up[u].session
         /\ up'[u].pc = "rename" => up[u].pc \in {"accept", "rename"}
<1>0. TypeOK
  BY DEF SafeInv
<1>1. ASSUME Moves(u), NEW from, NEW to, MoveTo(u, from, to)
      PROVE  /\ up[u].pc \in Working
             /\ up'[u].pc = "rename" => up[u].pc = "accept"
  <2>1. to = up'[u].pc
    BY <1>0, <1>1, MoveOK
  <2>2. CASE TooLarge(u)
    <3>1. up[u].pc = "write" /\ up'[u].pc = "unlink"
      BY <1>0, <2>2, MoveKinds, MoveOK DEF MoveTo
    <3> QED BY <2>2, <3>1 DEF Working
  <2>3. CASE Sync(u)
    <3>1. up[u].pc = "write" /\ up'[u].pc = "accept"
      BY <1>0, <2>3, MoveKinds, MoveOK DEF MoveTo
    <3> QED BY <3>1 DEF Working
  <2>4. CASE Accept(u)
    <3>1. up[u].pc = "accept" /\ up'[u].pc \in {"rename", "done"}
      BY <1>0, <2>4, MoveKinds, MoveOK DEF MoveTo
    <3> QED BY <3>1 DEF Working
  <2>5. CASE Unlink(u) \/ Rename(u) \/ Insert(u) \/ Cancel(u)
    <3>1. up'[u].pc \in {"insert", "done", "refused"}
      BY <1>0, <2>5, MoveKinds, MoveOK DEF MoveTo
    <3> QED BY <3>1 DEF Working
  <2> QED BY <1>1, <2>2, <2>3, <2>4, <2>5 DEF Moves
<1> QED BY <1>1, OneMoves DEF Working

(* Once an upload into its session was refused as too large, that stays so. *)
LEMMA RemovedStays ==
  ASSUME SafeInv, [Next]_vars, NEW u \in Upload, Removed(u), up'[u].session = up[u].session
  PROVE  Removed(u)'
<1>1. PICK v \in Upload \ {u} : up[v].session = up[u].session /\ up[v].pc = "refused"
  BY DEF Removed
<1>2. up'[v].session = up'[u].session /\ up'[v].pc = "refused"
  BY <1>1, RefusedStays
<1> QED BY <1>2 DEF Removed

(* Of all steps only a rename or a removal takes a buffer away. *)
LEMMA BufferTaken ==
  ASSUME SafeInv, [Next]_vars, NEW s \in Session, buf[s] # NoFile, buf'[s] = NoFile
  PROVE  \E x \in Upload : up[x].session = s /\ (Unlink(x) \/ Rename(x))
<1>0. buf \in [Session -> Upload \cup {NoFile}] /\ TypeOK
  BY DEF SafeInv, TypeOK
<1>1. ~Elsewhere
  BY ElsewhereOK
<1>2. ~Restart /\ \A u \in Upload : ~(Send(u) \/ Land(u))
  BY DEF Restart, Send, Land
<1>3. \A u \in Upload, a \in Account, x \in Session, n \in 0..MaxLen + 1 : ~Begin(u, a, x, n)
  BY DEF Begin
<1>4. ASSUME NEW u \in Upload, Create(u) PROVE FALSE
  <2>1. up[u].session \in Session
    BY <1>4 DEF Create, SafeInv, Started
  <2> QED BY <1>0, <1>4, <2>1, CreateOK, NullAssumption
<1>5. PICK u \in Upload : Moves(u)
  BY <1>1, <1>2, <1>3, <1>4, Kinds
<1>6. Unlink(u) \/ Rename(u)
  BY <1>5 DEF Moves, TooLarge, Sync, Accept, Insert, Cancel
<1>7. up[u].session = s
  BY <1>0, <1>6 DEF Unlink, Rename
<1> QED BY <1>6, <1>7

(* Every step keeps BufferKept. *)
LEMMA BufferStep ==
  ASSUME SafeInv, [Next]_vars
  PROVE  BufferKept'
<1>0. TypeOK /\ BufferKept
  BY DEF SafeInv
<1>1. ASSUME NEW u \in Upload, up'[u].pc \in Working, buf'[up'[u].session] = NoFile
      PROVE  \/ Removed(u)'
             \/ up'[u].pc # "rename" /\ session'[up'[u].session].state = "gone"
  <2>1. ~Create(u)
    <3>1. ASSUME Create(u)
          PROVE  buf'[up'[u].session] \in Upload
      <4>1. up[u].session \in Session
        BY <3>1 DEF Create, SafeInv, Started
      <4> QED BY <1>0, <3>1, <4>1, CreateOK
    <3> QED BY <1>1, <3>1, NullAssumption
  <2> DEFINE s == up[u].session
  <2>2. /\ up[u].pc \in Working /\ up'[u].session = s /\ s \in Session
        /\ up'[u].pc = "rename" => up[u].pc \in {"accept", "rename"}
    <3>1. /\ up[u].pc \in Working /\ up'[u].session = s
          /\ up'[u].pc = "rename" => up[u].pc \in {"accept", "rename"}
      BY <1>1, <2>1, AtWork
    <3> QED BY <3>1 DEF Working, SafeInv, Started
  <2>3. session[s].state = "gone" =>
          session'[s].state = "gone" /\ (up[u].pc = "accept" => up'[u].pc # "rename")
    <3>1. session[s].state = "gone" => session'[s].state = "gone"
      BY <1>0, <2>2, GoneKept
    <3>2. up[u].pc = "accept" /\ up'[u].pc = "rename" => session[s].state = "open"
      BY AcceptInTime
    <3> QED BY <3>1, <3>2
  <2>4. CASE buf[s] = NoFile
    <3>1. Removed(u) \/ (up[u].pc # "rename" /\ session[s].state = "gone")
      BY <1>0, <2>2, <2>4 DEF BufferKept, Working
    <3>2. CASE Removed(u)
      BY <2>2, <3>2, RemovedStays
    <3>3. CASE up[u].pc # "rename" /\ session[s].state = "gone"
      BY <2>2, <2>3, <3>3
    <3> QED BY <3>1, <3>2, <3>3
  <2>5. CASE buf[s] # NoFile
    <3>1. PICK x \in Upload : up[x].session = s /\ (Unlink(x) \/ Rename(x))
      BY <1>1, <2>2, <2>5, BufferTaken
    <3>2. PICK to \in {"insert", "done", "refused"} : up'[x].pc = to
      BY <1>0, <3>1, MoveKinds, MoveOK
    <3>3. x # u
      BY <1>1, <3>2 DEF Working
    <3>4. CASE Unlink(x)
      <4>1. MoveTo(x, "unlink", "refused") /\ up[x].pc = "unlink"
        BY <1>0, <3>4, MoveKinds DEF MoveTo
      <4>2. up'[x].pc = "refused" /\ up'[x].session = s
        BY <1>0, <3>1, <4>1, MoveOK DEF Quiet
      <4> QED BY <2>2, <3>3, <4>2 DEF Removed
    <3>5. CASE Rename(x)
      <4>1. Won(x) /\ session[s].state = "gone"
        <5>1. Won(x)
          BY <3>5 DEF Rename, Won
        <5>2. session[s] = [state |-> "gone", owner |-> up[x].who]
          BY <3>1, <5>1 DEF SafeInv, OneWinner
        <5> QED BY <5>1, <5>2
      <4>2. up[u].pc # "rename"
        BY <3>1, <3>3, <4>1 DEF Won, SafeInv, OneWinner
      <4> QED BY <2>2, <2>3, <4>1, <4>2
    <3> QED BY <3>1, <3>4, <3>5
  <2> QED BY <2>4, <2>5
<1> QED BY <1>1 DEF BufferKept, Working

-------------------------------------------------------------------------------
(* What is in the file of an upload that has its session to itself. *)

(* Sole, after the step. *)
SoleThen(u) == \A v \in Upload \ {u} : up'[v].session # up'[u].session

(* The only upload into a session has a file of its own: the inode it makes. *)
LEMMA OwnInode ==
  ASSUME Started, Inodes, NEW u \in Upload, Sole(u), up[u].inode \in Upload
  PROVE  up[u].inode = u
BY NullAssumption DEF Inodes, Sole

(* Every step keeps SoleData: only its own writes reach the file of such an upload. *)
LEMMA DataSoleStep ==
  ASSUME SafeInv, [Next]_vars
  PROVE  SoleData'
<1>0. /\ TypeOK /\ Started /\ Inodes /\ SoleData /\ MaxLen \in Nat
      /\ up \in [Upload -> UploadRecord] /\ \A u \in Upload : UpOK(up[u])
      /\ data \in [Upload -> Seq(Upload \cup {Hole})]
      /\ NoFile \notin Upload /\ Nowhere \notin Session
  BY TypeUp, LengthAssumption, NullAssumption DEF SafeInv, TypeOK
<1>1. SUFFICES ASSUME NEW v \in Upload, SoleThen(v), up'[v].inode # NoFile
               PROVE  data'[v] = [k \in 1..up'[v].landed |-> v]
  BY DEF SoleData, Sole, SoleThen
<1>2. ASSUME Quiet, data'[v] = data[v], up'[v].landed = up[v].landed
      PROVE  data'[v] = [k \in 1..up'[v].landed |-> v]
  <2>1. Sole(v) /\ up[v].inode # NoFile
    BY <1>1, <1>2 DEF Quiet, Sole, SoleThen
  <2> QED BY <1>0, <1>2, <2>1 DEF SoleData
<1>3. CASE Elsewhere
  BY <1>2, <1>3, ElsewhereOK DEF Quiet
<1>4. CASE Restart
  <2>1. Quiet /\ up'[v].landed = up[v].landed
    BY <1>0, <1>4, RestartOK DEF Quiet
  <2>2. data' = data
    BY <1>4 DEF Restart
  <2> QED BY <1>2, <2>1, <2>2
<1>5. ASSUME NEW u \in Upload, NEW a \in Account, NEW s \in Session, NEW n \in 0..MaxLen + 1,
             Begin(u, a, s, n)
      PROVE  data'[v] = [k \in 1..up'[v].landed |-> v]
  <2>1. /\ up[u].pc = "idle" /\ up[u].sent = 0 /\ up[u].inode = NoFile /\ up[u].session = Nowhere
        /\ data' = data
    BY <1>0, <1>5 DEF Begin, Started
  <2>2. up'[u].inode = NoFile /\ \A w \in Upload \ {u} : up'[w] = up[w]
    BY <1>0, <1>5, <2>1, BeginOK
  <2>3. v # u /\ up'[v] = up[v]
    BY <1>1, <2>2
  <2>4. up[v].session \in Session
    BY <1>0, <1>1, <2>3 DEF Started
  <2>5. Sole(v)
    BY <1>0, <1>1, <2>1, <2>2, <2>3, <2>4 DEF Sole, SoleThen
  <2> QED BY <1>0, <1>1, <2>1, <2>3, <2>5 DEF SoleData
<1>6. ASSUME NEW u \in Upload, Create(u)
      PROVE  data'[v] = [k \in 1..up'[v].landed |-> v]
  <2> DEFINE s == up[u].session
             i == IF buf[s] = NoFile THEN u ELSE buf[s]
  <2>1. /\ up[u].pc = "create" /\ up[u].sent = 0 /\ s \in Session
    BY <1>0, <1>6 DEF Create, Started
  <2>2. /\ i \in Upload /\ up'[u].session = s /\ up'[u].landed = up[u].landed
        /\ \A w \in Upload \ {u} : up'[w] = up[w]
        /\ data' = [data EXCEPT ![i] = << >>]
    BY <1>0, <1>6, <2>1, CreateOK
  <2>3. up[i].session = s
    BY <1>0, <2>1, <2>2 DEF Inodes
  <2> HIDE DEF i, s
  <2>4. \A w \in Upload : up'[w].session = up[w].session
    BY <2>2 DEF s
  <2>5. Sole(v)
    BY <1>1, <2>4 DEF Sole, SoleThen
  <2>6. CASE v = u
    <3>1. i = u
      BY <2>2, <2>3, <2>5, <2>6 DEF Sole, s
    <3>2. data'[v] = << >>
      BY <1>0, <2>2, <2>6, <3>1
    <3>3. up'[v].landed = 0
      <4>1. up[u].landed \in 0..MaxLen + 1 /\ up[u].landed <= up[u].sent
        BY <1>0 DEF UploadRecord, UpOK
      <4> QED BY <1>0, <2>1, <2>2, <2>6, <4>1
    <3> QED BY <3>2, <3>3
  <2>7. CASE v # u
    <3>1. i # v
      BY <2>3, <2>5, <2>7 DEF Sole, s
    <3>2. data'[v] = data[v] /\ up'[v] = up[v]
      BY <1>0, <2>2, <2>7, <3>1
    <3> QED BY <1>0, <1>1, <2>5, <3>2 DEF SoleData
  <2> QED BY <2>6, <2>7
<1>7. ASSUME NEW u \in Upload, Send(u)
      PROVE  data'[v] = [k \in 1..up'[v].landed |-> v]
  <2>1. Quiet /\ up'[v].landed = up[v].landed
    BY <1>0, <1>7, SendOK DEF Quiet
  <2>2. data' = data
    BY <1>7 DEF Send
  <2> QED BY <1>2, <2>1, <2>2
<1>8. ASSUME NEW u \in Upload, Land(u)
      PROVE  data'[v] = [k \in 1..up'[v].landed |-> v]
  <2> DEFINE i == up[u].inode
             n == up[u].landed
  <2>1. /\ Quiet /\ n < up[u].sent /\ up'[u].landed = n + 1
        /\ \A w \in Upload \ {u} : up'[w] = up[w]
    BY <1>0, <1>8, LandOK DEF Quiet
  <2>2. n \in Nat /\ up[u].sent # 0
    <3>1. n \in 0..MaxLen + 1 /\ up[u].sent \in 0..MaxLen + 1
      BY <1>0 DEF UploadRecord
    <3> QED BY <1>0, <2>1, <3>1
  <2>3. i \in Upload
    BY <1>0, <2>2 DEF Started, UploadRecord
  <2>4. data' = [data EXCEPT ![i] = Written(data[i], n + 1, u)]
    BY <1>8 DEF Land
  <2>5. Sole(v) /\ up[v].inode # NoFile
    BY <1>1, <2>1 DEF Quiet, Sole, SoleThen
  <2>6. up[i].session = up[u].session
    BY <1>0, <2>3 DEF Inodes
  <2>7. data[v] = [k \in 1..up[v].landed |-> v]
    BY <1>0, <2>5 DEF SoleData
  <2> HIDE DEF i, n
  <2>8. CASE v = u
    <3>1. i = u
      BY <2>3, <2>5, <2>6, <2>8 DEF Sole
    <3>2. data'[v] = Written([k \in 1..n |-> u], n + 1, u)
      BY <1>0, <2>4, <2>7, <2>8, <3>1 DEF n
    <3> QED BY <2>1, <2>2, <2>8, <3>2, WrittenNext
  <2>9. CASE v # u
    <3>1. i # v
      BY <2>5, <2>6, <2>9 DEF Sole
    <3>2. data'[v] = data[v] /\ up'[v] = up[v]
      BY <1>0, <2>1, <2>4, <2>9, <3>1
    <3> QED BY <2>7, <3>2
  <2> QED BY <2>8, <2>9
<1>9. ASSUME NEW u \in Upload, Moves(u)
      PROVE  data'[v] = [k \in 1..up'[v].landed |-> v]
  <2>1. PICK from, to : MoveTo(u, from, to)
    BY <1>0, <1>9, MoveKinds DEF Moves
  <2>2. Quiet /\ up'[v].landed = up[v].landed
    BY <1>0, <2>1, MoveOK
  <2>3. data' = data
    BY <1>9 DEF Moves, TooLarge, Unlink, Sync, Accept, Rename, Insert, Cancel
  <2> QED BY <1>2, <2>2, <2>3
<1> QED BY <1>3, <1>4, <1>5, <1>6, <1>7, <1>8, <1>9, Kinds

-------------------------------------------------------------------------------
(* The theorems. *)

(* SafeInv holds in the empty directory the server starts from. *)
LEMMA SafeInit == Init => SafeInv
<1> SUFFICES ASSUME Init PROVE SafeInv
  OBVIOUS
<1>1. \A u \in Upload : up[u] = [pc |-> "idle", who |-> Nobody, session |-> Nowhere, size |-> 0,
                                 sent |-> 0, landed |-> 0, inode |-> NoFile]
  BY DEF Init
<1>2. TypeOK
  <2>1. session \in [Session -> SessionRecord]
    BY DEF Init, SessionRecord
  <2>2. [pc |-> "idle", who |-> Nobody, session |-> Nowhere, size |-> 0,
         sent |-> 0, landed |-> 0, inode |-> NoFile] \in UploadRecord
    BY LengthAssumption DEF UploadRecord, Pc
  <2>3. up \in [Upload -> UploadRecord]
    BY <2>2 DEF Init
  <2>4. << >> \in Seq(Upload \cup {Hole}) /\ Len(<< >>) = 0 /\ 0 <= MaxLen + 1
    BY LengthAssumption
  <2>5. data \in [Upload -> Seq(Upload \cup {Hole})] /\ \A u \in Upload : Len(data[u]) <= MaxLen + 1
    BY <2>4 DEF Init
  <2>6. /\ buf \in [Session -> Upload \cup {NoFile}] /\ file \in [Upload -> Upload \cup {NoFile}]
        /\ loaded \subseteq record /\ record \subseteq Upload /\ flushed \subseteq Upload
        /\ panicked \in BOOLEAN
    BY DEF Init
  <2>7. \A u \in Upload : /\ up[u].landed <= up[u].sent /\ up[u].sent <= up[u].size
                          /\ up[u].sent <= up[u].landed + 1
    BY <1>1
  <2> QED BY <2>1, <2>3, <2>5, <2>6, <2>7 DEF TypeOK
<1>3. Started
  BY <1>1 DEF Started, Stored, Init
<1>4. Inodes
  BY <1>1 DEF Inodes, Init
<1>5. OneWinner
  BY <1>1 DEF OneWinner, Won, Stored, Init
<1>6. SoleData
  BY <1>1 DEF SoleData
<1>7. BufferKept
  BY <1>1 DEF BufferKept
<1> QED BY <1>2, <1>3, <1>4, <1>5, <1>6, <1>7 DEF SafeInv

(* Every step keeps SafeInv. *)
LEMMA SafeStep == SafeInv /\ [Next]_vars => SafeInv'
BY TypeStep, StartedStep, InodesStep, WinnerStep, DataSoleStep, BufferStep DEF SafeInv

(* SafeInv holds throughout: it is inductive. *)
THEOREM Safe == Spec => []SafeInv
BY SafeInit, SafeStep, PTL DEF Spec

(* Every state has its shape, and no upload is ahead of its body. *)
THEOREM TypeCorrect == Spec => []TypeOK
<1>1. SafeInv => TypeOK
  BY DEF SafeInv
<1> QED BY <1>1, Safe, PTL

(* A resource never exists without the file get_payload opens for it. *)
THEOREM RecordAlwaysHasPayload == Spec => []RecordHasPayload
<1>1. SafeInv => RecordHasPayload
  BY DEF SafeInv, TypeOK, Started, Stored, RecordHasPayload
<1> QED BY <1>1, Safe, PTL

(* No two resources, and no resource and buffer, are names of one file. *)
THEOREM PayloadsAlwaysApart == Spec => []PayloadsApart
<1>1. SafeInv => PayloadsApart
  BY DEF SafeInv, TypeOK, Started, Stored, Inodes, PayloadsApart
<1> QED BY <1>1, Safe, PTL

(* A session yields one resource at most, its owner's. *)
THEOREM OneResourcePerSessionAlways == Spec => []OneResourcePerSession
<1>1. ASSUME SafeInv PROVE OneResourcePerSession
  <2>1. \A u \in record : u \in Upload /\ Won(u)
    BY <1>1 DEF SafeInv, TypeOK, Won, Stored
  <2>2. ASSUME NEW u \in record PROVE session[up[u].session].owner = up[u].who
    <3>1. session[up[u].session] = [state |-> "gone", owner |-> up[u].who]
      BY <1>1, <2>1 DEF SafeInv, OneWinner
    <3> QED BY <3>1
  <2>3. \A u, v \in record : u # v => up[u].session # up[v].session
    BY <1>1, <2>1 DEF SafeInv, OneWinner
  <2> QED BY <2>2, <2>3 DEF OneResourcePerSession
<1> QED BY <1>1, Safe, PTL

(* The resource of an upload that had its session to itself is its body. *)
THEOREM SoleUploadAlwaysIntact == Spec => []SoleUploadIntact
<1>1. ASSUME SafeInv PROVE SoleUploadIntact
  <2>1. SUFFICES ASSUME NEW u \in record, Sole(u) PROVE Intact(u)
    BY DEF SoleUploadIntact
  <2>2. u \in Upload /\ Stored(u)
    BY <1>1 DEF SafeInv, TypeOK, Stored
  <2>3. /\ up[u].inode # NoFile /\ up[u].landed = up[u].size /\ file[u] # NoFile
    BY <1>1, <2>2 DEF SafeInv, Started
  <2>4. file[u] \in Upload /\ up[file[u]].session = up[u].session
    BY <1>1, <2>2, <2>3 DEF SafeInv, TypeOK, Inodes
  <2>5. file[u] = u
    BY <2>1, <2>4 DEF Sole
  <2>6. data[u] = [k \in 1..up[u].landed |-> u]
    BY <1>1, <2>1, <2>2, <2>3 DEF SafeInv, SoleData
  <2> QED BY <2>3, <2>5, <2>6 DEF Intact, Payload
<1> QED BY <1>1, Safe, PTL

(* No session is spent for nothing: an accepted upload finds its buffer,       *)
(* unless a body too large was sent into the same session.                    *)
THEOREM AcceptedAlwaysFindsBuffer == Spec => []AcceptedFindsBuffer
<1>1. SafeInv => AcceptedFindsBuffer
  BY DEF SafeInv, BufferKept, AcceptedFindsBuffer
<1> QED BY <1>1, Safe, PTL

(* A session past its time is never consumed. *)
THEOREM NoLateAcceptEver == Spec => NoLateAccept
<1>1. SafeInv /\ [Next]_vars
      => [\A u \in Upload : up[u].pc = "accept" /\ up'[u].pc = "rename"
            => session[up[u].session].state = "open"]_vars
  BY AcceptInTime
<1> QED BY <1>1, Safe, PTL DEF Spec, NoLateAccept
===============================================================================
