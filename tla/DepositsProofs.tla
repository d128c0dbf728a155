----------------------------- MODULE DepositsProofs -----------------------------
(***************************************************************************)
(* The upload handlers, the file thread, the daemon and restarts implement   *)
(* the life of deposits, for any accounts, sessions, uploads and lengths.    *)
(***************************************************************************)
EXTENDS UploadSessionProofs

(* The mapped state. *)
Given(u) == {[session |-> up[u].session, by |-> up[u].who]}

SlotBar  == [s \in Session |->
              [state |-> Closed(session[s].state), owner |-> session[s].owner]]
StageBar == [u \in Upload |-> Stage(up[u].pc)]
ClaimBar == [u \in Upload |-> Claim(u)]

(* The stages a handler goes through. *)
LEMMA Stages ==
  /\ Stage("rename") = "accepted" /\ Stage("insert") = "placed" /\ Stage("done") = "over"
  /\ Stage("refused") = "over"
  /\ \A pc \in {"idle", "create", "write", "unlink", "accept"} : Stage(pc) = "new"
BY DEF Stage

(* What an upload has claimed, by where it is. *)
LEMMA Claims ==
  ASSUME SafeInv, NEW u \in Upload
  PROVE  /\ up[u].pc \notin {"rename", "insert", "done", "refused"} => Claim(u) = {} /\ file[u] = NoFile
         /\ up[u].pc = "rename" => Claim(u) = Given(u) /\ file[u] = NoFile
         /\ up[u].pc = "insert" => Claim(u) = Given(u) /\ file[u] # NoFile
BY DEF SafeInv, Started, Claim, Given

(* A handler that moves on changes its own stage and claim only. *)
LEMMA MoveBar ==
  ASSUME TypeOK, NEW u \in Upload, NEW pc \in Pc, Go(u, pc),
         \A v \in Upload \ {u} : file'[v] = file[v]
  PROVE  /\ StageBar' = [StageBar EXCEPT ![u] = Stage(pc)]
         /\ ClaimBar' = [ClaimBar EXCEPT ![u] =
              IF pc \in {"rename", "insert"} \/ file'[u] # NoFile THEN Given(u) ELSE {}]
         /\ StageBar[u] = Stage(up[u].pc) /\ ClaimBar[u] = Claim(u)
<1>1. /\ up'[u].pc = pc /\ up'[u].session = up[u].session /\ up'[u].who = up[u].who
      /\ \A v \in Upload \ {u} : up'[v] = up[v]
  BY GoOK DEF Body
<1>2. StageBar' = [StageBar EXCEPT ![u] = Stage(pc)]
  BY <1>1 DEF StageBar
<1>3. Claim(u)' = IF pc \in {"rename", "insert"} \/ file'[u] # NoFile THEN Given(u) ELSE {}
  BY <1>1 DEF Claim, Given
<1>4. \A v \in Upload \ {u} : Claim(v)' = Claim(v)
  BY <1>1 DEF Claim
<1>5. ClaimBar' = [ClaimBar EXCEPT ![u] = Claim(u)']
  BY <1>4 DEF ClaimBar
<1> QED BY <1>2, <1>3, <1>5 DEF StageBar, ClaimBar

(* A claim that is overwritten by itself stays. *)
LEMMA ClaimStays ==
  ASSUME NEW u \in Upload, NEW c, ClaimBar' = [ClaimBar EXCEPT ![u] = c], c = Claim(u)
  PROVE  ClaimBar' = ClaimBar
BY DEF ClaimBar

(* A step that moves nobody to another stage is none of the abstract ones. *)
LEMMA SameBar ==
  ASSUME \A v \in Upload : Stage(up'[v].pc) = Stage(up[v].pc) /\ Claim(v)' = Claim(v),
         UNCHANGED <<session, file, record, flushed>>
  PROVE  UNCHANGED Depot!vars
<1>1. StageBar' = StageBar /\ ClaimBar' = ClaimBar
  BY DEF StageBar, ClaimBar
<1> QED BY <1>1 DEF Depot!vars, StageBar, ClaimBar

-------------------------------------------------------------------------------
(* Sessions. *)

(* A cleanup closes nothing: what it drops had expired. *)
LEMMA CleanedSlots ==
  ASSUME TypeOK, NEW s \in Session
  PROVE  /\ Closed(CleanedUp[s].state) = Closed(session[s].state)
         /\ CleanedUp[s].owner = session[s].owner
         /\ CleanedUp[s].state = "open" => session[s].state = "open"
         /\ session[s].state = "none" => CleanedUp[s].state = "none"
<1>1. session[s] \in SessionRecord
  BY DEF TypeOK
<1> QED BY <1>1 DEF CleanedUp, Closed, SessionRecord

LEMMA OpenMaps ==
  ASSUME SafeInv, NEW s \in Session, NEW a \in Account, NewSession(s, a)
  PROVE  Depot!Next
<1>1. TypeOK /\ session[s].state = "none"
      /\ session' = [CleanedUp EXCEPT ![s] = [state |-> "open", owner |-> a]]
      /\ UNCHANGED <<up, file, record, flushed>>
  BY DEF NewSession, SafeInv
<1>2. session' = [x \in Session |-> IF x = s THEN [state |-> "open", owner |-> a] ELSE CleanedUp[x]]
  BY <1>1 DEF CleanedUp
<1>3. SlotBar' = [SlotBar EXCEPT ![s] = [state |-> "open", owner |-> a]]
  <2>1. \A x \in Session \ {s} : Closed(session'[x].state) = Closed(session[x].state)
                               /\ session'[x].owner = session[x].owner
    BY <1>1, <1>2, CleanedSlots
  <2>2. Closed(session'[s].state) = "open" /\ session'[s].owner = a
    BY <1>2 DEF Closed
  <2> QED BY <2>1, <2>2 DEF SlotBar
<1>4. SlotBar[s].state = "none"
  BY <1>1 DEF SlotBar, Closed
<1>5. StageBar' = StageBar /\ ClaimBar' = ClaimBar
  BY <1>1 DEF StageBar, ClaimBar, Claim
<1>6. Depot!Open(s, a)
  BY <1>1, <1>3, <1>4, <1>5 DEF Depot!Open, SlotBar, StageBar, ClaimBar
<1> QED BY <1>6 DEF Depot!Next

LEMMA ClosedSlot ==
  ASSUME NEW s \in Session, NEW a, SlotBar[s] = [state |-> "open", owner |-> a],
         SlotBar' = [SlotBar EXCEPT ![s] = [state |-> "closed", owner |-> a]]
  PROVE  SlotBar' = [SlotBar EXCEPT ![s].state = "closed"]
<1>1. [SlotBar[s] EXCEPT !.state = "closed"] = [state |-> "closed", owner |-> a]
  OBVIOUS
<1>2. [SlotBar EXCEPT ![s].state = "closed"]
        = [SlotBar EXCEPT ![s] = [SlotBar[s] EXCEPT !.state = "closed"]]
  OBVIOUS
<1> QED BY <1>1, <1>2

LEMMA CloseMaps ==
  ASSUME SafeInv, NEW s \in Session, Expire(s)
  PROVE  Depot!Next
<1>1. session \in [Session -> SessionRecord] /\ session[s].state = "open"
      /\ session' = [session EXCEPT ![s].state = "expired"]
      /\ UNCHANGED <<up, file, record, flushed>>
  BY DEF Expire, SafeInv, TypeOK
<1>2. /\ session'[s].state = "expired" /\ session'[s].owner = session[s].owner
      /\ \A x \in Session \ {s} : session'[x] = session[x]
  BY <1>1 DEF SessionRecord
<1>3. SlotBar' = [SlotBar EXCEPT ![s] = [state |-> "closed", owner |-> session[s].owner]]
  BY <1>2 DEF SlotBar, Closed
<1>4. SlotBar[s] = [state |-> "open", owner |-> session[s].owner]
  BY <1>1 DEF SlotBar, Closed
<1>5. SlotBar' = [SlotBar EXCEPT ![s].state = "closed"]
  BY <1>3, <1>4, ClosedSlot
<1>6. StageBar' = StageBar /\ ClaimBar' = ClaimBar
  BY <1>1 DEF StageBar, ClaimBar, Claim
<1>7. Depot!Close(s)
  BY <1>1, <1>4, <1>5, <1>6 DEF Depot!Close, SlotBar, StageBar, ClaimBar
<1> QED BY <1>7 DEF Depot!Next
-------------------------------------------------------------------------------
(* Uploads. *)

(* A step of the kinds of Refuse, Lose and Abandon: the request is over.      *)
LEMMA EndMaps ==
  ASSUME SafeInv, NEW u \in Upload, up[u].pc \notin {"idle", "done", "refused"},
         NEW end \in {"done", "refused"}, Go(u, end),
         SlotBar' = SlotBar, UNCHANGED <<file, record, flushed>>
  PROVE  Depot!Next
<1>1. TypeOK /\ up[u].pc \in Pc /\ end \in Pc /\ end \notin {"rename", "insert"}
  BY DEF SafeInv, TypeOK, UploadRecord, Pc
<1>2. /\ StageBar' = [StageBar EXCEPT ![u] = "over"]
      /\ ClaimBar' = [ClaimBar EXCEPT ![u] = IF file[u] # NoFile THEN Given(u) ELSE {}]
      /\ StageBar[u] = Stage(up[u].pc) /\ ClaimBar[u] = Claim(u)
  BY <1>1, MoveBar, Stages
<1>3. CASE up[u].pc \in {"create", "write", "unlink", "accept"}
  <2>1. StageBar[u] = "new" /\ file[u] = NoFile /\ Claim(u) = {}
    BY <1>2, <1>3, Stages, Claims
  <2>2. ClaimBar' = ClaimBar
    BY <1>2, <2>1, ClaimStays
  <2>3. Depot!Refuse(u)
    BY <1>2, <2>1, <2>2 DEF Depot!Refuse, Depot!Move, SlotBar, StageBar, ClaimBar
  <2> QED BY <2>3 DEF Depot!Next
<1>4. CASE up[u].pc = "rename"
  <2>1. StageBar[u] = "accepted" /\ file[u] = NoFile
    BY <1>2, <1>4, Stages, Claims
  <2>2. Depot!Lose(u)
    BY <1>2, <2>1 DEF Depot!Lose, Depot!Move, SlotBar, StageBar, ClaimBar
  <2> QED BY <2>2 DEF Depot!Next
<1>5. CASE up[u].pc = "insert"
  <2>1. StageBar[u] = "placed" /\ file[u] # NoFile /\ Claim(u) = Given(u)
    BY <1>2, <1>5, Stages, Claims
  <2>2. ClaimBar' = ClaimBar
    BY <1>2, <2>1, ClaimStays
  <2>3. Depot!Abandon(u)
    BY <1>2, <2>1, <2>2 DEF Depot!Abandon, Depot!Move, SlotBar, StageBar, ClaimBar
  <2> QED BY <2>3 DEF Depot!Next
<1> QED BY <1>1, <1>3, <1>4, <1>5 DEF Pc

(* accept: an open session of the one who asks, or the end of the request. *)
LEMMA AcceptMaps ==
  ASSUME SafeInv, NEW u \in Upload, Accept(u)
  PROVE  Depot!Next
<1> PICK s \in Session : up[u].session = s
  BY DEF Accept, SafeInv, Started
<1>0. /\ TypeOK /\ up[u].pc = "accept"
      /\ UNCHANGED <<file, record, flushed>> /\ "rename" \in Pc
  BY DEF Accept, SafeInv, Pc
<1>1. CASE session' = CleanedUp /\ Go(u, "done")
  <2>1. SlotBar' = SlotBar
    BY <1>0, <1>1, CleanedSlots DEF SlotBar
  <2> QED BY <1>0, <1>1, <2>1, EndMaps
<1>2. CASE /\ CleanedUp[s].state = "open" /\ session[s].owner = up[u].who
           /\ session' = [CleanedUp EXCEPT ![s].state = "gone"] /\ Go(u, "rename")
  <2>1. session[s].state = "open" /\ session[s] \in SessionRecord
    BY <1>0, <1>2, CleanedSlots DEF TypeOK
  <2>2. CleanedUp[s] = session[s]
    BY <1>0, <2>1 DEF CleanedUp
  <2>3. /\ session'[s].state = "gone" /\ session'[s].owner = session[s].owner
        /\ \A x \in Session \ {s} : session'[x] = CleanedUp[x]
    BY <1>0, <1>2, <2>1, <2>2 DEF CleanedUp, SessionRecord
  <2>4. SlotBar' = [SlotBar EXCEPT ![s] = [state |-> "closed", owner |-> session[s].owner]]
    <3>1. \A x \in Session \ {s} : Closed(session'[x].state) = Closed(session[x].state)
                                  /\ session'[x].owner = session[x].owner
      BY <1>0, <2>3, CleanedSlots
    <3>2. Closed(session'[s].state) = "closed"
      BY <2>3 DEF Closed
    <3> QED BY <2>3, <3>1, <3>2 DEF SlotBar
  <2>5. SlotBar[s] = [state |-> "open", owner |-> session[s].owner]
    BY <1>0, <2>1 DEF SlotBar, Closed
  <2>6. SlotBar' = [SlotBar EXCEPT ![s].state = "closed"]
    BY <1>0, <2>4, <2>5, ClosedSlot
  <2>7. /\ StageBar' = [StageBar EXCEPT ![u] = "accepted"] /\ StageBar[u] = "new"
        /\ ClaimBar' = [ClaimBar EXCEPT ![u] = Given(u)]
    BY <1>0, <1>2, MoveBar, Stages
  <2>8. Given(u) = {[session |-> s, by |-> SlotBar[s].owner]}
    BY <1>2, <2>5 DEF Given
  <2>9. Depot!Accept(u, s)
    BY <1>0, <2>5, <2>6, <2>7, <2>8 DEF Depot!Accept, Depot!Move, SlotBar, StageBar, ClaimBar
  <2> QED BY <2>9 DEF Depot!Next
<1>3. \/ session' = CleanedUp /\ Go(u, "done")
      \/ /\ CleanedUp[s].state = "open" /\ session[s].owner = up[u].who
         /\ session' = [CleanedUp EXCEPT ![s].state = "gone"] /\ Go(u, "rename")
  BY DEF Accept
<1> QED BY <1>1, <1>2, <1>3

(* The buffer goes to the resource, if there still is one. *)
LEMMA RenameMaps ==
  ASSUME SafeInv, NEW u \in Upload, Rename(u)
  PROVE  Depot!Next
<1> DEFINE f == buf[up[u].session]
<1>0. /\ TypeOK /\ up[u].pc = "rename" /\ up[u].session \in Session /\ f \in Upload \cup {NoFile}
      /\ file' = [file EXCEPT ![u] = f] /\ file[u] = NoFile /\ Claim(u) = Given(u)
      /\ UNCHANGED <<session, record, flushed>> /\ Go(u, IF f = NoFile THEN "done" ELSE "insert")
      /\ file \in [Upload -> Upload \cup {NoFile}]
  BY Claims DEF Rename, SafeInv, TypeOK, Started
<1>1. SlotBar' = SlotBar
  BY <1>0 DEF SlotBar
<1>2. CASE f = NoFile
  <2>1. Go(u, "done")
    BY <1>0, <1>2
  <2> HIDE DEF f
  <2>2. file' = file
    BY <1>0, <1>2
  <2> QED BY <1>0, <1>1, <2>1, <2>2, EndMaps
<1>3. CASE f # NoFile
  <2>1. \A v \in Upload : file[v] # f
    BY <1>0, <1>3 DEF SafeInv, Inodes
  <2> HIDE DEF f
  <2>2. "insert" \in Pc /\ \A v \in Upload \ {u} : file'[v] = file[v]
    BY <1>0 DEF Pc
  <2>3. /\ StageBar' = [StageBar EXCEPT ![u] = "placed"] /\ StageBar[u] = "accepted"
        /\ ClaimBar' = [ClaimBar EXCEPT ![u] = Given(u)]
    BY <1>0, <1>3, <2>2, MoveBar, Stages
  <2>4. ClaimBar' = ClaimBar
    BY <1>0, <2>3, ClaimStays
  <2>5. Depot!Place(u, f)
    BY <1>0, <1>1, <2>1, <2>3, <2>4 DEF Depot!Place, Depot!Move, SlotBar, StageBar, ClaimBar
  <2> QED BY <1>0, <1>3, <2>5 DEF Depot!Next
<1> QED BY <1>2, <1>3

LEMMA InsertMaps ==
  ASSUME SafeInv, NEW u \in Upload, Insert(u)
  PROVE  Depot!Next
<1>0. /\ TypeOK /\ up[u].pc = "insert" /\ Go(u, "done") /\ record' = record \cup {u}
      /\ UNCHANGED <<session, file, flushed>> /\ "done" \in Pc
      /\ file[u] # NoFile /\ Claim(u) = Given(u)
  BY Claims DEF Insert, SafeInv, Pc
<1>1. /\ StageBar' = [StageBar EXCEPT ![u] = "over"] /\ StageBar[u] = "placed"
      /\ ClaimBar' = [ClaimBar EXCEPT ![u] = Given(u)]
  BY <1>0, MoveBar, Stages
<1>2. ClaimBar' = ClaimBar /\ SlotBar' = SlotBar
  BY <1>0, <1>1, ClaimStays DEF SlotBar
<1>3. Depot!Store(u)
  BY <1>0, <1>1, <1>2 DEF Depot!Store, Depot!Move, SlotBar, StageBar, ClaimBar
<1> QED BY <1>3 DEF Depot!Next

-------------------------------------------------------------------------------
(* A restart ends the requests that had begun, and closes what was open. *)
LEMMA RestartMaps ==
  ASSUME SafeInv, Restart
  PROVE  Depot!Next
<1>0. TypeOK /\ record' = flushed /\ UNCHANGED <<file, flushed>>
  BY DEF Restart, SafeInv
<1>1. SlotBar' = [s \in Session |->
        IF SlotBar[s].state = "open" THEN [SlotBar[s] EXCEPT !.state = "closed"] ELSE SlotBar[s]]
  <2>1. ASSUME NEW s \in Session
        PROVE  SlotBar'[s] = IF SlotBar[s].state = "open" THEN [SlotBar[s] EXCEPT !.state = "closed"]
                             ELSE SlotBar[s]
    <3>1. session[s] \in SessionRecord
      BY <1>0 DEF TypeOK
    <3>2. session'[s] = IF InMap(s) THEN [session[s] EXCEPT !.state = "gone"] ELSE session[s]
      BY DEF Restart
    <3>3. CASE session[s].state = "open"
      <4>1. session'[s].state = "gone" /\ session'[s].owner = session[s].owner
        BY <3>1, <3>2, <3>3 DEF InMap, SessionRecord
      <4> QED BY <3>3, <4>1 DEF SlotBar, Closed
    <3>4. CASE session[s].state # "open"
      <4>1. Closed(session'[s].state) = Closed(session[s].state) /\ session'[s].owner = session[s].owner
        BY <3>1, <3>2, <3>4 DEF InMap, SessionRecord, Closed
      <4>2. SlotBar[s].state # "open"
        BY <3>4 DEF SlotBar, Closed
      <4>3. SlotBar'[s] = SlotBar[s]
        BY <4>1 DEF SlotBar
      <4> QED BY <4>2, <4>3
    <3> QED BY <3>3, <3>4
  <2> QED BY <2>1 DEF SlotBar
<1> DEFINE fresh == {u \in Upload : up[u].pc = "idle"}
<1>2. \A u \in Upload : /\ u \in fresh => up'[u] = up[u]
                        /\ u \notin fresh => up'[u].pc \in {"done", "refused"} /\ up'[u].session = up[u].session
                                             /\ up'[u].who = up[u].who
  BY <1>0 DEF Restart, TypeOK, UploadRecord
<1>3. StageBar' = [u \in Upload |-> IF u \in fresh THEN "new" ELSE "over"]
  BY <1>2, Stages DEF StageBar
<1>4. fresh \in SUBSET {u \in Upload : StageBar[u] = "new"}
  BY Stages DEF StageBar
<1>5. ClaimBar' = [u \in Upload |-> IF StageBar[u] = "accepted" THEN {} ELSE ClaimBar[u]]
  <2>1. ASSUME NEW u \in Upload
        PROVE  Claim(u)' = IF StageBar[u] = "accepted" THEN {} ELSE Claim(u)
    <3>0. up[u].pc \in Pc
      BY <1>0 DEF TypeOK, UploadRecord
    <3>1. CASE up[u].pc = "rename"
      BY <1>0, <1>2, <3>1, Claims, Stages DEF StageBar, Claim
    <3>2. CASE up[u].pc = "insert"
      <4>1. StageBar[u] # "accepted" /\ file[u] # NoFile
        BY <3>2, Claims, Stages DEF StageBar
      <4> QED BY <1>0, <1>2, <3>2, <4>1 DEF Claim
    <3>3. CASE up[u].pc \notin {"rename", "insert"}
      <4>1. StageBar[u] # "accepted"
        BY <3>0, <3>3 DEF StageBar, Stage, Pc
      <4> QED BY <1>0, <1>2, <3>3, <4>1 DEF Claim
    <3> QED BY <3>1, <3>2, <3>3
  <2> QED BY <2>1 DEF ClaimBar
<1> HIDE DEF fresh
<1>6. Depot!Restart
  BY <1>0, <1>1, <1>3, <1>4, <1>5 DEF Depot!Restart, SlotBar, StageBar, ClaimBar
<1> QED BY <1>6 DEF Depot!Next

-------------------------------------------------------------------------------
(* The steps that are none of the abstract ones. *)
LEMMA StutterMaps ==
  ASSUME SafeInv, NEW u \in Upload,
         \/ \E a \in Account, s \in Session, n \in 0..MaxLen + 1 : Begin(u, a, s, n)
         \/ Create(u) \/ Send(u) \/ Land(u) \/ TooLarge(u) \/ Sync(u) \/ GetPayload(u)
  PROVE  UNCHANGED Depot!vars
<1>0. UNCHANGED <<session, file, record, flushed>> /\ up \in [Upload -> UploadRecord]
  BY DEF Begin, Create, Send, Land, TooLarge, Sync, GetPayload, Go, SafeInv, TypeOK
<1>1. ASSUME \A v \in Upload : /\ Stage(up'[v].pc) = Stage(up[v].pc)
                               /\ Claim(v)' = Claim(v)
      PROVE  UNCHANGED Depot!vars
  BY <1>0, <1>1, SameBar
(* A handler that goes from one stage that is new to another. *)
<1>2. ASSUME up[u].pc \in {"idle", "create", "write"},
             up'[u].pc \in {"create", "write", "unlink", "accept"},
             \A v \in Upload \ {u} : up'[v] = up[v]
      PROVE  UNCHANGED Depot!vars
  <2>1. Stage(up'[u].pc) = Stage(up[u].pc)
    BY <1>2, Stages
  <2>2. file[u] = NoFile
    BY <1>2, Claims
  <2>3. Claim(u)' = Claim(u)
    BY <1>0, <1>2, <2>2 DEF Claim
  <2>4. \A v \in Upload \ {u} : Claim(v)' = Claim(v)
    BY <1>0, <1>2 DEF Claim
  <2> QED BY <1>1, <1>2, <2>1, <2>3, <2>4
<1>3. ASSUME NEW a \in Account, NEW s \in Session, NEW n \in 0..MaxLen + 1, Begin(u, a, s, n)
      PROVE  UNCHANGED Depot!vars
  <2>1. up[u].pc = "idle" /\ up'[u].pc = "create" /\ \A v \in Upload \ {u} : up'[v] = up[v]
    BY <1>0, <1>3 DEF Begin, UploadRecord
  <2> QED BY <1>2, <2>1
<1>4. CASE Create(u)
  <2>1. up[u].pc = "create" /\ up'[u].pc = "write" /\ \A v \in Upload \ {u} : up'[v] = up[v]
    BY <1>0, <1>4 DEF Create, UploadRecord
  <2> QED BY <1>2, <2>1
<1>5. CASE Send(u)
  <2>1. up[u].pc = "write" /\ up'[u].pc = "write" /\ \A v \in Upload \ {u} : up'[v] = up[v]
    BY <1>0, <1>5 DEF Send, UploadRecord
  <2> QED BY <1>2, <2>1
<1>6. CASE TooLarge(u) \/ Sync(u)
  <2>1. up[u].pc = "write" /\ up'[u].pc \in {"unlink", "accept"} /\ \A v \in Upload \ {u} : up'[v] = up[v]
    BY <1>0, <1>6 DEF TooLarge, Sync, Go, UploadRecord
  <2> QED BY <1>2, <2>1
<1>7. CASE Land(u)
  <2>1. \A v \in Upload : up'[v].pc = up[v].pc /\ up'[v].session = up[v].session /\ up'[v].who = up[v].who
    BY <1>0, <1>7 DEF Land, UploadRecord
  <2> QED BY <1>0, <1>1, <2>1 DEF Claim
<1>8. CASE GetPayload(u)
  BY <1>0, <1>1, <1>8 DEF GetPayload, Claim
<1> QED BY <1>3, <1>4, <1>5, <1>6, <1>7, <1>8

(* Init maps to Init. *)
LEMMA DepositsInit == Init => Depot!Init
<1> SUFFICES ASSUME Init PROVE Depot!Init
  OBVIOUS
<1>1. \A s \in Session : Closed(session[s].state) = "none"
  BY DEF Init, Closed
<1>2. \A u \in Upload : Stage(up[u].pc) = "new" /\ Claim(u) = {}
  BY Stages DEF Init, Claim
<1> QED BY <1>1, <1>2 DEF Init, Depot!Init

(* Every step maps to a step or a stutter. *)
LEMMA DepositsStep == SafeInv /\ [Next]_vars => [Depot!Next]_(Depot!vars)
<1> SUFFICES ASSUME SafeInv, [Next]_vars PROVE [Depot!Next]_(Depot!vars)
  OBVIOUS
<1>1. CASE UNCHANGED vars
  BY <1>1, SameBar DEF vars, Claim
<1>2. ASSUME NEW u \in Upload, Unlink(u) \/ Cancel(u)
      PROVE  Depot!Next
  <2>1. up[u].pc \notin {"idle", "done", "refused"} /\ UNCHANGED <<session, file, record, flushed>>
    BY <1>2 DEF Unlink, Cancel
  <2>2. Go(u, "done") \/ Go(u, "refused")
    BY <1>2 DEF Unlink, Cancel
  <2>3. SlotBar' = SlotBar
    BY <2>1 DEF SlotBar
  <2> QED BY <2>1, <2>2, <2>3, EndMaps
<1>3. ASSUME NEW u \in Upload, Destroy(u)
      PROVE  Depot!Next
  <2>1. u \in record /\ record' = record \ {u} /\ UNCHANGED <<session, up, file, flushed>>
    BY <1>3 DEF Destroy
  <2>2. SlotBar' = SlotBar /\ StageBar' = StageBar /\ ClaimBar' = ClaimBar
    BY <2>1 DEF SlotBar, StageBar, ClaimBar, Claim
  <2>3. Depot!Destroy(u)
    BY <2>1, <2>2 DEF Depot!Destroy, SlotBar, StageBar, ClaimBar
  <2> QED BY <2>3 DEF Depot!Next
<1>4. CASE Flush
  <2>1. flushed' = record /\ UNCHANGED <<session, up, file, record>>
    BY <1>4 DEF Flush
  <2>2. SlotBar' = SlotBar /\ StageBar' = StageBar /\ ClaimBar' = ClaimBar
    BY <2>1 DEF SlotBar, StageBar, ClaimBar, Claim
  <2>3. Depot!Save
    BY <2>1, <2>2 DEF Depot!Save, SlotBar, StageBar, ClaimBar
  <2> QED BY <2>3 DEF Depot!Next
<1> QED BY <1>1, <1>2, <1>3, <1>4, OpenMaps, CloseMaps, AcceptMaps, RenameMaps, InsertMaps, RestartMaps,
          StutterMaps DEF Next, Serve

(* The upload handlers implement the life of deposits: one resource at most   *)
(* of a session, its owner's, in time, placed before it is stored under a     *)
(* file of its own, and revived by nothing but a restart that finds it saved. *)
THEOREM DepositsImplemented == Spec => ImplementsDeposits
BY DepositsInit, DepositsStep, Safe, PTL DEF Spec, ImplementsDeposits, Depot!Spec

(* What Deposits says of one step. *)
OverStaysOver ==
  /\ \A s \in Session : SlotBar[s].state = "closed" => SlotBar'[s] = SlotBar[s]
  /\ \A u \in Upload :
       /\ StageBar[u] = "over" => StageBar'[u] = "over" /\ file'[u] = file[u]
       /\ StageBar[u] = "over" /\ u \notin record \cup flushed => u \notin record' \cup flushed'

LEMMA OverStaysInDepot == [Depot!Next]_(Depot!vars) => OverStaysOver
<1> SUFFICES ASSUME [Depot!Next]_(Depot!vars) PROVE OverStaysOver
  OBVIOUS
<1>1. CASE UNCHANGED Depot!vars
  BY <1>1 DEF OverStaysOver, Depot!vars, SlotBar, StageBar
<1>2. ASSUME NEW s \in Session,
             \/ SlotBar[s].state = "none" /\ \E a \in Account :
                  SlotBar' = [SlotBar EXCEPT ![s] = [state |-> "open", owner |-> a]]
             \/ SlotBar[s].state = "open" /\ SlotBar' = [SlotBar EXCEPT ![s].state = "closed"]
      PROVE  \A x \in Session : SlotBar[x].state = "closed" => SlotBar'[x] = SlotBar[x]
  BY <1>2 DEF SlotBar
<1>3. ASSUME NEW u \in Upload, NEW from, NEW to, from # "over",
             StageBar[u] = from, StageBar' = [StageBar EXCEPT ![u] = to]
      PROVE  \A v \in Upload : StageBar[v] = "over" => v # u /\ StageBar'[v] = "over"
  BY <1>3 DEF StageBar
<1>4. ASSUME NEW s \in Session, Depot!Close(s) \/ \E a \in Account : Depot!Open(s, a)
      PROVE  OverStaysOver
  BY <1>2, <1>4 DEF Depot!Close, Depot!Open, OverStaysOver, SlotBar, StageBar
<1>5. ASSUME NEW u \in Upload, NEW s \in Session, Depot!Accept(u, s)
      PROVE  OverStaysOver
  BY <1>2, <1>3, <1>5 DEF Depot!Accept, Depot!Move, OverStaysOver, SlotBar, StageBar
<1>6. ASSUME NEW u \in Upload, NEW f \in Upload, Depot!Place(u, f)
      PROVE  OverStaysOver
  <2>1. \A v \in Upload : v # u => file'[v] = file[v]
    BY <1>6 DEF Depot!Place
  <2> QED BY <1>3, <1>6, <2>1 DEF Depot!Place, Depot!Move, OverStaysOver, SlotBar, StageBar
<1>7. ASSUME NEW u \in Upload,
             Depot!Refuse(u) \/ Depot!Lose(u) \/ Depot!Store(u) \/ Depot!Abandon(u)
      PROVE  OverStaysOver
  BY <1>3, <1>7 DEF Depot!Refuse, Depot!Lose, Depot!Store, Depot!Abandon, Depot!Move,
                    OverStaysOver, SlotBar, StageBar
<1>8. ASSUME (\E u \in Upload : Depot!Destroy(u)) \/ Depot!Save
      PROVE  OverStaysOver
  BY <1>8 DEF Depot!Destroy, Depot!Save, OverStaysOver, SlotBar, StageBar
<1>9. CASE Depot!Restart
  <2>1. \A s \in Session : SlotBar[s].state = "closed" => SlotBar'[s] = SlotBar[s]
    BY <1>9 DEF Depot!Restart, SlotBar
  <2>2. \A u \in Upload : StageBar[u] = "over" => StageBar'[u] = "over"
    BY <1>9 DEF Depot!Restart, StageBar
  <2>3. file' = file /\ record' = flushed /\ flushed' = flushed
    BY <1>9 DEF Depot!Restart
  <2> QED BY <2>1, <2>2, <2>3 DEF OverStaysOver
<1> QED BY <1>1, <1>4, <1>5, <1>6, <1>7, <1>8, <1>9 DEF Depot!Next

(* A session that was spent, expired or lost by a restart is never open again, *)
(* and an upload that is over gets no other file and no record it had not, in  *)
(* memory or on disk.                                                        *)
THEOREM DepositsOverForGood == Spec => Depot!OverForGood
<1>1. [Depot!Next]_(Depot!vars) => [Depot!StaysOver]_(Depot!vars)
  BY OverStaysInDepot DEF OverStaysOver, SlotBar, StageBar, Depot!StaysOver
<1> QED BY <1>1, DepositsImplemented, PTL
        DEF ImplementsDeposits, Depot!Spec, Depot!OverForGood
===============================================================================
