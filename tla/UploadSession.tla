----------------------------- MODULE UploadSession -----------------------------
(***************************************************************************)
(* Upload of a resource: the sessions of src/resource.rs, the handlers     *)
(* new_session, upload and get_payload of src/handle/resource.rs and the   *)
(* directory they write to.                                                *)
(*                                                                         *)
(* An upload looks the name of its buffer file up, creates (or truncates)  *)
(* that file, streams the body into it, consumes the session, renames the  *)
(* buffer to the name of the new resource and inserts the record.  Each is *)
(* a step: the mutex of the sessions is released in between.  The file is  *)
(* written behind the handler's back: tokio hands a chunk to a thread and  *)
(* waits for it only before the next one, or at a flush.                   *)
(***************************************************************************)
EXTENDS Naturals, Sequences

CONSTANTS
  Account,
  Session,  \* ids of upload sessions; hashes, so none is given twice
  Upload,   \* requests to `upload`, also the inodes and the resource ids they make
  MaxLen,   \* MAX_PAYLOAD_LEN in chunks
  Nobody, NoFile, Hole, Nowhere,
  Faults    \* may clients disconnect and the server restart?

ASSUME NullAssumption == Nobody \notin Account /\ NoFile \notin Upload /\ Hole \notin Upload
                         /\ Nowhere \notin Session
ASSUME LengthAssumption == MaxLen \in Nat \ {0}
ASSUME FaultsAssumption == Faults \in BOOLEAN

VARIABLES
  session,  \* the map of UploadSessions: its entries, with what was removed from it
  up,       \* the upload requests
  buf,      \* directory: inode behind the buffer name of a session
  file,     \* directory: inode behind the name of a resource
  data,     \* contents of an inode, the writer of each chunk
  record,   \* uploads whose resource is in the world `resource`
  flushed,  \* records the daemon of that world has written last
  loaded,   \* records that are in memory; the others are read from disk when met
  panicked  \* did a request meet a record it could not decode?

vars == <<session, up, buf, file, data, record, flushed, loaded, panicked>>

SessionRecord ==
  [state : {"none", "open", "expired", "gone"}, owner : Account \cup {Nobody}]

Pc == {"idle", "create", "write", "unlink", "accept", "rename", "insert", "done", "refused"}

UploadRecord ==
  [pc : Pc, who : Account \cup {Nobody}, session : Session \cup {Nowhere}, size : 0..MaxLen + 1,
   sent : 0..MaxLen + 1, landed : 0..MaxLen + 1, inode : Upload \cup {NoFile}]

Go(u, pc) == up' = [up EXCEPT ![u].pc = pc]

InMap(s) == session[s].state \in {"open", "expired"}

(* `retain(|_, v| !v.is_expired())` *)
CleanedUp == [s \in Session |->
  IF session[s].state = "expired" THEN [session[s] EXCEPT !.state = "gone"] ELSE session[s]]

-------------------------------------------------------------------------------
(* new_session: cleanup, then insert. *)
NewSession(s, a) ==
  /\ session[s].state = "none"
  /\ session' = [CleanedUp EXCEPT ![s] = [state |-> "open", owner |-> a]]
  /\ UNCHANGED <<up, buf, file, data, record, flushed, loaded, panicked>>

(* EXPIRE_DUR passes.  The entry stays in the map until a cleanup. *)
Expire(s) ==
  /\ session[s].state = "open"
  /\ session' = [session EXCEPT ![s].state = "expired"]
  /\ UNCHANGED <<up, buf, file, data, record, flushed, loaded, panicked>>

(* upload: only the presence of the session is looked up here. *)
Begin(u, a, s, n) ==
  /\ up[u].pc = "idle" /\ InMap(s)
  /\ up' = [up EXCEPT ![u] = [@ EXCEPT !.pc = "create", !.who = a, !.session = s, !.size = n]]
  /\ UNCHANGED <<session, buf, file, data, record, flushed, loaded, panicked>>

(* File::create opens what is there and cuts it to length 0. *)
Create(u) ==
  LET s == up[u].session  i == IF buf[s] = NoFile THEN u ELSE buf[s] IN
  /\ up[u].pc = "create"
  /\ buf' = [buf EXCEPT ![s] = i]
  /\ data' = [data EXCEPT ![i] = << >>]
  /\ up' = [up EXCEPT ![u].pc = "write", ![u].inode = i]
  /\ UNCHANGED <<session, file, record, flushed, loaded, panicked>>

(* write_all of a chunk returns once the previous one is on disk. *)
Send(u) ==
  /\ up[u].pc = "write" /\ up[u].sent < up[u].size /\ up[u].landed = up[u].sent
  /\ up' = [up EXCEPT ![u].sent = @ + 1]
  /\ UNCHANGED <<session, buf, file, data, record, flushed, loaded, panicked>>

(* A chunk written at position k of a file; a gap before it reads as zeros. *)
Written(d, k, u) ==
  [j \in 1..(IF Len(d) < k THEN k ELSE Len(d)) |->
     IF j = k THEN u ELSE IF j <= Len(d) THEN d[j] ELSE Hole]

(* The file thread writes the chunk, even if the handler is gone by now. *)
Land(u) ==
  /\ up[u].landed < up[u].sent
  /\ data' = [data EXCEPT ![up[u].inode] = Written(@, up[u].landed + 1, u)]
  /\ up' = [up EXCEPT ![u].landed = @ + 1]
  /\ UNCHANGED <<session, buf, file, record, flushed, loaded, panicked>>

Fits(u) == up[u].size <= MaxLen

(* The length is compared when the whole body has been written. *)
TooLarge(u) ==
  /\ up[u].pc = "write" /\ up[u].sent = up[u].size /\ ~Fits(u)
  /\ Go(u, "unlink")
  /\ UNCHANGED <<session, buf, file, data, record, flushed, loaded, panicked>>

(* remove_file by name, its error ignored; PayloadTooLarge. *)
Unlink(u) ==
  /\ up[u].pc = "unlink"
  /\ buf' = [buf EXCEPT ![up[u].session] = NoFile]
  /\ Go(u, "refused")
  /\ UNCHANGED <<session, file, data, record, flushed, loaded, panicked>>

(* flush and sync_data: the last chunk is waited for. *)
FlushedMutant(u) == up[u].sent = up[u].size
Flushed(u) == up[u].sent = up[u].size /\ up[u].landed = up[u].size

Sync(u) ==
  /\ up[u].pc = "write" /\ Flushed(u) /\ Fits(u)
  /\ Go(u, "accept")
  /\ UNCHANGED <<session, buf, file, data, record, flushed, loaded, panicked>>

(* UploadSessions::accept: cleanup, look up, compare the owner, remove. *)
AcceptMutant(u) ==
  LET s == up[u].session IN
  /\ up[u].pc = "accept"
  /\ IF CleanedUp[s].state = "open" /\ session[s].owner = up[u].who
     THEN Go(u, "rename") ELSE Go(u, "done")
  /\ session' = CleanedUp
  /\ UNCHANGED <<buf, file, data, record, flushed, loaded, panicked>>
AcceptLateMutant(u) ==
  LET s == up[u].session IN
  /\ up[u].pc = "accept"
  /\ IF InMap(s) /\ session[s].owner = up[u].who
     THEN session' = [session EXCEPT ![s].state = "gone"] /\ Go(u, "rename")
     ELSE session' = session /\ Go(u, "done")
  /\ UNCHANGED <<buf, file, data, record, flushed, loaded, panicked>>
Accept(u) ==
  LET s == up[u].session IN
  /\ up[u].pc = "accept"
  /\ IF CleanedUp[s].state = "open" /\ session[s].owner = up[u].who
     THEN session' = [CleanedUp EXCEPT ![s].state = "gone"] /\ Go(u, "rename")
     ELSE session' = CleanedUp /\ Go(u, "done")
  /\ UNCHANGED <<buf, file, data, record, flushed, loaded, panicked>>

(* The buffer takes the name of the resource, if it is still there. *)
RenameMutant(u) ==
  LET s == up[u].session IN
  /\ up[u].pc = "rename"
  /\ file' = [file EXCEPT ![u] = buf[s]]
  /\ buf' = [buf EXCEPT ![s] = NoFile]
  /\ Go(u, "insert")
  /\ UNCHANGED <<session, data, record, flushed, loaded, panicked>>
RenameCopyMutant(u) ==
  LET s == up[u].session IN
  /\ up[u].pc = "rename"
  /\ file' = [file EXCEPT ![u] = buf[s]]
  /\ Go(u, IF buf[s] = NoFile THEN "done" ELSE "insert")
  /\ UNCHANGED <<session, buf, data, record, flushed, loaded, panicked>>
Rename(u) ==
  LET s == up[u].session IN
  /\ up[u].pc = "rename"
  /\ file' = [file EXCEPT ![u] = buf[s]]
  /\ buf' = [buf EXCEPT ![s] = NoFile]
  /\ Go(u, IF buf[s] = NoFile THEN "done" ELSE "insert")
  /\ UNCHANGED <<session, data, record, flushed, loaded, panicked>>

Insert(u) ==
  /\ up[u].pc = "insert"
  /\ record' = record \cup {u} /\ loaded' = loaded \cup {u}
  /\ Go(u, "done")
  /\ UNCHANGED <<session, buf, file, data, flushed, panicked>>

(* What get_payload streams for the resource. *)
Payload(u) == data[file[u]]

(* Data::VERSION goes to disk with a record; decode knows one version. *)
Version    == 1
Decodes(v) == v = 0

(* get_payload, or any handler that looks into the resource. *)
GetPayload(u) ==
  /\ u \in record
  /\ IF u \in loaded \/ Decodes(Version) THEN loaded' = loaded \cup {u} /\ UNCHANGED panicked
                                          ELSE panicked' = TRUE /\ UNCHANGED loaded
  /\ UNCHANGED <<session, up, buf, file, data, record, flushed>>

(* The client goes away in the middle. *)
Cancel(u) ==
  /\ Faults /\ up[u].pc \notin {"idle", "done", "refused"}
  /\ Go(u, "done")
  /\ UNCHANGED <<session, buf, file, data, record, flushed, loaded, panicked>>

(* A post that listed the resource destroys it; nothing removes its file. *)
DestroyMutant(u) ==
  /\ u \in record /\ record' = record \ {u} /\ loaded' = loaded \ {u}
  /\ file' = [file EXCEPT ![u] = NoFile]
  /\ UNCHANGED <<session, up, buf, data, flushed, panicked>>
Destroy(u) ==
  /\ u \in record /\ record' = record \ {u} /\ loaded' = loaded \ {u}
  /\ UNCHANGED <<session, up, buf, file, data, flushed, panicked>>

(* The daemon of the resource world. *)
Flush ==
  /\ flushed # record /\ flushed' = record
  /\ UNCHANGED <<session, up, buf, file, data, record, loaded, panicked>>

(* The process restarts: sessions and handlers are gone, and the records are *)
(* those of the last flush, with destroyed ones among them.                  *)
Restart ==
  /\ Faults
  /\ session' = [s \in Session |->
       IF InMap(s) THEN [session[s] EXCEPT !.state = "gone"] ELSE session[s]]
  /\ up' = [u \in Upload |->
       IF up[u].pc = "idle" THEN up[u]
       ELSE [up[u] EXCEPT !.pc = IF @ = "refused" THEN @ ELSE "done", !.sent = up[u].landed]]
  /\ record' = flushed /\ loaded' = {}
  /\ UNCHANGED <<buf, file, data, flushed, panicked>>

-------------------------------------------------------------------------------
Init ==
  /\ session = [s \in Session |-> [state |-> "none", owner |-> Nobody]]
  /\ up = [u \in Upload |-> [pc |-> "idle", who |-> Nobody, session |-> Nowhere, size |-> 0,
                             sent |-> 0, landed |-> 0, inode |-> NoFile]]
  /\ buf = [s \in Session |-> NoFile]
  /\ file = [u \in Upload |-> NoFile]
  /\ data = [u \in Upload |-> << >>]
  /\ record = {} /\ flushed = {} /\ loaded = {} /\ panicked = FALSE

Serve(u) ==
  \/ Create(u) \/ Send(u) \/ TooLarge(u) \/ Unlink(u) \/ Sync(u)
  \/ Accept(u) \/ Rename(u) \/ Insert(u)

Next ==
  \/ \E s \in Session : Expire(s) \/ \E a \in Account : NewSession(s, a)
  \/ \E u \in Upload :
       \/ \E a \in Account, s \in Session, n \in 0..MaxLen + 1 : Begin(u, a, s, n)
       \/ Serve(u) \/ Land(u) \/ Cancel(u) \/ GetPayload(u) \/ Destroy(u)
  \/ Flush \/ Restart

Spec == Init /\ [][Next]_vars

-------------------------------------------------------------------------------
(* Properties *)

(* Shape of the state; no upload is ahead of its body or behind its writes. *)
TypeOK ==
  /\ session \in [Session -> SessionRecord]
  /\ up \in [Upload -> UploadRecord]
  /\ buf \in [Session -> Upload \cup {NoFile}]
  /\ file \in [Upload -> Upload \cup {NoFile}]
  /\ data \in [Upload -> Seq(Upload \cup {Hole})]
  /\ \A u \in Upload : /\ Len(data[u]) <= MaxLen + 1
                       /\ up[u].landed <= up[u].sent /\ up[u].sent <= up[u].size
                       /\ up[u].sent <= up[u].landed + 1
  /\ loaded \subseteq record /\ record \subseteq Upload /\ flushed \subseteq Upload
  /\ panicked \in BOOLEAN

(* A resource never exists without the file get_payload opens for it: not    *)
(* when a too large upload removes the buffer of another one, not when two   *)
(* uploads race to rename it, and not when a restart brings a resource back  *)
(* that was destroyed after the last flush.                                  *)
RecordHasPayload == \A u \in record : file[u] # NoFile

(* Two resources never share a file, and the file of a resource is under no  *)
(* buffer name any more: an upload that starts later cannot cut it short.    *)
PayloadsApart ==
  \A u \in record :
    /\ \A v \in record : u # v => file[u] # file[v]
    /\ \A s \in Session : buf[s] # file[u]

(* A session yields at most one resource, however many uploads it was given, *)
(* and that resource belongs to the account that opened the session.         *)
OneResourcePerSession ==
  \A u \in record :
    /\ session[up[u].session].owner = up[u].who
    /\ \A v \in record : u # v => up[u].session # up[v].session

(* A session past its 15 seconds is never consumed, even when the upload    *)
(* had looked it up in time: it only goes when a cleanup drops it.          *)
NoLateAccept ==
  [][\A u \in Upload : up[u].pc = "accept" /\ up'[u].pc = "rename"
       => session[up[u].session].state = "open"]_vars

(* No other upload was given the session of u. *)
Sole(u) == \A v \in Upload \ {u} : up[v].session # up[u].session

(* The body of u, whole and in order. *)
Intact(u) == Payload(u) = [k \in 1..up[u].size |-> u]

(* A resource whose session was used by one upload only has exactly the      *)
(* bytes that were sent: all of them were on disk before the record existed. *)
SoleUploadIntact ==
  \A u \in record :
    Sole(u) => Intact(u)

(* Another upload into the session of u was refused as too large: it went as *)
(* far as to remove the buffer.                                              *)
Removed(u) ==
  \E v \in Upload \ {u} : up[v].session = up[u].session /\ up[v].pc = "refused"

(* An upload that has consumed its session finds its buffer and becomes a     *)
(* resource: no session is spent for nothing, whoever else uploads into it,   *)
(* unless one of them was too large and has removed the file they share.      *)
AcceptedFindsBuffer ==
  \A u \in Upload : up[u].pc = "rename" /\ buf[up[u].session] = NoFile => Removed(u)

(* The handlers, the file thread and restarts implement the life of deposits:  *)
(* of all uploads into a session one at most is accepted, of its owner and in  *)
(* time; its file is its own and was there before its record; what was         *)
(* destroyed comes back only by a restart (accept, upload).                   *)
Stage(pc) ==
  CASE pc = "rename" -> "accepted" [] pc = "insert" -> "placed" [] pc \in {"done", "refused"} -> "over"
    [] OTHER -> "new"

Claim(u) ==
  IF up[u].pc \in {"rename", "insert"} \/ file[u] # NoFile
  THEN {[session |-> up[u].session, by |-> up[u].who]} ELSE {}

Closed(state) == IF state \in {"expired", "gone"} THEN "closed" ELSE state

Depot == INSTANCE Deposits
  WITH Resource <- Upload, File <- Upload,
       slot  <- [s \in Session |->
                  [state |-> Closed(session[s].state), owner |-> session[s].owner]],
       stage <- [u \in Upload |-> Stage(up[u].pc)],
       claim <- [u \in Upload |-> Claim(u)],
       stored <- record, saved <- flushed

ImplementsDeposits == Depot!Spec

(* src/resource.rs:136 unreachable!(): whatever is read back from disk has a  *)
(* version that decode knows, so no request ends in that panic.               *)
ReadsDecode == ~panicked

-------------------------------------------------------------------------------
(* The inductive invariant behind the properties of records. *)

Begun(u)  == up[u].pc \notin {"idle", "create"}
Stored(u) == u \in record \cup flushed

(* An upload knows its session from its first step on, its inode once it has *)
(* made or found one, and is done with both when its resource is stored.     *)
Started ==
  \A u \in Upload :
    /\ IF up[u].pc = "idle" THEN up[u].session = Nowhere ELSE up[u].session \in Session
    /\ up[u].pc \in {"idle", "create"} => up[u].inode = NoFile /\ up[u].sent = 0
    /\ up[u].pc \in {"write", "accept", "rename", "insert"} \/ Stored(u) => up[u].inode # NoFile
    /\ up[u].pc \in {"accept", "rename", "insert"} \/ Stored(u) => up[u].landed = up[u].size
    /\ up[u].inode = NoFile => up[u].sent = 0
    /\ up[u].pc = "insert" \/ Stored(u) => file[u] # NoFile
    /\ file[u] # NoFile => up[u].pc \in {"insert", "done"}
    /\ Stored(u) => up[u].pc = "done"

(* Every name leads to an inode that an upload into the same session made, *)
(* and an inode has one name.                                              *)
Inodes ==
  /\ \A s \in Session : buf[s] # NoFile => Begun(buf[s]) /\ up[buf[s]].session = s
  /\ \A u \in Upload : LET i == up[u].inode IN
       i # NoFile => Begun(i) /\ up[i].session = up[u].session
  /\ \A u \in Upload : file[u] # NoFile =>
       /\ Begun(file[u]) /\ up[file[u]].session = up[u].session
       /\ \A s \in Session : buf[s] # file[u]
       /\ \A v \in Upload : u # v => file[u] # file[v]

(* The upload that consumed a session is its owner's, and the only one. *)
Won(u) == up[u].pc \in {"rename", "insert"} \/ Stored(u)
OneWinner ==
  \A u \in Upload : Won(u) =>
    /\ session[up[u].session] = [state |-> "gone", owner |-> up[u].who]
    /\ \A v \in Upload : Won(v) /\ u # v => up[u].session # up[v].session

(* The only upload into a session has an inode of its own, with as much of *)
(* its body as has landed.                                                 *)
SoleData ==
  \A u \in Upload : Sole(u) /\ up[u].inode # NoFile => data[u] = [k \in 1..up[u].landed |-> u]

(* The buffer of an upload at work goes in two ways: with a body that is too *)
(* large, or to the upload that has consumed the session, which stops u then. *)
BufferKept ==
  \A u \in Upload :
    up[u].pc \in {"write", "unlink", "accept", "rename"} /\ buf[up[u].session] = NoFile =>
      \/ Removed(u)
      \/ up[u].pc # "rename" /\ session[up[u].session].state = "gone"

SafeInv == TypeOK /\ Started /\ Inodes /\ OneWinner /\ SoleData /\ BufferKept
===============================================================================
