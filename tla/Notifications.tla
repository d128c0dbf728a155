----------------------------- MODULE Notifications -----------------------------
(***************************************************************************)
(* Notifications: src/notification.rs and src/handle/notification.rs.        *)
(* A notification is followed from notify through modify to remove; filter,  *)
(* get_info and bulk_get_info are asked by the viewer at any point.  Paging   *)
(* (from, limit) is left out.                                                *)
(***************************************************************************)
EXTENDS Calendar, Access

CONSTANTS
  NoteTime,    \* the instants notifications start at and requests come at
  PerDay,      \* instants of a day
  YearSpan     \* Duration::days(365)

ASSUME InstantAssumption ==
  /\ PerDay \in Nat \ {0} /\ YearSpan \in Nat \ {0}
  /\ NoteTime \subseteq Int /\ {t \div PerDay : t \in NoteTime} \subseteq Day

VARIABLES
  note,  \* the notification, or NoNote
  now    \* the clock

Date(t) == t \div PerDay
NoNote  == [sender |-> Unset]
Note    == [sender : Account, time : NoteTime]

NotePermission == {"ManageNotifications", "GetPubNotifications", "ReviewPost", "GetPubPost"}

NoteDay   == {Date(t) : t \in NoteTime}
NoteQuery == [after : NoteDay \cup {Unset}, before : NoteDay \cup {Unset},
              sender : Account \cup {Unset}]

Manages == May("ManageNotifications")

(* The selection in the world, by the day of the year the notification starts. *)
NoteSelected(q, n) ==
  \/ Unset \in {q.after, q.before}
  \/ q.after + YearSpan <= q.before
  \/ LET first == Ordinal(q.after)  last == Ordinal(q.before)  o == Ordinal(Date(n.time)) IN
     IF YearOf(q.after) = YearOf(q.before) THEN first <= o /\ o <= last
                                           ELSE o <= last \/ first <= o

(* The test of the loop. *)
NotePassesMutant(q, n) ==
  /\ q.sender # Unset /\ Manages => n.sender = q.sender
  /\ q.after # Unset => Date(n.time) < q.after
  /\ q.before # Unset => Date(n.time) > q.before
  /\ Manages \/ Date(n.time) <= Date(now)
NotePasses(q, n) ==
  /\ q.sender # Unset /\ Manages => n.sender = q.sender
  /\ q.after # Unset => Date(n.time) < q.after
  /\ q.before # Unset => Date(n.time) > q.before
  /\ Manages \/ n.time <= now

NoteForm == IF Manages THEN "full" ELSE "simple"

NoteShown(n) ==
  IF May("GetPubNotifications") /\ (n.time <= now \/ Manages) THEN NoteForm ELSE "none"

(* bulk_get_info asks for another permission than get_info, and the test of *)
(* the time is the other way round.                                         *)
NoteBulkShown(n) ==
  IF May("GetPubPost") /\ (n.time > now \/ Manages) THEN NoteForm ELSE "none"

-------------------------------------------------------------------------------
(* Handlers that change notifications.  What other accounts may do is open.  *)

MayManage(a) == a = Viewer => Manages

Notify(a, t) ==
  /\ note = NoNote /\ MayManage(a)
  /\ note' = [sender |-> a, time |-> t]
  /\ UNCHANGED now

ModifyNote(a, t) ==
  /\ note # NoNote /\ MayManage(a)
  /\ note' = [note EXCEPT !.time = t]
  /\ UNCHANGED now

(* remove, and bulk_remove of a list that has the notification *)
RemoveNote(a) ==
  /\ note # NoNote /\ MayManage(a)
  /\ note' = NoNote
  /\ UNCHANGED now

NoteTick ==
  /\ \E t \in NoteTime : t > now /\ now' = t
  /\ UNCHANGED note

(* Queries. *)

NoteFilter(q) ==
  answer' = [request |-> "note_filter", query |-> q,
             listed |-> May("GetPubNotifications") /\ NoteSelected(q, note) /\ NotePasses(q, note)]

NoteGetInfo == answer' = [request |-> "note_info", shown |-> NoteShown(note)]

NoteBulkGetInfo(asked) ==
  answer' = [request |-> "note_bulk", shown |-> IF asked THEN NoteBulkShown(note) ELSE "none"]

NoteInit == note = NoNote /\ now \in NoteTime /\ held \in SUBSET NotePermission

NoteChange ==
  /\ \/ \E a \in Account : RemoveNote(a) \/ \E t \in NoteTime : Notify(a, t) \/ ModifyNote(a, t)
     \/ NoteTick
  /\ UNCHANGED <<held, answer>>

NoteRequest ==
  /\ note # NoNote
  /\ \/ \E q \in NoteQuery : NoteFilter(q)
     \/ NoteGetInfo
     \/ \E asked \in BOOLEAN : NoteBulkGetInfo(asked)
  /\ UNCHANGED <<held, note, now>>

-------------------------------------------------------------------------------
(* Properties *)

(* filter and get_info agree on who sees what: a filter without dates lists   *)
(* exactly the notifications that get_info would show the same account at the *)
(* same time, whoever sent them unless it may ask for a sender.               *)
NoteListedIffShown ==
  /\ answer.request = "note_filter"
  /\ answer.query.after = Unset /\ answer.query.before = Unset
  /\ answer.query.sender = Unset \/ ~Manages
  => answer.listed = (NoteShown(note) # "none")

(* `after`: "Filter notifications from this date"; `before`: "Filter          *)
(* notifications until this date".  What is listed lies between the two.      *)
NoteDates ==
  answer.request = "note_filter" /\ answer.listed =>
    /\ answer.query.after # Unset => Date(note.time) >= answer.query.after
    /\ answer.query.before # Unset => Date(note.time) <= answer.query.before
===============================================================================
