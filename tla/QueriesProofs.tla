----------------------------- MODULE QueriesProofs -----------------------------
(***************************************************************************)
(* Proofs about Queries, for any calendar whose years are longer than two   *)
(* weeks, any accounts and any permissions.                                 *)
(***************************************************************************)
EXTENDS Queries, TLAPS

-------------------------------------------------------------------------------
(* The day of the year. *)

(* A day is in the year that YearOf gives. *)
LEMMA YearFound ==
  ASSUME NEW d \in Int, \E y \in Year : InYear(d, y)
  PROVE  YearOf(d) \in Year /\ InYear(d, YearOf(d))
BY DEF YearOf

(* A post that is available on a day starts within the week before it, and  *)
(* the selection by day of the year finds it, wherever a year begins.       *)
LEMMA SelectionLosesNone ==
  ASSUME NEW on \in Day, NEW start \in Day, start <= on, on - start <= Week
  PROVE  StartsAround(on, start)
<1> DEFINE y1 == YearOf(on - Week)
           y2 == YearOf(on + Week)
           ys == YearOf(start)
<1>1. /\ on \in Int /\ start \in Int /\ Week \in Nat
      /\ \A y \in Year : y \in Int /\ NewYear[y] \in Int
      /\ \A y, z \in Year : y < z => NewYear[z] - NewYear[y] > 2 * Week
  BY YearAssumption, WeekAssumption
<1>2. /\ y1 \in Year /\ InYear(on - Week, y1)
      /\ y2 \in Year /\ InYear(on + Week, y2)
      /\ ys \in Year /\ InYear(start, ys)
  <2>1. (\E y \in Year : InYear(on + -Week, y)) /\ \E y \in Year : InYear(on + Week, y)
    BY WeekAssumption
  <2>2. on + -Week = on - Week /\ on - Week \in Int /\ on + Week \in Int
    BY <1>1
  <2>3. \E y \in Year : InYear(on - Week, y)
    BY <2>1, <2>2
  <2>4. \E y \in Year : InYear(start, y)
    BY YearAssumption
  <2> QED BY <1>1, <2>1, <2>2, <2>3, <2>4, YearFound
<1>3. /\ Ordinal(on - Week) = (on - Week) - NewYear[y1] + 1
      /\ Ordinal(on + Week) = (on + Week) - NewYear[y2] + 1
      /\ Ordinal(start) = start - NewYear[ys] + 1
  BY DEF Ordinal
<1> HIDE DEF y1, y2, ys
<1>4. /\ NewYear[y1] <= on - Week /\ NewYear[y2] <= on + Week /\ NewYear[ys] <= start
      /\ NewYear[ys] <= on - Week => ys <= y1
      /\ NewYear[y1] <= start => y1 <= ys
      /\ NewYear[ys] <= on + Week => ys <= y2
  BY <1>2 DEF InYear
<1>5. y1 <= ys /\ ys <= y2
  BY <1>1, <1>2, <1>4
(* A third year does not fit in two weeks. *)
<1>6. ys = y1 \/ ys = y2
  <2>1. SUFFICES ASSUME y1 < ys, ys < y2 PROVE FALSE
    BY <1>1, <1>2, <1>5
  <2>2. NewYear[ys] > on - Week
    BY <1>1, <1>2, <1>4, <2>1
  <2>3. NewYear[y2] - NewYear[ys] > 2 * Week
    BY <1>1, <1>2, <2>1
  <2> QED BY <1>1, <1>2, <1>4, <2>2, <2>3
<1>7. CASE y1 = y2
  <2>1. Ordinal(on - Week) <= Ordinal(start) /\ Ordinal(start) <= Ordinal(on + Week)
    BY <1>1, <1>2, <1>3, <1>5, <1>6, <1>7
  <2>2. Ordinal(on - Week) \in Int /\ Ordinal(on + Week) \in Int /\ Ordinal(start) \in Int
    BY <1>1, <1>2, <1>3
  <2> QED BY <2>1, <2>2 DEF StartsAround
<1>8. CASE y1 < y2
  <2>1. Ordinal(on - Week) > Ordinal(on + Week)
    <3>1. NewYear[y2] - NewYear[y1] > 2 * Week
      BY <1>1, <1>2, <1>8
    <3> QED BY <1>1, <1>2, <1>3, <3>1
  <2>2. ys = y1 => Ordinal(start) >= Ordinal(on - Week)
    BY <1>1, <1>2, <1>3
  <2>3. ys = y2 => Ordinal(start) <= Ordinal(on + Week)
    BY <1>1, <1>2, <1>3
  <2> QED BY <1>6, <2>1, <2>2, <2>3 DEF StartsAround
<1> QED BY <1>1, <1>2, <1>5, <1>7, <1>8

(* So filter lists exactly what it was asked for and what may be seen. *)
LEMMA ListedIsWanted ==
  ASSUME post \in PostRecord, NEW q \in Query
  PROVE  (Selected(q, post) /\ Passes(q, post)) = (Wanted(q) /\ Visible(post))
<1>1. /\ post.creator \in Account /\ post.status \in Status
      /\ post.start \in Day /\ post.end \in Day /\ post.end - post.start <= Week
      /\ q.creator \in Account \cup {Unset} /\ q.status \in Status \cup {Unset}
      /\ q.on \in Day \cup {Unset}
  BY DEF PostRecord, Query
<1>2. Day \subseteq Int /\ Week \in Nat
  BY YearAssumption, WeekAssumption
<1>3. ASSUME q.on # Unset
      PROVE  Available(post, q.on) <=> q.on \in post.start..post.end
  <2>1. q.on \in Int /\ post.start \in Int /\ post.end \in Int
    BY <1>1, <1>2, <1>3
  <2> QED BY <2>1 DEF Available
<1>4. ASSUME q.on # Unset, Available(post, q.on)
      PROVE  StartsAround(q.on, post.start)
  <2>1. /\ q.on \in Int /\ post.start \in Int /\ post.end \in Int
        /\ post.start <= q.on /\ q.on <= post.end
    BY <1>1, <1>2, <1>4 DEF Available
  <2>2. q.on - post.start <= Week
    BY <1>1, <1>2, <2>1
  <2> QED BY <1>1, <1>4, <2>1, <2>2, SelectionLosesNone
<1>5. Wanted(q) /\ Visible(post) => Selected(q, post) /\ Passes(q, post)
  BY <1>3, <1>4 DEF Wanted, Selected, Passes
<1>6. Selected(q, post) /\ Passes(q, post) => Wanted(q) /\ Visible(post)
  BY <1>3 DEF Wanted, Selected, Passes
<1> QED BY <1>5, <1>6

-------------------------------------------------------------------------------
(* What permissions contain. *)

(* Reading unreviewed posts comes with reading published ones. *)
LEMMA ReviewersRead == May("ReviewPost") => May("GetPubPost")
<1>1. "GetPubPost" \in Contained("ReviewPost") /\ "GetPubPost" \in Contained("RemovePost")
  BY DEF Contained
<1>2. \A h \in held : "ReviewPost" \in Contained(h) => h = "RemovePost"
  BY DEF Contained
<1> QED BY <1>1, <1>2 DEF May, Contains

(* Seeing an account in full comes with seeing it at all. *)
LEMMA FullIsSimple == May("ViewFullAccount") => May("ViewSimpleAccount")
<1>1. "ViewSimpleAccount" \in Contained("ViewFullAccount")
      /\ "ViewSimpleAccount" \in Contained("SetPermissions")
  BY DEF Contained
<1>2. \A h \in held : "ViewFullAccount" \in Contained(h) => h = "SetPermissions"
  BY DEF Contained
<1> QED BY <1>1, <1>2 DEF May, Contains

(* The two handlers that show accounts refuse the same viewers. *)
LEMMA ShownTogether ==
  target # Viewer => (AccountShown(target) # "none" <=> AccountBulkShown(TRUE) # "none")
BY FullIsSimple DEF AccountShown, AccountBulkShown

-------------------------------------------------------------------------------
(* The answers. *)

Unanswered == answer.request = "none"

Answers ==
  FilterExact /\ ReadableIsListed /\ NoteListedIffShown /\ SeenAloneIffInBulk /\ ShownIsPlayable

(* There is one item and one answer: what was answered is about what is there. *)
SafeInv ==
  /\ post \in PostRecord \cup {NoPost}
  /\ Answers

(* Nothing is said of a request that has not been answered. *)
LEMMA NothingSaid == Unanswered => Answers
BY DEF Unanswered, Answers, FilterExact, ReadableIsListed, NoteListedIffShown,
       SeenAloneIffInBulk, ShownIsPlayable

(* And so after a step. *)
LEMMA NothingSaidThen == Unanswered' => Answers'
BY NothingSaid, PTL

(* SafeInv holds before the query. *)
LEMMA SafeInit == Init => SafeInv
<1> SUFFICES ASSUME Init PROVE SafeInv
  OBVIOUS
<1>1. Unanswered
  BY DEF Init, NoAnswer, Unanswered
<1>2. post \in PostRecord \cup {NoPost}
  BY DEF Init, PostInit, NoPostHere
<1> QED BY <1>1, <1>2, NothingSaid DEF SafeInv

(* An answer about a post. *)
LEMMA PostStep ==
  ASSUME SafeInv, PostQuery, UNCHANGED <<note, now, target, resource>>
  PROVE  SafeInv'
<1>1. post \in PostRecord /\ post' = post /\ held' = held
  BY DEF SafeInv, PostQuery
<1>2. \A p : May(p)' = May(p)
  BY <1>1 DEF May
<1>3. Visible(post)' <=> Visible(post)
  BY <1>1, <1>2 DEF Visible
<1>4. ASSUME NEW q \in Query, PostFilter(q) PROVE Answers'
  <2>1. answer'.request = "post_filter" /\ answer'.query = q
        /\ answer'.listed = (Selected(q, post) /\ Passes(q, post))
    BY <1>4 DEF PostFilter
  <2>2. answer'.listed = (Wanted(q) /\ Visible(post))
    BY <1>1, <2>1, ListedIsWanted
  <2>3. FilterExact'
    BY <1>1, <1>3, <2>1, <2>2 DEF FilterExact, Wanted
  <2> QED BY <2>1, <2>3 DEF Answers, ReadableIsListed, NoteListedIffShown, SeenAloneIffInBulk,
            ShownIsPlayable
<1>5. ASSUME answer'.request \in {"post_info", "post_bulk"},
             answer'.shown # "none" => \E today \in Day : Shown(post, today) # "none"
      PROVE  Answers'
  <2>1. ASSUME answer'.shown # "none" PROVE Visible(post) /\ (post.creator = Viewer \/ May("GetPubPost"))
    <3>1. PICK today \in Day : Shown(post, today) # "none"
      BY <1>5, <2>1
    <3>2. \/ post.creator = Viewer \/ May("ReviewPost")
          \/ May("GetPubPost") /\ post.status = "approved"
      BY <3>1 DEF Shown
    <3> QED BY <3>2, ReviewersRead DEF Visible
  <2>2. ReadableIsListed'
    BY <1>3, <2>1 DEF ReadableIsListed
  <2>3. ShownIsPlayable'
    BY <1>1, <1>2, <2>1 DEF ShownIsPlayable, PayloadGiven, Open
  <2> QED BY <1>5, <2>2, <2>3 DEF Answers, FilterExact, NoteListedIffShown, SeenAloneIffInBulk
<1>6. ASSUME NEW today \in Day, PostGetInfo(today) PROVE Answers'
  BY <1>5, <1>6 DEF PostGetInfo
<1>7. ASSUME NEW today \in Day, NEW asked \in BOOLEAN, PostBulkGetInfo(asked, today) PROVE Answers'
  BY <1>5, <1>7 DEF PostBulkGetInfo
<1> QED BY <1>1, <1>4, <1>6, <1>7 DEF PostQuery, SafeInv

(* An answer about a notification. *)
LEMMA NoteStep ==
  ASSUME SafeInv, NoteRequest, UNCHANGED <<post, target, resource>>
  PROVE  SafeInv'
<1>1. UNCHANGED <<held, note, now, post>>
  BY DEF NoteRequest
<1>2. ASSUME NEW q \in NoteQuery, NoteFilter(q) PROVE Answers'
  <2>1. answer'.request = "note_filter" /\ answer'.query = q
        /\ answer'.listed = (May("GetPubNotifications") /\ NoteSelected(q, note) /\ NotePasses(q, note))
    BY <1>2 DEF NoteFilter
  <2>2. ASSUME q.after = Unset, q.before = Unset, q.sender = Unset \/ ~Manages
        PROVE  answer'.listed = (NoteShown(note) # "none")
    <3>1. NoteSelected(q, note)
      BY <2>2 DEF NoteSelected
    <3>2. NotePasses(q, note) <=> Manages \/ note.time <= now
      BY <2>2 DEF NotePasses
    <3>3. NoteShown(note) # "none" <=> May("GetPubNotifications") /\ (note.time <= now \/ Manages)
      BY DEF NoteShown, NoteForm
    <3> QED BY <2>1, <3>1, <3>2, <3>3
  <2>3. Manages' = Manages /\ NoteShown(note)' = NoteShown(note)
    BY <1>1 DEF Manages, May, NoteShown, NoteForm
  <2>4. NoteListedIffShown'
    BY <2>1, <2>2, <2>3 DEF NoteListedIffShown
  <2> QED BY <2>1, <2>4 DEF Answers, FilterExact, ReadableIsListed, SeenAloneIffInBulk, ShownIsPlayable
<1>3. ASSUME answer'.request \in {"note_info", "note_bulk"} PROVE Answers'
  BY <1>3 DEF Answers, FilterExact, ReadableIsListed, NoteListedIffShown, SeenAloneIffInBulk,
              ShownIsPlayable
<1>4. answer'.request \in {"note_info", "note_bulk"} \/ \E q \in NoteQuery : NoteFilter(q)
  BY DEF NoteRequest, NoteGetInfo, NoteBulkGetInfo
<1> QED BY <1>1, <1>2, <1>3, <1>4 DEF SafeInv

(* An answer about an account or a resource. *)
LEMMA InfoStep ==
  ASSUME SafeInv, AccountQuery \/ ResourceQuery, UNCHANGED <<post, note, now>>
  PROVE  SafeInv'
<1>1. post' = post /\ held' = held /\ target' = target
  BY DEF AccountQuery, ResourceQuery
<1>2. CASE AccountGetInfo
  <2>1. answer'.request = "account_info" /\ answer'.shown = AccountShown(target)
    BY <1>2 DEF AccountGetInfo
  <2>2. AccountBulkShown(TRUE)' = AccountBulkShown(TRUE)
    BY <1>1 DEF AccountBulkShown, May
  <2>3. SeenAloneIffInBulk'
    BY <1>1, <2>1, <2>2, ShownTogether DEF SeenAloneIffInBulk
  <2> QED BY <1>1, <2>1, <2>3 DEF SafeInv, Answers, FilterExact, ReadableIsListed, NoteListedIffShown,
            ShownIsPlayable
<1>3. ASSUME NEW asked \in BOOLEAN, AccountBulkGetInfo(asked)
      PROVE  SafeInv'
  <2>1. answer'.request = "account_bulk" /\ answer'.shown = AccountBulkShown(asked)
    BY <1>3 DEF AccountBulkGetInfo
  <2>2. AccountShown(target)' = AccountShown(target)
    BY <1>1 DEF AccountShown, May
  <2>3. answer'.shown # "none" => AccountBulkShown(TRUE) # "none"
    BY <2>1 DEF AccountBulkShown
  <2>4. SeenAloneIffInBulk'
    BY <1>1, <2>1, <2>2, <2>3, ShownTogether DEF SeenAloneIffInBulk
  <2> QED BY <1>1, <2>1, <2>4 DEF SafeInv, Answers, FilterExact, ReadableIsListed, NoteListedIffShown,
            ShownIsPlayable
<1>4. CASE answer'.request \in {"payload", "resource_info", "resource_bulk"}
  BY <1>1, <1>4 DEF SafeInv, Answers, FilterExact, ReadableIsListed, NoteListedIffShown,
     SeenAloneIffInBulk, ShownIsPlayable
<1> QED BY <1>2, <1>3, <1>4 DEF AccountQuery, ResourceQuery, GetPayload, ResourceGetInfo,
          ResourceBulkGetInfo

(* Every step keeps SafeInv. *)
LEMMA SafeStep == SafeInv /\ [Next]_vars => SafeInv'
<1> SUFFICES ASSUME SafeInv, [Next]_vars PROVE SafeInv'
  OBVIOUS
<1>1. CASE UNCHANGED vars
  BY <1>1 DEF vars, SafeInv, Answers, FilterExact, ReadableIsListed, NoteListedIffShown,
     SeenAloneIffInBulk, ShownIsPlayable, Wanted, Visible, May, NoteShown, NoteForm, Manages,
     PayloadGiven, Open, AccountShown, AccountBulkShown
<1>2. CASE Next /\ NoteChange /\ UNCHANGED <<post, target, resource>>
  <2>1. Unanswered'
    BY <1>2 DEF Next, NoteChange, NoAnswer, Unanswered
  <2>2. Answers'
    BY <2>1, NothingSaidThen
  <2> QED BY <1>2, <2>2 DEF SafeInv
<1> QED BY <1>1, <1>2, PostStep, NoteStep, InfoStep DEF Next

(* SafeInv holds throughout. *)
THEOREM Safe == Spec => []SafeInv
BY SafeInit, SafeStep, PTL DEF Spec

(* filter lists a post exactly when it is wanted and visible, at the turn of *)
(* a year too, whatever the calendar.                                        *)
THEOREM FilterAlwaysExact == Spec => []FilterExact
<1>1. SafeInv => FilterExact
  BY DEF SafeInv, Answers
<1> QED BY <1>1, Safe, PTL

(* A post that is shown to an account is never hidden from it in lists. *)
THEOREM ReadableIsAlwaysListed == Spec => []ReadableIsListed
<1>1. SafeInv => ReadableIsListed
  BY DEF SafeInv, Answers
<1> QED BY <1>1, Safe, PTL

(* filter and get_info of notifications agree. *)
THEOREM NoteAlwaysListedIffShown == Spec => []NoteListedIffShown
<1>1. SafeInv => NoteListedIffShown
  BY DEF SafeInv, Answers
<1> QED BY <1>1, Safe, PTL

(* Whom get_info shows somebody else's account, bulk_get_info shows it too, *)
(* and the other way round.                                                 *)
THEOREM AlwaysSeenAloneIffInBulk == Spec => []SeenAloneIffInBulk
<1>1. SafeInv => SeenAloneIffInBulk
  BY DEF SafeInv, Answers
<1> QED BY <1>1, Safe, PTL

(* Whoever is shown a post may fetch what it plays. *)
THEOREM ShownIsAlwaysPlayable == Spec => []ShownIsPlayable
<1>1. SafeInv => ShownIsPlayable
  BY DEF SafeInv, Answers
<1> QED BY <1>1, Safe, PTL
===============================================================================
