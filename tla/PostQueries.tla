------------------------------ MODULE PostQueries ------------------------------
(***************************************************************************)
(* What an account gets to see of a post: filter, get_info and               *)
(* bulk_get_info of src/handle/post.rs.  Paging (from, limit) and the choice *)
(* of a screen are left out.                                                 *)
(*                                                                         *)
(* filter first selects posts in the world by coarse dimensions (creator,    *)
(* approved or not, day of the year the post starts on) and then looks at    *)
(* each.                                                                     *)
(***************************************************************************)
EXTENDS Calendar, Access

CONSTANT Week  \* Post::MAX_DUR in days

(* A week before and a week after a day are in the calendar; years are longer *)
(* than both together.                                                        *)
ASSUME WeekAssumption ==
  /\ Week \in Nat
  /\ \A y, z \in Year : y < z => NewYear[z] - NewYear[y] > 2 * Week
  /\ \A d \in Day, e \in {-Week, Week} : \E y \in Year : InYear(d + e, y)

VARIABLE post  \* a stored post, or NoPost

Status == {"pending", "approved", "rejected"}
NoPost == [creator |-> Unset]

PostPermission == {"Post", "GetPubPost", "ReviewPost", "RemovePost"}

PostRecord == {p \in [creator : Account, status : Status, start : Day, end : Day] :
                 p.start <= p.end /\ p.end - p.start <= Week}

Query == [creator : Account \cup {Unset}, status : Status \cup {Unset}, on : Day \cup {Unset}]

(* Posts that start within a week of `on`, by the day of the year they start *)
(* on; the range wraps around when it spans the turn of a year.              *)
StartsAroundMutant(on, start) ==
  LET first == Ordinal(on - Week)  last == Ordinal(on + Week)  o == Ordinal(start) IN
  first <= o /\ o <= last
StartsAround(on, start) ==
  LET first == Ordinal(on - Week)  last == Ordinal(on + Week)  o == Ordinal(start) IN
  IF first > last THEN o >= first \/ o <= last ELSE first <= o /\ o <= last

(* The selection in the world. *)
Selected(q, p) ==
  /\ q.creator = Unset \/ q.creator = p.creator
  /\ q.status = Unset \/ (q.status = "approved") = (p.status = "approved")
  /\ q.on = Unset \/ StartsAround(q.on, p.start)

Visible(p) ==
  \/ p.creator = Viewer
  \/ May(IF p.status = "approved" THEN "GetPubPost" ELSE "ReviewPost")

Available(p, day) == p.start <= day /\ day <= p.end

(* The test of the loop. *)
Passes(q, p) ==
  /\ q.creator = Unset \/ p.creator = q.creator
  /\ q.status = Unset \/ p.status = q.status
  /\ q.on = Unset \/ Available(p, q.on)
  /\ Visible(p)

(* What get_info and bulk_get_info give of a post: see Info. *)
Shown(p, today) ==
  IF p.creator = Viewer \/ May("ReviewPost") THEN "full"
  ELSE IF May("GetPubPost") /\ p.status = "approved" /\ Available(p, today) THEN "simple"
  ELSE "none"

-------------------------------------------------------------------------------
PostFilter(q) ==
  answer' = [request |-> "post_filter", query |-> q,
             listed |-> Selected(q, post) /\ Passes(q, post)]

PostGetInfo(today) ==
  answer' = [request |-> "post_info", on |-> today, shown |-> Shown(post, today)]

(* The selection may meet posts that were not asked for; they are skipped. *)
PostBulkGetInfo(asked, today) ==
  answer' = [request |-> "post_bulk", on |-> today,
             shown |-> IF asked THEN Shown(post, today) ELSE "none"]

PostInit == post \in PostRecord /\ held \in SUBSET PostPermission

PostQuery ==
  /\ post # NoPost
  /\ \/ \E q \in Query : PostFilter(q)
     \/ \E today \in Day : PostGetInfo(today) \/ \E asked \in BOOLEAN : PostBulkGetInfo(asked, today)
  /\ UNCHANGED <<held, post>>

-------------------------------------------------------------------------------
(* Properties *)

(* What the parameters of filter are documented to mean. *)
Wanted(q) ==
  /\ q.creator \in {Unset, post.creator}
  /\ q.status \in {Unset, post.status}
  /\ q.on # Unset => q.on \in post.start..post.end

(* The selection by day of the year and by approval loses no post and lets   *)
(* none in: filter lists a post exactly when it matches and may be seen, at   *)
(* the turn of a year too.                                                    *)
FilterExact ==
  answer.request = "post_filter" => answer.listed = (Wanted(answer.query) /\ Visible(post))

(* A post that an info request shows is never hidden from its reader in the   *)
(* lists: it rests on ReviewPost and RemovePost containing GetPubPost.        *)
ReadableIsListed ==
  answer.request \in {"post_info", "post_bulk"} /\ answer.shown # "none" => Visible(post)
===============================================================================
