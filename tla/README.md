# Verification of the SMS4 backend

TLA+ models of the screen management backend in `src/` (Rust: axum, tokio, the
dmds store), their model-checking configurations, and proofs for the TLA+ proof
system. Paths below are relative to the repository root.

## 1. The system

| Component | State | Operations | Source |
|---|---|---|---|
| Posts and their resources | worlds `post` and `resource`; a post lists resources, has a stack of states and a time range; a resource is used or not | `new_post`, `modify`, `review`, `remove`, `bulk_remove` | `src/handle/post.rs`, `src/post.rs`, `src/resource.rs` |
| Upload sessions, payload files | `UploadSessions` (a map behind a mutex), `buf_*` and `r_*` files | `new_session`, `upload`, `get_payload`, expiry | `src/handle/resource.rs`, `src/resource.rs` |
| Registration | world `unverified_account`, one entry per address, with a captcha and the time of the last request | `send_captcha`, `register` | `src/handle/account.rs`, `src/account.rs`, `src/account/verify.rs` |
| Tokens, passwords, reset sessions | world `account`: tokens, password, verify sessions | `login`, `logout`, `modify`, `send_reset_password_captcha`, `reset_password` | same |
| Permissions | permission tags of each account | `set_permissions`, and the check in `va!` | `src/handle/account.rs`, `src/handle/mod.rs` |
| Queries | none | `filter`, `get_info`, `bulk_get_info` of posts, accounts, resources, notifications | `src/handle/*.rs` |
| Notifications | world `notification` | `notify`, `modify`, `remove`, `bulk_remove` | `src/handle/notification.rs` |
| Worlds and daemons | five dmds worlds, a flush daemon for each | periodic flush, load on access | `src/main.rs` |
| Routing, header, configuration | none | parsing | `src/main.rs`, `src/config.rs` |

Every request is an async handler; tokio runs many at once. Handlers meet in the
worlds. An item of a world is reached through a `Lazy`, whose `get` and `get_mut`
take the read or the write guard of a lock of the item and keep it as long as the
`Lazy` lives; `destroy` and `close` consume the `Lazy`. Items of different worlds
(a post, its resources) are locked one by one and never together in a
transaction: whatever must hold across two items has to survive every
interleaving at the `.await`s, and every early return in the middle of a loop.
Sessions of uploads are behind one mutex that is released between look-up and
acceptance; the payload goes through the file system meanwhile.

What is hard, and what makes each part correct:

- **Posts.** Claims are made resource by resource and undone nowhere; `bulk_remove`
  works from ids it has read earlier. Correct: a resource has one home, is
  destroyed only under a post that is held or gone, and what is on screen was
  reviewed.
- **Uploads.** Two uploads can share a session and so a buffer name; bytes reach
  the disk behind the handler's back; sessions expire and the process may stop
  anywhere. Correct: a record has a payload, its own, whole; a session gives one
  resource.
- **Registration and reset.** A mail is sent between the check and the store, or
  under a guard; `register` takes the entry out to look at it. Correct: one
  account per address, no entry is lost or duplicated, `register` meets no captcha
  whose mail is still to go, a captcha works once and a reset revokes all tokens.
- **Permissions.** The handler holds one account and waits for another. Correct:
  nobody grants what it has lost, somebody can always grant, requests end.
- **Queries.** Worlds are ordered by the day of the year, which starts anew in
  every year, and a request is answered in two passes: a coarse selection in the
  world, then a test of each item. Correct: the selection loses nothing, and what
  one query shows another does not hide.
- **Worlds.** Each is written to disk by a daemon with an interval of its own; a
  crash takes each back to its own last flush. Correct: what another world or a
  file still relies on is there, and what is read back can be decoded.

`PROJECT.json` lists every hazard found, at its line, with the property that
covers it or the reason why none does.

## 2. Modules

| Module | Models | Extended by |
|---|---|---|
| `ResourceLife` | what a resource may go through (abstract) | instantiated by `PostResource` |
| `PostResource` | posts and resources | `MCPostResource`, `PostResourceProofs`, `ResourceLifeProofs` |
| `Deposits` | what uploading promises of sessions, resources and files (abstract) | instantiated by `UploadSession` |
| `UploadSession` | uploads, sessions, files, records on disk | `MCUploadSession`, `UploadSessionProofs`, `DepositsProofs` |
| `VerifyCx` | `VerifyCx`: captcha and rate limit | `Registration`, `AccountSession` |
| `Signup` | what registration promises of the captchas of an address (abstract) | instantiated by `Registration` |
| `Registration` | `send_captcha`, `register` for one address, flushes, restarts | `MCRegistration`, `RegistrationProofs` |
| `Credentials` | what an account promises of its tokens and captchas (abstract) | instantiated by `AccountSession` |
| `AccountSession` | one account: tokens, password, reset session | `MCAccountSession`, `AccountSessionProofs` |
| `Permissions` | `set_permissions`, `get_info` and own changes, by the guards they take | `MCPermissions`, `PermissionsProofs` |
| `Access` | permission tags and what they contain | the three below |
| `Calendar` | days, and the day of the year | `PostQueries`, `Notifications` |
| `PostQueries` | `filter`, `get_info`, `bulk_get_info` of posts | `Queries` |
| `Notifications` | `notify`, `modify`, `remove`, `bulk_remove` and the queries | `Queries` |
| `InfoQueries` | queries of accounts and resources | `Queries` |
| `Queries` | the three together, over one permission relation | `MCQueries`, `QueriesProofs` |

Conventions. A request is a *task* (in `UploadSession`, an upload) with a program
counter `pc`; one action is what a handler does between two awaits at which
another handler can make a difference. Guards of items are not variables: who
holds one is read off the program counters (`Readers`, `Writers`, `Free`). An
action that ends a handler resets its task to `Idle`. A disconnect or a failing
storage call (`Cancel`, `Fail`) ends a handler between two steps and undoes
nothing, which is what dropping a future or `?` does. Operators named `...Mutant`
are seeded bugs: variants of the definition that follows them, used to see that
each property fails when the code is wrong.

### PostResource

`res[r]` is `none` (not uploaded), `free`, `used` (blocked) or `gone`
(destroyed); `post[p]` has creator, list, status (the last of its states) and
whether its range has passed. A request walks through the selected items in any
order (`todo`), as the chunks of a world come in any order.

| Code | Actions |
|---|---|
| `new_post` | `NewPost`, `ClaimOne` per resource, `InsertPost`, `AbandonPost` (returns after the loop) |
| `modify` | `Modify`, then under the write guard `ModifyText`, `RefuseTime`, or `BeginSwap`, `SwapOne` per resource, `EndSwap` |
| `review` | `Review`, `Pass` |
| `remove` | `Remove`, under the read guard `BeginClear`, `ClearOne`; `EndClear` gives it up, `DropPost` |
| `bulk_remove` | `BulkRemove` or `RemoveUnused`; per post `NextPost`, `GatherOne`, `DropPost`; `EndGather`, `SweepOne`, `EndSweep` |

`Refused` is the early return of `modify` and `remove` for a post that is not the
caller's. It comes after the guard that the handler takes first (`Admitted`: the
write guard in `modify` and `review`, the read guard in `remove`). `bulk_remove` waits for
the guard of the post its stream has come to (`read`), whatever the others are.

Assumed of dmds, which is not part of the repository: a selection yields each
matching item once and sees a changed item at its new place only; `destroy` gives
its own guard up before it waits for others; the lock of an item is fair to
writers.

**Refinement.** `ResourceLife` is what posts promise of a resource: it is
uploaded, claimed once by one request, handed over to one post at most, and then
given up or destroyed for good. `ImplementsLife` maps it to `PostResource`: the
state is `res`, the claims on `r` are the requests that have blocked it for a
list they have not written (`ClaimedBy`), and it is shown by the live posts that
list it (`ListedBy`). One step of a handler may touch several resources (`EndSwap`
drops one list and installs another), so a step of `ResourceLife` treats every
resource in its own way.

### UploadSession

An upload `u` is also the inode `Create` makes, when no buffer of that name
exists, and the id of its resource (the code hashes content and time). `data[i]`
is the sequence of chunks in inode `i`, each named by its writer, so two uploads
into one file can be told apart; `Land` is the write that tokio's file thread
makes after `write_all` has returned.

`record` is the world `resource` in memory, `flushed` what its daemon has
written last (`Flush`). `Destroy` is what posts do to a resource at its end; it
leaves the file. `Restart` drops sessions and handlers, keeps files, and takes the
records back to `flushed`, so records that were destroyed since come back.
After it nothing is `loaded`, and whoever meets a resource decodes it from disk:
`Version` is what the type declares, `Decodes` what its `decode` accepts, and
`panicked` says that the two did not fit.

Two uploads may use one session at the same time, hence one buffer, and then mix
their bytes, whichever of them is accepted. `SoleUploadIntact` therefore speaks
of sessions used by one upload.

**Refinement.** `Deposits` is what an account that uploads may count on: a
session is open once, for one account; a resource is accepted by an open session
and closes it, gets a file that is nobody else's, and is stored after that, once.
`ImplementsDeposits` maps it to `UploadSession`: a session that is expired, consumed
or lost to a restart is closed; an upload is accepted from `accept` on, placed when
its buffer has its new name, over at its end (`Stage`), and has its session to
itself as long as it may still come to a resource (`Claim`). Creating buffers,
writing, landing and unlinking are no steps of `Deposits`. An upload that has
removed its buffer as too large is `refused`, one that ended in any other way is
`done`: only the first can have taken a buffer from somebody else.

### VerifyCx, Registration, AccountSession

Captchas are numbers in the order they are drawn, so no two are equal; the real
ones are six random digits. The captcha of a fresh `VerifyCx` is replaced before
anybody can see it and is 0. `Least` is the limit of ten minutes in ticks. In
`Registration`, `entry` is what the world holds for the address and
`task[t].cx` is what a handler has taken out or not yet stored; `disk` is what the
daemons of the two worlds have written, each in its own time (`FlushAccounts`,
`FlushEntries`), and what `Restart` finds: an account may come back together with
the entry it was made of. Several first requests for one address at once mail a
captcha each, since the entry is stored after the mail; the last one stored
counts. In `AccountSession`, `tokens` are the valid ones of `issued`; expiry of
tokens is libaccount's and is left out.

**Refinements.** `Signup` follows the captchas of an address: drawn, mailed while
alive, dead for good unless a restart brings back what was flushed, and it takes a
mailed, living one to register. In `Registration` a captcha is alive when the world
or any handler has the entry that carries it (`ImplementsSignup`), so the abstract
guards ask for what a single `register` cannot see: no other request holds a copy
of the entry it has taken. `Credentials` does the same for the secrets of an
account; tokens and captchas are numbered as they are drawn, and such a number is
valid, void, or still to come (`Secret`, `ImplementsCredentials`).

### Permissions

A task has the kind of its handler. In `lock`, `set_permissions` (`set`) and
`get_info` (`info`) hold the read guard of the caller's account, which `va!` has
taken, and ask for the target's; `modify` and `logout` (`own`) have given it up
and ask for the write guard of the same account. In `wait` a task is queued for a
write guard. A queued writer keeps new readers and other writers out. `Look` is
the whole of `get_info` under both read guards.

### Access, Calendar and the queries

Queries change nothing, so the state is one stored item, the permissions of the
viewer that matter to it (`held`) and the last answer. Every item and every set of
permissions is an initial state and each request is one action; a behaviour of
`Queries` ends with an answer. `Contains` is `Permission::contains`.
`set_permissions` does not use it: it compares the tags themselves.

Days are integers and `NewYear` is the calendar, so the day of the year, by which
the worlds of posts and notifications are ordered, restarts where a year begins.
`Selected` and `NoteSelected` are what the world is asked for, `Passes` and
`NotePasses` the tests in the loops.

In `Notifications` the item lives: it is sent, changed and removed by any account
that may, while the clock runs; queries come at any point. The tests are as they
are coded: those of `filter` skip what starts on or after `after`, and
`bulk_get_info` asks for `GetPubPost` and drops what has started, where
`get_info` asks for `GetPubNotifications` and drops what has not. In
`InfoQueries`, `bulk_get_info` of resources is asked for one id, since the
handler combines several ids with `and` and what such a selection means is up to
dmds. `AccountBulkShown` is what `bulk_get_info` has of an account, `AccountShown` what
`get_info` has.

The comment on `Info::Full` at `src/src/handle/post.rs:335-336` says that it "can only be returned by
`get_info`"; `bulk_get_info` returns it too (line 446). The model has both
answers as they are coded (`Shown`), and no property takes the comment's side.

## 3. What is checked

| Run | Instance | Properties |
|---|---|---|
| `post_all` | 1 account, 2 posts, 2 resources, 2 requests of every kind but the removal of unused posts, faults | `OneHome`, `SafeInv`, `OrphanedByHolder`, `DestroyedByHolder`, `HeldPostFrozen`, `ChangeIsReviewed`, `AnswerGetsNearer`, `ImplementsLife` |
| `post_live` | 2 posters, one reviewer and maintainer, the other remover; 2 posts, 1 resource, 2 requests of every kind, no faults, fair | `NeverStuck`, `OrphanedByHolder`, `BornSound`, `EveryRequestEnds` |
| `upload_race` | 2 uploads, 2 sessions, 2 accounts, bodies up to 3 chunks (limit 2), faults | `RecordHasPayload`, `PayloadsApart`, `SoleUploadIntact`, `OneResourcePerSession`, `AcceptedFindsBuffer`, `SafeInv`, `NoLateAccept`, `ImplementsDeposits` |
| `register_race` | 3 requests, limit 2 of 2 ticks, 3 captchas, faults | `EntryKept`, `TakenWasMailed`, `SafeInv`, `AccountKept`, `ImplementsSignup` |
| `session_race` | 2 requests, 2 passwords, 2 tokens, 3 captchas, faults | `ResetRevokes`, `CaptchaSpent`, `SafeInv`, `MailIsCurrent`, `ImplementsCredentials` |
| `permissions` | an administrator of everything, one that can only set permissions, a user; 2 requests of any kind for anybody, faults, fair | `SetterRemains`, `SafeInv`, `NeverStuck`, `NoEscalation`, `EveryRequestEnds` |
| `queries` | 2 accounts, weeks of 2 days, years of 5, 6 and 5 days, posts and queries on 15 days around three turns of a year, notifications at 12 instants, two a day | `FilterExact`, `ReadableIsListed`, `NoteListedIffShown`, `SeenAloneIffInBulk`, `ShownIsPlayable` |

What the longer names mean: `SafeInv` is the inductive invariant of its module
(section 4), its type invariant `TypeOK` included; `ClaimsDisjoint` of posts and
`EntryInOnePlace` of registration are conjuncts of it. `OrphanedByHolder` says who
is to blame for a blocked resource that is left without a post or request: the
request that blocked it and ended, the removal of a post whose list has changed
since it was cleared or was not cleared to its end, or a loop that was cut short;
never a request that neither had it nor held its post. `NoOrphanClaim`, which says
that there is no such resource at all, is what `post_orphan` refutes. With faults
any loop may be cut short, so `post_live` checks `OrphanedByHolder` without them.
`DestroyedByHolder`: a resource that a live post lists is destroyed only by the
request that holds the post. `HeldPostFrozen`: the list and the verdict
of a post change only by the request that holds its guard. `ChangeIsReviewed`:
the list of an approved post never changes without sending it back to pending.
`BornSound`: a post is inserted with blocked resources of its creator.
`NeverStuck`: while requests are being served, one of them
has the guards its next step asks for (`CanGo`; in `Permissions`, as long as all go
down a hierarchy), so there is no circle of requests that wait.
`AnswerGetsNearer`: every step of a handler goes down the order `Nearer`, by the
phase it is in, the posts it has left, and the resources it has left.
`NoLateAccept`: an expired session is not
consumed, even by an upload that looked it up in time. `AcceptedFindsBuffer`: an
upload that has consumed its session finds its buffer when it renames it, unless an
upload into the same session was refused as too large and has removed the file they
shared (`Removed`). `TakenWasMailed`: without failures, an entry that `register` has taken
out carries a captcha whose mail has gone, because a second request keeps the
guard of the entry until then and a first one stores its entry after that. `AccountKept`: once
registered, and once flushed, an account is not replaced, not even by an entry
that a restart brings back. `FilterExact`: `filter` of posts lists exactly what
its parameters mean and the viewer may see. `NoteListedIffShown`: without dates,
`filter` of notifications lists what `get_info` shows. `SeenAloneIffInBulk`: somebody
else's account is shown by `get_info` exactly when `bulk_get_info` shows it, though
the one tests two permissions and the other one. `ShownIsPlayable`: who is
shown somebody else's post may fetch its resources.

Five runs find what the code does against its own documentation:

- `post_orphan` (`NoOrphanClaim`): `new_post` returns early and leaves resources
  blocked that nothing uses; nothing ever unblocks them.
- `post_dangling` (`NoDangling`): `modify` fails at a resource in use after it
  has destroyed others that the post still lists.
- `upload_reload` (`ReadsDecode`): a resource goes to disk as version 1 and its
  `decode` takes every version but 0 for unreachable; the first request that
  meets a resource after a restart panics.
- `session_again` (`RefusedOnlyWhenRecent`): a second request for a reset captcha
  replaces the captcha and is then refused, at any time, by the second of two
  calls of `update`.
- `notes_dates` (`NoteDates`): `filter` of notifications lists what starts before
  `after`, and what starts after `before`.

**Bounds.** Two requests are enough for every race between two handlers, and two
posts with two resources for lists that overlap, share or exchange members; the
removal of unused posts differs from `bulk_remove` in which posts it selects only,
so `post_all` leaves it to `post_live` and to the proofs. Three tasks in
`Registration` let one request take an entry while a second stores another and a
third reads. `MaxTime`, `MaxCaptcha` and `MaxToken` stop the clock, the draws and
the logins; the limits of ten minutes are passed at least once. One chunk beyond
`MaxLen` is enough for the size check, and two chunks within it to interleave two
bodies; restarts are not bounded, and two resources are enough for a restart to
bring a destroyed one back beside a living one. In `Queries` the years are as
short as `WeekAssumption` allows, so every position of a post, a query and the
turn of a year to each other occurs; `YearSpan` is as short as the shortest year,
as 365 days are, and the instants of notifications cover six days on both sides of
the turn of a year. Symmetry is used in safety runs only. Deadlock is not checked:
in every instance bounded clocks, a bounded supply of ids, or requests that wait
for each other for ever (see below) let the model stop where the system would
idle, and a behaviour of `Queries` ends with its answer.

**Fairness.** `FairSpec` makes each handler strongly fair: tokio polls whatever is
ready, and the lock does not let a waiter be overtaken for ever. Clients owe
nothing, so arrivals, uploads and time are not fair.

`set_permissions` for one's own account, or by two accounts for each other at
once, waits for ever under that lock: it asks for the write guard of an account
whose read guard it, or the other request, keeps. `EveryRequestEnds` of
`Permissions` therefore speaks of behaviours in which all requests go down a
hierarchy (`Downward`), and shows that these always end; no text of the
repository says which targets are allowed, so the rest is a hazard and not a
finding. It is also why `SetterRemains` holds: an administrator cannot demote
itself.

## 4. What is proved

Every safety property and action property of the passing runs, for every set of
accounts, posts, resources, sessions and requests, every limit and calendar that
the assumptions of the modules allow, and any faults. What is about fairness is
not: see the end of this section.

`PostResourceProofs`: `TypeCorrect`, `Safe`, `OneHomeAlways`,
`ClaimsDisjointAlways`, `BornSoundAlways`, `DestroyedByHolderAlways`,
`HeldPostAlwaysFrozen`, `ChangeIsAlwaysReviewed`, `OrphanedByHolderAlways`. `OneHome` is
not inductive: it says nothing of posts already gone, of the collected ids of
`bulk_remove`, nor of who holds a guard. `CoreInv` adds that

- whatever any post has ever listed is *settled*: blocked or destroyed, and
  claimed by no request in flight (`ListedSettled`), and no two posts, dead ones
  included, list the same (`ListsDisjoint`);
- what a request has claimed is blocked, its own, and nobody else's
  (`FreshBlocked`, `ClaimOwned`, `ClaimsDisjoint`);
- guards exclude each other and keep the post alive (`Guards`), `remove` works
  on what its post lists (`ClearsListed`);
- what `bulk_remove` has collected is settled and listed by no live post but the
  one it is about to destroy (`CollectedDead`).

A step moves one task and treats each resource in one of three ways: keep, claim
a free one, destroy a settled one. Lemma `Move` proves the invariant from that;
each action then has a short lemma that shows it is such a step. `InsertPost` and
`EndSwap`, which write lists, go through `ListSafe`. `PostChanges` names the
steps that change a stored post and who takes them, from which the two action
properties follow.

`SafeInv` is `CoreInv` and `LoopsCover`: what a loop over resources has left to do,
with what it has done, covers all it must deal with (`Covered`), so a loop that
runs to its end forgets nothing. It is proved on top of `CoreInv`, which keeps the
other requests out: while `modify` swaps a list it holds the post (`Guards`), and what
`bulk_remove` sweeps belongs to nobody else (`CollectedDead`), so a step of one request
leaves the cover of every other alone (`OthersCovered`), and the one that moves
takes from what is left only what it has dealt with (`MoverCovered`).
`OrphanedByHolderAlways` follows: a resource loses its home in a step that changes
the home, so either a request gives up what it had (`Losing`), or a list is
replaced or dropped, and then `LoopsCover` says what was not on it (`ListLoses`,
`HolderLoses`).

`NeverStuckAnywhere`, `AnswerAlwaysGetsNearer` and `HandlersEnd` are what termination
rests on. Whoever waits for the guard of a post waits for requests that hold it,
and these are in their loops over resources and wait for nothing: `bulk_remove` and
`remove` hold no guard while they wait to destroy a post. Each step goes down
`Nearer`, and `HandlersEnd` shows that order to be well founded when there are
finitely many posts and resources: it is contained in the lexicographic order on
the phase, the posts left, whether one of them is about to be dropped, and the
resources left. What is missing to `EveryRequestEnds` is the step from "some
handler can go" to "each will", which is the fairness of the lock and is left
to TLC.

`ResourceLifeProofs`: `LifeImplemented`, that `PostResource` implements
`ResourceLife`, and `LifeIsOneWay`. The invariant gives what the abstract guards ask for: a resource
has one holder, a post or a request but not both (`OneHolderSafe`, from `OneHome`,
`ClaimsDisjoint` and `ListedSettled`), and a free one has none. `Lives` says of one
resource that a step is one of the six of `ResourceLife`; `OthersKeep` dispatches
what a step leaves alone. Steps that only walk on, give up, claim, destroy or
write a list have a lemma each (`WalkLives`, `QuitLives`, `ClaimLives`,
`DestroyLives`, `ListLives`), and each action is one of these.

`PermissionsProofs`: `TypeCorrect`, `Safe`, `SetterAlwaysRemains`,
`NoEscalationAlways`. Somebody remains because the account that demotes another
is itself protected by its read guard (`GuardKeepsSetter`): a grant never changes
an account whose guard is held, its own caller's above all. `NeverStuckAnywhere`:
a request waits for an account that is read by a request for an account with fewer
permissions (`WaitsDescend`), so among the waiting requests those for an account
with the least permissions (`LeastAsked`, from `Permission` being finite) wait for
one that can go. That is the hierarchy of `Downward` and nothing else: not the
number of requests, nor who queues first.

`UploadSessionProofs`: `TypeCorrect`, `Safe`, `RecordAlwaysHasPayload`,
`PayloadsAlwaysApart`, `OneResourcePerSessionAlways`, `SoleUploadAlwaysIntact`,
`NoLateAcceptEver`, `AcceptedAlwaysFindsBuffer`. The properties speak of records; the invariant speaks of
uploads that may still become records, or come back as one after a restart
(`Stored` counts what is flushed). `Started` says how far an upload is at each
point; `Inodes`, that every name in the directory, and the inode of every upload,
was made by an upload into the same session, and that an inode has one name;
`OneWinner`, that whoever consumed a session is its owner and alone; `SoleData`,
that the only upload into a session writes an inode of its own. From the last
two conjuncts of `Inodes`, an upload that is alone in its session renames the
file it wrote, hence `SoleUploadIntact`. The lemmas `BeginOK` to `RestartOK` say
what each step does to the fields of an upload; `Quiet` names the steps after
which nothing in `Inodes` can have changed but names.

`BufferKept` is about the time before: the buffer of an upload under way is there,
unless its session is consumed or the file was removed by an upload that was refused
as too large, which stays refused (`RefusedStays`). Only a removal or a rename takes a buffer away (`BufferTaken`), and only the one
upload that has consumed the session renames (`OneWinner`), so it finds the buffer
(`BufferStep`).

`DepositsProofs`: `DepositsImplemented`, `DepositsOverForGood`. `Deposits` asks that the session of an
accepted upload be open and its account the owner's, which is the guard of
`Accept`; that the file it is placed under be nobody's, which is the conjunct of
`Inodes` that an inode has one name; and that a restart leave the uploads that had
not begun, and close what was open. A lemma for each abstract action
(`AcceptMaps`, `RenameMaps`, `InsertMaps`, `RestartMaps`, ...) says which steps of
the handlers are that action, and `StutterMaps` that the rest change nothing it
speaks of (`SameBar`).

`RegistrationProofs`: `TypeCorrect`, `Safe`, `EntryAlwaysInOnePlace`,
`EntryAlwaysKept`, `TakenAlwaysMailed`, `AccountAlwaysKept`, `SignupImplemented`,
`CaptchasStayDead`. `SafeInv` adds that every entry carries a
captcha drawn before (`Numbered`), so a new one is different from all; that the
account on disk is the one in memory or none; and where, without failures, the
mailed entry of an address is while requests are under way (`Kept`). These make
`CoreInv`, which is inductive. `SignupImplemented` needs one thing more, that no two
places have the same captcha (`Distinct`): without it a registration could end the
captcha of its own request while another still holds a copy, and that copy
would register again. `Distinct` is proved on top of `CoreInv`, and both are `SafeInv`.
An abstract `Register` then takes its captcha out of the living ones because
no one else has it (`AdmitMaps`); every other step that gives an entry up is an
abstract death (`DieStep`). `TakenAlwaysMailed` comes from `Kept`. That the captcha an
abstract `Register` takes was mailed is what a client does in the model, which
guesses none (`Inputs`); that it lives, and dies of it, is what the handlers do.

`AccountSessionProofs`: `TypeCorrect`, `Safe`, `ResetAlwaysRevokes`,
`CaptchaAlwaysSpent`, `MailAlwaysCurrent`, `CredentialsImplemented`,
`OneCaptchaValid`, `SecretsVoidForGood`. Tokens and captchas that a reset has
dealt with are not above the counters, what comes later is (`Numbered`); the
mail in flight is the session because its guard is held (`TypeOK`).
`CredentialsImplemented`: secrets are numbers, and `ValidNumbers`, `VoidNumbers`,
`NextNumber` and `DrawNumber` say what issuing, revoking and drawing do to the map
from numbers to what they are worth. That a reset uses a mailed captcha is what a
client does in the model: it knows no other; that the captcha is valid is the
comparison with the session. `token[k] # "new"` of `Change` holds because the token
was authorised, though a reset may have revoked it since.

`QueriesProofs`: `FilterAlwaysExact`, `ReadableIsAlwaysListed`,
`NoteAlwaysListedIffShown`, `AlwaysSeenAloneIffInBulk`, `ShownIsAlwaysPlayable`.
The first rests on `SelectionLosesNone`: a post that is available on a day started
within the week before, two weeks touch two years at most, and the comparison of
days of the year, turned around when the range spans a new year, finds the post
in either. The others rest on what permissions contain (`ReviewersRead`,
`FullIsSimple`), and the fourth compares the two answers case by case
(`ShownTogether`).

What the abstract specifications entail, they entail of the handlers, and the
theorems `...StayDead`, `...ForGood`, `OneCaptchaValid` and `LifeIsOneWay`
say so: each is an invariant or an action property stated in the words of the
abstract module (`DeadForGood`, `OneValid`, `VoidForGood`, `OneWay`,
`OverForGood`), proved of its steps under the refinement mapping, and carried over
by the refinement theorem. So they say of the code what a user of it sees: a captcha that is dead, in memory and on
disk, registers nobody; one reset captcha is valid at a time, and void secrets stay
void; a resource never passes from one post to another, and is never used again
once given up; a session spent is spent, and an upload that is over gets no other
file.

Each theorem rests on the `ASSUME`s of the modules it extends, which TLC evaluates
in the runs: distinct null values, bounds that are natural numbers, for
`Permissions` a finite set of permissions, as `enum Permission` is, and for the
queries a calendar in which years begin in order, days belong to a year and years
are longer than two weeks.

Only model-checked: both `EveryRequestEnds`, since liveness under fairness is out of
the prover's reach.

## 5. Not modelled

- Paging of filters (`from`, `limit`) and the choice of a screen; priorities,
  titles, notes and grouping of posts; names, phones and departments of accounts;
  wording of mails.
- Hashes of ids: ids are never repeated. Tokens do not expire, which is
  libaccount's.
- The chunks of a world: an item whose key has changed may be met in its old
  chunk until the next flush, which depends on dmds. The models assume that a
  selection sees an item at its new place.
- Posts and resources of different ages after a crash: `UploadSession` and
  `Registration` restart the worlds they are about, `PostResource` does not.
- Encoding of items, except for the version of resources: the rest are serde
  derivations, and every other type decodes the version it declares.
- The header, the routes and the configuration: parsing and pure I/O.
- Rights that change while a request runs: `AccountSession` models them for the
  tokens of one account and `Permissions` for `set_permissions`; the other
  modules take what a caller may do as constant.

## 6. Plan

1. Restarts in `PostResource`, with the worlds of posts and resources as old as
   their last flushes: what survives of a post and its resources.
2. Review against a version: what the reviewer saw against what is approved.
3. Whether `NoteSelected` and the tests of notifications agree, had the tests the
   documented direction, at the turn of a year.
4. How often the mails of `Registration` go out, stated for one request at a time
   and for several.
