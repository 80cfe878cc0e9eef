-------------------------- MODULE PackageFulfillment --------------------------
(***************************************************************************)
(* Warehouse 1 packs the items of an order, gathers the evidence of a       *)
(* package (shipping label, photo, packaging video) and completes or        *)
(* cancels it; the customer may answer a video for a day; warehouse 2        *)
(* receives and dispatches: packages.service, packaging-videos.service,      *)
(* package-label-photos.service and the packaging-amendment-window job.      *)
(* One request is served at a time, and may die between its statements; the  *)
(* job and the clock run beside it.                                          *)
(***************************************************************************)
EXTENDS Integers, Sequences, FiniteSets, Functions, SequencesExt

CONSTANTS
  Packages,       \* ids of packages rows
  Items,          \* the order items of one order
  Quantity,       \* what is ordered of each
  Window,         \* the 24 hours
  MaxClock, MaxRecordings, MaxLines, MaxFailures,   \* bounds
  UploadMeetsJob, \* whether a video is replaced while the job is about to tell of it
  None

ASSUME ConstantsAssumption ==
  /\ Quantity \in Nat \ {0} /\ Window \in Nat \ {0} /\ UploadMeetsJob \in BOOLEAN
  /\ {MaxClock, MaxRecordings, MaxLines, MaxFailures} \subseteq Nat /\ IsFiniteSet(Packages)

VARIABLES
  items,      \* order_items rows: quantityPacked and fulfilment status
  order,      \* the order's fulfilment status
  contents,   \* package_items, summed over the lines of an item
  packages,   \* packages rows, None while the id is unused
  videos,     \* package_packaging_videos rows (unique per package) or None
  clock,
  req,        \* what the request in progress does next
  job,        \* the windows the job has listed, and the one it is telling of
  told,       \* history: the recordings the staff were told of
  failures
vars == <<items, order, contents, packages, videos, clock, req, job, told, failures>>
evidence == <<items, order, contents, packages>>

Fulfilment == {"pending", "partially_fulfilled", "fully_fulfilled"}
Statuses == {"CREATED", "PACKED", "READY_TO_DISPATCH", "DISPATCHED", "CANCELLED"}
Package == [status: Statuses, labelRow: BOOLEAN, label: BOOLEAN, photo: BOOLEAN,
            completed: BOOLEAN, received: BOOLEAN]
\* recording tells one uploaded file from the next; a video is released while it
\* has a deadline (releasedToCustomerAt and amendmentDeadlineAt go together).
Video == [recording: 1..MaxRecordings, deadline: 0..MaxClock + Window \cup {None},
          reply: {"confirmed", "disputed", None}, notified: BOOLEAN]

\* None is no row, no id and no listed window.
ASSUME NoneAssumption ==
  /\ None \notin Package /\ None \notin Packages /\ None \notin Packages \X Nat
  /\ None \notin [recording: Nat, deadline: Nat \cup {None},
                  reply: {"confirmed", "disputed", None}, notified: BOOLEAN]

Idle == [kind |-> "idle", package |-> None, answer |-> None]
Request(kind, p) == [Idle EXCEPT !.kind = kind, !.package = p]
NoRun == [due |-> {}, now |-> None]

Init ==
  /\ items = [i \in Items |-> [packed |-> 0, status |-> "pending"]]
  /\ order = "pending"
  /\ contents = [p \in Packages |-> [i \in Items |-> 0]]
  /\ packages = [p \in Packages |-> None] /\ videos = [p \in Packages |-> None]
  /\ clock = 0 /\ req = Idle /\ job = NoRun /\ told = {} /\ failures = 0

Exists(p) == packages[p] # None
HasVideo(p) == videos[p] # None
Released(p) == HasVideo(p) /\ videos[p].deadline # None
\* The joins from a package to its customer go through its items.
HasItems(p) == \E i \in Items : contents[p][i] > 0

Unpacked == [status |-> "CREATED", labelRow |-> FALSE, label |-> FALSE, photo |-> FALSE,
             completed |-> FALSE, received |-> FALSE]
Update(p, row) ==
  /\ packages' = [packages EXCEPT ![p] = row]
  /\ UNCHANGED <<items, order, contents, clock, job, told, failures>>

(***************************************************************************)
(* Packing.                                                                *)
(***************************************************************************)
\* createPackage: an empty package, which nothing moves to PACKED.
CreatePackage(p) ==
  /\ req = Idle /\ ~Exists(p)
  /\ Update(p, Unpacked) /\ UNCHANGED <<videos, req>>

Status(packed, whole) ==
  IF packed = 0 THEN "pending" ELSE IF packed < whole THEN "partially_fulfilled"
  ELSE "fully_fulfilled"
Line == [item: Items, quantity: 1..Quantity]
Lines == UNION {[1..n -> Line] : n \in 1..MaxLines}

\* Each line is compared with what is left of its item, on its own.
CanPack(lines) ==
  \A l \in ToSet(lines) : l.quantity <= Quantity - items[l.item].packed

PackedIn(lines, i) ==
  SumFunctionOnSet([n \in DOMAIN lines |-> lines[n].quantity], {n \in DOMAIN lines : lines[n].item = i})
PackedOf(packed, i) == SumFunction([p \in Packages |-> packed[p][i]])

OrderStatus(rows) ==
  IF \A i \in Items : rows[i].packed = 0 THEN "pending"
  ELSE IF \A i \in Items : rows[i].packed >= Quantity THEN "fully_fulfilled"
  ELSE "partially_fulfilled"

RecountStale(rows, packed, affected) ==   \* mutant: the status of the count before
  [i \in Items |->
     IF i \notin affected THEN rows[i]
     ELSE [packed |-> PackedOf(packed, i),
           status |-> Status(rows[i].packed, Quantity)]]
\* The items of the call are counted again over every package that holds them.
Recount(rows, packed, affected) ==
  [i \in Items |->
     IF i \notin affected THEN rows[i]
     ELSE [packed |-> PackedOf(packed, i), status |-> Status(PackedOf(packed, i), Quantity)]]

\* createPackageWithItems: checks, then one transaction.
CreatePackageWithItems(p, lines) ==
  /\ req = Idle /\ ~Exists(p) /\ CanPack(lines)
  /\ packages' = [packages EXCEPT ![p] = [Unpacked EXCEPT !.status = "PACKED"]]
  /\ contents' = [contents EXCEPT ![p] = [i \in Items |-> PackedIn(lines, i)]]
  /\ items' = Recount(items, contents', {l.item : l \in ToSet(lines)})
  /\ order' = OrderStatus(items')
  /\ UNCHANGED <<videos, clock, req, job, told, failures>>

(***************************************************************************)
(* Label, photo, completion and cancellation.                              *)
(***************************************************************************)
CreateShippingLabel(p) ==
  /\ req = Idle /\ Exists(p)
  /\ ~packages[p].labelRow /\ packages[p].status = "PACKED"
  /\ Update(p, [packages[p] EXCEPT !.labelRow = TRUE, !.label = TRUE])
  /\ UNCHANGED <<videos, req>>

UploadLabelPhoto(p) ==
  /\ req = Idle /\ Exists(p)
  /\ Update(p, [packages[p] EXCEPT !.photo = TRUE]) /\ UNCHANGED <<videos, req>>

CompleteUnfilmed(p) ==   \* mutant: releases the video without looking for one
  /\ req = Idle /\ Exists(p)
  /\ packages[p].label /\ packages[p].photo /\ ~packages[p].completed
  /\ Update(p, [packages[p] EXCEPT !.completed = TRUE])
  /\ req' = Request("release", p)
  /\ UNCHANGED videos
\* A video there is released in a statement of its own.
CompleteW1Fulfillment(p) ==
  /\ req = Idle /\ Exists(p)
  /\ packages[p].label /\ packages[p].photo /\ ~packages[p].completed
  /\ Update(p, [packages[p] EXCEPT !.completed = TRUE])
  /\ req' = IF HasVideo(p) THEN Request("release", p) ELSE Idle
  /\ UNCHANGED videos

CancelledCompleted(row) ==   \* mutant: leaves fulfillmentCompletedAt
  [row EXCEPT !.status = "CANCELLED", !.label = FALSE, !.photo = FALSE]
\* The shipping_labels row and the package's items stay.
CancelledRow(row) ==
  [row EXCEPT !.status = "CANCELLED", !.label = FALSE, !.photo = FALSE, !.completed = FALSE]
CancelReceived(p) ==   \* mutant: does not look at receivedAt
  /\ req = Idle /\ Exists(p)
  /\ packages[p].status # "CANCELLED"
  /\ Update(p, CancelledRow(packages[p]))
  /\ req' = Request("clear", p)
  /\ UNCHANGED videos
CancelW1Fulfillment(p) ==
  /\ req = Idle /\ Exists(p)
  /\ packages[p].status # "CANCELLED" /\ ~packages[p].received
  /\ Update(p, CancelledRow(packages[p]))
  /\ req' = Request("clear", p)
  /\ UNCHANGED videos

SetVideo(p, row) == videos' = [videos EXCEPT ![p] = row]

\* clearReleasedToCustomer; an answer that was given stays.
ClearReleased ==
  LET p == req.package IN
  /\ req.kind = "clear" /\ req' = Idle
  /\ IF HasVideo(p)
       THEN SetVideo(p, [videos[p] EXCEPT !.deadline = None, !.notified = FALSE])
       ELSE UNCHANGED videos
  /\ UNCHANGED <<evidence, clock, job, told, failures>>

(***************************************************************************)
(* Warehouse 2.                                                            *)
(***************************************************************************)
\* Any package not received yet, a cancelled one too.
ReceiveAPackageFromW1(p) ==
  /\ req = Idle /\ Exists(p) /\ ~packages[p].received
  /\ Update(p, [packages[p] EXCEPT !.received = TRUE, !.status = "READY_TO_DISPATCH"])
  /\ UNCHANGED <<videos, req>>
UpdateReceivedPackageStatus(p, status) ==
  /\ req = Idle /\ Exists(p) /\ packages[p].received
  /\ Update(p, [packages[p] EXCEPT !.status = status]) /\ UNCHANGED <<videos, req>>
DispatchPackages(p) ==
  /\ req = Idle /\ Exists(p) /\ packages[p].status = "READY_TO_DISPATCH"
  /\ Update(p, [packages[p] EXCEPT !.status = "DISPATCHED"]) /\ UNCHANGED <<videos, req>>

(***************************************************************************)
(* The packaging video: recorded again over the same row, released, and     *)
(* answered by the customer within the window.                             *)
(***************************************************************************)
Recording(p) == IF HasVideo(p) THEN videos[p].recording ELSE 0
BeingTold(p) == \E d \in job.due \cup {job.now} : d # None /\ d[1] = p

\* uploadPackagingVideo up to replace, of a package in any status.
UploadPackagingVideo(p) ==
  /\ req = Idle /\ Exists(p)
  /\ Recording(p) < MaxRecordings /\ (BeingTold(p) => UploadMeetsJob)
  /\ SetVideo(p, [recording |-> Recording(p) + 1, deadline |-> None, reply |-> None,
                  notified |-> FALSE])
  /\ req' = Request("release", p)
  /\ UNCHANGED <<evidence, clock, job, told, failures>>

\* releaseVideoToCustomer, "an already-released video is left as-is".
ReleaseVideoToCustomer ==
  LET p == req.package IN
  /\ req.kind = "release" /\ req' = Idle
  /\ IF Released(p) THEN UNCHANGED videos
     ELSE SetVideo(p, [videos[p] EXCEPT !.deadline = clock + Window, !.notified = FALSE])
  /\ UNCHANGED <<evidence, clock, job, told, failures>>

RespondAgain(p, answer) ==   \* mutant: an answered video may be answered
  /\ req = Idle /\ Exists(p) /\ Released(p) /\ HasItems(p)
  /\ clock <= videos[p].deadline
  /\ req' = [Request("respond", p) EXCEPT !.answer = answer]
  /\ UNCHANGED <<evidence, videos, clock, job, told, failures>>
\* respondToPackagingVideo: the checks, then the update by the row's id.
RespondToPackagingVideo(p, answer) ==
  /\ req = Idle /\ Exists(p) /\ Released(p) /\ HasItems(p)
  /\ videos[p].reply = None /\ clock <= videos[p].deadline
  /\ req' = [Request("respond", p) EXCEPT !.answer = answer]
  /\ UNCHANGED <<evidence, videos, clock, job, told, failures>>
UpdateCustomerResponse ==
  LET p == req.package IN
  /\ req.kind = "respond" /\ req' = [req EXCEPT !.kind = "notify"]
  /\ SetVideo(p, [videos[p] EXCEPT !.reply = req.answer])
  /\ UNCHANGED <<evidence, clock, job, told, failures>>

\* The staff hear of a dispute, and of a confirmation while work is left.
NotifyOfResponse ==
  LET p == req.package IN
  /\ req.kind = "notify"
  /\ IF req.answer = "disputed" \/ ~packages[p].completed
       THEN told' = told \cup {<<p, videos[p].recording>>} /\ req' = [req EXCEPT !.kind = "mark"]
       ELSE UNCHANGED told /\ req' = Idle
  /\ UNCHANGED <<evidence, videos, clock, job, failures>>
MarkResponseNotified ==
  LET p == req.package IN
  /\ req.kind = "mark" /\ req' = Idle
  /\ SetVideo(p, [videos[p] EXCEPT !.notified = TRUE])
  /\ UNCHANGED <<evidence, clock, job, told, failures>>

RequestStep ==
  \/ ClearReleased \/ ReleaseVideoToCustomer \/ UpdateCustomerResponse
  \/ NotifyOfResponse \/ MarkResponseNotified
RequestDies ==
  /\ req # Idle /\ failures < MaxFailures
  /\ req' = Idle /\ failures' = failures + 1
  /\ UNCHANGED <<evidence, videos, clock, job, told>>

(***************************************************************************)
(* processExpiredAmendmentWindows, every quarter of an hour.                *)
(***************************************************************************)
Silent(p) ==
  /\ Exists(p) /\ Released(p) /\ videos[p].deadline <= clock
  /\ videos[p].reply = None /\ ~packages[p].completed
DueJustNow ==   \* mutant: looks only at the windows that end now
  {<<p, Recording(p)>> : p \in {q \in Packages :
     Silent(q) /\ ~videos[q].notified /\ videos[q].deadline = clock}}
Due == {<<p, Recording(p)>> : p \in {q \in Packages : Silent(q) /\ ~videos[q].notified}}

\* listVideosAwaitingStaffAfterSilence; an empty list changes nothing.
ListDue ==
  /\ job = NoRun /\ Due # {} /\ job' = [job EXCEPT !.due = Due]
  /\ UNCHANGED <<evidence, videos, clock, req, told, failures>>
Tell ==
  /\ job.now = None
  /\ \E d \in job.due :
       job' = [due |-> job.due \ {d}, now |-> d] /\ told' = told \cup {d}
  /\ UNCHANGED <<evidence, videos, clock, req, failures>>
\* markStaffCompletionNotified, by the row's id, whatever it records now.
MarkTold ==
  /\ job.now # None /\ job' = [job EXCEPT !.now = None]
  /\ LET p == job.now[1] IN SetVideo(p, [videos[p] EXCEPT !.notified = TRUE])
  /\ UNCHANGED <<evidence, clock, req, told, failures>>
JobStep == ListDue \/ Tell \/ MarkTold
JobDies ==
  /\ job # NoRun /\ failures < MaxFailures
  /\ job' = NoRun /\ failures' = failures + 1
  /\ UNCHANGED <<evidence, videos, clock, req, told>>

Tick == /\ clock < MaxClock /\ clock' = clock + 1
        /\ UNCHANGED <<evidence, videos, req, job, told, failures>>

StaffCall(p) ==
  \/ CreatePackage(p) \/ \E lines \in Lines : CreatePackageWithItems(p, lines)
  \/ CreateShippingLabel(p) \/ UploadLabelPhoto(p)
  \/ CompleteW1Fulfillment(p) \/ CancelW1Fulfillment(p) \/ UploadPackagingVideo(p)
  \/ ReceiveAPackageFromW1(p) \/ DispatchPackages(p)
  \/ \E s \in Statuses : UpdateReceivedPackageStatus(p, s)

Next ==
  \/ \E p \in Packages :
       StaffCall(p) \/ \E a \in {"confirmed", "disputed"} : RespondToPackagingVideo(p, a)
  \/ RequestStep \/ RequestDies \/ JobStep \/ JobDies \/ Tick

Spec == Init /\ [][Next]_vars
\* A handler that started goes on until it dies, and the timer runs the job again.
FairSpec == Spec /\ WF_vars(RequestStep) /\ WF_vars(JobStep)

(***************************************************************************)
(* Properties.                                                             *)
(***************************************************************************)
TypeOK ==
  /\ items \in [Items -> [packed: Nat, status: Fulfilment]] /\ order \in Fulfilment
  /\ contents \in [Packages -> [Items -> Nat]]
  /\ packages \in [Packages -> Package \cup {None}]
  /\ videos \in [Packages -> Video \cup {None}]
  /\ clock \in 0..MaxClock /\ failures \in 0..MaxFailures
  /\ \A p \in Packages : HasVideo(p) => Exists(p)
  /\ req.kind \in {"idle", "clear", "release", "respond", "notify", "mark"}
  /\ req # Idle => Exists(req.package)
  /\ req.kind \in {"release", "respond", "notify", "mark"} => HasVideo(req.package)
  /\ job.due \cup told \subseteq Packages \X (1..MaxRecordings)

\* What an item and the order say is packed is what the packages hold.
PackedIsCounted ==
  /\ \A i \in Items :
       /\ items[i].packed = PackedOf(contents, i)
       /\ items[i].status = Status(items[i].packed, Quantity)
  /\ order = OrderStatus(items)

\* A completed package has its label and its photo, whatever was cancelled,
\* received, re-labelled or completed again before.
CompletedHasEvidence ==
  \A p \in Packages : Exists(p) /\ packages[p].completed =>
    packages[p].label /\ packages[p].labelRow /\ packages[p].photo

\* Once warehouse 2 has a package, its evidence stays and it is not cancelled away.
ReceivedKeepsEvidence ==
  [][\A p \in Packages : Exists(p) /\ packages[p].received =>
       /\ packages'[p].received
       /\ packages[p].photo => packages'[p].photo
       /\ packages[p].completed => packages'[p].completed]_vars

\* An answer is given once per recording, and only a new recording withdraws it.
AnswerIsFinal ==
  [][\A p \in Packages : HasVideo(p) =>
       \/ videos'[p].reply = videos[p].reply
       \/ videos[p].reply = None
       \/ videos'[p].recording > videos[p].recording]_vars

\* "After 24 hours with no customer reply, tell warehouse staff": of a recording
\* whose window ended in silence the staff are told, unless that changes first.
SilenceIsTold ==
  \A p \in Packages, n \in 1..MaxRecordings :
    Silent(p) /\ Recording(p) = n
      ~> <<p, n>> \in told \/ ~Silent(p) \/ Recording(p) # n

=============================================================================
