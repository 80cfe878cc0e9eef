----------------------- MODULE PackageFulfillmentProofs -----------------------
(***************************************************************************)
(* What holds of fulfilment for every number of packages, items, recordings *)
(* and failures, and whether or not a video is replaced while the job runs. *)
(***************************************************************************)
EXTENDS PackageFulfillment, SumTheorems

(***************************************************************************)
(* The evidence of a package.                                              *)
(***************************************************************************)
\* A label printed and not cancelled has its row.
LabelHasRow ==
  \A p \in Packages : Exists(p) /\ packages[p].label => packages[p].labelRow

PackageInv ==
  packages \in [Packages -> Package \cup {None}] /\ LabelHasRow /\ CompletedHasEvidence

\* What a row must satisfy to be written.
RowOK(row) ==
  /\ row \in Package
  /\ row.label => row.labelRow
  /\ row.completed => row.label /\ row.labelRow /\ row.photo

LEMMA RowIsOK ==
  ASSUME PackageInv, NEW p \in Packages, Exists(p)
  PROVE  RowOK(packages[p])
  BY DEF PackageInv, LabelHasRow, CompletedHasEvidence, RowOK, Exists

LEMMA UpdateKeeps ==
  ASSUME PackageInv, NEW p \in Packages, NEW row,
         packages' = [packages EXCEPT ![p] = row], RowOK(row)
  PROVE  PackageInv'
  BY DEF PackageInv, LabelHasRow, CompletedHasEvidence, RowOK, Exists

\* The steps that write no packages row.
NoRowWritten ==
  RequestStep \/ RequestDies \/ JobStep \/ JobDies \/ Tick \/ UNCHANGED vars

LEMMA NoRowWrittenKeeps ==
  ASSUME NoRowWritten  PROVE UNCHANGED packages
  BY DEF NoRowWritten, RequestStep, RequestDies, JobStep, JobDies, Tick, vars, evidence,
     ClearReleased, ReleaseVideoToCustomer, UpdateCustomerResponse, NotifyOfResponse,
     MarkResponseNotified, ListDue, Tell, MarkTold

\* Which row a call writes: a new one, or the old one changed so that it stays
\* well formed and, once received, loses no evidence.
LEMMA CallWrites ==
  ASSUME PackageInv, NEW p \in Packages, StaffCall(p)
  PROVE  \/ UNCHANGED packages
         \/ \E row : /\ packages' = [packages EXCEPT ![p] = row] /\ RowOK(row)
                     /\ Exists(p) /\ packages[p].received =>
                          /\ row.received
                          /\ packages[p].photo => row.photo
                          /\ packages[p].completed => row.completed
<1> DEFINE Kept(row) == Exists(p) /\ packages[p].received =>
                          /\ row.received
                          /\ packages[p].photo => row.photo
                          /\ packages[p].completed => row.completed
           Goal == UNCHANGED packages
             \/ \E row : packages' = [packages EXCEPT ![p] = row] /\ RowOK(row) /\ Kept(row)
<1>1. ASSUME Exists(p)
      PROVE  RowOK(packages[p]) /\ packages[p] \in Package
  BY <1>1, RowIsOK DEF RowOK
<1>2. CASE CreatePackage(p)
  <2>1. RowOK(Unpacked)
    BY DEF RowOK, Unpacked, Package, Statuses
  <2> QED  BY <1>2, <2>1 DEF CreatePackage, Update
<1>3. CASE \E lines \in Lines : CreatePackageWithItems(p, lines)
  <2>1. RowOK([Unpacked EXCEPT !.status = "PACKED"])
    BY DEF RowOK, Unpacked, Package, Statuses
  <2> QED  BY <1>3, <2>1 DEF CreatePackageWithItems
<1>4. CASE CreateShippingLabel(p)
  <2> DEFINE row == [packages[p] EXCEPT !.labelRow = TRUE, !.label = TRUE]
  <2>1. RowOK(row) /\ Kept(row)
    BY <1>1, <1>4 DEF CreateShippingLabel, RowOK, Package
  <2> QED  BY <1>4, <2>1 DEF CreateShippingLabel, Update
<1>5. CASE UploadLabelPhoto(p)
  <2> DEFINE row == [packages[p] EXCEPT !.photo = TRUE]
  <2>1. RowOK(row) /\ Kept(row)
    BY <1>1, <1>5 DEF UploadLabelPhoto, RowOK, Package
  <2> QED  BY <1>5, <2>1 DEF UploadLabelPhoto, Update
<1>6. CASE CompleteW1Fulfillment(p)
  <2> DEFINE row == [packages[p] EXCEPT !.completed = TRUE]
  <2>1. RowOK(row) /\ Kept(row)
    BY <1>1, <1>6 DEF CompleteW1Fulfillment, RowOK, Package
  <2> QED  BY <1>6, <2>1 DEF CompleteW1Fulfillment, Update
<1>7. CASE CancelW1Fulfillment(p)
  <2> DEFINE row == CancelledRow(packages[p])
  <2>1. RowOK(row) /\ Kept(row)
    BY <1>1, <1>7 DEF CancelW1Fulfillment, CancelledRow, RowOK, Package, Statuses
  <2> QED  BY <1>7, <2>1 DEF CancelW1Fulfillment, Update
<1>8. CASE UploadPackagingVideo(p)
  BY <1>8 DEF UploadPackagingVideo, evidence
<1>9. CASE ReceiveAPackageFromW1(p)
  <2> DEFINE row == [packages[p] EXCEPT !.received = TRUE, !.status = "READY_TO_DISPATCH"]
  <2>1. RowOK(row) /\ Kept(row)
    BY <1>1, <1>9 DEF ReceiveAPackageFromW1, RowOK, Package, Statuses
  <2> QED  BY <1>9, <2>1 DEF ReceiveAPackageFromW1, Update
<1>10. CASE DispatchPackages(p)
  <2> DEFINE row == [packages[p] EXCEPT !.status = "DISPATCHED"]
  <2>1. RowOK(row) /\ Kept(row)
    BY <1>1, <1>10 DEF DispatchPackages, RowOK, Package, Statuses
  <2> QED  BY <1>10, <2>1 DEF DispatchPackages, Update
<1>11. CASE \E s \in Statuses : UpdateReceivedPackageStatus(p, s)
  <2>1. PICK s \in Statuses : UpdateReceivedPackageStatus(p, s)
    BY <1>11
  <2> DEFINE row == [packages[p] EXCEPT !.status = s]
  <2>2. RowOK(row) /\ Kept(row)
    BY <1>1, <2>1 DEF UpdateReceivedPackageStatus, RowOK, Package
  <2> QED  BY <2>1, <2>2 DEF UpdateReceivedPackageStatus, Update
<1>12. Goal
  BY <1>2, <1>3, <1>4, <1>5, <1>6, <1>7, <1>8, <1>9, <1>10, <1>11 DEF StaffCall
<1> QED  BY <1>12

LEMMA RespondWritesNoRow ==
  ASSUME NEW p, NEW a, RespondToPackagingVideo(p, a)  PROVE UNCHANGED packages
  BY DEF RespondToPackagingVideo, evidence

LEMMA NextCases ==
  ASSUME [Next]_vars
  PROVE  UNCHANGED packages \/ \E p \in Packages : StaffCall(p)
  BY NoRowWrittenKeeps, RespondWritesNoRow DEF Next, NoRowWritten

LEMMA PackageNext ==
  ASSUME PackageInv, [Next]_vars  PROVE PackageInv'
<1>1. CASE UNCHANGED packages
  BY <1>1 DEF PackageInv, LabelHasRow, CompletedHasEvidence, Exists
<1>2. ASSUME NEW p \in Packages, StaffCall(p)  PROVE PackageInv'
  BY <1>1, <1>2, CallWrites, UpdateKeeps
<1> QED  BY <1>1, <1>2, NextCases

LEMMA PackageInit == Init => PackageInv
  BY DEF Init, PackageInv, LabelHasRow, CompletedHasEvidence, Exists

\* A completed package has its label and its photo.
THEOREM CompletedEvidence == Spec => []CompletedHasEvidence
<1>1. PackageInv => CompletedHasEvidence
  BY DEF PackageInv
<1> QED  BY <1>1, PackageInit, PackageNext, PTL DEF Spec

\* Once warehouse 2 has a package it keeps its photo and its completion.
THEOREM ReceivedEvidence == Spec => ReceivedKeepsEvidence
<1> DEFINE Step == \A p \in Packages : Exists(p) /\ packages[p].received =>
                     /\ packages'[p].received
                     /\ packages[p].photo => packages'[p].photo
                     /\ packages[p].completed => packages'[p].completed
<1>1. PackageInv /\ [Next]_vars => [Step]_vars
  <2> SUFFICES ASSUME PackageInv, [Next]_vars  PROVE Step
    OBVIOUS
  <2>1. CASE UNCHANGED packages
    BY <2>1
  <2>2. ASSUME NEW q \in Packages, StaffCall(q)  PROVE Step
    BY <2>1, <2>2, CallWrites DEF PackageInv
  <2> QED  BY <2>1, <2>2, NextCases
<1> QED  BY <1>1, PackageInit, PackageNext, PTL DEF Spec, ReceivedKeepsEvidence

(***************************************************************************)
(* The customer's answer.  It is written over whatever the row holds, so    *)
(* what matters is that a request that was checked stays the only one.      *)
(***************************************************************************)
Answers == {"confirmed", "disputed"}
VideoRow == [recording: Nat, deadline: Nat \cup {None}, reply: Answers \cup {None},
             notified: BOOLEAN]

\* A request about a video is about one that exists; one about to write an
\* answer has not been overtaken by another answer.
RequestOK ==
  /\ req \in [kind: {"idle", "clear", "release", "respond", "notify", "mark"},
             package: Packages \cup {None}, answer: Answers \cup {None}]
  /\ req = Idle \/ req.package \in Packages
  /\ req.kind \in {"release", "respond", "notify", "mark"} => HasVideo(req.package)
  /\ req.kind = "respond" => req.answer \in Answers /\ videos[req.package].reply = None

\* The job works on windows of videos that exist.
Listed == {d \in Packages \X Nat : HasVideo(d[1])}
JobOK == job.due \subseteq Listed /\ job.now \in Listed \cup {None}

VideoInv ==
  /\ videos \in [Packages -> VideoRow \cup {None}] /\ clock \in Nat
  /\ RequestOK /\ JobOK

\* A write that keeps a given answer, unless it starts a new recording.
Keeps(p, row) ==
  HasVideo(p) => \/ row.reply = videos[p].reply \/ videos[p].reply = None
                 \/ row.recording > videos[p].recording

\* Once a video exists it always does.
LEMMA SetVideoKeeps ==
  ASSUME VideoInv, NEW p \in Packages, NEW row \in VideoRow, SetVideo(p, row)
  PROVE  /\ videos' \in [Packages -> VideoRow \cup {None}]
         /\ \A q \in Packages : HasVideo(q) => HasVideo(q)'
         /\ HasVideo(p)' /\ videos'[p] = row
         /\ \A q \in Packages \ {p} : videos'[q] = videos[q]
         /\ job' = job => JobOK'
  BY NoneAssumption DEF VideoInv, SetVideo, HasVideo, JobOK, Listed, VideoRow, Answers

AnswersKept ==
  \A p \in Packages : HasVideo(p) =>
    \/ videos'[p].reply = videos[p].reply
    \/ videos[p].reply = None
    \/ videos'[p].recording > videos[p].recording

\* A call that touches no video and asks at most for a release.
LEMMA QuietCall ==
  ASSUME VideoInv, UNCHANGED <<videos, clock, job>>, RequestOK'
  PROVE  VideoInv' /\ AnswersKept
  BY DEF VideoInv, JobOK, Listed, HasVideo, AnswersKept

LEMMA StaffCallVideo ==
  ASSUME VideoInv, NEW p \in Packages, StaffCall(p)
  PROVE  VideoInv' /\ AnswersKept
<1> USE DEF Request, Idle
<1>1. ASSUME UNCHANGED <<videos, req, clock, job>>
      PROVE  VideoInv' /\ AnswersKept
  BY <1>1, QuietCall DEF VideoInv, RequestOK, HasVideo
<1>2. CASE CompleteW1Fulfillment(p)
  <2>1. RequestOK'
    BY <1>2 DEF CompleteW1Fulfillment, RequestOK, HasVideo
  <2> QED  BY <1>2, <2>1, QuietCall DEF CompleteW1Fulfillment, Update
<1>3. CASE CancelW1Fulfillment(p)
  <2>1. RequestOK'
    BY <1>3 DEF CancelW1Fulfillment, RequestOK, HasVideo
  <2> QED  BY <1>3, <2>1, QuietCall DEF CancelW1Fulfillment, Update
<1>4. CASE UploadPackagingVideo(p)
  <2> DEFINE row == [recording |-> Recording(p) + 1, deadline |-> None, reply |-> None,
                     notified |-> FALSE]
  <2>1. row \in VideoRow /\ (HasVideo(p) => row.recording > videos[p].recording)
    BY DEF VideoInv, VideoRow, Recording, HasVideo, Answers
  <2>2. SetVideo(p, row) /\ req' = Request("release", p) /\ UNCHANGED <<clock, job>>
    BY <1>4 DEF UploadPackagingVideo
  <2>3. HasVideo(p)' /\ JobOK' /\ videos'[p] = row
        /\ videos' \in [Packages -> VideoRow \cup {None}]
        /\ \A q \in Packages \ {p} : videos'[q] = videos[q]
    BY <2>1, <2>2, SetVideoKeeps
  <2>4. RequestOK'
    BY <2>2, <2>3 DEF RequestOK, HasVideo
  <2>5. AnswersKept
    BY <2>1, <2>3 DEF AnswersKept
  <2> QED  BY <2>2, <2>3, <2>4, <2>5 DEF VideoInv
<1>5. CASE CreatePackage(p) \/ \E lines \in Lines : CreatePackageWithItems(p, lines)
  BY <1>1, <1>5 DEF CreatePackage, CreatePackageWithItems, Update
<1>6. CASE CreateShippingLabel(p) \/ UploadLabelPhoto(p)
  BY <1>1, <1>6 DEF CreateShippingLabel, UploadLabelPhoto, Update
<1>7. CASE ReceiveAPackageFromW1(p) \/ DispatchPackages(p)
           \/ \E s \in Statuses : UpdateReceivedPackageStatus(p, s)
  BY <1>1, <1>7 DEF ReceiveAPackageFromW1, DispatchPackages, UpdateReceivedPackageStatus, Update
<1> QED  BY <1>2, <1>3, <1>4, <1>5, <1>6, <1>7 DEF StaffCall

\* A step that rewrites one existing video and leaves its answer alone, or
\* writes the answer of a request that was checked.
LEMMA Rewrite ==
  ASSUME VideoInv, NEW p \in Packages, HasVideo(p), NEW row \in VideoRow, SetVideo(p, row),
         row.reply = videos[p].reply \/ videos[p].reply = None,
         UNCHANGED clock, RequestOK', JobOK'
  PROVE  VideoInv' /\ AnswersKept
<1>1. /\ videos' \in [Packages -> VideoRow \cup {None}] /\ videos'[p] = row
      /\ \A q \in Packages \ {p} : videos'[q] = videos[q]
  BY SetVideoKeeps
<1>2. AnswersKept
  BY <1>1 DEF AnswersKept
<1> QED  BY <1>1, <1>2 DEF VideoInv

LEMMA RequestStepVideo ==
  ASSUME VideoInv, RequestStep
  PROVE  VideoInv' /\ AnswersKept
<1> DEFINE p == req.package
<1> USE DEF Idle
<1>1. req # Idle /\ p \in Packages
  BY DEF RequestStep, ClearReleased, ReleaseVideoToCustomer, UpdateCustomerResponse,
     NotifyOfResponse, MarkResponseNotified, VideoInv, RequestOK
<1>2. HasVideo(p) => videos[p] \in VideoRow
  BY <1>1 DEF VideoInv, HasVideo
<1>3. ASSUME req' = Idle  PROVE RequestOK'
  BY <1>3 DEF RequestOK
<1>4. CASE ClearReleased
  <2> DEFINE row == [videos[p] EXCEPT !.deadline = None, !.notified = FALSE]
  <2>1. CASE HasVideo(p)
    <3>1. row \in VideoRow /\ row.reply = videos[p].reply /\ SetVideo(p, row)
          /\ req' = Idle /\ UNCHANGED <<clock, job>>
      BY <1>2, <1>4, <2>1 DEF ClearReleased, VideoRow
    <3> QED  BY <1>1, <1>3, <2>1, <3>1, SetVideoKeeps, Rewrite
  <2>2. CASE ~HasVideo(p)
    BY <1>3, <1>4, <2>2, QuietCall DEF ClearReleased
  <2> QED  BY <2>1, <2>2
<1>5. CASE ReleaseVideoToCustomer
  <2> DEFINE row == [videos[p] EXCEPT !.deadline = clock + Window, !.notified = FALSE]
  <2>1. HasVideo(p)
    BY <1>5 DEF ReleaseVideoToCustomer, VideoInv, RequestOK
  <2>2. CASE Released(p)
    BY <1>3, <1>5, <2>2, QuietCall DEF ReleaseVideoToCustomer
  <2>3. CASE ~Released(p)
    <3>1. clock + Window \in Nat
      BY ConstantsAssumption DEF VideoInv
    <3>2. row \in VideoRow /\ row.reply = videos[p].reply
      BY <1>2, <2>1, <3>1 DEF VideoRow
    <3>3. SetVideo(p, row) /\ req' = Idle /\ UNCHANGED <<clock, job>>
      BY <1>5, <2>3 DEF ReleaseVideoToCustomer
    <3> QED  BY <1>1, <1>3, <2>1, <3>2, <3>3, SetVideoKeeps, Rewrite
  <2> QED  BY <2>2, <2>3
<1>6. CASE UpdateCustomerResponse
  <2> DEFINE row == [videos[p] EXCEPT !.reply = req.answer]
  <2>1. HasVideo(p) /\ req.answer \in Answers /\ videos[p].reply = None
    BY <1>6 DEF UpdateCustomerResponse, VideoInv, RequestOK
  <2>2. row \in VideoRow
    BY <1>2, <2>1 DEF VideoRow
  <2>3. SetVideo(p, row) /\ req' = [req EXCEPT !.kind = "notify"] /\ UNCHANGED <<clock, job>>
    BY <1>6 DEF UpdateCustomerResponse
  <2>4. HasVideo(p)' /\ JobOK'
    BY <1>1, <2>2, <2>3, SetVideoKeeps
  <2>5. RequestOK'
    BY <1>1, <2>3, <2>4 DEF RequestOK, HasVideo, VideoInv
  <2> QED  BY <1>1, <2>1, <2>2, <2>3, <2>4, <2>5, Rewrite
<1>7. CASE NotifyOfResponse
  <2>1. RequestOK' /\ UNCHANGED <<videos, clock, job>>
    BY <1>7 DEF NotifyOfResponse, VideoInv, RequestOK, HasVideo
  <2> QED  BY <2>1, QuietCall
<1>8. CASE MarkResponseNotified
  <2> DEFINE row == [videos[p] EXCEPT !.notified = TRUE]
  <2>1. HasVideo(p)
    BY <1>8 DEF MarkResponseNotified, VideoInv, RequestOK
  <2>2. row \in VideoRow /\ row.reply = videos[p].reply /\ SetVideo(p, row)
        /\ req' = Idle /\ UNCHANGED <<clock, job>>
    BY <1>2, <1>8, <2>1 DEF MarkResponseNotified, VideoRow
  <2> QED  BY <1>1, <1>3, <2>1, <2>2, SetVideoKeeps, Rewrite
<1> QED  BY <1>4, <1>5, <1>6, <1>7, <1>8 DEF RequestStep

LEMMA JobStepVideo ==
  ASSUME VideoInv, JobStep
  PROVE  VideoInv' /\ AnswersKept
<1>1. ASSUME UNCHANGED <<videos, clock, req>>, JobOK'
      PROVE  VideoInv' /\ AnswersKept
  BY <1>1 DEF VideoInv, RequestOK, HasVideo, AnswersKept
<1>2. CASE ListDue
  <2>1. Due \subseteq Listed
    <3> SUFFICES ASSUME NEW q \in Packages, Silent(q)  PROVE <<q, Recording(q)>> \in Listed
      BY DEF Due
    <3>1. HasVideo(q)
      BY DEF Silent, Released
    <3>2. Recording(q) \in Nat
      BY <3>1 DEF VideoInv, HasVideo, Recording, VideoRow
    <3> QED  BY <3>1, <3>2 DEF Listed
  <2>2. job = NoRun /\ job' = [job EXCEPT !.due = Due] /\ UNCHANGED <<videos, clock, req>>
    BY <1>2 DEF ListDue
  <2>3. JobOK'
    BY <2>1, <2>2 DEF JobOK, Listed, HasVideo, NoRun
  <2> QED  BY <1>1, <2>2, <2>3
<1>3. CASE Tell
  <2>1. PICK d \in job.due : job' = [due |-> job.due \ {d}, now |-> d]
    BY <1>3 DEF Tell
  <2>2. UNCHANGED <<videos, clock, req>>
    BY <1>3 DEF Tell
  <2>3. JobOK'
    BY <2>1, <2>2 DEF VideoInv, JobOK, Listed, HasVideo
  <2> QED  BY <1>1, <2>2, <2>3
<1>4. CASE MarkTold
  <2> DEFINE p == job.now[1]
             row == [videos[p] EXCEPT !.notified = TRUE]
  <2>1. p \in Packages /\ HasVideo(p)
    BY <1>4 DEF MarkTold, VideoInv, JobOK, Listed
  <2>2. row \in VideoRow /\ row.reply = videos[p].reply
    BY <2>1 DEF VideoInv, HasVideo, VideoRow
  <2>3. SetVideo(p, row) /\ UNCHANGED <<clock, req>> /\ job' = [job EXCEPT !.now = None]
    BY <1>4 DEF MarkTold
  <2>4. \A q \in Packages : HasVideo(q) =>
          HasVideo(q)' /\ (videos'[q].reply = videos[q].reply)
    BY <2>1, <2>2, <2>3, SetVideoKeeps
  <2>5. RequestOK'
    BY <2>3, <2>4 DEF VideoInv, RequestOK, HasVideo, Idle
  <2>6. job'.due = job.due /\ job'.now \in {None, job.now}
    BY <2>3
  <2>7. JobOK'
    BY <2>4, <2>6 DEF VideoInv, JobOK, Listed
  <2> QED  BY <2>1, <2>2, <2>3, <2>5, <2>7, Rewrite
<1> QED  BY <1>2, <1>3, <1>4 DEF JobStep

LEMMA RespondVideo ==
  ASSUME VideoInv, NEW p \in Packages, NEW a \in Answers, RespondToPackagingVideo(p, a)
  PROVE  VideoInv' /\ AnswersKept
<1>1. RequestOK' /\ UNCHANGED <<videos, clock, job>>
  BY DEF RespondToPackagingVideo, Request, Idle, Released, HasVideo, RequestOK
<1> QED  BY <1>1, QuietCall

LEMMA VideoNext ==
  ASSUME VideoInv, [Next]_vars
  PROVE  VideoInv' /\ [AnswersKept]_vars
<1>1. ASSUME NEW p \in Packages, StaffCall(p)  PROVE VideoInv' /\ AnswersKept
  BY <1>1, StaffCallVideo
<1>2. ASSUME NEW p \in Packages, NEW a \in Answers, RespondToPackagingVideo(p, a)
      PROVE  VideoInv' /\ AnswersKept
  BY <1>2, RespondVideo
<1>3. CASE RequestStep \/ JobStep
  BY <1>3, RequestStepVideo, JobStepVideo
<1>4. CASE RequestDies
  <2>1. RequestOK' /\ UNCHANGED <<videos, clock, job>>
    BY <1>4 DEF RequestDies, RequestOK, Idle
  <2> QED  BY <2>1, QuietCall
<1>5. CASE JobDies
  <2>1. UNCHANGED <<videos, clock, req>> /\ job' = NoRun
    BY <1>5 DEF JobDies
  <2>2. JobOK' /\ RequestOK'
    BY <2>1 DEF JobOK, Listed, NoRun, VideoInv, RequestOK, HasVideo
  <2> QED  BY <2>1, <2>2 DEF VideoInv, AnswersKept
<1>6. CASE Tick
  <2>1. clock' \in Nat /\ UNCHANGED <<videos, req, job>>
    BY <1>6 DEF Tick, VideoInv
  <2> QED  BY <2>1 DEF VideoInv, RequestOK, JobOK, Listed, HasVideo, AnswersKept
<1>7. CASE UNCHANGED vars
  BY <1>7, QuietCall DEF vars, VideoInv, RequestOK, HasVideo
<1> QED
  BY <1>1, <1>2, <1>3, <1>4, <1>5, <1>6, <1>7 DEF Next, Answers

LEMMA VideoInit == Init => VideoInv
  BY DEF Init, VideoInv, RequestOK, JobOK, Listed, Idle, NoRun

\* An answer is given once per recording: whatever interleaves with the job, an
\* answer that was stored is withdrawn by a new recording only.
THEOREM FinalAnswer == Spec => AnswerIsFinal
<1>1. VideoInv /\ [Next]_vars => [AnswersKept]_vars
  BY VideoNext
<1>2. VideoInv /\ [Next]_vars => VideoInv'
  BY VideoNext
<1>3. [AnswersKept]_vars <=> [\A p \in Packages : HasVideo(p) =>
          \/ videos'[p].reply = videos[p].reply
          \/ videos[p].reply = None
          \/ videos'[p].recording > videos[p].recording]_vars
  BY DEF AnswersKept
<1> QED  BY <1>1, <1>2, <1>3, VideoInit, PTL DEF Spec, AnswerIsFinal

(***************************************************************************)
(* Counting.                                                               *)
(***************************************************************************)
\* A package that does not exist holds nothing.
EmptyUntilMade == \A p \in Packages : ~Exists(p) => contents[p] = [i \in Items |-> 0]

CountInv ==
  /\ contents \in [Packages -> [Items -> Nat]]
  /\ items \in [Items -> [packed: Nat, status: Fulfilment]] /\ order \in Fulfilment
  /\ EmptyUntilMade /\ PackedIsCounted

LEMMA StatusTyped == \A packed, whole : Status(packed, whole) \in Fulfilment
BY DEF Status, Fulfilment

LEMMA OrderTyped == \A rows : OrderStatus(rows) \in Fulfilment
BY DEF OrderStatus, Fulfilment

\* What a call packs of an item is what its lines say, nothing for an item it does not name.
LEMMA PackedInIs ==
  ASSUME NEW lines \in Lines, NEW i \in Items
  PROVE  /\ PackedIn(lines, i) \in Nat
         /\ i \notin {l.item : l \in ToSet(lines)} => PackedIn(lines, i) = 0
<1> DEFINE f == [n \in DOMAIN lines |-> lines[n].quantity]
           S == {n \in DOMAIN lines : lines[n].item = i}
<1>1. PICK m \in Nat : lines \in [1..m -> Line] /\ DOMAIN lines = 1..m
  BY ConstantsAssumption DEF Lines
<1>2. IsFiniteSet(S)
  <2>1. IsFiniteSet(1..m)
    BY FS_Interval
  <2> QED  BY <1>1, <2>1, FS_Subset
<1>3. \A n \in S : f[n] \in Nat
  BY <1>1, ConstantsAssumption DEF Line
<1>4. i \notin {l.item : l \in ToSet(lines)} => S = {}
  BY DEF ToSet
<1>5. PackedIn(lines, i) = SumFunctionOnSet(f, S)
  BY DEF PackedIn
<1> HIDE DEF f, S
<1> QED  BY <1>2, <1>3, <1>4, <1>5, SumIsNat, SumEmpty

LEMMA PackedOfTyped ==
  ASSUME NEW packed \in [Packages -> [Items -> Nat]], NEW i \in Items
  PROVE  PackedOf(packed, i) \in Nat
<1> DEFINE f == [p \in Packages |-> packed[p][i]]
<1>1. PackedOf(packed, i) = SumFunctionOnSet(f, Packages)
  BY DEF PackedOf, SumFunction
<1>2. \A p \in Packages : f[p] \in Nat
  OBVIOUS
<1> HIDE DEF f
<1> QED  BY <1>1, <1>2, SumIsNat, ConstantsAssumption

\* Only the items of the call are counted again; the others are as they were.
LEMMA PackedOfSame ==
  ASSUME NEW old, NEW new, NEW i \in Items, \A p \in Packages : new[p][i] = old[p][i]
  PROVE  PackedOf(new, i) = PackedOf(old, i)
BY DEF PackedOf

LEMMA CountInit == Init => CountInv
<1> SUFFICES ASSUME Init PROVE CountInv
  OBVIOUS
<1>1. ASSUME NEW i \in Items
      PROVE  PackedOf(contents, i) = 0
  <2> DEFINE f == [p \in Packages |-> contents[p][i]]
  <2>1. PackedOf(contents, i) = SumFunctionOnSet(f, Packages)
    BY DEF PackedOf, SumFunction
  <2>2. \A p \in Packages : f[p] = 0
    BY <1>1 DEF Init
  <2> HIDE DEF f
  <2> QED  BY <2>1, <2>2, SumZero, ConstantsAssumption
<1>2. Status(0, Quantity) = "pending"
  BY ConstantsAssumption DEF Status
<1>3. OrderStatus(items) = "pending"
  BY DEF Init, OrderStatus
<1> QED  BY <1>1, <1>2, <1>3 DEF Init, CountInv, EmptyUntilMade, PackedIsCounted, Exists, Fulfilment

\* Every step but the packing of lines leaves the counts and the contents alone.
LEMMA CountsLeft ==
  ASSUME [Next]_vars
  PROVE  UNCHANGED <<items, order, contents>>
         \/ \E p \in Packages, lines \in Lines : CreatePackageWithItems(p, lines)
<1> USE DEF Update, evidence
<1>1. ASSUME NEW p \in Packages, StaffCall(p)
      PROVE  UNCHANGED <<items, order, contents>>
             \/ \E lines \in Lines : CreatePackageWithItems(p, lines)
  BY <1>1 DEF StaffCall, CreatePackage, CreateShippingLabel, UploadLabelPhoto, CompleteW1Fulfillment,
     CancelW1Fulfillment, UploadPackagingVideo, ReceiveAPackageFromW1, DispatchPackages,
     UpdateReceivedPackageStatus
<1>2. ASSUME NEW p \in Packages, NEW a, RespondToPackagingVideo(p, a)
      PROVE  UNCHANGED <<items, order, contents>>
  BY <1>2 DEF RespondToPackagingVideo
<1>3. ASSUME RequestStep \/ RequestDies \/ JobStep \/ JobDies \/ Tick \/ UNCHANGED vars
      PROVE  UNCHANGED <<items, order, contents>>
  BY <1>3 DEF RequestStep, RequestDies, JobStep, JobDies, Tick, vars, ClearReleased,
     ReleaseVideoToCustomer, UpdateCustomerResponse, NotifyOfResponse, MarkResponseNotified,
     ListDue, Tell, MarkTold
<1> QED  BY <1>1, <1>2, <1>3 DEF Next

\* A package that was made is not unmade.
LEMMA MadeStays ==
  ASSUME PackageInv, [Next]_vars, NEW q \in Packages, Exists(q)
  PROVE  Exists(q)'
<1>1. CASE UNCHANGED packages
  BY <1>1 DEF Exists
<1>2. ASSUME NEW p \in Packages, StaffCall(p)  PROVE Exists(q)'
  <2>1. CASE UNCHANGED packages
    BY <2>1 DEF Exists
  <2>2. ASSUME NEW row, packages' = [packages EXCEPT ![p] = row], RowOK(row)
        PROVE  Exists(q)'
    BY <2>2, NoneAssumption DEF PackageInv, RowOK, Exists
  <2> QED  BY <1>2, <2>1, <2>2, CallWrites
<1> QED  BY <1>1, <1>2, NextCases

\* A call that packs lines: an item it does not name is in no line, and the
\* package was empty, so its count stands; the others are counted again.
LEMMA PackCounts ==
  ASSUME CountInv, PackageInv, NEW p \in Packages, NEW lines \in Lines,
         CreatePackageWithItems(p, lines)
  PROVE  CountInv'
<1> DEFINE named == {l.item : l \in ToSet(lines)}
           put == [i \in Items |-> PackedIn(lines, i)]
<1>1. ~Exists(p) /\ contents' = [contents EXCEPT ![p] = put] /\ order' = OrderStatus(items')
      /\ packages' = [packages EXCEPT ![p] = [Unpacked EXCEPT !.status = "PACKED"]]
  BY DEF CreatePackageWithItems
<1>2. items' = [i \in Items |->
         IF i \notin named THEN items[i]
         ELSE [packed |-> PackedOf(contents', i), status |-> Status(PackedOf(contents', i), Quantity)]]
  BY DEF CreatePackageWithItems, Recount
<1>3. \A i \in Items : PackedIn(lines, i) \in Nat /\ (i \notin named => PackedIn(lines, i) = 0)
  BY PackedInIs
<1> HIDE DEF named
<1>4. put \in [Items -> Nat] /\ \A i \in Items : i \notin named => put[i] = 0
  BY <1>3
<1> HIDE DEF put
<1>5. contents' \in [Packages -> [Items -> Nat]]
  BY <1>1, <1>4 DEF CountInv
<1>6. contents[p] = [i \in Items |-> 0]
  BY <1>1 DEF CountInv, EmptyUntilMade
<1>7. ASSUME NEW i \in Items, i \notin named
      PROVE  PackedOf(contents', i) = PackedOf(contents, i)
  <2>1. \A q \in Packages : contents'[q][i] = contents[q][i]
    BY <1>1, <1>4, <1>6, <1>7 DEF CountInv
  <2> QED  BY <2>1, PackedOfSame
<1>8. \A i \in Items : PackedOf(contents', i) \in Nat
  BY <1>5, PackedOfTyped
<1>9. \A i \in Items :
        items'[i].packed = PackedOf(contents', i) /\ items'[i].status = Status(items'[i].packed, Quantity)
        /\ items'[i] \in [packed: Nat, status: Fulfilment]
  <2> TAKE i \in Items
  <2>1. CASE i \notin named
    BY <1>2, <1>7, <2>1 DEF CountInv, PackedIsCounted
  <2>2. CASE i \in named
    <3> DEFINE n == PackedOf(contents', i)
    <3>1. n \in Nat /\ Status(n, Quantity) \in Fulfilment
      BY <1>8, StatusTyped
    <3>2. items'[i] = [packed |-> n, status |-> Status(n, Quantity)]
      BY <1>2, <2>2
    <3> HIDE DEF n
    <3>3. items'[i].packed = n /\ items'[i].status = Status(n, Quantity)
          /\ items'[i] \in [packed: Nat, status: Fulfilment]
      BY <3>1, <3>2
    <3> QED  BY <3>3 DEF n
  <2> QED  BY <2>1, <2>2
<1>10. items' \in [Items -> [packed: Nat, status: Fulfilment]]
  BY <1>2, <1>9
<1>11. order' \in Fulfilment
  BY <1>1, OrderTyped
<1>12. \A q \in Packages : packages'[q] = None => q # p /\ packages[q] = None
  <2>1. [Unpacked EXCEPT !.status = "PACKED"] \in Package
    BY DEF Unpacked, Package, Statuses
  <2> QED  BY <1>1, <2>1, NoneAssumption DEF PackageInv
<1>13. EmptyUntilMade'
  BY <1>1, <1>12 DEF EmptyUntilMade, Exists, CountInv
<1> QED  BY <1>1, <1>5, <1>9, <1>10, <1>11, <1>13 DEF CountInv, PackedIsCounted

LEMMA CountNext ==
  ASSUME CountInv, PackageInv, [Next]_vars
  PROVE  CountInv'
<1>1. CASE UNCHANGED <<items, order, contents>>
  <2>1. EmptyUntilMade'
    BY <1>1, MadeStays DEF CountInv, EmptyUntilMade
  <2>2. PackedIsCounted'
    BY <1>1 DEF CountInv, PackedIsCounted
  <2> QED  BY <1>1, <2>1, <2>2 DEF CountInv
<1> QED  BY <1>1, CountsLeft, PackCounts

\* What an item and its order say is packed is what the packages hold of it.
THEOREM PackedCounted == Spec => []PackedIsCounted
<1>1. Init => CountInv /\ PackageInv
  BY CountInit, PackageInit
<1>2. CountInv /\ PackageInv /\ [Next]_vars => CountInv' /\ PackageInv'
  BY CountNext, PackageNext
<1>3. CountInv => PackedIsCounted
  BY DEF CountInv
<1> QED  BY <1>1, <1>2, <1>3, PTL DEF Spec

(***************************************************************************)
(* Types.                                                                  *)
(***************************************************************************)
Recordings == Packages \X (1..MaxRecordings)
MadeInv ==
  /\ clock \in 0..MaxClock /\ failures \in 0..MaxFailures
  /\ videos \in [Packages -> Video \cup {None}]
  /\ \A p \in Packages : HasVideo(p) => Exists(p)
  /\ req # Idle => Exists(req.package)
  /\ job.due \cup told \subseteq Recordings

LEMMA NoneNoVideo == None \notin Video
BY NoneAssumption, ConstantsAssumption DEF Video

\* A step that touches no video, and asks for nothing new or of a package that is there.
LEMMA QuietMade ==
  ASSUME MadeInv, VideoInv, PackageInv, [Next]_vars, UNCHANGED <<videos, clock, job, told, failures>>,
         req' = req \/ req' = Idle \/ Exists(req.package)' \/ (req # Idle /\ req'.package = req.package)
  PROVE  MadeInv'
<1>1. \A p \in Packages : Exists(p) => Exists(p)'
  BY MadeStays
<1>2. req # Idle => req.package \in Packages
  BY DEF VideoInv, RequestOK
<1>3. req' # Idle => Exists(req.package)'
  BY <1>1, <1>2 DEF MadeInv
<1>4. \A p \in Packages : HasVideo(p)' => Exists(p)'
  BY <1>1 DEF MadeInv, HasVideo
<1> QED  BY <1>3, <1>4 DEF MadeInv

\* A step that writes the video of a package that is there.
LEMMA FilmMade ==
  ASSUME MadeInv, VideoInv, PackageInv, [Next]_vars, NEW p \in Packages, Exists(p),
         NEW row \in Video, SetVideo(p, row), UNCHANGED <<clock, told, failures>>, job'.due = job.due,
         req' = req \/ req' = Idle \/ req'.package = p
  PROVE  MadeInv'
<1>1. \A q \in Packages : Exists(q) => Exists(q)'
  BY MadeStays
<1>2. req # Idle => req.package \in Packages
  BY DEF VideoInv, RequestOK
<1>3. req' # Idle => Exists(req.package)'
  BY <1>1, <1>2 DEF MadeInv
<1>4. videos' \in [Packages -> Video \cup {None}] /\ \A q \in Packages : HasVideo(q)' => Exists(q)'
  BY <1>1 DEF MadeInv, SetVideo, HasVideo
<1> QED  BY <1>3, <1>4 DEF MadeInv

LEMMA StaffCallMade ==
  ASSUME MadeInv, VideoInv, PackageInv, [Next]_vars, NEW p \in Packages, StaffCall(p)
  PROVE  MadeInv'
<1> USE DEF Request, Idle, Update
<1>1. Exists(p) => Exists(p)'
  BY MadeStays
<1>2. CASE CompleteW1Fulfillment(p) \/ CancelW1Fulfillment(p)
  <2>1. Exists(p)' /\ (req' = Idle \/ req'.package = p)
    BY <1>1, <1>2 DEF CompleteW1Fulfillment, CancelW1Fulfillment
  <2>2. req' = Idle \/ Exists(req.package)'
    BY <2>1 DEF Exists
  <2> QED  BY <1>2, <2>2, QuietMade DEF CompleteW1Fulfillment, CancelW1Fulfillment
<1>3. CASE UploadPackagingVideo(p)
  <2> DEFINE row == [recording |-> Recording(p) + 1, deadline |-> None, reply |-> None,
                     notified |-> FALSE]
  <2>1. Recording(p) \in Nat /\ Recording(p) < MaxRecordings
    BY <1>3, ConstantsAssumption DEF UploadPackagingVideo, VideoInv, VideoRow, Recording, HasVideo
  <2>2. Recording(p) + 1 \in 1..MaxRecordings
    BY <2>1, ConstantsAssumption
  <2>3. row \in Video
    BY <2>2 DEF Video
  <2>4. Exists(p) /\ SetVideo(p, row) /\ req' = Request("release", p) /\ UNCHANGED <<clock, job, told, failures>>
    BY <1>3 DEF UploadPackagingVideo
  <2>5. req'.package = p
    BY <2>4
  <2> HIDE DEF row
  <2> QED  BY <2>3, <2>4, <2>5, FilmMade
<1>4. CASE CreatePackage(p) \/ \E lines \in Lines : CreatePackageWithItems(p, lines)
  BY <1>4, QuietMade DEF CreatePackage, CreatePackageWithItems
<1>5. CASE CreateShippingLabel(p) \/ UploadLabelPhoto(p)
  BY <1>5, QuietMade DEF CreateShippingLabel, UploadLabelPhoto
<1>6. CASE ReceiveAPackageFromW1(p) \/ DispatchPackages(p)
           \/ \E s \in Statuses : UpdateReceivedPackageStatus(p, s)
  BY <1>6, QuietMade DEF ReceiveAPackageFromW1, DispatchPackages, UpdateReceivedPackageStatus
<1> QED  BY <1>2, <1>3, <1>4, <1>5, <1>6 DEF StaffCall

LEMMA RequestStepMade ==
  ASSUME MadeInv, VideoInv, PackageInv, [Next]_vars, RequestStep
  PROVE  MadeInv'
<1> DEFINE p == req.package
<1> USE DEF Idle
<1>1. p \in Packages /\ Exists(p) /\ req # Idle
  BY DEF RequestStep, ClearReleased, ReleaseVideoToCustomer, UpdateCustomerResponse,
     NotifyOfResponse, MarkResponseNotified, VideoInv, RequestOK, MadeInv
<1>2. HasVideo(p) => videos[p] \in Video
  BY <1>1 DEF MadeInv, HasVideo
<1>3. CASE ClearReleased
  <2> DEFINE row == [videos[p] EXCEPT !.deadline = None, !.notified = FALSE]
  <2>1. CASE HasVideo(p)
    <3>1. row \in Video /\ SetVideo(p, row) /\ req' = Idle /\ UNCHANGED <<clock, job, told, failures>>
      BY <1>2, <1>3, <2>1 DEF ClearReleased, Video
    <3> HIDE DEF row
    <3> QED  BY <1>1, <3>1, FilmMade
  <2>2. CASE ~HasVideo(p)
    BY <1>3, <2>2, QuietMade DEF ClearReleased
  <2> QED  BY <2>1, <2>2
<1>4. CASE ReleaseVideoToCustomer
  <2> DEFINE row == [videos[p] EXCEPT !.deadline = clock + Window, !.notified = FALSE]
  <2>1. HasVideo(p)
    BY <1>4 DEF ReleaseVideoToCustomer, VideoInv, RequestOK
  <2>2. CASE Released(p)
    BY <1>4, <2>2, QuietMade DEF ReleaseVideoToCustomer
  <2>3. CASE ~Released(p)
    <3>1. clock + Window \in 0..MaxClock + Window
      BY ConstantsAssumption DEF MadeInv
    <3>2. row \in Video
      BY <1>2, <2>1, <3>1 DEF Video
    <3>3. SetVideo(p, row) /\ req' = Idle /\ UNCHANGED <<clock, job, told, failures>>
      BY <1>4, <2>3 DEF ReleaseVideoToCustomer
    <3> HIDE DEF row
    <3> QED  BY <1>1, <3>2, <3>3, FilmMade
  <2> QED  BY <2>2, <2>3
<1>5. CASE UpdateCustomerResponse
  <2> DEFINE row == [videos[p] EXCEPT !.reply = req.answer]
  <2>1. HasVideo(p) /\ req.answer \in Answers
    BY <1>5 DEF UpdateCustomerResponse, VideoInv, RequestOK
  <2>2. row \in Video
    BY <1>2, <2>1 DEF Video, Answers
  <2>3. SetVideo(p, row) /\ req' = [req EXCEPT !.kind = "notify"] /\ UNCHANGED <<clock, job, told, failures>>
    BY <1>5 DEF UpdateCustomerResponse
  <2>4. req'.package = p
    BY <2>3 DEF VideoInv, RequestOK
  <2> HIDE DEF row
  <2> QED  BY <1>1, <2>2, <2>3, <2>4, FilmMade
<1>6. CASE NotifyOfResponse
  <2>1. HasVideo(p)
    BY <1>6 DEF NotifyOfResponse, VideoInv, RequestOK
  <2>2. <<p, videos[p].recording>> \in Recordings
    BY <1>1, <1>2, <2>1 DEF Video, Recordings
  <2>3. told' \subseteq Recordings
    BY <1>6, <2>2 DEF NotifyOfResponse, MadeInv
  <2>4. req' = Idle \/ req'.package = p
    BY <1>6 DEF NotifyOfResponse, VideoInv, RequestOK
  <2>5. UNCHANGED <<videos, clock, job, failures, packages>>
    BY <1>6 DEF NotifyOfResponse, evidence
  <2> QED  BY <1>1, <2>3, <2>4, <2>5 DEF MadeInv, HasVideo, Exists
<1>7. CASE MarkResponseNotified
  <2> DEFINE row == [videos[p] EXCEPT !.notified = TRUE]
  <2>1. HasVideo(p)
    BY <1>7 DEF MarkResponseNotified, VideoInv, RequestOK
  <2>2. row \in Video /\ SetVideo(p, row) /\ req' = Idle /\ UNCHANGED <<clock, job, told, failures>>
    BY <1>2, <1>7, <2>1 DEF MarkResponseNotified, Video
  <2> HIDE DEF row
  <2> QED  BY <1>1, <2>2, FilmMade
<1> QED  BY <1>3, <1>4, <1>5, <1>6, <1>7 DEF RequestStep

\* The steps of the job, and what leaves the videos alone.
LEMMA JobStepMade ==
  ASSUME MadeInv, VideoInv, PackageInv, [Next]_vars, JobStep
  PROVE  MadeInv'
<1>0. UNCHANGED <<packages, clock, req, failures>>
  BY DEF JobStep, ListDue, Tell, MarkTold, evidence
<1>1. CASE ListDue
  <2>1. Due \subseteq Recordings
    <3> SUFFICES ASSUME NEW q \in Packages, HasVideo(q)  PROVE <<q, Recording(q)>> \in Recordings
      BY DEF Due, Silent, Released
    <3> QED  BY DEF MadeInv, Recording, HasVideo, Video, Recordings
  <2>2. job'.due = Due /\ UNCHANGED <<videos, told>>
    BY <1>1 DEF ListDue, NoRun
  <2> QED  BY <1>0, <2>1, <2>2 DEF MadeInv, HasVideo, Exists
<1>2. CASE Tell
  <2>1. PICK d \in job.due : job' = [due |-> job.due \ {d}, now |-> d] /\ told' = told \cup {d}
    BY <1>2 DEF Tell
  <2>2. job'.due = job.due \ {d} /\ UNCHANGED videos
    BY <1>2, <2>1 DEF Tell
  <2>3. job'.due \cup told' \subseteq Recordings
    BY <2>1, <2>2 DEF MadeInv
  <2> QED  BY <1>0, <2>2, <2>3 DEF MadeInv, HasVideo, Exists
<1>3. CASE MarkTold
  <2> DEFINE p == job.now[1]
             row == [videos[p] EXCEPT !.notified = TRUE]
  <2>1. p \in Packages /\ HasVideo(p)
    BY <1>3 DEF MarkTold, VideoInv, JobOK, Listed
  <2>2. Exists(p) /\ row \in Video
    BY <2>1 DEF MadeInv, HasVideo, Video
  <2>3. SetVideo(p, row) /\ UNCHANGED told /\ job'.due = job.due
    BY <1>3 DEF MarkTold
  <2> HIDE DEF p, row
  <2> QED  BY <1>0, <2>1, <2>2, <2>3, FilmMade
<1> QED  BY <1>1, <1>2, <1>3 DEF JobStep

LEMMA MadeNext ==
  ASSUME MadeInv, VideoInv, PackageInv, [Next]_vars
  PROVE  MadeInv'
<1>1. ASSUME NEW p \in Packages, NEW a, RespondToPackagingVideo(p, a)  PROVE MadeInv'
  <2>1. Exists(p)'
    BY <1>1, MadeStays DEF RespondToPackagingVideo
  <2>2. req'.package = p
    BY <1>1 DEF RespondToPackagingVideo, Request, Idle
  <2>3. Exists(req.package)'
    BY <2>1, <2>2 DEF Exists
  <2> QED  BY <1>1, <2>3, QuietMade DEF RespondToPackagingVideo
<1>2. CASE RequestDies \/ JobDies
  <2>1. UNCHANGED <<packages, videos, clock, told>> /\ failures' \in 0..MaxFailures
        /\ (req' = req \/ req' = Idle) /\ job'.due \subseteq job.due
    BY <1>2, ConstantsAssumption DEF RequestDies, JobDies, MadeInv, evidence, NoRun
  <2> QED  BY <2>1 DEF MadeInv, HasVideo, Exists
<1>3. CASE Tick
  <2>1. UNCHANGED <<packages, videos, req, job, told, failures>> /\ clock' \in 0..MaxClock
    BY <1>3, ConstantsAssumption DEF Tick, MadeInv, evidence
  <2> QED  BY <2>1 DEF MadeInv, HasVideo, Exists
<1>4. CASE UNCHANGED vars
  BY <1>4, QuietMade DEF vars
<1> QED  BY <1>1, <1>2, <1>3, <1>4, StaffCallMade, RequestStepMade, JobStepMade DEF Next

\* Every row, request and listed window is of a package that is there, and of its type.
THEOREM TypeCorrect == Spec => []TypeOK
<1> DEFINE All == MadeInv /\ VideoInv /\ PackageInv /\ CountInv
<1>1. Init => All
  <2> SUFFICES ASSUME Init PROVE MadeInv
    BY CountInit, PackageInit, VideoInit
  <2> QED  BY ConstantsAssumption DEF Init, MadeInv, HasVideo, Exists, NoRun, Idle
<1>2. All /\ [Next]_vars => All'
  BY MadeNext, VideoNext, PackageNext, CountNext
<1>3. All => TypeOK
  BY DEF MadeInv, VideoInv, RequestOK, PackageInv, CountInv, TypeOK, Recordings
<1> QED  BY <1>1, <1>2, <1>3, PTL DEF Spec
=============================================================================
