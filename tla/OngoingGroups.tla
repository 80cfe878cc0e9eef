----------------------------- MODULE OngoingGroups -----------------------------
(***************************************************************************)
(* Groupage: customers ask for variants of one product, each a slot of the    *)
(* product's group; the group counts the items ordered and, at a threshold,   *)
(* the staff are told it is ready to be approved: ongoing-groups.service and  *)
(* its repository.  Calls read, check and then write in a transaction; they   *)
(* may overlap, and may die between their steps.                             *)
(***************************************************************************)
EXTENDS Integers, FiniteSets, FiniteSetsExt, Functions

CONSTANTS
  Ids,          \* ids of ongoing_group_requests rows, never used twice
  Groups,       \* ids of ongoing_groups rows of the product
  Variants,     \* the product's variants, of one colour
  Callers,      \* slots for calls in progress
  MaxQuantity,  \* bound on what one request asks for
  MaxCriteria,  \* bound on the product's completionCriteria
  MaxCauses,    \* bound on the causes a behaviour goes on after
  Limit,        \* products.concurrentReqs
  None

ASSUME ConstantsAssumption ==
  /\ {MaxQuantity, MaxCriteria, Limit} \subseteq Nat \ {0}
  /\ IsFiniteSet(Ids) /\ IsFiniteSet(Variants)
  /\ None \notin Ids \cup Groups \cup Variants \cup Nat

VARIABLES
  requests,   \* ongoing_group_requests rows
  groups,     \* ongoing_groups rows
  criteria,   \* completionCriteria of the product, whole items
  calls,      \* what each call read and what it does next
  told,       \* history: the groups told of since they last reached the threshold
  spoiled     \* history: what happened that a property cannot bear
vars == <<requests, groups, criteria, calls, told, spoiled>>

Decisions == {"pending", "approved", "rejected"}
Rows == {"unused", "deleted"} \cup Decisions
Quantities == 1..MaxQuantity
Criteria == 0..MaxCriteria
Request == [status: Rows, variant: Variants \cup {None}, quantity: Quantities \cup {0},
            group: Groups \cup {None}, fresh: BOOLEAN]
\* approved and rejected tell whether approvalDate and rejectionDate are set.
Group == [used: BOOLEAN, ordered: Nat, threshold: Criteria, approved: BOOLEAN, rejected: BOOLEAN]
\* What a call is given, None where it is not: a new request's row may say its status.
Row == [status: Decisions \cup {None}, variant: Variants \cup {None},
        quantity: Quantities \cup {None}]
\* A PATCH gives a status, and nothing else but a reason.
Patch == [status: Decisions, variant: {None}, quantity: {None}]
Kinds == {"idle", "create", "patch", "remove", "approve", "reject", "undo"}
Call == [kind: Kinds, next: {"none", "find", "write", "ready"}, id: Ids \cup {None},
         row: Row, group: Groups \cup {None}, seen: Nat, threshold: Criteria, decides: SUBSET Ids]
Counting == {"create", "remove"}
Deciding == {"approve", "reject", "undo", "patch"}
\* Two creations, two other counting calls or two deciding ones at once; a rejected request open
\* again; a threshold of zero, or lowered to what was ordered already; a process that died before
\* its notice.
Causes == {"creates", "counts", "decisions", "revival", "lowered", "death"}

Unused == [status |-> "unused", variant |-> None, quantity |-> 0, group |-> None, fresh |-> FALSE]
NoRow == [status |-> None, variant |-> None, quantity |-> None]
Idle == [kind |-> "idle", next |-> "none", id |-> None, row |-> NoRow, group |-> None,
         seen |-> 0, threshold |-> 0, decides |-> {}]
NewGroup == [used |-> FALSE, ordered |-> 0, threshold |-> 0, approved |-> FALSE, rejected |-> FALSE]

Init ==
  /\ requests = [x \in Ids |-> Unused]
  /\ groups = [g \in Groups |-> NewGroup] /\ criteria \in Criteria
  /\ calls = [c \in Callers |-> Idle] /\ told = {} /\ spoiled = {}

Exists(x) == requests[x].status \in Decisions
Open(x) == requests[x].status \in {"pending", "approved"}
OpenVariants == {requests[x].variant : x \in {y \in Ids : Open(y)}}
InGroup(g) == {x \in Ids : Exists(x) /\ requests[x].group = g}

(***************************************************************************)
(* Calls.                                                                  *)
(***************************************************************************)
At(k, l) == IF {k, l} = {"create"} THEN {"creates"}
            ELSE IF {k, l} \subseteq Counting THEN {"counts"}
            ELSE IF {k, l} \subseteq Deciding THEN {"decisions"} ELSE {}
Start(c, call) ==
  /\ calls[c] = Idle
  /\ calls' = [calls EXCEPT ![c] = call]
  /\ spoiled' = spoiled \cup UNION {At(call.kind, calls[d].kind) : d \in Callers \ {c}}
  /\ UNCHANGED <<requests, groups, criteria, told>>
Kind(c) == calls[c].kind
Writes(c, kind) == Kind(c) = kind /\ calls[c].next = "write"
End(c) == calls' = [calls EXCEPT ![c] = Idle]
GiveUp(c) ==
  /\ calls[c] # Idle /\ End(c)
  /\ spoiled' = IF calls[c].next = "ready" THEN spoiled \cup {"death"} ELSE spoiled
  /\ UNCHANGED <<requests, groups, criteria, told>>

\* A group that falls below its threshold may be told of again.
StillReady(gs) == {g \in told : gs[g].ordered >= gs[g].threshold}
SetOrdered(g, n, threshold) ==
  /\ groups' = [groups EXCEPT ![g].ordered = n, ![g].threshold = threshold, ![g].used = TRUE]
  /\ told' = StillReady(groups')

\* The staff edit the product: its group's threshold follows at the next creation.
UpdateProduct(n) ==
  /\ n # criteria /\ criteria' = n
  /\ UNCHANGED <<requests, groups, calls, told, spoiled>>

(***************************************************************************)
(* createOngoingGroupRequest.                                               *)
(***************************************************************************)
PendingSlotFree(v) ==   \* mutant: an approved request leaves its slot
  \A x \in Ids : requests[x].variant = v => requests[x].status # "pending"
SlotFree(v) == \A x \in Ids : requests[x].variant = v => ~Open(x)
CanOpen(v) == v \in OpenVariants \/ Cardinality(OpenVariants) < Limit

CheckSlot(c, x, row) ==
  /\ requests[x] = Unused /\ \A d \in Callers : calls[d].id # x
  /\ SlotFree(row.variant) /\ CanOpen(row.variant)
  /\ Start(c, [Idle EXCEPT !.kind = "create", !.next = "find", !.id = x, !.row = row])

\* The product's criteria, and findFirst of its groups, in no order; the count is kept.
FindOngoingGroup(c) ==
  LET used == {g \in Groups : groups[g].used}
  IN /\ Kind(c) = "create" /\ calls[c].next = "find"
     /\ \E g \in IF used = {} THEN {None} ELSE used :
          calls' = [calls EXCEPT ![c].next = "write", ![c].group = g,
                                 ![c].seen = IF g = None THEN 0 ELSE groups[g].ordered,
                                 ![c].threshold = criteria]
     /\ UNCHANGED <<requests, groups, criteria, told, spoiled>>

\* The staff are not told: the creation that makes the group ready does not see it cross.
Uncrossed(g, threshold) ==
  threshold = 0 \/ (groups[g].ordered >= threshold /\ groups[g].ordered < groups[g].threshold)
\* orderedItems becomes what was read plus the quantity, the threshold the criteria read.
CreateRequest(c) ==
  LET call == calls[c]
  IN /\ Writes(c, "create")
     /\ \E g \in IF call.group = None THEN {h \in Groups : ~groups[h].used} ELSE {call.group} :
          /\ SetOrdered(g, call.seen + call.row.quantity, call.threshold)
          /\ requests' = [requests EXCEPT ![call.id] =
               [status |-> call.row.status, variant |-> call.row.variant,
                quantity |-> call.row.quantity, group |-> g, fresh |-> TRUE]]
          /\ calls' = [calls EXCEPT ![c].next = "ready", ![c].group = g]
          /\ spoiled' = IF Uncrossed(g, call.threshold) THEN spoiled \cup {"lowered"} ELSE spoiled
     /\ UNCHANGED criteria

CrossesAbove(group, quantity) ==   \* mutant: the threshold itself is not reached
  group.ordered > group.threshold /\ group.ordered - quantity < group.threshold
Crosses(group, quantity) ==
  group.ordered >= group.threshold /\ group.ordered - quantity < group.threshold
\* The row is read again: it may be gone, or others have been added since.
NotifyAdminsGroupReady(c) ==
  LET x == calls[c].id
      g == requests[x].group
  IN /\ calls[c].next = "ready" /\ End(c)
     /\ told' = IF Exists(x) /\ Crosses(groups[g], requests[x].quantity)
                THEN told \cup {g} ELSE told
     /\ UNCHANGED <<requests, groups, criteria, spoiled>>

(***************************************************************************)
(* PATCH: a status, with no look at the slot a rejected request left.          *)
(***************************************************************************)
ReadPatch(c, x, patch) ==
  /\ Exists(x)
  /\ Start(c, [Idle EXCEPT !.kind = "patch", !.next = "write", !.id = x, !.row = patch])
Revives(x, status) == requests[x].status = "rejected" /\ status \in {"pending", "approved"}
UpdateRequest(c) ==
  LET x == calls[c].id
      status == calls[c].row.status
  IN /\ Writes(c, "patch") /\ Exists(x)
     /\ requests' = [requests EXCEPT ![x].status = status]
     /\ End(c)
     /\ spoiled' = IF Revives(x, status) THEN spoiled \cup {"revival"} ELSE spoiled
     /\ UNCHANGED <<groups, criteria, told>>

(***************************************************************************)
(* A customer takes a request back within a day, an administrator one that is *)
(* not rejected: the row is deleted, the count lowered from what was read.    *)
(***************************************************************************)
ReadRemove(c, x) ==
  /\ Exists(x) /\ (requests[x].fresh \/ requests[x].status # "rejected")
  /\ Start(c, [Idle EXCEPT !.kind = "remove", !.next = "write", !.id = x,
                           !.group = requests[x].group,
                           !.row.quantity = requests[x].quantity,
                           !.seen = groups[requests[x].group].ordered])
UnclampedLess(ordered, quantity) == ordered - quantity   \* mutant: no lower bound
Less(ordered, quantity) == Max({0, ordered - quantity})
RemoveRequestUncounted(c) ==   \* mutant: a rejected request is not subtracted
  LET x == calls[c].id
  IN /\ Writes(c, "remove")
     /\ requests' = [requests EXCEPT ![x] = [Unused EXCEPT !.status = "deleted"]]
     /\ IF requests[x].status = "rejected" THEN UNCHANGED <<groups, told>>
        ELSE SetOrdered(calls[c].group, Less(calls[c].seen, calls[c].row.quantity),
                        groups[calls[c].group].threshold)
     /\ End(c) /\ UNCHANGED <<criteria, spoiled>>
RemoveRequest(c) ==
  LET x == calls[c].id
  IN /\ Writes(c, "remove")
     /\ requests' = [requests EXCEPT ![x] = [Unused EXCEPT !.status = "deleted"]]
     /\ SetOrdered(calls[c].group, Less(calls[c].seen, calls[c].row.quantity),
                   groups[calls[c].group].threshold)
     /\ End(c) /\ UNCHANGED <<criteria, spoiled>>
CancelWindowEnds(x) ==
  /\ Exists(x) /\ requests[x].fresh
  /\ requests' = [requests EXCEPT ![x].fresh = FALSE]
  /\ UNCHANGED <<groups, criteria, calls, told, spoiled>>

(***************************************************************************)
(* The staff decide on all requests of a group, and undo one decision.       *)
(***************************************************************************)
UndecidedOrApproved(g) == {x \in InGroup(g) : requests[x].status # "rejected"}   \* mutant
Undecided(g) == {x \in InGroup(g) : requests[x].status = "pending"}
ReadDecide(c, x, kind) ==
  /\ kind \in {"approve", "reject"} /\ Exists(x) /\ Undecided(requests[x].group) # {}
  /\ Start(c, [Idle EXCEPT !.kind = kind, !.next = "write", !.id = x,
                           !.group = requests[x].group,
                           !.decides = Undecided(requests[x].group)])
\* The requests read are written, whatever they have become; a deleted one is not there.
Decide(c, status) ==
  /\ spoiled' = IF status = "approved" /\ \E x \in calls[c].decides : requests[x].status = "rejected"
                THEN spoiled \cup {"revival"} ELSE spoiled
  /\ requests' = [x \in Ids |-> IF x \in calls[c].decides /\ Exists(x)
                                THEN [requests[x] EXCEPT !.status = status] ELSE requests[x]]
  /\ End(c)
  /\ UNCHANGED <<criteria, told>>
ApproveOngoingGroup(c) ==
  /\ Writes(c, "approve") /\ Decide(c, "approved")
  /\ groups' = [groups EXCEPT ![calls[c].group].approved = TRUE]
RejectOngoingGroup(c) ==
  /\ Writes(c, "reject") /\ Decide(c, "rejected")
  /\ groups' = [groups EXCEPT ![calls[c].group].rejected = TRUE]

ReadUndo(c, x) ==
  /\ requests[x].status \in {"approved", "rejected"}
  /\ Start(c, [Idle EXCEPT !.kind = "undo", !.next = "write", !.id = x,
                           !.group = requests[x].group])
UndoRequest(c) ==
  LET x == calls[c].id
  IN /\ Writes(c, "undo") /\ End(c)
     /\ requests' = IF Exists(x) THEN [requests EXCEPT ![x].status = "pending"] ELSE requests
     /\ groups' = [groups EXCEPT ![calls[c].group].approved = FALSE,
                                 ![calls[c].group].rejected = FALSE]
     /\ spoiled' = IF Revives(x, "pending") THEN spoiled \cup {"revival"} ELSE spoiled
     /\ UNCHANGED <<criteria, told>>

(***************************************************************************)
(* What the pages show: whether a group is ready, to the staff from its row,   *)
(* to customers from the requests that are open.  A threshold of zero stands   *)
(* for the product's criteria there and for the number of its variants here.   *)
(***************************************************************************)
StaffThreshold(g) == IF groups[g].threshold = 0 THEN criteria ELSE groups[g].threshold
StaffReady(g) ==
  InGroup(g) # {} /\ StaffThreshold(g) > 0 /\ groups[g].ordered >= StaffThreshold(g)
Quantity == [x \in Ids |-> requests[x].quantity]
OpenItems == SumFunctionOnSet(Quantity, {x \in Ids : Open(x)})
CustomersThreshold(g) ==
  IF groups[g].threshold = 0 THEN Cardinality(Variants) ELSE groups[g].threshold
CustomersReady(g) ==
  groups[g].used /\ OpenVariants # {} /\ OpenItems >= CustomersThreshold(g)

Begins(c) ==
  \E x \in Ids :
    \/ \E row \in [status: Decisions, variant: Variants, quantity: Quantities] :
         CheckSlot(c, x, row)
    \/ \E patch \in Patch : ReadPatch(c, x, patch)
    \/ ReadRemove(c, x) \/ ReadUndo(c, x)
    \/ \E kind \in {"approve", "reject"} : ReadDecide(c, x, kind)
Goes(c) ==
  \/ FindOngoingGroup(c) \/ CreateRequest(c) \/ NotifyAdminsGroupReady(c)
  \/ UpdateRequest(c) \/ RemoveRequest(c)
  \/ ApproveOngoingGroup(c) \/ RejectOngoingGroup(c) \/ UndoRequest(c) \/ GiveUp(c)

Next == /\ Cardinality(spoiled) <= MaxCauses
        /\ \/ \E c \in Callers : Begins(c) \/ Goes(c)
           \/ \E x \in Ids : CancelWindowEnds(x)
           \/ \E n \in Criteria : UpdateProduct(n)
Spec == Init /\ [][Next]_vars

(***************************************************************************)
(* Properties.                                                             *)
(***************************************************************************)
TypeOK ==
  /\ requests \in [Ids -> Request] /\ groups \in [Groups -> Group] /\ criteria \in Criteria
  /\ calls \in [Callers -> Call] /\ told \subseteq Groups /\ spoiled \subseteq Causes

Unspoiled(causes) == spoiled \cap causes = {}

\* orderedItems is the sum of the group's requests, rejected ones included, through
\* every sequence of creations, patches, decisions, undoings and removals, the
\* decisions overlapping anything; two counting calls at once lose an update.
OrderedIsSum ==
  Unspoiled({"creates", "counts"}) =>
    \A g \in Groups : groups[g].ordered = SumFunctionOnSet(Quantity, InGroup(g))

\* A variant has one taker and no more variants are open than the product allows: creation
\* looks first, whatever removals and decisions overlap it; two at once both find the slot
\* free, and undoing a rejection, approving over one and patching its status do not look.
OneTaker ==
  Unspoiled({"creates", "revival"}) =>
    /\ \A x, y \in Ids : Open(x) /\ Open(y) /\ requests[x].variant = requests[y].variant => x = y
    /\ Cardinality(OpenVariants) <= Limit

\* When nothing is going on, the staff have been told of every group at its threshold, and
\* if customers see the product's groupage complete the staff have a group to decide on,
\* though each page adds up rows of its own and the staff raise and lower the criteria; of
\* two creations that overlap neither may see itself cross the threshold, and a threshold
\* lowered to what was ordered already, or of zero, is crossed by none.
ReadyIsTold ==
  (Unspoiled({"creates", "counts", "lowered", "death"}) /\ \A c \in Callers : calls[c] = Idle) =>
    /\ \A g \in Groups : groups[g].used /\ groups[g].ordered >= groups[g].threshold => g \in told
    /\ (\E g \in Groups : CustomersReady(g)) => \E g \in Groups : StaffReady(g)

\* A decision on a request stands until it is undone, patched or removed: deciding on
\* its group again leaves it, whatever creations and removals overlap; of two deciding
\* calls at once the later writes what it read as undecided.
DecisionStands ==
  [][\A x \in Ids :
       (/\ requests[x].status \in {"approved", "rejected"} /\ Unspoiled({"decisions"})
        /\ requests'[x].status \in Decisions \ {requests[x].status})
       => \E c \in Callers : Kind(c) \in {"undo", "patch"} /\ calls[c].id = x]_vars
=============================================================================
