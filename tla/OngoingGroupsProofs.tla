-------------------------- MODULE OngoingGroupsProofs --------------------------
(***************************************************************************)
(* What holds of groupage for every number of requests, groups and variants,  *)
(* any threshold and limit, and any number of overlapping calls.             *)
(***************************************************************************)
EXTENDS OngoingGroups, SumTheorems

(***************************************************************************)
(* What a call carries, and what every row is.                              *)
(***************************************************************************)
FullRow == [status: Decisions, variant: Variants, quantity: Quantities]
CallOK(call) ==
  /\ call.kind = "idle" => call = Idle
  /\ call.kind # "idle" => call.id \in Ids
  /\ call.kind = "create" => call.next \in {"find", "write", "ready"} /\ call.row \in FullRow
  /\ call.kind = "patch" => call.row.status \in Decisions
  /\ call.kind \notin {"idle", "create"} => call.next = "write"
  /\ call.kind \in {"remove", "approve", "reject", "undo"} => call.group \in Groups
  /\ call.kind = "remove" => call.row.quantity \in Quantities
  /\ call.group \in Groups => groups[call.group].used
CallsOK == \A c \in Callers : CallOK(calls[c])
RowOK(row) ==
  /\ row.status \in Decisions => /\ row.variant \in Variants /\ row.quantity \in Quantities
                                 /\ row.group \in Groups /\ groups[row.group].used
  /\ row.status = "unused" => row = Unused
RowsOK == \A x \in Ids : RowOK(requests[x])
UnusedEmpty == \A g \in Groups : ~groups[g].used => groups[g].ordered = 0

\* The id of a row being made is nobody else's.
Creating(c) == Kind(c) = "create" /\ calls[c].next \in {"find", "write"}
IdsApart == \A c \in Callers : Creating(c) =>
              /\ requests[calls[c].id] = Unused
              /\ \A d \in Callers \ {c} : calls[d].id # calls[c].id

Inv == TypeOK /\ CallsOK /\ RowsOK /\ UnusedEmpty /\ IdsApart

LEMMA Constants ==
  /\ Quantities \subseteq Nat \ {0} /\ MaxQuantity \in Nat /\ Criteria \subseteq Nat /\ 0 \in Criteria /\ MaxCriteria \in Nat \ {0} /\ Limit \in Nat \ {0}
  /\ None \notin Ids /\ None \notin Groups /\ None \notin Variants /\ None \notin Nat
  /\ None \notin Quantities
BY ConstantsAssumption DEF Quantities, Criteria

LEMMA IdleTyped == NoRow \in Row /\ Idle \in Call /\ Unused \in Request /\ NewGroup \in Group
BY Constants DEF NoRow, Row, Idle, Call, Unused, Request, NewGroup, Group, Kinds, Rows

LEMMA NewTyped ==
  ASSUME NEW row \in FullRow
  PROVE  row \in Row
BY DEF FullRow, Row

\* A step that leaves a group's count alone.
SameGroup(g) == /\ groups'[g].used = groups[g].used /\ groups'[g].ordered = groups[g].ordered
                /\ groups'[g].threshold = groups[g].threshold

\* A group is never given up, and its rows stay typed, while it is used.
UsedStay == \A g \in Groups : groups[g].used => groups'[g].used

LEMMA OthersOK ==
  ASSUME Inv, UsedStay, NEW c \in Callers, \A d \in Callers \ {c} : calls'[d] = calls[d],
         CallOK(calls[c])'
  PROVE  CallsOK'
BY DEF Inv, CallsOK, CallOK, UsedStay

LEMMA RowsStayOK ==
  ASSUME Inv, UsedStay, \A x \in Ids : requests'[x] = requests[x] \/ RowOK(requests[x])'
  PROVE  RowsOK'
BY DEF Inv, RowsOK, RowOK, UsedStay

LEMMA InitInv == Init => Inv
<1> SUFFICES ASSUME Init PROVE Inv
  OBVIOUS
<1>1. TypeOK
  BY IdleTyped DEF Init, TypeOK, NewGroup, Group
<1>2. CallsOK
  BY Constants DEF Init, CallsOK, CallOK, Idle
<1>3. RowsOK
  BY DEF Init, RowsOK, RowOK, Unused, Decisions
<1>4. UnusedEmpty /\ IdsApart
  BY DEF Init, UnusedEmpty, NewGroup, IdsApart, Creating, Kind, Idle
<1> QED  BY <1>1, <1>2, <1>3, <1>4 DEF Inv

(***************************************************************************)
(* Calls that begin.                                                       *)
(***************************************************************************)
LEMMA AtTyped == \A k, l : At(k, l) \subseteq Causes
BY DEF At, Causes

LEMMA StartInv ==
  ASSUME Inv, NEW c \in Callers, NEW call \in Call, Start(c, call), CallOK(call), call.kind # "idle",
         \/ /\ call.kind = "create" /\ requests[call.id] = Unused
            /\ \A d \in Callers : calls[d].id # call.id
         \/ call.kind # "create" /\ Exists(call.id)
  PROVE  Inv'
<1>1. /\ calls[c] = Idle /\ calls' = [calls EXCEPT ![c] = call] /\ UNCHANGED <<requests, groups, criteria, told>>
      /\ calls'[c] = call /\ \A d \in Callers \ {c} : calls'[d] = calls[d]
      /\ spoiled' \subseteq Causes
  BY AtTyped DEF Start, Inv, TypeOK
<1>2. TypeOK'
  BY <1>1 DEF Inv, TypeOK
<1>3. CallsOK' /\ RowsOK' /\ UnusedEmpty'
  BY <1>1 DEF Inv, CallsOK, CallOK, RowsOK, RowOK, UnusedEmpty
<1>4. IdsApart'
  <2>1. ~Exists(call.id) <=> requests[call.id] = Unused \/ requests[call.id].status \notin Decisions
    BY DEF Exists, Unused, Decisions
  <2>2. ASSUME NEW d \in Callers \ {c}, Creating(d) PROVE calls[d].id # call.id
    BY <2>1, <2>2 DEF Inv, IdsApart
  <2>3. \A d \in Callers \ {c} : Creating(d)' <=> Creating(d)
    BY <1>1 DEF Creating, Kind
  <2>4. \A d \in Callers \ {c} : Creating(d)' =>
          requests'[calls'[d].id] = Unused /\ \A e \in Callers \ {d} : calls'[e].id # calls'[d].id
    BY <1>1, <2>2, <2>3 DEF Inv, IdsApart
  <2>5. Creating(c)' =>
          requests'[calls'[c].id] = Unused /\ \A e \in Callers \ {c} : calls'[e].id # calls'[c].id
    BY <1>1 DEF Creating, Kind
  <2> QED  BY <2>4, <2>5 DEF IdsApart
<1> QED  BY <1>2, <1>3, <1>4 DEF Inv

LEMMA BeginsInv ==
  ASSUME Inv, NEW c \in Callers, Begins(c)
  PROVE  Inv'
<1>0. PICK x \in Ids :
        \/ \E row \in FullRow : CheckSlot(c, x, row)
        \/ \E patch \in Patch : ReadPatch(c, x, patch)
        \/ ReadRemove(c, x) \/ ReadUndo(c, x)
        \/ \E kind \in {"approve", "reject"} : ReadDecide(c, x, kind)
  BY DEF Begins, FullRow
<1>1. ASSUME NEW row \in FullRow, CheckSlot(c, x, row)
      PROVE  Inv'
  <2> DEFINE call == [Idle EXCEPT !.kind = "create", !.next = "find", !.id = x, !.row = row]
  <2>1. call \in Call /\ CallOK(call) /\ call.kind = "create" /\ call.id = x
    BY NewTyped, IdleTyped, Constants DEF Idle, Call, Kinds, CallOK
  <2> HIDE DEF call
  <2> QED  BY <1>1, <2>1, StartInv DEF CheckSlot, call
<1>2. ASSUME NEW patch \in Patch, ReadPatch(c, x, patch)
      PROVE  Inv'
  <2> DEFINE call == [Idle EXCEPT !.kind = "patch", !.next = "write", !.id = x, !.row = patch]
  <2>1. call \in Call /\ CallOK(call) /\ call.kind = "patch" /\ call.id = x
    <3>1. patch \in Row /\ patch.status \in Decisions
      BY DEF Patch, Row
    <3> QED  BY <3>1, IdleTyped, Constants DEF Idle, Call, Kinds, CallOK
  <2> HIDE DEF call
  <2> QED  BY <1>2, <2>1, StartInv DEF ReadPatch, call
<1>3. Exists(x) => /\ requests[x].group \in Groups /\ groups[requests[x].group].used
                   /\ requests[x].quantity \in Quantities
                   /\ groups[requests[x].group].ordered \in Nat
  BY DEF Inv, TypeOK, RowsOK, RowOK, Exists, Group
<1>4. CASE ReadRemove(c, x)
  <2> DEFINE call == [Idle EXCEPT !.kind = "remove", !.next = "write", !.id = x,
                                  !.group = requests[x].group,
                                  !.row.quantity = requests[x].quantity,
                                  !.seen = groups[requests[x].group].ordered]
  <2>1. call \in Call /\ CallOK(call) /\ call.kind = "remove" /\ call.id = x
    BY <1>3, <1>4, IdleTyped, Constants DEF ReadRemove, Idle, Call, Kinds, CallOK, NoRow, Row
  <2> HIDE DEF call
  <2> QED  BY <1>4, <2>1, StartInv DEF ReadRemove, call
<1>5. CASE ReadUndo(c, x)
  <2> DEFINE call == [Idle EXCEPT !.kind = "undo", !.next = "write", !.id = x, !.group = requests[x].group]
  <2>1. call \in Call /\ CallOK(call) /\ call.kind = "undo" /\ call.id = x /\ Exists(x)
    BY <1>3, <1>5, IdleTyped, Constants DEF ReadUndo, Exists, Decisions, Idle, Call, Kinds, CallOK
  <2> HIDE DEF call
  <2> QED  BY <1>5, <2>1, StartInv DEF ReadUndo, call
<1>6. ASSUME NEW kind \in {"approve", "reject"}, ReadDecide(c, x, kind)
      PROVE  Inv'
  <2> DEFINE call == [Idle EXCEPT !.kind = kind, !.next = "write", !.id = x, !.group = requests[x].group,
                                  !.decides = Undecided(requests[x].group)]
  <2>1. call \in Call /\ CallOK(call) /\ call.kind = kind /\ call.id = x
    BY <1>3, <1>6, IdleTyped, Constants DEF ReadDecide, Idle, Call, Kinds, CallOK, Undecided, InGroup
  <2> HIDE DEF call
  <2> QED  BY <1>6, <2>1, StartInv DEF ReadDecide, call
<1> QED  BY <1>0, <1>1, <1>2, <1>4, <1>5, <1>6

(***************************************************************************)
(* Calls that go on.                                                       *)
(***************************************************************************)
\* What is Unused is not taken from under the call that is about to use it.
LEMMA ApartStays ==
  ASSUME Inv, NEW c \in Callers, \A d \in Callers \ {c} : calls'[d] = calls[d],
         \A x \in Ids : requests'[x] # requests[x] => Exists(x) \/ x = calls[c].id,
         \/ calls'[c] = Idle
         \/ /\ calls'[c].id = calls[c].id
            /\ Creating(c)' => Creating(c) /\ requests'[calls[c].id] = Unused
  PROVE  IdsApart'
<1>1. \A d \in Callers : Creating(d) => calls[d].id \in Ids
  BY DEF Inv, CallsOK, CallOK, Creating, Kind
<1>2. ~Exists(calls[c].id) \/ requests[calls[c].id] # Unused
  BY DEF Exists, Unused, Decisions
<1>3. \A d \in Callers \ {c} : Creating(d)' <=> Creating(d)
  BY DEF Creating, Kind
<1>4. ~Creating(c)' \/ calls'[c].id = calls[c].id
  BY DEF Creating, Kind, Idle
<1>5. \A d \in Callers \ {c} : Creating(d) => requests'[calls[d].id] = Unused
  <2> SUFFICES ASSUME NEW d \in Callers \ {c}, Creating(d) PROVE requests'[calls[d].id] = Unused
    OBVIOUS
  <2>1. requests[calls[d].id] = Unused /\ calls[d].id # calls[c].id /\ calls[d].id \in Ids
    BY <1>1 DEF Inv, IdsApart
  <2>2. ~Exists(calls[d].id)
    BY <2>1 DEF Exists, Unused, Decisions
  <2> QED  BY <2>1, <2>2
<1>6. \A d \in Callers : Creating(d) => None # calls[d].id
  BY <1>1, Constants
<1>7. Idle.id = None
  BY DEF Idle
<1>8. ASSUME NEW d \in Callers, Creating(d)'
      PROVE  requests'[calls'[d].id] = Unused /\ \A e \in Callers \ {d} : calls'[e].id # calls'[d].id
  <2>1. CASE d = c
    BY <1>4, <1>8, <2>1 DEF Inv, IdsApart, Creating, Kind, Idle
  <2>2. CASE d # c
    BY <1>3, <1>5, <1>6, <1>7, <1>8, <2>2 DEF Inv, IdsApart
  <2> QED  BY <2>1, <2>2
<1> QED  BY <1>8 DEF IdsApart

\* A call that ends.
LEMMA EndOK ==
  ASSUME Inv, NEW c \in Callers, End(c)
  PROVE  /\ calls'[c] = Idle /\ \A d \in Callers \ {c} : calls'[d] = calls[d]
         /\ calls' \in [Callers -> Call] /\ CallOK(calls[c])'
BY IdleTyped, Constants DEF End, Inv, TypeOK, CallOK, Idle

LEMMA QuietEndInv ==
  ASSUME Inv, NEW c \in Callers, End(c), UNCHANGED <<requests, groups, criteria>>, told' \subseteq Groups,
         spoiled' \subseteq Causes
  PROVE  Inv'
<1>1. TypeOK' /\ UsedStay /\ RowsOK' /\ UnusedEmpty'
  BY EndOK DEF Inv, TypeOK, UsedStay, RowsOK, RowOK, UnusedEmpty
<1>2. CallsOK' /\ IdsApart'
  BY <1>1, EndOK, OthersOK, ApartStays
<1> QED  BY <1>1, <1>2 DEF Inv

LEMMA FindInv ==
  ASSUME Inv, NEW c \in Callers, FindOngoingGroup(c)
  PROVE  Inv'
<1>1. PICK g \in Groups \cup {None} :
        /\ g = None \/ groups[g].used
        /\ calls' = [calls EXCEPT ![c].next = "write", ![c].group = g,
                                  ![c].seen = IF g = None THEN 0 ELSE groups[g].ordered,
                                  ![c].threshold = criteria]
  BY DEF FindOngoingGroup
<1>2. /\ UNCHANGED <<requests, groups, criteria, told, spoiled>> /\ Kind(c) = "create" /\ calls[c].next = "find"
      /\ calls[c] \in Call /\ CallOK(calls[c])
  BY DEF FindOngoingGroup, Inv, TypeOK, CallsOK
<1>3. /\ calls'[c].kind = "create" /\ calls'[c].next = "write" /\ calls'[c].id = calls[c].id
      /\ calls'[c].row = calls[c].row /\ calls'[c].group = g
      /\ \A d \in Callers \ {c} : calls'[d] = calls[d]
      /\ calls' \in [Callers -> Call]
  <2>1. g \in Groups => groups[g].ordered \in Nat
    BY DEF Inv, TypeOK, Group
  <2> QED  BY <1>1, <1>2, <2>1 DEF Inv, TypeOK, Call, Kind
<1>4. CallOK(calls[c])'
  BY <1>1, <1>2, <1>3, Constants DEF CallOK, Kind
<1>5. TypeOK' /\ UsedStay /\ RowsOK' /\ UnusedEmpty'
  BY <1>2, <1>3 DEF Inv, TypeOK, UsedStay, RowsOK, RowOK, UnusedEmpty
<1>6. CallsOK'
  BY <1>3, <1>4, <1>5, OthersOK
<1>7. IdsApart'
  BY <1>2, <1>3, ApartStays DEF Creating, Kind, Inv, IdsApart
<1> QED  BY <1>5, <1>6, <1>7 DEF Inv

\* A count is written: the group is used from then on.
LEMMA SetOrderedIs ==
  ASSUME Inv, NEW g \in Groups, NEW n \in Nat, NEW t \in Criteria, SetOrdered(g, n, t)
  PROVE  /\ groups'[g].ordered = n /\ groups'[g].used /\ groups'[g].threshold = t
         /\ groups'[g].approved = groups[g].approved /\ groups'[g].rejected = groups[g].rejected
         /\ \A h \in Groups \ {g} : groups'[h] = groups[h]
         /\ groups' \in [Groups -> Group] /\ told' = {h \in told : groups'[h].ordered >= groups'[h].threshold}
         /\ told' \subseteq Groups /\ UsedStay
<1>1. /\ groups' = [groups EXCEPT ![g].ordered = n, ![g].threshold = t, ![g].used = TRUE]
      /\ groups[g] \in Group
  BY DEF SetOrdered, Inv, TypeOK
<1>2. /\ groups'[g].ordered = n /\ groups'[g].used /\ groups'[g].threshold = t
      /\ groups'[g].approved = groups[g].approved /\ groups'[g].rejected = groups[g].rejected
      /\ \A h \in Groups \ {g} : groups'[h] = groups[h] /\ groups' \in [Groups -> Group]
  BY <1>1 DEF Inv, TypeOK, Group
<1>3. groups' \in [Groups -> Group]
  BY <1>1 DEF Inv, TypeOK, Group
<1> QED  BY <1>2, <1>3 DEF SetOrdered, StillReady, UsedStay, Inv, TypeOK

LEMMA CreateCarries ==
  ASSUME Inv, NEW c \in Callers, CreateRequest(c)
  PROVE  \E g \in Groups :
           /\ \/ g = calls[c].group
              \/ calls[c].group = None /\ ~groups[g].used
           /\ SetOrdered(g, calls[c].seen + calls[c].row.quantity, calls[c].threshold)
           /\ calls[c].seen + calls[c].row.quantity \in Nat
           /\ requests' = [requests EXCEPT ![calls[c].id] =
                [status |-> calls[c].row.status, variant |-> calls[c].row.variant,
                 quantity |-> calls[c].row.quantity, group |-> g, fresh |-> TRUE]]
           /\ calls' = [calls EXCEPT ![c].next = "ready", ![c].group = g]
           /\ calls'[c].kind = "create" /\ calls'[c].next = "ready" /\ calls'[c].group = g
           /\ calls'[c].id = calls[c].id /\ calls'[c].row = calls[c].row
           /\ \A d \in Callers \ {c} : calls'[d] = calls[d]
           /\ calls' \in [Callers -> Call]
           /\ Creating(c) /\ calls[c].id \in Ids /\ calls[c].row \in FullRow
           /\ calls[c].threshold \in Criteria
           /\ spoiled' = IF Uncrossed(g, calls[c].threshold) THEN spoiled \cup {"lowered"} ELSE spoiled
<1>1. /\ Kind(c) = "create" /\ calls[c].next = "write" /\ calls[c] \in Call /\ CallOK(calls[c])
  BY DEF CreateRequest, Writes, Inv, TypeOK, CallsOK
<1>2. /\ calls[c].id \in Ids /\ calls[c].row \in FullRow /\ Creating(c)
      /\ calls[c].seen \in Nat /\ calls[c].group \in Groups \cup {None}
      /\ calls[c].threshold \in Criteria
  BY <1>1 DEF CallOK, Kind, Call, Creating
<1>3. calls[c].seen + calls[c].row.quantity \in Nat
  <2>1. calls[c].row.quantity \in Quantities /\ calls[c].row.quantity \in Nat
    BY <1>2, Constants DEF FullRow
  <2> QED  BY <1>2, <2>1
<1>4. PICK g \in IF calls[c].group = None THEN {h \in Groups : ~groups[h].used} ELSE {calls[c].group} :
          /\ SetOrdered(g, calls[c].seen + calls[c].row.quantity, calls[c].threshold)
          /\ requests' = [requests EXCEPT ![calls[c].id] =
               [status |-> calls[c].row.status, variant |-> calls[c].row.variant,
                quantity |-> calls[c].row.quantity, group |-> g, fresh |-> TRUE]]
          /\ calls' = [calls EXCEPT ![c].next = "ready", ![c].group = g]
          /\ spoiled' = IF Uncrossed(g, calls[c].threshold) THEN spoiled \cup {"lowered"} ELSE spoiled
  BY DEF CreateRequest
<1>5. /\ g \in Groups
      /\ \/ g = calls[c].group
         \/ calls[c].group = None /\ ~groups[g].used
  BY <1>2, <1>4
<1>6. /\ calls'[c].kind = "create" /\ calls'[c].next = "ready" /\ calls'[c].group = g
      /\ calls'[c].id = calls[c].id /\ calls'[c].row = calls[c].row
      /\ \A d \in Callers \ {c} : calls'[d] = calls[d]
      /\ calls' \in [Callers -> Call]
  BY <1>1, <1>4, <1>5 DEF Inv, TypeOK, Call, Kind
<1> QED  BY <1>2, <1>3, <1>4, <1>5, <1>6

LEMMA CreateInv ==
  ASSUME Inv, NEW c \in Callers, CreateRequest(c)
  PROVE  Inv'
<1> DEFINE n == calls[c].seen + calls[c].row.quantity
<1>0. PICK x : x = calls[c].id
  OBVIOUS
<1>1. PICK g \in Groups :
        /\ SetOrdered(g, n, calls[c].threshold) /\ n \in Nat /\ calls[c].threshold \in Criteria
        /\ requests' = [requests EXCEPT ![x] =
             [status |-> calls[c].row.status, variant |-> calls[c].row.variant,
              quantity |-> calls[c].row.quantity, group |-> g, fresh |-> TRUE]]
        /\ calls'[c].kind = "create" /\ calls'[c].next = "ready" /\ calls'[c].group = g
        /\ calls'[c].id = calls[c].id /\ calls'[c].row = calls[c].row
        /\ \A d \in Callers \ {c} : calls'[d] = calls[d]
        /\ calls' \in [Callers -> Call]
        /\ Creating(c) /\ x \in Ids /\ calls[c].row \in FullRow
  BY <1>0, CreateCarries
<1> HIDE DEF n
<1>2. /\ groups' \in [Groups -> Group] /\ groups'[g].used /\ UsedStay /\ told' \subseteq Groups
      /\ \A h \in Groups \ {g} : groups'[h] = groups[h]
  BY <1>1, SetOrderedIs
<1>3. /\ requests'[x].variant \in Variants /\ requests'[x].quantity \in Quantities
      /\ requests'[x].group = g /\ requests'[x].status \in Decisions /\ requests'[x].status # "unused"
      /\ requests'[x] \in Request /\ \A y \in Ids \ {x} : requests'[y] = requests[y]
  BY <1>1 DEF Inv, TypeOK, FullRow, Request, Rows, Decisions
<1>4. TypeOK'
  <2>1. requests' \in [Ids -> Request]
    BY <1>1, <1>3 DEF Inv, TypeOK
  <2>2. spoiled' \subseteq Causes /\ criteria' = criteria
    BY DEF CreateRequest, Inv, TypeOK, Causes
  <2> QED  BY <1>1, <1>2, <2>1, <2>2 DEF Inv, TypeOK
<1>5. CallsOK'
  <2>1. CallOK(calls[c])'
    BY <1>0, <1>1, <1>2 DEF CallOK
  <2> QED  BY <1>1, <1>2, <2>1, OthersOK
<1>6. RowsOK'
  <2>1. RowOK(requests[x])'
    BY <1>2, <1>3 DEF RowOK
  <2> QED  BY <1>1, <1>2, <1>3, <2>1, RowsStayOK
<1>7. UnusedEmpty'
  BY <1>2 DEF Inv, UnusedEmpty
<1>8. IdsApart'
  BY <1>0, <1>1, <1>3, ApartStays DEF Creating, Kind
<1> QED  BY <1>4, <1>5, <1>6, <1>7, <1>8 DEF Inv

LEMMA NotifyInv ==
  ASSUME Inv, NEW c \in Callers, NotifyAdminsGroupReady(c)
  PROVE  Inv'
<1>1. calls[c].id \in Ids
  BY DEF NotifyAdminsGroupReady, Inv, CallsOK, CallOK, Idle
<1>2. told' \subseteq Groups
  BY <1>1 DEF NotifyAdminsGroupReady, Inv, TypeOK, RowsOK, RowOK, Exists
<1> QED  BY <1>2, QuietEndInv DEF NotifyAdminsGroupReady, Inv, TypeOK

LEMMA GiveUpInv ==
  ASSUME Inv, NEW c \in Callers, GiveUp(c)
  PROVE  Inv'
BY QuietEndInv DEF GiveUp, Inv, TypeOK, Causes

\* Rows that exist are rewritten, each with its group.
LEMMA RewriteInv ==
  ASSUME Inv, NEW c \in Callers, End(c), requests' \in [Ids -> Request],
         \A x \in Ids : requests'[x] # requests[x] => Exists(x) /\ RowOK(requests[x])',
         groups' \in [Groups -> Group],
         \A g \in Groups : SameGroup(g),
         UNCHANGED <<criteria, told>>, spoiled' \subseteq Causes
  PROVE  Inv'
<1>1. TypeOK' /\ UsedStay
  BY EndOK DEF Inv, TypeOK, UsedStay, SameGroup
<1>2. RowsOK' /\ UnusedEmpty'
  BY <1>1, RowsStayOK DEF Inv, UnusedEmpty, SameGroup
<1>3. CallsOK' /\ IdsApart'
  BY <1>1, EndOK, OthersOK, ApartStays
<1> QED  BY <1>1, <1>2, <1>3 DEF Inv

LEMMA LessIs ==
  ASSUME NEW n \in Nat, NEW q \in Nat
  PROVE  Less(n, q) = IF n >= q THEN n - q ELSE 0
<1> DEFINE S == {0, n - q}
           m == IF n >= q THEN n - q ELSE 0
<1>1. m \in S /\ \A y \in S : m >= y
  OBVIOUS
<1>2. \A z \in S : (\A y \in S : z >= y) => z = m
  OBVIOUS
<1>3. Max(S) = m
  <2> HIDE DEF m, S
  <2> QED  BY <1>1, <1>2 DEF Max
<1> QED  BY <1>3 DEF Less

\* What a removal writes.
LEMMA RemoveCarries ==
  ASSUME Inv, NEW c \in Callers, Writes(c, "remove")
  PROVE  /\ calls[c].id \in Ids /\ calls[c].group \in Groups /\ groups[calls[c].group].used
         /\ calls[c].row.quantity \in Quantities /\ calls[c].seen \in Nat
         /\ calls[c].row.quantity \in Nat
         /\ Less(calls[c].seen, calls[c].row.quantity) \in Nat
<1>1. calls[c] \in Call /\ CallOK(calls[c]) /\ calls[c].kind = "remove"
  BY DEF Inv, TypeOK, CallsOK, Writes, Kind
<1>2. /\ calls[c].id \in Ids /\ calls[c].group \in Groups /\ groups[calls[c].group].used
      /\ calls[c].row.quantity \in Quantities /\ calls[c].seen \in Nat
  BY <1>1 DEF CallOK, Call
<1>3. calls[c].row.quantity \in Nat
  BY <1>2, Constants
<1>4. calls[c].seen >= calls[c].row.quantity => calls[c].seen - calls[c].row.quantity \in Nat
  BY <1>2, <1>3
<1> QED  BY <1>2, <1>3, <1>4, LessIs

LEMMA RemoveInv ==
  ASSUME Inv, NEW c \in Callers, RemoveRequest(c)
  PROVE  Inv'
<1>0. PICK x, g, n : x = calls[c].id /\ g = calls[c].group /\ n = Less(calls[c].seen, calls[c].row.quantity)
  OBVIOUS
<1>1. /\ requests' = [requests EXCEPT ![x] = [Unused EXCEPT !.status = "deleted"]]
      /\ SetOrdered(g, n, groups[g].threshold) /\ End(c) /\ UNCHANGED <<criteria, spoiled>>
      /\ Writes(c, "remove")
  BY <1>0 DEF RemoveRequest
<1>2. x \in Ids /\ g \in Groups /\ n \in Nat /\ groups[g].threshold \in Criteria
  BY <1>0, <1>1, RemoveCarries DEF Inv, TypeOK, Group
<1>3. /\ groups' \in [Groups -> Group] /\ UsedStay /\ told' \subseteq Groups /\ groups'[g].used
      /\ \A h \in Groups \ {g} : groups'[h] = groups[h]
  BY <1>1, <1>2, SetOrderedIs
<1>4. /\ requests'[x].status = "deleted" /\ \A y \in Ids \ {x} : requests'[y] = requests[y]
      /\ requests' \in [Ids -> Request]
  BY <1>1, <1>2, IdleTyped DEF Inv, TypeOK, Unused, Request, Rows
<1>5. TypeOK'
  BY <1>1, <1>3, <1>4, EndOK DEF Inv, TypeOK
<1>6. RowsOK'
  <2>1. RowOK(requests[x])'
    BY <1>4 DEF RowOK, Decisions
  <2> QED  BY <1>3, <1>4, <2>1, RowsStayOK
<1>7. UnusedEmpty'
  BY <1>3 DEF Inv, UnusedEmpty
<1>8. CallsOK' /\ IdsApart'
  BY <1>0, <1>1, <1>3, <1>4, EndOK, OthersOK, ApartStays
<1> QED  BY <1>5, <1>6, <1>7, <1>8 DEF Inv

\* Rewriting the status of rows that exist.
LEMMA StatusInv ==
  ASSUME Inv, NEW c \in Callers, End(c), NEW S \in SUBSET Ids, NEW status \in Decisions,
         requests' = [x \in Ids |-> IF x \in S /\ Exists(x)
                                    THEN [requests[x] EXCEPT !.status = status] ELSE requests[x]],
         groups' \in [Groups -> Group],
         \A g \in Groups : SameGroup(g),
         UNCHANGED <<criteria, told>>, spoiled' \subseteq Causes
  PROVE  Inv'
<1>1. ASSUME NEW x \in Ids, x \in S, Exists(x)
      PROVE  RowOK(requests[x])' /\ requests'[x] \in Request
  <2>1. requests[x] \in Request /\ RowOK(requests[x]) /\ requests'[x] = [requests[x] EXCEPT !.status = status]
    BY <1>1 DEF Inv, TypeOK, RowsOK
  <2>2. /\ requests'[x] \in Request /\ requests'[x].status = status
        /\ requests'[x].group = requests[x].group /\ requests'[x].variant = requests[x].variant
        /\ requests'[x].quantity = requests[x].quantity
    BY <2>1 DEF Request, Rows
  <2> QED  BY <1>1, <2>1, <2>2 DEF RowOK, Exists, Decisions, SameGroup, Inv, TypeOK
<1>2. \A x \in Ids : ~(x \in S /\ Exists(x)) => requests'[x] = requests[x] /\ requests[x] \in Request
  BY DEF Inv, TypeOK
<1>3. requests' \in [Ids -> Request]
  BY <1>1, <1>2
<1> QED  BY <1>1, <1>2, <1>3, RewriteInv

LEMMA DecidesInv ==
  ASSUME Inv, NEW c \in Callers, ApproveOngoingGroup(c) \/ RejectOngoingGroup(c)
  PROVE  Inv'
<1>1. PICK status \in {"approved", "rejected"} :
        /\ Decide(c, status)
        /\ \/ groups' = [groups EXCEPT ![calls[c].group].approved = TRUE]
           \/ groups' = [groups EXCEPT ![calls[c].group].rejected = TRUE]
        /\ Kind(c) \in {"approve", "reject"}
  BY DEF ApproveOngoingGroup, RejectOngoingGroup, Writes
<1>2. calls[c].decides \in SUBSET Ids /\ calls[c].group \in Groups
  BY <1>1 DEF Inv, TypeOK, Call, CallsOK, CallOK, Kind
<1>3. /\ groups' \in [Groups -> Group]
      /\ \A g \in Groups : SameGroup(g)
  <2>1. groups \in [Groups -> Group]
    BY DEF Inv, TypeOK
  <2>2. CASE groups' = [groups EXCEPT ![calls[c].group].approved = TRUE]
    BY <1>2, <2>1, <2>2 DEF Group, SameGroup
  <2>3. CASE groups' = [groups EXCEPT ![calls[c].group].rejected = TRUE]
    BY <1>2, <2>1, <2>3 DEF Group, SameGroup
  <2> QED  BY <1>1, <2>2, <2>3
<1>4. /\ End(c) /\ UNCHANGED <<criteria, told>> /\ spoiled' \subseteq Causes
      /\ requests' = [x \in Ids |-> IF x \in calls[c].decides /\ Exists(x)
                                    THEN [requests[x] EXCEPT !.status = status] ELSE requests[x]]
  BY <1>1 DEF Decide, Inv, TypeOK, Causes
<1>5. status \in Decisions
  BY DEF Decisions
<1> QED  BY <1>2, <1>3, <1>4, <1>5, StatusInv

LEMMA UndoInv ==
  ASSUME Inv, NEW c \in Callers, UndoRequest(c)
  PROVE  Inv'
<1>1. calls[c].id \in Ids /\ calls[c].group \in Groups
  BY DEF UndoRequest, Writes, Inv, CallsOK, CallOK, Kind
<1>2. /\ groups' \in [Groups -> Group]
      /\ \A g \in Groups : SameGroup(g)
  BY <1>1 DEF UndoRequest, Inv, TypeOK, Group, SameGroup
<1>3. requests' = [x \in Ids |-> IF x \in {calls[c].id} /\ Exists(x)
                                 THEN [requests[x] EXCEPT !.status = "pending"] ELSE requests[x]]
  BY <1>1 DEF UndoRequest, Inv, TypeOK
<1>4. "pending" \in Decisions /\ {calls[c].id} \in SUBSET Ids
  BY <1>1 DEF Decisions
<1>5. End(c) /\ UNCHANGED <<criteria, told>> /\ spoiled' \subseteq Causes
  BY DEF UndoRequest, Inv, TypeOK, Causes
<1> QED  BY <1>2, <1>3, <1>4, <1>5, StatusInv

LEMMA UpdateInv ==
  ASSUME Inv, NEW c \in Callers, UpdateRequest(c)
  PROVE  Inv'
<1> PICK status, S : status = calls[c].row.status /\ S = {calls[c].id}
  OBVIOUS
<1>1. calls[c].id \in Ids /\ status \in Decisions
  BY DEF UpdateRequest, Writes, Inv, CallsOK, CallOK, Kind
<1>2. requests' = [x \in Ids |-> IF x \in S /\ Exists(x)
                                 THEN [requests[x] EXCEPT !.status = status] ELSE requests[x]]
  BY <1>1 DEF UpdateRequest, Inv, TypeOK
<1>3. /\ End(c) /\ UNCHANGED <<criteria, told>> /\ spoiled' \subseteq Causes /\ S \in SUBSET Ids
      /\ groups' \in [Groups -> Group] /\ \A g \in Groups : SameGroup(g)
  BY <1>1 DEF UpdateRequest, Inv, TypeOK, Causes, SameGroup
<1> QED  BY <1>1, <1>2, <1>3, StatusInv

LEMMA CancelWindowInv ==
  ASSUME Inv, NEW x \in Ids, CancelWindowEnds(x)
  PROVE  Inv'
<1>1. /\ requests' = [requests EXCEPT ![x].fresh = FALSE] /\ Exists(x) /\ requests[x] \in Request
      /\ UNCHANGED <<groups, criteria, calls, told, spoiled>>
  BY DEF CancelWindowEnds, Inv, TypeOK
<1>2. /\ requests'[x] \in Request /\ requests'[x].status = requests[x].status
      /\ requests'[x].group = requests[x].group /\ requests'[x].variant = requests[x].variant
      /\ requests'[x].quantity = requests[x].quantity
      /\ \A y \in Ids \ {x} : requests'[y] = requests[y]
  BY <1>1 DEF Inv, TypeOK, Request
<1>3. TypeOK'
  BY <1>1, <1>2 DEF Inv, TypeOK
<1>4. UsedStay /\ UnusedEmpty' /\ CallsOK'
  BY <1>1 DEF Inv, UsedStay, UnusedEmpty, CallsOK, CallOK
<1>5. RowOK(requests[x])'
  BY <1>1, <1>2 DEF Inv, RowsOK, RowOK, Exists, Decisions
<1>6. RowsOK'
  BY <1>2, <1>4, <1>5, RowsStayOK
<1>7. IdsApart'
  <2>1. requests[x] # Unused
    BY <1>1 DEF Exists, Unused, Decisions
  <2>2. ASSUME NEW d \in Callers, Creating(d)'
        PROVE  requests'[calls[d].id] = Unused /\ \A e \in Callers \ {d} : calls[e].id # calls[d].id
    <3>1. Creating(d) /\ calls[d].id \in Ids
      BY <1>1, <2>2 DEF Creating, Kind, Inv, CallsOK, CallOK
    <3>2. requests[calls[d].id] = Unused /\ calls[d].id # x
      BY <2>1, <3>1 DEF Inv, IdsApart
    <3> QED  BY <1>2, <3>1, <3>2 DEF Inv, IdsApart
  <2> QED  BY <1>1, <2>2 DEF IdsApart
<1> QED  BY <1>3, <1>4, <1>6, <1>7 DEF Inv

LEMMA GoesInv ==
  ASSUME Inv, NEW c \in Callers, Goes(c)
  PROVE  Inv'
BY FindInv, CreateInv, NotifyInv, UpdateInv, RemoveInv, DecidesInv, UndoInv, GiveUpInv DEF Goes

LEMMA ProductInv ==
  ASSUME Inv, NEW n \in Criteria, UpdateProduct(n)
  PROVE  Inv'
BY DEF UpdateProduct, Inv, TypeOK, CallsOK, CallOK, RowsOK, RowOK, UnusedEmpty, IdsApart, Creating, Kind

LEMMA NextInv == Inv /\ [Next]_vars => Inv'
<1> SUFFICES ASSUME Inv, [Next]_vars PROVE Inv'
  OBVIOUS
<1>1. CASE UNCHANGED vars
  BY <1>1 DEF vars, Inv, TypeOK, CallsOK, CallOK, RowsOK, RowOK, UnusedEmpty, IdsApart, Creating, Kind
<1>2. CASE Next
  BY <1>2, BeginsInv, GoesInv, CancelWindowInv, ProductInv DEF Next
<1> QED  BY <1>1, <1>2

LEMMA Invariance == Spec => []Inv
BY InitInv, NextInv, PTL DEF Spec

\* Every variable keeps its type: in particular a group's count of ordered items never
\* falls below zero, whatever calls overlap, lose updates of it or die.
THEOREM TypeCorrect == Spec => []TypeOK
<1>1. Inv => TypeOK
  BY DEF Inv
<1> QED  BY <1>1, Invariance, PTL

(***************************************************************************)
(* Which calls overlap: while the causes that overlapping would leave are not  *)
(* there, at most one call of the kinds is in progress.                       *)
(***************************************************************************)
Alone(kinds, causes) ==
  Unspoiled(causes) => \A c, d \in Callers : Kind(c) \in kinds /\ Kind(d) \in kinds => c = d
AllAlone ==
  /\ Alone(Counting, {"creates", "counts"})
  /\ Alone({"create"}, {"creates"})
  /\ Alone(Deciding, {"decisions"})

LEMMA CountingAt == \A k, l \in Counting : At(k, l) \cap {"creates", "counts"} # {}
<1> SUFFICES ASSUME NEW k \in Counting, NEW l \in Counting PROVE At(k, l) \cap {"creates", "counts"} # {}
  OBVIOUS
<1>1. {k, l} \subseteq Counting
  OBVIOUS
<1>2. At(k, l) = {"creates"} \/ At(k, l) = {"counts"}
  BY <1>1 DEF At
<1> QED  BY <1>2

LEMMA CreatingAt == \A k, l \in {"create"} : At(k, l) \cap {"creates"} # {}
<1>1. At("create", "create") = {"creates"}
  BY DEF At
<1> QED  BY <1>1

LEMMA DecidingAt == \A k, l \in Deciding : At(k, l) \cap {"decisions"} # {}
<1> SUFFICES ASSUME NEW k \in Deciding, NEW l \in Deciding PROVE At(k, l) \cap {"decisions"} # {}
  OBVIOUS
<1>1. k # "create" /\ k # "remove" /\ {k, l} \subseteq Deciding
  BY DEF Deciding
<1>2. {k, l} # {"create"} /\ ~({k, l} \subseteq Counting)
  BY <1>1 DEF Counting
<1> QED  BY <1>1, <1>2 DEF At

\* What a step does to the kinds of calls and to the causes.
\* What a call that begins has read.
Reads(call) ==
  /\ call.next \in {"find", "write"} /\ call.kind # "idle"
  /\ call.kind = "create" => /\ call.next = "find"
                             /\ SlotFree(call.row.variant) /\ CanOpen(call.row.variant)
  /\ call.kind \in {"approve", "reject"} => \A x \in call.decides : requests[x].status = "pending"
  /\ call.kind = "remove" => /\ Exists(call.id) /\ call.group = requests[call.id].group
                             /\ call.row.quantity = requests[call.id].quantity
                             /\ call.seen = groups[call.group].ordered
LEMMA BeginsReads ==
  ASSUME NEW c \in Callers, Begins(c)
  PROVE  \E call : Start(c, call) /\ Reads(call)
<1>0. PICK x \in Ids :
        \/ \E row \in FullRow : CheckSlot(c, x, row)
        \/ \E patch \in Patch : ReadPatch(c, x, patch)
        \/ ReadRemove(c, x) \/ ReadUndo(c, x)
        \/ \E kind \in {"approve", "reject"} : ReadDecide(c, x, kind)
  BY DEF Begins, FullRow
<1>1. ASSUME NEW row, CheckSlot(c, x, row)
      PROVE  \E call : Start(c, call) /\ Reads(call)
  <2> DEFINE call == [Idle EXCEPT !.kind = "create", !.next = "find", !.id = x, !.row = row]
  <2>1. call.kind = "create" /\ call.next = "find" /\ call.row = row /\ Start(c, call)
    BY <1>1 DEF CheckSlot, Idle
  <2> HIDE DEF call
  <2> QED  BY <1>1, <2>1 DEF CheckSlot, Reads
<1>2. ASSUME NEW patch, ReadPatch(c, x, patch)
      PROVE  \E call : Start(c, call) /\ Reads(call)
  <2> DEFINE call == [Idle EXCEPT !.kind = "patch", !.next = "write", !.id = x, !.row = patch]
  <2>1. call.kind = "patch" /\ call.next = "write" /\ Start(c, call)
    BY <1>2 DEF ReadPatch, Idle
  <2> HIDE DEF call
  <2> QED  BY <2>1 DEF Reads
<1>3. CASE ReadRemove(c, x)
  <2> DEFINE call == [Idle EXCEPT !.kind = "remove", !.next = "write", !.id = x,
                                  !.group = requests[x].group,
                                  !.row.quantity = requests[x].quantity,
                                  !.seen = groups[requests[x].group].ordered]
  <2>1. /\ call.kind = "remove" /\ call.next = "write" /\ call.id = x /\ Start(c, call)
        /\ call.group = requests[x].group /\ call.row.quantity = requests[x].quantity
        /\ call.seen = groups[call.group].ordered
    BY <1>3 DEF ReadRemove, Idle, NoRow
  <2> HIDE DEF call
  <2> QED  BY <1>3, <2>1 DEF ReadRemove, Reads
<1>4. CASE ReadUndo(c, x)
  <2> DEFINE call == [Idle EXCEPT !.kind = "undo", !.next = "write", !.id = x, !.group = requests[x].group]
  <2>1. call.kind = "undo" /\ call.next = "write" /\ Start(c, call)
    BY <1>4 DEF ReadUndo, Idle
  <2> HIDE DEF call
  <2> QED  BY <2>1 DEF Reads
<1>5. ASSUME NEW kind \in {"approve", "reject"}, ReadDecide(c, x, kind)
      PROVE  \E call : Start(c, call) /\ Reads(call)
  <2> DEFINE call == [Idle EXCEPT !.kind = kind, !.next = "write", !.id = x, !.group = requests[x].group,
                                  !.decides = Undecided(requests[x].group)]
  <2>1. /\ call.kind = kind /\ call.next = "write" /\ Start(c, call)
        /\ call.decides = Undecided(requests[x].group)
    BY <1>5 DEF ReadDecide, Idle
  <2>2. \A y \in call.decides : requests[y].status = "pending"
    BY <2>1 DEF Undecided
  <2> HIDE DEF call
  <2> QED  BY <2>1, <2>2 DEF Reads
<1> QED  BY <1>0, <1>1, <1>2, <1>3, <1>4, <1>5

LEMMA BeginsStarts ==
  ASSUME Inv, NEW c \in Callers, Begins(c)
  PROVE  /\ UNCHANGED <<requests, groups, criteria, told>> /\ spoiled \subseteq spoiled'
         /\ \A d \in Callers \ {c} : calls'[d] = calls[d] /\ At(Kind(c)', Kind(d)) \subseteq spoiled'
         /\ calls[c] = Idle /\ Reads(calls'[c])
<1>1. PICK call : Start(c, call) /\ Reads(call)
  BY BeginsReads
<1>2. calls'[c] = call /\ \A d \in Callers \ {c} : calls'[d] = calls[d]
  BY <1>1 DEF Start, Inv, TypeOK
<1> QED  BY <1>1, <1>2 DEF Start, Kind

LEMMA GoesKinds ==
  ASSUME Inv, NEW c \in Callers, Goes(c)
  PROVE  /\ spoiled \subseteq spoiled' /\ \A d \in Callers \ {c} : calls'[d] = calls[d]
         /\ \/ calls'[c] = Idle
            \/ calls'[c].kind = Kind(c) /\ FindOngoingGroup(c)
            \/ calls'[c].kind = Kind(c) /\ CreateRequest(c)
<1>1. CASE FindOngoingGroup(c)
  <2>1. PICK g : calls' = [calls EXCEPT ![c].next = "write", ![c].group = g,
                                        ![c].seen = IF g = None THEN 0 ELSE groups[g].ordered,
                                        ![c].threshold = criteria]
    BY <1>1 DEF FindOngoingGroup
  <2> PICK n : n = IF g = None THEN 0 ELSE groups[g].ordered
    OBVIOUS
  <2>2. calls' = [calls EXCEPT ![c].next = "write", ![c].group = g, ![c].seen = n, ![c].threshold = criteria]
    BY <2>1
  <2>3. calls'[c].kind = Kind(c) /\ \A d \in Callers \ {c} : calls'[d] = calls[d]
    BY <2>2 DEF Inv, TypeOK, Call, Kind
  <2>4. spoiled' = spoiled
    BY <1>1 DEF FindOngoingGroup
  <2> QED  BY <1>1, <2>3, <2>4
<1>2. CASE CreateRequest(c)
  BY <1>2, CreateCarries DEF CreateRequest, Writes, Kind
<1>3. CASE End(c) /\ spoiled \subseteq spoiled'
  BY <1>3, EndOK
<1> QED
  BY <1>1, <1>2, <1>3 DEF Goes, NotifyAdminsGroupReady, UpdateRequest, RemoveRequest, ApproveOngoingGroup,
     RejectOngoingGroup, Decide, UndoRequest, GiveUp

LEMMA SpoiledGrows == Inv /\ [Next]_vars => spoiled \subseteq spoiled'
<1> SUFFICES ASSUME Inv, [Next]_vars PROVE spoiled \subseteq spoiled'
  OBVIOUS
<1>1. ASSUME NEW c \in Callers, Begins(c) PROVE spoiled \subseteq spoiled'
  BY <1>1, BeginsStarts
<1>2. ASSUME NEW c \in Callers, Goes(c) PROVE spoiled \subseteq spoiled'
  BY <1>2, GoesKinds
<1> QED  BY <1>1, <1>2 DEF Next, vars, CancelWindowEnds, UpdateProduct

LEMMA AloneStep ==
  ASSUME Inv, [Next]_vars, NEW kinds, NEW causes, Alone(kinds, causes), "idle" \notin kinds,
         \A k, l \in kinds : At(k, l) \cap causes # {}
  PROVE  Alone(kinds, causes)'
<1>1. CASE UNCHANGED <<calls, spoiled>>
  BY <1>1 DEF Alone, Unspoiled, Kind
<1>2. ASSUME NEW c \in Callers, Begins(c)
      PROVE  Alone(kinds, causes)'
  <2>1. Unspoiled(causes)' => Unspoiled(causes) /\ \A d \in Callers \ {c} : At(Kind(c)', Kind(d)) \cap causes = {}
    BY <1>2, BeginsStarts DEF Unspoiled
  <2>2. \A d \in Callers \ {c} : Kind(d)' = Kind(d)
    BY <1>2, BeginsStarts DEF Kind
  <2> QED  BY <2>1, <2>2 DEF Alone
<1>3. ASSUME NEW c \in Callers, Goes(c)
      PROVE  Alone(kinds, causes)'
  <2>1. /\ spoiled \subseteq spoiled' /\ \A d \in Callers \ {c} : calls'[d] = calls[d]
        /\ calls'[c] = Idle \/ calls'[c].kind = Kind(c)
    BY <1>3, GoesKinds
  <2>2. Kind(c)' \in {"idle", Kind(c)} /\ \A d \in Callers \ {c} : Kind(d)' = Kind(d)
    BY <2>1 DEF Kind, Idle
  <2>3. Unspoiled(causes)' => Unspoiled(causes)
    BY <2>1 DEF Unspoiled
  <2> QED  BY <2>2, <2>3 DEF Alone
<1> QED  BY <1>1, <1>2, <1>3 DEF Next, vars, CancelWindowEnds, UpdateProduct

LEMMA AllAloneStep == Inv /\ AllAlone /\ [Next]_vars => AllAlone'
<1> SUFFICES ASSUME Inv, AllAlone, [Next]_vars PROVE AllAlone'
  OBVIOUS
<1>1. Alone(Counting, {"creates", "counts"})'
  BY AloneStep, CountingAt DEF AllAlone, Counting
<1>2. Alone({"create"}, {"creates"})'
  BY AloneStep, CreatingAt DEF AllAlone
<1>3. Alone(Deciding, {"decisions"})'
  BY AloneStep, DecidingAt DEF AllAlone, Deciding
<1> QED  BY <1>1, <1>2, <1>3 DEF AllAlone

LEMMA AllAloneInit == Init => AllAlone
BY DEF Init, AllAlone, Alone, Kind, Idle, Counting, Deciding

(***************************************************************************)
(* Decisions: what a deciding call read as undecided is undecided, or deleted, *)
(* when it writes.                                                         *)
(***************************************************************************)
DecidesPending ==
  Unspoiled({"decisions"}) =>
    \A c \in Callers : Kind(c) \in {"approve", "reject"} =>
      \A x \in calls[c].decides : requests[x].status \in {"pending", "deleted"}

\* Only a deciding call changes the status of a row that is there, unless it deletes it.
LEMMA StatusSteps ==
  ASSUME Inv, NEW c \in Callers, Goes(c), Kind(c) \notin Deciding
  PROVE  \A x \in Ids : requests[x].status # "unused" => requests'[x].status \in {requests[x].status, "deleted"}
<1>1. CASE CreateRequest(c)
  <2>0. Creating(c) /\ calls[c].id \in Ids
    BY <1>1, CreateCarries
  <2>1. requests[calls[c].id].status = "unused" /\ calls[c].id \in Ids
    BY <2>0 DEF Inv, IdsApart, Unused
  <2>2. \A x \in Ids \ {calls[c].id} : requests'[x] = requests[x]
    BY <1>1, CreateCarries DEF Inv, TypeOK
  <2> QED  BY <2>1, <2>2
<1>2. CASE RemoveRequest(c)
  <2>1. \A x \in Ids : requests'[x] = IF x = calls[c].id THEN [Unused EXCEPT !.status = "deleted"] ELSE requests[x]
    BY <1>2 DEF RemoveRequest, Inv, TypeOK
  <2>2. [Unused EXCEPT !.status = "deleted"].status = "deleted"
    BY DEF Unused
  <2> QED  BY <2>1, <2>2
<1>3. CASE FindOngoingGroup(c) \/ NotifyAdminsGroupReady(c) \/ GiveUp(c)
  BY <1>3 DEF FindOngoingGroup, NotifyAdminsGroupReady, GiveUp
<1> QED
  BY <1>1, <1>2, <1>3 DEF Goes, Deciding, UpdateRequest, ApproveOngoingGroup, RejectOngoingGroup, UndoRequest, Writes

\* Deciding on a group writes the requests read, and no others.
LEMMA DecideWrites ==
  ASSUME Inv, NEW c \in Callers, ApproveOngoingGroup(c) \/ RejectOngoingGroup(c)
  PROVE  /\ Kind(c) \in {"approve", "reject"} /\ calls'[c] = Idle
         /\ \A x \in Ids : x \notin calls[c].decides \/ ~Exists(x) => requests'[x] = requests[x]
BY EndOK DEF ApproveOngoingGroup, RejectOngoingGroup, Decide, Writes

LEMMA DecidesPendingStep == Inv /\ AllAlone /\ DecidesPending /\ [Next]_vars => DecidesPending'
<1> SUFFICES ASSUME Inv, AllAlone, DecidesPending, [Next]_vars, Unspoiled({"decisions"})',
                    NEW d \in Callers, Kind(d)' \in {"approve", "reject"}, NEW x \in calls'[d].decides
             PROVE  requests'[x].status \in {"pending", "deleted"}
  BY DEF DecidesPending
<1>0. Unspoiled({"decisions"}) /\ x \in Ids
  <2>1. Inv'
    BY NextInv
  <2> QED  BY <2>1, SpoiledGrows DEF Unspoiled, Inv, TypeOK, Call
<1>1. CASE UNCHANGED <<requests, calls>>
  BY <1>0, <1>1 DEF DecidesPending, Kind
<1>2. ASSUME NEW c \in Callers, Begins(c)
      PROVE  requests'[x].status \in {"pending", "deleted"}
  <2>1. /\ requests' = requests /\ \A e \in Callers \ {c} : calls'[e] = calls[e]
        /\ Reads(calls'[c])
    BY <1>2, BeginsStarts
  <2>2. CASE d # c
    BY <1>0, <2>1, <2>2 DEF DecidesPending, Kind
  <2>3. CASE d = c
    BY <2>1, <2>3 DEF Reads, Kind
  <2> QED  BY <2>2, <2>3
<1>3. ASSUME NEW c \in Callers, Goes(c)
      PROVE  requests'[x].status \in {"pending", "deleted"}
  <2>1. d # c /\ calls'[d] = calls[d] /\ Kind(d) \in {"approve", "reject"}
    <3>1. CASE d # c
      BY <1>3, <3>1, GoesKinds DEF Kind
    <3>2. CASE d = c
      <4>1. FindOngoingGroup(c) \/ CreateRequest(c) => Kind(c) = "create"
        BY DEF FindOngoingGroup, CreateRequest, Writes
      <4>2. Idle.kind = "idle"
        BY DEF Idle
      <4> QED  BY <1>3, <3>2, <4>1, <4>2, GoesKinds DEF Kind
    <3> QED  BY <3>1, <3>2
  <2>2. Kind(c) \notin Deciding
    BY <1>0, <2>1 DEF AllAlone, Alone, Deciding
  <2>3. requests[x].status \in {"pending", "deleted"}
    BY <1>0, <2>1 DEF DecidesPending
  <2> QED  BY <1>0, <1>3, <2>2, <2>3, StatusSteps
<1>4. ASSUME NEW y \in Ids, CancelWindowEnds(y)
      PROVE  requests'[x].status \in {"pending", "deleted"}
  <2>1. requests'[x].status = requests[x].status /\ calls' = calls
    BY <1>0, <1>4 DEF CancelWindowEnds, Inv, TypeOK, Request
  <2> QED  BY <1>0, <2>1 DEF DecidesPending, Kind
<1> QED  BY <1>1, <1>2, <1>3, <1>4 DEF Next, vars, UpdateProduct

DecideInv == Inv /\ AllAlone /\ DecidesPending
LEMMA DecideInvariance == Spec => []DecideInv
<1>1. Init => DecideInv
  <2>1. Init => DecidesPending
    BY DEF Init, DecidesPending, Kind, Idle
  <2> QED  BY <2>1, InitInv, AllAloneInit DEF DecideInv
<1>2. DecideInv /\ [Next]_vars => DecideInv'
  BY NextInv, AllAloneStep, DecidesPendingStep DEF DecideInv
<1> QED  BY <1>1, <1>2, PTL DEF Spec

\* A decision on a request stands until that request is undone, patched or removed, as long as
\* no two deciding calls overlap: deciding on its group again, creations and removals leave it.
THEOREM DecisionsKept == Spec => DecisionStands
<1> DEFINE Stands(x) ==
      (/\ requests[x].status \in {"approved", "rejected"} /\ Unspoiled({"decisions"})
       /\ requests'[x].status \in Decisions \ {requests[x].status})
      => \E c \in Callers : Kind(c) \in {"undo", "patch"} /\ calls[c].id = x
<1>1. ASSUME DecideInv, [Next]_vars, NEW x \in Ids
      PROVE  Stands(x)
  <2> SUFFICES ASSUME requests[x].status \in {"approved", "rejected"}, Unspoiled({"decisions"}),
                      requests'[x].status \in Decisions \ {requests[x].status}
               PROVE  \E c \in Callers : Kind(c) \in {"undo", "patch"} /\ calls[c].id = x
    OBVIOUS
  <2>1. CASE requests' = requests
    BY <2>1
  <2>2. ASSUME NEW c \in Callers, Begins(c)
        PROVE  requests'[x].status = requests[x].status
    BY <1>1, <2>2, BeginsStarts DEF DecideInv
  <2>3. ASSUME NEW c \in Callers, Goes(c), Kind(c) \notin Deciding
        PROVE  requests'[x].status \notin Decisions \ {requests[x].status}
    BY <1>1, <2>3, StatusSteps DEF Decisions, DecideInv
  <2>4. ASSUME NEW c \in Callers, ApproveOngoingGroup(c) \/ RejectOngoingGroup(c)
        PROVE  requests'[x] = requests[x]
    <3>1. Kind(c) \in {"approve", "reject"} /\ (x \notin calls[c].decides => requests'[x] = requests[x])
      BY <1>1, <2>4, DecideWrites DEF DecideInv
    <3>2. x \notin calls[c].decides
      BY <1>1, <3>1 DEF DecideInv, DecidesPending
    <3> QED  BY <3>1, <3>2
  <2>5. ASSUME NEW c \in Callers, UndoRequest(c) \/ UpdateRequest(c)
        PROVE  Kind(c) \in {"undo", "patch"} /\ (calls[c].id = x \/ requests'[x] = requests[x])
    BY <1>1, <2>5 DEF UndoRequest, UpdateRequest, Writes, DecideInv, Inv, TypeOK
  <2>6. ASSUME NEW c \in Callers, Goes(c), Kind(c) \in Deciding
        PROVE  ApproveOngoingGroup(c) \/ RejectOngoingGroup(c) \/ UndoRequest(c) \/ UpdateRequest(c)
               \/ requests' = requests
    BY <2>6 DEF Goes, Deciding, FindOngoingGroup, CreateRequest, NotifyAdminsGroupReady, RemoveRequest, GiveUp, Writes
  <2>7. ASSUME NEW y \in Ids, CancelWindowEnds(y)
        PROVE  requests'[x].status = requests[x].status
    BY <1>1, <2>7 DEF CancelWindowEnds, DecideInv, Inv, TypeOK, Request
  <2> QED  BY <1>1, <2>1, <2>2, <2>3, <2>4, <2>5, <2>6, <2>7 DEF Next, vars, UpdateProduct
<1>2. DecideInv /\ [Next]_vars => [\A x \in Ids : Stands(x)]_vars
  BY <1>1
<1> QED  BY <1>2, DecideInvariance, PTL DEF Spec, DecisionStands

(***************************************************************************)
(* Slots: what a creation found free stays free until it writes.             *)
(***************************************************************************)
NeverTwice == {"creates", "revival"}
SlotsKept ==
  Unspoiled(NeverTwice) =>
    \A c \in Callers : Creating(c) => SlotFree(calls[c].row.variant) /\ CanOpen(calls[c].row.variant)

\* A step that opens no slot.
NoneOpens ==
  \A x \in Ids : Open(x)' => Open(x) /\ requests'[x].variant = requests[x].variant

LEMMA OpenFinite == Inv => OpenVariants \subseteq Variants /\ IsFiniteSet(OpenVariants)
<1> SUFFICES ASSUME Inv PROVE OpenVariants \subseteq Variants
  BY FS_Subset, ConstantsAssumption
<1> QED  BY DEF OpenVariants, Open, Inv, RowsOK, RowOK, Decisions

LEMMA FreeIsNotOpen == \A v : SlotFree(v) => v \notin OpenVariants
BY DEF SlotFree, OpenVariants

LEMMA SlotsStay ==
  ASSUME Inv, NoneOpens, OneTaker, Unspoiled(NeverTwice)
  PROVE  /\ \A v : SlotFree(v) /\ CanOpen(v) => SlotFree(v)' /\ CanOpen(v)'
         /\ OneTaker'
<1>1. OpenVariants' \subseteq OpenVariants
  BY DEF OpenVariants, NoneOpens
<1>2. IsFiniteSet(OpenVariants') /\ Cardinality(OpenVariants') <= Cardinality(OpenVariants)
      /\ Cardinality(OpenVariants') \in Nat /\ Cardinality(OpenVariants) \in Nat
  BY <1>1, OpenFinite, FS_Subset, FS_CardinalityType
<1>3. Cardinality(OpenVariants) <= Limit => Cardinality(OpenVariants)' <= Limit
  BY <1>2, Constants
<1>4. ASSUME NEW v, SlotFree(v), CanOpen(v)
      PROVE  SlotFree(v)' /\ CanOpen(v)'
  <2>1. Cardinality(OpenVariants) < Limit
    BY <1>4, FreeIsNotOpen DEF CanOpen
  <2>2. Cardinality(OpenVariants') < Limit
    BY <1>2, <2>1, Constants
  <2>3. SlotFree(v)'
    BY <1>4 DEF SlotFree, NoneOpens, Open
  <2> QED  BY <2>2, <2>3 DEF CanOpen
<1>5. OneTaker'
  <2>1. \A x, y \in Ids : Open(x)' /\ Open(y)' /\ requests'[x].variant = requests'[y].variant => x = y
    BY DEF OneTaker, NoneOpens, NeverTwice
  <2>2. Cardinality(OpenVariants)' <= Limit
    BY <1>3 DEF OneTaker, NeverTwice
  <2> QED  BY <2>1, <2>2 DEF OneTaker
<1> QED  BY <1>4, <1>5

\* Of the steps only a creation opens a slot, as long as no rejected request
\* is open again.
LEMMA GoesOpens ==
  ASSUME Inv, NEW c \in Callers, Goes(c), ~CreateRequest(c), Unspoiled(NeverTwice)'
  PROVE  NoneOpens
<1>0. requests \in [Ids -> Request]
  BY DEF Inv, TypeOK
<1>1. CASE FindOngoingGroup(c) \/ NotifyAdminsGroupReady(c) \/ GiveUp(c)
  BY <1>1 DEF FindOngoingGroup, NotifyAdminsGroupReady, GiveUp, NoneOpens, Open
<1>2. CASE RemoveRequest(c)
  <2>1. \A x \in Ids : requests'[x] = IF x = calls[c].id THEN [Unused EXCEPT !.status = "deleted"] ELSE requests[x]
    BY <1>0, <1>2 DEF RemoveRequest
  <2>2. [Unused EXCEPT !.status = "deleted"].status = "deleted"
    BY DEF Unused
  <2> QED  BY <2>1, <2>2 DEF NoneOpens, Open
<1>4. ASSUME NEW status \in Decisions, NEW S,
             requests' = [x \in Ids |-> IF x \in S /\ Exists(x)
                                        THEN [requests[x] EXCEPT !.status = status] ELSE requests[x]],
             status \in {"pending", "approved"} => \A x \in S : requests[x].status # "rejected"
      PROVE  NoneOpens
  <2> SUFFICES ASSUME NEW x \in Ids, Open(x)' PROVE Open(x) /\ requests'[x].variant = requests[x].variant
    BY DEF NoneOpens
  <2>1. CASE x \in S /\ Exists(x)
    <3>1. requests'[x].status = status /\ requests'[x].variant = requests[x].variant
      BY <1>0, <1>4, <2>1 DEF Request
    <3> QED  BY <1>4, <2>1, <3>1 DEF Exists, Open, Decisions
  <2>2. CASE ~(x \in S /\ Exists(x))
    BY <1>4, <2>2 DEF Open
  <2> QED  BY <2>1, <2>2
<1>3. CASE UpdateRequest(c)
  <2> PICK status : status = calls[c].row.status
    OBVIOUS
  <2>1. requests' = [x \in Ids |-> IF x \in {calls[c].id} /\ Exists(x)
                                   THEN [requests[x] EXCEPT !.status = status] ELSE requests[x]]
    BY <1>0, <1>3 DEF UpdateRequest
  <2>2. /\ status \in {"pending", "approved"} => requests[calls[c].id].status # "rejected"
        /\ status \in Decisions
    BY <1>3 DEF UpdateRequest, Revives, Unspoiled, NeverTwice, Writes, Kind, Inv, CallsOK, CallOK
  <2> QED  BY <1>4, <2>1, <2>2
<1>5. CASE ApproveOngoingGroup(c)
  BY <1>4, <1>5 DEF ApproveOngoingGroup, Decide, Decisions, Unspoiled, NeverTwice
<1>6. CASE RejectOngoingGroup(c)
  BY <1>4, <1>6 DEF RejectOngoingGroup, Decide, Decisions
<1>7. CASE UndoRequest(c)
  <2>1. requests' = [x \in Ids |-> IF x \in {calls[c].id} /\ Exists(x)
                                   THEN [requests[x] EXCEPT !.status = "pending"] ELSE requests[x]]
    BY <1>0, <1>7 DEF UndoRequest
  <2>2. requests[calls[c].id].status # "rejected"
    BY <1>7 DEF UndoRequest, Revives, Unspoiled, NeverTwice
  <2> QED  BY <1>4, <2>1, <2>2 DEF Decisions
<1> QED  BY <1>1, <1>2, <1>3, <1>5, <1>6, <1>7 DEF Goes

\* A creation that writes leaves no other to write after it.
LEMMA CreateOpens ==
  ASSUME Inv, AllAlone, SlotsKept, OneTaker, NEW c \in Callers, CreateRequest(c), Unspoiled(NeverTwice)
  PROVE  OneTaker' /\ \A d \in Callers : ~Creating(d)'
<1>0. PICK x, v : x = calls[c].id /\ v = calls[c].row.variant
  OBVIOUS
<1>1. /\ x \in Ids /\ Creating(c) /\ calls'[c].next = "ready" /\ \A d \in Callers \ {c} : calls'[d] = calls[d]
      /\ requests'[x].variant = v /\ \A y \in Ids \ {x} : requests'[y] = requests[y]
  <2>1. PICK g \in Groups :
          /\ requests' = [requests EXCEPT ![x] =
               [status |-> calls[c].row.status, variant |-> v,
                quantity |-> calls[c].row.quantity, group |-> g, fresh |-> TRUE]]
          /\ calls'[c].next = "ready" /\ \A d \in Callers \ {c} : calls'[d] = calls[d]
          /\ Creating(c) /\ x \in Ids
    BY <1>0, CreateCarries
  <2> QED  BY <2>1 DEF Inv, TypeOK
<1>2. SlotFree(v) /\ CanOpen(v)
  BY <1>0, <1>1 DEF SlotsKept
<1>3. Cardinality(OpenVariants) < Limit
  BY <1>2, FreeIsNotOpen DEF CanOpen
<1>4. OpenVariants' \subseteq OpenVariants \cup {v}
  BY <1>1 DEF OpenVariants, Open
<1>5. /\ IsFiniteSet(OpenVariants \cup {v})
      /\ Cardinality(OpenVariants \cup {v}) <= Cardinality(OpenVariants) + 1
      /\ Cardinality(OpenVariants) \in Nat
  <2>1. IsFiniteSet(OpenVariants)
    BY OpenFinite
  <2>2. /\ IsFiniteSet(OpenVariants \cup {v}) /\ Cardinality(OpenVariants) \in Nat
        /\ Cardinality(OpenVariants \cup {v})
             = IF v \in OpenVariants THEN Cardinality(OpenVariants) ELSE Cardinality(OpenVariants) + 1
    BY <2>1, FS_AddElement, FS_CardinalityType
  <2> QED  BY <2>2
<1>6. Cardinality(OpenVariants)' <= Limit
  BY <1>3, <1>4, <1>5, FS_Subset, FS_CardinalityType, Constants
<1>7. \A y, z \in Ids : Open(y)' /\ Open(z)' /\ requests'[y].variant = requests'[z].variant => y = z
  BY <1>1, <1>2 DEF OneTaker, NeverTwice, SlotFree, Open
<1>8. \A d \in Callers : ~Creating(d)'
  <2>1. \A d \in Callers \ {c} : Kind(d) # "create"
    BY <1>1 DEF AllAlone, Alone, Unspoiled, NeverTwice, Creating
  <2> QED  BY <1>1, <2>1 DEF Creating, Kind
<1> QED  BY <1>6, <1>7, <1>8 DEF OneTaker

LEMMA SlotsStep == Inv /\ AllAlone /\ SlotsKept /\ OneTaker /\ [Next]_vars => SlotsKept' /\ OneTaker'
<1> SUFFICES ASSUME Inv, AllAlone, SlotsKept, OneTaker, [Next]_vars, Unspoiled(NeverTwice)'
             PROVE  SlotsKept' /\ OneTaker'
  BY DEF SlotsKept, OneTaker, NeverTwice
<1>0. Unspoiled(NeverTwice)
  BY SpoiledGrows DEF Unspoiled
<1>1. ASSUME NoneOpens,
             \A d \in Callers : Creating(d)' =>
               \/ Creating(d) /\ calls'[d].row = calls[d].row
               \/ SlotFree(calls'[d].row.variant) /\ CanOpen(calls'[d].row.variant)
      PROVE  SlotsKept' /\ OneTaker'
  <2>1. OneTaker' /\ \A v : SlotFree(v) /\ CanOpen(v) => SlotFree(v)' /\ CanOpen(v)'
    BY <1>0, <1>1, SlotsStay
  <2>2. ASSUME NEW d \in Callers, Creating(d)'
        PROVE  SlotFree(calls'[d].row.variant) /\ CanOpen(calls'[d].row.variant)
    BY <1>0, <1>1, <2>2 DEF SlotsKept
  <2>3. \A d \in Callers : Creating(d)' => SlotFree(calls[d].row.variant)' /\ CanOpen(calls[d].row.variant)'
    BY <2>1, <2>2
  <2> QED  BY <2>1, <2>3 DEF SlotsKept
<1>2. CASE UNCHANGED <<requests, calls>>
  BY <1>1, <1>2 DEF NoneOpens, Open, Creating, Kind
<1>3. ASSUME NEW c \in Callers, Begins(c)
      PROVE  SlotsKept' /\ OneTaker'
  <2>1. /\ requests' = requests /\ \A e \in Callers \ {c} : calls'[e] = calls[e]
        /\ Reads(calls'[c])
    BY <1>3, BeginsStarts
  <2> QED  BY <1>1, <2>1 DEF NoneOpens, Open, Creating, Kind, Reads
<1>4. ASSUME NEW c \in Callers, CreateRequest(c)
      PROVE  SlotsKept' /\ OneTaker'
  BY <1>0, <1>4, CreateOpens DEF SlotsKept
<1>5. ASSUME NEW c \in Callers, Goes(c), ~CreateRequest(c)
      PROVE  SlotsKept' /\ OneTaker'
  <2>1. NoneOpens
    BY <1>5, GoesOpens
  <2>2. FindOngoingGroup(c) => Creating(c) /\ calls'[c].row = calls[c].row
    <3>1. ASSUME FindOngoingGroup(c)
          PROVE  \E g : calls' = [calls EXCEPT ![c].next = "write", ![c].group = g,
                                        ![c].seen = IF g = None THEN 0 ELSE groups[g].ordered,
                                        ![c].threshold = criteria]
      BY <3>1 DEF FindOngoingGroup
    <3>2. FindOngoingGroup(c) => Creating(c) /\ calls \in [Callers -> Call]
      BY DEF FindOngoingGroup, Creating, Inv, TypeOK
    <3> HIDE DEF FindOngoingGroup
    <3>3. ASSUME FindOngoingGroup(c)
          PROVE  calls'[c].row = calls[c].row
      <4>1. PICK g, n : calls' = [calls EXCEPT ![c].next = "write", ![c].group = g, ![c].seen = n,
                                               ![c].threshold = criteria]
        BY <3>1, <3>3
      <4> QED  BY <3>2, <3>3, <4>1 DEF Call
    <3> QED  BY <3>2, <3>3
  <2>3. \A d \in Callers : Creating(d)' => Creating(d) /\ calls'[d].row = calls[d].row
    BY <1>5, <2>2, GoesKinds DEF Creating, Kind, Idle
  <2> QED  BY <1>1, <2>1, <2>3
<1>6. ASSUME NEW x \in Ids, CancelWindowEnds(x)
      PROVE  SlotsKept' /\ OneTaker'
  BY <1>1, <1>6 DEF CancelWindowEnds, NoneOpens, Open, Inv, TypeOK, Request, Creating, Kind
<1> QED  BY <1>2, <1>3, <1>4, <1>5, <1>6 DEF Next, vars, UpdateProduct

SlotInv == Inv /\ AllAlone /\ SlotsKept /\ OneTaker
LEMMA SlotInvariance == Spec => []SlotInv
<1>1. Init => SlotInv
  <2>1. Init => SlotsKept
    BY DEF Init, SlotsKept, Creating, Kind, Idle
  <2>2. Init => OneTaker
    <3> SUFFICES ASSUME Init PROVE OpenVariants = {} /\ \A x \in Ids : ~Open(x)
      BY FS_EmptySet, Constants DEF OneTaker
    <3> QED  BY DEF Init, Open, OpenVariants, Unused
  <2> QED  BY <2>1, <2>2, InitInv, AllAloneInit DEF SlotInv
<1>2. SlotInv /\ [Next]_vars => SlotInv'
  BY NextInv, AllAloneStep, SlotsStep DEF SlotInv
<1> QED  BY <1>1, <1>2, PTL DEF Spec

\* A variant has one taker, and no more variants of the product are open than it allows,
\* while no two creations overlap and no rejection is undone, patched away or approved
\* over: whatever removals and decisions overlap the creation that looked.
THEOREM SlotsHaveOneTaker == Spec => []OneTaker
<1>1. SlotInv => OneTaker
  BY DEF SlotInv
<1> QED  BY <1>1, SlotInvariance, PTL

(***************************************************************************)
(* Counts: orderedItems is the sum of what is asked for in the group.          *)
(***************************************************************************)
QuantityOf(rows) == [x \in Ids |-> rows[x].quantity]
MembersOf(rows, g) == {x \in Ids : rows[x].status \in Decisions /\ rows[x].group = g}
GroupSum(rows, g) == SumFunctionOnSet(QuantityOf(rows), MembersOf(rows, g))

LEMMA GroupSumIs == \A g : SumFunctionOnSet(Quantity, InGroup(g)) = GroupSum(requests, g)
BY DEF GroupSum, Quantity, QuantityOf, InGroup, MembersOf, Exists

LEMMA MembersFinite ==
  ASSUME NEW rows \in [Ids -> Request], NEW g
  PROVE  /\ IsFiniteSet(MembersOf(rows, g)) /\ MembersOf(rows, g) \subseteq Ids
         /\ \A x \in Ids : QuantityOf(rows)[x] \in Nat /\ QuantityOf(rows)[x] = rows[x].quantity
         /\ GroupSum(rows, g) \in Nat
<1>1. IsFiniteSet(MembersOf(rows, g)) /\ MembersOf(rows, g) \subseteq Ids
  BY FS_Subset, ConstantsAssumption DEF MembersOf
<1>2. \A x \in Ids : QuantityOf(rows)[x] \in Nat /\ QuantityOf(rows)[x] = rows[x].quantity
  <2>1. \A x \in Ids : rows[x].quantity \in Quantities \cup {0}
    BY DEF Request
  <2>2. Quantities \cup {0} \subseteq Nat
    BY Constants
  <2> QED  BY <2>1, <2>2 DEF QuantityOf
<1>3. GroupSum(rows, g) \in Nat
  BY <1>1, <1>2, SumIsNat DEF GroupSum
<1> QED  BY <1>1, <1>2, <1>3

\* One row more, or one less, adds its quantity to its group's sum, or takes it away.
LEMMA GroupSumAdd ==
  ASSUME NEW old \in [Ids -> Request], NEW new \in [Ids -> Request], NEW x \in Ids,
         old[x].status \notin Decisions, new[x].status \in Decisions,
         \A y \in Ids \ {x} : new[y] = old[y], NEW g
  PROVE  GroupSum(new, g) = IF new[x].group = g THEN GroupSum(old, g) + new[x].quantity
                            ELSE GroupSum(old, g)
<1> DEFINE S == MembersOf(old, g)
<1>1. IsFiniteSet(S) /\ S \subseteq Ids /\ x \notin S
  BY MembersFinite DEF MembersOf
<1>2. \A y \in Ids : QuantityOf(new)[y] \in Int /\ QuantityOf(new)[y] = new[y].quantity
  BY MembersFinite
<1>3. \A y \in S : QuantityOf(new)[y] = QuantityOf(old)[y]
  BY <1>1 DEF QuantityOf
<1>4. SumFunctionOnSet(QuantityOf(new), S) = GroupSum(old, g)
  BY <1>1, <1>3, SumSame DEF GroupSum
<1>5. CASE new[x].group = g
  <2>1. MembersOf(new, g) = S \cup {x}
    BY <1>5 DEF MembersOf
  <2>2. SumFunctionOnSet(QuantityOf(new), S \cup {x})
          = SumFunctionOnSet(QuantityOf(new), S) + QuantityOf(new)[x]
    <3> HIDE DEF S
    <3> QED  BY <1>1, <1>2, SumAdd
  <2> QED  BY <1>2, <1>4, <1>5, <2>1, <2>2 DEF GroupSum
<1>6. CASE new[x].group # g
  <2>1. MembersOf(new, g) = S
    BY <1>6 DEF MembersOf
  <2> QED  BY <1>4, <1>6, <2>1 DEF GroupSum
<1> QED  BY <1>5, <1>6

LEMMA GroupSumSame ==
  ASSUME NEW old, NEW new,
         \A x \in Ids : /\ new[x].status \in Decisions <=> old[x].status \in Decisions
                        /\ new[x].group = old[x].group /\ new[x].quantity = old[x].quantity,
         NEW g
  PROVE  GroupSum(new, g) = GroupSum(old, g)
BY DEF GroupSum, QuantityOf, MembersOf

\* What a counting call read is so until it writes.
Counted == {"creates", "counts"}
CountSeen(c) ==
  /\ Writes(c, "create") =>
       calls[c].seen = IF calls[c].group = None THEN 0 ELSE groups[calls[c].group].ordered
  /\ Writes(c, "remove") =>
       /\ Exists(calls[c].id) /\ calls[c].group = requests[calls[c].id].group
       /\ calls[c].row.quantity = requests[calls[c].id].quantity
       /\ calls[c].seen = groups[calls[c].group].ordered
CountsSeen == Unspoiled(Counted) => \A c \in Callers : CountSeen(c)

\* A step that changes no count and nothing that is counted.
SameCounts ==
  /\ \A x \in Ids : /\ Exists(x)' <=> Exists(x)
                    /\ requests'[x].group = requests[x].group
                    /\ requests'[x].quantity = requests[x].quantity
  /\ \A g \in Groups : SameGroup(g)

LEMMA SameSums == SameCounts => \A g : GroupSum(requests', g) = GroupSum(requests, g)
<1> SUFFICES ASSUME SameCounts, NEW g PROVE GroupSum(requests', g) = GroupSum(requests, g)
  OBVIOUS
<1> PICK new, old : new = requests' /\ old = requests
  OBVIOUS
<1>1. \A x \in Ids : /\ new[x].status \in Decisions <=> old[x].status \in Decisions
                     /\ new[x].group = old[x].group /\ new[x].quantity = old[x].quantity
  BY DEF SameCounts, SameGroup, Exists
<1> QED  BY <1>1, GroupSumSame

LEMMA StatusCounts ==
  ASSUME Inv, NEW S, NEW status \in Decisions,
         requests' = [x \in Ids |-> IF x \in S /\ Exists(x)
                                    THEN [requests[x] EXCEPT !.status = status] ELSE requests[x]],
         \A g \in Groups : SameGroup(g)
  PROVE  SameCounts
<1> SUFFICES ASSUME NEW x \in Ids
             PROVE  /\ Exists(x)' <=> Exists(x)
                    /\ requests'[x].group = requests[x].group
                    /\ requests'[x].quantity = requests[x].quantity
  BY DEF SameCounts, SameGroup
<1>1. CASE x \in S /\ Exists(x)
  <2>1. requests'[x] = [requests[x] EXCEPT !.status = status] /\ requests[x] \in Request
    BY <1>1 DEF Inv, TypeOK
  <2> QED  BY <1>1, <2>1 DEF Request, Exists
<1>2. CASE ~(x \in S /\ Exists(x))
  BY <1>2 DEF Exists
<1> QED  BY <1>1, <1>2

LEMMA GoesQuietly ==
  ASSUME Inv, NEW c \in Callers, Goes(c),
         ~FindOngoingGroup(c), ~CreateRequest(c), ~RemoveRequest(c)
  PROVE  SameCounts /\ calls'[c] = Idle
<1>1. calls'[c] = Idle
  BY GoesKinds
<1>2. CASE NotifyAdminsGroupReady(c) \/ GiveUp(c)
  <2>1. requests' = requests /\ groups' = groups
    BY <1>2 DEF NotifyAdminsGroupReady, GiveUp
  <2> QED  BY <1>1, <2>1 DEF SameCounts, SameGroup, Exists
<1>3. CASE UpdateRequest(c)
  <2> PICK S, status : S = {calls[c].id} /\ status = calls[c].row.status
    OBVIOUS
  <2>1. requests' = [x \in Ids |-> IF x \in S /\ Exists(x)
                                   THEN [requests[x] EXCEPT !.status = status] ELSE requests[x]]
    BY <1>3 DEF UpdateRequest, Inv, TypeOK
  <2>2. status \in Decisions /\ \A g \in Groups : SameGroup(g)
    BY <1>3 DEF UpdateRequest, SameGroup, Writes, Kind, Inv, CallsOK, CallOK
  <2> QED  BY <1>1, <2>1, <2>2, StatusCounts
<1>4. ASSUME ApproveOngoingGroup(c) \/ RejectOngoingGroup(c)
      PROVE  SameCounts
  <2>1. PICK status \in {"approved", "rejected"} :
          /\ Decide(c, status)
          /\ \/ groups' = [groups EXCEPT ![calls[c].group].approved = TRUE]
             \/ groups' = [groups EXCEPT ![calls[c].group].rejected = TRUE]
    BY <1>4 DEF ApproveOngoingGroup, RejectOngoingGroup
  <2>2. groups \in [Groups -> Group] /\ status \in Decisions
    BY DEF Inv, TypeOK, Decisions
  <2>3. \A g \in Groups : SameGroup(g)
    <3>1. CASE groups' = [groups EXCEPT ![calls[c].group].approved = TRUE]
      BY <2>2, <3>1 DEF Group, SameGroup
    <3>2. CASE groups' = [groups EXCEPT ![calls[c].group].rejected = TRUE]
      BY <2>2, <3>2 DEF Group, SameGroup
    <3> QED  BY <2>1, <3>1, <3>2
  <2> QED  BY <2>1, <2>2, <2>3, StatusCounts DEF Decide
<1>5. CASE UndoRequest(c)
  <2> PICK S : S = {calls[c].id}
    OBVIOUS
  <2>1. requests' = [x \in Ids |-> IF x \in S /\ Exists(x)
                                   THEN [requests[x] EXCEPT !.status = "pending"] ELSE requests[x]]
    BY <1>5 DEF UndoRequest, Inv, TypeOK
  <2>2. \A g \in Groups : SameGroup(g)
    BY <1>5 DEF UndoRequest, Inv, TypeOK, Group, SameGroup
  <2> QED  BY <1>1, <2>1, <2>2, StatusCounts DEF Decisions
<1> QED  BY <1>1, <1>2, <1>3, <1>4, <1>5 DEF Goes

\* What a creation writes.
LEMMA CreateCounts ==
  ASSUME Inv, CountsSeen, Unspoiled(Counted), NEW c \in Callers, CreateRequest(c)
  PROVE  \E x \in Ids, g \in Groups, q \in Quantities :
           /\ calls'[c].id = x /\ calls'[c].next = "ready" /\ calls[c].next = "write" /\ Kind(c) = "create"
           /\ \A d \in Callers \ {c} : calls'[d] = calls[d]
           /\ requests[x].status \notin Decisions /\ requests'[x].status \in Decisions
           /\ requests'[x].group = g /\ requests'[x].quantity = q
           /\ \A y \in Ids \ {x} : requests'[y] = requests[y]
           /\ groups'[g].ordered = groups[g].ordered + q /\ groups'[g].used
           /\ \A h \in Groups \ {g} : groups'[h] = groups[h]
           /\ told' = {h \in told : groups'[h].ordered >= groups'[h].threshold}
           /\ \/ g = calls[c].group /\ groups[g].used
              \/ calls[c].group = None
           /\ groups'[g].threshold \in Criteria
           /\ Uncrossed(g, groups'[g].threshold) => "lowered" \in spoiled'
<1>1. PICK g \in Groups :
        /\ \/ g = calls[c].group
           \/ calls[c].group = None /\ ~groups[g].used
        /\ SetOrdered(g, calls[c].seen + calls[c].row.quantity, calls[c].threshold)
        /\ calls[c].seen + calls[c].row.quantity \in Nat
        /\ requests' = [requests EXCEPT ![calls[c].id] =
             [status |-> calls[c].row.status, variant |-> calls[c].row.variant,
              quantity |-> calls[c].row.quantity, group |-> g, fresh |-> TRUE]]
        /\ calls'[c].next = "ready" /\ calls'[c].id = calls[c].id
        /\ \A d \in Callers \ {c} : calls'[d] = calls[d]
        /\ Creating(c) /\ calls[c].id \in Ids /\ calls[c].row \in FullRow
        /\ calls[c].threshold \in Criteria
        /\ Uncrossed(g, calls[c].threshold) => "lowered" \in spoiled'
  BY CreateCarries
<1>2. PICK x \in Ids, q \in Quantities : x = calls[c].id /\ q = calls[c].row.quantity
  BY <1>1 DEF FullRow
<1>3. Writes(c, "create") /\ calls[c].next = "write" /\ Kind(c) = "create" /\ CallOK(calls[c])
  BY DEF CreateRequest, Writes, Inv, CallsOK
<1>4. calls[c].seen = groups[g].ordered
  BY <1>1, <1>3, Constants DEF CountsSeen, CountSeen, Inv, UnusedEmpty
<1>5. requests[x].status \notin Decisions
  BY <1>1, <1>2 DEF Inv, IdsApart, Unused, Decisions
<1>6. /\ requests'[x].status \in Decisions /\ requests'[x].group = g /\ requests'[x].quantity = q
      /\ \A y \in Ids \ {x} : requests'[y] = requests[y]
  BY <1>1, <1>2 DEF FullRow, Inv, TypeOK
<1>7. /\ groups'[g].ordered = groups[g].ordered + q /\ groups'[g].used
      /\ groups'[g].threshold = calls[c].threshold
      /\ \A h \in Groups \ {g} : groups'[h] = groups[h]
      /\ told' = {h \in told : groups'[h].ordered >= groups'[h].threshold}
  BY <1>1, <1>2, <1>4, SetOrderedIs
<1>8. g = calls[c].group => groups[g].used
  BY <1>3 DEF CallOK
<1> QED  BY <1>1, <1>2, <1>3, <1>5, <1>6, <1>7, <1>8

\* What a removal writes: the clamp at zero takes nothing away.
LEMMA RemoveCounts ==
  ASSUME Inv, CountsSeen, OrderedIsSum, Unspoiled(Counted), NEW c \in Callers, RemoveRequest(c)
  PROVE  \E x \in Ids, g \in Groups, q \in Quantities :
           /\ calls'[c] = Idle /\ Kind(c) = "remove" /\ \A d \in Callers \ {c} : calls'[d] = calls[d]
           /\ requests[x].status \in Decisions /\ requests'[x].status \notin Decisions
           /\ requests[x].group = g /\ requests[x].quantity = q
           /\ \A y \in Ids \ {x} : requests'[y] = requests[y]
           /\ GroupSum(requests, g) = GroupSum(requests', g) + q
           /\ \A h \in Groups \ {g} : GroupSum(requests', h) = GroupSum(requests, h) /\ groups'[h] = groups[h]
           /\ groups'[g].ordered = GroupSum(requests', g) /\ groups'[g].used /\ groups[g].used
           /\ groups'[g].threshold = groups[g].threshold
           /\ told' = {h \in told : groups'[h].ordered >= groups'[h].threshold}
<1>0. PICK x, g, q : x = calls[c].id /\ g = calls[c].group /\ q = calls[c].row.quantity
  OBVIOUS
<1>1. /\ Writes(c, "remove") /\ End(c) /\ SetOrdered(g, Less(calls[c].seen, q), groups[g].threshold)
      /\ requests' = [requests EXCEPT ![x] = [Unused EXCEPT !.status = "deleted"]]
  BY <1>0 DEF RemoveRequest
<1>2. /\ x \in Ids /\ g \in Groups /\ q \in Quantities /\ q \in Nat /\ Less(calls[c].seen, q) \in Nat
      /\ groups[g].used /\ groups[g].threshold \in Criteria
  BY <1>0, <1>1, RemoveCarries DEF Inv, TypeOK, Group
<1>3. Exists(x) /\ requests[x].group = g /\ requests[x].quantity = q /\ calls[c].seen = groups[g].ordered
  BY <1>0, <1>1 DEF CountsSeen, CountSeen
<1>4. requests'[x].status = "deleted" /\ \A y \in Ids \ {x} : requests'[y] = requests[y]
  BY <1>1, <1>2 DEF Inv, TypeOK, Unused
<1>5. PICK new, old : /\ new = requests' /\ old = requests
                      /\ new \in [Ids -> Request] /\ old \in [Ids -> Request]
  <2>1. requests' \in [Ids -> Request]
    BY <1>1, <1>2, IdleTyped DEF Inv, TypeOK, Unused, Request, Rows
  <2> QED  BY <2>1 DEF Inv, TypeOK
<1>6. /\ GroupSum(old, g) = GroupSum(new, g) + q /\ GroupSum(new, g) \in Nat
      /\ \A h \in Groups \ {g} : GroupSum(new, h) = GroupSum(old, h)
  <2>1. /\ new[x].status \notin Decisions /\ old[x].status \in Decisions /\ old[x].group = g /\ old[x].quantity = q
        /\ \A y \in Ids \ {x} : old[y] = new[y]
    BY <1>3, <1>4, <1>5 DEF Exists, Decisions
  <2>2. \A h : GroupSum(old, h) = IF old[x].group = h THEN GroupSum(new, h) + old[x].quantity
                                  ELSE GroupSum(new, h)
    BY <1>2, <1>5, <2>1, GroupSumAdd
  <2>3. GroupSum(new, g) \in Nat
    BY <1>5, MembersFinite
  <2> QED  BY <2>1, <2>2, <2>3
<1>7. groups[g].ordered = GroupSum(requests, g)
  BY <1>2, GroupSumIs DEF OrderedIsSum, Counted
<1>8. Less(calls[c].seen, q) = GroupSum(new, g)
  <2> PICK n : n = GroupSum(new, g) /\ n \in Nat
    BY <1>6
  <2>1. calls[c].seen = n + q /\ calls[c].seen \in Nat
    BY <1>2, <1>3, <1>5, <1>6, <1>7
  <2> QED  BY <1>2, <2>1, LessIs
<1>9. /\ groups'[g].ordered = GroupSum(new, g) /\ groups'[g].used
      /\ groups'[g].threshold = groups[g].threshold
      /\ \A h \in Groups \ {g} : groups'[h] = groups[h]
      /\ told' = {h \in told : groups'[h].ordered >= groups'[h].threshold}
  BY <1>1, <1>2, <1>8, SetOrderedIs
<1>10. /\ calls'[c] = Idle /\ \A d \in Callers \ {c} : calls'[d] = calls[d]
       /\ Kind(c) = "remove"
  BY <1>1, EndOK DEF Writes
<1> QED  BY <1>2, <1>3, <1>4, <1>5, <1>6, <1>9, <1>10 DEF Exists, Decisions

\* What was counted is what was read, as long as nothing else counts.
LEMMA SeenStays ==
  ASSUME Inv, CountsSeen, SameCounts, Unspoiled(Counted), NEW d \in Callers, calls'[d] = calls[d]
  PROVE  CountSeen(d)'
<1>1. CountSeen(d) /\ CallOK(calls[d])
  BY DEF CountsSeen, Inv, CallsOK
<1>2. PICK call : call = calls[d]
  OBVIOUS
<1>3. Writes(d, "create")' => call.seen = IF call.group = None THEN 0 ELSE groups'[call.group].ordered
  <2>1. call.group \in Groups \cup {None}
    BY <1>2 DEF Inv, TypeOK, Call
  <2> QED  BY <1>1, <1>2, <2>1 DEF CountSeen, SameCounts, SameGroup, Writes, Kind
<1>4. Writes(d, "remove")' =>
        /\ requests'[call.id].status \in Decisions /\ call.group = requests'[call.id].group
        /\ call.row.quantity = requests'[call.id].quantity
        /\ call.seen = groups'[call.group].ordered
  <2> SUFFICES ASSUME Writes(d, "remove")'
               PROVE  /\ requests'[call.id].status \in Decisions /\ call.group = requests'[call.id].group
                      /\ call.row.quantity = requests'[call.id].quantity
                      /\ call.seen = groups'[call.group].ordered
    OBVIOUS
  <2>1. Writes(d, "remove")
    BY DEF Writes, Kind
  <2>2. call.id \in Ids /\ call.group \in Groups
    BY <1>1, <1>2, <2>1 DEF CallOK, Writes, Kind
  <2> QED  BY <1>1, <1>2, <2>1, <2>2 DEF CountSeen, SameCounts, SameGroup, Exists
<1> QED  BY <1>2, <1>3, <1>4 DEF CountSeen, Exists

LEMMA NotWriting ==
  ASSUME NEW d \in Callers, Kind(d)' \notin Counting
  PROVE  CountSeen(d)'
BY DEF CountSeen, Writes, Counting, Kind

LEMMA CountsStep ==
  Inv /\ AllAlone /\ CountsSeen /\ OrderedIsSum /\ [Next]_vars => CountsSeen' /\ OrderedIsSum'
<1> SUFFICES ASSUME Inv, AllAlone, CountsSeen, OrderedIsSum, [Next]_vars, Unspoiled(Counted)'
             PROVE  (\A d \in Callers : CountSeen(d)')
                    /\ \A g \in Groups : groups'[g].ordered = GroupSum(requests', g)
  <2>1. \A g : SumFunctionOnSet(Quantity, InGroup(g))' = GroupSum(requests', g)
    BY DEF GroupSum, Quantity, QuantityOf, InGroup, MembersOf, Exists
  <2> QED  BY <2>1 DEF CountsSeen, OrderedIsSum, Counted
<1>0. /\ Unspoiled(Counted) /\ Inv' /\ AllAlone'
      /\ \A g \in Groups : groups[g].ordered = GroupSum(requests, g)
  BY SpoiledGrows, NextInv, AllAloneStep, GroupSumIs DEF Unspoiled, OrderedIsSum, Counted
<1>1. \A c, d \in Callers : Kind(c)' \in Counting /\ Kind(d)' \in Counting => c = d
  BY <1>0 DEF AllAlone, Alone, Unspoiled, Counted
<1>2. \A c, d \in Callers : Kind(c) \in Counting /\ Kind(d) \in Counting => c = d
  BY <1>0 DEF AllAlone, Alone, Unspoiled, Counted
<1>3. ASSUME SameCounts
      PROVE  \A g \in Groups : groups'[g].ordered = GroupSum(requests', g)
  BY <1>0, <1>3, SameSums DEF SameCounts, SameGroup
<1>4. CASE UNCHANGED <<requests, groups, calls>>
  <2>1. SameCounts
    BY <1>4 DEF SameCounts, SameGroup, Exists
  <2> QED  BY <1>0, <1>3, <1>4, <2>1, SeenStays
<1>5. ASSUME NEW c \in Callers, Begins(c)
      PROVE  (\A d \in Callers : CountSeen(d)')
             /\ \A g \in Groups : groups'[g].ordered = GroupSum(requests', g)
  <2>1. /\ UNCHANGED <<requests, groups>> /\ Reads(calls'[c])
        /\ \A d \in Callers \ {c} : calls'[d] = calls[d]
    BY <1>5, BeginsStarts
  <2>2. SameCounts
    BY <2>1 DEF SameCounts, SameGroup, Exists
  <2>3. CountSeen(c)'
    BY <2>1 DEF CountSeen, Reads, Writes, Kind, Exists
  <2> QED  BY <1>0, <1>3, <2>1, <2>2, <2>3, SeenStays
<1>6. ASSUME NEW c \in Callers, FindOngoingGroup(c)
      PROVE  (\A d \in Callers : CountSeen(d)')
             /\ \A g \in Groups : groups'[g].ordered = GroupSum(requests', g)
  <2>1. PICK g, n : /\ calls' = [calls EXCEPT ![c].next = "write", ![c].group = g, ![c].seen = n,
                                              ![c].threshold = criteria]
                    /\ n = IF g = None THEN 0 ELSE groups[g].ordered
    BY <1>6 DEF FindOngoingGroup
  <2>2. /\ calls'[c].group = g /\ calls'[c].seen = n /\ Kind(c)' = "create"
        /\ \A d \in Callers \ {c} : calls'[d] = calls[d]
    BY <1>6, <2>1 DEF FindOngoingGroup, Inv, TypeOK, Call, Kind
  <2>3. UNCHANGED <<requests, groups>> /\ SameCounts
    BY <1>6 DEF FindOngoingGroup, SameCounts, SameGroup, Exists
  <2>4. CountSeen(c)'
    BY <2>1, <2>2, <2>3 DEF CountSeen, Writes
  <2> QED  BY <1>0, <1>3, <2>2, <2>3, <2>4, SeenStays
<1>7. ASSUME NEW c \in Callers, CreateRequest(c)
      PROVE  (\A d \in Callers : CountSeen(d)')
             /\ \A g \in Groups : groups'[g].ordered = GroupSum(requests', g)
  <2>1. PICK x \in Ids, g \in Groups, q \in Quantities :
          /\ calls'[c].next = "ready" /\ Kind(c) = "create"
          /\ \A d \in Callers \ {c} : calls'[d] = calls[d]
          /\ requests[x].status \notin Decisions /\ requests'[x].status \in Decisions
          /\ requests'[x].group = g /\ requests'[x].quantity = q
          /\ \A y \in Ids \ {x} : requests'[y] = requests[y]
          /\ groups'[g].ordered = groups[g].ordered + q
          /\ \A h \in Groups \ {g} : groups'[h] = groups[h]
    BY <1>0, <1>7, CreateCounts
  <2>2. PICK new, old : /\ new = requests' /\ old = requests
                        /\ new \in [Ids -> Request] /\ old \in [Ids -> Request]
    BY <1>0 DEF Inv, TypeOK
  <2>3. \A h : GroupSum(new, h) = IF g = h THEN GroupSum(old, h) + q ELSE GroupSum(old, h)
    BY <2>1, <2>2, GroupSumAdd
  <2>4. \A d \in Callers : CountSeen(d)'
    <3>1. CountSeen(c)'
      BY <2>1 DEF CountSeen, Writes
    <3>2. \A d \in Callers \ {c} : Kind(d)' \notin Counting
      BY <1>2, <2>1 DEF Kind, Counting
    <3> QED  BY <3>1, <3>2, NotWriting
  <2> QED  BY <1>0, <2>1, <2>2, <2>3, <2>4
<1>8. ASSUME NEW c \in Callers, RemoveRequest(c)
      PROVE  (\A d \in Callers : CountSeen(d)')
             /\ \A g \in Groups : groups'[g].ordered = GroupSum(requests', g)
  <2>1. PICK g \in Groups :
          /\ calls'[c] = Idle /\ Kind(c) = "remove" /\ \A d \in Callers \ {c} : calls'[d] = calls[d]
          /\ \A h \in Groups \ {g} : GroupSum(requests', h) = GroupSum(requests, h) /\ groups'[h] = groups[h]
          /\ groups'[g].ordered = GroupSum(requests', g)
    BY <1>0, <1>8, RemoveCounts
  <2>2. \A d \in Callers : Kind(d)' \notin Counting
    BY <1>2, <2>1 DEF Kind, Counting, Idle
  <2> QED  BY <1>0, <2>1, <2>2, NotWriting
<1>9. ASSUME NEW c \in Callers, Goes(c), ~FindOngoingGroup(c), ~CreateRequest(c), ~RemoveRequest(c)
      PROVE  (\A d \in Callers : CountSeen(d)')
             /\ \A g \in Groups : groups'[g].ordered = GroupSum(requests', g)
  <2>1. SameCounts /\ calls'[c] = Idle /\ \A d \in Callers \ {c} : calls'[d] = calls[d]
    BY <1>9, GoesQuietly, GoesKinds DEF Unspoiled, Counted
  <2>2. CountSeen(c)'
    BY <2>1, NotWriting DEF Kind, Idle, Counting
  <2> QED  BY <1>0, <1>3, <2>1, <2>2, SeenStays
<1>10. ASSUME NEW x \in Ids, CancelWindowEnds(x)
       PROVE  (\A d \in Callers : CountSeen(d)')
              /\ \A g \in Groups : groups'[g].ordered = GroupSum(requests', g)
  <2>1. SameCounts /\ calls' = calls
    BY <1>10 DEF CancelWindowEnds, SameCounts, SameGroup, Exists, Inv, TypeOK, Request
  <2> QED  BY <1>0, <1>3, <2>1, SeenStays
<1> QED  BY <1>4, <1>5, <1>6, <1>7, <1>8, <1>9, <1>10 DEF Next, Goes, vars, UpdateProduct

CountInv == Inv /\ AllAlone /\ CountsSeen /\ OrderedIsSum
LEMMA CountInit == Init => CountInv
<1> SUFFICES ASSUME Init PROVE CountsSeen /\ OrderedIsSum
  BY InitInv, AllAloneInit DEF CountInv
<1>1. CountsSeen
  BY DEF Init, CountsSeen, CountSeen, Writes, Kind, Idle
<1>2. ASSUME NEW g \in Groups
      PROVE  groups[g].ordered = 0 /\ InGroup(g) = {}
  BY DEF Init, InGroup, Exists, Unused, Decisions, NewGroup
<1>3. OrderedIsSum
  BY <1>2, SumEmpty DEF OrderedIsSum
<1> QED  BY <1>1, <1>3

LEMMA CountInvariance == Spec => []CountInv
<1>1. CountInv /\ [Next]_vars => CountInv'
  BY NextInv, AllAloneStep, CountsStep DEF CountInv
<1> QED  BY <1>1, CountInit, PTL DEF Spec

\* A group's count is the sum of the quantities of its requests through creations, decisions,
\* undoings and removals that may overlap, as long as no two calls that count overlap: what is
\* subtracted is what was counted.
THEOREM CountIsSum == Spec => []OrderedIsSum
<1>1. CountInv => OrderedIsSum
  BY DEF CountInv
<1> QED  BY <1>1, CountInvariance, PTL

(***************************************************************************)
(* The product has one group, and the call that makes it full will say so.      *)
(***************************************************************************)
OneGroup ==
  Unspoiled({"creates"}) =>
    /\ \A g, h \in Groups : groups[g].used /\ groups[h].used => g = h
    /\ \A c \in Callers : Writes(c, "create") /\ calls[c].group = None => \A g \in Groups : ~groups[g].used

LEMMA UsedSame ==
  ASSUME OneGroup, Unspoiled({"creates"}), \A g \in Groups : groups'[g].used = groups[g].used,
         \A d \in Callers : Writes(d, "create")' /\ calls'[d].group = None =>
           \/ calls'[d] = calls[d]
           \/ \A g \in Groups : ~groups[g].used
  PROVE  OneGroup'
<1>1. ASSUME NEW d \in Callers, Writes(d, "create")', calls'[d].group = None
      PROVE  \A g \in Groups : ~groups[g].used
  <2>1. CASE calls'[d] = calls[d]
    BY <1>1, <2>1 DEF OneGroup, Writes, Kind
  <2> QED  BY <1>1, <2>1
<1> QED  BY <1>1 DEF OneGroup

LEMMA OneGroupStep == Inv /\ AllAlone /\ OneGroup /\ [Next]_vars => OneGroup'
<1> SUFFICES ASSUME Inv, AllAlone, OneGroup, [Next]_vars, Unspoiled({"creates"})'
             PROVE  OneGroup'
  BY DEF OneGroup
<1>0. Unspoiled({"creates"})
  BY SpoiledGrows DEF Unspoiled
<1>1. CASE UNCHANGED <<groups, calls>>
  BY <1>0, <1>1, UsedSame
<1>2. ASSUME NEW c \in Callers, Begins(c)
      PROVE  OneGroup'
  <2>1. /\ groups' = groups /\ Reads(calls'[c]) /\ \A d \in Callers \ {c} : calls'[d] = calls[d]
    BY <1>2, BeginsStarts
  <2>2. ~Writes(c, "create")'
    BY <2>1 DEF Reads, Writes, Kind
  <2> QED  BY <1>0, <2>1, <2>2, UsedSame
<1>3. ASSUME NEW c \in Callers, FindOngoingGroup(c)
      PROVE  OneGroup'
  <2>1. PICK g, n : /\ calls' = [calls EXCEPT ![c].next = "write", ![c].group = g, ![c].seen = n,
                                              ![c].threshold = criteria]
                    /\ g \in IF {h \in Groups : groups[h].used} = {} THEN {None} ELSE Groups
    BY <1>3 DEF FindOngoingGroup
  <2>2. /\ calls'[c].group = g /\ groups' = groups
        /\ \A d \in Callers \ {c} : calls'[d] = calls[d]
    BY <1>3, <2>1 DEF FindOngoingGroup, Inv, TypeOK, Call
  <2>3. calls'[c].group = None => \A h \in Groups : ~groups[h].used
    BY <2>1, <2>2, Constants
  <2> QED  BY <1>0, <2>2, <2>3, UsedSame
<1>4. ASSUME NEW c \in Callers, CreateRequest(c)
      PROVE  OneGroup'
  <2>1. PICK g \in Groups, n \in Nat, t \in Criteria :
          /\ \/ g = calls[c].group
             \/ calls[c].group = None /\ ~groups[g].used
          /\ SetOrdered(g, n, t)
          /\ calls'[c].next = "ready" /\ Creating(c)
          /\ \A d \in Callers \ {c} : calls'[d] = calls[d]
    BY <1>4, CreateCarries
  <2>2. groups'[g].used /\ \A h \in Groups \ {g} : groups'[h] = groups[h]
    BY <2>1, SetOrderedIs
  <2>3. /\ Writes(c, "create") /\ CallOK(calls[c])
        /\ \A d \in Callers \ {c} : Kind(d) # "create"
    BY <1>0, <1>4, <2>1 DEF CreateRequest, Inv, CallsOK, AllAlone, Alone, Creating, Writes
  <2>4. \A h \in Groups \ {g} : ~groups[h].used
    <3>1. CASE calls[c].group = None
      BY <1>0, <2>3, <3>1 DEF OneGroup
    <3>2. CASE g = calls[c].group
      BY <1>0, <2>3, <3>2 DEF OneGroup, CallOK
    <3> QED  BY <2>1, <3>1, <3>2
  <2>5. \A d \in Callers : ~Writes(d, "create")'
    BY <2>1, <2>3 DEF Writes, Kind
  <2> QED  BY <2>2, <2>4, <2>5 DEF OneGroup
<1>5. ASSUME NEW c \in Callers, Goes(c), ~FindOngoingGroup(c), ~CreateRequest(c)
      PROVE  OneGroup'
  <2>1. calls'[c] = Idle /\ \A d \in Callers \ {c} : calls'[d] = calls[d]
    BY <1>5, GoesKinds
  <2>2. \A g \in Groups : groups'[g].used = groups[g].used
    <3>1. CASE RemoveRequest(c)
      <4> PICK g, n : g = calls[c].group /\ n = Less(calls[c].seen, calls[c].row.quantity)
        OBVIOUS
      <4>1. /\ g \in Groups /\ groups[g].used /\ n \in Nat /\ groups[g].threshold \in Criteria
            /\ SetOrdered(g, n, groups[g].threshold)
        BY <3>1, RemoveCarries DEF RemoveRequest, Inv, TypeOK, Group
      <4>2. groups'[g].used /\ \A h \in Groups \ {g} : groups'[h] = groups[h]
        BY <4>1, SetOrderedIs
      <4>3. groups \in [Groups -> Group] /\ groups' \in [Groups -> Group]
        BY <4>1, SetOrderedIs DEF Inv, TypeOK
      <4> QED  BY <4>1, <4>2, <4>3 DEF Group
    <3>2. CASE ApproveOngoingGroup(c)
      BY <3>2 DEF ApproveOngoingGroup, Inv, TypeOK, Group
    <3>3. CASE RejectOngoingGroup(c)
      BY <3>3 DEF RejectOngoingGroup, Inv, TypeOK, Group
    <3>4. CASE UndoRequest(c)
      BY <3>4 DEF UndoRequest, Inv, TypeOK, Group
    <3>5. CASE groups' = groups
      BY <3>5
    <3> QED
      BY <1>5, <3>1, <3>2, <3>3, <3>4, <3>5 DEF Goes, NotifyAdminsGroupReady, UpdateRequest, GiveUp
  <2>3. ~Writes(c, "create")'
    BY <2>1 DEF Writes, Kind, Idle
  <2> QED  BY <1>0, <2>1, <2>2, <2>3, UsedSame
<1>6. ASSUME NEW x \in Ids, CancelWindowEnds(x)
      PROVE  OneGroup'
  BY <1>0, <1>6, UsedSame DEF CancelWindowEnds
<1> QED  BY <1>1, <1>2, <1>3, <1>4, <1>5, <1>6 DEF Next, Goes, vars, UpdateProduct

WillTell(c, g) ==
  /\ calls[c].next = "ready" /\ Exists(calls[c].id) /\ requests[calls[c].id].group = g
  /\ Crosses(groups[g], requests[calls[c].id].quantity)
Telling == {"creates", "counts", "lowered", "death"}
Reached(g) == groups[g].used /\ groups[g].ordered >= groups[g].threshold
Notified ==
  Unspoiled(Telling) =>
    \A g \in Groups : Reached(g) => g \in told \/ \E c \in Callers : WillTell(c, g)

\* A group that is used has a threshold, once no creation has written one of zero.
Positive == Unspoiled({"lowered"}) => \A g \in Groups : groups[g].used => groups[g].threshold # 0
LEMMA PositiveStep == Inv /\ Positive /\ [Next]_vars => Positive'
<1> SUFFICES ASSUME Inv, Positive, [Next]_vars, Unspoiled({"lowered"})'
             PROVE  \A g \in Groups : groups'[g].used => groups'[g].threshold # 0
  BY DEF Positive
<1>0. \A g \in Groups : groups[g].used => groups[g].threshold # 0
  BY SpoiledGrows DEF Unspoiled, Positive
<1>1. CASE groups' = groups
  BY <1>0, <1>1
<1>2. ASSUME NEW c \in Callers, CreateRequest(c)
      PROVE  \A g \in Groups : groups'[g].used => groups'[g].threshold # 0
  <2>1. PICK g \in Groups, n \in Nat, t \in Criteria :
          SetOrdered(g, n, t) /\ (Uncrossed(g, t) => "lowered" \in spoiled')
    BY <1>2, CreateCarries
  <2>2. t # 0
    BY <2>1 DEF Uncrossed, Unspoiled
  <2> QED  BY <1>0, <2>1, <2>2, SetOrderedIs
<1>3. ASSUME NEW c \in Callers, RemoveRequest(c)
      PROVE  \A g \in Groups : groups'[g].used => groups'[g].threshold # 0
  <2> PICK g, n : g = calls[c].group /\ n = Less(calls[c].seen, calls[c].row.quantity)
    OBVIOUS
  <2>1. /\ g \in Groups /\ groups[g].used /\ n \in Nat /\ groups[g].threshold \in Criteria
        /\ SetOrdered(g, n, groups[g].threshold)
    BY <1>3, RemoveCarries DEF RemoveRequest, Inv, TypeOK, Group
  <2> QED  BY <1>0, <2>1, SetOrderedIs
<1>4. ASSUME NEW c \in Callers, ApproveOngoingGroup(c) \/ RejectOngoingGroup(c) \/ UndoRequest(c)
      PROVE  \A g \in Groups : groups'[g].used = groups[g].used /\ groups'[g].threshold = groups[g].threshold
  BY <1>4 DEF ApproveOngoingGroup, RejectOngoingGroup, UndoRequest, Inv, TypeOK, Group
<1>5. ASSUME NEW c \in Callers, Begins(c) \/ Goes(c), ~CreateRequest(c), ~RemoveRequest(c),
             ~ApproveOngoingGroup(c), ~RejectOngoingGroup(c), ~UndoRequest(c)
      PROVE  groups' = groups
  BY <1>5, BeginsStarts DEF Goes, FindOngoingGroup, NotifyAdminsGroupReady, UpdateRequest, GiveUp
<1> QED  BY <1>0, <1>1, <1>2, <1>3, <1>4, <1>5 DEF Next, vars, CancelWindowEnds, UpdateProduct

LEMMA ReadyIsCreate ==
  ASSUME Inv, NEW c \in Callers, calls[c].next = "ready"
  PROVE  Kind(c) = "create" /\ calls[c].id \in Ids
<1>1. CallOK(calls[c]) /\ calls[c] # Idle
  BY DEF Inv, CallsOK, Idle
<1> QED  BY <1>1 DEF CallOK, Kind

\* A call that will tell still will, as long as nothing counted changes and it is not one of
\* those that go on.
LEMMA TellStays ==
  ASSUME Inv, Notified, Unspoiled(Telling), SameCounts, told \subseteq told', NEW C,
         \A d \in Callers \ C : calls'[d] = calls[d],
         \A c \in Callers \cap C, g \in Groups : WillTell(c, g) => g \in told'
  PROVE  Notified'
<1> SUFFICES ASSUME NEW g \in Groups, Reached(g)'
             PROVE  g \in told' \/ \E d \in Callers : WillTell(d, g)'
  BY DEF Notified
<1>1. groups'[g].ordered = groups[g].ordered /\ groups'[g].threshold = groups[g].threshold /\ Reached(g)
  BY DEF SameCounts, SameGroup, Reached
<1>2. ASSUME NEW d \in Callers, WillTell(d, g), d \notin C
      PROVE  WillTell(d, g)'
  <2> PICK call : call = calls[d]
    OBVIOUS
  <2>1. calls'[d] = call /\ call.id \in Ids
    BY <1>2, ReadyIsCreate DEF WillTell
  <2>2. /\ call.next = "ready" /\ requests'[call.id].status \in Decisions /\ requests'[call.id].group = g
        /\ Crosses(groups'[g], requests'[call.id].quantity)
    BY <1>1, <1>2, <2>1 DEF WillTell, SameCounts, Exists, Crosses
  <2> QED  BY <2>1, <2>2 DEF WillTell, Exists, Crosses
<1>3. g \in told \/ \E d \in Callers : WillTell(d, g)
  BY <1>1 DEF Notified
<1>4. ASSUME NEW d \in Callers, WillTell(d, g), d \in C
      PROVE  g \in told'
  BY <1>4
<1> QED  BY <1>2, <1>3, <1>4

LEMMA TellStaysOfOthers ==
  ASSUME Inv, Notified, Unspoiled(Telling), SameCounts, told \subseteq told', NEW c \in Callers,
         \A d \in Callers \ {c} : calls'[d] = calls[d], \A g \in Groups : WillTell(c, g) => g \in told'
  PROVE  Notified'
<1> PICK C : C = {c}
  OBVIOUS
<1>1. \A d \in Callers \ C : calls'[d] = calls[d]
  OBVIOUS
<1>2. \A d \in Callers \cap C, g \in Groups : WillTell(d, g) => g \in told'
  OBVIOUS
<1> QED  BY <1>1, <1>2, TellStays

LEMMA NotifiedStep ==
  Inv /\ AllAlone /\ CountsSeen /\ OrderedIsSum /\ Notified /\ [Next]_vars => Notified'
<1> SUFFICES ASSUME Inv, AllAlone, CountsSeen, OrderedIsSum, Notified, [Next]_vars, Unspoiled(Telling)'
             PROVE  Notified'
  BY DEF Notified
<1>0. Unspoiled(Telling) /\ Unspoiled(Counted)
  BY SpoiledGrows DEF Unspoiled, Telling, Counted
<1>1. CASE UNCHANGED <<requests, groups, calls, told>>
  <2>1. SameCounts
    BY <1>1 DEF SameCounts, SameGroup, Exists
  <2>2. \A d \in Callers \ {} : calls'[d] = calls[d]
    BY <1>1
  <2>3. Callers \cap {} = {} /\ told \subseteq told'
    BY <1>1
  <2> QED  BY <1>0, <2>1, <2>2, <2>3, TellStays
<1>2. ASSUME NEW c \in Callers, Begins(c)
      PROVE  Notified'
  <2>1. UNCHANGED <<requests, groups, criteria, told>> /\ calls[c] = Idle /\ \A d \in Callers \ {c} : calls'[d] = calls[d]
    BY <1>2, BeginsStarts
  <2>2. SameCounts /\ \A g \in Groups : ~WillTell(c, g)
    BY <2>1 DEF SameCounts, SameGroup, Exists, Idle, WillTell
  <2> QED  BY <1>0, <2>1, <2>2, TellStaysOfOthers
<1>3. ASSUME NEW c \in Callers, FindOngoingGroup(c)
      PROVE  Notified'
  <2>1. UNCHANGED <<requests, groups, criteria, told>> /\ \A g \in Groups : ~WillTell(c, g)
    BY <1>3 DEF FindOngoingGroup, WillTell
  <2>2. SameCounts /\ \A d \in Callers \ {c} : calls'[d] = calls[d]
    BY <1>3, <2>1, GoesKinds DEF SameCounts, SameGroup, Exists, Goes
  <2> QED  BY <1>0, <2>1, <2>2, TellStaysOfOthers
<1>4. ASSUME NEW c \in Callers, CreateRequest(c)
      PROVE  Notified'
  <2>1. PICK x \in Ids, g \in Groups, q \in Quantities :
          /\ calls'[c].id = x /\ calls'[c].next = "ready" /\ calls[c].next = "write" /\ Kind(c) = "create"
          /\ requests'[x].status \in Decisions /\ requests'[x].group = g /\ requests'[x].quantity = q
          /\ groups'[g].ordered = groups[g].ordered + q
          /\ \A h \in Groups \ {g} : groups'[h] = groups[h]
          /\ told' = {h \in told : groups'[h].ordered >= groups'[h].threshold}
          /\ groups'[g].threshold \in Criteria
          /\ Uncrossed(g, groups'[g].threshold) => "lowered" \in spoiled'
    BY <1>0, <1>4, CreateCounts
  <2>2. \A d \in Callers : calls[d].next # "ready"
    <3>1. \A d \in Callers \ {c} : Kind(d) # "create"
      BY <1>0, <2>1 DEF AllAlone, Alone, Unspoiled, Telling
    <3> QED  BY <2>1, <3>1, ReadyIsCreate
  <2>3. \A h \in Groups : Reached(h) => h \in told
    BY <1>0, <2>2 DEF Notified, WillTell
  <2>4. \A h \in Groups \ {g} : Reached(h)' => h \in told'
    BY <2>1, <2>3 DEF Reached
  <2> PICK t : t = groups'[g].threshold
    OBVIOUS
  <2>5. Reached(g)' => g \in told' \/ WillTell(c, g)'
    <3>1. q \in Nat /\ groups[g].ordered \in Nat /\ t \in Nat
      BY <2>1, Constants DEF Inv, TypeOK, Group
    <3>2. t # 0 /\ (groups[g].ordered < t \/ groups[g].ordered >= groups[g].threshold)
      <4>1. groups[g].threshold \in Nat
        BY Constants DEF Inv, TypeOK, Group
      <4>2. ~Uncrossed(g, t)
        BY <2>1 DEF Unspoiled, Telling
      <4> QED  BY <3>1, <4>1, <4>2 DEF Uncrossed
    <3>3. CASE groups[g].ordered >= t
      <4>1. groups[g].used
        BY <3>1, <3>2, <3>3 DEF Inv, UnusedEmpty
      <4>2. Reached(g)
        BY <3>1, <3>2, <3>3, <4>1 DEF Reached
      <4> QED  BY <2>1, <2>3, <4>2 DEF Reached
    <3>4. CASE ~(groups[g].ordered >= t)
      <4>1. groups'[g].ordered - q < t
        BY <2>1, <3>1, <3>4
      <4>2. Reached(g)' => Crosses(groups'[g], q)
        BY <4>1 DEF Crosses, Reached
      <4> QED  BY <2>1, <4>2 DEF WillTell, Exists, Crosses
    <3> QED  BY <3>3, <3>4
  <2> QED  BY <2>4, <2>5 DEF Notified
<1>5. ASSUME NEW c \in Callers, RemoveRequest(c)
      PROVE  Notified'
  <2>1. PICK g \in Groups, q \in Quantities :
          /\ Kind(c) = "remove" /\ GroupSum(requests, g) = GroupSum(requests', g) + q
          /\ groups'[g].ordered = GroupSum(requests', g)
          /\ groups'[g].threshold = groups[g].threshold /\ groups[g].used
          /\ \A h \in Groups \ {g} : groups'[h] = groups[h]
          /\ told' = {h \in told : groups'[h].ordered >= groups'[h].threshold}
    BY <1>0, <1>5, RemoveCounts
  <2>2. \A d \in Callers : calls[d].next # "ready"
    <3>1. \A d \in Callers : Kind(d) # "create"
      BY <1>0, <2>1 DEF AllAlone, Alone, Unspoiled, Telling, Counting
    <3> QED  BY <3>1, ReadyIsCreate
  <2>3. \A h \in Groups : Reached(h) => h \in told
    BY <1>0, <2>2 DEF Notified, WillTell
  <2>4. groups[g].ordered = groups'[g].ordered + q /\ q \in Nat
    BY <1>0, <2>1, GroupSumIs, Constants DEF OrderedIsSum, Counted
  <2>5. groups'[g].ordered \in Nat /\ groups[g].threshold \in Nat
    <3>1. Inv'
      BY NextInv
    <3> QED  BY <3>1, Constants DEF Inv, TypeOK, Group
  <2>6. Reached(g)' => Reached(g) /\ g \in told'
    BY <2>1, <2>3, <2>4, <2>5 DEF Reached
  <2> QED  BY <2>1, <2>3, <2>6 DEF Notified, Reached
<1>6. ASSUME NEW c \in Callers, Goes(c), ~FindOngoingGroup(c), ~CreateRequest(c), ~RemoveRequest(c)
      PROVE  Notified'
  <2>1. SameCounts /\ \A d \in Callers \ {c} : calls'[d] = calls[d]
    BY <1>0, <1>6, GoesQuietly, GoesKinds
  <2>2. CASE NotifyAdminsGroupReady(c)
    <3>1. told' = IF Exists(calls[c].id) /\ Crosses(groups[requests[calls[c].id].group],
                                                    requests[calls[c].id].quantity)
                  THEN told \cup {requests[calls[c].id].group} ELSE told
      BY <2>2 DEF NotifyAdminsGroupReady
    <3>2. told \subseteq told' /\ \A g \in Groups : WillTell(c, g) => g \in told'
      BY <3>1 DEF WillTell
    <3> QED  BY <1>0, <2>1, <3>2, TellStaysOfOthers
  <2>3. CASE ~NotifyAdminsGroupReady(c)
    <3>1. told' = told /\ \A g \in Groups : ~WillTell(c, g)
      <4>1. CASE GiveUp(c)
        BY <4>1 DEF GiveUp, Unspoiled, Telling, WillTell
      <4>2. CASE ~GiveUp(c)
        BY <1>6, <2>3, <4>2 DEF Goes, UpdateRequest, ApproveOngoingGroup, RejectOngoingGroup, UndoRequest,
           Decide, Writes, WillTell
      <4> QED  BY <4>1, <4>2
    <3> QED  BY <1>0, <2>1, <3>1, TellStaysOfOthers
  <2> QED  BY <2>2, <2>3
<1>7. ASSUME NEW x \in Ids, CancelWindowEnds(x)
      PROVE  Notified'
  <2>1. SameCounts /\ UNCHANGED <<groups, calls, told>>
    BY <1>7 DEF CancelWindowEnds, SameCounts, SameGroup, Exists, Inv, TypeOK, Request
  <2>2. \A d \in Callers \ {} : calls'[d] = calls[d]
    BY <2>1
  <2>3. Callers \cap {} = {} /\ told \subseteq told'
    BY <2>1
  <2> QED  BY <1>0, <2>1, <2>2, <2>3, TellStays
<1> QED  BY <1>1, <1>2, <1>3, <1>4, <1>5, <1>6, <1>7 DEF Next, Goes, vars, UpdateProduct

\* The items of the requests that are open are some of those the one group counts.
LEMMA CustomersSeeLess ==
  ASSUME Inv, OrderedIsSum, OneGroup, Positive, Unspoiled(Counted), Unspoiled({"lowered"}),
         NEW k \in Groups, CustomersReady(k)
  PROVE  StaffReady(k)
<1> DEFINE S == {x \in Ids : Open(x)}
<1>1. \A x \in Ids : Quantity[x] \in Nat
  BY MembersFinite DEF Quantity, QuantityOf, Inv, TypeOK
<1>2. IsFiniteSet(S)
  BY FS_Subset, ConstantsAssumption
<1>3. OpenItems \in Nat
  <2> PICK f, T : f = Quantity /\ T = S /\ T \subseteq Ids
    OBVIOUS
  <2> HIDE DEF S
  <2>1. SumFunctionOnSet(f, T) \in Nat
    BY <1>1, <1>2, SumIsNat
  <2> QED  BY <2>1 DEF OpenItems, S
<1>4. groups[k].used /\ groups[k].threshold # 0 /\ OpenItems >= groups[k].threshold
  BY DEF CustomersReady, CustomersThreshold, Positive
<1>5. \A y \in Ids : Open(y) => Exists(y) /\ requests[y].group \in Groups /\ groups[requests[y].group].used
  BY DEF Open, Exists, Decisions, Inv, RowsOK, RowOK
<1>6. \A y \in S : y \in InGroup(k)
  BY <1>4, <1>5 DEF InGroup, OneGroup, Unspoiled, Counted
<1>7. S \in SUBSET InGroup(k) /\ InGroup(k) # {}
  BY <1>6 DEF CustomersReady, OpenVariants
<1>8. OpenItems <= SumFunctionOnSet(Quantity, InGroup(k))
  <2> PICK f, T, U : f = Quantity /\ T = InGroup(k) /\ U = S
    OBVIOUS
  <2>1. IsFiniteSet(T) /\ T \subseteq Ids
    BY FS_Subset, ConstantsAssumption DEF InGroup
  <2>2. SumFunctionOnSet(f, U) <= SumFunctionOnSet(f, T)
    BY <1>1, <1>7, <2>1, SumPart
  <2> QED  BY <2>2 DEF OpenItems
<1>9. /\ groups[k].ordered = SumFunctionOnSet(Quantity, InGroup(k)) /\ groups[k].ordered \in Nat
      /\ groups[k].threshold \in Nat
  BY Constants DEF OrderedIsSum, Counted, Inv, TypeOK, Group
<1>10. groups[k].ordered >= groups[k].threshold /\ groups[k].threshold > 0
  BY <1>3, <1>4, <1>8, <1>9
<1> QED  BY <1>4, <1>7, <1>10 DEF StaffReady, StaffThreshold

ReadyInv == CountInv /\ OneGroup /\ Positive /\ Notified
LEMMA ReadyInvariance == Spec => []ReadyInv
<1>1. Init => ReadyInv
  <2> SUFFICES ASSUME Init PROVE OneGroup /\ Positive /\ Notified
    BY CountInit DEF ReadyInv
  <2>1. \A g \in Groups : ~groups[g].used
    BY DEF Init, NewGroup
  <2> QED  BY <2>1 DEF Init, OneGroup, Positive, Notified, Reached, Writes, Kind, Idle
<1>2. ReadyInv /\ [Next]_vars => ReadyInv'
  BY NextInv, AllAloneStep, CountsStep, OneGroupStep, PositiveStep, NotifiedStep DEF ReadyInv, CountInv
<1> QED  BY <1>1, <1>2, PTL DEF Spec

\* When nothing is going on, the staff have been told of every group at its threshold, and a
\* groupage customers see complete is one the staff have a group to decide on, as long as no
\* two calls that count overlap, no creation writes a threshold of zero or one that was
\* ordered already, and none died before its notice: the criteria may change at any time.
THEOREM ReadyGroupsTold == Spec => []ReadyIsTold
<1>1. ASSUME ReadyInv PROVE ReadyIsTold
  <2> SUFFICES ASSUME Unspoiled(Telling), \A c \in Callers : calls[c] = Idle
               PROVE  /\ \A g \in Groups : Reached(g) => g \in told
                      /\ \A g \in Groups : CustomersReady(g) => StaffReady(g)
    BY DEF ReadyIsTold, Telling, Reached
  <2>1. \A c \in Callers, g \in Groups : ~WillTell(c, g)
    BY DEF WillTell, Idle
  <2>2. Unspoiled(Counted) /\ Unspoiled({"lowered"})
    BY DEF Unspoiled, Counted, Telling
  <2> QED  BY <1>1, <2>1, <2>2, CustomersSeeLess DEF ReadyInv, CountInv, Notified
<1> QED  BY <1>1, ReadyInvariance, PTL
=============================================================================
