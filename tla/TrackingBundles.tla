---------------------------- MODULE TrackingBundles ----------------------------
(***************************************************************************)
(* Bundles of goods on their way: a supplier's bundle gets a row that moves    *)
(* from step to step until it is unpacked, when its customers' orders go on    *)
(* to a tracking leg of their own: tracking-bundles.repository and service.    *)
(* Nothing here runs in a transaction: every statement is a step of its own,   *)
(* calls interleave between statements and a process may die there.           *)
(* Rows have ids of their own and are looked up by the id of their supplier    *)
(* bundle first: the two kinds of ids are the same numbers.                   *)
(***************************************************************************)
EXTENDS Integers, FiniteSets, Sequences, SequencesExt, FiniteSetsExt

CONSTANTS
  Sources,      \* ids of suppliers' bundles
  Rows,         \* ids of tracking_bundles rows
  Orders, Linked,   \* the orders of each supplier's bundle, through its inventory
  Calls,        \* slots for calls in progress
  Start, Unpack,    \* BUNDLE_MANUAL_STEP_MIN and BUNDLE_TO_ORDER_STEP_ORDER
  LastStep,     \* of the tracking_steps, the order leg's included
  Notes,        \* what staff write on an order
  MaxStage,     \* bound on the order leg: 1 is payment of kilo
  Codes, Patches,   \* bounds: the codes staff type in, the statuses they set
  MaxHistory,   \* bound on the history rows a bundle ever had
  Together,     \* bound: the kinds of calls that go on at once
  MaxCauses,    \* bound on the causes a behaviour goes on after
  None

ASSUME ConstantsAssumption ==
  /\ Sources \cup Rows \cup {Start, Unpack, MaxStage, MaxHistory} \subseteq Nat \ {0}
  /\ Start < Unpack /\ LastStep \in Nat /\ Unpack <= LastStep /\ Linked \in [Sources -> SUBSET Orders] /\ IsFiniteSet(Rows)
  /\ None \notin Nat \cup Orders \cup Notes

VARIABLES
  bundles,   \* tracking_bundles
  history,   \* tracking_bundle_history: steps in order, 0 for a row deleted
  items,     \* tracking_bundle_items, several rows for an order counted as one
  orders,    \* orders: placed yet, their status as a stage of their leg, notes
  calls,     \* calls in progress
  spoiled    \* history: what happened that a property cannot bear
vars == <<bundles, history, items, orders, calls, spoiled>>
data == <<bundles, history, items, orders>>

Steps == Start..Unpack   \* those updateStep takes; a PATCH takes any
AllSteps == 1..LastStep
Statuses == {"active", "closed", "cancelled"}
ASSUME BoundsAssumption == Codes \subseteq Sources \cup {None} /\ Patches \subseteq Statuses
Bundle == [used: BOOLEAN, source: Sources \cup {None}, code: Sources \cup {None},
           step: AllSteps, status: Statuses]
Order == [placed: BOOLEAN, stage: 0..MaxStage, notes: SUBSET Notes]
Ids == Sources \cup Rows
Kinds == {"idle", "step", "undo", "page", "change", "assign", "track"}
Points == {"none", "move", "log", "reopen", "erase", "insert", "page", "ensure", "backfill",
           "sync", "list", "promote", "send", "answer", "write"}
Call == [kind: Kinds, at: Points, id: Ids \cup {None}, row: Rows \cup {None}, to: AllSteps \cup {None},
         down: BOOLEAN, status: Statuses \cup {None}, entry: Nat, order: Orders \cup {None},
         left: SUBSET Orders, stage: 0..MaxStage, seen: SUBSET Notes, note: Notes \cup {None}]
Causes == {"moves", "tracks", "patch", "backward", "clash", "late", "removed", "death"}

Idle == [kind |-> "idle", at |-> "none", id |-> None, row |-> None, to |-> None, down |-> FALSE,
         status |-> None, entry |-> 0, order |-> None, left |-> {}, stage |-> 0, seen |-> {},
         note |-> None]
Blank == [used |-> FALSE, source |-> None, code |-> None, step |-> Start, status |-> "active"]

NewOrder == [placed |-> FALSE, stage |-> 0, notes |-> {}]

Init ==
  /\ bundles = [b \in Rows |-> Blank] /\ history = [b \in Rows |-> <<>>]
  /\ items = [b \in Rows |-> {}] /\ orders = [o \in Orders |-> NewOrder]
  /\ calls = [c \in Calls |-> Idle] /\ spoiled = {}

Used == {b \in Rows : bundles[b].used}
BySource(s) == {b \in Used : bundles[b].source = s}
\* findById: by supplier's bundle, else by its own id.
Found(id) == IF id \in Sources /\ BySource(id) # {} THEN BySource(id) ELSE {id} \cap Used
Inventory(b) == IF bundles[b].source = None THEN {} ELSE Linked[bundles[b].source]
LinkedTo(b) == {o \in Inventory(b) : orders[o].placed}
Entries(b) == {n \in 1..Len(history[b]) : history[b][n] # 0}
LogRoom(b) == Len(history[b]) < MaxHistory

(***************************************************************************)
(* Calls.                                                                  *)
(***************************************************************************)
Moving == {"step", "undo", "page", "change", "assign"}
Overlap(kind) ==
  {cause \in {"moves", "tracks"} :
     \E c \in Calls : \/ cause = "moves" /\ {kind, calls[c].kind} \subseteq Moving
                      \/ cause = "tracks" /\ "track" \in {kind, calls[c].kind} /\ calls[c] # Idle}
Begin(c, call) ==
  /\ calls[c] = Idle /\ calls' = [calls EXCEPT ![c] = call]
  /\ \A d \in Calls : calls[d] # Idle => {call.kind, calls[d].kind} \subseteq Together
At(c, point) == calls[c].at = point
Go(c, point) == calls' = [calls EXCEPT ![c].at = point]
Open(id) == [Idle EXCEPT !.kind = "page", !.at = "page", !.id = id]
\* A call ends by looking its row up again and opening the page of what it found.
ToPage(c, row) ==
  \E b \in Found(row) :
    calls' = [calls EXCEPT ![c] = Open(b)]
ToAnswer(c, row) ==
  calls' = [calls EXCEPT ![c] = [Idle EXCEPT !.kind = "page", !.at = "answer", !.row = row]]
End(c) == calls' = [calls EXCEPT ![c] = Idle]
Spoils(causes) == spoiled' = spoiled \cup causes
Dies(c) == calls[c].at \notin {"none", "answer"} /\ End(c) /\ Spoils({"death"}) /\ UNCHANGED data

(***************************************************************************)
(* updateStep: one step forward, or back with a reason.                     *)
(***************************************************************************)
NextOrBack(step, to) == to < step \/ to = step + 1
ReadStep(c, id, to) ==
  /\ \E b \in Found(id) :
       /\ NextOrBack(bundles[b].step, to) /\ LogRoom(b)
       /\ Begin(c, [Idle EXCEPT !.kind = "step", !.at = "move", !.row = b, !.to = to,
                                !.down = to < bundles[b].step, !.status = bundles[b].status])
  /\ Spoils(Overlap("step")) /\ UNCHANGED data
Move(c) ==
  /\ At(c, "move")
  /\ bundles' = [bundles EXCEPT ![calls[c].row].step = calls[c].to]
  /\ IF calls[c].kind = "undo"
     THEN ToPage(c, calls[c].row)
     ELSE Go(c, "log")
  /\ Spoils(IF calls[c].down THEN {"backward"} ELSE {})
  /\ UNCHANGED <<history, items, orders>>
Log(c) ==
  LET call == calls[c]
  IN /\ At(c, "log") /\ LogRoom(call.row)
     /\ history' = [history EXCEPT ![call.row] = Append(@, call.to)]
     /\ IF call.kind = "step" /\ ~call.down /\ call.to = Unpack THEN Go(c, "sync")
        ELSE IF call.down /\ call.to < Unpack /\ call.status = "closed" THEN Go(c, "reopen")
        ELSE ToPage(c, call.row)
     /\ UNCHANGED <<bundles, items, orders, spoiled>>
Reopen(c) ==
  /\ At(c, "reopen")
  /\ bundles' = [bundles EXCEPT ![calls[c].row].status = "active"]
  /\ ToPage(c, calls[c].row)
  /\ UNCHANGED <<history, items, orders, spoiled>>

(***************************************************************************)
(* finalizeBundleToOrder: the orders are listed, read back, put on their leg,  *)
(* and the bundle is closed.  The list is made for the bundle found under the  *)
(* id; its rows are inserted in one step here: an order that is placed or      *)
(* taken out between two of them is as one placed or taken out after.         *)
(***************************************************************************)
NeverHeals(c) == FALSE                        \* mutant: a page only lists the orders
Heals(c) == calls[c].to = Unpack /\ calls[c].status = "active"
Sync(c) ==
  LET row == calls[c].row
  IN /\ At(c, "sync")
     /\ \E b \in Found(row) : items' = [items EXCEPT ![b] = @ \cup LinkedTo(b)]
     /\ IF calls[c].kind = "page" /\ ~Heals(c) THEN ToAnswer(c, row)
        ELSE Go(c, "list")
     /\ Spoils(IF Found(row) = {row} THEN {} ELSE {"clash"})
     /\ UNCHANGED <<bundles, history, orders>>
List(c) ==
  /\ At(c, "list")
  /\ calls' = [calls EXCEPT ![c].at = "promote", ![c].left = items[calls[c].row]]
  /\ UNCHANGED <<data, spoiled>>
EveryOrder(o) == TRUE                          \* mutant: whatever the order's stage
Waiting(o) == orders[o].stage = 0
ReadOrder(c) ==
  \E o \in calls[c].left :
    /\ At(c, "promote")
    /\ calls' = [calls EXCEPT ![c].left = @ \ {o}, ![c].order = IF Waiting(o) THEN o ELSE None,
                              ![c].at = IF Waiting(o) THEN "send" ELSE "promote"]
    /\ UNCHANGED <<data, spoiled>>
\* mutant: one stage further than the order is
Advance(c) ==
  /\ At(c, "send")
  /\ orders' = [orders EXCEPT ![calls[c].order].stage = @ + 1]
  /\ Go(c, "promote")
  /\ UNCHANGED <<bundles, history, items, spoiled>>
Promote(c) ==
  /\ At(c, "send")
  /\ orders' = [orders EXCEPT ![calls[c].order].stage = 1]
  /\ Go(c, "promote")
  /\ UNCHANGED <<bundles, history, items, spoiled>>
\* mutant: before its orders are on their leg
CloseEarly(c) ==
  /\ At(c, "promote")
  /\ bundles' = [bundles EXCEPT ![calls[c].row].status = "closed"]
  /\ ToPage(c, calls[c].row)
  /\ UNCHANGED <<history, items, orders, spoiled>>
Close(c) ==
  /\ At(c, "promote") /\ calls[c].left = {}
  /\ bundles' = [bundles EXCEPT ![calls[c].row].status = "closed"]
  /\ IF calls[c].kind = "page" THEN ToAnswer(c, calls[c].row) ELSE ToPage(c, calls[c].row)
  /\ UNCHANGED <<history, items, orders, spoiled>>

(***************************************************************************)
(* undoLastStep: the highest step leaves the history, the highest left is     *)
(* the current one.                                                          *)
(***************************************************************************)
Highest(b, entries) == {n \in entries : \A k \in entries : history[b][k] <= history[b][n]}
ReadUndo(c, id) ==
  /\ \E b \in Found(id) : \E n \in Highest(b, Entries(b)) :
       \E k \in Highest(b, Entries(b) \ {n}) :
         /\ history[b][n] > Start
         /\ Begin(c, [Idle EXCEPT !.kind = "undo", !.at = "erase", !.row = b,
                                  !.entry = n, !.to = history[b][k]])
  /\ Spoils(Overlap("undo")) /\ UNCHANGED data
\* mutant: the step stays in the history
EraseNothing(c) == At(c, "erase") /\ Go(c, "move") /\ UNCHANGED <<data, spoiled>>
Erase(c) ==
  /\ At(c, "erase")
  /\ history' = [history EXCEPT ![calls[c].row][calls[c].entry] = 0]
  /\ Go(c, "move")
  /\ UNCHANGED <<bundles, items, orders, spoiled>>

(***************************************************************************)
(* getOne, which every call ends with: it makes the row of a supplier's        *)
(* bundle, and finishes an unpacking that did not end.                       *)
(***************************************************************************)
OpenPage(c, id) ==
  /\ Begin(c, Open(id))
  /\ Spoils(Overlap("page")) /\ UNCHANGED data
Page(c) ==
  LET id == calls[c].id
  IN /\ At(c, "page")
     /\ \/ /\ Found(id) = {}
           /\ IF id \in Sources THEN Go(c, "ensure") ELSE End(c)
        \/ \E b \in Found(id) :
             IF bundles[b].step < Unpack THEN ToAnswer(c, b)
             ELSE calls' = [calls EXCEPT ![c].at = "backfill", ![c].row = b, ![c].id = None,
                                         ![c].to = bundles[b].step, ![c].status = bundles[b].status]
     /\ UNCHANGED <<data, spoiled>>
\* What joins the bundle's orders from now on comes too late for its list.
Listed(b) ==
  \/ bundles[b].status # "active"
  \/ \E c \in Calls : calls[c].row = b /\ calls[c].at \in {"list", "promote", "send"}
\* ensureTrackingForSourceBundle: an upsert, or the link of a row with the bundle's code.
Ensure(c) ==
  LET s == calls[c].id
      named == {b \in Used : bundles[b].code = s}
  IN /\ At(c, "ensure")
     /\ \/ \E b \in BySource(s) :
             /\ \/ Go(c, "page")
                \/ calls' = [calls EXCEPT ![c].at = "log", ![c].row = b, ![c].to = Start]
             /\ UNCHANGED <<bundles, spoiled>>
        \/ \E b \in named :
             /\ BySource(s) = {}
             /\ bundles' = [bundles EXCEPT ![b].source = s]
             /\ Spoils(IF Listed(b) THEN {"late"} ELSE {})
             /\ Go(c, "page")
        \/ \E b \in Rows \ Used :
             /\ BySource(s) = {} /\ named = {}
             /\ bundles' = [bundles EXCEPT ![b] =
                  [Blank EXCEPT !.used = TRUE, !.source = s, !.code = s]]
             /\ calls' = [calls EXCEPT ![c].at = "log", ![c].row = b, ![c].to = Start]
             /\ UNCHANGED spoiled
     /\ UNCHANGED <<history, items, orders>>
Backfilled == [b \in Rows |-> IF b \in Used /\ bundles[b].step >= Unpack
                              THEN items[b] \cup LinkedTo(b) ELSE items[b]]
Backfill(c) ==
  /\ At(c, "backfill")
  /\ items' = Backfilled
  /\ Go(c, "sync")
  /\ UNCHANGED <<bundles, history, orders, spoiled>>
Answer(c) == At(c, "answer") /\ End(c) /\ UNCHANGED <<data, spoiled>>
ListTrackedOrders == items' = Backfilled /\ UNCHANGED <<bundles, history, orders, calls, spoiled>>

(***************************************************************************)
(* Create, PATCH, and orders put in a bundle or taken out by hand: the id is  *)
(* the row's own.                                                           *)
(***************************************************************************)
CreateBundle(c, code, status) ==
  /\ code # None => \A b \in Used : bundles[b].code # code
  /\ \E b \in Rows \ Used :
       /\ bundles' = [bundles EXCEPT ![b] = [Blank EXCEPT !.used = TRUE, !.code = code, !.status = status]]
       /\ Begin(c, [Idle EXCEPT !.kind = "change", !.at = "log", !.row = b, !.to = Start])
  /\ Spoils(Overlap("change") \cup (IF status = "active" THEN {} ELSE {"patch"}))
  /\ UNCHANGED <<history, items, orders>>
\* A field the request leaves out keeps its value.  The step is any that exists.
PatchBundle(c, id) ==
  /\ IF id \notin Used THEN UNCHANGED bundles
     ELSE \E step \in AllSteps, status \in Patches \cup {bundles[id].status},
             code \in Codes \cup {bundles[id].code} :
            /\ code # None => \A b \in Used \ {id} : bundles[b].code # code
            /\ bundles' = [bundles EXCEPT ![id].step = step, ![id].status = status,
                                          ![id].code = code]
  /\ Begin(c, Open(id))
  /\ Spoils(Overlap("change") \cup {"patch"})
  /\ UNCHANGED <<history, items, orders>>
ReadAssign(c, id, o) ==
  /\ orders[o].placed /\ \A b \in Rows : o \in items[b] => b = id
  /\ Begin(c, [Idle EXCEPT !.kind = "assign", !.at = "insert", !.id = id, !.order = o])
  /\ Spoils(Overlap("assign")) /\ UNCHANGED data
InsertItem(c) ==
  /\ At(c, "insert")
  /\ IF calls[c].id \in Used
     THEN /\ items' = [items EXCEPT ![calls[c].id] = @ \cup {calls[c].order}]
          /\ calls' = [calls EXCEPT ![c] = Open(@.id)]
     ELSE UNCHANGED items /\ End(c)
  /\ UNCHANGED <<bundles, history, orders, spoiled>>
RemoveOrder(c, id, o) ==
  /\ id \in Used /\ o \in items[id]
  /\ items' = [items EXCEPT ![id] = @ \ {o}]
  /\ Begin(c, Open(id))
  /\ Spoils(Overlap("change") \cup
       {cause \in {"removed"} : \E d \in Calls : At(d, "list") /\ calls[d].row = id})
  /\ UNCHANGED <<bundles, history, orders>>

\* A customer orders a variant of the inventory of the bundles the order is linked to.
PlaceOrder(o) ==
  /\ ~orders[o].placed
  /\ orders' = [orders EXCEPT ![o].placed = TRUE]
  /\ Spoils({cause \in {"late"} : \E b \in Rows : o \in Inventory(b) /\ Listed(b)})
  /\ UNCHANGED <<bundles, history, items, calls>>

(***************************************************************************)
(* updateTrackedOrderStep: a stage of the leg, and a note added to those read. *)
(***************************************************************************)
ReadTracked(c, o, stage, note) ==
  /\ orders[o].placed
  /\ (\E b \in Used : o \in items[b]) \/ (\E s \in Sources : o \in Linked[s])
  /\ \A p \in Orders : note \notin orders[p].notes
  /\ Begin(c, [Idle EXCEPT !.kind = "track", !.at = "write", !.order = o, !.stage = stage,
                           !.seen = orders[o].notes, !.note = note])
  /\ Spoils(Overlap("track")) /\ UNCHANGED data
Noted(seen, note) == seen \cup ({note} \ {None})
WriteTracked(c) ==
  /\ At(c, "write")
  /\ orders' = [orders EXCEPT ![calls[c].order].stage = calls[c].stage,
                   ![calls[c].order].notes = Noted(calls[c].seen, calls[c].note)]
  /\ End(c)
  /\ UNCHANGED <<bundles, history, items, spoiled>>

Begins(c) ==
  \/ \E id \in Ids :
       \/ \E to \in Steps : ReadStep(c, id, to)
       \/ ReadUndo(c, id) \/ OpenPage(c, id)
       \/ PatchBundle(c, id)
       \/ \E o \in Orders : ReadAssign(c, id, o) \/ RemoveOrder(c, id, o)
  \/ \E code \in Codes, status \in Patches \cup {"active"} : CreateBundle(c, code, status)
  \/ \E o \in Orders, stage \in 1..MaxStage, note \in Notes \cup {None} : ReadTracked(c, o, stage, note)
Continues(c) ==
  \/ Move(c) \/ Log(c) \/ Reopen(c) \/ Sync(c) \/ List(c) \/ ReadOrder(c) \/ Promote(c)
  \/ Close(c) \/ Erase(c) \/ Page(c) \/ Ensure(c) \/ Backfill(c) \/ Answer(c)
  \/ InsertItem(c) \/ WriteTracked(c)

Next ==
  /\ \/ \E c \in Calls : Begins(c) \/ Continues(c) \/ Dies(c)
     \/ \E o \in Orders : PlaceOrder(o)
     \/ ListTrackedOrders
  /\ Cardinality(spoiled') <= MaxCauses
Spec == Init /\ [][Next]_vars

(***************************************************************************)
(* Properties.                                                             *)
(***************************************************************************)
Unspoiled(causes) == spoiled \cap causes = {}

TypeOK ==
  /\ bundles \in [Rows -> Bundle] /\ history \in [Rows -> Seq(Steps \cup {0})]
  /\ items \in [Rows -> SUBSET Orders] /\ orders \in [Orders -> Order]
  /\ calls \in [Calls -> Call] /\ spoiled \subseteq Causes

\* A bundle closed at its last step has sent every order of its inventory on to the order
\* leg, whatever died, overlapped, was undone or moved back; not if its step or status was
\* set by hand, it was listed under another's id, an order was taken out between the list
\* and its reading, or an order or the inventory joined it after the list: what joins a
\* closed bundle is never sent on.
ClosedIsSent ==
  Unspoiled({"patch", "late", "removed", "clash"}) =>
    \A b \in Used : bundles[b].status = "closed" /\ bundles[b].step = Unpack =>
      \A o \in LinkedTo(b) : orders[o].stage > 0

\* Who opens the page of a bundle at the unpacking step does not see it active: the page
\* finishes what a process that died, or a patch to that step, left open.  A bundle patched
\* to a later step is another matter: it stays active until it is moved back.
PageFinishes ==
  Unspoiled({"moves"}) =>
    \A c \in Calls : At(c, "answer") =>
      ~(bundles[calls[c].row].step = Unpack /\ bundles[calls[c].row].status = "active")

\* A bundle at rest is at the highest step of its history, unless it went back by itself,
\* was patched, or two calls or a death came between the statements that keep the two.
StepIsHighest ==
  (Unspoiled({"moves", "patch", "backward", "death"})
    /\ \A c \in Calls : calls[c].at \notin {"move", "log"}) =>
    \A b \in Used : \E n \in Entries(b) :
      history[b][n] = bundles[b].step /\ \A k \in Entries(b) : history[b][k] <= history[b][n]

\* No note on an order is lost and no unpacking takes an order back on its leg, in whatever
\* order staff and unpackings reach it, unless a note overlaps another call.
LegKept ==
  [][Unspoiled({"tracks"}) =>
       \A o \in Orders :
         /\ orders[o].notes \subseteq orders'[o].notes
         /\ (\E c \in Calls : At(c, "send") /\ calls'[c].at = "promote")
            => orders[o].stage <= orders'[o].stage]_vars
=============================================================================
