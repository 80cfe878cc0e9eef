------------------------- MODULE TrackingBundlesProofs ------------------------
(***************************************************************************)
(* What holds of tracking for every number of bundles, orders and steps,     *)
(* whatever overlaps, dies or is undone, and however much of it.             *)
(***************************************************************************)
EXTENDS TrackingBundles, TLAPS

(***************************************************************************)
(* What a call carries where it stands.                                     *)
(***************************************************************************)
AtRow == {"move", "log", "reopen", "erase", "backfill", "sync", "list", "promote", "send",
          "answer"}
Formed(call) ==
  /\ call \in Call
  /\ call.kind = "idle" <=> call = Idle
  /\ call.at = "none" => call = Idle
  /\ call.kind = "track" <=> call.at = "write"
  /\ call.at \in AtRow => call.row \in Rows
  /\ call.at \in {"move", "log", "erase"} => call.to \in Steps
  /\ call.at \in {"insert", "write", "send"} => call.order \in Orders
  /\ call.at = "move" => call.kind \in {"step", "undo"}
  /\ call.at = "erase" => call.kind = "undo"
  /\ call.at = "ensure" => call.id \in Sources
  /\ call.at = "write" => call.stage > 0

\* The row a call works on is one that was made, and no row is unmade.
RowMade(call) == call.at \in AtRow => call.row \in Used
DataOK ==
  /\ bundles \in [Rows -> Bundle] /\ history \in [Rows -> Seq(Steps \cup {0})]
  /\ items \in [Rows -> SUBSET Orders] /\ orders \in [Orders -> Order]
CallsOK == calls \in [Calls -> Call] /\ \A c \in Calls : Formed(calls[c]) /\ RowMade(calls[c])
Inv == DataOK /\ CallsOK /\ spoiled \subseteq Causes

LEMMA Constants ==
  /\ Sources \subseteq Nat \ {0} /\ Rows \subseteq Nat \ {0} /\ MaxStage \in Nat \ {0}
  /\ Start \in Steps /\ Unpack \in Steps /\ Steps \subseteq Nat \ {0} /\ Start < Unpack
  /\ Steps \subseteq AllSteps /\ AllSteps \subseteq Nat \ {0}
  /\ None \notin Sources /\ None \notin Rows /\ None \notin AllSteps /\ None \notin Orders /\ None \notin Notes
  /\ \A s \in Sources : Linked[s] \subseteq Orders
BY ConstantsAssumption DEF Steps, AllSteps

LEMMA IdleFormed == Idle \in Call /\ Formed(Idle) /\ Idle.kind = "idle" /\ Idle.at = "none"
<1>1. Idle \in Call
  BY Constants DEF Idle, Call, Kinds, Points
<1> QED  BY <1>1 DEF Idle, Formed, AtRow

LEMMA BlankTyped == Blank \in Bundle /\ ~Blank.used
BY Constants DEF Blank, Bundle, Statuses

LEMMA InitInv == Init => Inv
<1> SUFFICES ASSUME Init PROVE Inv
  OBVIOUS
<1>1. DataOK
  BY BlankTyped, Constants DEF Init, DataOK, Order, NewOrder
<1>2. CallsOK
  BY IdleFormed DEF Init, CallsOK, RowMade, AtRow
<1> QED  BY <1>1, <1>2 DEF Init, Inv

\* Calls one by one.
UsedStay == Used \subseteq Used'
LEMMA WriteCall ==
  ASSUME Inv, NEW c \in Calls, NEW call, calls' = [calls EXCEPT ![c] = call],
         Formed(call), call.at \in AtRow => call.row \in Used', UsedStay
  PROVE  CallsOK'
<1>1. calls' \in [Calls -> Call]
  BY DEF Inv, CallsOK, Formed
<1>2. \A d \in Calls : Formed(calls'[d]) /\ (calls'[d].at \in AtRow => calls'[d].row \in Used')
  BY DEF Inv, CallsOK, RowMade, UsedStay
<1> QED  BY <1>1, <1>2 DEF CallsOK, RowMade

LEMMA FoundUsed == \A id : Found(id) \subseteq Used
BY DEF Found, BySource

LEMMA LinkedTyped == DataOK => \A b \in Rows : LinkedTo(b) \subseteq Orders
BY Constants DEF DataOK, LinkedTo, Inventory, Bundle

LEMMA OpenFormed ==
  ASSUME NEW id \in Ids
  PROVE  Formed(Open(id)) /\ Open(id).at = "page" /\ Open(id).kind = "page"
<1>1. Open(id) \in Call
  BY IdleFormed DEF Open, Idle, Call, Kinds, Points
<1>2. Open(id).at = "page" /\ Open(id).kind = "page"
  BY DEF Open, Idle
<1> QED  BY <1>1, <1>2, IdleFormed DEF Formed, AtRow

LEMMA AnswerFormed ==
  ASSUME NEW row \in Rows, NEW call, call = [Idle EXCEPT !.kind = "page", !.at = "answer", !.row = row]
  PROVE  Formed(call) /\ call.at = "answer" /\ call.kind = "page" /\ call.row = row
<1>1. call \in Call
  BY IdleFormed DEF Idle, Call, Kinds, Points
<1>2. call.at = "answer" /\ call.kind = "page" /\ call.row = row
  BY DEF Idle
<1> QED  BY <1>1, <1>2, IdleFormed DEF Formed, AtRow

\* The rows of a step that writes none, or one.
LEMMA DataStays == Inv /\ UNCHANGED data => DataOK' /\ UsedStay
BY DEF Inv, DataOK, data, UsedStay, Used

LEMMA SpoilsTyped == \A k : Overlap(k) \subseteq Causes
BY DEF Overlap, Causes

\* The ways a call ends.
LEMMA EndStays ==
  ASSUME Inv, NEW c \in Calls, UsedStay, End(c)
  PROVE  CallsOK'
BY IdleFormed, WriteCall DEF End, AtRow

LEMMA ToAnswerStays ==
  ASSUME Inv, NEW c \in Calls, NEW row \in Used, UsedStay, ToAnswer(c, row)
  PROVE  CallsOK'
<1>1. PICK call : call = [Idle EXCEPT !.kind = "page", !.at = "answer", !.row = row]
  OBVIOUS
<1>2. row \in Rows /\ row \in Used'
  BY DEF Used, UsedStay
<1>3. calls' = [calls EXCEPT ![c] = call]
  BY <1>1 DEF ToAnswer
<1>4. Formed(call) /\ call.row = row
  BY <1>1, <1>2, AnswerFormed
<1> QED  BY <1>2, <1>3, <1>4, WriteCall

LEMMA ToPageStays ==
  ASSUME Inv, NEW c \in Calls, NEW row, UsedStay, ToPage(c, row)
  PROVE  CallsOK'
<1>1. PICK b \in Found(row) : calls' = [calls EXCEPT ![c] = Open(b)]
  BY DEF ToPage
<1>2. b \in Ids
  BY FoundUsed DEF Used, Ids
<1>3. Formed(Open(b)) /\ Open(b).at \notin AtRow
  BY <1>2, OpenFormed DEF AtRow
<1> QED  BY <1>1, <1>3, WriteCall

\* A call that goes on to a point that asks for nothing it does not have.
LEMMA GoStays ==
  ASSUME Inv, NEW c \in Calls, UsedStay, NEW point \in Points, Go(c, point),
         calls[c].at \in AtRow, point \in AtRow \ {"move", "log", "erase", "send"}
  PROVE  CallsOK'
<1> DEFINE call == [calls[c] EXCEPT !.at = point]
<1>1. calls[c] \in Call /\ Formed(calls[c]) /\ calls[c].row \in Used
  BY DEF Inv, CallsOK, RowMade
<1>2. call \in Call /\ call.at = point /\ call.row = calls[c].row /\ call.kind = calls[c].kind
  BY <1>1 DEF Call
<1>3. calls' = [calls EXCEPT ![c] = call]
  BY DEF Go
<1> HIDE DEF call
<1>4. Formed(call)
  BY <1>1, <1>2, IdleFormed DEF Formed, AtRow
<1> QED  BY <1>1, <1>2, <1>3, <1>4, WriteCall DEF UsedStay

(***************************************************************************)
(* Calls that begin.                                                       *)
(***************************************************************************)
LEMMA ReadStepTyped ==
  ASSUME Inv, NEW c \in Calls, NEW id \in Ids, NEW to \in Steps, ReadStep(c, id, to)
  PROVE  Inv'
<1>1. PICK b \in Found(id) : Begin(c, [Idle EXCEPT !.kind = "step", !.at = "move", !.row = b, !.to = to,
                                !.down = to < bundles[b].step, !.status = bundles[b].status])
  BY DEF ReadStep
<1>2. PICK call : call = [Idle EXCEPT !.kind = "step", !.at = "move", !.row = b, !.to = to,
                                !.down = to < bundles[b].step, !.status = bundles[b].status]
  OBVIOUS
<1>3. b \in Used /\ b \in Rows /\ bundles[b] \in Bundle
  BY FoundUsed DEF Used, Inv, DataOK
<1>4. call \in Call /\ call.kind = "step" /\ call.at = "move" /\ call.row = b /\ call.to = to
  <2> DEFINE down == to < bundles[b].step
  <2>1. down \in BOOLEAN /\ bundles[b].status \in Statuses /\ to \in AllSteps
    BY <1>3, Constants DEF Bundle
  <2> HIDE DEF down
  <2> QED  BY <1>2, <1>3, <2>1, IdleFormed DEF Idle, Call, Kinds, Points, down
<1>5. Formed(call)
  BY <1>3, <1>4, IdleFormed DEF Formed, AtRow
<1>6. DataOK' /\ UsedStay /\ spoiled' \subseteq Causes
  BY DataStays, SpoilsTyped DEF ReadStep, Spoils, Inv
<1> QED  BY <1>1, <1>2, <1>3, <1>4, <1>5, <1>6, WriteCall DEF Begin, Inv, UsedStay

LEMMA EntriesTyped == DataOK => \A b \in Rows : Entries(b) \subseteq Nat \ {0}
BY DEF DataOK, Entries

LEMMA ReadUndoTyped ==
  ASSUME Inv, NEW c \in Calls, NEW id \in Ids, ReadUndo(c, id)
  PROVE  Inv'
<1>1. PICK b \in Found(id), n \in Nat, k \in Nat :
        /\ n \in Entries(b) /\ k \in Entries(b)
        /\ Begin(c, [Idle EXCEPT !.kind = "undo", !.at = "erase", !.row = b,
                                  !.entry = n, !.to = history[b][k]])
  <2>1. \A b \in Found(id) : Entries(b) \subseteq Nat
    BY FoundUsed, EntriesTyped DEF Used, Inv
  <2> QED  BY <2>1 DEF ReadUndo, Highest
<1>2. PICK call : call = [Idle EXCEPT !.kind = "undo", !.at = "erase", !.row = b,
                                  !.entry = n, !.to = history[b][k]]
  OBVIOUS
<1>3. b \in Used /\ b \in Rows /\ history[b] \in Seq(Steps \cup {0})
  BY FoundUsed DEF Used, Inv, DataOK
<1>4. history[b][k] \in Steps /\ history[b][k] \in AllSteps
  BY <1>1, <1>3, Constants DEF Entries
<1>5. call \in Call /\ call.kind = "undo" /\ call.at = "erase" /\ call.row = b /\ call.to \in Steps
  BY <1>2, <1>3, <1>4, IdleFormed DEF Idle, Call, Kinds, Points
<1>6. Formed(call)
  BY <1>3, <1>5, IdleFormed DEF Formed, AtRow
<1>7. DataOK' /\ UsedStay /\ spoiled' \subseteq Causes
  BY DataStays, SpoilsTyped DEF ReadUndo, Spoils, Inv
<1> QED  BY <1>1, <1>2, <1>3, <1>5, <1>6, <1>7, WriteCall DEF Begin, Inv, UsedStay

LEMMA OpenPageTyped ==
  ASSUME Inv, NEW c \in Calls, NEW id \in Ids, OpenPage(c, id)
  PROVE  Inv'
<1>1. DataOK' /\ UsedStay /\ spoiled' \subseteq Causes
  BY DataStays, SpoilsTyped DEF OpenPage, Spoils, Inv
<1>2. Formed(Open(id)) /\ Open(id).at \notin AtRow
  BY OpenFormed DEF AtRow
<1> QED  BY <1>1, <1>2, WriteCall DEF OpenPage, Begin, Inv

\* A patch leaves a bundle made and whose it was.
LEMMA PatchWrites ==
  ASSUME DataOK, NEW c \in Calls, NEW id \in Ids, PatchBundle(c, id)
  PROVE  /\ bundles' \in [Rows -> Bundle]
         /\ \A b \in Rows : bundles'[b].used = bundles[b].used /\ bundles'[b].source = bundles[b].source
<1>1. CASE id \notin Used
  BY <1>1 DEF PatchBundle, DataOK
<1>2. CASE id \in Used
  <2>1. PICK step \in AllSteps, status \in Patches \cup {bundles[id].status},
             code \in Codes \cup {bundles[id].code} :
          /\ code # None => \A b \in Used \ {id} : bundles[b].code # code
          /\ bundles' = [bundles EXCEPT ![id].step = step, ![id].status = status, ![id].code = code]
    BY <1>2, Zenon DEF PatchBundle
  <2>2. id \in Rows /\ bundles[id] \in Bundle
    BY <1>2 DEF Used, DataOK
  <2>3. status \in Statuses /\ code \in Sources \cup {None}
    BY <2>2, BoundsAssumption DEF Bundle
  <2> DEFINE row == [bundles[id] EXCEPT !.step = step, !.status = status, !.code = code]
  <2>4. row \in Bundle /\ row.used = bundles[id].used /\ row.source = bundles[id].source
    BY <2>2, <2>3 DEF Bundle
  <2>5. bundles' = [bundles EXCEPT ![id] = row]
    BY <2>1
  <2> HIDE DEF row
  <2> QED  BY <2>2, <2>4, <2>5 DEF DataOK
<1> QED  BY <1>1, <1>2

LEMMA PatchBundleTyped ==
  ASSUME Inv, NEW c \in Calls, NEW id \in Ids, PatchBundle(c, id)
  PROVE  Inv'
<1>1. bundles' \in [Rows -> Bundle] /\ \A b \in Rows : bundles'[b].used = bundles[b].used
  BY PatchWrites DEF Inv
<1>2. DataOK' /\ UsedStay
  BY <1>1 DEF PatchBundle, Inv, DataOK, UsedStay, Used
<1>3. spoiled' \subseteq Causes
  BY SpoilsTyped DEF PatchBundle, Spoils, Inv, Causes
<1>4. Formed(Open(id)) /\ Open(id).at \notin AtRow
  BY OpenFormed DEF AtRow
<1> QED  BY <1>2, <1>3, <1>4, WriteCall DEF PatchBundle, Begin, Inv

LEMMA ReadAssignTyped ==
  ASSUME Inv, NEW c \in Calls, NEW id \in Ids, NEW o \in Orders, ReadAssign(c, id, o)
  PROVE  Inv'
<1>1. PICK call : call = [Idle EXCEPT !.kind = "assign", !.at = "insert", !.id = id, !.order = o]
  OBVIOUS
<1>2. call \in Call /\ call.kind = "assign" /\ call.at = "insert" /\ call.order = o
  BY <1>1, IdleFormed DEF Idle, Call, Kinds, Points
<1>3. Formed(call) /\ call.at \notin AtRow
  BY <1>2, IdleFormed DEF Formed, AtRow
<1>4. DataOK' /\ UsedStay /\ spoiled' \subseteq Causes
  BY DataStays, SpoilsTyped DEF ReadAssign, Spoils, Inv
<1> QED  BY <1>1, <1>3, <1>4, WriteCall DEF ReadAssign, Begin, Inv

LEMMA RemoveOrderTyped ==
  ASSUME Inv, NEW c \in Calls, NEW id \in Ids, NEW o \in Orders, RemoveOrder(c, id, o)
  PROVE  Inv'
<1>1. DataOK' /\ UsedStay
  BY DEF RemoveOrder, Inv, DataOK, UsedStay, Used
<1>2. spoiled' \subseteq Causes
  BY SpoilsTyped DEF RemoveOrder, Spoils, Inv, Causes
<1>3. Formed(Open(id)) /\ Open(id).at \notin AtRow
  BY OpenFormed DEF AtRow
<1> QED  BY <1>1, <1>2, <1>3, WriteCall DEF RemoveOrder, Begin, Inv

LEMMA CreateBundleTyped ==
  ASSUME Inv, NEW c \in Calls, NEW code \in Codes, NEW status \in Patches \cup {"active"},
         CreateBundle(c, code, status)
  PROVE  Inv'
<1>1. PICK b \in Rows \ Used :
        /\ bundles' = [bundles EXCEPT ![b] = [Blank EXCEPT !.used = TRUE, !.code = code, !.status = status]]
        /\ Begin(c, [Idle EXCEPT !.kind = "change", !.at = "log", !.row = b, !.to = Start])
  BY DEF CreateBundle
<1>2. PICK call : call = [Idle EXCEPT !.kind = "change", !.at = "log", !.row = b, !.to = Start]
  OBVIOUS
<1>3. call \in Call /\ call.kind = "change" /\ call.at = "log" /\ call.row = b /\ call.to \in Steps
  BY <1>2, IdleFormed, Constants DEF Idle, Call, Kinds, Points
<1>4. Formed(call)
  BY <1>3, IdleFormed DEF Formed, AtRow
<1>5. PICK row : row = [Blank EXCEPT !.used = TRUE, !.code = code, !.status = status]
  OBVIOUS
<1>6. row \in Bundle /\ row.used
  BY <1>5, BlankTyped, BoundsAssumption DEF Bundle, Blank, Statuses
<1>7. bundles' \in [Rows -> Bundle] /\ UsedStay /\ b \in Used'
  BY <1>1, <1>5, <1>6 DEF Inv, DataOK, UsedStay, Used
<1>8. DataOK' /\ spoiled' \subseteq Causes
  BY <1>7, SpoilsTyped DEF CreateBundle, Spoils, Inv, DataOK, Causes
<1> QED  BY <1>1, <1>2, <1>3, <1>4, <1>7, <1>8, WriteCall DEF Begin, Inv

LEMMA ReadTrackedTyped ==
  ASSUME Inv, NEW c \in Calls, NEW o \in Orders, NEW stage \in 1..MaxStage, NEW note \in Notes \cup {None},
         ReadTracked(c, o, stage, note)
  PROVE  Inv'
<1>1. PICK call : call = [Idle EXCEPT !.kind = "track", !.at = "write", !.order = o, !.stage = stage,
                           !.seen = orders[o].notes, !.note = note]
  OBVIOUS
<1>2. orders[o].notes \subseteq Notes /\ stage \in 0..MaxStage
  BY Constants DEF Inv, DataOK, Order
<1>3. call \in Call /\ call.kind = "track" /\ call.at = "write" /\ call.order = o /\ call.stage = stage
  BY <1>1, <1>2, IdleFormed DEF Idle, Call, Kinds, Points
<1>4. Formed(call) /\ call.at \notin AtRow
  BY <1>3, IdleFormed DEF Formed, AtRow
<1>5. DataOK' /\ UsedStay /\ spoiled' \subseteq Causes
  BY DataStays, SpoilsTyped DEF ReadTracked, Spoils, Inv
<1> QED  BY <1>1, <1>4, <1>5, WriteCall DEF ReadTracked, Begin, Inv

(***************************************************************************)
(* Calls that go on.                                                       *)
(***************************************************************************)
LEMMA AtPoint ==
  ASSUME Inv, NEW c \in Calls
  PROVE  /\ calls[c] \in Call /\ Formed(calls[c])
         /\ calls[c].at \in AtRow => calls[c].row \in Used /\ calls[c].row \in Rows
  BY DEF Inv, CallsOK, RowMade, Used

\* A row written over another that was made keeps its place.
LEMMA RowWrites ==
  ASSUME DataOK, NEW b, NEW row \in Bundle, row.used, bundles' = [bundles EXCEPT ![b] = row],
         UNCHANGED <<history, items, orders>>
  PROVE  DataOK' /\ UsedStay
BY DEF DataOK, UsedStay, Used

LEMMA UsedRow == ASSUME DataOK, NEW b \in Used PROVE bundles[b] \in Bundle /\ bundles[b].used
BY DEF DataOK, Used

LEMMA MoveTyped ==
  ASSUME Inv, NEW c \in Calls, Move(c)
  PROVE  Inv'
<1> DEFINE b == calls[c].row
           row == [bundles[b] EXCEPT !.step = calls[c].to]
<1>1. b \in Used /\ calls[c].to \in Steps
  BY AtPoint DEF Move, At, Formed, AtRow
<1>2. row \in Bundle /\ row.used /\ bundles' = [bundles EXCEPT ![b] = row]
  BY <1>1, UsedRow, Constants DEF Move, Bundle, Inv
<1> HIDE DEF b, row
<1>3. DataOK' /\ UsedStay
  BY <1>2, RowWrites DEF Move, Inv
<1>4. CASE calls[c].kind = "undo"
  BY <1>3, <1>4, ToPageStays DEF Move, Inv, Spoils, Causes
<1>5. CASE calls[c].kind # "undo"
  <2> DEFINE call == [calls[c] EXCEPT !.at = "log"]
  <2>1. call \in Call /\ call.at = "log" /\ call.row = b /\ call.to = calls[c].to /\ call.kind = calls[c].kind
    BY AtPoint DEF Call, Points, b
  <2>2. calls' = [calls EXCEPT ![c] = call] /\ At(c, "move")
    BY <1>5 DEF Move, Go
  <2> HIDE DEF call
  <2>3. Formed(call)
    BY <1>1, <2>1, <2>2, AtPoint DEF Formed, AtRow, At, Idle, b
  <2> QED  BY <1>1, <1>3, <2>1, <2>2, <2>3, WriteCall DEF Move, Inv, Spoils, Causes, UsedStay
<1> QED  BY <1>4, <1>5

LEMMA LogTyped ==
  ASSUME Inv, NEW c \in Calls, Log(c)
  PROVE  Inv'
<1>1. calls[c].at = "log" /\ calls[c].row \in Rows /\ calls[c].to \in Steps
  BY AtPoint DEF Log, At, AtRow, Formed
<1>2. history' \in [Rows -> Seq(Steps \cup {0})]
  BY <1>1 DEF Log, Inv, DataOK
<1>3. DataOK' /\ UsedStay
  BY <1>2 DEF Log, Inv, DataOK, UsedStay, Used
<1>4. CallsOK'
  BY <1>1, <1>3, GoStays, ToPageStays DEF Log, Points, AtRow
<1> QED  BY <1>3, <1>4 DEF Inv, Log

LEMMA ReopenTyped ==
  ASSUME Inv, NEW c \in Calls, Reopen(c)
  PROVE  Inv'
<1> DEFINE b == calls[c].row
           row == [bundles[b] EXCEPT !.status = "active"]
<1>1. b \in Used
  BY AtPoint DEF Reopen, At, AtRow
<1>2. row \in Bundle /\ row.used /\ bundles' = [bundles EXCEPT ![b] = row]
  BY <1>1, UsedRow DEF Reopen, Bundle, Inv, Statuses
<1> HIDE DEF b, row
<1>3. DataOK' /\ UsedStay
  BY <1>2, RowWrites DEF Reopen, Inv
<1> QED  BY <1>3, ToPageStays DEF Reopen, Inv

LEMMA SyncTyped ==
  ASSUME Inv, NEW c \in Calls, Sync(c)
  PROVE  Inv'
<1> DEFINE row == calls[c].row
<1>1. row \in Used /\ row \in Rows /\ calls[c].at = "sync"
  BY AtPoint DEF Sync, At, AtRow
<1>2. items' \in [Rows -> SUBSET Orders]
  <2>1. \A b \in Rows : items[b] \cup LinkedTo(b) \subseteq Orders
    BY LinkedTyped DEF Inv, DataOK
  <2> QED  BY <2>1 DEF Sync, Inv, DataOK
<1>3. DataOK' /\ UsedStay
  BY <1>2 DEF Sync, Inv, DataOK, UsedStay, Used
<1>4. CallsOK'
  BY <1>1, <1>3, GoStays, ToAnswerStays DEF Sync, Points, AtRow
<1> QED  BY <1>3, <1>4 DEF Sync, Spoils, Inv, Causes

LEMMA ListStepTyped ==
  ASSUME Inv, NEW c \in Calls, List(c)
  PROVE  Inv'
<1> DEFINE call == [calls[c] EXCEPT !.at = "promote", !.left = items[calls[c].row]]
<1>1. calls[c].at = "list" /\ calls[c].row \in Used /\ calls[c].row \in Rows
  BY AtPoint DEF List, At, AtRow
<1>2. items[calls[c].row] \subseteq Orders
  BY <1>1 DEF Inv, DataOK
<1>3. call \in Call /\ call.at = "promote" /\ call.row = calls[c].row /\ call.kind = calls[c].kind
  BY <1>2, AtPoint DEF Call, Points
<1>4. calls' = [calls EXCEPT ![c] = call]
  BY DEF List
<1> HIDE DEF call
<1>5. Formed(call)
  BY <1>1, <1>3, AtPoint DEF Formed, AtRow, Idle
<1>6. DataOK' /\ UsedStay
  BY DataStays DEF List
<1> QED  BY <1>1, <1>3, <1>4, <1>5, <1>6, WriteCall DEF List, Inv, UsedStay

LEMMA ReadOrderTyped ==
  ASSUME Inv, NEW c \in Calls, ReadOrder(c)
  PROVE  Inv'
<1>1. PICK o \in calls[c].left :
        calls' = [calls EXCEPT ![c].left = @ \ {o}, ![c].order = IF Waiting(o) THEN o ELSE None,
                               ![c].at = IF Waiting(o) THEN "send" ELSE "promote"]
  BY DEF ReadOrder
<1>2. calls[c] \in Call /\ calls[c].at = "promote" /\ calls[c].row \in Used /\ calls[c].row \in Rows
      /\ calls[c].left \subseteq Orders /\ Formed(calls[c])
  BY AtPoint DEF ReadOrder, At, AtRow, Call
<1> DEFINE order == IF Waiting(o) THEN o ELSE None
           at == IF Waiting(o) THEN "send" ELSE "promote"
           call == [calls[c] EXCEPT !.left = @ \ {o}, !.order = order, !.at = at]
<1>3. order \in Orders \cup {None} /\ at \in {"send", "promote"} /\ (at = "send" => order \in Orders)
  BY <1>1, <1>2
<1>4. calls' = [calls EXCEPT ![c] = call]
  BY <1>1
<1> HIDE DEF order, at
<1>5. call \in Call /\ call.at = at /\ call.order = order /\ call.row = calls[c].row /\ call.kind = calls[c].kind
  BY <1>2, <1>3 DEF Call, Points
<1> HIDE DEF call
<1>6. Formed(call)
  BY <1>2, <1>3, <1>5 DEF Formed, AtRow, Idle
<1>7. DataOK' /\ UsedStay
  BY DataStays DEF ReadOrder
<1> QED  BY <1>2, <1>4, <1>5, <1>6, <1>7, WriteCall DEF ReadOrder, Inv, UsedStay

LEMMA PromoteTyped ==
  ASSUME Inv, NEW c \in Calls, Promote(c)
  PROVE  Inv'
<1>1. calls[c].at = "send"
  BY DEF Promote, At
<1>2. orders' \in [Orders -> Order]
  <2>1. \A o \in Orders : [orders[o] EXCEPT !.stage = 1] \in Order
    <3>1. 1 \in 0..MaxStage
      BY Constants
    <3> QED  BY <3>1 DEF Inv, DataOK, Order
  <2> QED  BY <2>1 DEF Promote, Inv, DataOK
<1>3. DataOK' /\ UsedStay
  BY <1>2 DEF Promote, Inv, DataOK, UsedStay, Used
<1> QED  BY <1>1, <1>3, GoStays DEF Promote, Inv, Points, AtRow

LEMMA CloseTyped ==
  ASSUME Inv, NEW c \in Calls, Close(c)
  PROVE  Inv'
<1> DEFINE b == calls[c].row
           row == [bundles[b] EXCEPT !.status = "closed"]
<1>1. b \in Used
  BY AtPoint DEF Close, At, AtRow
<1>2. row \in Bundle /\ row.used /\ bundles' = [bundles EXCEPT ![b] = row]
  BY <1>1, UsedRow DEF Close, Bundle, Inv, Statuses
<1>3. UNCHANGED <<history, items, orders, spoiled>>
      /\ (ToAnswer(c, b) \/ ToPage(c, b))
  BY DEF Close
<1> HIDE DEF b, row
<1>4. DataOK' /\ UsedStay
  BY <1>2, <1>3, RowWrites DEF Inv
<1> QED  BY <1>1, <1>3, <1>4, ToPageStays, ToAnswerStays DEF Inv

LEMMA SeqChanged ==
  ASSUME NEW S, NEW s \in Seq(S), NEW n, NEW v \in S
  PROVE  [s EXCEPT ![n] = v] \in Seq(S) /\ Len([s EXCEPT ![n] = v]) = Len(s)
<1>1. Len(s) \in Nat /\ s \in [1..Len(s) -> S]
  OBVIOUS
<1>2. [s EXCEPT ![n] = v] \in [1..Len(s) -> S]
  BY <1>1
<1>3. [1..Len(s) -> S] \subseteq Seq(S) /\ \A t \in [1..Len(s) -> S] : Len(t) = Len(s)
  BY <1>1
<1> QED  BY <1>2, <1>3

LEMMA EraseTyped ==
  ASSUME Inv, NEW c \in Calls, Erase(c)
  PROVE  Inv'
<1> DEFINE call == [calls[c] EXCEPT !.at = "move"]
           b == calls[c].row
<1>1. calls[c].at = "erase" /\ b \in Used /\ b \in Rows /\ calls[c].to \in Steps
      /\ calls[c].kind = "undo" /\ Formed(calls[c])
  BY AtPoint DEF Erase, At, AtRow, Formed
<1>2. call \in Call /\ call.at = "move" /\ call.row = b /\ call.to = calls[c].to /\ call.kind = "undo"
  BY <1>1, AtPoint DEF Call, Points
<1>3. calls' = [calls EXCEPT ![c] = call]
  BY DEF Erase, Go
<1>4. history' = [history EXCEPT ![b] = [history[b] EXCEPT ![calls[c].entry] = 0]]
  BY DEF Erase
<1>5. [history[b] EXCEPT ![calls[c].entry] = 0] \in Seq(Steps \cup {0})
  BY <1>1, SeqChanged DEF Inv, DataOK
<1>6. DataOK' /\ UsedStay
  BY <1>4, <1>5 DEF Erase, Inv, DataOK, UsedStay, Used
<1> HIDE DEF call, b
<1>7. Formed(call)
  BY <1>1, <1>2 DEF Formed, AtRow, Idle, b
<1> QED  BY <1>1, <1>2, <1>3, <1>6, <1>7, WriteCall DEF Erase, Inv, UsedStay

LEMMA PageTyped ==
  ASSUME Inv, NEW c \in Calls, Page(c)
  PROVE  Inv'
<1> DEFINE id == calls[c].id
<1>1. DataOK' /\ UsedStay /\ spoiled' = spoiled /\ calls[c].at = "page" /\ Formed(calls[c])
  BY DataStays, AtPoint DEF Page, At
<1>2. ASSUME Go(c, "ensure"), id \in Sources  PROVE CallsOK'
  <2> DEFINE call == [calls[c] EXCEPT !.at = "ensure"]
  <2>1. call \in Call /\ call.at = "ensure" /\ call.id = id /\ call.kind = calls[c].kind
    BY AtPoint DEF Call, Points
  <2>2. calls' = [calls EXCEPT ![c] = call]
    BY <1>2 DEF Go
  <2> HIDE DEF call
  <2>3. Formed(call)
    BY <1>1, <1>2, <2>1 DEF Formed, AtRow, Idle
  <2> QED  BY <1>1, <2>1, <2>2, <2>3, WriteCall DEF AtRow
<1>3. ASSUME NEW b \in Found(id),
             calls' = [calls EXCEPT ![c].at = "backfill", ![c].row = b, ![c].id = None,
                                    ![c].to = bundles[b].step, ![c].status = bundles[b].status]
      PROVE  CallsOK'
  <2> DEFINE call == [calls[c] EXCEPT !.at = "backfill", !.row = b, !.id = None,
                                      !.to = bundles[b].step, !.status = bundles[b].status]
  <2>1. b \in Used /\ b \in Rows /\ bundles[b] \in Bundle
    BY FoundUsed, UsedRow DEF Used, Inv
  <2>2. call \in Call /\ call.at = "backfill" /\ call.row = b /\ call.kind = calls[c].kind
    BY <2>1, AtPoint DEF Call, Points, Bundle
  <2>3. calls' = [calls EXCEPT ![c] = call]
    BY <1>3
  <2> HIDE DEF call
  <2>4. Formed(call)
    BY <1>1, <2>1, <2>2 DEF Formed, AtRow, Idle
  <2> QED  BY <1>1, <2>1, <2>2, <2>3, <2>4, WriteCall DEF UsedStay
<1>4. ASSUME NEW b \in Found(id), ToAnswer(c, b)  PROVE CallsOK'
  BY <1>1, <1>4, FoundUsed, ToAnswerStays
<1>5. CallsOK'
  BY <1>1, <1>2, <1>3, <1>4, EndStays DEF Page
<1> QED  BY <1>1, <1>5 DEF Inv

LEMMA EnsureTyped ==
  ASSUME Inv, NEW c \in Calls, Ensure(c)
  PROVE  Inv'
<1> DEFINE s == calls[c].id
<1>1. calls[c].at = "ensure" /\ s \in Sources /\ calls[c] \in Call /\ Formed(calls[c])
      /\ UNCHANGED <<history, items, orders>>
  BY AtPoint DEF Ensure, At, Formed
<1>2. ASSUME Go(c, "page"), UsedStay  PROVE CallsOK'
  <2> DEFINE call == [calls[c] EXCEPT !.at = "page"]
  <2>1. call \in Call /\ call.at = "page" /\ call.kind = calls[c].kind
    BY <1>1 DEF Call, Points
  <2>2. calls' = [calls EXCEPT ![c] = call]
    BY <1>2 DEF Go
  <2> HIDE DEF call
  <2>3. Formed(call)
    BY <1>1, <2>1 DEF Formed, AtRow, Idle
  <2> QED  BY <1>2, <2>1, <2>2, <2>3, WriteCall DEF AtRow
<1>3. ASSUME NEW b \in Rows, b \in Used', UsedStay,
             calls' = [calls EXCEPT ![c].at = "log", ![c].row = b, ![c].to = Start]
      PROVE  CallsOK'
  <2> DEFINE call == [calls[c] EXCEPT !.at = "log", !.row = b, !.to = Start]
  <2>1. call \in Call /\ call.at = "log" /\ call.row = b /\ call.to \in Steps /\ call.kind = calls[c].kind
    BY <1>1, Constants DEF Call, Points
  <2>2. calls' = [calls EXCEPT ![c] = call]
    BY <1>3
  <2> HIDE DEF call
  <2>3. Formed(call)
    BY <1>1, <1>3, <2>1 DEF Formed, AtRow, Idle
  <2> QED  BY <1>3, <2>1, <2>2, <2>3, WriteCall
<1>4. ASSUME NEW b \in BySource(s), UNCHANGED <<bundles, spoiled>>,
             Go(c, "page") \/ calls' = [calls EXCEPT ![c].at = "log", ![c].row = b, ![c].to = Start]
      PROVE  Inv'
  <2>1. b \in Rows /\ b \in Used' /\ UsedStay
    BY <1>4 DEF BySource, Used, UsedStay
  <2> QED  BY <1>1, <1>2, <1>3, <1>4, <2>1, DataStays DEF data, Inv
<1>5. ASSUME NEW b \in Used, bundles' = [bundles EXCEPT ![b].source = s], Go(c, "page"),
             spoiled' \subseteq Causes
      PROVE  Inv'
  <2> DEFINE row == [bundles[b] EXCEPT !.source = s]
  <2>1. row \in Bundle /\ row.used /\ bundles' = [bundles EXCEPT ![b] = row]
    BY <1>1, <1>5, UsedRow DEF Bundle, Inv
  <2> HIDE DEF row
  <2>2. DataOK' /\ UsedStay
    BY <1>1, <2>1, RowWrites DEF Inv
  <2> QED  BY <1>2, <1>5, <2>2 DEF Inv
<1>6. ASSUME NEW b \in Rows \ Used, UNCHANGED spoiled,
             bundles' = [bundles EXCEPT ![b] = [Blank EXCEPT !.used = TRUE, !.source = s, !.code = s]],
             calls' = [calls EXCEPT ![c].at = "log", ![c].row = b, ![c].to = Start]
      PROVE  Inv'
  <2> DEFINE row == [Blank EXCEPT !.used = TRUE, !.source = s, !.code = s]
  <2>1. row \in Bundle /\ row.used /\ bundles' = [bundles EXCEPT ![b] = row]
    BY <1>1, <1>6, BlankTyped DEF Bundle, Blank
  <2> HIDE DEF row
  <2>2. DataOK' /\ UsedStay
    BY <1>1, <2>1, RowWrites DEF Inv
  <2>3. b \in Used'
    BY <2>1 DEF Used, Inv, DataOK
  <2> QED  BY <1>3, <1>6, <2>2, <2>3 DEF Inv
<1>7. \A b : (IF Listed(b) THEN {"late"} ELSE {}) \subseteq Causes
  BY DEF Causes
<1> QED  BY <1>1, <1>4, <1>5, <1>6, <1>7 DEF Ensure, Spoils, Inv

LEMMA BackfilledTyped == DataOK => Backfilled \in [Rows -> SUBSET Orders]
BY LinkedTyped DEF DataOK, Backfilled

LEMMA BackfillTyped ==
  ASSUME Inv, NEW c \in Calls, Backfill(c)
  PROVE  Inv'
<1>1. DataOK' /\ UsedStay
  BY BackfilledTyped DEF Backfill, Inv, DataOK, UsedStay, Used
<1> QED  BY <1>1, GoStays DEF Backfill, Inv, At, AtRow, Points

LEMMA InsertItemTyped ==
  ASSUME Inv, NEW c \in Calls, InsertItem(c)
  PROVE  Inv'
<1>1. calls[c].at = "insert" /\ calls[c].order \in Orders
  BY AtPoint DEF InsertItem, At, Formed
<1>2. items' \in [Rows -> SUBSET Orders]
  BY <1>1 DEF InsertItem, Inv, DataOK
<1>3. DataOK' /\ UsedStay
  BY <1>2 DEF InsertItem, Inv, DataOK, UsedStay, Used
<1>4. CASE calls[c].id \in Used
  <2>1. Formed(Open(calls[c].id)) /\ Open(calls[c].id).at \notin AtRow
    BY <1>4, OpenFormed DEF AtRow, Used, Ids
  <2> QED  BY <1>3, <1>4, <2>1, WriteCall DEF InsertItem, Inv
<1>5. CASE calls[c].id \notin Used
  BY <1>3, <1>5, EndStays DEF InsertItem, Inv
<1> QED  BY <1>4, <1>5

LEMMA WriteTrackedTyped ==
  ASSUME Inv, NEW c \in Calls, WriteTracked(c)
  PROVE  Inv'
<1>1. calls[c] \in Call
  BY AtPoint
<1>2. orders' \in [Orders -> Order]
  <2> DEFINE noted == Noted(calls[c].seen, calls[c].note)
  <2>1. calls[c].stage \in 0..MaxStage /\ noted \in SUBSET Notes
    BY <1>1 DEF Call, Noted
  <2> HIDE DEF noted
  <2>2. \A o \in Orders : [orders[o] EXCEPT !.stage = calls[c].stage, !.notes = noted] \in Order
    BY <2>1 DEF Inv, DataOK, Order
  <2> QED  BY <2>2 DEF WriteTracked, Inv, DataOK, noted
<1>3. DataOK' /\ UsedStay
  BY <1>2 DEF WriteTracked, Inv, DataOK, UsedStay, Used
<1> QED  BY <1>3, EndStays DEF WriteTracked, Inv

LEMMA PlaceOrderTyped ==
  ASSUME Inv, NEW o \in Orders, PlaceOrder(o)
  PROVE  Inv'
<1>1. DataOK' /\ UsedStay /\ UNCHANGED <<calls, bundles>>
  BY DEF PlaceOrder, Inv, DataOK, Order, UsedStay, Used
<1>2. spoiled' \subseteq Causes
  BY DEF PlaceOrder, Spoils, Inv, Causes
<1> QED  BY <1>1, <1>2 DEF Inv, CallsOK, RowMade, Used

LEMMA OthersTyped ==
  ASSUME Inv, NEW c \in Calls, Answer(c) \/ Dies(c)
  PROVE  Inv'
<1>1. DataOK' /\ UsedStay /\ spoiled' \subseteq Causes /\ End(c)
  BY DataStays DEF Answer, Dies, Spoils, Causes, Inv
<1> QED  BY <1>1, EndStays DEF Inv

LEMMA ListTyped ==
  ASSUME Inv, ListTrackedOrders \/ UNCHANGED vars
  PROVE  Inv'
<1>1. DataOK' /\ UsedStay /\ UNCHANGED <<calls, spoiled, bundles>>
  BY BackfilledTyped DEF ListTrackedOrders, vars, Inv, DataOK, UsedStay, Used
<1> QED  BY <1>1 DEF Inv, CallsOK, RowMade, Used

LEMMA InvNext ==
  ASSUME Inv, [Next]_vars
  PROVE  Inv'
<1>1. ASSUME NEW c \in Calls, Begins(c)  PROVE Inv'
  BY <1>1, ReadStepTyped, ReadUndoTyped, OpenPageTyped, PatchBundleTyped, ReadAssignTyped, RemoveOrderTyped,
     CreateBundleTyped, ReadTrackedTyped DEF Begins
<1>2. ASSUME NEW c \in Calls, Continues(c)  PROVE Inv'
  BY <1>2, MoveTyped, LogTyped, ReopenTyped, SyncTyped, ListStepTyped, ReadOrderTyped, PromoteTyped,
     CloseTyped, EraseTyped, PageTyped, EnsureTyped, BackfillTyped, OthersTyped, InsertItemTyped, WriteTrackedTyped
     DEF Continues
<1> QED  BY <1>1, <1>2, OthersTyped, PlaceOrderTyped, ListTyped DEF Next

\* Every row, history, order and call is of its type, and a call that writes a row is at
\* one that was made.
THEOREM TypeCorrect == Spec => []TypeOK
<1>1. Inv => TypeOK
  BY DEF Inv, DataOK, CallsOK, TypeOK
<1> QED  BY <1>1, InitInv, InvNext, PTL DEF Spec

(***************************************************************************)
(* Unpacking.  The orders of the bundle's inventory are put on its list, the  *)
(* list is read and worked off; the bundle is closed when none is left.       *)
(***************************************************************************)
Sent(o) == orders[o].stage > 0
\* What is left of a list, with the order in hand.
Ahead(call) == call.left \cup (IF call.at = "send" THEN {call.order} ELSE {})
\* What a call that is to close its bundle has in hand: the list, or what it read of it.
Held(call, lists) == IF call.at = "list" THEN lists[call.row] ELSE Ahead(call)
Unsent == {"patch", "late", "removed", "clash"}
SentInv ==
  Unspoiled(Unsent) =>
    /\ \A b \in Rows : bundles[b].status = "closed" => \A o \in LinkedTo(b) : Sent(o)
    /\ \A c \in Calls : calls[c].at \in {"list", "promote", "send"} =>
         \A o \in LinkedTo(calls[c].row) : Sent(o) \/ o \in Held(calls[c], items)

\* What happened stays known.
LEMMA SpoiledGrows == [Next]_vars => spoiled \subseteq spoiled'
<1>1. ASSUME NEW c \in Calls, Begins(c)  PROVE spoiled \subseteq spoiled'
  BY <1>1 DEF Begins, ReadStep, ReadUndo, OpenPage, PatchBundle, ReadAssign, RemoveOrder,
     CreateBundle, ReadTracked, Spoils
<1>2. ASSUME NEW c \in Calls, Continues(c)  PROVE spoiled \subseteq spoiled'
  BY <1>2 DEF Continues, Move, Log, Reopen, Sync, List, ReadOrder, Promote, Close, Erase, Page,
     Ensure, Backfill, Answer, InsertItem, WriteTracked, data, Spoils
<1>3. ASSUME NEW o \in Orders, PlaceOrder(o)  PROVE spoiled \subseteq spoiled'
  BY <1>3 DEF PlaceOrder, Spoils
<1> QED  BY <1>1, <1>2, <1>3 DEF Next, Dies, ListTrackedOrders, vars, Spoils

\* No list that is still to be read gets shorter, unless an order was taken out of one.
LEMMA ListsKept ==
  ASSUME Inv, [Next]_vars, "removed" \notin spoiled', NEW d \in Calls, calls[d].at = "list"
  PROVE  items[calls[d].row] \subseteq items'[calls[d].row]
<1> DEFINE b == calls[d].row
<1>1. b \in Rows
  BY AtPoint DEF AtRow
<1>2. ASSUME NEW c \in Calls, Begins(c)  PROVE items[b] \subseteq items'[b]
  <2>1. ASSUME NEW id \in Ids, NEW o \in Orders, RemoveOrder(c, id, o)
        PROVE  items[b] \subseteq items'[b]
    <3>1. b # id
      BY <2>1 DEF RemoveOrder, Spoils, At
    <3> QED  BY <1>1, <2>1, <3>1 DEF RemoveOrder, Inv, DataOK
  <2> QED  BY <1>2, <2>1 DEF Begins, ReadStep, ReadUndo, OpenPage, PatchBundle, ReadAssign, CreateBundle,
         ReadTracked, data
<1>3. items[b] \subseteq Backfilled[b]
  BY <1>1 DEF Backfilled
<1>4. ASSUME NEW c \in Calls, Continues(c)  PROVE items[b] \subseteq items'[b]
  <2>1. CASE Sync(c) \/ InsertItem(c)
    BY <1>1, <2>1 DEF Sync, InsertItem, Inv, DataOK
  <2>2. CASE ~Sync(c) /\ ~InsertItem(c)
    BY <1>3, <1>4, <2>2 DEF Continues, Move, Log, Reopen, List, ReadOrder, Promote, Close, Erase, Page,
       Ensure, Backfill, Answer, WriteTracked, data
  <2> QED  BY <2>1, <2>2
<1>5. CASE ListTrackedOrders
  BY <1>3, <1>5 DEF ListTrackedOrders
<1> QED  BY <1>2, <1>4, <1>5 DEF Next, Dies, PlaceOrder, vars, data

\* The orders of a bundle are the same while no link is written and no order placed.
LEMMA LinkedStays ==
  ASSUME Inv, \A b \in Rows : bundles'[b].source = bundles[b].source,
         \A o \in Orders : orders'[o].placed = orders[o].placed
  PROVE  \A b \in Rows : LinkedTo(b)' = LinkedTo(b)
<1>1. \A b \in Rows : Inventory(b) \subseteq Orders /\ Inventory(b)' = Inventory(b)
  BY Constants DEF Inv, DataOK, Bundle, Inventory
<1> QED  BY <1>1 DEF LinkedTo

\* One call changes at a time.
LEMMA CallChanged ==
  ASSUME Inv, NEW c \in Calls, NEW call, calls' = [calls EXCEPT ![c] = call]
  PROVE  calls'[c] = call /\ \A d \in Calls \ {c} : calls'[d] = calls[d]
BY DEF Inv, CallsOK

Others(c) == \A d \in Calls \ {c} : calls'[d] = calls[d]
LEMMA ToPageIs ==
  ASSUME Inv, NEW c \in Calls, NEW row, ToPage(c, row)
  PROVE  Others(c) /\ calls'[c].at = "page" /\ calls'[c].kind = "page"
<1>1. PICK b \in Found(row) : calls' = [calls EXCEPT ![c] = Open(b)]
  BY DEF ToPage
<1>2. Open(b).at = "page" /\ Open(b).kind = "page"
  BY DEF Open, Idle
<1> QED  BY <1>1, <1>2, CallChanged DEF Others

LEMMA ToAnswerIs ==
  ASSUME Inv, NEW c \in Calls, NEW row, ToAnswer(c, row)
  PROVE  Others(c) /\ calls'[c].at = "answer" /\ calls'[c].kind = "page" /\ calls'[c].row = row
<1>1. PICK call : call = [Idle EXCEPT !.kind = "page", !.at = "answer", !.row = row]
  OBVIOUS
<1>2. call.at = "answer" /\ call.kind = "page" /\ call.row = row
  BY <1>1 DEF Idle
<1>3. calls' = [calls EXCEPT ![c] = call]
  BY <1>1 DEF ToAnswer
<1> QED  BY <1>2, <1>3, CallChanged DEF Others

LEMMA EndIs ==
  ASSUME Inv, NEW c \in Calls, End(c)
  PROVE  Others(c) /\ calls'[c] = Idle
BY CallChanged DEF End, Others

LEMMA GoIs ==
  ASSUME Inv, NEW c \in Calls, NEW point, Go(c, point)
  PROVE  Others(c) /\ calls'[c] = [calls[c] EXCEPT !.at = point] /\ calls'[c].at = point
         /\ calls'[c].kind = calls[c].kind /\ calls'[c].row = calls[c].row /\ calls'[c].to = calls[c].to
         /\ calls'[c].left = calls[c].left /\ calls'[c].order = calls[c].order
<1>1. calls[c] \in Call
  BY DEF Inv, CallsOK
<1> DEFINE call == [calls[c] EXCEPT !.at = point]
<1>2. calls' = [calls EXCEPT ![c] = call]
  BY DEF Go
<1>3. call.at = point /\ call.kind = calls[c].kind /\ call.row = calls[c].row /\ call.to = calls[c].to
      /\ call.left = calls[c].left /\ call.order = calls[c].order
  BY <1>1 DEF Call
<1>4. calls'[c] = call /\ Others(c)
  BY <1>2, CallChanged DEF Others
<1> QED  BY <1>3, <1>4

LEMMA ListIs ==
  ASSUME Inv, NEW c \in Calls, List(c)
  PROVE  Others(c) /\ calls'[c].at = "promote" /\ calls'[c].left = items[calls[c].row]
         /\ calls'[c].row = calls[c].row /\ calls'[c].kind = calls[c].kind /\ calls'[c].order = calls[c].order
<1> DEFINE call == [calls[c] EXCEPT !.at = "promote", !.left = items[calls[c].row]]
<1>1. calls' = [calls EXCEPT ![c] = call]
  BY DEF List
<1>2. call.at = "promote" /\ call.left = items[calls[c].row] /\ call.row = calls[c].row
      /\ call.kind = calls[c].kind /\ call.order = calls[c].order
  BY AtPoint DEF Call
<1>3. calls'[c] = call /\ Others(c)
  BY <1>1, CallChanged DEF Others
<1> QED  BY <1>2, <1>3

LEMMA BeginIs ==
  ASSUME Inv, NEW c \in Calls, NEW call, Begin(c, call)
  PROVE  Others(c) /\ calls'[c] = call /\ calls[c] = Idle
BY CallChanged DEF Begin, Others

\* How a call begins: nothing is on its list.
Fresh == {"move", "erase", "page", "insert", "log"}
Tracks(c) == \E o \in Orders, stage \in 1..MaxStage, note \in Notes \cup {None} : ReadTracked(c, o, stage, note)
LEMMA BeginsIs ==
  ASSUME Inv, NEW c \in Calls, Begins(c)
  PROVE  /\ Others(c) /\ calls[c] = Idle /\ UNCHANGED orders
         /\ calls'[c].at \in Fresh \/ (Tracks(c) /\ calls'[c].at = "write")
         /\ \/ UNCHANGED bundles \/ "patch" \in spoiled'
            \/ \E b \in Rows \ Used, code \in Codes :
                 bundles' = [bundles EXCEPT ![b] = [Blank EXCEPT !.used = TRUE, !.code = code, !.status = "active"]]
<1> DEFINE Starts == \E call : Begin(c, call) /\ call.at \in Fresh
           Makes == \E b \in Rows \ Used, code \in Codes :
                      bundles' = [bundles EXCEPT ![b] = [Blank EXCEPT !.used = TRUE, !.code = code, !.status = "active"]]
<1>1. ASSUME NEW id \in Ids, NEW to \in Steps, ReadStep(c, id, to)
      PROVE  Starts /\ UNCHANGED <<orders, bundles>>
  <2>1. PICK b, call : Begin(c, call) /\ call = [Idle EXCEPT !.kind = "step", !.at = "move", !.row = b, !.to = to,
                         !.down = to < bundles[b].step, !.status = bundles[b].status]
    BY <1>1 DEF ReadStep
  <2>2. call.at = "move"
    BY <2>1 DEF Idle
  <2> QED  BY <1>1, <2>1, <2>2 DEF ReadStep, data, Fresh
<1>2. ASSUME NEW id \in Ids, ReadUndo(c, id)
      PROVE  Starts /\ UNCHANGED <<orders, bundles>>
  <2>1. PICK b, n, to, call : Begin(c, call) /\ call = [Idle EXCEPT !.kind = "undo", !.at = "erase", !.row = b,
                                  !.entry = n, !.to = to]
    BY <1>2 DEF ReadUndo
  <2>2. call.at = "erase"
    BY <2>1 DEF Idle
  <2> QED  BY <1>2, <2>1, <2>2 DEF ReadUndo, data, Fresh
<1>3. \A id : Open(id).at = "page"
  BY DEF Open, Idle
<1>4. ASSUME NEW id \in Ids, OpenPage(c, id)
      PROVE  Starts /\ UNCHANGED <<orders, bundles>>
  BY <1>3, <1>4 DEF OpenPage, data, Fresh
<1>5. ASSUME NEW id \in Ids, PatchBundle(c, id)
      PROVE  Starts /\ UNCHANGED orders /\ "patch" \in spoiled'
  BY <1>3, <1>5 DEF PatchBundle, Spoils, Fresh
<1>6. ASSUME NEW id \in Ids, NEW o \in Orders, RemoveOrder(c, id, o)
      PROVE  Starts /\ UNCHANGED <<orders, bundles>>
  BY <1>3, <1>6 DEF RemoveOrder, Fresh
<1>7. ASSUME NEW id \in Ids, NEW o \in Orders, ReadAssign(c, id, o)
      PROVE  Starts /\ UNCHANGED <<orders, bundles>>
  <2>1. PICK call : Begin(c, call) /\ call = [Idle EXCEPT !.kind = "assign", !.at = "insert", !.id = id, !.order = o]
    BY <1>7 DEF ReadAssign
  <2>2. call.at = "insert"
    BY <2>1 DEF Idle
  <2> QED  BY <1>7, <2>1, <2>2 DEF ReadAssign, data, Fresh
<1>8. ASSUME NEW code \in Codes, NEW status \in Patches \cup {"active"},
         CreateBundle(c, code, status)
      PROVE  Starts /\ UNCHANGED orders /\ (Makes \/ "patch" \in spoiled')
  <2>1. PICK b, call :
          /\ b \in Rows \ Used
          /\ bundles' = [bundles EXCEPT ![b] = [Blank EXCEPT !.used = TRUE, !.code = code, !.status = status]]
          /\ Begin(c, call) /\ call = [Idle EXCEPT !.kind = "change", !.at = "log", !.row = b, !.to = Start]
    BY <1>8 DEF CreateBundle
  <2>2. call.at = "log"
    BY <2>1 DEF Idle
  <2>3. CASE status = "active"
    BY <1>8, <2>1, <2>2, <2>3 DEF CreateBundle, Fresh
  <2>4. CASE status # "active"
    BY <1>8, <2>1, <2>2, <2>4 DEF CreateBundle, Spoils, Fresh
  <2> QED  BY <2>3, <2>4
<1>9. ASSUME NEW o \in Orders, NEW stage \in 1..MaxStage, NEW note \in Notes \cup {None}, ReadTracked(c, o, stage, note)
      PROVE  /\ UNCHANGED <<orders, bundles>> /\ Others(c) /\ calls[c] = Idle
             /\ Tracks(c) /\ calls'[c].at = "write"
  <2>1. PICK call : Begin(c, call) /\ call = [Idle EXCEPT !.kind = "track", !.at = "write", !.order = o,
                      !.stage = stage, !.seen = orders[o].notes, !.note = note]
    BY <1>9 DEF ReadTracked
  <2>2. call.at = "write"
    BY <2>1 DEF Idle
  <2> QED  BY <1>9, <2>1, <2>2, BeginIs DEF ReadTracked, data, Tracks
<1>10. Starts => Others(c) /\ calls[c] = Idle /\ calls'[c].at \in Fresh
  BY BeginIs
<1> HIDE DEF Starts, Makes
<1>11. /\ Others(c) /\ calls[c] = Idle /\ UNCHANGED orders
       /\ calls'[c].at \in Fresh \/ (Tracks(c) /\ calls'[c].at = "write")
       /\ UNCHANGED bundles \/ "patch" \in spoiled' \/ Makes
  BY <1>1, <1>2, <1>4, <1>5, <1>6, <1>7, <1>8, <1>9, <1>10 DEF Begins
<1> QED  BY <1>11 DEF Makes

\* What keeps the unpacking, of a step of one call.
LEMMA SentKept ==
  ASSUME Inv, Inv', SentInv, NEW c \in Calls, [Next]_vars, Others(c),
         \A o \in Orders : Sent(o) => Sent(o)',
         Unspoiled(Unsent)' => \A b \in Rows :
           \/ LinkedTo(b)' = LinkedTo(b)
           \/ bundles'[b].status # "closed"
              /\ \A d \in Calls : calls[d].at \in {"list", "promote", "send"} => calls[d].row # b,
         Unspoiled(Unsent)' => \A b \in Rows :
           bundles'[b].status = "closed" => bundles[b].status = "closed" \/ \A o \in LinkedTo(b)' : Sent(o)',
         Unspoiled(Unsent)' /\ calls'[c].at \in {"list", "promote", "send"} =>
           \A o \in LinkedTo(calls[c].row)' : Sent(o)' \/ o \in Held(calls'[c], items')
  PROVE  SentInv'
<1> SUFFICES ASSUME Unspoiled(Unsent)'
    PROVE  /\ \A b \in Rows : bundles'[b].status = "closed" => \A o \in LinkedTo(b)' : Sent(o)'
           /\ \A d \in Calls : calls'[d].at \in {"list", "promote", "send"} =>
                \A o \in LinkedTo(calls[d].row)' : Sent(o)' \/ o \in Held(calls'[d], items')
  BY DEF SentInv, Held, Ahead
<1>1. Unspoiled(Unsent) /\ "removed" \notin spoiled'
  BY SpoiledGrows DEF Unspoiled, Unsent
<1>2. \A b \in Rows : LinkedTo(b) \subseteq Orders
  BY LinkedTyped DEF Inv
<1>3. \A b \in Rows : bundles'[b].status = "closed" => \A o \in LinkedTo(b)' : Sent(o)'
  BY <1>1, <1>2 DEF SentInv
<1>4. ASSUME NEW d \in Calls \ {c}, calls'[d].at \in {"list", "promote", "send"}
      PROVE  \A o \in LinkedTo(calls[d].row)' : Sent(o)' \/ o \in Held(calls'[d], items')
  <2>1. calls'[d] = calls[d] /\ calls[d].at \in {"list", "promote", "send"}
    BY <1>4 DEF Others
  <2>2. PICK b \in Rows : b = calls[d].row
    BY <2>1, AtPoint DEF AtRow
  <2>3. LinkedTo(b)' = LinkedTo(b)
    BY <2>1, <2>2
  <2>4. \A o \in LinkedTo(b) : Sent(o) \/ o \in Held(calls[d], items)
    BY <1>1, <2>1, <2>2 DEF SentInv
  <2>5. Held(calls[d], items) \subseteq Held(calls[d], items')
    BY <1>1, ListsKept DEF Held
  <2>6. \A o \in LinkedTo(b)' : Sent(o)' \/ o \in Held(calls[d], items')
    BY <1>2, <2>3, <2>4, <2>5
  <2> QED  BY <2>1, <2>2, <2>6
<1> QED  BY <1>3, <1>4

LEMMA SentQuiet ==
  ASSUME Inv, Inv', SentInv, NEW c \in Calls, [Next]_vars, Others(c), UNCHANGED <<orders, bundles>>,
         calls'[c].at \notin {"list", "promote", "send"}
  PROVE  SentInv'
<1>1. \A b \in Rows : LinkedTo(b)' = LinkedTo(b)
  BY LinkedStays
<1>2. \A o \in Orders : Sent(o) => Sent(o)'
  BY DEF Sent
<1> QED  BY <1>1, <1>2, SentKept

\* A row keeps its link, and is not closed if it was not.
LEMMA SentRow ==
  ASSUME Inv, Inv', SentInv, NEW c \in Calls, [Next]_vars, Others(c), UNCHANGED orders,
         calls'[c].at \notin {"list", "promote", "send"}, NEW b \in Rows, NEW row,
         bundles' = [bundles EXCEPT ![b] = row], row.source = bundles[b].source,
         row.status = bundles[b].status \/ row.status = "active"
  PROVE  SentInv'
<1>1. \A r \in Rows : bundles'[r].source = bundles[r].source
                      /\ (bundles'[r].status = "closed" => bundles[r].status = "closed")
  BY DEF Inv, DataOK
<1>2. \A o \in Orders : Sent(o) => Sent(o)'
  BY DEF Sent
<1>3. \A r \in Rows : LinkedTo(r)' = LinkedTo(r)
  BY <1>1, LinkedStays
<1> QED  BY <1>1, <1>2, <1>3, SentKept

\* A row is linked, or made with its link, when nobody unpacks it.
LEMMA SentLinked ==
  ASSUME Inv, Inv', SentInv, NEW c \in Calls, [Next]_vars, Others(c), UNCHANGED orders,
         calls'[c].at \notin {"list", "promote", "send"}, NEW b \in Rows, NEW row,
         bundles' = [bundles EXCEPT ![b] = row],
         Unspoiled(Unsent)' =>
           row.status = "active" /\ \A d \in Calls : calls[d].at \in {"list", "promote", "send"} => calls[d].row # b
  PROVE  SentInv'
<1>1. \A r \in Rows \ {b} : LinkedTo(r)' = LinkedTo(r) /\ bundles'[r] = bundles[r]
  BY DEF LinkedTo, Inventory, Inv, DataOK
<1>2. bundles'[b] = row
  BY DEF Inv, DataOK
<1>3. \A o \in Orders : Sent(o) => Sent(o)'
  BY DEF Sent
<1> QED  BY <1>1, <1>2, <1>3, SentKept

LEMMA SentBegins ==
  ASSUME Inv, Inv', SentInv, [Next]_vars, NEW c \in Calls, Begins(c)
  PROVE  SentInv'
<1>1. /\ Others(c) /\ calls'[c].at \notin {"list", "promote", "send"} /\ UNCHANGED orders
      /\ \/ UNCHANGED bundles \/ "patch" \in spoiled'
         \/ \E b \in Rows \ Used, code \in Codes :
              bundles' = [bundles EXCEPT ![b] = [Blank EXCEPT !.used = TRUE, !.code = code, !.status = "active"]]
  BY BeginsIs DEF Fresh
<1>2. CASE UNCHANGED bundles
  BY <1>1, <1>2, SentQuiet
<1>3. CASE "patch" \in spoiled'
  BY <1>3 DEF SentInv, Unspoiled, Unsent
<1>4. ASSUME NEW b \in Rows \ Used, NEW code \in Codes,
             bundles' = [bundles EXCEPT ![b] = [Blank EXCEPT !.used = TRUE, !.code = code, !.status = "active"]]
      PROVE  SentInv'
  <2>1. PICK row : row = [Blank EXCEPT !.used = TRUE, !.code = code, !.status = "active"]
    OBVIOUS
  <2>2. row.status = "active"
    BY <2>1 DEF Blank
  <2>3. \A d \in Calls : calls[d].at \in {"list", "promote", "send"} => calls[d].row # b
    BY <1>4, AtPoint DEF AtRow
  <2> QED  BY <1>1, <1>4, <2>1, <2>2, <2>3, SentLinked
<1> QED  BY <1>1, <1>2, <1>3, <1>4

LEMMA SentSync ==
  ASSUME Inv, Inv', SentInv, [Next]_vars, NEW c \in Calls, Sync(c)
  PROVE  SentInv'
<1> DEFINE row == calls[c].row
<1>1. row \in Rows /\ row \in Used /\ UNCHANGED <<orders, bundles>>
  BY AtPoint DEF Sync, At, AtRow
<1>2. CASE ToAnswer(c, row)
  BY <1>1, <1>2, ToAnswerIs, SentQuiet
<1>3. CASE Go(c, "list")
  <2>1. calls'[c].at = "list" /\ calls'[c].row = row /\ Others(c)
    BY <1>3, GoIs
  <2>2. Unspoiled(Unsent)' => Found(row) = {row}
    BY DEF Sync, Spoils, Unspoiled, Unsent
  <2>3. Unspoiled(Unsent)' => LinkedTo(row) \subseteq items'[row]
    BY <1>1, <2>2 DEF Sync, Inv, DataOK
  <2>4. \A b \in Rows : LinkedTo(b)' = LinkedTo(b)
    BY <1>1, LinkedStays
  <2>5. Unspoiled(Unsent)' => \A o \in LinkedTo(calls[c].row)' : o \in Held(calls'[c], items')
    BY <1>1, <2>1, <2>3, <2>4 DEF Held
  <2>6. \A o \in Orders : Sent(o) => Sent(o)'
    BY <1>1 DEF Sent
  <2> QED  BY <1>1, <2>1, <2>4, <2>5, <2>6, SentKept
<1> QED  BY <1>2, <1>3 DEF Sync

\* A call at work on its list: what it holds, if nothing spoilt it.
LEMMA SentHolds ==
  ASSUME Inv, SentInv, NEW c \in Calls, calls[c].at \in {"list", "promote", "send"}
  PROVE  /\ calls[c].row \in Rows /\ calls[c].row \in Used /\ calls[c].left \subseteq Orders
         /\ LinkedTo(calls[c].row) \subseteq Orders
         /\ Unspoiled(Unsent) => \A o \in LinkedTo(calls[c].row) : Sent(o) \/ o \in Held(calls[c], items)
<1>1. calls[c].row \in Rows /\ calls[c].row \in Used /\ calls[c].left \subseteq Orders
  BY AtPoint DEF AtRow, Call
<1> QED  BY <1>1, LinkedTyped DEF SentInv, Inv

LEMMA SentList ==
  ASSUME Inv, Inv', SentInv, [Next]_vars, NEW c \in Calls, List(c)
  PROVE  SentInv'
<1>1. calls[c].at = "list" /\ UNCHANGED <<bundles, items, orders, spoiled>>
  BY DEF List, At, data
<1>2. Others(c) /\ calls'[c].at = "promote" /\ calls'[c].row = calls[c].row
      /\ Held(calls'[c], items') = Held(calls[c], items)
  BY <1>1, ListIs DEF Held, Ahead
<1>3. \A b \in Rows : LinkedTo(b)' = LinkedTo(b)
  BY <1>1, LinkedStays
<1>4. \A o \in Orders : Sent(o) => Sent(o)'
  BY <1>1 DEF Sent
<1>5. Unspoiled(Unsent)' => \A o \in LinkedTo(calls[c].row)' : Sent(o)' \/ o \in Held(calls'[c], items')
  <2>1. Unspoiled(Unsent)' = Unspoiled(Unsent)
    BY <1>1 DEF Unspoiled
  <2>2. calls[c].row \in Rows /\ LinkedTo(calls[c].row) \subseteq Orders
        /\ (Unspoiled(Unsent) => \A o \in LinkedTo(calls[c].row) : Sent(o) \/ o \in Held(calls[c], items))
    BY <1>1, SentHolds
  <2> QED  BY <1>2, <1>3, <1>4, <2>1, <2>2
<1> QED  BY <1>1, <1>2, <1>3, <1>4, <1>5, SentKept

LEMMA SentReadOrder ==
  ASSUME Inv, Inv', SentInv, [Next]_vars, NEW c \in Calls, ReadOrder(c)
  PROVE  SentInv'
<1>1. PICK o \in calls[c].left :
        calls' = [calls EXCEPT ![c].left = @ \ {o}, ![c].order = IF Waiting(o) THEN o ELSE None,
                               ![c].at = IF Waiting(o) THEN "send" ELSE "promote"]
  BY DEF ReadOrder
<1>2. calls[c].at = "promote" /\ UNCHANGED <<bundles, orders, spoiled>>
  BY DEF ReadOrder, At, data
<1> DEFINE order == IF Waiting(o) THEN o ELSE None
           at == IF Waiting(o) THEN "send" ELSE "promote"
           call == [calls[c] EXCEPT !.left = @ \ {o}, !.order = order, !.at = at]
<1>3. call.left = calls[c].left \ {o} /\ call.order = order /\ call.at = at /\ call.row = calls[c].row
  BY AtPoint DEF Call
<1>4. calls'[c] = call /\ Others(c)
  <2>1. calls' = [calls EXCEPT ![c] = call]
    BY <1>1
  <2> HIDE DEF call
  <2> QED  BY <2>1, CallChanged DEF Others
<1> HIDE DEF call
<1>5. ~Waiting(o) => Sent(o)
  BY <1>1, <1>2, SentHolds DEF Waiting, Sent, Inv, DataOK, Order
<1>6. \A x \in Held(calls[c], items) : Sent(x) \/ x \in Held(call, items')
  BY <1>2, <1>3, <1>5 DEF Held, Ahead
<1>7. \A b \in Rows : LinkedTo(b)' = LinkedTo(b)
  BY <1>2, LinkedStays
<1>8. \A x \in Orders : Sent(x)' = Sent(x)
  BY <1>2 DEF Sent
<1>9. Unspoiled(Unsent)' => \A x \in LinkedTo(calls[c].row)' : Sent(x)' \/ x \in Held(calls'[c], items')
  BY <1>2, <1>3, <1>4, <1>6, <1>7, <1>8, SentHolds DEF Unspoiled
<1> QED  BY <1>2, <1>4, <1>7, <1>8, <1>9, SentKept

LEMMA SentPromote ==
  ASSUME Inv, Inv', SentInv, [Next]_vars, NEW c \in Calls, Promote(c)
  PROVE  SentInv'
<1>1. calls[c].at = "send" /\ calls[c].order \in Orders /\ UNCHANGED <<bundles, spoiled>> /\ Go(c, "promote")
  BY AtPoint DEF Promote, At, Formed
<1>2. \A o \in Orders : Sent(o) \/ o = calls[c].order => Sent(o)'
  BY <1>1 DEF Promote, Sent, Inv, DataOK, Order
<1>3. Others(c) /\ calls'[c].at = "promote" /\ calls'[c].row = calls[c].row /\ calls'[c].left = calls[c].left
  BY <1>1, GoIs
<1>4. \A b \in Rows : LinkedTo(b)' = LinkedTo(b)
  <2>1. \A o \in Orders : orders'[o].placed = orders[o].placed
    BY DEF Promote, Inv, DataOK, Order
  <2> QED  BY <1>1, <2>1, LinkedStays
<1>5. \A x \in Held(calls[c], items) : x = calls[c].order \/ x \in Held(calls'[c], items')
  BY <1>1, <1>3 DEF Held, Ahead
<1>6. Unspoiled(Unsent)' => \A x \in LinkedTo(calls[c].row)' : Sent(x)' \/ x \in Held(calls'[c], items')
  BY <1>1, <1>2, <1>3, <1>4, <1>5, SentHolds DEF Unspoiled
<1> QED  BY <1>1, <1>2, <1>3, <1>4, <1>6, SentKept

LEMMA SentClose ==
  ASSUME Inv, Inv', SentInv, [Next]_vars, NEW c \in Calls, Close(c)
  PROVE  SentInv'
<1> DEFINE b == calls[c].row
<1>1. calls[c].at = "promote" /\ calls[c].left = {} /\ UNCHANGED <<orders, spoiled>>
      /\ bundles' = [bundles EXCEPT ![b].status = "closed"] /\ (ToAnswer(c, b) \/ ToPage(c, b))
  BY DEF Close, At
<1>2. Unspoiled(Unsent) => \A o \in LinkedTo(b) : Sent(o)
  BY <1>1, SentHolds DEF Held, Ahead
<1>3. b \in Rows /\ Others(c) /\ calls'[c].at \notin {"list", "promote", "send"}
  BY <1>1, SentHolds, ToAnswerIs, ToPageIs
<1>4. \A r \in Rows : LinkedTo(r)' = LinkedTo(r) /\ (r # b => bundles'[r] = bundles[r])
  <2>1. \A r \in Rows : bundles'[r].source = bundles[r].source /\ (r # b => bundles'[r] = bundles[r])
    BY <1>1, <1>3 DEF Inv, DataOK, Bundle
  <2> QED  BY <1>1, <2>1, LinkedStays
<1>5. \A o \in Orders : Sent(o) => Sent(o)'
  BY <1>1 DEF Sent
<1>6. Unspoiled(Unsent)' => Unspoiled(Unsent)
  BY <1>1 DEF Unspoiled
<1>7. Unspoiled(Unsent)' => \A r \in Rows :
        bundles'[r].status = "closed" => bundles[r].status = "closed" \/ \A o \in LinkedTo(r)' : Sent(o)'
  <2> SUFFICES ASSUME Unspoiled(Unsent)', NEW r \in Rows, NEW o \in LinkedTo(r)', r = b  PROVE Sent(o)'
    BY <1>4
  <2>1. o \in LinkedTo(b) /\ o \in Orders
    BY <1>3, <1>4, LinkedTyped DEF Inv
  <2> QED  BY <1>2, <1>5, <1>6, <2>1
<1> HIDE DEF b
<1> QED  BY <1>3, <1>4, <1>5, <1>7, SentKept

LEMMA SentEnsure ==
  ASSUME Inv, Inv', SentInv, [Next]_vars, NEW c \in Calls, Ensure(c)
  PROVE  SentInv'
<1> DEFINE s == calls[c].id
<1>1. ASSUME NEW b, calls' = [calls EXCEPT ![c].at = "log", ![c].row = b, ![c].to = Start]
      PROVE  Others(c) /\ calls'[c].at = "log"
  <2>1. PICK call : call = [calls[c] EXCEPT !.at = "log", !.row = b, !.to = Start]
    OBVIOUS
  <2>2. call.at = "log"
    BY <2>1, AtPoint DEF Call
  <2>3. calls' = [calls EXCEPT ![c] = call]
    BY <1>1, <2>1
  <2> QED  BY <2>2, <2>3, CallChanged DEF Others
<1>2. Go(c, "page") => Others(c) /\ calls'[c].at = "page"
  BY GoIs
<1>3. CASE UNCHANGED bundles
  BY <1>1, <1>2, <1>3, SentQuiet DEF Ensure
<1>4. ASSUME NEW b \in Used, bundles' = [bundles EXCEPT ![b].source = s], Go(c, "page"), UNCHANGED orders,
             Spoils(IF Listed(b) THEN {"late"} ELSE {})
      PROVE  SentInv'
  <2>1. PICK row : row = [bundles[b] EXCEPT !.source = s]
    OBVIOUS
  <2>2. row.status = bundles[b].status /\ b \in Rows
    BY <2>1, UsedRow DEF Bundle, Inv, Used
  <2>3. Unspoiled(Unsent)' => ~Listed(b)
    BY <1>4 DEF Spoils, Unspoiled, Unsent
  <2>4. Unspoiled(Unsent)' =>
          row.status = "active" /\ \A d \in Calls : calls[d].at \in {"list", "promote", "send"} => calls[d].row # b
    BY <2>2, <2>3 DEF Listed
  <2> QED  BY <1>2, <1>4, <2>1, <2>2, <2>4, SentLinked
<1>5. ASSUME NEW b \in Rows \ Used, UNCHANGED orders,
             bundles' = [bundles EXCEPT ![b] = [Blank EXCEPT !.used = TRUE, !.source = s, !.code = s]],
             calls' = [calls EXCEPT ![c].at = "log", ![c].row = b, ![c].to = Start]
      PROVE  SentInv'
  <2>1. PICK row : row = [Blank EXCEPT !.used = TRUE, !.source = s, !.code = s]
    OBVIOUS
  <2>2. row.status = "active"
    BY <2>1 DEF Blank
  <2>3. \A d \in Calls : calls[d].at \in {"list", "promote", "send"} => calls[d].row # b
    BY <1>5, AtPoint DEF AtRow
  <2> QED  BY <1>1, <1>5, <2>1, <2>2, <2>3, SentLinked
<1> QED  BY <1>3, <1>4, <1>5 DEF Ensure

LEMMA Aside ==
  ASSUME Inv, NEW c \in Calls, NEW row,
         \/ \E point \in {"log", "sync", "reopen", "move", "ensure"} : Go(c, point)
         \/ ToPage(c, row) \/ ToAnswer(c, row) \/ End(c)
  PROVE  Others(c) /\ calls'[c].at \notin {"list", "promote", "send"}
<1>1. ASSUME NEW point \in {"log", "sync", "reopen", "move", "ensure"}, Go(c, point)
      PROVE  Others(c) /\ calls'[c].at \notin {"list", "promote", "send"}
  <2>1. Others(c) /\ calls'[c].at = point
    BY <1>1, GoIs
  <2> QED  BY <2>1
<1>2. CASE ToPage(c, row)
  BY <1>2, ToPageIs
<1>3. CASE ToAnswer(c, row)
  BY <1>3, ToAnswerIs
<1>4. CASE End(c)
  BY <1>4, EndIs, IdleFormed
<1> QED  BY <1>1, <1>2, <1>3, <1>4

LEMMA SentMoves ==
  ASSUME Inv, Inv', SentInv, [Next]_vars, NEW c \in Calls, Move(c) \/ Reopen(c)
  PROVE  SentInv'
<1> DEFINE b == calls[c].row
<1>1. b \in Rows /\ bundles[b] \in Bundle
  BY AtPoint, UsedRow DEF Move, Reopen, At, AtRow, Inv
<1>2. Others(c) /\ calls'[c].at \notin {"list", "promote", "send"} /\ UNCHANGED orders
  <2>1. (Go(c, "log") \/ ToPage(c, b)) /\ UNCHANGED orders
    BY DEF Move, Reopen
  <2> HIDE DEF b
  <2> QED  BY <2>1, Aside
<1>3. \E row : bundles' = [bundles EXCEPT ![b] = row] /\ row.source = bundles[b].source
               /\ (row.status = bundles[b].status \/ row.status = "active")
  <2>1. PICK step, status : /\ bundles' = [bundles EXCEPT ![b] = step] \/ bundles' = [bundles EXCEPT ![b] = status]
                            /\ step = [bundles[b] EXCEPT !.step = calls[c].to]
                            /\ status = [bundles[b] EXCEPT !.status = "active"]
    BY DEF Move, Reopen
  <2>2. step.source = bundles[b].source /\ step.status = bundles[b].status
        /\ status.source = bundles[b].source /\ status.status = "active"
    BY <1>1, <2>1 DEF Bundle
  <2> QED  BY <2>1, <2>2
<1> QED  BY <1>1, <1>2, <1>3, SentRow

\* An order is placed: with a bundle whose list was made, that is too late for it.
LEMMA SentPlaced ==
  ASSUME Inv, Inv', SentInv, NEW p \in Orders, PlaceOrder(p)
  PROVE  SentInv'
<1> SUFFICES ASSUME Unspoiled(Unsent)'  PROVE SentInv'
  BY DEF SentInv
<1>1. UNCHANGED <<bundles, items, calls>> /\ Unspoiled(Unsent)
  BY DEF PlaceOrder, Spoils, Unspoiled
<1>2. \A b \in Rows : Listed(b) => p \notin Inventory(b)
  BY DEF PlaceOrder, Spoils, Unspoiled, Unsent
<1>3. \A o \in Orders : orders'[o].stage = orders[o].stage /\ (o # p => orders'[o].placed = orders[o].placed)
  BY DEF PlaceOrder, Inv, DataOK, Order
<1>4. \A b \in Rows : Listed(b) => LinkedTo(b)' = LinkedTo(b) /\ LinkedTo(b) \subseteq Orders
  <2>1. \A b \in Rows : Inventory(b) \subseteq Orders /\ Inventory(b)' = Inventory(b)
    BY <1>1, Constants DEF Inv, DataOK, Bundle, Inventory
  <2> QED  BY <1>2, <1>3, <2>1 DEF LinkedTo
<1>5. \A b \in Rows : bundles[b].status = "closed" => Listed(b)
  BY DEF Listed
<1>6. \A c \in Calls : calls[c].at \in {"list", "promote", "send"} =>
        calls[c].row \in Rows /\ Listed(calls[c].row)
  BY AtPoint DEF Listed, AtRow
<1>7. \A o \in Orders : Sent(o) => Sent(o)'
  BY <1>3 DEF Sent
<1>8. \A b \in Rows : bundles'[b].status = "closed" => \A o \in LinkedTo(b)' : Sent(o)'
  BY <1>1, <1>4, <1>5, <1>7 DEF SentInv
<1>9. \A c \in Calls : calls'[c].at \in {"list", "promote", "send"} =>
        \A o \in LinkedTo(calls[c].row)' : Sent(o)' \/ o \in Held(calls'[c], items')
  BY <1>1, <1>4, <1>6, <1>7 DEF SentInv
<1> QED  BY <1>8, <1>9 DEF SentInv, Held, Ahead

LEMMA SentNext ==
  ASSUME Inv, Inv', SentInv, [Next]_vars
  PROVE  SentInv'
<1>1. CASE ListTrackedOrders \/ UNCHANGED vars
  <2>1. UNCHANGED <<bundles, orders, calls, spoiled>>
    BY <1>1 DEF ListTrackedOrders, vars
  <2>2. \A b \in Rows : LinkedTo(b)' = LinkedTo(b)
    BY <2>1, LinkedStays
  <2>3. SUFFICES ASSUME Unspoiled(Unsent)'  PROVE SentInv'
    BY DEF SentInv
  <2>4. Unspoiled(Unsent) /\ "removed" \notin spoiled'
    BY <2>1, <2>3 DEF Unspoiled, Unsent
  <2>5. \A c \in Calls : Held(calls[c], items) \subseteq Held(calls[c], items')
    BY <2>4, ListsKept DEF Held
  <2>6. \A o : Sent(o)' = Sent(o)
    BY <2>1 DEF Sent
  <2>7. \A b \in Rows : bundles'[b].status = "closed" => \A o \in LinkedTo(b)' : Sent(o)'
    BY <2>1, <2>2, <2>4, <2>6 DEF SentInv
  <2>8. \A c \in Calls : calls'[c].at \in {"list", "promote", "send"} =>
          \A o \in LinkedTo(calls[c].row)' : Sent(o)' \/ o \in Held(calls'[c], items')
    BY <2>1, <2>2, <2>4, <2>5, <2>6, AtPoint DEF SentInv, AtRow
  <2> QED  BY <2>7, <2>8, <2>1 DEF SentInv, Held, Ahead
<1>2. ASSUME NEW c \in Calls, Log(c) \/ Erase(c) \/ Page(c) \/ Backfill(c) \/ InsertItem(c) \/ Answer(c) \/ Dies(c)
      PROVE  SentInv'
  <2>1. UNCHANGED <<orders, bundles>>
    BY <1>2 DEF Log, Erase, Page, Backfill, InsertItem, Answer, Dies, data
  <2>2. Others(c) /\ calls'[c].at \notin {"list", "promote", "send"}
    <3>1. ASSUME Page(c)  PROVE Others(c) /\ calls'[c].at \notin {"list", "promote", "send"}
      <4>1. ASSUME NEW b, calls' = [calls EXCEPT ![c].at = "backfill", ![c].row = b, ![c].id = None,
                                    ![c].to = bundles[b].step, ![c].status = bundles[b].status]
            PROVE  Others(c) /\ calls'[c].at = "backfill"
        <5>1. PICK call : call = [calls[c] EXCEPT !.at = "backfill", !.row = b, !.id = None,
                                    !.to = bundles[b].step, !.status = bundles[b].status]
          OBVIOUS
        <5>2. call.at = "backfill"
          BY <5>1, AtPoint DEF Call
        <5>3. calls' = [calls EXCEPT ![c] = call]
          BY <4>1, <5>1
        <5> QED  BY <5>2, <5>3, CallChanged DEF Others
      <4>2. Go(c, "ensure") \/ End(c) => Others(c) /\ calls'[c].at \notin {"list", "promote", "send"}
        BY Aside
      <4>3. ASSUME NEW b, ToAnswer(c, b)  PROVE Others(c) /\ calls'[c].at \notin {"list", "promote", "send"}
        BY <4>3, ToAnswerIs
      <4> QED  BY <3>1, <4>1, <4>2, <4>3 DEF Page
    <3>2. ASSUME InsertItem(c)  PROVE Others(c) /\ calls'[c].at \notin {"list", "promote", "send"}
      <4>1. Open(calls[c].id).at = "page"
        BY DEF Open, Idle
      <4> QED  BY <3>2, <4>1, EndIs, CallChanged, IdleFormed DEF InsertItem, Others
    <3>3. ASSUME Log(c)  PROVE Others(c) /\ calls'[c].at \notin {"list", "promote", "send"}
      <4>1. Go(c, "sync") \/ Go(c, "reopen") \/ ToPage(c, calls[c].row)
        BY <3>3 DEF Log
      <4> QED  BY <4>1, Aside
    <3>4. ASSUME Erase(c) \/ Backfill(c) \/ Answer(c) \/ Dies(c)
          PROVE  Others(c) /\ calls'[c].at \notin {"list", "promote", "send"}
      <4>1. Go(c, "move") \/ Go(c, "sync") \/ End(c)
        BY <3>4 DEF Erase, Backfill, Answer, Dies
      <4> QED  BY <4>1, Aside
    <3> QED  BY <1>2, <3>1, <3>2, <3>3, <3>4
  <2> QED  BY <2>1, <2>2, SentQuiet
<1>3. ASSUME NEW c \in Calls, WriteTracked(c)  PROVE SentInv'
  <2>1. calls[c].stage > 0 /\ calls[c].order \in Orders /\ UNCHANGED bundles
        /\ Others(c) /\ calls'[c].at \notin {"list", "promote", "send"}
    BY <1>3, AtPoint, EndIs, IdleFormed DEF WriteTracked, At, Formed
  <2>2. \A o \in Orders : Sent(o) => Sent(o)'
    BY <1>3, <2>1 DEF WriteTracked, Sent, Inv, DataOK
  <2>3. \A b \in Rows : LinkedTo(b)' = LinkedTo(b)
    <3>1. \A o \in Orders : orders'[o].placed = orders[o].placed
      BY <1>3 DEF WriteTracked, Inv, DataOK, Order
    <3> QED  BY <2>1, <3>1, LinkedStays
  <2> QED  BY <2>1, <2>2, <2>3, SentKept
<1>4. ASSUME NEW c \in Calls, Continues(c)  PROVE SentInv'
  BY <1>2, <1>3, <1>4, SentSync, SentList, SentReadOrder, SentPromote, SentClose, SentEnsure, SentMoves
     DEF Continues
<1> QED  BY <1>1, <1>2, <1>4, SentBegins, SentPlaced DEF Next

\* A bundle at its last step is closed only when every order of its inventory is on the
\* order leg, whatever died, overlapped, was undone or moved back: the list was read with
\* all of them.  An order or inventory that joins the bundle after its list was made, an
\* order taken out before the list was read, a step or status set by hand and a list made
\* under another bundle's id are what it does not bear.
THEOREM ClosedSent == Spec => []ClosedIsSent
<1>1. Init => SentInv
  BY IdleFormed DEF Init, SentInv, Blank
<1>2. Inv /\ SentInv /\ [Next]_vars => Inv' /\ SentInv'
  BY InvNext, SentNext
<1>3. Inv /\ SentInv => ClosedIsSent
  BY DEF SentInv, ClosedIsSent, Sent, Used, Unsent, Inv
<1> QED  BY <1>1, <1>2, <1>3, InitInv, PTL DEF Spec

(***************************************************************************)
(* One moving call at a time, while none overlapped another.                 *)
(***************************************************************************)
Alone ==
  Unspoiled({"moves"}) =>
    \A c, d \in Calls : calls[c].kind \in Moving /\ calls[d].kind \in Moving => c = d

LEMMA ContinuesOthers ==
  ASSUME Inv, NEW c \in Calls, Continues(c) \/ Dies(c)
  PROVE  Others(c)
<1>1. ASSUME NEW row, \/ \E point : Go(c, point)
                      \/ ToPage(c, row) \/ ToAnswer(c, row) \/ End(c)
      PROVE  Others(c)
  BY <1>1, GoIs, ToPageIs, ToAnswerIs, EndIs
<1>2. CASE Move(c) \/ Log(c) \/ Reopen(c) \/ Promote(c) \/ Close(c) \/ Erase(c) \/ Backfill(c) \/ Answer(c)
           \/ WriteTracked(c) \/ Dies(c)
  BY <1>1, <1>2 DEF Move, Log, Reopen, Promote, Close, Erase, Backfill, Answer, WriteTracked, Dies
<1>3. CASE Sync(c) \/ List(c)
  BY <1>1, <1>3, ListIs DEF Sync
<1>4. CASE ReadOrder(c)
  BY <1>4 DEF ReadOrder, Others, Inv, CallsOK
<1>5. CASE Page(c)
  <2>1. ASSUME NEW b, calls' = [calls EXCEPT ![c].at = "backfill", ![c].row = b, ![c].id = None,
                                    ![c].to = bundles[b].step, ![c].status = bundles[b].status]
        PROVE  Others(c)
    BY <2>1 DEF Others, Inv, CallsOK
  <2> QED  BY <1>1, <1>5, <2>1 DEF Page
<1>6. CASE Ensure(c)
  <2>1. ASSUME NEW b, calls' = [calls EXCEPT ![c].at = "log", ![c].row = b, ![c].to = Start]
        PROVE  Others(c)
    BY <2>1 DEF Others, Inv, CallsOK
  <2> QED  BY <1>1, <1>6, <2>1 DEF Ensure
<1>7. CASE InsertItem(c)
  BY <1>1, <1>7, CallChanged DEF InsertItem, Others
<1> QED  BY <1>2, <1>3, <1>4, <1>5, <1>6, <1>7 DEF Continues

\* Who is between two statements and is not writing a note is moving.
LEMMA MovesAt ==
  ASSUME NEW call, Formed(call), call.at \notin {"none", "write"}
  PROVE  call.kind \in Moving
BY IdleFormed DEF Formed, Call, Kinds, Moving

\* A call that begins while another moves is known to overlap it.
LEMMA BeginsOverlap ==
  ASSUME Inv, NEW c \in Calls, Begins(c)
  PROVE  \E kind : Overlap(kind) \subseteq spoiled' /\ (calls'[c].kind \in Moving => kind \in Moving)
<1> USE DEF Spoils, Moving
<1>0. \A id : Open(id).kind = "page"
  BY DEF Open, Idle
<1>1. ASSUME NEW id \in Ids, NEW to \in Steps, ReadStep(c, id, to)
      PROVE  Overlap("step") \subseteq spoiled'
  BY <1>1 DEF ReadStep
<1>2. ASSUME NEW id \in Ids, ReadUndo(c, id)
      PROVE  Overlap("undo") \subseteq spoiled'
  BY <1>2 DEF ReadUndo
<1>3. ASSUME NEW id \in Ids, OpenPage(c, id)
      PROVE  Overlap("page") \subseteq spoiled'
  BY <1>3 DEF OpenPage
<1>4. ASSUME NEW id \in Ids, PatchBundle(c, id)
      PROVE  Overlap("change") \subseteq spoiled'
  BY <1>4 DEF PatchBundle
<1>5. ASSUME NEW id \in Ids, NEW o \in Orders, RemoveOrder(c, id, o)
      PROVE  Overlap("change") \subseteq spoiled'
  BY <1>5 DEF RemoveOrder
<1>6. ASSUME NEW id \in Ids, NEW o \in Orders, ReadAssign(c, id, o)
      PROVE  Overlap("assign") \subseteq spoiled'
  BY <1>6 DEF ReadAssign
<1>7. ASSUME NEW code \in Codes, NEW status \in Patches \cup {"active"},
         CreateBundle(c, code, status)
      PROVE  Overlap("change") \subseteq spoiled'
  BY <1>7 DEF CreateBundle
<1>8. ASSUME NEW o \in Orders, NEW stage \in 1..MaxStage, NEW note \in Notes \cup {None}, ReadTracked(c, o, stage, note)
      PROVE  Overlap("track") \subseteq spoiled' /\ calls'[c].kind = "track"
  <2>1. PICK call : Begin(c, call) /\ call = [Idle EXCEPT !.kind = "track", !.at = "write", !.order = o,
                      !.stage = stage, !.seen = orders[o].notes, !.note = note]
    BY <1>8 DEF ReadTracked
  <2>2. call.kind = "track"
    BY <2>1 DEF Idle
  <2> QED  BY <1>8, <2>1, <2>2, BeginIs DEF ReadTracked
<1> HIDE DEF Spoils
<1> QED  BY <1>1, <1>2, <1>3, <1>4, <1>5, <1>6, <1>7, <1>8 DEF Begins

LEMMA AloneNext ==
  ASSUME Inv, Alone, [Next]_vars
  PROVE  Alone'
<1> SUFFICES ASSUME Unspoiled({"moves"})'
             PROVE  \A c, d \in Calls : calls'[c].kind \in Moving /\ calls'[d].kind \in Moving => c = d
  BY DEF Alone
<1>1. Unspoiled({"moves"}) /\ "moves" \notin spoiled'
  BY SpoiledGrows DEF Unspoiled
<1>2. \A c, d \in Calls : calls[c].kind \in Moving /\ calls[d].kind \in Moving => c = d
  BY <1>1 DEF Alone
<1>3. CASE ListTrackedOrders \/ (\E o \in Orders : PlaceOrder(o)) \/ UNCHANGED vars
  BY <1>2, <1>3 DEF ListTrackedOrders, PlaceOrder, vars
<1>4. ASSUME NEW c \in Calls, Continues(c) \/ Dies(c)
      PROVE  \A d, e \in Calls : calls'[d].kind \in Moving /\ calls'[e].kind \in Moving => d = e
  <2>1. Others(c)
    BY <1>4, ContinuesOthers
  <2>2. calls'[c].kind \in Moving => calls[c].kind \in Moving
    <3>1. CASE calls[c].at \in {"none", "write"}
      <4>1. End(c)
        BY <1>4, <3>1 DEF Continues, Dies, Move, Log, Reopen, Sync, List, ReadOrder, Promote, Close,
           Erase, Page, Ensure, Backfill, Answer, InsertItem, WriteTracked, At
      <4> QED  BY <4>1, EndIs, IdleFormed DEF Moving
    <3>2. CASE calls[c].at \notin {"none", "write"}
      BY <3>2, MovesAt, AtPoint
    <3> QED  BY <3>1, <3>2
  <2> QED  BY <1>2, <2>1, <2>2 DEF Others
<1>5. ASSUME NEW c \in Calls, Begins(c)
      PROVE  \A d, e \in Calls : calls'[d].kind \in Moving /\ calls'[e].kind \in Moving => d = e
  <2>1. Others(c)
    BY <1>5, BeginsIs
  <2>2. PICK kind : Overlap(kind) \subseteq spoiled' /\ (calls'[c].kind \in Moving => kind \in Moving)
    BY <1>5, BeginsOverlap
  <2>3. calls'[c].kind \in Moving => \A d \in Calls : calls[d].kind \notin Moving
    BY <1>1, <2>2 DEF Overlap
  <2> QED  BY <1>2, <2>1, <2>3 DEF Others
<1> QED  BY <1>3, <1>4, <1>5 DEF Next

LEMMA AloneInit == Init => Alone
BY IdleFormed DEF Init, Alone, Moving

(***************************************************************************)
(* The page.  What a page saw of the bundle is still so while it moves        *)
(* alone, and it answers once it has closed what it found active.            *)
(***************************************************************************)
PageOK(call) ==
  /\ call.kind = "page" /\ call.at \in {"backfill", "sync"} =>
       bundles[call.row].step = call.to /\ bundles[call.row].status = call.status
  /\ call.at = "answer" => ~ (bundles[call.row].step = Unpack /\ bundles[call.row].status = "active")
PageInv == Unspoiled({"moves"}) => \A c \in Calls : PageOK(calls[c])

LEMMA PageKept ==
  ASSUME Inv, Inv', Alone', PageInv, [Next]_vars, NEW c \in Calls, Others(c),
         UNCHANGED bundles \/ calls'[c].kind \in Moving,
         Unspoiled({"moves"})' => PageOK(calls[c])'
  PROVE  PageInv'
<1> SUFFICES ASSUME Unspoiled({"moves"})', NEW d \in Calls  PROVE PageOK(calls[d])'
  BY DEF PageInv
<1>1. Unspoiled({"moves"})
  BY SpoiledGrows DEF Unspoiled
<1>2. CASE d = c
  BY <1>2
<1>3. CASE d # c /\ UNCHANGED bundles
  BY <1>1, <1>3 DEF PageInv, PageOK, Others
<1>4. CASE d # c /\ calls'[c].kind \in Moving
  <2>1. calls'[d].kind \notin Moving
    BY <1>4 DEF Alone
  <2>2. calls'[d].at \in {"none", "write"}
    BY <2>1, MovesAt DEF Inv, CallsOK
  <2> QED  BY <2>2 DEF PageOK
<1> QED  BY <1>2, <1>3, <1>4

\* Where a page has nothing to keep.
LEMMA PageFree ==
  ASSUME NEW c \in Calls, calls'[c].at \notin {"backfill", "sync", "answer"}
  PROVE  PageOK(calls[c])'
BY DEF PageOK

LEMMA PageSync ==
  ASSUME Inv, Inv', Alone', PageInv, [Next]_vars, NEW c \in Calls, Sync(c)
  PROVE  PageInv'
<1> DEFINE row == calls[c].row
<1>1. Others(c) /\ UNCHANGED bundles /\ calls[c].at = "sync"
  BY ContinuesOthers DEF Continues, Sync, At
<1>2. CASE ToAnswer(c, row) /\ calls[c].kind = "page" /\ ~Heals(c)
  <2>1. calls'[c].at = "answer" /\ calls'[c].row = row
    BY <1>2, ToAnswerIs
  <2>2. Unspoiled({"moves"})' => PageOK(calls[c])
    BY SpoiledGrows DEF PageInv, Unspoiled
  <2>3. Unspoiled({"moves"})' => PageOK(calls[c])'
    BY <1>1, <1>2, <2>1, <2>2 DEF PageOK, Heals
  <2> QED  BY <1>1, <2>3, PageKept
<1>3. CASE Go(c, "list")
  <2>1. calls'[c].at = "list"
    BY <1>3, GoIs
  <2> QED  BY <1>1, <2>1, PageFree, PageKept
<1> QED  BY <1>2, <1>3 DEF Sync

LEMMA PagePage ==
  ASSUME Inv, Inv', Alone', PageInv, [Next]_vars, NEW c \in Calls, Page(c)
  PROVE  PageInv'
<1>1. Others(c) /\ UNCHANGED bundles
  BY ContinuesOthers DEF Continues, Page, data
<1>2. ASSUME NEW b \in Found(calls[c].id), bundles[b].step < Unpack, ToAnswer(c, b)  PROVE PageInv'
  <2>1. calls'[c].at = "answer" /\ calls'[c].row = b
    BY <1>2, ToAnswerIs
  <2>2. bundles[b].step # Unpack
    BY <1>2, Constants
  <2>3. PageOK(calls[c])'
    BY <1>1, <2>1, <2>2 DEF PageOK
  <2> QED  BY <1>1, <2>3, PageKept
<1>3. ASSUME NEW b \in Found(calls[c].id),
             calls' = [calls EXCEPT ![c].at = "backfill", ![c].row = b, ![c].id = None,
                                    ![c].to = bundles[b].step, ![c].status = bundles[b].status]
      PROVE  PageInv'
  <2>1. PICK call : call = [calls[c] EXCEPT !.at = "backfill", !.row = b, !.id = None,
                                    !.to = bundles[b].step, !.status = bundles[b].status]
    OBVIOUS
  <2>2. call.at = "backfill" /\ call.row = b /\ call.to = bundles[b].step /\ call.status = bundles[b].status
    BY <2>1, AtPoint DEF Call
  <2>3. calls' = [calls EXCEPT ![c] = call]
    BY <1>3, <2>1
  <2>4. calls'[c] = call
    BY <2>3, CallChanged
  <2>5. PageOK(calls[c])'
    BY <1>1, <2>2, <2>4 DEF PageOK
  <2> QED  BY <1>1, <2>5, PageKept
<1>4. CASE Go(c, "ensure") \/ End(c)
  <2>1. calls'[c].at \in {"ensure", "none"}
    BY <1>4, GoIs, EndIs, IdleFormed
  <2> QED  BY <1>1, <2>1, PageFree, PageKept
<1> QED  BY <1>2, <1>3, <1>4 DEF Page

LEMMA PageNext ==
  ASSUME Inv, Inv', Alone', PageInv, [Next]_vars
  PROVE  PageInv'
<1>1. CASE ListTrackedOrders \/ (\E o \in Orders : PlaceOrder(o)) \/ UNCHANGED vars
  <2>1. UNCHANGED <<bundles, calls>>
    BY <1>1 DEF ListTrackedOrders, PlaceOrder, vars
  <2>2. Unspoiled({"moves"})' => Unspoiled({"moves"})
    BY SpoiledGrows DEF Unspoiled
  <2> QED  BY <2>1, <2>2 DEF PageInv, PageOK
<1>2. ASSUME NEW c \in Calls, Begins(c)  PROVE PageInv'
  <2>1. Others(c) /\ (calls'[c].at \in Fresh \/ (Tracks(c) /\ calls'[c].at = "write"))
    BY <1>2, BeginsIs
  <2>2. UNCHANGED bundles \/ calls'[c].kind \in Moving
    <3>1. Formed(calls'[c])
      BY DEF Inv, CallsOK
    <3> QED  BY <2>1, <3>1, MovesAt DEF Fresh, Tracks, ReadTracked, data
  <2>3. PageOK(calls[c])'
    BY <2>1, PageFree DEF Fresh
  <2> QED  BY <2>1, <2>2, <2>3, PageKept
<1>3. ASSUME NEW c \in Calls, Move(c) \/ Reopen(c) \/ Erase(c) \/ Promote(c) \/ List(c) \/ ReadOrder(c)
                            \/ Ensure(c)
      PROVE  PageInv'
  <2>1. Others(c) /\ calls[c].at \notin {"none", "write"}
    BY <1>3, ContinuesOthers DEF Continues, Move, Reopen, Erase, Promote, List, ReadOrder, Ensure, At
  <2>2. calls'[c].at \in {"log", "page", "move", "promote", "send"}
    <3>1. CASE \/ ReadOrder(c)
               \/ \E b : calls' = [calls EXCEPT ![c].at = "log", ![c].row = b, ![c].to = Start]
      <4>1. PICK call : calls' = [calls EXCEPT ![c] = call] /\ call.at \in {"log", "send", "promote"}
        <5>1. CASE ReadOrder(c)
          <6>1. PICK o : calls' = [calls EXCEPT ![c].left = @ \ {o}, ![c].order = IF Waiting(o) THEN o ELSE None,
                                               ![c].at = IF Waiting(o) THEN "send" ELSE "promote"]
            BY <5>1 DEF ReadOrder
          <6> DEFINE at == IF Waiting(o) THEN "send" ELSE "promote"
          <6>2. PICK call : call = [calls[c] EXCEPT !.left = @ \ {o}, !.order = IF Waiting(o) THEN o ELSE None,
                                                    !.at = at]
            OBVIOUS
          <6>3. calls' = [calls EXCEPT ![c] = call]
            BY <6>1, <6>2
          <6>4. at \in {"send", "promote"}
            OBVIOUS
          <6> HIDE DEF at
          <6>5. call.at = at
            BY <6>2, AtPoint DEF Call
          <6> QED  BY <6>3, <6>4, <6>5
        <5>2. ASSUME NEW b, calls' = [calls EXCEPT ![c].at = "log", ![c].row = b, ![c].to = Start]
              PROVE  \E call : calls' = [calls EXCEPT ![c] = call] /\ call.at \in {"log", "send", "promote"}
          <6>1. PICK call : call = [calls[c] EXCEPT !.at = "log", !.row = b, !.to = Start]
            OBVIOUS
          <6>2. call.at = "log"
            BY <6>1, AtPoint DEF Call
          <6>3. calls' = [calls EXCEPT ![c] = call]
            BY <5>2, <6>1
          <6> QED  BY <6>2, <6>3
        <5> QED  BY <3>1, <5>1, <5>2
      <4> QED  BY <4>1, CallChanged
    <3>2. ASSUME NEW point \in {"log", "page", "move", "promote"}, Go(c, point)
          PROVE  calls'[c].at \in {"log", "page", "move", "promote", "send"}
      <4>1. calls'[c].at = point
        BY <3>2, GoIs
      <4> QED  BY <4>1
    <3>3. ASSUME NEW row, ToPage(c, row)  PROVE calls'[c].at = "page"
      BY <3>3, ToPageIs
    <3> QED  BY <1>3, <3>1, <3>2, <3>3, ListIs DEF Move, Reopen, Erase, Promote, Ensure
  <2>3. calls'[c].kind \in Moving
    <3>1. Formed(calls'[c])
      BY DEF Inv, CallsOK
    <3> QED  BY <2>2, <3>1, MovesAt
  <2>4. PageOK(calls[c])'
    BY <2>2, PageFree
  <2> QED  BY <2>1, <2>3, <2>4, PageKept
<1>4. ASSUME NEW c \in Calls, Log(c)  PROVE PageInv'
  <2>1. Others(c) /\ UNCHANGED bundles
    BY <1>4, ContinuesOthers DEF Continues, Log
  <2>2. CASE Go(c, "sync") /\ calls[c].kind = "step"
    <3>1. calls'[c].at = "sync" /\ calls'[c].kind = "step"
      BY <2>2, GoIs
    <3> QED  BY <2>1, <3>1, PageKept DEF PageOK
  <2>3. CASE Go(c, "reopen") \/ ToPage(c, calls[c].row)
    <3>1. calls'[c].at \in {"reopen", "page"}
      BY <2>3, GoIs, ToPageIs
    <3> QED  BY <2>1, <3>1, PageFree, PageKept
  <2> QED  BY <1>4, <2>2, <2>3 DEF Log
<1>5. ASSUME NEW c \in Calls, Close(c)  PROVE PageInv'
  <2> DEFINE b == calls[c].row
  <2>1. Others(c) /\ b \in Rows /\ bundles[b] \in Bundle
    BY <1>5, ContinuesOthers, AtPoint, UsedRow DEF Continues, Close, At, AtRow, Inv
  <2>2. bundles'[b].status = "closed"
    BY <1>5, <2>1 DEF Close, Inv, DataOK, Bundle
  <2>3. CASE ToAnswer(c, b)
    <3>1. calls'[c].kind = "page" /\ calls'[c].at = "answer" /\ calls'[c].row = b
      BY <2>3, ToAnswerIs
    <3> QED  BY <2>1, <2>2, <3>1, PageKept DEF PageOK, Moving
  <2>4. CASE ToPage(c, b)
    <3>1. calls'[c].kind = "page" /\ calls'[c].at = "page"
      BY <2>4, ToPageIs
    <3> QED  BY <2>1, <3>1, PageFree, PageKept DEF Moving
  <2> QED  BY <1>5, <2>3, <2>4 DEF Close
<1>6. ASSUME NEW c \in Calls, Backfill(c)  PROVE PageInv'
  <2>1. Others(c) /\ UNCHANGED bundles /\ Go(c, "sync") /\ calls[c].at = "backfill"
    BY <1>6, ContinuesOthers DEF Continues, Backfill, At
  <2>2. /\ calls'[c].at = "sync" /\ calls'[c].kind = calls[c].kind /\ calls'[c].row = calls[c].row
        /\ calls'[c].to = calls[c].to /\ calls'[c].status = calls[c].status
    <3>1. calls'[c] = [calls[c] EXCEPT !.at = "sync"]
      BY <2>1, GoIs
    <3> QED  BY <3>1, AtPoint DEF Call
  <2>3. Unspoiled({"moves"})' => PageOK(calls[c])
    BY SpoiledGrows DEF PageInv, Unspoiled
  <2>4. Unspoiled({"moves"})' => PageOK(calls[c])'
    BY <2>1, <2>2, <2>3 DEF PageOK
  <2> QED  BY <2>1, <2>4, PageKept
<1>7. ASSUME NEW c \in Calls, Answer(c) \/ Dies(c) \/ WriteTracked(c) \/ InsertItem(c)  PROVE PageInv'
  <2>1. Others(c) /\ UNCHANGED bundles
    BY <1>7, ContinuesOthers DEF Continues, Answer, Dies, WriteTracked, InsertItem, data
  <2>2. calls'[c].at \in {"none", "page"}
    <3>1. Open(calls[c].id).at = "page"
      BY DEF Open, Idle
    <3> QED  BY <1>7, <3>1, EndIs, CallChanged, IdleFormed DEF Answer, Dies, WriteTracked, InsertItem
  <2> QED  BY <2>1, <2>2, PageFree, PageKept
<1>8. ASSUME NEW c \in Calls, Continues(c)  PROVE PageInv'
  BY <1>3, <1>4, <1>5, <1>6, <1>7, <1>8, PageSync, PagePage DEF Continues
<1> QED  BY <1>1, <1>2, <1>7, <1>8 DEF Next

\* Whoever opens the page of a bundle at the unpacking step does not see it active, whatever
\* died before and though a patch put it there, unless another call moves it meanwhile.
THEOREM PageFinished == Spec => []PageFinishes
<1>1. Init => PageInv
  BY IdleFormed DEF Init, PageInv, PageOK
<1>2. Inv /\ Alone /\ PageInv /\ [Next]_vars => Inv' /\ Alone' /\ PageInv'
  BY InvNext, AloneNext, PageNext
<1>3. PageInv => PageFinishes
  BY DEF PageInv, PageOK, PageFinishes, At
<1> QED  BY <1>1, <1>2, <1>3, InitInv, AloneInit, PTL DEF Spec

(***************************************************************************)
(* The order leg.  A note is written over what its call read, and an order    *)
(* is sent on while it waits: both are read before they are written.         *)
(***************************************************************************)
Promoting(call) == call.at = "send" => orders[call.order].stage <= 1
LegInv ==
  Unspoiled({"tracks"}) =>
    \A c \in Calls :
      /\ calls[c].kind = "track" =>
           /\ \A d \in Calls \ {c} : calls[d] = Idle
           /\ calls[c].seen = orders[calls[c].order].notes
      /\ Promoting(calls[c])

\* The calls that go on write no note later, and only one reads what it will send on.
LEMMA OnwardAt ==
  ASSUME Inv, NEW c \in Calls, Continues(c) \/ Dies(c), ~ReadOrder(c)
  PROVE  calls'[c].at \notin {"write", "send"}
<1>1. ASSUME NEW point \in {"log", "sync", "list", "reopen", "move", "ensure", "promote", "page"}, Go(c, point)
      PROVE  calls'[c].at \notin {"write", "send"}
  <2>1. calls'[c].at = point
    BY <1>1, GoIs
  <2> QED  BY <2>1
<1>2. ASSUME NEW row, ToPage(c, row) \/ ToAnswer(c, row) \/ End(c)
      PROVE  calls'[c].at \notin {"write", "send"}
  <2>1. calls'[c].at \in {"page", "answer", "none"}
    BY <1>2, ToPageIs, ToAnswerIs, EndIs, IdleFormed
  <2> QED  BY <2>1
<1>3. ASSUME NEW call, calls' = [calls EXCEPT ![c] = call], call.at \notin {"write", "send"}
      PROVE  calls'[c].at \notin {"write", "send"}
  BY <1>3, CallChanged
<1>4. CASE Move(c) \/ Log(c) \/ Reopen(c) \/ Promote(c) \/ Close(c) \/ Erase(c) \/ Backfill(c) \/ Answer(c)
           \/ WriteTracked(c) \/ Dies(c)
  BY <1>1, <1>2, <1>4 DEF Move, Log, Reopen, Promote, Close, Erase, Backfill, Answer, WriteTracked, Dies
<1>5. CASE Sync(c) \/ List(c)
  BY <1>1, <1>2, <1>5, ListIs DEF Sync
<1>6. CASE Page(c)
  <2>1. ASSUME NEW b, calls' = [calls EXCEPT ![c].at = "backfill", ![c].row = b, ![c].id = None,
                                    ![c].to = bundles[b].step, ![c].status = bundles[b].status]
        PROVE  calls'[c].at \notin {"write", "send"}
    <3>1. PICK call : call = [calls[c] EXCEPT !.at = "backfill", !.row = b, !.id = None,
                                    !.to = bundles[b].step, !.status = bundles[b].status]
      OBVIOUS
    <3>2. call.at = "backfill"
      BY <3>1, AtPoint DEF Call
    <3>3. calls' = [calls EXCEPT ![c] = call]
      BY <2>1, <3>1
    <3> QED  BY <1>3, <3>2, <3>3
  <2> QED  BY <1>1, <1>2, <1>6, <2>1 DEF Page
<1>7. CASE Ensure(c)
  <2>1. ASSUME NEW b, calls' = [calls EXCEPT ![c].at = "log", ![c].row = b, ![c].to = Start]
        PROVE  calls'[c].at \notin {"write", "send"}
    <3>1. PICK call : call = [calls[c] EXCEPT !.at = "log", !.row = b, !.to = Start]
      OBVIOUS
    <3>2. call.at = "log"
      BY <3>1, AtPoint DEF Call
    <3>3. calls' = [calls EXCEPT ![c] = call]
      BY <2>1, <3>1
    <3> QED  BY <1>3, <3>2, <3>3
  <2> QED  BY <1>1, <1>7, <2>1 DEF Ensure
<1>8. CASE InsertItem(c)
  <2>1. Open(calls[c].id).at = "page"
    BY DEF Open, Idle
  <2> QED  BY <1>2, <1>3, <1>8, <2>1 DEF InsertItem
<1> QED  BY <1>4, <1>5, <1>6, <1>7, <1>8 DEF Continues

LEMMA ReadOrderIs ==
  ASSUME Inv, NEW c \in Calls, ReadOrder(c), calls'[c].at = "send"
  PROVE  Waiting(calls'[c].order)
<1>1. PICK o : calls' = [calls EXCEPT ![c].left = @ \ {o}, ![c].order = IF Waiting(o) THEN o ELSE None,
                                      ![c].at = IF Waiting(o) THEN "send" ELSE "promote"]
  BY DEF ReadOrder
<1> DEFINE order == IF Waiting(o) THEN o ELSE None
           at == IF Waiting(o) THEN "send" ELSE "promote"
<1>2. PICK call : call = [calls[c] EXCEPT !.left = @ \ {o}, !.order = order, !.at = at]
  OBVIOUS
<1>3. calls' = [calls EXCEPT ![c] = call]
  BY <1>1, <1>2
<1>4. calls'[c] = call
  BY <1>3, CallChanged
<1>5. at = "send" => order = o /\ Waiting(o)
  OBVIOUS
<1> HIDE DEF order, at
<1>6. call.at = at /\ call.order = order
  BY <1>2, AtPoint DEF Call
<1> QED  BY <1>4, <1>5, <1>6

\* Nobody writes a note while a moving call is on its way.
LEMMA NoTrack ==
  ASSUME Inv, LegInv, Unspoiled({"tracks"}), NEW c \in Calls, calls[c].at \notin {"none", "write"}
  PROVE  \A d \in Calls : calls[d].kind # "track"
<1>1. calls[c] # Idle /\ calls[c].kind # "track"
  BY AtPoint, IdleFormed DEF Formed
<1> QED  BY <1>1 DEF LegInv

LEMMA LegContinues ==
  ASSUME Inv, Inv', LegInv, [Next]_vars, Unspoiled({"tracks"}), NEW c \in Calls, Continues(c) \/ Dies(c)
  PROVE  \A d \in Calls :
           /\ calls'[d].kind = "track" => /\ \A e \in Calls \ {d} : calls'[e] = Idle
                                          /\ calls'[d].seen = orders'[calls'[d].order].notes
           /\ Promoting(calls[d])'
<1>1. Others(c)
  BY ContinuesOthers
<1>2. CASE End(c) /\ UNCHANGED orders
  <2>1. calls'[c] = Idle
    BY <1>2, EndIs
  <2>2. \A d \in Calls : calls'[d] = calls[d] \/ (calls'[d] = Idle /\ Idle.kind = "idle" /\ Idle.at = "none")
    BY <1>1, <2>1, IdleFormed DEF Others
  <2> QED  BY <1>2, <2>2, IdleFormed DEF LegInv, Promoting
<1>3. CASE WriteTracked(c)
  <2>1. calls[c].kind = "track" /\ End(c)
    BY <1>3, AtPoint DEF WriteTracked, At, Formed
  <2>2. calls'[c] = Idle
    BY <2>1, EndIs
  <2>3. \A d \in Calls : calls'[d] = Idle
    BY <1>1, <2>1, <2>2 DEF LegInv, Others
  <2> QED  BY <2>3, IdleFormed DEF Promoting
<1>4. CASE calls[c].at \notin {"none", "write"} /\ ~ (End(c) /\ UNCHANGED orders)
  <2>1. \A d \in Calls : calls[d].kind # "track"
    BY <1>4, NoTrack
  <2>2. calls'[c].at # "write" /\ (calls'[c].at = "send" => ReadOrder(c))
    <3>1. CASE ReadOrder(c)
      <4>1. Formed(calls'[c]) /\ calls[c].kind # "track"
        BY <2>1 DEF Inv, CallsOK
      <4>2. calls'[c].kind = calls[c].kind
        <5>1. PICK o, order, at : calls' = [calls EXCEPT ![c].left = @ \ {o}, ![c].order = order, ![c].at = at]
          BY <3>1 DEF ReadOrder
        <5>2. PICK call : call = [calls[c] EXCEPT !.left = @ \ {o}, !.order = order, !.at = at]
          OBVIOUS
        <5>3. calls' = [calls EXCEPT ![c] = call]
          BY <5>1, <5>2
        <5>4. call.kind = calls[c].kind
          BY <5>2, AtPoint DEF Call
        <5> QED  BY <5>3, <5>4, CallChanged
      <4> QED  BY <3>1, <4>1, <4>2 DEF Formed
    <3>2. CASE ~ReadOrder(c)
      BY <3>2, OnwardAt
    <3> QED  BY <3>1, <3>2
  <2>3. calls'[c].kind # "track"
    BY <2>2 DEF Inv, CallsOK, Formed
  <2>4. \A d \in Calls : calls'[d].kind # "track"
    BY <1>1, <2>1, <2>3 DEF Others
  <2>5. \A o \in Orders : orders'[o] = orders[o] \/ orders'[o].stage = 1
    <3>1. CASE Promote(c)
      BY <3>1 DEF Promote, Inv, DataOK, Order
    <3>2. CASE ~Promote(c)
      <4>1. ~WriteTracked(c)
        BY <1>4 DEF WriteTracked, At
      <4> QED  BY <3>2, <4>1 DEF Continues, Dies, Move, Log, Reopen, Sync, List, ReadOrder, Close, Erase,
                  Page, Ensure, Backfill, Answer, InsertItem, data
    <3> QED  BY <3>1, <3>2
  <2>6. \A d \in Calls : calls[d].at = "send" => calls[d].order \in Orders
    BY DEF Inv, CallsOK, Formed
  <2>7. ASSUME NEW d \in Calls \ {c}  PROVE Promoting(calls[d])'
    BY <1>1, <2>5, <2>6 DEF LegInv, Promoting, Others
  <2>8. Promoting(calls[c])'
    <3> SUFFICES ASSUME calls'[c].at = "send"  PROVE orders'[calls'[c].order].stage <= 1
      BY DEF Promoting
    <3>1. ReadOrder(c) /\ Waiting(calls'[c].order)
      BY <2>2, ReadOrderIs
    <3> QED  BY <3>1 DEF ReadOrder, data, Waiting
  <2> QED  BY <2>4, <2>7, <2>8
<1>5. CASE calls[c].at = "none"
  BY <1>5 DEF Continues, Dies, Move, Log, Reopen, Sync, List, ReadOrder, Promote, Close, Erase,
     Page, Ensure, Backfill, Answer, InsertItem, WriteTracked, At
<1>6. CASE calls[c].at = "write"
  <2>1. WriteTracked(c) \/ (End(c) /\ UNCHANGED orders)
    BY <1>6 DEF Continues, Dies, Move, Log, Reopen, Sync, List, ReadOrder, Promote, Close, Erase,
       Page, Ensure, Backfill, Answer, InsertItem, At, data
  <2> QED  BY <1>2, <1>3, <2>1
<1> QED  BY <1>2, <1>4, <1>5, <1>6

LEMMA LegBegins ==
  ASSUME Inv, Inv', LegInv, [Next]_vars, Unspoiled({"tracks"})', NEW c \in Calls, Begins(c)
  PROVE  \A d \in Calls :
           /\ calls'[d].kind = "track" => /\ \A e \in Calls \ {d} : calls'[e] = Idle
                                          /\ calls'[d].seen = orders'[calls'[d].order].notes
           /\ Promoting(calls[d])'
<1>0. Unspoiled({"tracks"}) /\ "tracks" \notin spoiled'
  BY SpoiledGrows DEF Unspoiled
<1>1. Others(c) /\ UNCHANGED orders /\ (calls'[c].at \in Fresh \/ (Tracks(c) /\ calls'[c].at = "write"))
  BY BeginsIs
<1>2. \A d \in Calls : Promoting(calls[d])'
  BY <1>0, <1>1 DEF LegInv, Promoting, Others, Fresh
<1>3. \A d \in Calls : calls[d].kind = "track" => calls[d] # Idle
  BY IdleFormed
<1>4. \A d \in Calls : calls[d].kind # "track"
  <2>1. PICK kind : Overlap(kind) \subseteq spoiled'
    BY BeginsOverlap
  <2> QED  BY <1>0, <1>3, <2>1 DEF Overlap
<1>5. CASE calls'[c].at \in Fresh
  <2>1. calls'[c].kind # "track"
    BY <1>5 DEF Inv, CallsOK, Formed, Fresh
  <2> QED  BY <1>1, <1>2, <1>4, <2>1 DEF Others
<1>6. CASE Tracks(c)
  <2>1. PICK o, stage, note : o \in Orders /\ ReadTracked(c, o, stage, note)
    BY <1>6 DEF Tracks
  <2>2. Overlap("track") \subseteq spoiled'
    BY <2>1 DEF ReadTracked, Spoils
  <2>3. \A d \in Calls : calls[d] = Idle
    BY <1>0, <2>2 DEF Overlap
  <2>4. PICK call : Begin(c, call) /\ call = [Idle EXCEPT !.kind = "track", !.at = "write", !.order = o,
                      !.stage = stage, !.seen = orders[o].notes, !.note = note]
    BY <2>1 DEF ReadTracked
  <2>5. call.seen = orders[o].notes /\ call.order = o
    BY <2>4 DEF Idle
  <2>6. calls'[c] = call
    BY <2>4, BeginIs
  <2>7. \A d \in Calls \ {c} : calls'[d] = Idle
    BY <1>1, <2>3 DEF Others
  <2>8. \A d \in Calls : calls'[d].kind = "track" => d = c
    BY <2>7, IdleFormed
  <2> QED  BY <1>1, <1>2, <2>5, <2>6, <2>7, <2>8
<1> QED  BY <1>1, <1>5, <1>6

LEMMA LegNext ==
  ASSUME Inv, Inv', LegInv, [Next]_vars
  PROVE  LegInv'
<1> SUFFICES ASSUME Unspoiled({"tracks"})'
    PROVE  \A d \in Calls :
             /\ calls'[d].kind = "track" => /\ \A e \in Calls \ {d} : calls'[e] = Idle
                                            /\ calls'[d].seen = orders'[calls'[d].order].notes
             /\ Promoting(calls[d])'
  BY DEF LegInv
<1>1. Unspoiled({"tracks"})
  BY SpoiledGrows DEF Unspoiled
<1>2. CASE ListTrackedOrders \/ UNCHANGED vars
  <2>1. UNCHANGED <<orders, calls>>
    BY <1>2 DEF ListTrackedOrders, vars
  <2> QED  BY <1>1, <2>1 DEF LegInv, Promoting
<1>3. ASSUME NEW p \in Orders, PlaceOrder(p)
      PROVE  \A d \in Calls :
               /\ calls'[d].kind = "track" => /\ \A e \in Calls \ {d} : calls'[e] = Idle
                                              /\ calls'[d].seen = orders'[calls'[d].order].notes
               /\ Promoting(calls[d])'
  <2>1. UNCHANGED calls /\ \A o \in Orders : /\ orders'[o].stage = orders[o].stage
                                             /\ orders'[o].notes = orders[o].notes
    BY <1>3 DEF PlaceOrder, Inv, DataOK, Order
  <2>2. \A d \in Calls : calls[d].kind = "track" \/ calls[d].at = "send" => calls[d].order \in Orders
    BY DEF Inv, CallsOK, Formed
  <2> QED  BY <1>1, <2>1, <2>2 DEF LegInv, Promoting
<1> QED  BY <1>1, <1>2, <1>3, LegContinues, LegBegins DEF Next

\* No note on an order is lost, and no unpacking takes an order back on its leg, unless a
\* note overlaps another call: what was read is still so when it is written.
THEOREM NotesKept == Spec => LegKept
<1> DEFINE Step == Unspoiled({"tracks"}) =>
             \A o \in Orders :
               /\ orders[o].notes \subseteq orders'[o].notes
               /\ (\E c \in Calls : At(c, "send") /\ calls'[c].at = "promote")
                  => orders[o].stage <= orders'[o].stage
<1>1. Init => LegInv
  BY IdleFormed DEF Init, LegInv, Promoting
<1>2. Inv /\ LegInv /\ [Next]_vars => Inv' /\ LegInv'
  BY InvNext, LegNext
<1>3. Inv /\ LegInv /\ [Next]_vars => [Step]_vars
  <2> SUFFICES ASSUME Inv, LegInv, [Next]_vars, Unspoiled({"tracks"}), NEW o \in Orders
      PROVE  /\ orders[o].notes \subseteq orders'[o].notes
             /\ (\E c \in Calls : At(c, "send") /\ calls'[c].at = "promote")
                => orders[o].stage <= orders'[o].stage
    OBVIOUS
  <2>0. orders[o].stage \in Nat
    BY ConstantsAssumption DEF Inv, DataOK, Order
  <2>1. CASE UNCHANGED orders
    BY <2>0, <2>1
  <2>2. ASSUME NEW c \in Calls, Promote(c)
        PROVE  orders[o].notes \subseteq orders'[o].notes /\ orders[o].stage <= orders'[o].stage
    <3>1. orders[calls[c].order].stage <= 1
      BY <2>2 DEF LegInv, Promoting, Promote, At
    <3>2. orders' = [orders EXCEPT ![calls[c].order].stage = 1]
      BY <2>2 DEF Promote
    <3> QED  BY <2>0, <3>1, <3>2 DEF Inv, DataOK, Order
  <2>3. ASSUME NEW c \in Calls, WriteTracked(c)
        PROVE  orders[o].notes \subseteq orders'[o].notes
               /\ \A d \in Calls : At(d, "send") => calls'[d].at # "promote"
    <3>1. calls[c].kind = "track" /\ calls[c].order \in Orders /\ End(c)
      BY <2>3, AtPoint DEF WriteTracked, At, Formed
    <3>2. calls[c].seen = orders[calls[c].order].notes
      BY <3>1 DEF LegInv
    <3>3. orders[o].notes \subseteq orders'[o].notes
      BY <2>3, <3>1, <3>2 DEF WriteTracked, Noted, Inv, DataOK
    <3>4. Others(c) /\ calls'[c].at = "none"
      BY <3>1, EndIs, IdleFormed
    <3> QED  BY <3>3, <3>4 DEF Others, At
  <2>4. \/ UNCHANGED orders \/ \E c \in Calls : Promote(c) \/ WriteTracked(c)
        \/ \E p \in Orders : PlaceOrder(p)
    <3>1. ASSUME NEW c \in Calls, Begins(c)  PROVE UNCHANGED orders
      BY <3>1, BeginsIs
    <3>2. ASSUME NEW c \in Calls, Continues(c)  PROVE UNCHANGED orders \/ Promote(c) \/ WriteTracked(c)
      BY <3>2 DEF Continues, Move, Log, Reopen, Sync, List, ReadOrder, Close, Erase, Page,
         Ensure, Backfill, Answer, InsertItem, data
    <3> QED  BY <3>1, <3>2 DEF Next, Dies, ListTrackedOrders, vars, data
  <2>5. ASSUME NEW p \in Orders, PlaceOrder(p)
        PROVE  orders[o].notes \subseteq orders'[o].notes /\ orders[o].stage <= orders'[o].stage
    BY <2>0, <2>5 DEF PlaceOrder, Inv, DataOK, Order
  <2> QED  BY <2>1, <2>2, <2>3, <2>4, <2>5
<1> QED  BY <1>1, <1>2, <1>3, InitInv, PTL DEF Spec, LegKept

(***************************************************************************)
(* Steps and their history.                                                *)
(***************************************************************************)
Top(b, entries, step) ==
  (\E n \in entries : history[b][n] = step) /\ \A k \in entries : history[b][k] <= step
Settled(b) == Top(b, Entries(b), bundles[b].step)

\* A call that has still to write the half that makes its row settled.
Writing(call, b) == call.row = b /\ (call.at = "log" \/ (call.at = "move" /\ call.kind = "undo"))
Between(call) ==
  LET b == call.row IN
  /\ call.at = "move" /\ call.kind = "step" => Settled(b) /\ (call.down \/ bundles[b].step <= call.to)
  /\ call.at = "move" /\ call.kind = "undo" => Top(b, Entries(b), call.to)
  /\ call.at = "erase" => Settled(b) /\ Top(b, Entries(b) \ {call.entry}, call.to)
  /\ call.at = "log" =>
       \/ Settled(b) /\ call.to <= bundles[b].step
       \/ bundles[b].step = call.to /\ \A k \in Entries(b) : history[b][k] <= call.to
Unsettling == {"moves", "patch", "backward", "death"}
StepInv ==
  Unspoiled(Unsettling) =>
    /\ \A b \in Used : Settled(b) \/ \E c \in Calls : Writing(calls[c], b)
    /\ \A b \in Rows : ~bundles[b].used => history[b] = <<>>
    /\ \A c \in Calls : Between(calls[c])

SameSteps(b) ==
  bundles'[b].step = bundles[b].step /\ bundles'[b].used = bundles[b].used /\ history'[b] = history[b]
LEMMA SettledSame ==
  ASSUME NEW b, SameSteps(b)
  PROVE  Settled(b)' = Settled(b) /\ Entries(b)' = Entries(b)
BY DEF SameSteps, Settled, Top, Entries

\* A step that leaves every row as it is.
LEMMA StepQuiet ==
  ASSUME Inv, Inv', StepInv, [Next]_vars, NEW c \in Calls, Others(c), \A b \in Rows : SameSteps(b),
         Unspoiled(Unsettling)' =>
           Between(calls[c])' /\ \A b \in Rows : Settled(b) \/ ~Writing(calls[c], b)
  PROVE  StepInv'
<1> SUFFICES ASSUME Unspoiled(Unsettling)'  PROVE StepInv'
  BY DEF StepInv
<1>1. Unspoiled(Unsettling)
  BY SpoiledGrows DEF Unspoiled
<1>2. ASSUME NEW b \in Used'  PROVE Settled(b)' \/ \E d \in Calls : Writing(calls[d], b)'
  <2>1. b \in Used /\ b \in Rows
    BY DEF Used, SameSteps
  <2>2. CASE Settled(b)
    BY <2>1, <2>2, SettledSame
  <2>3. ASSUME NEW d \in Calls, Writing(calls[d], b), ~Settled(b)  PROVE Writing(calls[d], b)'
    <3>1. d # c
      BY <2>1, <2>3
    <3> QED  BY <2>3, <3>1 DEF Others, Writing
  <2> QED  BY <1>1, <2>1, <2>2, <2>3 DEF StepInv
<1>3. \A b \in Rows : ~bundles'[b].used => history'[b] = <<>>
  BY <1>1 DEF StepInv, SameSteps
<1>4. ASSUME NEW d \in Calls  PROVE Between(calls[d])'
  <2>1. CASE d = c
    BY <2>1
  <2>2. CASE d # c
    <3>1. calls'[d] = calls[d]
      BY <2>2 DEF Others
    <3>2. CASE calls[d].at \notin {"move", "erase", "log"}
      BY <3>1, <3>2 DEF Between
    <3>3. CASE calls[d].at \in {"move", "erase", "log"}
      <4>1. PICK b \in Rows : b = calls[d].row
        BY <3>3, AtPoint DEF AtRow
      <4>2. SameSteps(b) /\ Settled(b)' = Settled(b) /\ Entries(b)' = Entries(b) /\ Between(calls[d])
        BY <1>1, SettledSame DEF StepInv
      <4>3. \A entries, step : Top(b, entries, step)' = Top(b, entries, step)
        BY <4>2 DEF Top, SameSteps
      <4> QED  BY <3>1, <4>1, <4>2 DEF Between, Top, SameSteps
    <3> QED  BY <3>2, <3>3
  <2> QED  BY <2>1, <2>2
<1> QED  BY <1>2, <1>3, <1>4 DEF StepInv

\* A step of the only moving call, of one row.
LEMMA StepMover ==
  ASSUME Inv, Inv', Alone', StepInv, [Next]_vars, NEW c \in Calls, Others(c), calls'[c].kind \in Moving,
         Unspoiled(Unsettling)', NEW r \in Rows,
         \A b \in Rows \ {r} : SameSteps(b) /\ ~Writing(calls[c], b),
         bundles'[r].used, Settled(r)' \/ Writing(calls'[c], r), Between(calls[c])'
  PROVE  StepInv'
<1>1. Unspoiled(Unsettling) /\ Unspoiled({"moves"})'
  BY SpoiledGrows DEF Unspoiled, Unsettling
<1>2. \A d \in Calls \ {c} : calls'[d] = calls[d] /\ calls[d].kind \notin Moving
  BY <1>1 DEF Others, Alone
<1>3. \A d \in Calls \ {c} : calls[d].at \in {"none", "write"}
  BY <1>2, MovesAt DEF Inv, CallsOK
<1>4. ASSUME NEW b \in Used'  PROVE Settled(b)' \/ \E d \in Calls : Writing(calls[d], b)'
  <2>1. CASE b = r
    BY <2>1 DEF Writing
  <2>2. CASE b # r
    <3>1. b \in Used /\ b \in Rows /\ SameSteps(b)
      BY <2>2 DEF Used, SameSteps
    <3>2. \A d \in Calls : ~Writing(calls[d], b)
      BY <1>3, <2>2, <3>1 DEF Writing
    <3>3. Settled(b)
      BY <1>1, <3>1, <3>2 DEF StepInv
    <3> QED  BY <3>1, <3>3, SettledSame
  <2> QED  BY <2>1, <2>2
<1>5. \A b \in Rows : ~bundles'[b].used => history'[b] = <<>>
  BY <1>1 DEF StepInv, SameSteps
<1>6. \A d \in Calls : Between(calls[d])'
  BY <1>2, <1>3 DEF Between
<1> QED  BY <1>4, <1>5, <1>6 DEF StepInv

\* Where a call has nothing half written.
LEMMA BetweenFree ==
  ASSUME NEW c \in Calls, calls'[c].at \notin {"move", "erase", "log"}
  PROVE  Between(calls[c])'
BY DEF Between

\* What a history is after one more step, or with one taken out.
LEMMA EntriesAppended ==
  ASSUME Inv, NEW b \in Rows, NEW step \in Steps, history' = [history EXCEPT ![b] = Append(@, step)]
  PROVE  \E n \in Nat : /\ n \notin Entries(b) /\ Entries(b)' = Entries(b) \cup {n} /\ history'[b][n] = step
                        /\ \A k \in Entries(b) : history'[b][k] = history[b][k]
<1>1. history[b] \in Seq(Steps \cup {0}) /\ history'[b] = Append(history[b], step) /\ step # 0 /\ Len(history[b]) \in Nat
  BY Constants DEF Inv, DataOK
<1> DEFINE n == Len(history[b]) + 1
<1>2. Len(history'[b]) = n /\ history'[b][n] = step
      /\ \A k \in 1..Len(history[b]) : history'[b][k] = history[b][k]
  BY <1>1
<1>3. 1..n = 1..Len(history[b]) \cup {n} /\ n \notin 1..Len(history[b]) /\ n \in Nat
  BY <1>1
<1> HIDE DEF n
<1>4. Entries(b)' = Entries(b) \cup {n} /\ n \notin Entries(b)
  BY <1>1, <1>2, <1>3 DEF Entries
<1> QED  BY <1>2, <1>3, <1>4 DEF Entries

LEMMA EntriesErased ==
  ASSUME Inv, NEW b \in Rows, NEW n, history' = [history EXCEPT ![b][n] = 0]
  PROVE  Entries(b)' = Entries(b) \ {n} /\ \A k \in Entries(b) \ {n} : history'[b][k] = history[b][k]
<1>1. history[b] \in Seq(Steps \cup {0}) /\ history'[b] = [history[b] EXCEPT ![n] = 0]
  BY DEF Inv, DataOK
<1>2. Len(history'[b]) = Len(history[b])
  BY <1>1, SeqChanged
<1>3. \A k \in 1..Len(history[b]) : history'[b][k] = IF k = n THEN 0 ELSE history[b][k]
  BY <1>1
<1> QED  BY <1>2, <1>3 DEF Entries

\* Who may be between the two halves: the call that moves, if one does.
LEMMA OneMover ==
  ASSUME Inv, Alone, StepInv, Unspoiled(Unsettling), NEW c \in Calls,
         calls[c].kind \in Moving \/ \A d \in Calls : calls[d].kind \notin Moving
  PROVE  /\ \A b \in Used : Settled(b) \/ Writing(calls[c], b)
         /\ Between(calls[c]) /\ \A b \in Rows \ Used : history[b] = <<>>
<1>1. \A d \in Calls \ {c} : calls[d].kind \notin Moving
  BY DEF Alone, Unspoiled, Unsettling
<1>2. \A d \in Calls \ {c} : calls[d].at \in {"none", "write"}
  BY <1>1, MovesAt DEF Inv, CallsOK
<1>3. \A d \in Calls \ {c}, b \in Used : ~Writing(calls[d], b)
  BY <1>2 DEF Writing
<1> QED  BY <1>3 DEF StepInv, Used

\* A call that has nothing half written before and after, and writes no step.
LEMMA StepRests ==
  ASSUME Inv, Inv', StepInv, [Next]_vars, NEW c \in Calls, Others(c), \A b \in Rows : SameSteps(b),
         calls[c].at \notin {"move", "log"}, calls'[c].at \notin {"move", "erase", "log"}
  PROVE  StepInv'
<1>1. Between(calls[c])'
  BY BetweenFree
<1>2. \A b \in Rows : ~Writing(calls[c], b)
  BY DEF Writing
<1> QED  BY <1>1, <1>2, StepQuiet

LEMMA StepReadStep ==
  ASSUME Inv, Inv', Alone, StepInv, [Next]_vars, NEW c \in Calls, NEW id \in Ids, NEW to \in Steps,
         ReadStep(c, id, to)
  PROVE  StepInv'
<1>1. PICK b \in Found(id) :
        /\ NextOrBack(bundles[b].step, to)
        /\ Begin(c, [Idle EXCEPT !.kind = "step", !.at = "move", !.row = b, !.to = to,
                                !.down = to < bundles[b].step, !.status = bundles[b].status])
  BY DEF ReadStep
<1> DEFINE down == to < bundles[b].step
<1>2. PICK call : call = [Idle EXCEPT !.kind = "step", !.at = "move", !.row = b, !.to = to,
                                !.down = down, !.status = bundles[b].status]
  OBVIOUS
<1>3. call.kind = "step" /\ call.at = "move" /\ call.row = b /\ call.to = to /\ call.down = down
  <2> HIDE DEF down
  <2> QED  BY <1>2 DEF Idle
<1>4. calls'[c] = call /\ calls[c] = Idle /\ Others(c)
  BY <1>1, <1>2, BeginIs
<1>5. b \in Used /\ b \in Rows /\ bundles[b].step \in Nat /\ to \in Nat
  BY <1>1, FoundUsed, UsedRow, Constants DEF Used, Inv, Bundle
<1>6. \A r \in Rows : SameSteps(r)
  BY DEF ReadStep, data, SameSteps
<1>7. ASSUME Unspoiled(Unsettling)'  PROVE Between(calls[c])'
  <2>1. Unspoiled(Unsettling) /\ "moves" \notin spoiled'
    BY <1>7, SpoiledGrows DEF Unspoiled, Unsettling
  <2>2. \A d \in Calls : calls[d].kind \notin Moving
    BY <2>1 DEF ReadStep, Spoils, Overlap, Moving
  <2>3. Settled(b)
    BY <1>4, <1>5, <2>1, <2>2, OneMover, IdleFormed DEF Writing
  <2>4. Settled(b)' /\ (down \/ bundles[b].step <= to)
    BY <1>1, <1>5, <1>6, <2>3, SettledSame DEF NextOrBack
  <2>5. bundles'[b].step = bundles[b].step
    BY <1>5, <1>6 DEF SameSteps
  <2> HIDE DEF down
  <2> QED  BY <1>3, <1>4, <2>4, <2>5 DEF Between
<1>8. \A r \in Rows : ~Writing(calls[c], r)
  BY <1>4, IdleFormed DEF Writing
<1> QED  BY <1>4, <1>6, <1>7, <1>8, StepQuiet

LEMMA StepReadUndo ==
  ASSUME Inv, Inv', Alone, StepInv, [Next]_vars, NEW c \in Calls, NEW id \in Ids, ReadUndo(c, id)
  PROVE  StepInv'
<1>1. PICK b \in Used : \E n \in Highest(b, Entries(b)) : \E k \in Highest(b, Entries(b) \ {n}) :
        Begin(c, [Idle EXCEPT !.kind = "undo", !.at = "erase", !.row = b, !.entry = n, !.to = history[b][k]])
  BY FoundUsed DEF ReadUndo
<1>2. PICK n \in Highest(b, Entries(b)) : \E k \in Highest(b, Entries(b) \ {n}) :
        Begin(c, [Idle EXCEPT !.kind = "undo", !.at = "erase", !.row = b, !.entry = n, !.to = history[b][k]])
  BY <1>1
<1>3. PICK k \in Highest(b, Entries(b) \ {n}) :
        Begin(c, [Idle EXCEPT !.kind = "undo", !.at = "erase", !.row = b, !.entry = n, !.to = history[b][k]])
  BY <1>2
<1>4. PICK call : call = [Idle EXCEPT !.kind = "undo", !.at = "erase", !.row = b, !.entry = n, !.to = history[b][k]]
  OBVIOUS
<1>5. call.kind = "undo" /\ call.at = "erase" /\ call.row = b /\ call.entry = n /\ call.to = history[b][k]
  BY <1>4 DEF Idle
<1>6. calls'[c] = call /\ calls[c] = Idle /\ Others(c)
  BY <1>3, <1>4, BeginIs
<1>7. b \in Rows
  BY DEF Used
<1>8. Top(b, Entries(b) \ {n}, history[b][k])
  BY <1>3 DEF Highest, Top
<1>9. \A r \in Rows : SameSteps(r)
  BY DEF ReadUndo, data, SameSteps
<1>10. ASSUME Unspoiled(Unsettling)'  PROVE Between(calls[c])'
  <2>1. Unspoiled(Unsettling) /\ "moves" \notin spoiled'
    BY <1>10, SpoiledGrows DEF Unspoiled, Unsettling
  <2>2. \A d \in Calls : calls[d].kind \notin Moving
    BY <2>1 DEF ReadUndo, Spoils, Overlap, Moving
  <2>3. Settled(b)
    BY <1>6, <2>1, <2>2, OneMover, IdleFormed DEF Writing
  <2>4. Settled(b)' /\ Entries(b)' = Entries(b) /\ history'[b] = history[b]
    BY <1>7, <1>9, <2>3, SettledSame DEF SameSteps
  <2>5. Top(b, Entries(b) \ {n}, history[b][k])'
    BY <1>8, <2>4 DEF Top
  <2>6. Top(b, Entries(b) \ {call.entry}, call.to)'
    BY <1>5, <1>8, <2>4 DEF Top
  <2> QED  BY <1>5, <1>6, <2>4, <2>6 DEF Between, Top
<1>11. \A r \in Rows : ~Writing(calls[c], r)
  BY <1>6, IdleFormed DEF Writing
<1> QED  BY <1>6, <1>9, <1>10, <1>11, StepQuiet

LEMMA StepMove ==
  ASSUME Inv, Inv', Alone, Alone', StepInv, [Next]_vars, NEW c \in Calls, Move(c)
  PROVE  StepInv'
<1> SUFFICES ASSUME Unspoiled(Unsettling)'  PROVE StepInv'
  BY DEF StepInv
<1>0. PICK b, to : b = calls[c].row /\ to = calls[c].to
  OBVIOUS
<1>1. /\ calls[c].at = "move" /\ b \in Used /\ b \in Rows /\ to \in Steps /\ calls[c] \in Call
      /\ calls[c].kind \in {"step", "undo"}
  BY <1>0, AtPoint DEF Move, At, Formed, AtRow
<1>2. Unspoiled(Unsettling) /\ ~calls[c].down
  BY SpoiledGrows DEF Unspoiled, Unsettling, Move, Spoils
<1>3. Between(calls[c]) /\ Others(c)
  BY <1>0, <1>1, <1>2, OneMover, ContinuesOthers DEF Moving, Continues
<1>4. bundles'[b].step = to /\ bundles'[b].used /\ Entries(b)' = Entries(b) /\ history'[b] = history[b]
  BY <1>0, <1>1 DEF Move, Inv, DataOK, Bundle, Used, Entries
<1>5. \A r \in Rows \ {b} : SameSteps(r) /\ ~Writing(calls[c], r)
  BY <1>0, <1>1 DEF Move, Inv, DataOK, SameSteps, Writing
<1>6. CASE calls[c].kind = "undo"
  <2>1. calls'[c].at = "page" /\ calls'[c].kind = "page"
    BY <1>0, <1>6, ToPageIs DEF Move
  <2>2. Top(b, Entries(b), to)
    BY <1>0, <1>1, <1>3, <1>6 DEF Between
  <2>3. Settled(b)'
    BY <1>0, <1>4, <2>2 DEF Settled, Top
  <2> QED  BY <1>0, <1>1, <1>3, <1>4, <1>5, <2>1, <2>3, StepMover, BetweenFree DEF Moving
<1>7. CASE calls[c].kind = "step"
  <2>1. calls'[c].at = "log" /\ calls'[c].kind = "step" /\ calls'[c].row = b /\ calls'[c].to = to
    BY <1>0, <1>7, GoIs DEF Move
  <2>2. Settled(b) /\ bundles[b].step <= to
    BY <1>0, <1>1, <1>2, <1>3, <1>7 DEF Between
  <2>3. bundles[b].step \in Nat /\ to \in Nat /\ \A n \in Entries(b) : history[b][n] \in Nat
    <3>1. bundles[b] \in Bundle /\ history[b] \in Seq(Steps \cup {0})
      BY <1>1 DEF Inv, DataOK
    <3>2. \A n \in Entries(b) : history[b][n] \in Steps
      BY <3>1 DEF Entries
    <3> QED  BY <1>1, <3>1, <3>2, Constants DEF Bundle
  <2>4. \A n \in Entries(b)' : history'[b][n] <= to
    BY <1>0, <1>4, <2>2, <2>3 DEF Settled, Top
  <2>5. Between(calls[c])'
    BY <1>0, <1>4, <2>1, <2>4 DEF Between
  <2>6. Writing(calls'[c], b)
    BY <1>0, <2>1 DEF Writing
  <2> QED  BY <1>0, <1>1, <1>3, <1>4, <1>5, <2>1, <2>5, <2>6, StepMover DEF Moving
<1> QED  BY <1>0, <1>1, <1>6, <1>7

LEMMA StepLog ==
  ASSUME Inv, Inv', Alone, Alone', StepInv, [Next]_vars, NEW c \in Calls, Log(c)
  PROVE  StepInv'
<1> SUFFICES ASSUME Unspoiled(Unsettling)'  PROVE StepInv'
  BY DEF StepInv
<1>0. PICK b, to : b = calls[c].row /\ to = calls[c].to
  OBVIOUS
<1>1. calls[c].at = "log" /\ b \in Used /\ b \in Rows /\ to \in Steps /\ calls[c].kind \in Moving
  BY <1>0, AtPoint, MovesAt DEF Log, At, Formed, AtRow
<1>2. Unspoiled(Unsettling)
  BY SpoiledGrows DEF Unspoiled
<1>3. Between(calls[c]) /\ Others(c)
  BY <1>0, <1>1, <1>2, OneMover, ContinuesOthers DEF Continues
<1>4. history' = [history EXCEPT ![b] = Append(@, to)] /\ UNCHANGED bundles
  BY <1>0 DEF Log
<1>5. \A r \in Rows \ {b} : SameSteps(r) /\ ~Writing(calls[c], r)
  BY <1>0, <1>1, <1>4 DEF Inv, DataOK, SameSteps, Writing
<1>6. calls'[c].at \in {"sync", "reopen", "page"}
  <2>1. Go(c, "sync") \/ Go(c, "reopen") \/ ToPage(c, b)
    BY <1>0 DEF Log
  <2> QED  BY <1>0, <2>1, GoIs, ToPageIs
<1>7. calls'[c].kind \in Moving
  BY <1>0, <1>6, MovesAt DEF Inv, CallsOK
<1>8. PICK n \in Nat : /\ n \notin Entries(b) /\ Entries(b)' = Entries(b) \cup {n} /\ history'[b][n] = to
                       /\ \A k \in Entries(b) : history'[b][k] = history[b][k]
  BY <1>0, <1>1, <1>4, EntriesAppended
<1>9. \/ Settled(b) /\ to <= bundles[b].step
      \/ bundles[b].step = to /\ \A k \in Entries(b) : history[b][k] <= to
  BY <1>0, <1>1, <1>3 DEF Between
<1>10. to <= to
  BY <1>1, Constants
<1>11. Settled(b)'
  <2>1. CASE Settled(b) /\ to <= bundles[b].step
    <3>1. \A k \in Entries(b)' : history'[b][k] <= bundles'[b].step
      BY <1>4, <1>8, <2>1 DEF Settled, Top
    <3>2. \E k \in Entries(b)' : history'[b][k] = bundles'[b].step
      BY <1>4, <1>8, <2>1 DEF Settled, Top
    <3> QED  BY <3>1, <3>2 DEF Settled, Top
  <2>2. CASE bundles[b].step = to /\ \A k \in Entries(b) : history[b][k] <= to
    <3>1. \A k \in Entries(b)' : history'[b][k] <= bundles'[b].step
      BY <1>4, <1>8, <1>10, <2>2
    <3>2. n \in Entries(b)' /\ history'[b][n] = bundles'[b].step
      BY <1>4, <1>8, <2>2
    <3> QED  BY <3>1, <3>2 DEF Settled, Top
  <2> QED  BY <1>9, <2>1, <2>2
<1>12. bundles'[b].used
  BY <1>0, <1>1, <1>4 DEF Used
<1> QED  BY <1>0, <1>1, <1>3, <1>5, <1>6, <1>7, <1>11, <1>12, StepMover, BetweenFree

LEMMA StepErase ==
  ASSUME Inv, Inv', Alone, Alone', StepInv, [Next]_vars, NEW c \in Calls, Erase(c)
  PROVE  StepInv'
<1> SUFFICES ASSUME Unspoiled(Unsettling)'  PROVE StepInv'
  BY DEF StepInv
<1>0. PICK b, to, n : b = calls[c].row /\ to = calls[c].to /\ n = calls[c].entry
  OBVIOUS
<1>1. calls[c].at = "erase" /\ b \in Used /\ b \in Rows /\ calls[c].kind = "undo"
  BY <1>0, AtPoint DEF Erase, At, Formed, AtRow
<1>2. Unspoiled(Unsettling)
  BY SpoiledGrows DEF Unspoiled
<1>3. Between(calls[c]) /\ Others(c)
  BY <1>0, <1>1, <1>2, OneMover, ContinuesOthers DEF Continues, Moving
<1>4. history' = [history EXCEPT ![b][n] = 0] /\ UNCHANGED bundles /\ Go(c, "move")
  BY <1>0 DEF Erase
<1>5. calls'[c].at = "move" /\ calls'[c].kind = "undo" /\ calls'[c].row = b /\ calls'[c].to = to
  BY <1>0, <1>1, <1>4, GoIs
<1>6. \A r \in Rows \ {b} : SameSteps(r) /\ ~Writing(calls[c], r)
  BY <1>0, <1>1, <1>4 DEF Inv, DataOK, SameSteps, Writing
<1>7. Top(b, Entries(b) \ {n}, to)
  BY <1>0, <1>1, <1>3 DEF Between
<1>8. Entries(b)' = Entries(b) \ {n} /\ \A k \in Entries(b) \ {n} : history'[b][k] = history[b][k]
  BY <1>0, <1>1, <1>4, EntriesErased
<1>9. Between(calls[c])'
  BY <1>0, <1>5, <1>7, <1>8 DEF Between, Top
<1>10. Writing(calls'[c], b) /\ bundles'[b].used
  BY <1>0, <1>1, <1>4, <1>5 DEF Writing, Used
<1> QED  BY <1>0, <1>1, <1>3, <1>5, <1>6, <1>9, <1>10, StepMover DEF Moving

\* A row is made at its first step, which its call has still to log.
LEMMA StepMade ==
  ASSUME Inv, Inv', Alone', StepInv, [Next]_vars, NEW c \in Calls, Others(c), NEW b \in Rows \ Used,
         NEW row \in Bundle, row.used, row.step = Start, bundles' = [bundles EXCEPT ![b] = row], UNCHANGED history,
         calls[c].at \notin {"move", "log"}, calls'[c].kind \in Moving,
         calls'[c].at = "log", calls'[c].row = b, calls'[c].to = Start
  PROVE  StepInv'
<1> SUFFICES ASSUME Unspoiled(Unsettling)'  PROVE StepInv'
  BY DEF StepInv
<1>1. Unspoiled(Unsettling)
  BY SpoiledGrows DEF Unspoiled
<1>2. bundles'[b] = row /\ \A r \in Rows \ {b} : SameSteps(r) /\ ~Writing(calls[c], r)
  BY DEF Inv, DataOK, SameSteps, Writing
<1>3. Entries(b)' = {}
  BY <1>1 DEF StepInv, Entries, Used
<1>4. Between(calls[c])'
  BY <1>2, <1>3 DEF Between
<1>5. Writing(calls'[c], b)
  BY DEF Writing
<1> QED  BY <1>2, <1>4, <1>5, StepMover

LEMMA StepCreate ==
  ASSUME Inv, Inv', Alone', StepInv, [Next]_vars, NEW c \in Calls, NEW code \in Codes, NEW status \in Patches \cup {"active"},
         CreateBundle(c, code, status)
  PROVE  StepInv'
<1>1. PICK b \in Rows \ Used :
        /\ bundles' = [bundles EXCEPT ![b] = [Blank EXCEPT !.used = TRUE, !.code = code, !.status = status]]
        /\ Begin(c, [Idle EXCEPT !.kind = "change", !.at = "log", !.row = b, !.to = Start])
  BY DEF CreateBundle
<1>2. PICK call : call = [Idle EXCEPT !.kind = "change", !.at = "log", !.row = b, !.to = Start]
  OBVIOUS
<1>3. call.kind = "change" /\ call.at = "log" /\ call.row = b /\ call.to = Start
  BY <1>2 DEF Idle
<1>4. calls'[c] = call /\ calls[c].at = "none" /\ Others(c)
  BY <1>1, <1>2, BeginIs, IdleFormed
<1>5. PICK row : row = [Blank EXCEPT !.used = TRUE, !.code = code, !.status = status]
  OBVIOUS
<1>6. row \in Bundle /\ row.used /\ row.step = Start
  BY <1>5, BlankTyped, BoundsAssumption DEF Bundle, Blank, Statuses
<1> QED  BY <1>1, <1>3, <1>4, <1>5, <1>6, StepMade DEF CreateBundle, Moving

LEMMA StepEnsure ==
  ASSUME Inv, Inv', Alone, Alone', StepInv, [Next]_vars, NEW c \in Calls, Ensure(c)
  PROVE  StepInv'
<1> SUFFICES ASSUME Unspoiled(Unsettling)'  PROVE StepInv'
  BY DEF StepInv
<1> DEFINE s == calls[c].id
<1>1. calls[c].at = "ensure" /\ calls[c].kind \in Moving /\ s \in Sources /\ Others(c) /\ UNCHANGED history
  BY AtPoint, MovesAt, ContinuesOthers DEF Ensure, At, Formed, Continues
<1>2. Unspoiled(Unsettling)
  BY SpoiledGrows DEF Unspoiled
<1>3. CASE UNCHANGED bundles /\ Go(c, "page")
  <2>1. \A r \in Rows : SameSteps(r)
    BY <1>1, <1>3 DEF SameSteps
  <2>2. calls'[c].at = "page"
    BY <1>3, GoIs
  <2> QED  BY <1>1, <2>1, <2>2, StepRests
<1>4. ASSUME NEW b \in Used, bundles' = [bundles EXCEPT ![b].source = s], Go(c, "page")
      PROVE  StepInv'
  <2>1. \A r \in Rows : SameSteps(r)
    BY <1>1, <1>4 DEF SameSteps, Inv, DataOK, Bundle
  <2>2. calls'[c].at = "page"
    BY <1>4, GoIs
  <2> QED  BY <1>1, <2>1, <2>2, StepRests
<1>5. ASSUME NEW b \in Rows, calls' = [calls EXCEPT ![c].at = "log", ![c].row = b, ![c].to = Start]
      PROVE  calls'[c].at = "log" /\ calls'[c].row = b /\ calls'[c].to = Start /\ calls'[c].kind \in Moving
  <2>1. PICK call : call = [calls[c] EXCEPT !.at = "log", !.row = b, !.to = Start]
    OBVIOUS
  <2>2. call.at = "log" /\ call.row = b /\ call.to = Start /\ call.kind = calls[c].kind
    BY <2>1, AtPoint DEF Call
  <2>3. calls' = [calls EXCEPT ![c] = call]
    BY <1>5, <2>1
  <2> QED  BY <1>1, <2>2, <2>3, CallChanged
<1>6. ASSUME NEW b \in BySource(s), UNCHANGED bundles,
             calls' = [calls EXCEPT ![c].at = "log", ![c].row = b, ![c].to = Start]
      PROVE  StepInv'
  <2>1. b \in Used /\ b \in Rows
    BY DEF BySource, Used
  <2>2. \A r \in Rows : SameSteps(r) /\ ~Writing(calls[c], r)
    BY <1>1, <1>6 DEF SameSteps, Writing
  <2>3. Settled(b)
    BY <1>1, <1>2, <2>1, <2>2, OneMover
  <2>4. Start <= bundles[b].step
    <3>1. PICK n \in Entries(b) : history[b][n] = bundles[b].step
      BY <2>3 DEF Settled, Top
    <3>2. history[b][n] \in Steps
      BY <2>1, <3>1 DEF Entries, Inv, DataOK
    <3> QED  BY <3>1, <3>2 DEF Steps
  <2>5. Settled(b)' /\ Start <= bundles'[b].step
    BY <2>1, <2>2, <2>3, <2>4, SettledSame DEF SameSteps
  <2>6. Between(calls[c])'
    BY <1>5, <1>6, <2>1, <2>5 DEF Between
  <2> QED  BY <1>1, <2>2, <2>6, StepQuiet
<1>7. ASSUME NEW b \in Rows \ Used, bundles' = [bundles EXCEPT ![b] =
                  [Blank EXCEPT !.used = TRUE, !.source = s, !.code = s]],
             calls' = [calls EXCEPT ![c].at = "log", ![c].row = b, ![c].to = Start]
      PROVE  StepInv'
  <2>1. PICK row : row = [Blank EXCEPT !.used = TRUE, !.source = s, !.code = s]
    OBVIOUS
  <2>2. row \in Bundle /\ row.used /\ row.step = Start
    BY <1>1, <2>1, BlankTyped DEF Bundle, Blank
  <2> QED  BY <1>1, <1>5, <1>7, <2>1, <2>2, StepMade
<1> QED  BY <1>3, <1>4, <1>6, <1>7 DEF Ensure

LEMMA StepBegins ==
  ASSUME Inv, Inv', Alone, Alone', StepInv, [Next]_vars, NEW c \in Calls, Begins(c)
  PROVE  StepInv'
<1>1. ASSUME calls'[c].at \in {"page", "insert", "write"}, UNCHANGED <<bundles, history>>  PROVE StepInv'
  <2>1. Others(c) /\ calls[c].at = "none"
    BY BeginsIs, IdleFormed
  <2>2. \A b \in Rows : SameSteps(b)
    BY <1>1 DEF SameSteps
  <2> QED  BY <1>1, <2>1, <2>2, StepRests
<1>2. \A id : Open(id).at = "page"
  BY DEF Open, Idle
<1>3. ASSUME NEW id \in Ids, OpenPage(c, id) \/ \E o \in Orders : RemoveOrder(c, id, o)
      PROVE  StepInv'
  <2>1. Begin(c, Open(id)) /\ UNCHANGED <<bundles, history>>
    BY <1>3 DEF OpenPage, RemoveOrder, data
  <2>2. calls'[c] = Open(id)
    BY <2>1, BeginIs
  <2> QED  BY <1>1, <1>2, <2>1, <2>2
<1>4. ASSUME NEW id \in Ids, NEW o \in Orders, ReadAssign(c, id, o)  PROVE StepInv'
  <2>1. PICK call : Begin(c, call) /\ call = [Idle EXCEPT !.kind = "assign", !.at = "insert", !.id = id, !.order = o]
    BY <1>4 DEF ReadAssign
  <2>2. call.at = "insert"
    BY <2>1 DEF Idle
  <2>3. calls'[c] = call
    BY <2>1, BeginIs
  <2> QED  BY <1>1, <1>4, <2>2, <2>3 DEF ReadAssign, data
<1>5. ASSUME NEW o \in Orders, NEW stage \in 1..MaxStage, NEW note \in Notes \cup {None}, ReadTracked(c, o, stage, note)
      PROVE  StepInv'
  <2>1. PICK call : Begin(c, call) /\ call = [Idle EXCEPT !.kind = "track", !.at = "write", !.order = o,
                      !.stage = stage, !.seen = orders[o].notes, !.note = note]
    BY <1>5 DEF ReadTracked
  <2>2. call.at = "write"
    BY <2>1 DEF Idle
  <2>3. calls'[c] = call
    BY <2>1, BeginIs
  <2> QED  BY <1>1, <1>5, <2>2, <2>3 DEF ReadTracked, data
<1>6. ASSUME NEW id \in Ids, PatchBundle(c, id)
      PROVE  StepInv'
  BY <1>6 DEF PatchBundle, Spoils, StepInv, Unspoiled, Unsettling
<1> QED  BY <1>3, <1>4, <1>5, <1>6, StepReadStep, StepReadUndo, StepCreate DEF Begins

\* The calls that go on and write no step.
LEMMA StepAside ==
  ASSUME Inv, Inv', StepInv, [Next]_vars, NEW c \in Calls,
         \/ Reopen(c) \/ Sync(c) \/ List(c) \/ ReadOrder(c) \/ Promote(c) \/ Close(c) \/ Page(c)
         \/ Backfill(c) \/ Answer(c) \/ InsertItem(c) \/ WriteTracked(c)
  PROVE  StepInv'
<1>1. Others(c)
  BY ContinuesOthers DEF Continues
<1>2. calls[c].at \notin {"move", "log"}
  BY DEF Reopen, Sync, List, ReadOrder, Promote, Close, Page, Backfill, Answer, InsertItem, WriteTracked, At
<1>3. \A b \in Rows : SameSteps(b)
  <2>1. CASE UNCHANGED <<bundles, history>>
    BY <2>1 DEF SameSteps
  <2>2. ASSUME NEW b, NEW status, bundles' = [bundles EXCEPT ![b].status = status], UNCHANGED history
        PROVE  \A r \in Rows : SameSteps(r)
    BY <2>2 DEF SameSteps, Inv, DataOK, Bundle
  <2> QED  BY <2>1, <2>2 DEF Reopen, Sync, List, ReadOrder, Promote, Close, Page, Backfill, Answer, InsertItem,
               WriteTracked, data
<1>4. calls'[c].at \notin {"move", "erase", "log"}
  <2>1. ASSUME NEW point \in {"sync", "list", "ensure", "promote"}, Go(c, point)
        PROVE  calls'[c].at \notin {"move", "erase", "log"}
    <3>1. calls'[c].at = point
      BY <2>1, GoIs
    <3> QED  BY <3>1
  <2>2. ASSUME NEW row, ToPage(c, row) \/ ToAnswer(c, row) \/ End(c)
        PROVE  calls'[c].at \notin {"move", "erase", "log"}
    <3>1. calls'[c].at \in {"page", "answer", "none"}
      BY <2>2, ToPageIs, ToAnswerIs, EndIs, IdleFormed
    <3> QED  BY <3>1
  <2>3. CASE Reopen(c) \/ Promote(c) \/ Close(c) \/ Backfill(c) \/ Answer(c) \/ WriteTracked(c)
    BY <2>1, <2>2, <2>3 DEF Reopen, Promote, Close, Backfill, Answer, WriteTracked
  <2>4. CASE Sync(c) \/ List(c)
    BY <2>1, <2>2, <2>4, ListIs DEF Sync
  <2>5. CASE ReadOrder(c)
    <3>1. PICK o, order : calls' = [calls EXCEPT ![c].left = @ \ {o}, ![c].order = order,
                                                 ![c].at = IF Waiting(o) THEN "send" ELSE "promote"]
      BY <2>5 DEF ReadOrder
    <3>2. PICK at \in {"send", "promote"} : at = IF Waiting(o) THEN "send" ELSE "promote"
      OBVIOUS
    <3>3. PICK call : call = [calls[c] EXCEPT !.left = @ \ {o}, !.order = order, !.at = at]
      OBVIOUS
    <3>4. calls' = [calls EXCEPT ![c] = call]
      BY <3>1, <3>2, <3>3
    <3>5. call.at = at
      BY <3>3, AtPoint DEF Call
    <3> QED  BY <3>4, <3>5, CallChanged
  <2>6. CASE Page(c)
    <3>1. ASSUME NEW b, calls' = [calls EXCEPT ![c].at = "backfill", ![c].row = b, ![c].id = None,
                                      ![c].to = bundles[b].step, ![c].status = bundles[b].status]
          PROVE  calls'[c].at = "backfill"
      <4>1. PICK call : call = [calls[c] EXCEPT !.at = "backfill", !.row = b, !.id = None,
                                      !.to = bundles[b].step, !.status = bundles[b].status]
        OBVIOUS
      <4>2. call.at = "backfill"
        BY <4>1, AtPoint DEF Call
      <4>3. calls' = [calls EXCEPT ![c] = call]
        BY <3>1, <4>1
      <4> QED  BY <4>2, <4>3, CallChanged
    <3> QED  BY <2>1, <2>2, <2>6, <3>1 DEF Page
  <2>7. CASE InsertItem(c)
    <3>1. Open(calls[c].id).at = "page"
      BY DEF Open, Idle
    <3> QED  BY <2>2, <2>7, <3>1, CallChanged DEF InsertItem
  <2> QED  BY <2>3, <2>4, <2>5, <2>6, <2>7
<1> QED  BY <1>1, <1>2, <1>3, <1>4, StepRests

LEMMA StepNext ==
  ASSUME Inv, Inv', Alone, Alone', StepInv, [Next]_vars
  PROVE  StepInv'
<1>1. CASE ListTrackedOrders \/ (\E o \in Orders : PlaceOrder(o)) \/ UNCHANGED vars
  <2>1. UNCHANGED <<bundles, history, calls>>
    BY <1>1 DEF ListTrackedOrders, PlaceOrder, vars
  <2>2. Unspoiled(Unsettling)' => Unspoiled(Unsettling)
    BY SpoiledGrows DEF Unspoiled
  <2> QED  BY <2>1, <2>2 DEF StepInv, Settled, Top, Entries, Writing, Between, Used
<1>2. ASSUME NEW c \in Calls, Continues(c)  PROVE StepInv'
  BY <1>2, StepMove, StepLog, StepErase, StepEnsure, StepAside DEF Continues
<1>3. ASSUME NEW c \in Calls, Dies(c)  PROVE StepInv'
  BY <1>3 DEF Dies, Spoils, StepInv, Unspoiled, Unsettling
<1> QED  BY <1>1, <1>2, <1>3, StepBegins DEF Next

\* A bundle at rest is at the highest step of its history, unless it went back by itself, was
\* patched, or two calls or a death came between the two statements: whoever has written one
\* half of a step knows what the other half will be.
THEOREM StepsHighest == Spec => []StepIsHighest
<1>1. Init => StepInv
  BY BlankTyped, IdleFormed DEF Init, StepInv, Used, Between
<1>2. Inv /\ Alone /\ StepInv /\ [Next]_vars => Inv' /\ Alone' /\ StepInv'
  BY InvNext, AloneNext, StepNext
<1>3. StepInv => StepIsHighest
  <2> SUFFICES ASSUME StepInv, Unspoiled(Unsettling), \A c \in Calls : calls[c].at \notin {"move", "log"},
                      NEW b \in Used
      PROVE  \E n \in Entries(b) :
               history[b][n] = bundles[b].step /\ \A k \in Entries(b) : history[b][k] <= history[b][n]
    BY DEF StepIsHighest, Unsettling
  <2>1. Settled(b)
    BY DEF StepInv, Writing
  <2> QED  BY <2>1 DEF Settled, Top
<1> QED  BY <1>1, <1>2, <1>3, InitInv, AloneInit, PTL DEF Spec
=============================================================================
