-------------------------- MODULE WarehouseTransfers --------------------------
(***************************************************************************)
(* Entries in two warehouses: packages sent between them and binned in       *)
(* warehouse 2, series and items kept and unpacked in warehouse 1.  From    *)
(* warehouse-transfers.service, series-unpack.service, entries.service and   *)
(* the repositories they use.  Only packages are ever transferable          *)
(* (packages.repository creates them so).  A handler reads and checks, then *)
(* writes in one transaction that checks nothing again: one step each.      *)
(***************************************************************************)
EXTENDS Integers, FiniteSets, Sequences, SequencesExt, FiniteSetsExt

CONSTANTS
  Packages, Series, Items,   \* ids of entries, by their type
  Bins,         \* bins of warehouse 2
  AisleBins,    \* bins of warehouse 1
  Requests,     \* request slots
  MaxTransfers, \* bound on the warehouse_transfers rows of a run
  MaxBatch,     \* bound on the entries of one call
  MayFail,      \* whether a request may die between its steps
  None

\* Warehouse 1 receives and packs; packages are kept in warehouse 2 only.
Warehouses == {1, 2}
Entries == Packages \cup Series \cup Items
Stock == Series \cup Items

ASSUME ConstantsAssumption ==
  /\ None \notin Entries \cup Bins \cup AisleBins
  /\ Packages \cap Stock = {} /\ Series \cap Items = {} /\ Bins \cap AisleBins = {}
  /\ MaxTransfers \in Nat /\ MaxBatch \in Nat /\ MayFail \in BOOLEAN

VARIABLES
  entries,    \* entries rows, None while the id is unused
  transfers,  \* warehouse_transfers rows, their index is their id
  storage,    \* each entry's storage rows, oldest first: it entered or left a bin
  pc, job     \* each request's next step, and the rows it validated
vars == <<entries, transfers, storage, pc, job>>

Statuses == {"SENT", "UNDONE", "RECEIVED", "BIN_LOCATION_ASSIGNED"}
Entry == [warehouse: Warehouses, isTransferable: BOOLEAN, isSent: BOOLEAN,
          isDeleted: BOOLEAN, isSeriesUnpacked: BOOLEAN,
          unpackedFrom: Series \cup {None}]
Transfer == [entry: Entries, source: Warehouses, destination: Warehouses,
             status: Statuses, bin: Bins \cup {None}]
Movement == [bin: Bins \cup AisleBins, entered: BOOLEAN]
\* None is no row.
ASSUME NoneAssumption == None \notin Entry
NoJob == [rows |-> {}, at |-> 0, bin |-> None, listed |-> <<>>, quantity |-> 0]
Job(rows, at) == [NoJob EXCEPT !.rows = rows, !.at = at]

NewEntry(w) ==
  [warehouse |-> w, isTransferable |-> FALSE, isSent |-> FALSE, isDeleted |-> FALSE,
   isSeriesUnpacked |-> FALSE, unpackedFrom |-> None]

\* createPackage makes a transferable entry in warehouse 1.
Init ==
  /\ entries = [e \in Entries |->
       IF e \in Packages THEN [NewEntry(1) EXCEPT !.isTransferable = TRUE] ELSE None]
  /\ transfers = <<>>
  /\ storage = [e \in Entries |-> <<>>]
  /\ pc = [r \in Requests |-> "idle"]
  /\ job = [r \in Requests |-> NoJob]

Start(r, label, j) ==
  /\ pc[r] = "idle" /\ pc' = [pc EXCEPT ![r] = label]
  /\ job' = [job EXCEPT ![r] = j]
  /\ UNCHANGED <<entries, transfers, storage>>
Finish(r) ==
  /\ pc' = [pc EXCEPT ![r] = "idle"] /\ job' = [job EXCEPT ![r] = NoJob]

Existing == {e \in Entries : entries[e] # None}
Present == {e \in Existing : ~entries[e].isDeleted}   \* findById
Rows == DOMAIN transfers
RowsOf(e) == {t \in Rows : transfers[t].entry = e}
Set(ids, status) ==
  transfers' = [t \in Rows |->
    IF t \in ids THEN [transfers[t] EXCEPT !.status = status] ELSE transfers[t]]
EntriesOf(ids) == {transfers[t].entry : t \in ids}
Mark(es, transferable, sent) ==
  entries' = [e \in Entries |->
    IF e \in es THEN [entries[e] EXCEPT !.isTransferable = transferable, !.isSent = sent]
    ELSE entries[e]]
Batches(ids) == {b \in SUBSET ids : b # {} /\ Cardinality(b) <= MaxBatch}

(***************************************************************************)
(* sendTransferableEntries.                                                *)
(***************************************************************************)
\* getTransferRelatedEntriesList joins each entry to its transfers of the past:
\* an entry is listed once per such row, and once when it has none.
Listed(e) == IF RowsOf(e) = {} THEN 1 ELSE Cardinality(RowsOf(e))

CanSend(es, source) ==
  /\ \A e \in es : entries[e].isTransferable /\ entries[e].warehouse = source
  /\ \A t \in Rows : transfers[t].entry \in es => transfers[t].status # "SENT"

\* The entries of the inserted rows, in some order.
NewRows(listed) ==
  {q \in SeqOf(DOMAIN listed, MaxTransfers) :
     \A e \in DOMAIN listed : Cardinality({i \in DOMAIN q : q[i] = e}) = listed[e]}

SendTransferableEntries(r, es, source) ==
  LET listed == [e \in es |-> Listed(e)] IN
  /\ CanSend(es, source)
  /\ Len(transfers) + MapThenSumSet(Listed, es) <= MaxTransfers
  /\ Start(r, "send", [Job(es, source) EXCEPT !.listed = listed])

\* markEntriesAsSent, createWarehouseTransferRows: a row per listed row.
WriteSend(r) ==
  /\ pc[r] = "send"
  /\ Mark(job[r].rows, FALSE, TRUE)
  /\ \E q \in NewRows(job[r].listed) :
       transfers' = transfers \o [i \in DOMAIN q |->
         [entry |-> q[i], source |-> job[r].at, destination |-> 3 - job[r].at,
          status |-> "SENT", bin |-> None]]
  /\ Finish(r) /\ UNCHANGED storage

(***************************************************************************)
(* reverseSentEntries, receiveTransfers, undoReceivedEntries.              *)
(***************************************************************************)
\* getReversibleEntriesList, by warehouse of the entry and by status.
Reversible(w) ==
  {t \in Rows : /\ entries[transfers[t].entry].isSent
                /\ entries[transfers[t].entry].warehouse = w
                /\ transfers[t].status = "SENT"}
ReverseSentEntries(r, w, ids) ==
  /\ ids \subseteq Reversible(w)
  /\ Start(r, "reverse", Job(ids, w))
WriteReverseUnmarked(r) ==   \* mutant: markEntriesAsUnsent forgotten
  /\ pc[r] = "reverse"
  /\ Set(job[r].rows, "UNDONE")
  /\ Finish(r) /\ UNCHANGED <<entries, storage>>
WriteReverse(r) ==
  /\ pc[r] = "reverse"
  /\ Mark(EntriesOf(job[r].rows), TRUE, FALSE)
  /\ Set(job[r].rows, "UNDONE")
  /\ Finish(r) /\ UNCHANGED storage

Pending(w) ==
  {t \in Rows : /\ entries[transfers[t].entry].isSent
                /\ transfers[t].destination = w
                /\ transfers[t].status = "SENT"}

\* The list is made unique by entry, whichever row comes last; a call about
\* anything else is refused, or answered without a write when all that is
\* unknown was received before.
ReceiveTransfersSwapped(r, w, ids) ==   \* mutant: entry ids taken for transfer ids
  /\ ids \subseteq Pending(w) /\ Start(r, "receive", Job(EntriesOf(ids), w))
ReceiveTransfers(r, w, ids) ==
  /\ ids \subseteq Pending(w)
  /\ \A t, u \in ids : transfers[t].entry = transfers[u].entry => t = u
  /\ Start(r, "receive", Job(ids, w))
WriteReceive(r) ==
  /\ pc[r] = "receive"
  /\ entries' = [e \in Entries |->
       IF e \in EntriesOf(job[r].rows)
       THEN [entries[e] EXCEPT !.isTransferable = FALSE, !.isSent = FALSE,
                               !.warehouse = job[r].at]
       ELSE entries[e]]
  /\ Set(job[r].rows, "RECEIVED")
  /\ Finish(r) /\ UNCHANGED storage

Undoable(w) ==
  {t \in Rows : /\ entries[transfers[t].entry].warehouse = w
                /\ transfers[t].status = "RECEIVED"}

\* The entry keeps the warehouse that had received it.
UndoReceivedEntries(r, w, ids) ==
  /\ ids \subseteq Undoable(w)
  /\ Start(r, "undo", Job(ids, w))
WriteUndo(r) ==
  /\ pc[r] = "undo"
  /\ Mark(EntriesOf(job[r].rows), FALSE, TRUE)
  /\ Set(job[r].rows, "SENT")
  /\ Finish(r) /\ UNCHANGED storage

(***************************************************************************)
(* updateBinLocationsForWarehouseTransfers.                                *)
(***************************************************************************)
\* Packages cannot be stored in warehouse 1 (assertEntryAllowedInWarehouse).
UpdateBinLocation(r, t, b) ==
  /\ t \in Rows /\ transfers[t].destination = 2
  /\ transfers[t].status \in {"RECEIVED", "BIN_LOCATION_ASSIGNED"}
  /\ transfers[t].entry \in Present
  /\ Start(r, "bin", [Job({t}, 2) EXCEPT !.bin = b])

\* updateTransferBin reads the row again: it leaves another bin ...
Leaves(t, b) ==
  IF transfers[t].bin \in {None, b} THEN <<>>
  ELSE <<[bin |-> transfers[t].bin, entered |-> FALSE]>>
\* ... and enters this one unless it is in it.
Enters(t, b) ==
  IF transfers[t].bin = b /\ transfers[t].status = "BIN_LOCATION_ASSIGNED" THEN <<>>
  ELSE <<[bin |-> b, entered |-> TRUE]>>

\* MaxMovements bounds the storage rows of a package.
MaxMovements == 4
WriteBin(r) ==
  /\ pc[r] = "bin"
  /\ \E t \in job[r].rows :
       /\ Len(storage[transfers[t].entry]) + 2 <= MaxMovements
       /\ storage' = [storage EXCEPT ![transfers[t].entry] =
                        @ \o Leaves(t, job[r].bin) \o Enters(t, job[r].bin)]
       /\ transfers' = [transfers EXCEPT ![t].bin = job[r].bin,
                                         ![t].status = "BIN_LOCATION_ASSIGNED"]
  /\ Finish(r) /\ UNCHANGED entries

(***************************************************************************)
(* assignEntryToBin, unassignEntryFromBin: series and items in the aisles.   *)
(***************************************************************************)
\* assertEntryAllowedInWarehouse leaves warehouse 1 for these types.
AssignEntryToBin(r, e, b) ==
  /\ e \in Present \cap Stock /\ entries[e].warehouse = 1
  /\ Start(r, "assign", [Job({e}, 1) EXCEPT !.bin = b])

\* The newest row that says an entry came into a bin.
Newest(rows) == {i \in DOMAIN rows : rows[i].entered
                                     /\ \A k \in DOMAIN rows : rows[k].entered => k <= i}

\* That row is overwritten, or a first one is inserted.
WriteAssign(r) ==
  /\ pc[r] = "assign"
  /\ \E e \in job[r].rows :
       storage' = [storage EXCEPT ![e] =
         IF Newest(@) = {} THEN Append(@, [bin |-> job[r].bin, entered |-> TRUE])
         ELSE [i \in DOMAIN @ |->
                IF i \in Newest(@) THEN [@[i] EXCEPT !.bin = job[r].bin] ELSE @[i]]]
  /\ Finish(r) /\ UNCHANGED <<entries, transfers>>

\* In whichever warehouse the entry is said to be.
UnassignEntryFromBin(r, e) ==
  /\ e \in Present \cap Stock
  /\ Start(r, "unassign", Job({e}, entries[e].warehouse))
\* The row is deleted; without one the answer is an error.
WriteUnassign(r) ==
  /\ pc[r] = "unassign"
  /\ storage' = [e \in Entries |->
       IF e \in job[r].rows /\ Newest(storage[e]) # {}
       THEN RemoveAt(storage[e], CHOOSE i \in Newest(storage[e]) : TRUE)
       ELSE storage[e]]
  /\ Finish(r) /\ UNCHANGED <<entries, transfers>>

(***************************************************************************)
(* unpackSeriesAtW1.                                                       *)
(***************************************************************************)
UnpackSeriesAtW1(r, s, n, b) ==
  /\ s \in Present \cap Series /\ entries[s].warehouse = 1
  /\ ~entries[s].isSeriesUnpacked
  /\ Start(r, "unpack", [Job({s}, 1) EXCEPT !.bin = b, !.quantity = n])

LeavesKept(rows) == {rows}   \* mutant: an unpacked series stays in its bin
\* activeStorage is any row that says the series came into a bin: it leaves that bin.
LeavesAisle(rows) ==
  LET entered == {rows[i].bin : i \in {k \in DOMAIN rows : rows[k].entered}}
  IN IF entered = {} THEN {rows}
     ELSE {Append(rows, [bin |-> b, entered |-> FALSE]) : b \in entered}

\* Items with new codes (unused ids, the bound) go into the bin, the series is gone.
WriteUnpack(r) ==
  /\ pc[r] = "unpack"
  /\ \E s \in job[r].rows, new \in SUBSET (Items \ Existing) :
       /\ Cardinality(new) = job[r].quantity
       /\ \E left \in LeavesAisle(storage[s]) :
            storage' = [e \in Entries |->
              IF e \in new THEN <<[bin |-> job[r].bin, entered |-> TRUE]>>
              ELSE IF e = s THEN left ELSE storage[e]]
       /\ entries' = [e \in Entries |->
            IF e \in new THEN [NewEntry(1) EXCEPT !.unpackedFrom = s]
            ELSE IF e = s
              THEN [entries[e] EXCEPT !.isSeriesUnpacked = TRUE, !.isDeleted = TRUE]
            ELSE entries[e]]
  /\ Finish(r) /\ UNCHANGED transfers

(***************************************************************************)
(* entries.service: createEntry of series and items, update, delete.        *)
(***************************************************************************)
\* Codes are made before the transaction; the unique code refuses a second one.
CreateEntry(e, w) ==
  /\ e \in Stock \ Existing
  /\ entries' = [entries EXCEPT ![e] = NewEntry(w)]
  /\ UNCHANGED <<transfers, storage, pc, job>>

\* The columns of the request's body, the warehouse among them, wherever the entry is.
UpdateEntry(e, w) ==
  /\ e \in Present /\ entries' = [entries EXCEPT ![e].warehouse = w]
  /\ UNCHANGED <<transfers, storage, pc, job>>

DeleteEntry(e) ==
  /\ e \in Present /\ entries' = [entries EXCEPT ![e].isDeleted = TRUE]
  /\ UNCHANGED <<transfers, storage, pc, job>>

Fail(r) ==
  /\ MayFail /\ pc[r] # "idle" /\ Finish(r)
  /\ UNCHANGED <<entries, transfers, storage>>

Write(r) ==
  \/ WriteSend(r) \/ WriteReverse(r) \/ WriteReceive(r) \/ WriteUndo(r)
  \/ WriteBin(r) \/ WriteAssign(r) \/ WriteUnassign(r) \/ WriteUnpack(r)

Next ==
  \/ \E r \in Requests :
       \/ \E es \in Batches(Existing), w \in Warehouses : SendTransferableEntries(r, es, w)
       \/ \E w \in Warehouses, ids \in Batches(Rows) :
            \/ ReverseSentEntries(r, w, ids) \/ ReceiveTransfers(r, w, ids)
            \/ UndoReceivedEntries(r, w, ids)
       \/ \E t \in Rows, b \in Bins : UpdateBinLocation(r, t, b)
       \/ \E e \in Stock : UnassignEntryFromBin(r, e)
                           \/ \E b \in AisleBins : AssignEntryToBin(r, e, b)
       \/ \E s \in Series, n \in 1..Cardinality(Items), b \in AisleBins :
            UnpackSeriesAtW1(r, s, n, b)
       \/ Write(r) \/ Fail(r)
  \/ \E e \in Entries, w \in Warehouses :
       CreateEntry(e, w) \/ UpdateEntry(e, w) \/ DeleteEntry(e)

Spec == Init /\ [][Next]_vars

(***************************************************************************)
(* Properties.  All but TypeOK need that some calls do not overlap.        *)
(***************************************************************************)
\* Types of the rows, and of what a request validated.
TypeOK ==
  /\ entries \in [Entries -> Entry \cup {None}]
  /\ transfers \in Seq(Transfer)
  /\ storage \in [Entries -> Seq(Movement)]
  /\ pc \in [Requests -> {"idle", "send", "reverse", "receive", "undo", "bin",
                        "assign", "unassign", "unpack"}]
  /\ \A r \in Requests :
       /\ pc[r] \in {"reverse", "receive", "undo", "bin"} => job[r].rows \subseteq Rows
       /\ pc[r] \in {"send", "assign", "unassign", "unpack"} => job[r].rows \subseteq Existing
       /\ pc[r] \in {"send", "receive"} => job[r].at \in Warehouses
       /\ pc[r] = "bin" => job[r].bin \in Bins
       /\ pc[r] \in {"assign", "unpack"} => job[r].bin \in AisleBins

InStatus(e, statuses) == {t \in RowsOf(e) : transfers[t].status \in statuses}

\* A package is always on some list: it is listed to be sent (which a later check
\* may still refuse), or it is under way with an open transfer, or a transfer of
\* it was received and not undone.
AlwaysListed ==
  \A e \in Packages :
    \/ entries[e].isTransferable
    \/ entries[e].isSent /\ InStatus(e, {"SENT"}) # {}
    \/ ~entries[e].isSent /\ InStatus(e, {"RECEIVED", "BIN_LOCATION_ASSIGNED"}) # {}

Net(e, b) ==
  LET count(entered) == Cardinality({i \in DOMAIN storage[e] :
        storage[e][i] = [bin |-> b, entered |-> entered]})
  IN count(TRUE) - count(FALSE)

\* The movements say what the rows say: a package is in the bin of its one binned
\* transfer, and not under way then; a series or an item is in one bin at most, a
\* series that was unpacked is in none, and what was unpacked from a series is
\* counted only when that series is gone.
EntryInOneBin ==
  /\ \A e \in Packages :
       LET binned == InStatus(e, {"BIN_LOCATION_ASSIGNED"}) IN
       /\ Cardinality(binned) <= 1
       /\ \A b \in Bins : Net(e, b) = Cardinality({t \in binned : transfers[t].bin = b})
       /\ binned # {} => ~entries[e].isSent /\ ~entries[e].isTransferable
  /\ \A e \in Existing \cap Stock :
       /\ \A b \in AisleBins : Net(e, b) \in 0..(IF entries[e].isSeriesUnpacked THEN 0 ELSE 1)
       /\ \A b, c \in AisleBins : Net(e, b) = 1 /\ Net(e, c) = 1 => b = c
       /\ entries[e].unpackedFrom # None => entries[entries[e].unpackedFrom].isSeriesUnpacked

=============================================================================
