------------------------ MODULE WarehouseTransfersProofs ------------------------
(***************************************************************************)
(* What holds of entries and their transfers for any number of packages,     *)
(* series, items and bins: types whatever overlaps, the lists unless a bin    *)
(* meets an undone reception, the bins unless calls about one entry meet.    *)
(***************************************************************************)
EXTENDS WarehouseTransfers, FiniteSetTheorems, SequenceTheorems, TLAPS

(***************************************************************************)
(* Rows stay: packages and entries with transfers are never unused again.    *)
(***************************************************************************)
JobOK(r) ==
  /\ pc[r] = "send" => /\ DOMAIN job[r].listed = job[r].rows
                       /\ \A e \in job[r].rows : job[r].listed[e] # 0
  /\ pc[r] = "unpack" => job[r].rows \subseteq Series
JobsOK == DOMAIN job = Requests /\ \A r \in Requests : JobOK(r)
RowsOK == /\ Packages \subseteq Existing
          /\ \A t \in Rows : transfers[t].entry \in Existing
Inv == TypeOK /\ JobsOK /\ RowsOK

LEMMA RemovedKnown ==
  ASSUME NEW S, NEW s \in Seq(S), NEW i \in 1..Len(s)
  PROVE  RemoveAt(s, i) \in Seq(S)
<1>1. SubSeq(s, 1, i - 1) \in Seq(S) /\ SubSeq(s, i + 1, Len(s)) \in Seq(S)
  OBVIOUS
<1> QED  BY <1>1, ConcatProperties DEF RemoveAt

LEMMA RowFacts ==
  ASSUME Inv
  PROVE  /\ Rows = 1..Len(transfers) /\ Len(transfers) \in Nat /\ IsFiniteSet(Rows)
         /\ \A t \in Rows : transfers[t] \in Transfer
         /\ Existing \subseteq Entries
         /\ \A e \in Existing : entries[e] \in Entry
<1>1. transfers \in Seq(Transfer)
  BY DEF Inv, TypeOK
<1>2. Rows = 1..Len(transfers) /\ Len(transfers) \in Nat /\ \A t \in Rows : transfers[t] \in Transfer
  BY <1>1 DEF Rows
<1>3. IsFiniteSet(1..Len(transfers))
  BY <1>2, FS_Interval
<1> QED  BY <1>2, <1>3 DEF Existing, Inv, TypeOK

LEMMA Initially == Init => Inv
<1> SUFFICES ASSUME Init PROVE Inv
  OBVIOUS
<1>1. NewEntry(1) \in Entry /\ [NewEntry(1) EXCEPT !.isTransferable = TRUE] \in Entry
  BY DEF NewEntry, Entry, Warehouses
<1>2. entries \in [Entries -> Entry \cup {None}] /\ \A e \in Packages : entries[e] \in Entry
  BY <1>1 DEF Init, Entries
<1>3. TypeOK
  <2>1. transfers \in Seq(Transfer) /\ storage \in [Entries -> Seq(Movement)]
    BY EmptySeq DEF Init
  <2>2. \A r \in Requests : pc[r] = "idle"
    BY DEF Init
  <2> QED  BY <2>1, <2>2, <1>2 DEF Init, TypeOK
<1>4. JobsOK
  BY DEF Init, JobsOK, JobOK
<1>5. RowsOK
  <2>1. Rows = {}
    BY DEF Init, Rows
  <2>2. Packages \subseteq Existing
    BY <1>2, NoneAssumption DEF Existing, Entries
  <2> QED  BY <2>1, <2>2 DEF RowsOK
<1> QED  BY <1>3, <1>4, <1>5 DEF Inv

(***************************************************************************)
(* Starting and ending a call.                                             *)
(***************************************************************************)
LEMMA FinishFacts ==
  ASSUME Inv, NEW r \in Requests, Finish(r)
  PROVE  /\ pc'[r] = "idle" /\ DOMAIN job' = Requests
         /\ pc' \in [Requests -> {"idle", "send", "reverse", "receive", "undo", "bin",
                                  "assign", "unassign", "unpack"}]
         /\ \A q \in Requests \ {r} : pc'[q] = pc[q] /\ job'[q] = job[q]
BY DEF Finish, Inv, TypeOK, JobsOK

LEMMA StartFacts ==
  ASSUME Inv, NEW r \in Requests,
         NEW label \in {"send", "reverse", "receive", "undo", "bin", "assign", "unassign", "unpack"},
         NEW j, Start(r, label, j)
  PROVE  /\ pc'[r] = label /\ job'[r] = j /\ DOMAIN job' = Requests
         /\ pc' \in [Requests -> {"idle", "send", "reverse", "receive", "undo", "bin",
                                  "assign", "unassign", "unpack"}]
         /\ \A q \in Requests \ {r} : pc'[q] = pc[q] /\ job'[q] = job[q]
         /\ UNCHANGED <<entries, transfers, storage>>
BY DEF Start, Inv, TypeOK, JobsOK

JobTyped(r) ==
  /\ pc[r] \in {"reverse", "receive", "undo", "bin"} => job[r].rows \subseteq Rows
  /\ pc[r] \in {"send", "assign", "unassign", "unpack"} => job[r].rows \subseteq Existing
  /\ pc[r] \in {"send", "receive"} => job[r].at \in Warehouses
  /\ pc[r] = "bin" => job[r].bin \in Bins
  /\ pc[r] \in {"assign", "unpack"} => job[r].bin \in AisleBins

\* A call that starts leaves the rows alone; what it read is typed.
LEMMA StartKeeps ==
  ASSUME Inv, NEW r \in Requests,
         NEW label \in {"send", "reverse", "receive", "undo", "bin", "assign", "unassign", "unpack"},
         NEW j, Start(r, label, j), JobTyped(r)', JobOK(r)'
  PROVE  Inv'
<1>1. /\ pc' \in [Requests -> {"idle", "send", "reverse", "receive", "undo", "bin",
                               "assign", "unassign", "unpack"}]
      /\ \A q \in Requests \ {r} : pc'[q] = pc[q] /\ job'[q] = job[q]
      /\ UNCHANGED <<entries, transfers, storage>> /\ DOMAIN job' = Requests
  BY StartFacts
<1>2. \A q \in Requests \ {r} : JobTyped(q)' /\ JobOK(q)'
  BY <1>1 DEF JobTyped, JobOK, Inv, TypeOK, JobsOK, Rows, Existing
<1>3. TypeOK'
  BY <1>1, <1>2 DEF Inv, TypeOK, JobTyped
<1>4. JobsOK' /\ RowsOK'
  BY <1>1, <1>2 DEF Inv, JobsOK, RowsOK, Rows, Existing
<1> QED  BY <1>3, <1>4 DEF Inv

\* What other calls read stays typed as rows are only added.
LEMMA WriteKeeps ==
  ASSUME Inv, NEW r \in Requests, Finish(r),
         entries' \in [Entries -> Entry \cup {None}], transfers' \in Seq(Transfer),
         storage' \in [Entries -> Seq(Movement)],
         Existing \subseteq Existing', Rows \subseteq Rows',
         \A t \in Rows' : transfers'[t].entry \in Existing'
  PROVE  Inv'
<1>1. /\ pc' \in [Requests -> {"idle", "send", "reverse", "receive", "undo", "bin",
                               "assign", "unassign", "unpack"}]
      /\ \A q \in Requests \ {r} : pc'[q] = pc[q] /\ job'[q] = job[q]
      /\ pc'[r] = "idle" /\ DOMAIN job' = Requests
  BY FinishFacts
<1>2. \A q \in Requests : JobTyped(q)'
  BY <1>1 DEF JobTyped, Inv, TypeOK
<1>3. \A q \in Requests : JobOK(q)'
  BY <1>1 DEF JobOK, Inv, JobsOK
<1>4. TypeOK'
  BY <1>1, <1>2 DEF TypeOK, JobTyped
<1>5. JobsOK' /\ RowsOK'
  BY <1>1, <1>3 DEF Inv, JobsOK, RowsOK
<1> QED  BY <1>4, <1>5 DEF Inv

(***************************************************************************)
(* Calls start.                                                            *)
(***************************************************************************)
LEMMA ListedSome ==
  ASSUME Inv, NEW e
  PROVE  Listed(e) # 0
<1>1. IsFiniteSet(RowsOf(e))
  BY RowFacts, FS_Subset DEF RowsOf
<1> QED  BY <1>1, FS_EmptySet DEF Listed

LEMMA SendStarts ==
  ASSUME Inv, NEW r \in Requests, NEW es \in SUBSET Existing, NEW w \in Warehouses,
         SendTransferableEntries(r, es, w)
  PROVE  Inv'
<1> DEFINE listed == [e \in es |-> Listed(e)]
           j == [Job(es, w) EXCEPT !.listed = listed]
<1>1. Start(r, "send", j)
  BY DEF SendTransferableEntries
<1>2. j.rows = es /\ j.at = w /\ j.listed = listed
  BY DEF Job, NoJob
<1>3. \A e \in es : listed[e] # 0
  BY ListedSome
<1> HIDE DEF j, listed
<1>4. /\ pc'[r] = "send" /\ job'[r] = j /\ UNCHANGED <<entries, transfers, storage>>
  BY <1>1, StartFacts
<1>5. JobTyped(r)'
  BY <1>2, <1>4 DEF JobTyped, Existing
<1>6. JobOK(r)'
  BY <1>2, <1>3, <1>4 DEF JobOK, listed
<1> QED  BY <1>1, <1>5, <1>6, StartKeeps

LEMMA RowsStart ==
  ASSUME Inv, NEW r \in Requests, NEW w \in Warehouses, NEW ids \in SUBSET Rows,
         \/ ReverseSentEntries(r, w, ids)
         \/ ReceiveTransfers(r, w, ids)
         \/ UndoReceivedEntries(r, w, ids)
  PROVE  Inv'
<1>1. PICK label \in {"reverse", "receive", "undo"} : Start(r, label, Job(ids, w))
  BY DEF ReverseSentEntries, ReceiveTransfers, UndoReceivedEntries
<1>2. Job(ids, w).rows = ids /\ Job(ids, w).at = w
  BY DEF Job, NoJob
<1>3. pc'[r] = label /\ job'[r] = Job(ids, w) /\ UNCHANGED <<entries, transfers, storage>>
  BY <1>1, StartFacts
<1>4. JobTyped(r)' /\ JobOK(r)'
  BY <1>2, <1>3 DEF JobTyped, JobOK, Rows
<1> QED  BY <1>1, <1>4, StartKeeps

LEMMA BinStarts ==
  ASSUME Inv, NEW r \in Requests, NEW t \in Rows, NEW b \in Bins, UpdateBinLocation(r, t, b)
  PROVE  Inv'
<1> DEFINE j == [Job({t}, 2) EXCEPT !.bin = b]
<1>1. Start(r, "bin", j)
  BY DEF UpdateBinLocation
<1>2. j.rows = {t} /\ j.bin = b
  BY DEF Job, NoJob
<1> HIDE DEF j
<1>3. pc'[r] = "bin" /\ job'[r] = j /\ UNCHANGED <<entries, transfers, storage>>
  BY <1>1, StartFacts
<1>4. JobTyped(r)' /\ JobOK(r)'
  BY <1>2, <1>3 DEF JobTyped, JobOK, Rows
<1> QED  BY <1>1, <1>4, StartKeeps

LEMMA StockStarts ==
  ASSUME Inv, NEW r \in Requests, NEW e \in Stock,
         \/ UnassignEntryFromBin(r, e)
         \/ \E b \in AisleBins : AssignEntryToBin(r, e, b)
         \/ \E n \in 1..Cardinality(Items), b \in AisleBins : e \in Series /\ UnpackSeriesAtW1(r, e, n, b)
  PROVE  Inv'
<1> DEFINE fits(label, j) ==
             /\ Start(r, label, j) /\ j.rows = {e}
             /\ label \in {"assign", "unpack"} => j.bin \in AisleBins
             /\ label = "unpack" => e \in Series
<1>1. \E label \in {"unassign", "assign", "unpack"} : \E j : fits(label, j)
  BY DEF UnassignEntryFromBin, AssignEntryToBin, UnpackSeriesAtW1, Job, NoJob
<1>2. PICK label \in {"unassign", "assign", "unpack"} : \E j : fits(label, j)
  BY <1>1
<1>3. PICK j : fits(label, j)
  BY <1>2
<1>4. e \in Existing
  BY DEF UnassignEntryFromBin, AssignEntryToBin, UnpackSeriesAtW1, Present
<1>5. pc'[r] = label /\ job'[r] = j /\ UNCHANGED <<entries, transfers, storage>>
  BY <1>3, StartFacts
<1>6. JobTyped(r)' /\ JobOK(r)'
  BY <1>3, <1>4, <1>5 DEF JobTyped, JobOK, Existing
<1> QED  BY <1>3, <1>6, StartKeeps

(***************************************************************************)
(* Calls write.                                                            *)
(***************************************************************************)
LEMMA MarkTyped ==
  ASSUME Inv, NEW es, NEW a \in BOOLEAN, NEW b \in BOOLEAN, es \subseteq Existing, Mark(es, a, b)
  PROVE  /\ entries' \in [Entries -> Entry \cup {None}] /\ Existing' = Existing
         /\ \A e \in es : entries'[e].isTransferable = a /\ entries'[e].isSent = b
         /\ \A e \in Entries \ es : entries'[e] = entries[e]
<1>1. \A e \in es : /\ entries'[e] = [entries[e] EXCEPT !.isTransferable = a, !.isSent = b]
                    /\ entries[e] \in Entry
  BY RowFacts DEF Mark
<1>2. \A e \in es : /\ entries'[e] \in Entry
                    /\ entries'[e].isTransferable = a /\ entries'[e].isSent = b
  BY <1>1 DEF Entry
<1>3. \A e \in Entries \ es : entries'[e] = entries[e]
  BY DEF Mark
<1>4. entries' \in [Entries -> Entry \cup {None}]
  BY <1>2, <1>3 DEF Mark, Inv, TypeOK
<1>5. Existing' = Existing
  BY <1>2, <1>3, NoneAssumption DEF Existing
<1> QED  BY <1>2, <1>3, <1>4, <1>5

LEMMA SetTyped ==
  ASSUME Inv, NEW ids, NEW status \in Statuses, Set(ids, status)
  PROVE  /\ transfers' \in Seq(Transfer) /\ Rows' = Rows
         /\ \A t \in Rows : /\ transfers'[t].entry = transfers[t].entry
                            /\ transfers'[t].bin = transfers[t].bin
                            /\ transfers'[t].status = IF t \in ids THEN status ELSE transfers[t].status
<1>1. /\ Rows = 1..Len(transfers) /\ Len(transfers) \in Nat
      /\ \A t \in Rows : transfers[t] \in Transfer
  BY RowFacts
<1>2. DOMAIN transfers' = Rows
  BY DEF Set
<1>3. \A t \in Rows : transfers'[t] = IF t \in ids THEN [transfers[t] EXCEPT !.status = status]
                                       ELSE transfers[t]
  BY DEF Set
<1>4. \A t \in Rows : [transfers[t] EXCEPT !.status = status] \in Transfer
  BY <1>1 DEF Transfer
<1>5. transfers' \in [1..Len(transfers) -> Transfer]
  BY <1>1, <1>3, <1>4 DEF Set
<1>6. transfers' \in Seq(Transfer)
  BY <1>1, <1>5, SeqDef
<1>7. \A t \in Rows : /\ transfers'[t].entry = transfers[t].entry
                      /\ transfers'[t].bin = transfers[t].bin
                      /\ transfers'[t].status = IF t \in ids THEN status ELSE transfers[t].status
  BY <1>1, <1>3 DEF Transfer
<1> QED  BY <1>2, <1>6, <1>7 DEF Rows

SentRow(e, w) == [entry |-> e, source |-> w, destination |-> 3 - w,
                  status |-> "SENT", bin |-> None]
SentRows(q, w) == [i \in DOMAIN q |-> SentRow(q[i], w)]

\* The inserted rows follow the others.
LEMMA AppendTyped ==
  ASSUME Inv, NEW f, NEW w \in Warehouses, NEW q \in NewRows(f),
         DOMAIN f \subseteq Existing,
         transfers' = transfers \o SentRows(q, w)
  PROVE  /\ transfers' \in Seq(Transfer)
         /\ Rows \subseteq Rows'
         /\ \A t \in Rows : transfers'[t] = transfers[t]
         /\ \A t \in Rows' \ Rows : /\ transfers'[t].entry \in DOMAIN f
                                    /\ transfers'[t].status = "SENT" /\ transfers'[t].bin = None
         /\ \A i \in DOMAIN q : \E t \in Rows' \ Rows : transfers'[t].entry = q[i]
<1> DEFINE new == SentRows(q, w)
           es == DOMAIN f
<1>1. PICK n \in 0..MaxTransfers : q \in [1..n -> es]
  BY DEF NewRows, SeqOf
<1>2. n \in Nat /\ DOMAIN q = 1..n
  BY <1>1, ConstantsAssumption
<1>3. \A i \in 1..n : /\ SentRow(q[i], w) \in Transfer
                      /\ SentRow(q[i], w).entry = q[i] /\ SentRow(q[i], w).status = "SENT"
                      /\ SentRow(q[i], w).bin = None
  BY <1>1, RowFacts DEF SentRow, Transfer, Statuses, Warehouses
<1>4. new \in [1..n -> Transfer]
  BY <1>2, <1>3 DEF SentRows
<1>5. new \in Seq(Transfer) /\ Len(new) = n /\ transfers \in Seq(Transfer)
  <2>1. transfers \in Seq(Transfer)
    BY DEF Inv, TypeOK
  <2> HIDE DEF new
  <2>2. new \in Seq(Transfer)
    BY <1>2, <1>4, SeqDef
  <2>3. Len(new) = n
    BY <1>2, <1>4, <2>2
  <2> QED  BY <2>1, <2>2, <2>3
<1>6. transfers' = transfers \o new
  OBVIOUS
<1>7. \A i \in 1..n : new[i] = SentRow(q[i], w)
  BY <1>2 DEF SentRows
<1> HIDE DEF new
<1>8. /\ transfers' \in Seq(Transfer) /\ Len(transfers') = Len(transfers) + n
      /\ \A t \in 1..(Len(transfers) + n) :
           transfers'[t] = IF t <= Len(transfers) THEN transfers[t] ELSE new[t - Len(transfers)]
  <2>1. Len(transfers) + Len(new) = Len(transfers) + n
    BY <1>5
  <2>2. /\ transfers \o new \in Seq(Transfer)
        /\ Len(transfers \o new) = Len(transfers) + Len(new)
        /\ \A t \in 1..(Len(transfers) + Len(new)) :
             (transfers \o new)[t] =
               IF t <= Len(transfers) THEN transfers[t] ELSE new[t - Len(transfers)]
    BY <1>5, ConcatProperties
  <2> QED  BY <2>1, <2>2, <1>6
<1>9. Rows = 1..Len(transfers) /\ Len(transfers) \in Nat
  BY RowFacts
<1>10. Rows' = 1..Len(transfers) + n
  BY <1>8 DEF Rows
<1>11. \A t \in Rows' \ Rows : /\ t - Len(transfers) \in 1..n
                               /\ transfers'[t] = new[t - Len(transfers)]
  BY <1>2, <1>8, <1>9, <1>10
<1>12. \A t \in Rows' \ Rows : /\ transfers'[t].entry \in es
                               /\ transfers'[t].status = "SENT" /\ transfers'[t].bin = None
  <2> TAKE t \in Rows' \ Rows
  <2> DEFINE i == t - Len(transfers)
  <2>1. i \in 1..n /\ transfers'[t] = new[i]
    BY <1>11
  <2> HIDE DEF i
  <2>2. q[i] \in es
    BY <2>1, <1>1
  <2> QED  BY <2>1, <2>2, <1>3, <1>7
<1>13. \A i \in DOMAIN q : \E t \in Rows' \ Rows : transfers'[t].entry = q[i]
  <2> TAKE i \in DOMAIN q
  <2> DEFINE t == Len(transfers) + i
  <2>1. t \in Rows' \ Rows /\ t - Len(transfers) = i
    BY <1>2, <1>9, <1>10
  <2>2. transfers'[t] = SentRow(q[i], w)
    BY <2>1, <1>2, <1>7, <1>11
  <2> QED  BY <2>1, <2>2, <1>2, <1>3
<1> QED  BY <1>2, <1>8, <1>9, <1>10, <1>12, <1>13

LEMMA SendWrites ==
  ASSUME Inv, NEW r \in Requests, WriteSend(r)
  PROVE  /\ Inv'
         /\ Existing' = Existing /\ Rows \subseteq Rows'
         /\ job[r].rows \subseteq Existing
         /\ \A e \in job[r].rows : entries'[e].isSent
         /\ \A e \in Entries \ job[r].rows : entries'[e] = entries[e]
         /\ \A t \in Rows : transfers'[t] = transfers[t]
         /\ \A e \in job[r].rows : \E t \in Rows' :
              transfers'[t].entry = e /\ transfers'[t].status = "SENT"
         /\ \A t \in Rows' \ Rows : /\ transfers'[t].entry \in job[r].rows
                                    /\ transfers'[t].status = "SENT" /\ transfers'[t].bin = None
         /\ UNCHANGED storage
<1> DEFINE es == job[r].rows
<1>1. /\ pc[r] = "send" /\ es \subseteq Existing /\ job[r].at \in Warehouses
      /\ DOMAIN job[r].listed = es /\ \A e \in es : job[r].listed[e] # 0
  BY DEF WriteSend, Inv, TypeOK, JobsOK, JobOK
<1>2. PICK q \in NewRows(job[r].listed) :
        transfers' = transfers \o SentRows(q, job[r].at)
  BY DEF WriteSend, SentRows, SentRow
<1>3. Mark(es, FALSE, TRUE) /\ Finish(r) /\ UNCHANGED storage
  BY DEF WriteSend
<1>4. /\ entries' \in [Entries -> Entry \cup {None}] /\ Existing' = Existing
      /\ \A e \in es : entries'[e].isSent
      /\ \A e \in Entries \ es : entries'[e] = entries[e]
  BY <1>1, <1>3, MarkTyped
<1>5. /\ transfers' \in Seq(Transfer) /\ Rows \subseteq Rows'
      /\ \A t \in Rows : transfers'[t] = transfers[t]
      /\ \A t \in Rows' \ Rows : /\ transfers'[t].entry \in es
                                 /\ transfers'[t].status = "SENT" /\ transfers'[t].bin = None
      /\ \A i \in DOMAIN q : \E t \in Rows' \ Rows : transfers'[t].entry = q[i]
  <2> DEFINE f == job[r].listed
  <2>1. q \in NewRows(f) /\ DOMAIN f = es /\ DOMAIN f \subseteq Existing
    BY <1>1, <1>2
  <2> HIDE DEF f, es
  <2>2. /\ transfers' \in Seq(Transfer) /\ Rows \subseteq Rows'
        /\ \A t \in Rows : transfers'[t] = transfers[t]
        /\ \A t \in Rows' \ Rows : /\ transfers'[t].entry \in DOMAIN f
                                   /\ transfers'[t].status = "SENT" /\ transfers'[t].bin = None
        /\ \A i \in DOMAIN q : \E t \in Rows' \ Rows : transfers'[t].entry = q[i]
    BY <1>1, <1>2, <2>1, AppendTyped
  <2> QED  BY <2>1, <2>2
<1>6. \A t \in Rows' : transfers'[t].entry \in Existing'
  BY <1>1, <1>4, <1>5 DEF Inv, RowsOK
<1>7. Inv'
  BY <1>3, <1>4, <1>5, <1>6, WriteKeeps DEF Inv, TypeOK
<1>8. \A e \in es : \E i \in DOMAIN q : q[i] = e
  <2> TAKE e \in es
  <2>1. Cardinality({i \in DOMAIN q : q[i] = e}) = job[r].listed[e]
    BY <1>1 DEF NewRows
  <2>2. {i \in DOMAIN q : q[i] = e} # {}
    BY <2>1, <1>1, FS_EmptySet
  <2> QED  BY <2>2
<1> QED  BY <1>1, <1>3, <1>4, <1>5, <1>7, <1>8

\* Reversing, receiving and undoing: the rows get one status, their entries are marked.
LEMMA RowsWrite ==
  ASSUME Inv, NEW r \in Requests, WriteReverse(r) \/ WriteReceive(r) \/ WriteUndo(r)
  PROVE  /\ Inv'
         /\ Existing' = Existing /\ Rows' = Rows
         /\ \A e \in Entries \ EntriesOf(job[r].rows) : entries'[e] = entries[e]
         /\ \A t \in Rows : /\ transfers'[t].entry = transfers[t].entry
                            /\ t \notin job[r].rows => transfers'[t].status = transfers[t].status
         /\ job[r].rows \subseteq Rows
         /\ \A t \in job[r].rows :
              LET e == entries'[transfers[t].entry] IN
              \/ e.isTransferable
              \/ e.isSent /\ transfers'[t].status = "SENT"
              \/ ~e.isSent /\ transfers'[t].status = "RECEIVED"
         /\ UNCHANGED storage /\ \A t \in Rows : transfers'[t].bin = transfers[t].bin
         /\ \A t \in job[r].rows :
              \/ pc[r] = "reverse" /\ transfers'[t].status = "UNDONE"
              \/ pc[r] = "undo" /\ transfers'[t].status = "SENT"
              \/ /\ pc[r] = "receive" /\ transfers'[t].status = "RECEIVED"
                 /\ ~entries'[transfers[t].entry].isSent /\ ~entries'[transfers[t].entry].isTransferable
<1> DEFINE ids == job[r].rows
           es == EntriesOf(ids)
<1>1. ids \subseteq Rows /\ Finish(r) /\ UNCHANGED storage
  BY DEF WriteReverse, WriteReceive, WriteUndo, Inv, TypeOK
<1>2. es \subseteq Existing
  BY <1>1 DEF EntriesOf, Inv, RowsOK
<1>3. PICK status \in {"UNDONE", "RECEIVED", "SENT"} : Set(ids, status) /\
        /\ status = "UNDONE" => WriteReverse(r)
        /\ status = "RECEIVED" => WriteReceive(r)
        /\ status = "SENT" => WriteUndo(r)
  BY DEF WriteReverse, WriteReceive, WriteUndo
<1>4. /\ transfers' \in Seq(Transfer) /\ Rows' = Rows
      /\ \A t \in Rows : /\ transfers'[t].entry = transfers[t].entry
                         /\ transfers'[t].bin = transfers[t].bin
                         /\ transfers'[t].status = IF t \in ids THEN status ELSE transfers[t].status
  BY <1>3, SetTyped DEF Statuses
<1>5. /\ entries' \in [Entries -> Entry \cup {None}] /\ Existing' = Existing
      /\ \A e \in Entries \ es : entries'[e] = entries[e]
      /\ \A e \in es : \/ entries'[e].isTransferable /\ status = "UNDONE"
                       \/ entries'[e].isSent /\ status = "SENT"
                       \/ /\ ~entries'[e].isSent /\ ~entries'[e].isTransferable
                          /\ status = "RECEIVED"
  <2>1. CASE status = "UNDONE"
    BY <2>1, <1>2, <1>3, MarkTyped DEF WriteReverse
  <2>2. CASE status = "SENT"
    BY <2>2, <1>2, <1>3, MarkTyped DEF WriteUndo
  <2>3. CASE status = "RECEIVED"
    <3>1. WriteReceive(r) /\ job[r].at \in Warehouses
      BY <2>3, <1>3 DEF WriteReceive, Inv, TypeOK
    <3>2. \A e \in es : /\ entries'[e] = [entries[e] EXCEPT !.isTransferable = FALSE,
                                            !.isSent = FALSE, !.warehouse = job[r].at]
                        /\ entries[e] \in Entry
      BY <3>1, <1>2, RowFacts DEF WriteReceive
    <3>3. \A e \in es : entries'[e] \in Entry /\ ~entries'[e].isSent /\ ~entries'[e].isTransferable
      BY <3>1, <3>2 DEF Entry
    <3>4. \A e \in Entries \ es : entries'[e] = entries[e]
      BY <3>1 DEF WriteReceive
    <3>5. entries' \in [Entries -> Entry \cup {None}]
      BY <3>1, <3>3, <3>4 DEF WriteReceive, Inv, TypeOK
    <3>6. Existing' = Existing
      BY <1>2, <3>3, <3>4, NoneAssumption DEF Existing
    <3> QED  BY <2>3, <3>3, <3>4, <3>5, <3>6
  <2> QED  BY <1>3, <2>1, <2>2, <2>3
<1>6. \A t \in Rows' : transfers'[t].entry \in Existing'
  BY <1>4, <1>5 DEF Inv, RowsOK
<1>7. Inv'
  BY <1>1, <1>4, <1>5, <1>6, WriteKeeps DEF Inv, TypeOK
<1>8. \A t \in ids : transfers[t].entry \in es /\ transfers'[t].status = status
  BY <1>1, <1>4 DEF EntriesOf
<1>9. /\ status = "UNDONE" => pc[r] = "reverse"
      /\ status = "SENT" => pc[r] = "undo"
      /\ status = "RECEIVED" => pc[r] = "receive"
  BY <1>3 DEF WriteReverse, WriteReceive, WriteUndo
<1> QED  BY <1>1, <1>4, <1>5, <1>7, <1>8, <1>9

LEMMA BinWrites ==
  ASSUME Inv, NEW r \in Requests, WriteBin(r)
  PROVE  /\ Inv' /\ UNCHANGED entries /\ Rows' = Rows
         /\ \E t \in job[r].rows :
              /\ t \in Rows /\ transfers'[t].status = "BIN_LOCATION_ASSIGNED"
              /\ \A u \in Rows \ {t} : transfers'[u] = transfers[u]
         /\ \A t \in Rows : transfers'[t].entry = transfers[t].entry
<1>1. PICK t \in job[r].rows :
        /\ storage' = [storage EXCEPT ![transfers[t].entry] =
                         @ \o Leaves(t, job[r].bin) \o Enters(t, job[r].bin)]
        /\ transfers' = [transfers EXCEPT ![t].bin = job[r].bin,
                                          ![t].status = "BIN_LOCATION_ASSIGNED"]
  BY DEF WriteBin
<1>2. t \in Rows /\ job[r].bin \in Bins /\ Finish(r) /\ UNCHANGED entries
  BY DEF WriteBin, Inv, TypeOK
<1>3. /\ Rows = 1..Len(transfers) /\ Len(transfers) \in Nat
      /\ \A u \in Rows : transfers[u] \in Transfer
  BY RowFacts
<1>4. /\ transfers'[t] = [transfers[t] EXCEPT !.bin = job[r].bin,
                                              !.status = "BIN_LOCATION_ASSIGNED"]
      /\ \A u \in Rows \ {t} : transfers'[u] = transfers[u]
      /\ DOMAIN transfers' = Rows
  <2>1. transfers \in Seq(Transfer)
    BY DEF Inv, TypeOK
  <2> QED  BY <1>1, <1>2, <2>1 DEF Rows
<1>5. /\ transfers'[t] \in Transfer /\ transfers'[t].status = "BIN_LOCATION_ASSIGNED"
      /\ transfers'[t].entry = transfers[t].entry
  BY <1>2, <1>3, <1>4 DEF Transfer, Statuses
<1>6. transfers' \in Seq(Transfer)
  <2>1. \A u \in 1..Len(transfers) : transfers'[u] \in Transfer
    BY <1>3, <1>4, <1>5
  <2>2. transfers' \in [1..Len(transfers) -> Transfer]
    BY <1>1, <1>3, <1>4, <2>1 DEF Inv, TypeOK
  <2> QED  BY <1>3, <2>2, SeqDef
<1>7. storage' \in [Entries -> Seq(Movement)]
  <2> DEFINE e == transfers[t].entry
             left == Leaves(t, job[r].bin)
             entered == Enters(t, job[r].bin)
  <2>1. storage \in [Entries -> Seq(Movement)] /\ e \in Entries
    BY <1>2, <1>3 DEF Inv, TypeOK, Transfer
  <2>2. transfers[t].bin \in Bins \cup {None}
    BY <1>2, <1>3 DEF Transfer
  <2>3. \A b \in Bins, x \in BOOLEAN : <<[bin |-> b, entered |-> x]>> \in Seq(Movement)
    BY DEF Movement
  <2>4. left \in Seq(Movement)
    BY <2>2, <2>3, EmptySeq DEF Leaves
  <2>5. entered \in Seq(Movement)
    BY <1>2, <2>3, EmptySeq DEF Enters
  <2> HIDE DEF left, entered
  <2>6. storage[e] \o left \o entered \in Seq(Movement)
    BY <2>1, <2>4, <2>5, ConcatProperties
  <2>7. storage' = [storage EXCEPT ![e] = storage[e] \o left \o entered]
    BY <1>1 DEF left, entered
  <2> QED  BY <2>1, <2>6, <2>7
<1>8. \A u \in Rows : transfers'[u].entry = transfers[u].entry
  BY <1>4, <1>5
<1>9. Existing' = Existing /\ Rows' = Rows
  BY <1>2, <1>4 DEF Existing, Rows
<1>10. \A u \in Rows' : transfers'[u].entry \in Existing'
  BY <1>8, <1>9 DEF Inv, RowsOK
<1>11. Inv'
  BY <1>2, <1>6, <1>7, <1>9, <1>10, WriteKeeps DEF Inv, TypeOK
<1> QED  BY <1>2, <1>4, <1>5, <1>8, <1>9, <1>11

\* Stock in the aisles: only the movements change.
LEMMA AisleWrites ==
  ASSUME Inv, NEW r \in Requests, WriteAssign(r) \/ WriteUnassign(r)
  PROVE  Inv' /\ UNCHANGED <<entries, transfers>>
<1>1. Finish(r) /\ UNCHANGED <<entries, transfers>> /\ storage \in [Entries -> Seq(Movement)]
  BY DEF WriteAssign, WriteUnassign, Inv, TypeOK
<1>2. storage' \in [Entries -> Seq(Movement)]
  <2>1. CASE WriteAssign(r)
    <3>1. PICK e \in job[r].rows :
            storage' = [storage EXCEPT ![e] =
              IF Newest(@) = {} THEN Append(@, [bin |-> job[r].bin, entered |-> TRUE])
              ELSE [i \in DOMAIN @ |->
                     IF i \in Newest(@) THEN [@[i] EXCEPT !.bin = job[r].bin] ELSE @[i]]]
      BY <2>1 DEF WriteAssign
    <3>2. e \in Entries /\ job[r].bin \in AisleBins
      BY <2>1 DEF WriteAssign, Inv, TypeOK, Existing
    <3> DEFINE rows == storage[e]
               first == Append(rows, [bin |-> job[r].bin, entered |-> TRUE])
               over == [i \in DOMAIN rows |->
                         IF i \in Newest(rows) THEN [rows[i] EXCEPT !.bin = job[r].bin] ELSE rows[i]]
    <3>3. rows \in Seq(Movement)
      BY <1>1, <3>2
    <3>4. first \in Seq(Movement)
      <4>1. [bin |-> job[r].bin, entered |-> TRUE] \in Movement
        BY <3>2 DEF Movement
      <4> HIDE DEF rows
      <4> QED  BY <3>3, <4>1
    <3>5. over \in Seq(Movement)
      <4> HIDE DEF rows
      <4>1. DOMAIN rows = 1..Len(rows) /\ Len(rows) \in Nat /\ \A i \in DOMAIN rows : rows[i] \in Movement
        BY <3>3
      <4>2. \A i \in DOMAIN rows : [rows[i] EXCEPT !.bin = job[r].bin] \in Movement
        BY <3>2, <4>1 DEF Movement
      <4>3. over \in [1..Len(rows) -> Movement]
        BY <4>1, <4>2
      <4> QED  BY <4>1, <4>3, SeqDef
    <3>6. storage' = [storage EXCEPT ![e] = IF Newest(rows) = {} THEN first ELSE over]
      BY <3>1
    <3> HIDE DEF first, over
    <3> QED  BY <1>1, <3>2, <3>4, <3>5, <3>6
  <2>2. CASE WriteUnassign(r)
    <3>1. \A e \in Entries : storage'[e] \in Seq(Movement)
      <4> TAKE e \in Entries
      <4> DEFINE rows == storage[e]
                 i == CHOOSE k \in Newest(rows) : TRUE
      <4>1. rows \in Seq(Movement)
        BY <1>1
      <4>2. storage'[e] = IF e \in job[r].rows /\ Newest(rows) # {} THEN RemoveAt(rows, i) ELSE rows
        BY <2>2 DEF WriteUnassign
      <4> HIDE DEF rows
      <4>3. Newest(rows) # {} => i \in 1..Len(rows)
        BY <4>1 DEF Newest
      <4> HIDE DEF i
      <4> QED  BY <4>1, <4>2, <4>3, RemovedKnown
    <3> QED  BY <2>2, <3>1 DEF WriteUnassign
  <2> QED  BY <2>1, <2>2
<1>3. Existing' = Existing /\ Rows' = Rows
  BY <1>1 DEF Existing, Rows
<1> QED  BY <1>1, <1>2, <1>3, WriteKeeps DEF Inv, TypeOK, RowsOK

\* The items exist from then on; packages are not touched.
LEMMA UnpackWrites ==
  ASSUME Inv, NEW r \in Requests, WriteUnpack(r)
  PROVE  /\ Inv' /\ UNCHANGED transfers
         /\ \A e \in Packages : entries'[e] = entries[e]
<1> DEFINE moves(s, new, left) ==
             storage' = [e \in Entries |->
               IF e \in new THEN <<[bin |-> job[r].bin, entered |-> TRUE]>>
               ELSE IF e = s THEN left ELSE storage[e]]
           writes(s, new) ==
             entries' = [e \in Entries |->
               IF e \in new THEN [NewEntry(1) EXCEPT !.unpackedFrom = s]
               ELSE IF e = s
                 THEN [entries[e] EXCEPT !.isSeriesUnpacked = TRUE, !.isDeleted = TRUE]
               ELSE entries[e]]
<1>0. PICK s \in job[r].rows, new \in SUBSET (Items \ Existing) :
        /\ \E left \in LeavesAisle(storage[s]) : moves(s, new, left)
        /\ writes(s, new)
  BY DEF WriteUnpack
<1>1. PICK left \in LeavesAisle(storage[s]) : moves(s, new, left)
  BY <1>0
<1>2. /\ s \in Existing /\ s \in Series /\ job[r].bin \in AisleBins
      /\ Finish(r) /\ UNCHANGED transfers
  BY DEF WriteUnpack, Inv, TypeOK, JobsOK, JobOK
<1>3. /\ storage \in [Entries -> Seq(Movement)] /\ entries \in [Entries -> Entry \cup {None}]
      /\ s \in Entries /\ entries[s] \in Entry /\ new \subseteq Entries /\ new \cap Existing = {}
  BY <1>2, RowFacts DEF Inv, TypeOK, Entries
<1>4. left \in Seq(Movement)
  <2> DEFINE rows == storage[s]
  <2>1. rows \in Seq(Movement)
    BY <1>3
  <2> HIDE DEF rows
  <2>2. \A i \in DOMAIN rows : rows[i].bin \in Bins \cup AisleBins
    <3>1. \A i \in DOMAIN rows : rows[i] \in Movement
      BY <2>1
    <3> QED  BY <3>1 DEF Movement
  <2>3. left = rows \/ \E i \in DOMAIN rows : left = Append(rows, [bin |-> rows[i].bin, entered |-> FALSE])
    <3>1. left \in LeavesAisle(rows)
      BY <1>1 DEF rows
    <3> DEFINE bins == {rows[i].bin : i \in {k \in DOMAIN rows : rows[k].entered}}
    <3>2. left \in IF bins = {} THEN {rows} ELSE {Append(rows, [bin |-> b, entered |-> FALSE]) : b \in bins}
      BY <3>1 DEF LeavesAisle
    <3>3. CASE bins = {}
      BY <3>2, <3>3
    <3>4. CASE bins # {}
      <4> HIDE DEF bins
      <4>1. PICK b \in bins : left = Append(rows, [bin |-> b, entered |-> FALSE])
        BY <3>2, <3>4
      <4>2. PICK i \in DOMAIN rows : b = rows[i].bin
        BY <4>1 DEF bins
      <4> QED  BY <4>1, <4>2
    <3> QED  BY <3>3, <3>4
  <2>4. \A i \in DOMAIN rows : [bin |-> rows[i].bin, entered |-> FALSE] \in Movement
    BY <2>2 DEF Movement
  <2>5. \A m \in Movement : Append(rows, m) \in Seq(Movement)
    BY <2>1, AppendProperties
  <2> QED  BY <2>1, <2>3, <2>4, <2>5
<1>5. storage' \in [Entries -> Seq(Movement)]
  <2>1. <<[bin |-> job[r].bin, entered |-> TRUE]>> \in Seq(Movement)
    BY <1>2 DEF Movement
  <2> QED  BY <1>1, <1>3, <1>4, <2>1
<1>6. /\ [NewEntry(1) EXCEPT !.unpackedFrom = s] \in Entry
      /\ [entries[s] EXCEPT !.isSeriesUnpacked = TRUE, !.isDeleted = TRUE] \in Entry
  BY <1>2, <1>3 DEF NewEntry, Entry, Warehouses
<1>7. /\ entries' \in [Entries -> Entry \cup {None}]
      /\ \A e \in Entries : e \in new \cup {s} => entries'[e] \in Entry
      /\ \A e \in Entries \ (new \cup {s}) : entries'[e] = entries[e]
  BY <1>0, <1>3, <1>6
<1>8. Existing \subseteq Existing'
  BY <1>7, NoneAssumption DEF Existing
<1>9. \A e \in Packages : entries'[e] = entries[e]
  BY <1>2, <1>7, ConstantsAssumption DEF Entries, Stock
<1>10. Rows' = Rows /\ \A t \in Rows' : transfers'[t].entry \in Existing'
  BY <1>2, <1>8 DEF Rows, Inv, RowsOK
<1>11. Inv'
  BY <1>2, <1>5, <1>7, <1>8, <1>10, WriteKeeps DEF Inv, TypeOK
<1> QED  BY <1>2, <1>9, <1>11

(***************************************************************************)
(* Entries written in one step, and a call that dies.                       *)
(***************************************************************************)
LEMMA EntryWrites ==
  ASSUME Inv, NEW e \in Entries, NEW w \in Warehouses,
         CreateEntry(e, w) \/ UpdateEntry(e, w) \/ DeleteEntry(e)
  PROVE  /\ Inv' /\ UNCHANGED <<transfers, pc, job>> /\ Existing \subseteq Existing'
         /\ \A x \in Packages : /\ entries'[x].isSent = entries[x].isSent
                                /\ entries'[x].isTransferable = entries[x].isTransferable
<1>1. UNCHANGED <<transfers, storage, pc, job>>
  BY DEF CreateEntry, UpdateEntry, DeleteEntry
<1>2. /\ entries'[e] \in Entry
      /\ e \in Packages => /\ entries'[e].isSent = entries[e].isSent
                           /\ entries'[e].isTransferable = entries[e].isTransferable
  <2>0. entries \in [Entries -> Entry \cup {None}]
    BY DEF Inv, TypeOK
  <2>1. CASE CreateEntry(e, w)
    <3>1. entries'[e] = NewEntry(w) /\ e \notin Packages
      BY <2>0, <2>1, ConstantsAssumption DEF CreateEntry
    <3>2. NewEntry(w) \in Entry
      BY DEF NewEntry, Entry
    <3> QED  BY <3>1, <3>2
  <2>2. CASE UpdateEntry(e, w)
    <3>1. entries'[e] = [entries[e] EXCEPT !.warehouse = w] /\ entries[e] \in Entry
      BY <2>0, <2>2, RowFacts DEF UpdateEntry, Present
    <3> QED  BY <3>1 DEF Entry
  <2>3. CASE DeleteEntry(e)
    <3>1. entries'[e] = [entries[e] EXCEPT !.isDeleted = TRUE] /\ entries[e] \in Entry
      BY <2>0, <2>3, RowFacts DEF DeleteEntry, Present
    <3> QED  BY <3>1 DEF Entry
  <2> QED  BY <2>1, <2>2, <2>3
<1>3. /\ entries' \in [Entries -> Entry \cup {None}]
      /\ \A x \in Entries \ {e} : entries'[x] = entries[x]
  BY <1>2 DEF CreateEntry, UpdateEntry, DeleteEntry, Inv, TypeOK
<1>4. Existing \subseteq Existing'
  BY <1>2, <1>3, NoneAssumption DEF Existing
<1>5. \A q \in Requests : JobTyped(q)'
  BY <1>1, <1>4 DEF JobTyped, Inv, TypeOK, Rows
<1>6. TypeOK'
  BY <1>1, <1>3, <1>5 DEF TypeOK, JobTyped, Inv
<1>7. JobsOK' /\ RowsOK'
  BY <1>1, <1>4 DEF JobsOK, JobOK, RowsOK, Rows, Inv
<1> QED  BY <1>1, <1>2, <1>3, <1>4, <1>6, <1>7 DEF Inv, Entries

LEMMA FailKeeps ==
  ASSUME Inv, NEW r \in Requests, Fail(r)
  PROVE  Inv' /\ UNCHANGED <<entries, transfers>>
<1>1. Finish(r) /\ UNCHANGED <<entries, transfers, storage>>
  BY DEF Fail
<1>2. Existing' = Existing /\ Rows' = Rows
  BY <1>1 DEF Existing, Rows
<1> QED  BY <1>1, <1>2, WriteKeeps DEF Inv, TypeOK, RowsOK

LEMMA StutterKeeps == Inv /\ UNCHANGED vars => Inv'
<1> SUFFICES ASSUME Inv, UNCHANGED vars PROVE Inv'
  OBVIOUS
<1>1. UNCHANGED <<entries, transfers, storage, pc, job>>
  BY DEF vars
<1>2. Existing' = Existing /\ Rows' = Rows
  BY <1>1 DEF Existing, Rows
<1> QED  BY <1>1, <1>2 DEF Inv, TypeOK, JobsOK, JobOK, RowsOK

\* A call that starts, of whatever kind.
Starts(r) ==
  \/ \E es \in Batches(Existing), w \in Warehouses : SendTransferableEntries(r, es, w)
  \/ \E w \in Warehouses, ids \in Batches(Rows) :
       \/ ReverseSentEntries(r, w, ids) \/ ReceiveTransfers(r, w, ids)
       \/ UndoReceivedEntries(r, w, ids)
  \/ \E t \in Rows, b \in Bins : UpdateBinLocation(r, t, b)
  \/ \E e \in Stock : UnassignEntryFromBin(r, e)
                      \/ \E b \in AisleBins : AssignEntryToBin(r, e, b)
  \/ \E s \in Series, n \in 1..Cardinality(Items), b \in AisleBins :
       UnpackSeriesAtW1(r, s, n, b)

LEMMA AnyStart ==
  ASSUME Inv, NEW r \in Requests, Starts(r)
  PROVE  Inv' /\ UNCHANGED <<entries, transfers, storage>>
<1>1. UNCHANGED <<entries, transfers, storage>>
  BY DEF Starts, SendTransferableEntries, ReverseSentEntries, ReceiveTransfers,
    UndoReceivedEntries, UpdateBinLocation, UnassignEntryFromBin, AssignEntryToBin,
    UnpackSeriesAtW1, Start
<1>2. CASE \E es \in Batches(Existing), w \in Warehouses : SendTransferableEntries(r, es, w)
  BY <1>1, <1>2, SendStarts DEF Batches
<1>3. CASE \E w \in Warehouses, ids \in Batches(Rows) :
             \/ ReverseSentEntries(r, w, ids) \/ ReceiveTransfers(r, w, ids)
             \/ UndoReceivedEntries(r, w, ids)
  BY <1>1, <1>3, RowsStart DEF Batches
<1>4. CASE \E t \in Rows, b \in Bins : UpdateBinLocation(r, t, b)
  BY <1>1, <1>4, BinStarts
<1>5. CASE \E e \in Stock : UnassignEntryFromBin(r, e)
                            \/ \E b \in AisleBins : AssignEntryToBin(r, e, b)
  BY <1>1, <1>5, StockStarts
<1>6. CASE \E s \in Series, n \in 1..Cardinality(Items), b \in AisleBins :
             UnpackSeriesAtW1(r, s, n, b)
  BY <1>1, <1>6, StockStarts DEF Stock
<1> QED  BY <1>2, <1>3, <1>4, <1>5, <1>6 DEF Starts

LEMMA StepKeeps == Inv /\ [Next]_vars => Inv'
<1> SUFFICES ASSUME Inv, [Next]_vars PROVE Inv'
  OBVIOUS
<1>1. CASE UNCHANGED vars
  BY <1>1, StutterKeeps
<1>2. CASE \E r \in Requests : Starts(r) \/ Write(r) \/ Fail(r)
  BY <1>2, AnyStart, SendWrites, RowsWrite, BinWrites, AisleWrites, UnpackWrites, FailKeeps
    DEF Write
<1>3. CASE \E e \in Entries, w \in Warehouses :
             CreateEntry(e, w) \/ UpdateEntry(e, w) \/ DeleteEntry(e)
  BY <1>3, EntryWrites
<1> QED  BY <1>1, <1>2, <1>3 DEF Next, Starts

LEMMA InvAlways == Spec => []Inv
<1> QED  BY Initially, StepKeeps, PTL DEF Spec

\* Rows, movements and what a request validated are typed, whatever overlaps: an
\* id that a request holds is still a row when the request writes.
THEOREM TypeCorrect == Spec => []TypeOK
<1>1. Inv => TypeOK
  BY DEF Inv
<1> QED  BY <1>1, InvAlways, PTL

(***************************************************************************)
(* The lists, whatever overlaps but one pair of calls.                      *)
(***************************************************************************)
\* No bin is being given to a row whose reception is being undone.
BinsApart ==
  \A q, r \in Requests : pc[q] = "bin" /\ pc[r] = "undo" => job[q].rows \cap job[r].rows = {}

\* What a bin is being given to is not under way, and will not be when the bin is written.
BinJobs == \A r \in Requests : pc[r] = "bin" =>
             \A t \in job[r].rows : transfers[t].status # "SENT"
ListInv == Inv /\ AlwaysListed /\ BinJobs

ListedAs(e) ==
  \/ entries[e].isTransferable
  \/ entries[e].isSent /\ \E t \in Rows : transfers[t].entry = e /\ transfers[t].status = "SENT"
  \/ ~entries[e].isSent /\ \E t \in Rows :
       transfers[t].entry = e /\ transfers[t].status \in {"RECEIVED", "BIN_LOCATION_ASSIGNED"}

LEMMA ListedMeans == AlwaysListed <=> \A e \in Packages : ListedAs(e)
BY DEF AlwaysListed, ListedAs, InStatus, RowsOf

LEMMA ListedInitially == Init => ListInv
<1> SUFFICES ASSUME Init PROVE ListInv
  OBVIOUS
<1>1. \A e \in Packages : entries[e].isTransferable
  BY DEF Init, Entries, NewEntry
<1> QED  BY <1>1, Initially, ListedMeans DEF ListInv, ListedAs, BinJobs, Init

\* A package none of whose columns and rows change stays on its list.
LEMMA ListStays ==
  ASSUME NEW e \in Packages, ListedAs(e), Rows \subseteq Rows',
         entries'[e].isTransferable = entries[e].isTransferable,
         entries'[e].isSent = entries[e].isSent,
         \A t \in Rows : transfers[t].entry = e =>
           /\ transfers'[t].entry = e
           /\ \/ transfers'[t].status = transfers[t].status
              \/ transfers[t].status # "SENT" /\ transfers'[t].status = "BIN_LOCATION_ASSIGNED"
  PROVE  ListedAs(e)'
BY DEF ListedAs

LEMMA WriteLists ==
  ASSUME ListInv, NEW r \in Requests, Write(r), NEW e \in Packages
  PROVE  ListedAs(e)'
<1>0. Inv /\ ListedAs(e) /\ e \in Entries
  BY ListedMeans DEF ListInv, Entries
<1>1. CASE WriteSend(r)
  <2>1. CASE e \in job[r].rows
    BY <1>0, <1>1, <2>1, SendWrites DEF ListedAs
  <2>2. CASE e \notin job[r].rows
    BY <1>0, <1>1, <2>2, SendWrites, ListStays
  <2> QED  BY <2>1, <2>2
<1>2. CASE WriteReverse(r) \/ WriteReceive(r) \/ WriteUndo(r)
  <2>0. /\ job[r].rows \subseteq Rows /\ Rows' = Rows
        /\ \A x \in Entries \ EntriesOf(job[r].rows) : entries'[x] = entries[x]
        /\ \A t \in Rows : /\ transfers'[t].entry = transfers[t].entry
                           /\ t \notin job[r].rows => transfers'[t].status = transfers[t].status
    BY <1>0, <1>2, RowsWrite
  <2>1. CASE e \in EntriesOf(job[r].rows)
    <3>1. PICK t \in job[r].rows : transfers[t].entry = e
      BY <2>1 DEF EntriesOf
    <3>2. t \in Rows' /\ transfers'[t].entry = e
      BY <2>0, <3>1
    <3>3. \/ entries'[e].isTransferable
          \/ entries'[e].isSent /\ transfers'[t].status = "SENT"
          \/ ~entries'[e].isSent /\ transfers'[t].status = "RECEIVED"
      BY <1>0, <1>2, <3>1, RowsWrite
    <3> QED  BY <3>2, <3>3 DEF ListedAs
  <2>2. CASE e \notin EntriesOf(job[r].rows)
    <3>1. \A t \in Rows : transfers[t].entry = e => t \notin job[r].rows
      BY <2>2 DEF EntriesOf
    <3>2. \A t \in Rows : transfers[t].entry = e =>
            transfers'[t].entry = e /\ transfers'[t].status = transfers[t].status
      BY <2>0, <3>1
    <3>3. entries'[e] = entries[e]
      BY <1>0, <2>0, <2>2
    <3> QED  BY <1>0, <2>0, <3>2, <3>3, ListStays
  <2> QED  BY <2>1, <2>2
<1>3. CASE WriteBin(r)
  <2>1. pc[r] = "bin"
    BY <1>3 DEF WriteBin
  <2>2. \A t \in job[r].rows : transfers[t].status # "SENT"
    BY <2>1 DEF ListInv, BinJobs
  <2> QED  BY <1>0, <1>3, <2>2, BinWrites, ListStays
<1>4. CASE WriteAssign(r) \/ WriteUnassign(r)
  BY <1>0, <1>4, AisleWrites, ListStays DEF Rows
<1>5. CASE WriteUnpack(r)
  BY <1>0, <1>5, UnpackWrites, ListStays DEF Rows
<1> QED  BY <1>1, <1>2, <1>3, <1>4, <1>5 DEF Write

\* A row that is given a bin does not become one under way.
LEMMA WriteBins ==
  ASSUME Inv, BinJobs, BinsApart, NEW r \in Requests, Write(r)
  PROVE  BinJobs'
<1>1. /\ pc'[r] = "idle"
      /\ \A q \in Requests \ {r} : pc'[q] = pc[q] /\ job'[q] = job[q]
  BY FinishFacts DEF Write, WriteSend, WriteReverse, WriteReceive, WriteUndo, WriteBin,
    WriteAssign, WriteUnassign, WriteUnpack
<1> SUFFICES ASSUME NEW q \in Requests \ {r}, pc[q] = "bin", NEW t \in job[q].rows
             PROVE  transfers'[t].status # "SENT"
  BY <1>1 DEF BinJobs
<1>2. t \in Rows /\ transfers[t].status # "SENT"
  BY DEF Inv, TypeOK, BinJobs
<1>3. CASE WriteSend(r)
  BY <1>2, <1>3, SendWrites
<1>4. CASE WriteReverse(r) \/ WriteReceive(r) \/ WriteUndo(r)
  <2>1. CASE t \in job[r].rows
    <3>1. pc[r] # "undo"
      BY <2>1 DEF BinsApart
    <3> QED  BY <1>4, <2>1, <3>1, RowsWrite
  <2>2. CASE t \notin job[r].rows
    BY <1>2, <1>4, <2>2, RowsWrite
  <2> QED  BY <2>1, <2>2
<1>5. CASE WriteBin(r)
  BY <1>2, <1>5, BinWrites
<1>6. CASE WriteAssign(r) \/ WriteUnassign(r) \/ WriteUnpack(r)
  BY <1>2, <1>6, AisleWrites, UnpackWrites
<1> QED  BY <1>3, <1>4, <1>5, <1>6 DEF Write

LEMMA StartBins ==
  ASSUME ListInv, NEW r \in Requests, Starts(r)
  PROVE  BinJobs'
<1>1. Inv /\ Inv' /\ BinJobs /\ UNCHANGED <<entries, transfers, storage>>
  BY AnyStart DEF ListInv
<1>2. PICK label, j :
        /\ label \in {"send", "reverse", "receive", "undo", "bin", "assign", "unassign", "unpack"}
        /\ Start(r, label, j)
        /\ label = "bin" => \A t \in j.rows : transfers[t].status # "SENT"
  <2>1. CASE \E t \in Rows, b \in Bins : UpdateBinLocation(r, t, b)
    <3>1. PICK t \in Rows, b \in Bins : UpdateBinLocation(r, t, b)
      BY <2>1
    <3> DEFINE j == [Job({t}, 2) EXCEPT !.bin = b]
    <3>2. j.rows = {t} /\ Start(r, "bin", j)
      BY <3>1 DEF UpdateBinLocation, Job, NoJob
    <3>3. transfers[t].status # "SENT"
      BY <3>1 DEF UpdateBinLocation
    <3> HIDE DEF j
    <3> QED  BY <3>2, <3>3
  <2>2. CASE ~\E t \in Rows, b \in Bins : UpdateBinLocation(r, t, b)
    <3>1. \E label \in {"send", "reverse", "receive", "undo", "assign", "unassign", "unpack"} :
            \E j : Start(r, label, j)
      BY <2>2 DEF Starts, SendTransferableEntries, ReverseSentEntries, ReceiveTransfers,
        UndoReceivedEntries, UnassignEntryFromBin, AssignEntryToBin, UnpackSeriesAtW1
    <3> QED  BY <3>1
  <2> QED  BY <2>1, <2>2
<1>3. /\ pc'[r] = label /\ job'[r] = j
      /\ \A q \in Requests \ {r} : pc'[q] = pc[q] /\ job'[q] = job[q]
  BY <1>1, <1>2, StartFacts
<1> QED  BY <1>1, <1>2, <1>3 DEF BinJobs

LEMMA ListStep == ListInv /\ BinsApart /\ [Next]_vars => ListInv'
<1> SUFFICES ASSUME ListInv, BinsApart, [Next]_vars PROVE ListInv'
  OBVIOUS
<1>1. Inv /\ Inv' /\ BinJobs /\ \A e \in Packages : ListedAs(e)
  BY StepKeeps, ListedMeans DEF ListInv
<1>2. (\A e \in Packages : ListedAs(e)') => AlwaysListed'
  BY DEF AlwaysListed, ListedAs, InStatus, RowsOf
<1>3. UNCHANGED <<entries, transfers>> => \A e \in Packages : ListedAs(e)'
  BY <1>1 DEF ListedAs, Rows
<1>4. UNCHANGED <<transfers, pc, job>> => BinJobs'
  BY <1>1 DEF BinJobs
<1>5. CASE UNCHANGED vars
  BY <1>1, <1>2, <1>3, <1>4, <1>5 DEF ListInv, vars
<1>6. CASE \E r \in Requests : Starts(r)
  BY <1>1, <1>2, <1>3, <1>6, StartBins, AnyStart DEF ListInv
<1>7. CASE \E r \in Requests : Fail(r)
  <2>1. PICK r \in Requests : Fail(r)
    BY <1>7
  <2>2. /\ pc'[r] = "idle" /\ UNCHANGED <<entries, transfers>>
        /\ \A q \in Requests \ {r} : pc'[q] = pc[q] /\ job'[q] = job[q]
    BY <1>1, <2>1, FinishFacts DEF Fail
  <2>3. BinJobs'
    BY <1>1, <2>2 DEF BinJobs
  <2> QED  BY <1>1, <1>2, <1>3, <2>2, <2>3 DEF ListInv
<1>8. CASE \E r \in Requests : Write(r)
  BY <1>1, <1>2, <1>8, WriteBins, WriteLists DEF ListInv
<1>9. CASE \E x \in Entries, w \in Warehouses :
             CreateEntry(x, w) \/ UpdateEntry(x, w) \/ DeleteEntry(x)
  <2>1. /\ UNCHANGED <<transfers, pc, job>>
        /\ \A e \in Packages : /\ entries'[e].isSent = entries[e].isSent
                               /\ entries'[e].isTransferable = entries[e].isTransferable
    BY <1>1, <1>9, EntryWrites
  <2>2. \A e \in Packages : ListedAs(e)'
    BY <1>1, <2>1, ListStays DEF Rows
  <2> QED  BY <1>1, <1>2, <1>4, <2>1, <2>2 DEF ListInv
<1> QED  BY <1>5, <1>6, <1>7, <1>8, <1>9 DEF Next, Starts

\* However calls overlap and whatever failed in between, a package is always on some
\* list, after any number of sends, reversals, receptions, undone receptions and bins:
\* none is lost between the two warehouses, as long as no bin is given to a row while
\* its reception is being undone.
THEOREM ListedUnlessUndone == Spec /\ []BinsApart => []AlwaysListed
<1>1. ListInv => AlwaysListed
  BY DEF ListInv
<1> QED  BY <1>1, ListStep, ListedInitially, PTL DEF Spec

(***************************************************************************)
(* The bins, when calls about one entry do not overlap: the rows that name a  *)
(* bin and the movements that are counted are written apart and say the same. *)
(***************************************************************************)
\* The entries a call in progress is about, and calls that share none.
Touched(r) ==
  IF pc[r] \in {"reverse", "receive", "undo", "bin"} THEN EntriesOf(job[r].rows) ELSE job[r].rows
EntriesApart == \A q, r \in Requests : q # r => Touched(q) \cap Touched(r) = {}

Arrived == {"RECEIVED", "BIN_LOCATION_ASSIGNED"}
In(b) == [bin |-> b, entered |-> TRUE]
Out(b) == [bin |-> b, entered |-> FALSE]

\* A row is of a package, and names a bin once it was given one.
RowOK(t) ==
  /\ transfers[t].entry \in Packages
  /\ transfers[t].bin = None <=> transfers[t].status # "BIN_LOCATION_ASSIGNED"
\* A package that arrived did so by one row, and is on no other list.
ArrivedOnce(e) ==
  \A t \in Rows : transfers[t].entry = e /\ transfers[t].status \in Arrived =>
    /\ ~entries[e].isSent /\ ~entries[e].isTransferable
    /\ \A u \in Rows : transfers[u].entry = e /\ transfers[u].status \in Arrived => u = t
Binned(e, b) == \E t \in Rows : transfers[t].entry = e /\ transfers[t].bin = b
NetOK(e) == \A b \in Bins : Net(e, b) = IF Binned(e, b) THEN 1 ELSE 0
\* The movements of series and items: into a bin, and out of it once unpacked.
Moved(e) ==
  \/ storage[e] = <<>>
  \/ e \in Existing /\ \E b \in AisleBins :
       storage[e] = IF entries[e].isSeriesUnpacked THEN <<In(b), Out(b)>> ELSE <<In(b)>>
Unpacked(e) ==
  e \in Existing =>
    /\ ~entries[e].isTransferable /\ (entries[e].isSeriesUnpacked => entries[e].isDeleted)
    /\ entries[e].unpackedFrom # None =>
         /\ entries[e].unpackedFrom \in Existing \cap Series
         /\ entries[entries[e].unpackedFrom].isSeriesUnpacked
Places ==
  /\ \A t \in Rows : RowOK(t)
  /\ \A e \in Packages : ArrivedOnce(e) /\ NetOK(e)
  /\ \A e \in Stock : Moved(e) /\ Unpacked(e)
\* What a call validated is still so when it writes.
Valid(label, rows) ==
  /\ label = "send" => \A e \in rows : e \in Packages /\ entries[e].isTransferable
  /\ label \in {"reverse", "receive"} => \A t \in rows : entries[transfers[t].entry].isSent
  /\ label = "receive" => \A t, u \in rows : transfers[t].entry = transfers[u].entry => t = u
  /\ label = "undo" => \A t \in rows : transfers[t].status = "RECEIVED"
  /\ label = "bin" => \A t \in rows : transfers[t].status \in Arrived
  /\ label \in {"assign", "unassign", "unpack"} =>
       \A e \in rows : e \in Stock /\ ~entries[e].isSeriesUnpacked
BinInv == Inv /\ Places /\ \A r \in Requests : Valid(pc[r], job[r].rows)

\* How often a movement was made.
Times(rows, move) == Cardinality({i \in DOMAIN rows : rows[i] = move})
LEMMA NetIs == \A e, b : Net(e, b) = Times(storage[e], In(b)) - Times(storage[e], Out(b))
BY DEF Net, Times, In, Out

LEMMA MoveKinds ==
  /\ \A b, c : In(b) # Out(c) /\ (In(b) = In(c) <=> b = c) /\ (Out(b) = Out(c) <=> b = c)
  /\ \A b \in Bins \cup AisleBins : In(b) \in Movement /\ Out(b) \in Movement
<1>1. \A b, c : In(b).entered # Out(c).entered /\ In(b).bin = b /\ Out(b).bin = b
  BY DEF In, Out
<1>2. \A b \in Bins \cup AisleBins : In(b) \in Movement /\ Out(b) \in Movement
  BY DEF In, Out, Movement
<1>3. \A b, c : (b = c => In(b) = In(c) /\ Out(b) = Out(c))
  OBVIOUS
<1> QED  BY <1>1, <1>2, <1>3

LEMMA TimesEmpty == \A move : Times(<<>>, move) = 0
<1>1. \A move : {i \in DOMAIN <<>> : <<>>[i] = move} = {}
  OBVIOUS
<1> QED  BY <1>1, FS_EmptySet DEF Times

LEMMA TimesAppend ==
  ASSUME NEW rows \in Seq(Movement), NEW last \in Movement, NEW move
  PROVE  /\ Times(rows, move) \in Nat
         /\ Times(Append(rows, last), move) = Times(rows, move) + (IF last = move THEN 1 ELSE 0)
<1> DEFINE n == Len(rows) + 1
           made(s) == {i \in DOMAIN s : s[i] = move}
           more == Append(rows, last)
<1>1. /\ Len(rows) \in Nat /\ DOMAIN rows = 1..Len(rows)
      /\ more \in Seq(Movement) /\ DOMAIN more = 1..n /\ more[n] = last
      /\ \A i \in 1..Len(rows) : more[i] = rows[i]
  <2>1. /\ more \in Seq(Movement) /\ Len(more) = n /\ more[n] = last
        /\ \A i \in 1..Len(rows) : more[i] = rows[i]
    BY AppendProperties
  <2>2. Len(rows) \in Nat /\ DOMAIN rows = 1..Len(rows)
    BY LenProperties
  <2> HIDE DEF more
  <2>3. DOMAIN more = 1..Len(more)
    BY <2>1, LenProperties
  <2> QED  BY <2>1, <2>2, <2>3
<1>2. 1..n = 1..Len(rows) \cup {n} /\ n \notin 1..Len(rows)
  BY <1>1
<1>3. IsFiniteSet(made(rows))
  <2>1. IsFiniteSet(1..Len(rows))
    BY <1>1, FS_Interval
  <2> QED  BY <1>1, <2>1, FS_Subset
<1> HIDE DEF n, more
<1>4. made(more) = IF last = move THEN made(rows) \cup {n} ELSE made(rows)
  BY <1>1, <1>2
<1>5. n \notin made(rows)
  BY <1>1, <1>2
<1>6. Cardinality(made(more)) = Cardinality(made(rows)) + (IF last = move THEN 1 ELSE 0)
      /\ Cardinality(made(rows)) \in Nat
  <2>1. PICK before, after : before = made(rows) /\ after = made(more)
    OBVIOUS
  <2>2. IsFiniteSet(before) /\ n \notin before /\ after = IF last = move THEN before \cup {n} ELSE before
    BY <1>3, <1>4, <1>5, <2>1
  <2>3. Cardinality(before \cup {n}) = Cardinality(before) + 1 /\ Cardinality(before) \in Nat
    BY <2>2, FS_AddElement, FS_CardinalityType
  <2>4. Cardinality(after) = Cardinality(before) + (IF last = move THEN 1 ELSE 0)
    BY <2>2, <2>3
  <2> QED  BY <2>1, <2>3, <2>4
<1> QED  BY <1>6 DEF Times, more

\* A package whose rows keep their bins keeps its movements, and one that no row brought
\* has none to say where it is.
LEMMA NetStays ==
  ASSUME Inv, NEW e \in Packages, NetOK(e), storage'[e] = storage[e], Rows \subseteq Rows',
         \A t \in Rows : transfers'[t].entry = transfers[t].entry /\ transfers'[t].bin = transfers[t].bin,
         \A t \in Rows' \ Rows : transfers'[t].bin = None
  PROVE  NetOK(e)'
<1>1. \A b \in Bins : Binned(e, b)' = Binned(e, b)
  BY ConstantsAssumption DEF Binned
<1>2. \A b \in Bins : Net(e, b)' = Net(e, b)
  BY DEF Net
<1> QED  BY <1>1, <1>2 DEF NetOK

LEMMA ArrivedStays ==
  ASSUME NEW e \in Packages, ArrivedOnce(e), Rows \subseteq Rows',
         entries'[e].isSent = entries[e].isSent, entries'[e].isTransferable = entries[e].isTransferable,
         \A t \in Rows : transfers'[t].entry = transfers[t].entry,
         \A t \in Rows : transfers[t].entry = e /\ transfers'[t].status \in Arrived => transfers[t].status \in Arrived,
         \A t \in Rows' \ Rows : transfers'[t].status = "SENT"
  PROVE  ArrivedOnce(e)'
BY DEF ArrivedOnce, Arrived

\* Series and items that a step leaves as they are.
LEMMA StockStays ==
  ASSUME Inv, NEW e \in Stock, Moved(e), Unpacked(e), storage'[e] = storage[e], Existing \subseteq Existing',
         \A x \in Existing \cap Stock :
           /\ entries'[x].isSeriesUnpacked = entries[x].isSeriesUnpacked
           /\ entries'[x].isTransferable = entries[x].isTransferable
           /\ entries'[x].unpackedFrom = entries[x].unpackedFrom
           /\ entries[x].isDeleted => entries'[x].isDeleted,
         e \notin Existing /\ e \in Existing' => \E w : entries'[e] = NewEntry(w)
  PROVE  Moved(e)' /\ Unpacked(e)'
<1>1. CASE e \in Existing
  <2>1. Moved(e)'
    BY <1>1 DEF Moved, Stock
  <2>2. Unpacked(e)'
    BY <1>1 DEF Unpacked, Stock
  <2> QED  BY <2>1, <2>2
<1>2. CASE e \notin Existing
  <2>1. storage'[e] = <<>>
    BY <1>2 DEF Moved
  <2>2. \A w : ~NewEntry(w).isTransferable /\ ~NewEntry(w).isSeriesUnpacked /\ NewEntry(w).unpackedFrom = None
    BY DEF NewEntry
  <2> QED  BY <1>2, <2>1, <2>2 DEF Moved, Unpacked
<1> QED  BY <1>1, <1>2

LEMMA StockApart == Packages \cap Stock = {} /\ Packages \subseteq Entries /\ Stock \subseteq Entries
BY ConstantsAssumption DEF Entries, Stock

\* A step that leaves series, items and their movements alone.
LEMMA StockUnchanged ==
  ASSUME Inv, Places, Existing' = Existing, \A e \in Stock : entries'[e] = entries[e] /\ storage'[e] = storage[e]
  PROVE  \A e \in Stock : Moved(e)' /\ Unpacked(e)'
BY StockStays DEF Places

(***************************************************************************)
(* What each write leaves in its place.                                    *)
(***************************************************************************)
LEMMA SendPlaces ==
  ASSUME BinInv, NEW r \in Requests, WriteSend(r)
  PROVE  Places'
<1> DEFINE es == job[r].rows
<1>1. /\ Inv' /\ Existing' = Existing /\ Rows \subseteq Rows' /\ UNCHANGED storage
      /\ \A e \in Entries \ es : entries'[e] = entries[e]
      /\ \A t \in Rows : transfers'[t] = transfers[t]
      /\ \A t \in Rows' \ Rows : /\ transfers'[t].entry \in es
                                 /\ transfers'[t].status = "SENT" /\ transfers'[t].bin = None
  BY SendWrites DEF BinInv
<1>2. \A e \in es : e \in Packages /\ entries[e].isTransferable
  BY DEF BinInv, Valid, WriteSend
<1> HIDE DEF es
<1>3. \A t \in Rows' : RowOK(t)'
  BY <1>1, <1>2 DEF BinInv, Places, RowOK
<1>4. ASSUME NEW e \in Packages  PROVE ArrivedOnce(e)' /\ NetOK(e)'
  <2>1. NetOK(e)'
    BY <1>1, NetStays DEF BinInv, Places
  <2>2. CASE e \in es
    <3>1. \A t \in Rows : transfers[t].entry = e => transfers[t].status \notin Arrived
      BY <1>2, <2>2 DEF BinInv, Places, ArrivedOnce
    <3>2. \A t \in Rows' : transfers'[t].entry = e => transfers'[t].status \notin Arrived
      BY <1>1, <3>1 DEF Arrived
    <3> QED  BY <2>1, <3>2 DEF ArrivedOnce
  <2>3. CASE e \notin es
    <3>1. entries'[e] = entries[e]
      BY <1>1, <2>3, StockApart
    <3> QED  BY <1>1, <2>1, <3>1, ArrivedStays DEF BinInv, Places
  <2> QED  BY <2>2, <2>3
<1>5. \A e \in Stock : entries'[e] = entries[e]
  BY <1>1, <1>2, StockApart
<1> QED  BY <1>1, <1>3, <1>4, <1>5, StockUnchanged DEF BinInv, Places

LEMMA RowsPlaces ==
  ASSUME BinInv, NEW r \in Requests, WriteReverse(r) \/ WriteReceive(r) \/ WriteUndo(r)
  PROVE  Places'
<1> DEFINE ids == job[r].rows
<1>1. /\ Inv' /\ Existing' = Existing /\ Rows' = Rows /\ ids \subseteq Rows /\ UNCHANGED storage
      /\ \A e \in Entries \ EntriesOf(ids) : entries'[e] = entries[e]
      /\ \A t \in Rows : /\ transfers'[t].entry = transfers[t].entry
                         /\ transfers'[t].bin = transfers[t].bin
                         /\ t \notin ids => transfers'[t].status = transfers[t].status
      /\ \A t \in ids :
           \/ pc[r] = "reverse" /\ transfers'[t].status = "UNDONE"
           \/ pc[r] = "undo" /\ transfers'[t].status = "SENT"
           \/ /\ pc[r] = "receive" /\ transfers'[t].status = "RECEIVED"
              /\ ~entries'[transfers[t].entry].isSent /\ ~entries'[transfers[t].entry].isTransferable
  BY RowsWrite DEF BinInv
<1>2. /\ pc[r] \in {"reverse", "receive"} => \A t \in ids : entries[transfers[t].entry].isSent
      /\ pc[r] = "receive" => \A t, u \in ids : transfers[t].entry = transfers[u].entry => t = u
      /\ pc[r] = "undo" => \A t \in ids : transfers[t].status = "RECEIVED"
      /\ pc[r] \in {"reverse", "receive", "undo"}
  BY DEF BinInv, Valid, WriteReverse, WriteReceive, WriteUndo
<1>3. \A t \in Rows : transfers[t].entry \in Packages
  BY DEF BinInv, Places, RowOK
<1> HIDE DEF ids
\* Nothing that a call changes is in a bin, and what it changes had not arrived by another row.
<1>4. ASSUME NEW t \in ids, NEW u \in Rows, transfers[u].entry = transfers[t].entry,
             transfers[u].status \in Arrived
      PROVE  pc[r] = "undo" /\ u = t
  <2>1. ArrivedOnce(transfers[t].entry) /\ t \in Rows
    BY <1>1, <1>3 DEF BinInv, Places
  <2>2. pc[r] = "undo"
    BY <1>2, <1>4, <2>1 DEF ArrivedOnce
  <2>3. transfers[t].status \in Arrived
    BY <1>2, <2>2 DEF Arrived
  <2> QED  BY <1>4, <2>1, <2>2, <2>3 DEF ArrivedOnce
<1>5. \A t \in ids : transfers[t].status # "BIN_LOCATION_ASSIGNED"
  BY <1>1, <1>2, <1>4 DEF Arrived
<1>6. \A t \in Rows : RowOK(t)'
  BY <1>1, <1>5 DEF BinInv, Places, RowOK
<1>7. ASSUME NEW e \in Packages  PROVE ArrivedOnce(e)' /\ NetOK(e)'
  <2>1. NetOK(e)'
    BY <1>1, NetStays DEF BinInv, Places
  <2>2. CASE e \in EntriesOf(ids)
    <3>1. PICK t \in ids : transfers[t].entry = e
      BY <2>2 DEF EntriesOf
    <3>2. \A u \in Rows \ ids : transfers[u].entry = e => transfers'[u].status \notin Arrived
      BY <1>1, <1>4, <3>1
    <3>3. CASE pc[r] # "receive"
      <4>1. \A u \in ids : transfers'[u].status \notin Arrived
        BY <1>1, <3>3 DEF Arrived
      <4>2. \A u \in Rows : transfers'[u].entry = e => transfers'[u].status \notin Arrived
        BY <1>1, <3>2, <4>1
      <4> QED  BY <1>1, <2>1, <4>2 DEF ArrivedOnce
    <3>4. CASE pc[r] = "receive"
      <4>1. \A u \in ids : transfers[u].entry = e => u = t
        BY <1>2, <3>1, <3>4
      <4>2. \A u \in Rows : transfers'[u].entry = e /\ transfers'[u].status \in Arrived => u = t
        BY <1>1, <3>2, <4>1
      <4>3. ~entries'[e].isSent /\ ~entries'[e].isTransferable
        BY <1>1, <3>1, <3>4
      <4> QED  BY <1>1, <2>1, <4>2, <4>3 DEF ArrivedOnce
    <3> QED  BY <3>3, <3>4
  <2>3. CASE e \notin EntriesOf(ids)
    <3>1. entries'[e] = entries[e] /\ \A u \in ids : transfers[u].entry # e
      BY <1>1, <2>3, StockApart DEF EntriesOf
    <3> QED  BY <1>1, <2>1, <3>1, ArrivedStays DEF BinInv, Places
  <2> QED  BY <2>2, <2>3
<1>8. \A e \in Stock : entries'[e] = entries[e]
  BY <1>1, <1>3, StockApart DEF EntriesOf
<1> QED  BY <1>1, <1>6, <1>7, <1>8, StockUnchanged DEF BinInv, Places

LEMMA BinPlaces ==
  ASSUME BinInv, NEW r \in Requests, WriteBin(r)
  PROVE  Places'
<1>0. PICK b0 : b0 = job[r].bin
  OBVIOUS
<1>1. PICK t \in job[r].rows :
        /\ storage' = [storage EXCEPT ![transfers[t].entry] = @ \o Leaves(t, b0) \o Enters(t, b0)]
        /\ transfers' = [transfers EXCEPT ![t].bin = b0, ![t].status = "BIN_LOCATION_ASSIGNED"]
  BY <1>0 DEF WriteBin
<1>2. PICK e0, old : e0 = transfers[t].entry /\ old = transfers[t].bin
  OBVIOUS
<1>3. /\ Inv /\ t \in Rows /\ b0 \in Bins /\ transfers[t].status \in Arrived /\ UNCHANGED entries
      /\ transfers \in Seq(Transfer) /\ transfers[t] \in Transfer /\ storage \in [Entries -> Seq(Movement)]
  BY <1>0, <1>1, RowFacts DEF BinInv, WriteBin, Inv, TypeOK, Valid
<1>4. PICK row : row = [transfers[t] EXCEPT !.bin = b0, !.status = "BIN_LOCATION_ASSIGNED"]
  OBVIOUS
<1>5. row.entry = e0 /\ row.bin = b0 /\ row.status = "BIN_LOCATION_ASSIGNED"
  BY <1>2, <1>3, <1>4 DEF Transfer
<1>6. Rows' = Rows /\ transfers'[t] = row /\ \A u \in Rows \ {t} : transfers'[u] = transfers[u]
  <2>1. transfers' = [transfers EXCEPT ![t] = row]
    BY <1>1, <1>4
  <2> QED  BY <1>3, <2>1 DEF Rows
<1>7. e0 \in Packages /\ e0 \in Entries /\ old \in Bins \cup {None}
      /\ (old = None <=> transfers[t].status # "BIN_LOCATION_ASSIGNED")
  BY <1>2, <1>3, StockApart DEF BinInv, Places, RowOK, Transfer
\* The row that is given a bin is the only one of its package that ever arrived.
<1>8. \A u \in Rows : transfers[u].entry = e0 /\ transfers[u].status \in Arrived => u = t
  BY <1>2, <1>3, <1>7 DEF BinInv, Places, ArrivedOnce
<1>9. \A u \in Rows' : RowOK(u)'
  BY <1>3, <1>5, <1>6, <1>7, ConstantsAssumption DEF BinInv, Places, RowOK
<1>10. \A e \in Entries \ {e0} : storage'[e] = storage[e]
  BY <1>1, <1>2, <1>3
<1>11. ASSUME NEW e \in Packages \ {e0}  PROVE ArrivedOnce(e)' /\ NetOK(e)'
  <2>0. \A u \in Rows : transfers'[u].entry = e => transfers'[u] = transfers[u]
    BY <1>5, <1>6
  <2>1. ArrivedOnce(e)'
    BY <1>3, <1>6, <2>0 DEF BinInv, Places, ArrivedOnce
  <2>2. \A b \in Bins : Binned(e, b)' = Binned(e, b)
    BY <1>2, <1>5, <1>6 DEF Binned
  <2>3. \A b \in Bins : Net(e, b)' = Net(e, b)
    BY <1>10, StockApart DEF Net
  <2> QED  BY <2>1, <2>2, <2>3 DEF BinInv, Places, NetOK
<1>12. ArrivedOnce(e0)'
  BY <1>2, <1>3, <1>5, <1>6, <1>7, <1>8 DEF BinInv, Places, ArrivedOnce
<1>13. ASSUME NEW b \in Bins  PROVE Net(e0, b)' = IF Binned(e0, b)' THEN 1 ELSE 0
  <2>1. Binned(e0, b) <=> old = b
    <3>1. \A u \in Rows : transfers[u].entry = e0 /\ transfers[u].bin # None => u = t
      BY <1>8 DEF BinInv, Places, RowOK, Arrived
    <3> QED  BY <1>2, <1>3, <3>1, ConstantsAssumption DEF Binned
  <2>2. Binned(e0, b)' <=> b0 = b
    <3>1. \A u \in Rows : transfers'[u].entry = e0 /\ transfers'[u].bin # None => u = t
      BY <1>6, <1>8 DEF BinInv, Places, RowOK, Arrived
    <3> QED  BY <1>3, <1>5, <1>6, <3>1, ConstantsAssumption DEF Binned
  <2>3. PICK rows \in Seq(Movement) : rows = storage[e0]
    BY <1>3, <1>7
  <2>4. /\ Times(rows, In(b)) - Times(rows, Out(b)) = IF old = b THEN 1 ELSE 0
        /\ Times(rows, In(b)) \in Nat /\ Times(rows, Out(b)) \in Nat
    <3>1. Net(e0, b) = IF Binned(e0, b) THEN 1 ELSE 0
      BY <1>7 DEF BinInv, Places, NetOK
    <3>2. Net(e0, b) = Times(rows, In(b)) - Times(rows, Out(b))
      BY <2>3, NetIs
    <3>3. In(b) \in Movement
      BY MoveKinds
    <3> QED  BY <2>1, <3>1, <3>2, <3>3, TimesAppend
  <2>5. Net(e0, b)' = Times(storage'[e0], In(b)) - Times(storage'[e0], Out(b))
    BY DEF Net, Times, In, Out
  <2>6. storage'[e0] = rows \o Leaves(t, b0) \o Enters(t, b0)
    BY <1>1, <1>2, <1>3, <1>7, <2>3
  <2>7. Times(storage'[e0], In(b)) - Times(storage'[e0], Out(b)) = IF b0 = b THEN 1 ELSE 0
    <3>1. CASE old = b0
      <4>1. Leaves(t, b0) = <<>> /\ Enters(t, b0) = <<>>
        BY <1>2, <1>3, <1>7, <3>1, ConstantsAssumption DEF Leaves, Enters
      <4>2. storage'[e0] = rows
        BY <2>6, <4>1, ConcatEmptySeq
      <4> QED  BY <2>4, <3>1, <4>2
    <3>2. CASE old = None
      <4>1. Leaves(t, b0) = <<>> /\ Enters(t, b0) = <<In(b0)>>
        BY <1>2, <1>3, <1>7, <3>2 DEF Leaves, Enters, In
      <4>2. storage'[e0] = Append(rows, In(b0))
        BY <1>3, <2>6, <4>1, ConcatEmptySeq, AppendIsConcat, MoveKinds
      <4>3. Times(storage'[e0], In(b)) = Times(rows, In(b)) + (IF b0 = b THEN 1 ELSE 0)
            /\ Times(storage'[e0], Out(b)) = Times(rows, Out(b))
        BY <1>3, <2>4, <4>2, TimesAppend, MoveKinds
      <4>4. old # b
        BY <3>2, ConstantsAssumption
      <4> QED  BY <2>4, <4>3, <4>4
    <3>3. CASE old \notin {None, b0}
      <4>1. Leaves(t, b0) = <<Out(old)>> /\ Enters(t, b0) = <<In(b0)>>
        BY <1>2, <3>3 DEF Leaves, Enters, In, Out
      <4>2. In(b0) \in Movement /\ Out(old) \in Movement
        BY <1>3, <1>7, <3>3, MoveKinds
      <4>3. PICK left : left = Append(rows, Out(old))
        OBVIOUS
      <4>4. left \in Seq(Movement)
        BY <4>2, <4>3, AppendProperties
      <4>5. storage'[e0] = Append(left, In(b0))
        BY <2>6, <4>1, <4>2, <4>3, <4>4, AppendIsConcat
      <4>6. Times(left, In(b)) = Times(rows, In(b))
            /\ Times(left, Out(b)) = Times(rows, Out(b)) + (IF old = b THEN 1 ELSE 0)
        BY <2>4, <4>2, <4>3, TimesAppend, MoveKinds
      <4>7. Times(storage'[e0], In(b)) = Times(left, In(b)) + (IF b0 = b THEN 1 ELSE 0)
            /\ Times(storage'[e0], Out(b)) = Times(left, Out(b))
        BY <2>4, <4>2, <4>4, <4>5, <4>6, TimesAppend, MoveKinds
      <4> QED  BY <2>4, <4>6, <4>7
    <3> QED  BY <3>1, <3>2, <3>3
  <2> QED  BY <2>2, <2>5, <2>7
<1>14. Existing' = Existing /\ \A e \in Stock : entries'[e] = entries[e] /\ storage'[e] = storage[e]
  BY <1>3, <1>7, <1>10, StockApart DEF Existing
<1> QED  BY <1>3, <1>9, <1>11, <1>12, <1>13, <1>14, StockUnchanged DEF BinInv, Places, NetOK

\* Packages that no step of the aisles touches.
LEMMA PackagesStay ==
  ASSUME Inv, Places, UNCHANGED transfers,
         \A e \in Packages : /\ storage'[e] = storage[e] /\ entries'[e].isSent = entries[e].isSent
                             /\ entries'[e].isTransferable = entries[e].isTransferable
  PROVE  (\A t \in Rows' : RowOK(t)') /\ \A e \in Packages : ArrivedOnce(e)' /\ NetOK(e)'
<1>1. Rows' = Rows
  BY DEF Rows
<1>2. \A t \in Rows' : RowOK(t)'
  BY <1>1 DEF Places, RowOK
<1> QED  BY <1>1, <1>2, NetStays, ArrivedStays DEF Places

\* One movement, into a bin.
Overwritten(rows, b) ==
  [i \in DOMAIN rows |-> IF i \in Newest(rows) THEN [rows[i] EXCEPT !.bin = b] ELSE rows[i]]
LEMMA OneMovement ==
  ASSUME NEW b
  PROVE  /\ Newest(<<In(b)>>) = {1} /\ RemoveAt(<<In(b)>>, 1) = <<>>
         /\ \A c : Overwritten(<<In(b)>>, c) = <<In(c)>>
<1>1. DOMAIN <<In(b)>> = {1} /\ <<In(b)>>[1] = In(b) /\ In(b).entered /\ Len(<<In(b)>>) = 1
  BY DEF In
<1>2. Newest(<<In(b)>>) = {1}
  BY <1>1 DEF Newest
<1>3. RemoveAt(<<In(b)>>, 1) = <<>>
  BY DEF RemoveAt
<1>4. ASSUME NEW c  PROVE Overwritten(<<In(b)>>, c) = <<In(c)>>
  <2>1. [In(b) EXCEPT !.bin = c] = In(c)
    <3>1. PICK move : move = [In(b) EXCEPT !.bin = c]
      OBVIOUS
    <3>2. move \in [bin : {b, c}, entered : BOOLEAN] /\ move.bin = c /\ move.entered = TRUE
      BY <3>1 DEF In
    <3>3. move = [bin |-> c, entered |-> TRUE]
      BY <3>2
    <3> QED  BY <3>1, <3>3 DEF In
  <2> QED  BY <1>1, <1>2, <2>1 DEF Overwritten
<1> QED  BY <1>2, <1>3, <1>4

LEMMA NoMovement == Newest(<<>>) = {} /\ \A move : Append(<<>>, move) = <<move>>
BY DEF Newest

LEMMA AislePlaces ==
  ASSUME BinInv, NEW r \in Requests, WriteAssign(r) \/ WriteUnassign(r)
  PROVE  Places'
<1>1. Inv /\ UNCHANGED <<entries, transfers>> /\ Existing' = Existing /\ storage \in [Entries -> Seq(Movement)]
  BY DEF WriteAssign, WriteUnassign, Existing, BinInv, Inv, TypeOK
<1>2. \A e \in job[r].rows : e \in Stock /\ e \in Existing /\ ~entries[e].isSeriesUnpacked
  BY DEF WriteAssign, WriteUnassign, BinInv, Valid, Inv, TypeOK
\* Such an entry was never moved, or only into a bin.
<1>3. \A e \in job[r].rows : storage[e] = <<>> \/ \E b \in AisleBins : storage[e] = <<In(b)>>
  BY <1>2 DEF BinInv, Places, Moved
<1>4. CASE WriteAssign(r)
  <2>0. PICK c : c = job[r].bin
    OBVIOUS
  <2>1. PICK x \in job[r].rows :
          storage' = [storage EXCEPT ![x] =
               IF Newest(@) = {} THEN Append(@, [bin |-> c, entered |-> TRUE])
               ELSE [i \in DOMAIN @ |-> IF i \in Newest(@) THEN [@[i] EXCEPT !.bin = c] ELSE @[i]]]
    BY <1>4, <2>0 DEF WriteAssign
  <2>2. x \in Stock /\ x \in Entries /\ c \in AisleBins
    BY <1>2, <1>4, <2>0, <2>1, StockApart DEF WriteAssign, BinInv, Inv, TypeOK
  <2>3. PICK rows : rows = storage[x]
    OBVIOUS
  <2>4. storage'[x] = IF Newest(rows) = {} THEN Append(rows, In(c)) ELSE Overwritten(rows, c)
    BY <1>1, <2>1, <2>2, <2>3 DEF In, Overwritten
  <2>5. storage'[x] = <<In(c)>>
    <3>1. CASE rows = <<>>
      BY <2>4, <3>1, NoMovement
    <3>2. ASSUME NEW b \in AisleBins, rows = <<In(b)>>  PROVE storage'[x] = <<In(c)>>
      <4>1. Newest(rows) # {}
        BY <3>2, OneMovement
      <4> QED  BY <2>4, <3>2, <4>1, OneMovement
    <3> QED  BY <1>3, <2>1, <2>3, <3>1, <3>2
  <2>6. \A e \in Entries \ {x} : storage'[e] = storage[e]
    BY <1>1, <2>1
  <2>7. Moved(x)' /\ Unpacked(x)'
    <3>1. Moved(x)'
      BY <1>1, <1>2, <2>1, <2>2, <2>5 DEF Moved, In
    <3>2. Unpacked(x)'
      BY <1>1, <2>2 DEF BinInv, Places, Unpacked
    <3> QED  BY <3>1, <3>2
  <2>8. \A e \in Stock \ {x} : Moved(e)' /\ Unpacked(e)'
    BY <1>1, <2>6, StockStays, StockApart DEF BinInv, Places
  <2>9. \A e \in Packages : storage'[e] = storage[e]
    BY <2>2, <2>6, StockApart
  <2> QED  BY <1>1, <2>7, <2>8, <2>9, PackagesStay DEF BinInv, Places
<1>5. CASE WriteUnassign(r)
  <2>1. \A e \in Entries : e \notin job[r].rows => storage'[e] = storage[e]
    BY <1>5 DEF WriteUnassign
  <2>2. ASSUME NEW e \in job[r].rows  PROVE storage'[e] = <<>>
    <3>1. PICK rows : rows = storage[e]
      OBVIOUS
    <3>2. storage'[e] = IF Newest(rows) # {} THEN RemoveAt(rows, CHOOSE i \in Newest(rows) : TRUE) ELSE rows
      BY <1>2, <1>5, <3>1, StockApart DEF WriteUnassign
    <3>3. CASE rows = <<>>
      BY <3>2, <3>3, NoMovement
    <3>4. ASSUME NEW b \in AisleBins, rows = <<In(b)>>  PROVE storage'[e] = <<>>
      <4>1. Newest(rows) = {1} /\ RemoveAt(rows, 1) = <<>>
        BY <3>4, OneMovement
      <4>2. (CHOOSE i \in Newest(rows) : TRUE) = 1
        BY <4>1
      <4> QED  BY <3>2, <4>1, <4>2
    <3> QED  BY <1>3, <3>1, <3>3, <3>4
  <2>3. ASSUME NEW e \in Stock  PROVE Moved(e)' /\ Unpacked(e)'
    <3>1. CASE e \in job[r].rows
      <4>1. Moved(e)'
        BY <2>2, <3>1 DEF Moved
      <4>2. Unpacked(e)'
        BY <1>1 DEF BinInv, Places, Unpacked
      <4> QED  BY <4>1, <4>2
    <3>2. CASE e \notin job[r].rows
      BY <1>1, <2>1, <3>2, StockStays, StockApart DEF BinInv, Places
    <3> QED  BY <3>1, <3>2
  <2>4. \A e \in Packages : storage'[e] = storage[e]
    BY <1>2, <2>1, StockApart
  <2> QED  BY <1>1, <2>3, <2>4, PackagesStay DEF BinInv, Places
<1> QED  BY <1>4, <1>5

LEMMA AppendTwo == \A x, y : Append(<<x>>, y) = <<x, y>>
<1> TAKE x, y
<1>1. <<x>> \in Seq({x, y}) /\ Len(<<x>>) = 1 /\ <<x>>[1] = x
  OBVIOUS
<1>2. PICK both : both = Append(<<x>>, y)
  OBVIOUS
<1>3. both \in Seq({x, y}) /\ Len(both) = 2 /\ both[1] = x /\ both[2] = y
  BY <1>1, <1>2, AppendProperties
<1>4. both = <<x, y>>
  BY <1>3
<1> QED  BY <1>2, <1>4

\* What leaves the aisle when a series is unpacked: nothing, or what was in its bin.
LEMMA Leaving ==
  /\ LeavesAisle(<<>>) = {<<>>}
  /\ \A b : LeavesAisle(<<In(b)>>) = {<<In(b), Out(b)>>}
<1>1. LeavesAisle(<<>>) = {<<>>}
  BY DEF LeavesAisle
<1>2. ASSUME NEW b  PROVE LeavesAisle(<<In(b)>>) = {<<In(b), Out(b)>>}
  <2>1. PICK rows : rows = <<In(b)>>
    OBVIOUS
  <2>2. DOMAIN rows = {1} /\ rows[1].entered /\ rows[1].bin = b
    BY <2>1 DEF In
  <2>3. {rows[i].bin : i \in {k \in DOMAIN rows : rows[k].entered}} = {b}
    BY <2>2
  <2>4. LeavesAisle(rows) = {Append(rows, Out(b))}
    BY <2>3 DEF LeavesAisle, Out
  <2>5. Append(rows, Out(b)) = <<In(b), Out(b)>>
    BY <2>1, AppendTwo
  <2> QED  BY <2>1, <2>4, <2>5
<1> QED  BY <1>1, <1>2

LEMMA UnpackPlaces ==
  ASSUME BinInv, NEW r \in Requests, WriteUnpack(r)
  PROVE  Places'
<1>1. PICK s \in job[r].rows, new \in SUBSET (Items \ Existing) :
        /\ \E left \in LeavesAisle(storage[s]) :
             storage' = [e \in Entries |->
               IF e \in new THEN <<[bin |-> job[r].bin, entered |-> TRUE]>>
               ELSE IF e = s THEN left ELSE storage[e]]
        /\ entries' = [e \in Entries |->
             IF e \in new THEN [NewEntry(1) EXCEPT !.unpackedFrom = s]
             ELSE IF e = s THEN [entries[e] EXCEPT !.isSeriesUnpacked = TRUE, !.isDeleted = TRUE]
             ELSE entries[e]]
  BY DEF WriteUnpack
<1>2. PICK left \in LeavesAisle(storage[s]) :
        storage' = [e \in Entries |->
          IF e \in new THEN <<[bin |-> job[r].bin, entered |-> TRUE]>>
          ELSE IF e = s THEN left ELSE storage[e]]
  BY <1>1
<1>3. /\ Inv /\ Inv' /\ UNCHANGED transfers /\ s \in Existing /\ s \in Series /\ s \in Stock
      /\ ~entries[s].isSeriesUnpacked /\ job[r].bin \in AisleBins
  BY UnpackWrites DEF BinInv, WriteUnpack, Valid, Inv, TypeOK, JobsOK, JobOK
<1>4. new \subseteq Items /\ new \cap Existing = {} /\ s \notin new /\ s \in Entries /\ new \subseteq Entries
  BY <1>3 DEF Entries
<1>5. /\ storage'[s] = left /\ \A e \in new : storage'[e] = <<In(job[r].bin)>>
      /\ \A e \in Entries \ (new \cup {s}) : storage'[e] = storage[e] /\ entries'[e] = entries[e]
  BY <1>1, <1>2, <1>4 DEF In
<1>6. /\ entries[s] \in Entry /\ entries'[s].isSeriesUnpacked /\ entries'[s].isDeleted
      /\ entries'[s].isTransferable = entries[s].isTransferable
      /\ entries'[s].unpackedFrom = entries[s].unpackedFrom
  <2>1. entries[s] \in Entry
    BY <1>3, RowFacts
  <2>2. entries'[s] = [entries[s] EXCEPT !.isSeriesUnpacked = TRUE, !.isDeleted = TRUE]
    BY <1>1, <1>4
  <2> QED  BY <2>1, <2>2 DEF Entry
<1>7. \A e \in new : /\ ~entries'[e].isSeriesUnpacked /\ ~entries'[e].isTransferable
                     /\ entries'[e].unpackedFrom = s /\ entries'[e] \in Entry
  <2>1. \A e \in new : entries'[e] = [NewEntry(1) EXCEPT !.unpackedFrom = s]
    BY <1>1, <1>4
  <2>2. NewEntry(1) \in Entry /\ ~NewEntry(1).isSeriesUnpacked /\ ~NewEntry(1).isTransferable
    BY DEF NewEntry, Entry, Warehouses
  <2> QED  BY <1>3, <2>1, <2>2 DEF Entry
<1>8. Existing' = Existing \cup new
  <2>1. entries'[s] # None /\ \A e \in new : entries'[e] # None
    <3>1. entries'[s] \in Entry
      <4>1. entries'[s] = [entries[s] EXCEPT !.isSeriesUnpacked = TRUE, !.isDeleted = TRUE]
        BY <1>1, <1>4
      <4> QED  BY <1>6, <4>1 DEF Entry
    <3> QED  BY <1>7, <3>1, NoneAssumption
  <2> QED  BY <1>3, <1>4, <1>5, <2>1 DEF Existing
<1>9. Moved(s)' /\ Unpacked(s)'
  <2>1. storage[s] = <<>> \/ \E b \in AisleBins : storage[s] = <<In(b)>>
    BY <1>3 DEF BinInv, Places, Moved
  <2>2. left = <<>> \/ \E b \in AisleBins : left = <<In(b), Out(b)>>
    BY <2>1, Leaving
  <2>3. Moved(s)'
    BY <1>3, <1>5, <1>6, <1>8, <2>2 DEF Moved, In, Out
  <2>4. Unpacked(s)
    BY <1>3 DEF BinInv, Places
  <2>5. entries[s].unpackedFrom # None =>
          /\ entries[s].unpackedFrom \in Existing \cap Series
          /\ entries'[entries[s].unpackedFrom].isSeriesUnpacked
    <3>1. CASE entries[s].unpackedFrom = s
      BY <1>3, <1>6, <3>1
    <3>2. CASE entries[s].unpackedFrom # s
      BY <1>3, <1>4, <1>5, <2>4, <3>2 DEF Unpacked, Existing
    <3> QED  BY <3>1, <3>2
  <2>6. Unpacked(s)'
    BY <1>3, <1>6, <1>8, <2>4, <2>5 DEF Unpacked
  <2> QED  BY <2>3, <2>6
<1>10. ASSUME NEW e \in new  PROVE Moved(e)' /\ Unpacked(e)'
  <2>1. e \in Existing' /\ s \in Existing'
    BY <1>3, <1>8
  <2>2. Moved(e)'
    BY <1>3, <1>5, <1>7, <2>1 DEF Moved, In
  <2>3. Unpacked(e)'
    BY <1>3, <1>6, <1>7, <2>1 DEF Unpacked
  <2> QED  BY <2>2, <2>3
<1>11. ASSUME NEW e \in Stock, e \notin new \cup {s}  PROVE Moved(e)' /\ Unpacked(e)'
  <2>1. entries'[e] = entries[e] /\ storage'[e] = storage[e] /\ Moved(e) /\ Unpacked(e)
    BY <1>5, <1>11, StockApart DEF BinInv, Places
  <2>2. e \in Existing' <=> e \in Existing
    BY <1>8, <1>11
  <2>3. \A x \in Existing : x \notin new /\ (x # s => entries'[x] = entries[x])
    BY <1>4, <1>5 DEF Existing
  <2>4. Moved(e)'
    BY <2>1, <2>2 DEF Moved
  <2>5. Unpacked(e)'
    BY <1>6, <1>8, <2>1, <2>2, <2>3 DEF Unpacked
  <2> QED  BY <2>4, <2>5
<1>12. \A e \in Packages : storage'[e] = storage[e] /\ entries'[e] = entries[e]
  BY <1>3, <1>4, <1>5, StockApart DEF Stock
<1> QED  BY <1>3, <1>9, <1>10, <1>11, <1>12, PackagesStay DEF BinInv, Places

\* Entries written in one step, while a call may be between its check and its write.
LEMMA EntryPlaces ==
  ASSUME BinInv, NEW x \in Entries, NEW w \in Warehouses,
         CreateEntry(x, w) \/ UpdateEntry(x, w) \/ DeleteEntry(x)
  PROVE  BinInv'
<1>1. /\ Inv /\ Inv' /\ UNCHANGED <<transfers, storage, pc, job>> /\ Existing \subseteq Existing'
      /\ \A e \in Packages : /\ entries'[e].isSent = entries[e].isSent
                             /\ entries'[e].isTransferable = entries[e].isTransferable
  BY EntryWrites DEF BinInv, CreateEntry, UpdateEntry, DeleteEntry
<1>2. \A e \in Entries \ {x} : entries'[e] = entries[e]
  BY <1>1 DEF CreateEntry, UpdateEntry, DeleteEntry, Inv, TypeOK
<1>3. CASE x \in Existing
  <2>1. PICK was : was = entries[x] /\ was \in Entry
    BY <1>1, <1>3, RowFacts
  <2>2. entries'[x] = [was EXCEPT !.warehouse = w] \/ entries'[x] = [was EXCEPT !.isDeleted = TRUE]
    BY <1>1, <1>3, <2>1 DEF CreateEntry, UpdateEntry, DeleteEntry, Inv, TypeOK
  <2>3. /\ entries'[x].isSeriesUnpacked = was.isSeriesUnpacked
        /\ entries'[x].isTransferable = was.isTransferable
        /\ entries'[x].unpackedFrom = was.unpackedFrom
        /\ was.isDeleted => entries'[x].isDeleted
    BY <2>1, <2>2 DEF Entry
  <2>4. \A e \in Existing :
          /\ entries'[e].isSeriesUnpacked = entries[e].isSeriesUnpacked
          /\ entries'[e].isTransferable = entries[e].isTransferable
          /\ entries'[e].unpackedFrom = entries[e].unpackedFrom
          /\ entries[e].isDeleted => entries'[e].isDeleted
    BY <1>2, <2>1, <2>3 DEF Existing
  <2>5. \A e \in Entries \ Existing : e \notin Existing'
    BY <1>2, <1>3 DEF Existing
  <2>6. \A e \in Stock : Moved(e)' /\ Unpacked(e)'
    BY <1>1, <2>4, <2>5, StockStays, StockApart DEF BinInv, Places
  <2>7. \A r \in Requests : Valid(pc[r], job[r].rows)'
    BY <1>1, <2>4 DEF BinInv, Valid, Places, RowOK, Inv, TypeOK
  <2> QED  BY <1>1, <2>6, <2>7, PackagesStay DEF BinInv, Places
<1>4. CASE x \notin Existing
  <2>1. x \in Stock /\ entries'[x] = NewEntry(w)
    BY <1>1, <1>4 DEF CreateEntry, UpdateEntry, DeleteEntry, Present, Inv, TypeOK
  <2>2. \A e \in Existing : entries'[e] = entries[e]
    BY <1>2, <1>4 DEF Existing
  <2>3. \A e \in Stock : e \notin Existing /\ e \in Existing' => e = x
    BY <1>2, StockApart DEF Existing
  <2>4. \A e \in Stock : Moved(e)' /\ Unpacked(e)'
    BY <1>1, <2>1, <2>2, <2>3, StockStays DEF BinInv, Places
  <2>5. \A r \in Requests : Valid(pc[r], job[r].rows)'
    BY <1>1, <2>2 DEF BinInv, Valid, Places, RowOK, Inv, TypeOK
  <2> QED  BY <1>1, <2>4, <2>5, PackagesStay DEF BinInv, Places
<1> QED  BY <1>3, <1>4

\* What a call starts with holds of what it read.
LEMMA StartValid ==
  ASSUME BinInv, NEW r \in Requests, Starts(r)
  PROVE  Valid(pc[r], job[r].rows)'
<1>1. Inv /\ UNCHANGED <<entries, transfers, storage>>
  BY AnyStart DEF BinInv
<1> DEFINE fits(label, j) == Start(r, label, j) /\ Valid(label, j.rows)
<1>2. \E label \in {"send", "reverse", "receive", "undo", "bin", "assign", "unassign", "unpack"} :
        \E j : fits(label, j)
  <2>1. \A rows, at : Job(rows, at).rows = rows
    BY DEF Job, NoJob
  <2>2. ASSUME NEW es \in Batches(Existing), NEW w \in Warehouses, SendTransferableEntries(r, es, w)
        PROVE  \E j : Start(r, "send", j) /\ Valid("send", j.rows)
    <3>1. PICK j : j = [Job(es, w) EXCEPT !.listed = [e \in es |-> Listed(e)]]
      OBVIOUS
    <3>2. j.rows = es
      BY <3>1 DEF Job, NoJob
    <3>3. \A e \in es : e \in Packages /\ entries[e].isTransferable
      BY <2>2 DEF SendTransferableEntries, CanSend, Batches, BinInv, Places, Unpacked, Existing, Entries, Stock
    <3> QED  BY <2>2, <3>1, <3>2, <3>3 DEF SendTransferableEntries, Valid
  <2>3. ASSUME NEW w \in Warehouses, NEW ids \in Batches(Rows), ReverseSentEntries(r, w, ids)
        PROVE  \E j : Start(r, "reverse", j) /\ Valid("reverse", j.rows)
    BY <2>1, <2>3 DEF ReverseSentEntries, Reversible, Valid
  <2>4. ASSUME NEW w \in Warehouses, NEW ids \in Batches(Rows), ReceiveTransfers(r, w, ids)
        PROVE  \E j : Start(r, "receive", j) /\ Valid("receive", j.rows)
    BY <2>1, <2>4 DEF ReceiveTransfers, Pending, Valid
  <2>5. ASSUME NEW w \in Warehouses, NEW ids \in Batches(Rows), UndoReceivedEntries(r, w, ids)
        PROVE  \E j : Start(r, "undo", j) /\ Valid("undo", j.rows)
    BY <2>1, <2>5 DEF UndoReceivedEntries, Undoable, Valid
  <2>6. ASSUME NEW t \in Rows, NEW b \in Bins, UpdateBinLocation(r, t, b)
        PROVE  \E j : Start(r, "bin", j) /\ Valid("bin", j.rows)
    <3>1. PICK j : j = [Job({t}, 2) EXCEPT !.bin = b]
      OBVIOUS
    <3>2. j.rows = {t}
      BY <3>1 DEF Job, NoJob
    <3> QED  BY <2>6, <3>1, <3>2 DEF UpdateBinLocation, Valid, Arrived
  <2>7. ASSUME NEW e \in Stock, \/ UnassignEntryFromBin(r, e) \/ \E b \in AisleBins : AssignEntryToBin(r, e, b)
                                \/ \E n \in 1..Cardinality(Items), b \in AisleBins : UnpackSeriesAtW1(r, e, n, b)
        PROVE  \E label \in {"assign", "unassign", "unpack"} : \E j : fits(label, j)
    <3>1. ~entries[e].isSeriesUnpacked
      BY <2>7 DEF UnassignEntryFromBin, AssignEntryToBin, UnpackSeriesAtW1, Present, BinInv, Places, Unpacked
    <3>2. \A label \in {"assign", "unassign", "unpack"} : Valid(label, {e})
      BY <3>1 DEF Valid
    <3>3. \A at, b, n : /\ Job({e}, at).rows = {e} /\ [Job({e}, at) EXCEPT !.bin = b].rows = {e}
                        /\ [Job({e}, at) EXCEPT !.bin = b, !.quantity = n].rows = {e}
      BY DEF Job, NoJob
    <3>4. CASE UnassignEntryFromBin(r, e)
      BY <3>2, <3>3, <3>4 DEF UnassignEntryFromBin
    <3>5. CASE \E b \in AisleBins : AssignEntryToBin(r, e, b)
      <4>1. PICK b \in AisleBins : AssignEntryToBin(r, e, b)
        BY <3>5
      <4>2. PICK j : j = [Job({e}, 1) EXCEPT !.bin = b]
        OBVIOUS
      <4>3. Start(r, "assign", j) /\ j.rows = {e}
        BY <3>3, <4>1, <4>2 DEF AssignEntryToBin
      <4> QED  BY <3>2, <4>3
    <3>6. CASE \E n \in 1..Cardinality(Items), b \in AisleBins : UnpackSeriesAtW1(r, e, n, b)
      <4>1. PICK n \in 1..Cardinality(Items), b \in AisleBins : UnpackSeriesAtW1(r, e, n, b)
        BY <3>6
      <4>2. PICK j : j = [Job({e}, 1) EXCEPT !.bin = b, !.quantity = n]
        OBVIOUS
      <4>3. Start(r, "unpack", j) /\ j.rows = {e}
        BY <3>3, <4>1, <4>2 DEF UnpackSeriesAtW1
      <4> QED  BY <3>2, <4>3
    <3> QED  BY <2>7, <3>4, <3>5, <3>6
  <2> QED  BY <2>2, <2>3, <2>4, <2>5, <2>6, <2>7 DEF Starts, Stock
<1>3. PICK label \in {"send", "reverse", "receive", "undo", "bin", "assign", "unassign", "unpack"} :
        \E j : fits(label, j)
  BY <1>2
<1>4. PICK j : Start(r, label, j) /\ Valid(label, j.rows)
  BY <1>3
<1>5. pc'[r] = label /\ job'[r] = j
  BY <1>1, <1>4, StartFacts
<1>6. Valid(label, j.rows)'
  BY <1>1, <1>4 DEF Valid
<1> QED  BY <1>5, <1>6 DEF Valid

\* What a call validated is still so when only other entries and their rows changed.
LEMMA ValidStays ==
  ASSUME Inv, NEW q \in Requests, pc'[q] = pc[q], job'[q] = job[q],
         Valid(pc[q], job[q].rows), NEW S, Touched(q) \cap S = {},
         \A e \in Existing \ S : entries'[e] = entries[e],
         \A t \in Rows : /\ transfers'[t].entry = transfers[t].entry
                         /\ transfers[t].entry \notin S => transfers'[t].status = transfers[t].status
  PROVE  Valid(pc[q], job[q].rows)'
<1>1. CASE pc[q] \in {"reverse", "receive", "undo", "bin"}
  <2>1. \A t \in job[q].rows : /\ transfers'[t].entry = transfers[t].entry
                               /\ transfers'[t].status = transfers[t].status
                               /\ entries'[transfers[t].entry] = entries[transfers[t].entry]
    BY <1>1 DEF Inv, TypeOK, RowsOK, Touched, EntriesOf
  <2> QED  BY <1>1, <2>1 DEF Valid
<1>2. CASE pc[q] \in {"send", "assign", "unassign", "unpack"}
  <2>1. \A e \in job[q].rows : entries'[e] = entries[e]
    BY <1>2 DEF Inv, TypeOK, Touched
  <2> QED  BY <1>2, <2>1 DEF Valid
<1>3. CASE pc[q] = "idle"
  BY <1>3 DEF Valid
<1> QED  BY <1>1, <1>2, <1>3 DEF Inv, TypeOK

\* A write changes the entries of its call, their rows, and ids nobody used.
LEMMA WriteValid ==
  ASSUME BinInv, EntriesApart, NEW r \in Requests, Write(r), NEW q \in Requests \ {r}
  PROVE  Valid(pc[q], job[q].rows)'
<1>1. /\ Inv /\ Valid(pc[q], job[q].rows) /\ pc'[q] = pc[q] /\ job'[q] = job[q]
      /\ Touched(q) \cap Touched(r) = {}
  BY FinishFacts DEF BinInv, EntriesApart, Write, WriteSend, WriteReverse, WriteReceive, WriteUndo,
    WriteBin, WriteAssign, WriteUnassign, WriteUnpack
<1> DEFINE only == \A e \in Existing \ Touched(r) : entries'[e] = entries[e]
           rest == \A t \in Rows :
             /\ transfers'[t].entry = transfers[t].entry
             /\ transfers[t].entry \notin Touched(r) => transfers'[t].status = transfers[t].status
<1>2. only /\ rest
  <2>1. CASE WriteSend(r)
    <3>1. Touched(r) = job[r].rows
      BY <2>1 DEF WriteSend, Touched
    <3> QED  BY <1>1, <2>1, <3>1, SendWrites, RowFacts
  <2>2. CASE WriteReverse(r) \/ WriteReceive(r) \/ WriteUndo(r)
    <3>1. Touched(r) = EntriesOf(job[r].rows)
      BY <2>2 DEF WriteReverse, WriteReceive, WriteUndo, Touched
    <3>2. \A t \in Rows : transfers[t].entry \notin Touched(r) => t \notin job[r].rows
      BY <3>1 DEF EntriesOf
    <3> QED  BY <1>1, <2>2, <3>1, <3>2, RowsWrite, RowFacts
  <2>3. CASE WriteBin(r)
    <3>1. Touched(r) = EntriesOf(job[r].rows)
      BY <2>3 DEF WriteBin, Touched
    <3>2. \A t \in Rows : transfers[t].entry \notin Touched(r) => t \notin job[r].rows
      BY <3>1 DEF EntriesOf
    <3> QED  BY <1>1, <2>3, <3>2, BinWrites
  <2>4. CASE WriteAssign(r) \/ WriteUnassign(r)
    BY <1>1, <2>4, AisleWrites
  <2>5. CASE WriteUnpack(r)
    <3>1. Touched(r) = job[r].rows
      BY <2>5 DEF WriteUnpack, Touched
    <3>2. only
      BY <1>1, <2>5, <3>1, RowFacts DEF WriteUnpack
    <3> QED  BY <1>1, <2>5, <3>2, UnpackWrites
  <2> QED  BY <2>1, <2>2, <2>3, <2>4, <2>5 DEF Write
<1> HIDE DEF only, rest
<1>3. Touched(q) \cap Touched(r) = {}
  BY <1>1
<1> QED  BY <1>1, <1>2, <1>3, ValidStays DEF only, rest

LEMMA BinStep == BinInv /\ EntriesApart /\ [Next]_vars => BinInv'
<1> SUFFICES ASSUME BinInv, EntriesApart, [Next]_vars PROVE BinInv'
  OBVIOUS
<1>1. Inv /\ Inv' /\ Places /\ \A q \in Requests : Valid(pc[q], job[q].rows)
  BY StepKeeps DEF BinInv
<1>2. UNCHANGED <<entries, transfers, storage>> => Places'
  BY <1>1 DEF Places, RowOK, ArrivedOnce, NetOK, Binned, Net, Moved, Unpacked, Rows, Existing
<1>3. ASSUME NEW q \in Requests, pc'[q] = pc[q], job'[q] = job[q], UNCHANGED <<entries, transfers>>
      PROVE  Valid(pc[q], job[q].rows)'
  BY <1>1, <1>3 DEF Valid
<1>4. ASSUME NEW r \in Requests, Finish(r)
      PROVE  /\ Valid(pc[r], job[r].rows)'
             /\ \A q \in Requests \ {r} : pc'[q] = pc[q] /\ job'[q] = job[q]
  BY <1>1, <1>4, FinishFacts DEF Valid
<1>5. CASE UNCHANGED vars
  BY <1>1, <1>2, <1>3, <1>5 DEF BinInv, vars
<1>6. ASSUME NEW r \in Requests, Starts(r)  PROVE BinInv'
  <2>1. UNCHANGED <<entries, transfers, storage>>
    BY <1>1, <1>6, AnyStart
  <2>2. Valid(pc[r], job[r].rows)'
    BY <1>6, StartValid
  <2>3. \E label \in {"send", "reverse", "receive", "undo", "bin", "assign", "unassign", "unpack"} :
          \E j : Start(r, label, j)
    BY <1>6 DEF Starts, SendTransferableEntries, ReverseSentEntries, ReceiveTransfers,
      UndoReceivedEntries, UpdateBinLocation, UnassignEntryFromBin, AssignEntryToBin, UnpackSeriesAtW1
  <2>4. \A q \in Requests \ {r} : pc'[q] = pc[q] /\ job'[q] = job[q]
    BY <1>1, <2>3, StartFacts
  <2>5. \A q \in Requests : Valid(pc[q], job[q].rows)'
    BY <1>3, <2>1, <2>2, <2>4
  <2> QED  BY <1>1, <1>2, <2>1, <2>5 DEF BinInv
<1>7. ASSUME NEW r \in Requests, Fail(r)  PROVE BinInv'
  BY <1>1, <1>2, <1>3, <1>4, <1>7 DEF BinInv, Fail
<1>8. ASSUME NEW r \in Requests, Write(r)  PROVE BinInv'
  <2>1. Finish(r)
    BY <1>8 DEF Write, WriteSend, WriteReverse, WriteReceive, WriteUndo, WriteBin,
      WriteAssign, WriteUnassign, WriteUnpack
  <2>2. Places'
    BY <1>8, SendPlaces, RowsPlaces, BinPlaces, AislePlaces, UnpackPlaces DEF Write
  <2>3. \A q \in Requests : Valid(pc[q], job[q].rows)'
    BY <1>4, <1>8, <2>1, WriteValid
  <2> QED  BY <1>1, <2>2, <2>3 DEF BinInv
<1> QED  BY <1>5, <1>6, <1>7, <1>8, EntryPlaces DEF Next, Starts

LEMMA BinInitially == Init => BinInv
<1> SUFFICES ASSUME Init PROVE BinInv
  OBVIOUS
<1>1. Rows = {}
  BY DEF Init, Rows
<1>2. \A e \in Entries : storage[e] = <<>>
  BY DEF Init
<1>3. \A e \in Packages, b \in Bins : Net(e, b) = 0
  BY <1>2, NetIs, TimesEmpty, StockApart
<1>4. \A e \in Stock : e \notin Existing
  BY StockApart DEF Init, Existing
<1>5. Places
  BY <1>1, <1>2, <1>3, <1>4, StockApart DEF Places, ArrivedOnce, NetOK, Binned, Moved, Unpacked
<1> QED  BY <1>5, Initially DEF BinInv, Init, Valid

\* When no two calls in progress are about the same entry, the movements say what the rows
\* say, however often goods were sent, received, binned, undone and unpacked and whatever
\* failed in between: a package is in the bin of its one binned transfer and not under way
\* then, a series or an item is in one bin at most, and what came out of a series is counted
\* only when that series is gone.
THEOREM InOneBinApart == Spec /\ []EntriesApart => []EntryInOneBin
<1>1. BinInv => EntryInOneBin
  <2> SUFFICES ASSUME BinInv PROVE EntryInOneBin
    OBVIOUS
  <2>1. ASSUME NEW e \in Packages
        PROVE  LET binned == InStatus(e, {"BIN_LOCATION_ASSIGNED"}) IN
               /\ Cardinality(binned) <= 1
               /\ \A b \in Bins : Net(e, b) = Cardinality({t \in binned : transfers[t].bin = b})
               /\ binned # {} => ~entries[e].isSent /\ ~entries[e].isTransferable
    <3>1. PICK binned : binned = InStatus(e, {"BIN_LOCATION_ASSIGNED"})
      OBVIOUS
    <3>2. \A t : t \in binned <=> /\ t \in Rows /\ transfers[t].entry = e
                                  /\ transfers[t].status = "BIN_LOCATION_ASSIGNED"
      BY <3>1 DEF InStatus, RowsOf
    <3>3. \A t, u \in binned : t = u
      BY <3>2 DEF BinInv, Places, ArrivedOnce, Arrived
    <3>4. \A S \in SUBSET binned : Cardinality(S) = IF S = {} THEN 0 ELSE 1
      <4>1. ASSUME NEW S \in SUBSET binned, S # {}  PROVE Cardinality(S) = 1
        <5>1. PICK t : S = {t}
          BY <3>3, <4>1
        <5> QED  BY <5>1, FS_Singleton
      <4> QED  BY <4>1, FS_EmptySet
    <3>5. ASSUME NEW b \in Bins  PROVE Net(e, b) = Cardinality({t \in binned : transfers[t].bin = b})
      <4>1. Binned(e, b) <=> {t \in binned : transfers[t].bin = b} # {}
        BY <3>2, ConstantsAssumption DEF Binned, BinInv, Places, RowOK
      <4>2. Net(e, b) = IF Binned(e, b) THEN 1 ELSE 0
        BY DEF BinInv, Places, NetOK
      <4>3. {t \in binned : transfers[t].bin = b} \in SUBSET binned
        OBVIOUS
      <4> QED  BY <3>4, <4>1, <4>2, <4>3
    <3>6. binned # {} => ~entries[e].isSent /\ ~entries[e].isTransferable
      BY <3>2 DEF BinInv, Places, ArrivedOnce, Arrived
    <3>7. Cardinality(binned) <= 1
      BY <3>4
    <3> QED  BY <3>1, <3>5, <3>6, <3>7
  <2>2. ASSUME NEW e \in Existing \cap Stock
        PROVE  /\ \A b \in AisleBins : Net(e, b) \in 0..(IF entries[e].isSeriesUnpacked THEN 0 ELSE 1)
               /\ \A b, c \in AisleBins : Net(e, b) = 1 /\ Net(e, c) = 1 => b = c
               /\ entries[e].unpackedFrom # None => entries[entries[e].unpackedFrom].isSeriesUnpacked
    <3>1. Moved(e) /\ Unpacked(e)
      BY DEF BinInv, Places
    <3>2. storage[e] = <<>> => \A b : Net(e, b) = 0
      BY NetIs, TimesEmpty
    <3>3. ASSUME NEW c \in AisleBins,
                 storage[e] = IF entries[e].isSeriesUnpacked THEN <<In(c), Out(c)>> ELSE <<In(c)>>
          PROVE  \A b \in AisleBins : Net(e, b) = IF b = c /\ ~entries[e].isSeriesUnpacked THEN 1 ELSE 0
      <4> TAKE b \in AisleBins
      <4>1. In(c) \in Movement /\ Out(c) \in Movement /\ <<>> \in Seq(Movement)
        BY MoveKinds, EmptySeq
      <4>2. PICK one : one = <<In(c)>>
        OBVIOUS
      <4>3. one \in Seq(Movement) /\ one = Append(<<>>, In(c))
        BY <4>1, <4>2
      <4>4. Times(one, In(b)) = (IF b = c THEN 1 ELSE 0) /\ Times(one, Out(b)) = 0
        <5>1. \A move : Times(one, move) = Times(<<>>, move) + (IF In(c) = move THEN 1 ELSE 0)
          BY <4>1, <4>3, TimesAppend
        <5>2. \A move : Times(one, move) = IF In(c) = move THEN 1 ELSE 0
          BY <5>1, TimesEmpty
        <5> QED  BY <5>2, MoveKinds
      <4>5. PICK two : two = Append(one, Out(c))
        OBVIOUS
      <4>6. two = <<In(c), Out(c)>>
        BY <4>2, <4>5, AppendTwo
      <4>7. Times(two, In(b)) = (IF b = c THEN 1 ELSE 0) /\ Times(two, Out(b)) = (IF b = c THEN 1 ELSE 0)
        <5>1. \A move : Times(two, move) = Times(one, move) + (IF Out(c) = move THEN 1 ELSE 0)
          BY <4>1, <4>3, <4>5, TimesAppend
        <5>2. Times(two, In(b)) = Times(one, In(b))
          BY <4>4, <5>1, MoveKinds
        <5>3. Times(two, Out(b)) = IF b = c THEN 1 ELSE 0
          BY <4>4, <5>1, MoveKinds
        <5> QED  BY <4>4, <5>2, <5>3
      <4>8. Net(e, b) = Times(storage[e], In(b)) - Times(storage[e], Out(b))
        BY NetIs
      <4>9. storage[e] = IF entries[e].isSeriesUnpacked THEN two ELSE one
        BY <3>3, <4>2, <4>6
      <4> QED  BY <4>4, <4>7, <4>8, <4>9
    <3>4. entries[e].unpackedFrom # None => entries[entries[e].unpackedFrom].isSeriesUnpacked
      BY <3>1 DEF Unpacked
    <3>5. CASE storage[e] = <<>>
      <4>1. \A b \in AisleBins : Net(e, b) = 0
        BY <3>2, <3>5
      <4> QED  BY <3>4, <4>1
    <3>6. CASE storage[e] # <<>>
      <4>1. PICK c \in AisleBins :
              storage[e] = IF entries[e].isSeriesUnpacked THEN <<In(c), Out(c)>> ELSE <<In(c)>>
        BY <3>1, <3>6 DEF Moved
      <4>2. \A b \in AisleBins : Net(e, b) = IF b = c /\ ~entries[e].isSeriesUnpacked THEN 1 ELSE 0
        BY <3>3, <4>1
      <4> QED  BY <3>4, <4>2
    <3> QED  BY <3>5, <3>6
  <2> QED  BY <2>1, <2>2 DEF EntryInOneBin
<1> QED  BY <1>1, BinStep, BinInitially, PTL DEF Spec
=============================================================================
