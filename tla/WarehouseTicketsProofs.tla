------------------------ MODULE WarehouseTicketsProofs ------------------------
(***************************************************************************)
(* What holds of tickets for every number of tickets, products and requests *)
(* in progress, whatever overlaps and however often the reminders run.       *)
(***************************************************************************)
EXTENDS WarehouseTickets, FiniteSetTheorems, TLAPS

(***************************************************************************)
(* What requests in progress know whatever overlaps.                        *)
(***************************************************************************)
Returns == {"initiate", "confirm"}
Returning(r) == req[r].next \in {"decide", "commit"}

RequestOK(r) ==
  /\ req[r].kind # "idle" => req[r].ticket \in Tickets
  /\ req[r].kind = "idle" => req[r] = Idle
  /\ req[r].kind = "create" => tickets[Asked(r)] = Unused
  /\ req[r].kind \notin {"idle", "create"} => tickets[Asked(r)].status # "unused"
  /\ Returning(r) => req[r].kind \in Returns
  /\ req[r].kind \in Returns => /\ req[r].lines # NoLines
                                /\ Seen(r).status \notin {"unused", "deleted"}
RequestsOK == \A r \in Requests : RequestOK(r)

\* A new ticket is one request's own.
CreatesAlone ==
  \A r, q \in Requests : r # q /\ req[r].kind = "create" => Asked(q) # Asked(r)

\* What is prepared or handed over was asked for by the rows that were read.
RowsAsRead ==
  \A r \in Requests : req[r].kind \in {"prepare", "takeout"} /\ Exists(Asked(r)) =>
    /\ Seen(r).revision <= tickets[Asked(r)].revision
    /\ SameRows(r) => \A i \in Items : req[r].lines[i] <= items[Asked(r)][i].quantity

\* What a return has locked still fits what is out.
Fits(r, i) ==
  LET item == items[Asked(r)][i]
      n == req[r].lines[i]
  IN IF req[r].kind = "initiate" THEN item.returned + item.pending + n <= item.received
     ELSE n <= item.pending /\ item.returned + n <= item.received
ReturnsFit ==
  \A r \in Requests : Returning(r) => \A i \in Items : req[r].lines[i] > 0 => Fits(r, i)
\* Two returns never hold the same item.
ReturnsApart ==
  \A r, q \in Requests : r # q /\ Returning(r) /\ Returning(q) /\ Asked(r) = Asked(q) =>
    \A i \in Items : req[r].lines[i] = 0 \/ req[q].lines[i] = 0

Inv == /\ TypeOK /\ NeverMoreThanRequested /\ RequestsOK /\ CreatesAlone
       /\ RowsAsRead /\ ReturnsFit /\ ReturnsApart

\* Which status a request of each kind starts from.
Allowed(kind, status) ==
  /\ kind = "update" => status \in {"pending_approval", "paused"}
  /\ kind \in {"delete", "approve"} => status = "pending_approval"
  /\ kind = "pause" => status \in {"pending_approval", "approved"}
  /\ kind = "reject" => status \in {"pending_approval", "approved", "paused"}
  /\ kind = "resume" => status = "paused"
  /\ kind = "treat" => status = "approved"
  /\ kind = "prepare" => status \in {"approved", "being_prepared"}
  /\ kind = "takeout" => status = "ready_for_pickup"
  /\ kind = "initiate" => status \in Borrowed
  /\ status \notin {"unused", "deleted"}

(***************************************************************************)
(* Arithmetic of what is out.                                              *)
(***************************************************************************)
LEMMA MaxOfZero ==
  ASSUME NEW n \in Int
  PROVE  Max({0, n}) = IF n > 0 THEN n ELSE 0
<1>1. \A x \in {0, n} : (\A y \in {0, n} : x >= y) <=> x = IF n > 0 THEN n ELSE 0
  OBVIOUS
<1>2. \E x \in {0, n} : \A y \in {0, n} : x >= y
  OBVIOUS
<1> QED  BY <1>1, <1>2 DEF Max

LEMMA ItemArithmetic ==
  ASSUME NEW item \in Item
  PROVE  /\ Outstanding(item) = IF item.received > item.returned THEN item.received - item.returned ELSE 0
         /\ Returnable(item) = IF Outstanding(item) > item.pending THEN Outstanding(item) - item.pending ELSE 0
         /\ Outstanding(item) \in Nat /\ Returnable(item) \in Nat
<1>1. item.received - item.returned \in Int
  BY ConstantsAssumption DEF Item, Quantities
<1>2. Outstanding(item) = IF item.received > item.returned THEN item.received - item.returned ELSE 0
  BY <1>1, MaxOfZero, ConstantsAssumption DEF Outstanding, Item, Quantities
<1>3. Outstanding(item) \in Nat /\ Outstanding(item) - item.pending \in Int
  BY <1>2, ConstantsAssumption DEF Item, Quantities
<1> QED  BY <1>2, <1>3, MaxOfZero, ConstantsAssumption DEF Returnable, Item, Quantities

LEMMA RequestedIsItems ==
  ASSUME NEW lines \in Lines  PROVE Requested(lines) \in [Items -> Item]
  BY ConstantsAssumption DEF Requested, Lines, Item, Quantities

LEMMA NoLinesTyped == NoLines \in Lines
  BY ConstantsAssumption DEF NoLines, Lines, Quantities

LEMMA NextSequenceTyped == TypeOK => NextSequence \in Nat
<1>1. IsFiniteSet({t \in Tickets : Exists(t)})
  BY FS_Subset, ConstantsAssumption
<1> QED  BY <1>1, FS_CardinalityType DEF NextSequence

LEMMA IdleTyped == Idle \in Request
  BY NoLinesTyped, ConstantsAssumption DEF Idle, Nothing, Request, Read, Kinds, Statuses

(***************************************************************************)
(* What a request that starts leaves.                                      *)
(***************************************************************************)
Started(r, call) ==
  /\ req[r] = Idle /\ req' = [req EXCEPT ![r] = call] /\ call \in Request
  /\ call.kind # "idle" /\ call.ticket \in Tickets /\ call.next = "write"
  /\ call.kind = "create" => /\ tickets[call.ticket] = Unused
                             /\ \A q \in Requests : req[q].ticket # call.ticket
  /\ call.kind # "create" => /\ Allowed(call.kind, tickets[call.ticket].status)
                             /\ call.read = ReadRow(call.ticket)
  /\ call.kind = "prepare" => \A i \in Items : call.lines[i] <= items[call.ticket][i].quantity
  /\ call.kind = "takeout" => \A i \in Items : call.lines[i] <= items[call.ticket][i].prepared
  /\ call.kind \in Returns => call.lines # NoLines
  /\ overlapped \subseteq overlapped' /\ overlapped' \subseteq Tickets
  /\ (\E q \in Requests \ {r} : req[q].ticket = call.ticket) => call.ticket \in overlapped'
  /\ UNCHANGED <<tickets, items, recorded, approved, reminders>>

LEMMA ReadRowTyped ==
  ASSUME TypeOK, NEW t \in Tickets  PROVE ReadRow(t) \in Read
  BY ConstantsAssumption DEF TypeOK, ReadRow, Read, Ticket

\* What the sixth conjunct of StartWith marks are tickets of requests in progress.
LEMMA OverlappedTyped ==
  ASSUME Inv, NEW r \in Requests, NEW kind \in Kinds \ {"idle"}, NEW t \in Tickets,
         NEW lines, NEW key, NEW read, StartWith(r, kind, t, lines, key, read)
  PROVE  /\ overlapped \subseteq overlapped' /\ overlapped' \subseteq Tickets
         /\ (\E q \in Requests \ {r} : req[q].ticket = t) => t \in overlapped'
<1>1. \A q \in Beside(r, kind, t) : req[q].ticket \in Tickets
  BY DEF Beside, Inv, RequestsOK, RequestOK
<1>2. overlapped \subseteq Tickets
  BY DEF Inv, TypeOK
<1>3. (\E q \in Requests \ {r} : req[q].ticket = t) => Beside(r, kind, t) # {}
  BY DEF Beside
<1> QED  BY <1>1, <1>2, <1>3 DEF StartWith

LEMMA StartIsStarted ==
  ASSUME Inv, NEW r \in Requests, NEW kind \in Kinds \ {"idle", "create"}, NEW t \in Tickets,
         NEW lines \in Lines, NEW key \in Keys \cup {None},
         StartWith(r, kind, t, lines, key, ReadRow(t)), Allowed(kind, tickets[t].status),
         kind = "prepare" => \A i \in Items : lines[i] <= items[t][i].quantity,
         kind = "takeout" => \A i \in Items : lines[i] <= items[t][i].prepared,
         kind \in Returns => lines # NoLines
  PROVE  \E call : Started(r, call)
<1> DEFINE call == [kind |-> kind, ticket |-> t, read |-> ReadRow(t), lines |-> lines,
                    key |-> key, next |-> "write"]
<1>1. call \in Request
  BY ReadRowTyped DEF Inv, Request
<1>2. req[r] = Idle /\ req' = [req EXCEPT ![r] = call]
      /\ UNCHANGED <<tickets, items, recorded, approved, reminders>>
  BY DEF StartWith
<1>3. /\ overlapped \subseteq overlapped' /\ overlapped' \subseteq Tickets
      /\ (\E q \in Requests \ {r} : req[q].ticket = t) => t \in overlapped'
  BY OverlappedTyped
<1>4. Started(r, call)
  BY <1>1, <1>2, <1>3 DEF Started
<1> QED  BY <1>4

LEMMA CreateIsStarted ==
  ASSUME Inv, NEW r \in Requests, NEW t \in Tickets, NEW lines \in Lines, ReadCreate(r, t, lines)
  PROVE  \E call : Started(r, call)
<1> DEFINE read == [Nothing EXCEPT !.code = <<clock, NextSequence>>]
           call == [kind |-> "create", ticket |-> t, read |-> read, lines |-> lines,
                    key |-> None, next |-> "write"]
<1>1. read \in Read
  BY NextSequenceTyped, ConstantsAssumption DEF Inv, TypeOK, Nothing, Read, Code, Statuses
<1>2. call \in Request
  BY <1>1 DEF Request, Kinds
<1>3. StartWith(r, "create", t, lines, None, read) /\ tickets[t] = Unused
      /\ \A q \in Requests : req[q].ticket # t
  BY DEF ReadCreate
<1>4. req[r] = Idle /\ req' = [req EXCEPT ![r] = call]
      /\ UNCHANGED <<tickets, items, recorded, approved, reminders>>
  BY <1>3 DEF StartWith
<1>5. "create" \in Kinds \ {"idle"}
  BY DEF Kinds
<1>6. /\ overlapped \subseteq overlapped' /\ overlapped' \subseteq Tickets
      /\ (\E q \in Requests \ {r} : req[q].ticket = t) => t \in overlapped'
  BY <1>3, <1>5, OverlappedTyped
<1>7. Started(r, call)
  BY <1>2, <1>3, <1>4, <1>6 DEF Started, Returns
<1> QED  BY <1>7

LEMMA ReadsStart ==
  ASSUME Inv, NEW r \in Requests, Reads(r)  PROVE \E call : Started(r, call)
<1> USE DEF Start, Kinds, Allowed, Returns, Borrowed, Editable
<1>1. PICK t \in Tickets :
         \/ ReadDelete(r, t) \/ ReadApprove(r, t) \/ ReadPause(r, t) \/ ReadReject(r, t)
         \/ ReadResume(r, t) \/ ReadTreat(r, t)
         \/ \E lines \in Lines :
              \/ ReadCreate(r, t, lines) \/ ReadUpdate(r, t, lines)
              \/ ReadPrepare(r, t, lines) \/ ReadTakeout(r, t, lines)
              \/ \E key \in Keys \cup {None} : \/ ReadInitiateReturn(r, t, lines, key)
                                               \/ ReadConfirmReturn(r, t, lines, key)
  BY DEF Reads
<1>2. CASE ReadDelete(r, t)
  BY <1>2, StartIsStarted, NoLinesTyped DEF ReadDelete
<1>3. CASE ReadApprove(r, t)
  BY <1>3, StartIsStarted, NoLinesTyped DEF ReadApprove
<1>4. CASE ReadPause(r, t)
  BY <1>4, StartIsStarted, NoLinesTyped DEF ReadPause
<1>5. CASE ReadReject(r, t)
  BY <1>5, StartIsStarted, NoLinesTyped DEF ReadReject
<1>6. CASE ReadResume(r, t)
  BY <1>6, StartIsStarted, NoLinesTyped DEF ReadResume
<1>7. CASE ReadTreat(r, t)
  BY <1>7, StartIsStarted, NoLinesTyped DEF ReadTreat
<1>8. ASSUME NEW lines \in Lines, ReadUpdate(r, t, lines)  PROVE \E call : Started(r, call)
  BY <1>8, StartIsStarted DEF ReadUpdate
<1>9. ASSUME NEW lines \in Lines, ReadPrepare(r, t, lines)  PROVE \E call : Started(r, call)
  BY <1>9, StartIsStarted DEF ReadPrepare
<1>10. ASSUME NEW lines \in Lines, ReadTakeout(r, t, lines)  PROVE \E call : Started(r, call)
  BY <1>10, StartIsStarted DEF ReadTakeout
<1>11. ASSUME NEW lines \in Lines, NEW key \in Keys \cup {None},
              ReadInitiateReturn(r, t, lines, key)
       PROVE  \E call : Started(r, call)
  BY <1>11, StartIsStarted DEF ReadInitiateReturn
<1>12. ASSUME NEW lines \in Lines, NEW key \in Keys \cup {None},
              ReadConfirmReturn(r, t, lines, key)
       PROVE  \E call : Started(r, call)
  <2>1. tickets[t].status \in Statuses \ {"unused", "deleted"}
    BY <1>12 DEF ReadConfirmReturn, Exists, Inv, TypeOK, Ticket
  <2> QED  BY <1>12, <2>1, StartIsStarted DEF ReadConfirmReturn
<1> QED  BY <1>1, <1>2, <1>3, <1>4, <1>5, <1>6, <1>7, <1>8, <1>9, <1>10, <1>11, <1>12, CreateIsStarted

(***************************************************************************)
(* What a request that writes the ticket's row leaves.                       *)
(***************************************************************************)
Bounded(rows) ==
  \A i \in Items : /\ rows[i].prepared <= rows[i].quantity /\ rows[i].received <= rows[i].quantity
                   /\ rows[i].returned + rows[i].pending <= rows[i].quantity

\* Other requests' rows stay as they read them, or their ticket or its revision changes.
Wrote(r, row, rows) ==
  LET t == Asked(r)
  IN /\ t \in Tickets /\ row \in Ticket /\ row.status # "unused"
     /\ rows \in [Items -> Item] /\ Bounded(rows)
     /\ tickets' = [tickets EXCEPT ![t] = row] /\ items' = [items EXCEPT ![t] = rows]
     /\ req' = [req EXCEPT ![r] = Idle] /\ approved' \in [Tickets -> 0..MaxRevisions]
     /\ UNCHANGED <<recorded, overlapped, reminders>>
     /\ \/ req[r].kind = "create"
        \/ /\ Exists(t)
           /\ rows # items[t] => Locked(t) = {}
           /\ \/ row.status = "deleted"
              \/ row.revision > tickets[t].revision
              \/ /\ row.revision = tickets[t].revision
                 /\ \A i \in Items : rows[i].quantity = items[t][i].quantity

LEMMA ItemsOK ==
  ASSUME Inv, NEW t \in Tickets
  PROVE  items[t] \in [Items -> Item] /\ Bounded(items[t])
  BY DEF Inv, TypeOK, NeverMoreThanRequested, Bounded

LEMMA RequestedOK ==
  ASSUME NEW lines \in Lines
  PROVE  Requested(lines) \in [Items -> Item] /\ Bounded(Requested(lines))
  BY RequestedIsItems, ConstantsAssumption DEF Requested, Bounded, Lines, Quantities

LEMMA RequestTyped ==
  ASSUME Inv, NEW r \in Requests, req[r].kind # "idle"
  PROVE  /\ Asked(r) \in Tickets /\ req[r] \in Request /\ Seen(r) \in Read /\ req[r].lines \in Lines
         /\ tickets[Asked(r)] \in Ticket
  BY DEF Inv, TypeOK, RequestsOK, RequestOK, Asked, Seen, Request

\* A write that leaves the rows and their revision alone.
LEMMA StatusWritten ==
  ASSUME Inv, NEW r \in Requests, req[r].kind # "idle", Exists(Asked(r)),
         NEW row \in Ticket, row.status # "unused", row.revision = tickets[Asked(r)].revision,
         Write(r, row), UNCHANGED items, approved' \in [Tickets -> 0..MaxRevisions]
  PROVE  Wrote(r, row, items[Asked(r)])
<1>1. Asked(r) \in Tickets
  BY RequestTyped
<1>2. items' = [items EXCEPT ![Asked(r)] = items[Asked(r)]]
  BY <1>1 DEF Inv, TypeOK
<1> QED  BY <1>1, <1>2, ItemsOK DEF Wrote, Write, End

LEMMA CreateWrites ==
  ASSUME Inv, NEW r \in Requests, CreateTicket(r)
  PROVE  \E row, rows : Wrote(r, row, rows)
<1> DEFINE row == NewTicket(Seen(r).code)
           rows == Requested(req[r].lines)
<1>1. req[r].kind = "create"
  BY DEF CreateTicket
<1>2. Asked(r) \in Tickets /\ Seen(r) \in Read /\ req[r].lines \in Lines
  BY <1>1, RequestTyped
<1>3. row \in Ticket
  <2>1. Seen(r).code \in Code \cup {None} /\ 1 \in 0..MaxRevisions
    BY <1>2, ConstantsAssumption DEF Read
  <2> QED  BY <2>1 DEF NewTicket, Ticket, Statuses
<1>4. rows \in [Items -> Item] /\ Bounded(rows)
  BY <1>2, RequestedOK
<1>5. row.status # "unused"
  BY DEF NewTicket
<1>6. tickets' = [tickets EXCEPT ![Asked(r)] = row] /\ items' = [items EXCEPT ![Asked(r)] = rows]
      /\ req' = [req EXCEPT ![r] = Idle] /\ UNCHANGED <<recorded, overlapped, reminders>>
      /\ approved' = approved
  BY DEF CreateTicket, Write, End
<1>7. approved' \in [Tickets -> 0..MaxRevisions]
  BY <1>6 DEF Inv, TypeOK
<1>8. Wrote(r, row, rows)
  BY <1>1, <1>2, <1>3, <1>4, <1>5, <1>6, <1>7 DEF Wrote
<1> QED  BY <1>8

LEMMA UpdateWrites ==
  ASSUME Inv, NEW r \in Requests, UpdateTicket(r)
  PROVE  \E row, rows : Wrote(r, row, rows)
<1> DEFINE t == Asked(r)
           row == Updated(tickets[t], Seen(r))
<1>1. req[r].kind = "update" /\ Exists(t)
  BY DEF UpdateTicket, Ready
<1>2. t \in Tickets /\ Seen(r) \in Read /\ req[r].lines \in Lines /\ tickets[t] \in Ticket
  BY <1>1, RequestTyped
<1>3. approved' \in [Tickets -> 0..MaxRevisions]
  BY DEF UpdateTicket, Inv, TypeOK
<1>4. row \in Ticket /\ row.revision = tickets[t].revision /\ row.status # "unused"
  BY <1>1, <1>2 DEF Updated, Ticket, Statuses, Exists
<1>5. CASE req[r].lines = NoLines
  <2>1. Write(r, row) /\ UNCHANGED items
    BY <1>5 DEF UpdateTicket
  <2> QED  BY <1>1, <1>3, <1>4, <2>1, StatusWritten
<1>6. CASE req[r].lines # NoLines
  <2> DEFINE next == [row EXCEPT !.revision = @ + 1]
             rows == Requested(req[r].lines)
  <2>1. next \in Ticket /\ next.revision > tickets[t].revision /\ next.status # "unused"
    BY <1>2, <1>4, <1>6, ConstantsAssumption DEF UpdateTicket, Ticket
  <2>2. Write(r, next) /\ items' = [items EXCEPT ![t] = rows] /\ Locked(t) = {}
    BY <1>6 DEF UpdateTicket
  <2>3. rows \in [Items -> Item] /\ Bounded(rows)
    BY <1>2, RequestedOK
  <2>4. Wrote(r, next, rows)
    BY <1>1, <1>2, <1>3, <2>1, <2>2, <2>3 DEF Wrote, Write, End
  <2> QED  BY <2>4
<1> QED  BY <1>5, <1>6

LEMMA DeleteWrites ==
  ASSUME Inv, NEW r \in Requests, DeleteTicket(r)
  PROVE  \E row, rows : Wrote(r, row, rows)
<1> DEFINE row == [Unused EXCEPT !.status = "deleted"]
           rows == Requested(NoLines)
<1>1. req[r].kind = "delete" /\ Exists(Asked(r)) /\ Locked(Asked(r)) = {}
  BY DEF DeleteTicket, Ready
<1>2. Asked(r) \in Tickets
  BY <1>1, RequestTyped
<1>3. row \in Ticket /\ row.status = "deleted"
  BY ConstantsAssumption DEF Unused, Ticket, Statuses
<1>4. rows \in [Items -> Item] /\ Bounded(rows)
  BY RequestedOK, NoLinesTyped
<1>5. Write(r, row) /\ items' = [items EXCEPT ![Asked(r)] = rows]
      /\ approved' \in [Tickets -> 0..MaxRevisions]
  BY DEF DeleteTicket, Inv, TypeOK
<1>6. Wrote(r, row, rows)
  BY <1>1, <1>2, <1>3, <1>4, <1>5 DEF Wrote, Write, End
<1> QED  BY <1>6

\* Approve, pause, reject, resume and treat.
StatusCall(r) == ApproveTicket(r) \/ PauseTicket(r) \/ RejectTicket(r) \/ ResumeTicket(r) \/ Treat(r)
LEMMA StatusWrites ==
  ASSUME Inv, NEW r \in Requests, StatusCall(r)
  PROVE  \E row, rows : Wrote(r, row, rows)
<1>1. req[r].kind # "idle" /\ Exists(Asked(r)) /\ UNCHANGED items
  BY DEF StatusCall, ApproveTicket, PauseTicket, RejectTicket, ResumeTicket, Treat, Ready
<1>2. /\ Asked(r) \in Tickets /\ tickets[Asked(r)] \in Ticket /\ Seen(r).status \in Statuses
      /\ Seen(r).revision \in 0..MaxRevisions /\ approved \in [Tickets -> 0..MaxRevisions]
  BY <1>1, RequestTyped DEF Read, Inv, TypeOK
<1>3. approved' \in [Tickets -> 0..MaxRevisions]
  BY <1>2 DEF StatusCall, ApproveTicket, PauseTicket, RejectTicket, ResumeTicket, Treat
<1>4. \E row \in Ticket : Write(r, row) /\ row.status # "unused"
                          /\ row.revision = tickets[Asked(r)].revision
  <2>1. CASE ApproveTicket(r)
    <3> DEFINE row == [tickets[Asked(r)] EXCEPT !.status = "approved", !.pausedFrom = None]
    <3>1. row \in Ticket /\ row.status # "unused" /\ row.revision = tickets[Asked(r)].revision
      BY <1>2 DEF Ticket, Statuses
    <3> QED  BY <2>1, <3>1 DEF ApproveTicket
  <2>2. CASE PauseTicket(r)
    <3> DEFINE row == [tickets[Asked(r)] EXCEPT !.status = "paused", !.pausedFrom = Seen(r).status]
    <3>1. row \in Ticket /\ row.status # "unused" /\ row.revision = tickets[Asked(r)].revision
      BY <1>2 DEF Ticket, Statuses
    <3> QED  BY <2>2, <3>1 DEF PauseTicket
  <2>3. CASE RejectTicket(r)
    <3> DEFINE row == [tickets[Asked(r)] EXCEPT !.status = "rejected"]
    <3>1. row \in Ticket /\ row.status # "unused" /\ row.revision = tickets[Asked(r)].revision
      BY <1>2 DEF Ticket, Statuses
    <3> QED  BY <2>3, <3>1 DEF RejectTicket
  <2>4. CASE ResumeTicket(r)
    <3> DEFINE row == [tickets[Asked(r)] EXCEPT !.status = Resumed(Seen(r)), !.pausedFrom = None]
    <3>1. row \in Ticket /\ row.status # "unused" /\ row.revision = tickets[Asked(r)].revision
      BY <1>2 DEF Ticket, Statuses, Resumed
    <3> QED  BY <2>4, <3>1 DEF ResumeTicket
  <2>5. CASE Treat(r)
    <3> DEFINE row == [tickets[Asked(r)] EXCEPT !.status = "being_prepared"]
    <3>1. row \in Ticket /\ row.status # "unused" /\ row.revision = tickets[Asked(r)].revision
      BY <1>2 DEF Ticket, Statuses
    <3> QED  BY <2>5, <3>1 DEF Treat
  <2> QED  BY <2>1, <2>2, <2>3, <2>4, <2>5 DEF StatusCall
<1> QED  BY <1>1, <1>3, <1>4, StatusWritten

LEMMA PrepareWrites ==
  ASSUME Inv, NEW r \in Requests, PrepareTicket(r)
  PROVE  \E row, rows : Wrote(r, row, rows)
<1> DEFINE t == Asked(r)
           row == [tickets[t] EXCEPT !.status = "ready_for_pickup"]
           rows == [i \in Items |-> [items[t][i] EXCEPT !.prepared = req[r].lines[i]]]
<1>1. req[r].kind = "prepare" /\ Exists(t) /\ Locked(t) = {}
      /\ approved' \in [Tickets -> 0..MaxRevisions]
  BY DEF PrepareTicket, Ready, Inv, TypeOK
<1>2. t \in Tickets /\ tickets[t] \in Ticket /\ req[r].lines \in Lines
  BY <1>1, RequestTyped
<1>3. row \in Ticket /\ row.status # "unused" /\ row.revision = tickets[t].revision
  BY <1>2 DEF Ticket, Statuses
<1>4. Write(r, row)
  BY DEF PrepareTicket
<1>5. CASE SameRows(r)
  <2>1. items[t] \in [Items -> Item] /\ Bounded(items[t])
    BY <1>2, ItemsOK
  <2>2. \A i \in Items : req[r].lines[i] <= items[t][i].quantity
    BY <1>1, <1>5 DEF Inv, RowsAsRead
  <2>3. rows \in [Items -> Item] /\ Bounded(rows)
    BY <1>2, <2>1, <2>2 DEF Item, Bounded, Lines
  <2>4. \A i \in Items : rows[i].quantity = items[t][i].quantity
    BY <2>1 DEF Item
  <2>5. Wrote(r, row, rows)
    BY <1>1, <1>2, <1>3, <1>4, <1>5, <2>3, <2>4 DEF Wrote, Write, End, PrepareTicket
  <2> QED  BY <2>5
<1>6. CASE ~SameRows(r)
  <2>1. UNCHANGED items
    BY <1>6 DEF PrepareTicket
  <2> QED  BY <1>1, <1>3, <1>4, <2>1, StatusWritten
<1> QED  BY <1>5, <1>6

LEMMA TakeoutWrites ==
  ASSUME Inv, NEW r \in Requests, ConfirmTakeout(r)
  PROVE  \E row, rows : Wrote(r, row, rows)
<1> DEFINE t == Asked(r)
           row == [tickets[t] EXCEPT !.status = "received_borrowed", !.due = clock + ReminderDays]
           rows == [i \in Items |-> [items[t][i] EXCEPT !.received = req[r].lines[i]]]
<1>1. req[r].kind = "takeout" /\ Exists(t) /\ Locked(t) = {}
      /\ approved' \in [Tickets -> 0..MaxRevisions]
  BY DEF ConfirmTakeout, Ready, Inv, TypeOK
<1>2. t \in Tickets /\ tickets[t] \in Ticket /\ req[r].lines \in Lines
  BY <1>1, RequestTyped
<1>3. row \in Ticket /\ row.status # "unused" /\ row.revision = tickets[t].revision
  <2>1. clock + ReminderDays \in Nat
    BY ConstantsAssumption DEF Inv, TypeOK
  <2> QED  BY <1>2, <2>1 DEF Ticket, Statuses
<1>4. Write(r, row)
  BY DEF ConfirmTakeout
<1>5. CASE SameRows(r)
  <2>1. items[t] \in [Items -> Item] /\ Bounded(items[t])
    BY <1>2, ItemsOK
  <2>2. \A i \in Items : req[r].lines[i] <= items[t][i].quantity
    BY <1>1, <1>5 DEF Inv, RowsAsRead
  <2>3. rows \in [Items -> Item] /\ Bounded(rows)
    BY <1>2, <2>1, <2>2 DEF Item, Bounded, Lines
  <2>4. \A i \in Items : rows[i].quantity = items[t][i].quantity
    BY <2>1 DEF Item
  <2>5. Wrote(r, row, rows)
    BY <1>1, <1>2, <1>3, <1>4, <1>5, <2>3, <2>4 DEF Wrote, Write, End, ConfirmTakeout
  <2> QED  BY <2>5
<1>6. CASE ~SameRows(r)
  <2>1. UNCHANGED items
    BY <1>6 DEF ConfirmTakeout
  <2> QED  BY <1>1, <1>3, <1>4, <2>1, StatusWritten
<1> QED  BY <1>5, <1>6

(***************************************************************************)
(* Starting, writing and giving up keep what requests know.                  *)
(***************************************************************************)
LEMMA StartedKeeps ==
  ASSUME Inv, NEW r \in Requests, NEW call, Started(r, call)
  PROVE  Inv'
<1>1. req'[r] = call /\ (\A q \in Requests : q # r => req'[q] = req[q]) /\ req[r] = Idle
      /\ req' \in [Requests -> Request]
  BY DEF Started, Inv, TypeOK
<1>2. UNCHANGED <<tickets, items, recorded, approved, clock, runs, told, spoiled, failures>>
  BY DEF Started, reminders
<1>3. TypeOK'
  BY <1>1, <1>2 DEF Inv, TypeOK, Started
<1>4. NeverMoreThanRequested'
  BY <1>2 DEF Inv, NeverMoreThanRequested
<1>5. RequestsOK'
  <2> SUFFICES ASSUME NEW q \in Requests  PROVE RequestOK(q)'
    BY DEF RequestsOK
  <2>1. CASE q = r
    BY <1>1, <1>2, <2>1 DEF RequestOK, Started, Asked, Seen, Returning, Allowed, Returns, ReadRow
  <2>2. CASE q # r
    BY <1>1, <1>2, <2>2 DEF Inv, RequestsOK, RequestOK, Asked, Seen, Returning
  <2> QED  BY <2>1, <2>2
<1>6. CreatesAlone'
  <2> SUFFICES ASSUME NEW p \in Requests, NEW q \in Requests, p # q, req'[p].kind = "create"
               PROVE  req'[q].ticket # req'[p].ticket
    BY DEF CreatesAlone, Asked
  <2>1. CASE p = r
    BY <1>1, <2>1 DEF Started
  <2>2. CASE q = r
    <3>1. tickets[req[p].ticket] = Unused
      BY <1>1, <2>2 DEF Inv, RequestsOK, RequestOK, Asked
    <3>2. call.kind = "create" => req[p].ticket # call.ticket
      BY DEF Started
    <3>3. call.kind # "create" => tickets[call.ticket].status # "unused"
      BY DEF Started, Allowed
    <3> QED  BY <1>1, <2>2, <3>1, <3>2, <3>3 DEF Unused
  <2>3. CASE p # r /\ q # r
    BY <1>1, <2>3 DEF Inv, CreatesAlone, Asked
  <2> QED  BY <2>1, <2>2, <2>3
<1>7. RowsAsRead'
  <2> SUFFICES ASSUME NEW q \in Requests, req'[q].kind \in {"prepare", "takeout"},
                      Exists(req'[q].ticket)
               PROVE  /\ req'[q].read.revision <= tickets[req'[q].ticket].revision
                      /\ tickets[req'[q].ticket].revision = req'[q].read.revision =>
                           \A i \in Items : req'[q].lines[i] <= items[req'[q].ticket][i].quantity
    BY <1>2 DEF RowsAsRead, Exists, SameRows, Seen, Asked
  <2>1. CASE q = r
    <3>1. call.read = ReadRow(call.ticket) /\ call.ticket \in Tickets /\ call.lines \in Lines
      BY <1>1, <2>1 DEF Started, Request
    <3>2. call.read.revision = tickets[call.ticket].revision
      BY <3>1 DEF ReadRow
    <3>3. call.read.revision \in Nat
      BY <3>1, <3>2, ConstantsAssumption DEF Inv, TypeOK, Ticket
    <3>4. items[call.ticket] \in [Items -> Item] /\ Bounded(items[call.ticket])
      BY <3>1, ItemsOK
    <3>5. \A i \in Items : call.lines[i] <= items[call.ticket][i].quantity
      <4>1. CASE call.kind = "prepare"
        BY <4>1 DEF Started
      <4>2. CASE call.kind = "takeout"
        <5>1. \A i \in Items : call.lines[i] <= items[call.ticket][i].prepared
          BY <4>2 DEF Started
        <5>2. \A i \in Items : items[call.ticket][i].prepared <= items[call.ticket][i].quantity
          BY <3>4 DEF Bounded
        <5>3. \A i \in Items : /\ call.lines[i] \in Int /\ items[call.ticket][i].prepared \in Int
                               /\ items[call.ticket][i].quantity \in Int
          BY <3>1, <3>4, ConstantsAssumption DEF Lines, Item, Quantities
        <5> QED  BY <5>1, <5>2, <5>3
      <4> QED  BY <1>1, <2>1, <4>1, <4>2
    <3> QED  BY <1>1, <2>1, <3>2, <3>3, <3>5
  <2>2. CASE q # r
    BY <1>1, <2>2 DEF Inv, RowsAsRead, SameRows, Seen, Asked
  <2> QED  BY <2>1, <2>2
<1>8. \A q \in Requests : req'[q].next \in {"decide", "commit"} => q # r
  BY <1>1 DEF Started
<1>9. ReturnsFit'
  BY <1>1, <1>2, <1>8 DEF Inv, ReturnsFit, Fits, Returning, Asked
<1>10. ReturnsApart'
  BY <1>1, <1>8 DEF Inv, ReturnsApart, Returning, Asked
<1> QED  BY <1>3, <1>4, <1>5, <1>6, <1>7, <1>9, <1>10 DEF Inv

LEMMA WroteKeeps ==
  ASSUME Inv, NEW r \in Requests, req[r].kind # "idle", NEW row, NEW rows, Wrote(r, row, rows)
  PROVE  Inv'
<1> DEFINE t == Asked(r)
<1>1. req'[r] = Idle /\ (\A q \in Requests : q # r => req'[q] = req[q])
      /\ req' \in [Requests -> Request]
  BY IdleTyped DEF Wrote, Inv, TypeOK
<1>2. /\ t \in Tickets
      /\ tickets'[t] = row /\ (\A u \in Tickets : u # t => tickets'[u] = tickets[u])
      /\ items'[t] = rows /\ (\A u \in Tickets : u # t => items'[u] = items[u])
  BY DEF Wrote, Inv, TypeOK
<1>3. UNCHANGED <<recorded, overlapped, clock, runs, told, spoiled, failures>>
  BY DEF Wrote, reminders
<1>4. TypeOK'
  <2>1. tickets' \in [Tickets -> Ticket] /\ items' \in [Tickets -> [Items -> Item]]
        /\ approved' \in [Tickets -> 0..MaxRevisions]
    BY DEF Wrote, Inv, TypeOK
  <2> QED  BY <1>1, <1>3, <2>1 DEF Inv, TypeOK
<1>5. NeverMoreThanRequested'
  BY <1>2 DEF Inv, NeverMoreThanRequested, Wrote, Bounded
<1>6. ASSUME NEW q \in Requests, q # r, req[q].kind = "create"
      PROVE  req[q].ticket # t
  BY <1>6 DEF Inv, CreatesAlone, Asked
<1>7. RequestsOK'
  <2> SUFFICES ASSUME NEW q \in Requests  PROVE RequestOK(q)'
    BY DEF RequestsOK
  <2>1. CASE q = r
    BY <1>1, <2>1 DEF RequestOK, Idle, Returning, Returns
  <2>2. CASE q # r
    <3>1. RequestOK(q)
      BY DEF Inv, RequestsOK
    <3>2. req[q].kind # "idle" => req[q].ticket \in Tickets
      BY <3>1 DEF RequestOK
    <3>3. req[q].kind = "create" => tickets'[req[q].ticket] = Unused
      BY <1>2, <1>6, <2>2, <3>1, <3>2 DEF RequestOK, Asked
    <3>4. req[q].kind \notin {"idle", "create"} => tickets'[req[q].ticket].status # "unused"
      BY <1>2, <3>1, <3>2 DEF RequestOK, Asked, Wrote
    <3> QED  BY <1>1, <2>2, <3>1, <3>3, <3>4 DEF RequestOK, Asked, Seen, Returning
  <2> QED  BY <2>1, <2>2
<1>8. CreatesAlone'
  <2> SUFFICES ASSUME NEW p \in Requests, NEW q \in Requests, p # q, req'[p].kind = "create"
               PROVE  req'[q].ticket # req'[p].ticket
    BY DEF CreatesAlone, Asked
  <2>1. p # r /\ req[p].kind = "create" /\ req[p].ticket \in Tickets
    BY <1>1 DEF Idle, Inv, RequestsOK, RequestOK
  <2> QED  BY <1>1, <2>1, ConstantsAssumption DEF Inv, CreatesAlone, Asked, Idle
<1>9. req[r].kind = "create" => \A q \in Requests : q # r => req[q].ticket # t
  BY DEF Inv, CreatesAlone, Asked
<1>10. RowsAsRead'
  <2> SUFFICES ASSUME NEW q \in Requests, q # r, req[q].kind \in {"prepare", "takeout"},
                      tickets'[req[q].ticket].status \notin {"unused", "deleted"}
               PROVE  /\ req[q].read.revision <= tickets'[req[q].ticket].revision
                      /\ tickets'[req[q].ticket].revision = req[q].read.revision =>
                           \A i \in Items : req[q].lines[i] <= items'[req[q].ticket][i].quantity
    BY <1>1 DEF RowsAsRead, Exists, SameRows, Seen, Asked, Idle
  <2>1. req[q].ticket \in Tickets
    BY DEF Inv, RequestsOK, RequestOK
  <2>2. CASE req[q].ticket # t
    BY <1>2, <2>1, <2>2 DEF Inv, RowsAsRead, Exists, SameRows, Seen, Asked
  <2>3. CASE req[q].ticket = t
    <3>1. Exists(t) /\ row.status # "deleted"
          /\ \/ row.revision > tickets[t].revision
             \/ /\ row.revision = tickets[t].revision
                /\ \A i \in Items : rows[i].quantity = items[t][i].quantity
      BY <1>2, <1>9, <2>3 DEF Wrote, Exists
    <3>2. /\ req[q].read.revision <= tickets[t].revision
          /\ tickets[t].revision = req[q].read.revision =>
               \A i \in Items : req[q].lines[i] <= items[t][i].quantity
      BY <2>3, <3>1 DEF Inv, RowsAsRead, SameRows, Seen, Asked
    <3>3. /\ row.revision \in Int /\ tickets[t].revision \in Int /\ req[q].read.revision \in Int
      BY <1>2, ConstantsAssumption DEF Wrote, Inv, TypeOK, Ticket, Request, Read
    <3> QED  BY <1>2, <2>3, <3>1, <3>2, <3>3
  <2> QED  BY <2>2, <2>3
<1>11. ASSUME NEW q \in Requests, q # r, Returning(q), req[q].ticket = t,
              NEW i \in Items, req[q].lines[i] > 0
       PROVE  rows = items[t]
  <2>1. i \in Locked(t)
    BY <1>11 DEF Locked, Returning
  <2> QED  BY <1>9, <1>11, <2>1 DEF Wrote
<1>12. ReturnsFit'
  <2> SUFFICES ASSUME NEW q \in Requests, q # r, Returning(q), NEW i \in Items, req[q].lines[i] > 0
               PROVE  Fits(q, i)'
    BY <1>1 DEF ReturnsFit, Returning, Idle
  <2>1. Fits(q, i) /\ req[q].ticket \in Tickets
    BY DEF Inv, ReturnsFit, RequestsOK, RequestOK, Returning, Returns
  <2>2. items'[req[q].ticket] = items[req[q].ticket]
    BY <1>2, <1>11, <2>1
  <2> QED  BY <1>1, <2>1, <2>2 DEF Fits, Asked
<1>13. ReturnsApart'
  BY <1>1 DEF Inv, ReturnsApart, Returning, Asked, Idle
<1> QED  BY <1>4, <1>5, <1>7, <1>8, <1>10, <1>12, <1>13 DEF Inv

LEMMA GiveUpKeeps ==
  ASSUME Inv, NEW r \in Requests, GiveUp(r)
  PROVE  Inv'
<1>1. req'[r] = Idle /\ (\A q \in Requests : q # r => req'[q] = req[q])
      /\ req' \in [Requests -> Request]
  BY IdleTyped DEF GiveUp, End, Inv, TypeOK
<1>2. UNCHANGED <<tickets, items, recorded, approved, overlapped, clock, runs, told, spoiled, failures>>
  BY DEF GiveUp, reminders
<1>3. TypeOK' /\ NeverMoreThanRequested'
  BY <1>1, <1>2 DEF Inv, TypeOK, NeverMoreThanRequested
<1>4. RequestsOK'
  BY <1>1, <1>2 DEF Inv, RequestsOK, RequestOK, Idle, Asked, Seen, Returning, Returns
<1>5. CreatesAlone'
  <2> SUFFICES ASSUME NEW p \in Requests, NEW q \in Requests, p # q, req'[p].kind = "create"
               PROVE  req'[q].ticket # req'[p].ticket
    BY DEF CreatesAlone, Asked
  <2>1. p # r /\ req[p].kind = "create" /\ req[p].ticket \in Tickets
    BY <1>1 DEF Idle, Inv, RequestsOK, RequestOK
  <2> QED  BY <1>1, <2>1, ConstantsAssumption DEF Inv, CreatesAlone, Asked, Idle
<1>6. RowsAsRead'
  BY <1>1, <1>2 DEF Inv, RowsAsRead, Exists, SameRows, Seen, Asked, Idle
<1>7. ReturnsFit' /\ ReturnsApart'
  BY <1>1, <1>2 DEF Inv, ReturnsFit, Fits, ReturnsApart, Returning, Asked, Idle
<1> QED  BY <1>3, <1>4, <1>5, <1>6, <1>7 DEF Inv

(***************************************************************************)
(* Returns lock, decide and commit.                                        *)
(***************************************************************************)
\* A step of a return that stays: only its own record changes.
Proceeded(r, call) ==
  /\ req' = [req EXCEPT ![r] = call] /\ call \in Request
  /\ req[r].kind \in Returns /\ call.kind = req[r].kind /\ call.ticket = req[r].ticket
  /\ call.lines = req[r].lines /\ call.next \in {"decide", "commit"}
  /\ call.read.status \notin {"unused", "deleted"}
  /\ \A i \in Items : call.lines[i] > 0 => /\ Fits(r, i)
                                           /\ Returning(r) \/ i \notin Locked(Asked(r))
  /\ UNCHANGED <<tickets, items, recorded, approved, overlapped, reminders>>

LEMMA LockProceeds ==
  ASSUME Inv, NEW r \in Requests, LockItems(r)
  PROVE  Proceeded(r, [req[r] EXCEPT !.next = "decide"])
<1> DEFINE call == [req[r] EXCEPT !.next = "decide"]
<1>1. req[r].kind \in Returns /\ req[r].next = "write"
  BY DEF LockItems, Ready, Returns
<1>2. req[r] \in Request /\ Asked(r) \in Tickets /\ req[r].lines \in Lines
  BY <1>1, RequestTyped DEF Returns
<1>3. req' = [req EXCEPT ![r] = call] /\ call \in Request /\ call.kind = req[r].kind
      /\ call.ticket = req[r].ticket /\ call.lines = req[r].lines /\ call.next = "decide"
  BY <1>2 DEF LockItems, Proceed, Request
<1>4. UNCHANGED <<tickets, items, recorded, approved, overlapped, reminders>>
  BY DEF LockItems, Proceed
<1>6. call.read.status \notin {"unused", "deleted"}
  BY <1>1, <1>2 DEF Inv, RequestsOK, RequestOK, Seen, Request
<1>5. ASSUME NEW i \in Items, req[r].lines[i] > 0
      PROVE  Fits(r, i) /\ i \notin Locked(Asked(r))
  <2> DEFINE item == items[Asked(r)][i]
  <2>1. i \in Lines0(r)
    BY <1>5 DEF Lines0
  <2>2. i \notin Locked(Asked(r))
    BY <2>1 DEF LockItems
  <2>3. item \in Item
    BY <1>2 DEF Inv, TypeOK
  <2>4. /\ item.received \in Nat /\ item.returned \in Nat /\ item.pending \in Nat
        /\ req[r].lines[i] \in Nat
    BY <1>2, <2>3, ConstantsAssumption DEF Item, Quantities, Lines
  <2>5. CASE req[r].kind = "initiate"
    <3>1. req[r].lines[i] <= Returnable(item)
      BY <2>1, <2>5 DEF LockItems, Ready, Initiates
    <3>2. item.returned + item.pending + req[r].lines[i] <= item.received
      BY <1>5, <2>3, <2>4, <3>1, ItemArithmetic
    <3> QED  BY <2>2, <2>5, <3>2 DEF Fits
  <2>6. CASE req[r].kind = "confirm"
    BY <2>1, <2>2, <2>6 DEF LockItems, Ready, Confirms, Fits
  <2> QED  BY <1>1, <2>5, <2>6 DEF Returns
<1> QED  BY <1>1, <1>3, <1>4, <1>5, <1>6 DEF Proceeded

LEMMA DecideProceeds ==
  ASSUME Inv, NEW r \in Requests, Decide(r)
  PROVE  \E call : Proceeded(r, call)
<1> DEFINE fallback == IF req[r].kind = "initiate" THEN "return_pending" ELSE Seen(r).status
           status == ResolveBorrowTicketStatus(OwnItems(r), fallback)
           call == [req[r] EXCEPT !.next = "commit", !.read.status = status]
<1>1. Returning(r) /\ req[r].kind \in Returns
  BY DEF Decide, Returning, Inv, RequestsOK, RequestOK
<1>2. req[r] \in Request /\ Seen(r) \in Read
  BY <1>1, RequestTyped DEF Returns
<1>3. status \in Statuses \ {"unused", "deleted"}
  <2>1. Seen(r).status \in Statuses \ {"unused", "deleted"}
    BY <1>1, <1>2 DEF Inv, RequestsOK, RequestOK, Read
  <2> QED  BY <2>1 DEF ResolveBorrowTicketStatus, Statuses
<1>4. req' = [req EXCEPT ![r] = call]
      /\ UNCHANGED <<tickets, items, recorded, approved, overlapped, reminders>>
  BY DEF Decide
<1>5. call \in Request /\ call.kind = req[r].kind
      /\ call.ticket = req[r].ticket /\ call.lines = req[r].lines /\ call.next = "commit"
      /\ call.read.status = status
  BY <1>2, <1>3 DEF Request, Read, Seen
<1>6. \A i \in Items : req[r].lines[i] > 0 => Fits(r, i)
  BY <1>1 DEF Inv, ReturnsFit
<1>7. Proceeded(r, call)
  BY <1>1, <1>3, <1>4, <1>5, <1>6 DEF Proceeded
<1> QED  BY <1>7

LEMMA ProceededKeeps ==
  ASSUME Inv, NEW r \in Requests, NEW call, Proceeded(r, call)
  PROVE  Inv'
<1>1. req'[r] = call /\ (\A q \in Requests : q # r => req'[q] = req[q])
      /\ req' \in [Requests -> Request]
  BY DEF Proceeded, Inv, TypeOK
<1>2. UNCHANGED <<tickets, items, recorded, approved, overlapped, clock, runs, told, spoiled, failures>>
  BY DEF Proceeded, reminders
<1>3. /\ call.kind = req[r].kind /\ call.ticket = req[r].ticket /\ call.lines = req[r].lines
      /\ call.kind \in Returns
  BY DEF Proceeded
<1>4. TypeOK' /\ NeverMoreThanRequested'
  BY <1>1, <1>2 DEF Inv, TypeOK, NeverMoreThanRequested
<1>5. RequestsOK'
  <2> SUFFICES ASSUME NEW q \in Requests  PROVE RequestOK(q)'
    BY DEF RequestsOK
  <2>1. RequestOK(q)
    BY DEF Inv, RequestsOK
  <2>2. CASE q = r
    BY <1>1, <1>2, <1>3, <2>1, <2>2 DEF RequestOK, Asked, Seen, Returning, Returns, Proceeded
  <2>3. CASE q # r
    BY <1>1, <1>2, <2>1, <2>3 DEF RequestOK, Asked, Seen, Returning
  <2> QED  BY <2>2, <2>3
<1>6. CreatesAlone'
  BY <1>1, <1>3 DEF Inv, CreatesAlone, Asked, Returns
<1>7. RowsAsRead'
  BY <1>1, <1>2, <1>3 DEF Inv, RowsAsRead, Exists, SameRows, Seen, Asked, Returns
<1>8. ReturnsFit'
  <2> SUFFICES ASSUME NEW q \in Requests, Returning(q)', NEW i \in Items, req'[q].lines[i] > 0
               PROVE  Fits(q, i)'
    BY DEF ReturnsFit
  <2>1. CASE q = r
    <3>1. Fits(r, i)
      BY <1>1, <2>1 DEF Proceeded
    <3> QED  BY <1>1, <1>2, <1>3, <2>1, <3>1 DEF Fits, Asked
  <2>2. CASE q # r
    BY <1>1, <1>2, <2>2 DEF Inv, ReturnsFit, Fits, Asked, Returning
  <2> QED  BY <2>1, <2>2
<1>9. ASSUME NEW q \in Requests, q # r, Returning(q), Asked(q) = Asked(r), NEW i \in Items
      PROVE  req[q].lines[i] = 0 \/ call.lines[i] = 0
  <2>1. CASE Returning(r)
    BY <1>3, <1>9, <2>1 DEF Inv, ReturnsApart
  <2>2. CASE ~Returning(r) /\ call.lines[i] > 0
    <3>1. i \notin Locked(Asked(r))
      BY <2>2 DEF Proceeded
    <3>2. ~(req[q].lines[i] > 0)
      BY <1>9, <3>1 DEF Locked, Returning, Asked
    <3>3. req[q].lines[i] \in Nat
      BY ConstantsAssumption DEF Inv, TypeOK, Request, Lines, Quantities
    <3> QED  BY <3>2, <3>3
  <2>3. call.lines[i] \in Nat
    BY ConstantsAssumption DEF Proceeded, Request, Lines, Quantities
  <2> QED  BY <2>1, <2>2, <2>3
<1>10. ReturnsApart'
  <2> SUFFICES ASSUME NEW p \in Requests, NEW q \in Requests, p # q, Returning(p)', Returning(q)',
                      req'[p].ticket = req'[q].ticket, NEW i \in Items
               PROVE  req'[p].lines[i] = 0 \/ req'[q].lines[i] = 0
    BY DEF ReturnsApart, Asked
  <2>1. CASE p = r
    BY <1>1, <1>3, <1>9, <2>1 DEF Returning, Asked
  <2>2. CASE q = r
    BY <1>1, <1>3, <1>9, <2>2 DEF Returning, Asked
  <2>3. CASE p # r /\ q # r
    BY <1>1, <2>3 DEF Inv, ReturnsApart, Returning, Asked
  <2> QED  BY <2>1, <2>2, <2>3
<1> QED  BY <1>4, <1>5, <1>6, <1>7, <1>8, <1>10 DEF Inv

\* The rows a return commits.
LEMMA OwnItemsOK ==
  ASSUME Inv, NEW r \in Requests, Returning(r)
  PROVE  /\ OwnItems(r) \in [Items -> Item] /\ Bounded(OwnItems(r))
         /\ \A i \in Items :
              LET old == items[Asked(r)][i]
                  new == OwnItems(r)[i]
              IN /\ new.quantity = old.quantity /\ new.prepared = old.prepared
                 /\ new.received = old.received /\ new.returned >= old.returned
                 /\ req[r].lines[i] > 0 => /\ \/ new.returned + new.pending <= new.received
                                              \/ new.returned + new.pending = old.returned + old.pending
                                           /\ new.returned + new.pending > 0
                 /\ req[r].lines[i] = 0 => new = old
<1> DEFINE t == Asked(r)
<1>1. req[r].kind \in Returns
  BY DEF Inv, RequestsOK, RequestOK
<1>2. t \in Tickets /\ req[r].lines \in Lines
  BY <1>1, RequestTyped DEF Returns
<1>3. items[t] \in [Items -> Item] /\ Bounded(items[t])
  BY <1>2, ItemsOK
<1>4. ASSUME NEW i \in Items
      PROVE  LET old == items[t][i]
                 new == OwnItems(r)[i]
             IN /\ new \in Item
                /\ new.quantity = old.quantity /\ new.prepared = old.prepared
                /\ new.received = old.received /\ new.returned >= old.returned
                /\ req[r].lines[i] > 0 => /\ \/ new.returned + new.pending <= new.received
                                             \/ new.returned + new.pending = old.returned + old.pending
                                          /\ new.returned + new.pending > 0
                /\ req[r].lines[i] = 0 => new = old
                /\ new.prepared <= new.quantity /\ new.received <= new.quantity
                /\ new.returned + new.pending <= new.quantity
  <2> DEFINE item == items[t][i]
             n == req[r].lines[i]
             new == OwnItems(r)[i]
  <2>1. /\ item \in Item /\ item.received <= item.quantity /\ item.prepared <= item.quantity
        /\ item.returned + item.pending <= item.quantity
    BY <1>3 DEF Bounded
  <2>2. n \in Nat /\ n \in Quantities
    BY <1>2, ConstantsAssumption DEF Lines, Quantities
  <2>3. CASE n = 0
    <3>1. new = item
      BY <2>3 DEF OwnItems, Lines0
    <3> QED  BY <2>1, <2>3, <3>1, ConstantsAssumption DEF Item, Quantities
  <2>4. CASE n > 0
    <3>1. Fits(r, i) /\ new = ReturnedRow(r, item, n)
      BY <2>4 DEF Inv, ReturnsFit, OwnItems, Lines0
    <3>2. CASE req[r].kind = "initiate"
      <4>1. new = [item EXCEPT !.pending = @ + n] /\ item.returned + item.pending + n <= item.received
        BY <3>1, <3>2 DEF ReturnedRow, Fits
      <4> QED  BY <2>1, <2>2, <2>4, <4>1, ConstantsAssumption DEF Item, Quantities
    <3>3. CASE req[r].kind = "confirm"
      <4>1. /\ new = [item EXCEPT !.pending = @ - n, !.returned = @ + n]
            /\ n <= item.pending /\ item.returned + n <= item.received
        BY <3>1, <3>3 DEF ReturnedRow, Fits
      <4>2. /\ new.pending = item.pending - n /\ new.returned = item.returned + n
            /\ new.quantity = item.quantity /\ new.prepared = item.prepared
            /\ new.received = item.received
            /\ new = [quantity |-> item.quantity, prepared |-> item.prepared,
                      received |-> item.received, returned |-> item.returned + n,
                      pending |-> item.pending - n]
        BY <2>1, <4>1 DEF Item
      <4>3. item.returned + n \in Quantities /\ item.pending - n \in Quantities
        BY <2>1, <2>2, <4>1, ConstantsAssumption DEF Item, Quantities
      <4>4. new \in Item
        BY <2>1, <4>2, <4>3 DEF Item
      <4> QED  BY <2>1, <2>2, <2>4, <4>2, <4>4, ConstantsAssumption DEF Item, Quantities
    <3> QED  BY <1>1, <3>2, <3>3 DEF Returns
  <2> QED  BY <2>2, <2>3, <2>4
<1>5. OwnItems(r) = [i \in Items |-> OwnItems(r)[i]]
  BY DEF OwnItems
<1> QED  BY <1>4, <1>5 DEF Bounded

LEMMA CommitKeeps ==
  ASSUME Inv, NEW r \in Requests, CommitReturn(r)
  PROVE  Inv'
<1> DEFINE t == Asked(r)
           rows == OwnItems(r)
<1>1. Returning(r) /\ req[r].kind \in Returns /\ Seen(r).status \notin {"unused", "deleted"}
  BY DEF CommitReturn, Returning, Inv, RequestsOK, RequestOK
<1>2. t \in Tickets /\ Seen(r) \in Read /\ req[r] \in Request /\ req[r].lines \in Lines
  BY <1>1, RequestTyped DEF Returns
<1>3. /\ rows \in [Items -> Item] /\ Bounded(rows)
      /\ \A i \in Items : /\ rows[i].quantity = items[t][i].quantity
                          /\ req[r].lines[i] = 0 => rows[i] = items[t][i]
  BY <1>1, OwnItemsOK
<1>4. req'[r] = Idle /\ (\A q \in Requests : q # r => req'[q] = req[q])
      /\ req' \in [Requests -> Request]
  BY IdleTyped DEF CommitReturn, End, Inv, TypeOK
<1>5. /\ tickets'[t] = [tickets[t] EXCEPT !.status = Seen(r).status]
      /\ (\A u \in Tickets : u # t => tickets'[u] = tickets[u])
      /\ items'[t] = rows /\ (\A u \in Tickets : u # t => items'[u] = items[u])
      /\ tickets' \in [Tickets -> Ticket] /\ items' \in [Tickets -> [Items -> Item]]
  <2>1. tickets \in [Tickets -> Ticket] /\ items \in [Tickets -> [Items -> Item]]
    BY DEF Inv, TypeOK
  <2>2. [tickets[t] EXCEPT !.status = Seen(r).status] \in Ticket
    BY <1>2, <2>1 DEF Ticket, Read
  <2>3. tickets' = [tickets EXCEPT ![t].status = Seen(r).status] /\ items' = [items EXCEPT ![t] = rows]
    BY DEF CommitReturn
  <2> QED  BY <1>2, <1>3, <2>1, <2>2, <2>3
<1>6. tickets'[t].status = Seen(r).status /\ tickets'[t].revision = tickets[t].revision
  BY <1>2, <1>5 DEF Inv, TypeOK, Ticket
<1>7. UNCHANGED <<approved, overlapped, clock, runs, told, spoiled, failures>>
  BY DEF CommitReturn, reminders
<1>8. recorded' \in [Tickets -> [Counters -> Nat]]
  <2>1. recorded \in [Tickets -> [Counters -> Nat]] /\ recorded' = Count(recorded, r)
    BY DEF CommitReturn, Inv, TypeOK
  <2>2. req[r].key # None => <<req[r].kind, req[r].key>> \in Counters
    BY <1>1, <1>2 DEF Request, Counters, Returns
  <2> QED  BY <1>2, <2>1, <2>2 DEF Count
<1>9. TypeOK' /\ NeverMoreThanRequested'
  BY <1>3, <1>4, <1>5, <1>7, <1>8 DEF Inv, TypeOK, NeverMoreThanRequested, Bounded
<1>10. RequestsOK'
  <2> SUFFICES ASSUME NEW q \in Requests  PROVE RequestOK(q)'
    BY DEF RequestsOK
  <2>1. CASE q = r
    BY <1>4, <2>1 DEF RequestOK, Idle, Returning, Returns
  <2>2. CASE q # r
    <3>1. RequestOK(q)
      BY DEF Inv, RequestsOK
    <3>2. req[q].kind # "idle" => req[q].ticket \in Tickets
      BY <3>1 DEF RequestOK
    <3>3. req[q].kind = "create" => req[q].ticket # t
      BY <2>2 DEF Inv, CreatesAlone, Asked
    <3>4. req[q].kind = "create" => tickets'[req[q].ticket] = Unused
      BY <1>5, <3>1, <3>2, <3>3 DEF RequestOK, Asked
    <3>5. req[q].kind \notin {"idle", "create"} => tickets'[req[q].ticket].status # "unused"
      BY <1>1, <1>5, <1>6, <3>1, <3>2 DEF RequestOK, Asked
    <3> QED  BY <1>4, <2>2, <3>1, <3>4, <3>5 DEF RequestOK, Asked, Seen, Returning
  <2> QED  BY <2>1, <2>2
<1>11. CreatesAlone'
  <2> SUFFICES ASSUME NEW p \in Requests, NEW q \in Requests, p # q, req'[p].kind = "create"
               PROVE  req'[q].ticket # req'[p].ticket
    BY DEF CreatesAlone, Asked
  <2>1. p # r /\ req[p].kind = "create" /\ req[p].ticket \in Tickets
    BY <1>4 DEF Idle, Inv, RequestsOK, RequestOK
  <2> QED  BY <1>4, <2>1, ConstantsAssumption DEF Inv, CreatesAlone, Asked, Idle
<1>12. RowsAsRead'
  <2> SUFFICES ASSUME NEW q \in Requests, q # r, req[q].kind \in {"prepare", "takeout"},
                      tickets'[req[q].ticket].status \notin {"unused", "deleted"}
               PROVE  /\ req[q].read.revision <= tickets'[req[q].ticket].revision
                      /\ tickets'[req[q].ticket].revision = req[q].read.revision =>
                           \A i \in Items : req[q].lines[i] <= items'[req[q].ticket][i].quantity
    BY <1>4 DEF RowsAsRead, Exists, SameRows, Seen, Asked, Idle
  <2>1. req[q].ticket \in Tickets
    BY DEF Inv, RequestsOK, RequestOK
  <2>2. Exists(req[q].ticket)
    BY <1>5, <2>1 DEF CommitReturn, Exists
  <2>3. /\ tickets'[req[q].ticket].revision = tickets[req[q].ticket].revision
        /\ \A i \in Items : items'[req[q].ticket][i].quantity = items[req[q].ticket][i].quantity
    <3>1. CASE req[q].ticket = t
      <4>1. tickets'[req[q].ticket].revision = tickets[req[q].ticket].revision
        BY <1>6, <3>1
      <4>2. \A i \in Items : items'[t][i].quantity = items[t][i].quantity
        <5>1. items'[t] = rows
          BY <1>5
        <5> HIDE DEF rows
        <5> QED  BY <1>3, <5>1
      <4> QED  BY <3>1, <4>1, <4>2
    <3>2. CASE req[q].ticket # t
      BY <1>5, <2>1, <3>2
    <3> QED  BY <3>1, <3>2
  <2> QED  BY <2>2, <2>3 DEF Inv, RowsAsRead, SameRows, Seen, Asked
<1>13. ReturnsFit'
  <2> SUFFICES ASSUME NEW q \in Requests, q # r, Returning(q), NEW i \in Items, req[q].lines[i] > 0
               PROVE  Fits(q, i)'
    BY <1>4 DEF ReturnsFit, Returning, Idle
  <2>1. Fits(q, i) /\ req[q].ticket \in Tickets
    BY DEF Inv, ReturnsFit, RequestsOK, RequestOK, Returning, Returns
  <2>2. items'[req[q].ticket][i] = items[req[q].ticket][i]
    <3>1. CASE req[q].ticket = t
      <4>1. req[r].lines[i] = 0 \/ req[q].lines[i] = 0
        BY <1>1, <3>1 DEF Inv, ReturnsApart, Asked
      <4> QED  BY <1>3, <1>5, <3>1, <4>1
    <3>2. CASE req[q].ticket # t
      BY <1>5, <2>1, <3>2
    <3> QED  BY <3>1, <3>2
  <2> QED  BY <1>4, <2>1, <2>2 DEF Fits, Asked
<1>14. ReturnsApart'
  BY <1>4 DEF Inv, ReturnsApart, Returning, Asked, Idle
<1> QED  BY <1>9, <1>10, <1>11, <1>12, <1>13, <1>14 DEF Inv

(***************************************************************************)
(* Reminders leave the requests, the items and all of a row but its last       *)
(* reminder alone.                                                         *)
(***************************************************************************)
ReminderStep == (\E j \in Runs : RunStep(j) \/ RunDies(j)) \/ Tick

LEMMA ReminderEffect ==
  ASSUME Inv, ReminderStep
  PROVE  /\ UNCHANGED <<req, items, recorded, approved, overlapped>>
         /\ tickets' \in [Tickets -> Ticket]
         /\ clock' \in 0..MaxClock /\ failures' \in 0..MaxFailures /\ spoiled' \in BOOLEAN
         /\ runs' \in [Runs -> [due: SUBSET Tickets, telling: Tickets \cup {None}]]
         /\ told' \in [Tickets -> Seq(0..MaxClock)]
         /\ \A t \in Tickets : /\ tickets'[t].status = tickets[t].status
                               /\ tickets'[t].revision = tickets[t].revision
                               /\ tickets'[t].pausedFrom = tickets[t].pausedFrom
                               /\ tickets[t].status = "unused" => tickets'[t] = tickets[t]
<1> DEFINE Run == [due: SUBSET Tickets, telling: Tickets \cup {None}]
<1>1. TypeOK
  BY DEF Inv
<1>2. ASSUME NEW j \in Runs, ListOverdue(j)
      PROVE  UNCHANGED <<tickets, items, recorded, req, clock, told, approved, overlapped, failures>>
             /\ runs' \in [Runs -> Run] /\ spoiled' \in BOOLEAN
  BY <1>1, <1>2 DEF ListOverdue, TypeOK
<1>3. ASSUME NEW j \in Runs, NotifyReturnReminder(j)
      PROVE  UNCHANGED <<tickets, items, recorded, req, clock, approved, overlapped, spoiled, failures>>
             /\ runs' \in [Runs -> Run] /\ told' \in [Tickets -> Seq(0..MaxClock)]
  <2>1. PICK t \in runs[j].due : /\ told' = [told EXCEPT ![t] = Append(@, clock)]
                                 /\ runs' = [runs EXCEPT ![j].telling = t]
    BY <1>3 DEF NotifyReturnReminder
  <2>2. t \in Tickets
    BY <1>1 DEF TypeOK
  <2>3. Append(told[t], clock) \in Seq(0..MaxClock)
    BY <1>1, <2>2 DEF TypeOK
  <2>4. told' \in [Tickets -> Seq(0..MaxClock)]
    BY <1>1, <2>1, <2>2, <2>3 DEF TypeOK
  <2>5. runs \in [Runs -> Run] /\ runs[j] \in Run
    BY <1>1, <1>3 DEF TypeOK
  <2>6. [runs[j] EXCEPT !.telling = t] \in Run
    BY <2>2, <2>5
  <2>7. runs' \in [Runs -> Run]
    BY <1>3, <2>1, <2>5, <2>6
  <2> QED  BY <1>3, <2>4, <2>7 DEF NotifyReturnReminder
<1>4. ASSUME NEW j \in Runs, MarkReturnReminderSent(j)
      PROVE  UNCHANGED <<items, recorded, req, clock, told, approved, overlapped, spoiled, failures>>
             /\ runs' \in [Runs -> Run] /\ tickets' \in [Tickets -> Ticket]
             /\ \A t \in Tickets : /\ tickets'[t].status = tickets[t].status
                                   /\ tickets'[t].revision = tickets[t].revision
                                   /\ tickets'[t].pausedFrom = tickets[t].pausedFrom
                                   /\ tickets[t].status = "unused" => tickets'[t] = tickets[t]
  <2> DEFINE u == runs[j].telling
  <2>1. u \in Tickets /\ runs[j] \in Run
    BY <1>1, <1>4 DEF TypeOK, MarkReturnReminderSent
  <2>2. runs' \in [Runs -> Run]
    BY <1>1, <1>4, <2>1 DEF TypeOK, MarkReturnReminderSent
  <2>3. clock \in Nat
    BY <1>1, ConstantsAssumption DEF TypeOK
  <2>4. tickets' \in [Tickets -> Ticket]
             /\ \A t \in Tickets : /\ tickets'[t].status = tickets[t].status
                                   /\ tickets'[t].revision = tickets[t].revision
                                   /\ tickets'[t].pausedFrom = tickets[t].pausedFrom
                                   /\ tickets[t].status = "unused" => tickets'[t] = tickets[t]
    <3>1. CASE Exists(u)
      <4>1. tickets' = [tickets EXCEPT ![u].lastReminder = clock]
        BY <1>4, <3>1 DEF MarkReturnReminderSent
      <4>2. tickets \in [Tickets -> Ticket] /\ tickets[u] \in Ticket
        BY <1>1, <2>1 DEF TypeOK
      <4>3. [tickets[u] EXCEPT !.lastReminder = clock] \in Ticket
        BY <2>3, <4>2 DEF Ticket
      <4>4. tickets' \in [Tickets -> Ticket]
        BY <2>1, <4>1, <4>2, <4>3
      <4>5. /\ tickets'[u] = [tickets[u] EXCEPT !.lastReminder = clock]
            /\ \A t \in Tickets : t # u => tickets'[t] = tickets[t]
        BY <2>1, <4>1, <4>2
      <4>6. /\ tickets'[u].status = tickets[u].status /\ tickets'[u].revision = tickets[u].revision
            /\ tickets'[u].pausedFrom = tickets[u].pausedFrom
        BY <4>2, <4>5 DEF Ticket
      <4> QED  BY <3>1, <4>4, <4>5, <4>6 DEF Exists
    <3>2. CASE ~Exists(u)
      <4>1. tickets' = tickets
        BY <1>4, <3>2 DEF MarkReturnReminderSent
      <4> QED  BY <1>1, <4>1 DEF TypeOK
    <3> QED  BY <3>1, <3>2
  <2> QED  BY <1>4, <2>2, <2>4 DEF MarkReturnReminderSent
<1>5. ASSUME NEW j \in Runs, RunDies(j)
      PROVE  UNCHANGED <<tickets, items, recorded, req, clock, told, approved, overlapped>>
             /\ runs' \in [Runs -> Run] /\ failures' \in 0..MaxFailures /\ spoiled' \in BOOLEAN
  <2>1. NoRun \in Run
    BY DEF NoRun
  <2> QED  BY <1>1, <1>5, <2>1, ConstantsAssumption DEF RunDies, TypeOK
<1>6. ASSUME Tick
      PROVE  UNCHANGED <<tickets, items, recorded, req, runs, told, approved, overlapped, spoiled, failures>>
             /\ clock' \in 0..MaxClock
  BY <1>1, <1>6, ConstantsAssumption DEF Tick, TypeOK
<1> QED  BY <1>1, <1>2, <1>3, <1>4, <1>5, <1>6 DEF ReminderStep, RunStep, TypeOK

LEMMA ReminderKeeps ==
  ASSUME Inv, ReminderStep
  PROVE  Inv'
<1>1. UNCHANGED <<req, items, recorded, approved, overlapped>>
  BY ReminderEffect
<1>2. \A t \in Tickets : /\ tickets'[t].status = tickets[t].status
                         /\ tickets'[t].revision = tickets[t].revision
                         /\ tickets[t].status = "unused" => tickets'[t] = tickets[t]
  BY ReminderEffect
<1>3. TypeOK'
  BY ReminderEffect DEF Inv, TypeOK
<1>4. RequestsOK'
  <2> SUFFICES ASSUME NEW q \in Requests  PROVE RequestOK(q)'
    BY DEF RequestsOK
  <2>1. RequestOK(q)
    BY DEF Inv, RequestsOK
  <2>2. req[q].kind = "create" => tickets'[req[q].ticket] = Unused
    BY <1>2, <2>1 DEF RequestOK, Asked, Unused
  <2> QED  BY <1>1, <1>2, <2>1, <2>2 DEF RequestOK, Asked, Seen, Returning
<1>5. RowsAsRead'
  <2>1. \A q \in Requests : req[q].kind \in {"prepare", "takeout"} => req[q].ticket \in Tickets
    BY DEF Inv, RequestsOK, RequestOK
  <2> QED  BY <1>1, <1>2, <2>1 DEF Inv, RowsAsRead, Exists, SameRows, Seen, Asked
<1> QED  BY <1>1, <1>3, <1>4, <1>5 DEF Inv, NeverMoreThanRequested, CreatesAlone, Asked,
            ReturnsFit, ReturnsApart, Fits, Returning

LEMMA Initially == Init => Inv
<1> SUFFICES ASSUME Init  PROVE Inv
  OBVIOUS
<1>1. Unused \in Ticket /\ NoLines \in Lines /\ Idle \in Request
  BY NoLinesTyped, IdleTyped, ConstantsAssumption DEF Unused, Ticket, Statuses
<1>2. Requested(NoLines) \in [Items -> Item] /\ Bounded(Requested(NoLines))
  BY <1>1, RequestedOK
<1>3. TypeOK
  <2>1. tickets \in [Tickets -> Ticket] /\ items \in [Tickets -> [Items -> Item]]
        /\ req \in [Requests -> Request]
    BY <1>1, <1>2 DEF Init
  <2>2. /\ recorded \in [Tickets -> [Counters -> Nat]] /\ overlapped \subseteq Tickets
        /\ spoiled \in BOOLEAN
    BY DEF Init
  <2>3. 0 \in 0..MaxClock /\ 0 \in 0..MaxRevisions /\ 0 \in 0..MaxFailures
    BY ConstantsAssumption
  <2>4. clock \in 0..MaxClock /\ approved \in [Tickets -> 0..MaxRevisions] /\ failures \in 0..MaxFailures
    BY <2>3 DEF Init
  <2>5. runs \in [Runs -> [due: SUBSET Tickets, telling: Tickets \cup {None}]]
    BY DEF Init, NoRun
  <2>6. told \in [Tickets -> Seq(0..MaxClock)]
    <3>1. <<>> \in Seq(0..MaxClock)
      OBVIOUS
    <3> QED  BY <3>1 DEF Init
  <2> QED  BY <2>1, <2>2, <2>4, <2>5, <2>6 DEF TypeOK
<1>4. NeverMoreThanRequested
  BY <1>2 DEF Init, NeverMoreThanRequested, Bounded
<1>5. RequestsOK /\ CreatesAlone /\ RowsAsRead /\ ReturnsFit /\ ReturnsApart
  BY DEF Init, RequestsOK, RequestOK, CreatesAlone, RowsAsRead, ReturnsFit, ReturnsApart, Idle,
     Returning, Returns
<1> QED  BY <1>3, <1>4, <1>5 DEF Inv

LEMMA NextKeeps ==
  ASSUME Inv, [Next]_vars
  PROVE  Inv'
<1>1. ASSUME NEW r \in Requests, Reads(r)  PROVE Inv'
  BY <1>1, ReadsStart, StartedKeeps
<1>2. ASSUME NEW r \in Requests, Writes(r)  PROVE Inv'
  <2>1. CASE \E row, rows : req[r].kind # "idle" /\ Wrote(r, row, rows)
    BY <2>1, WroteKeeps
  <2>2. CASE CreateTicket(r)
    <3>1. req[r].kind # "idle"
      BY <2>2 DEF CreateTicket
    <3> QED  BY <2>1, <2>2, <3>1, CreateWrites
  <2>3. CASE UpdateTicket(r)
    <3>1. req[r].kind # "idle"
      BY <2>3 DEF UpdateTicket, Ready
    <3> QED  BY <2>1, <2>3, <3>1, UpdateWrites
  <2>4. CASE DeleteTicket(r)
    <3>1. req[r].kind # "idle"
      BY <2>4 DEF DeleteTicket, Ready
    <3> QED  BY <2>1, <2>4, <3>1, DeleteWrites
  <2>5. CASE ApproveTicket(r) \/ PauseTicket(r) \/ RejectTicket(r) \/ ResumeTicket(r) \/ Treat(r)
    <3>1. req[r].kind # "idle"
      BY <2>5 DEF ApproveTicket, PauseTicket, RejectTicket, ResumeTicket, Treat, Ready
    <3> QED  BY <2>1, <2>5, <3>1, StatusWrites DEF StatusCall
  <2>6. CASE PrepareTicket(r)
    <3>1. req[r].kind # "idle"
      BY <2>6 DEF PrepareTicket, Ready
    <3> QED  BY <2>1, <2>6, <3>1, PrepareWrites
  <2>7. CASE ConfirmTakeout(r)
    <3>1. req[r].kind # "idle"
      BY <2>7 DEF ConfirmTakeout, Ready
    <3> QED  BY <2>1, <2>7, <3>1, TakeoutWrites
  <2>8. CASE LockItems(r)
    BY <2>8, LockProceeds, ProceededKeeps
  <2>9. CASE Decide(r)
    BY <2>9, DecideProceeds, ProceededKeeps
  <2>10. CASE CommitReturn(r)
    BY <2>10, CommitKeeps
  <2>11. CASE GiveUp(r)
    BY <2>11, GiveUpKeeps
  <2> QED  BY <1>2, <2>2, <2>3, <2>4, <2>5, <2>6, <2>7, <2>8, <2>9, <2>10, <2>11 DEF Writes
<1>3. CASE ReminderStep
  BY <1>3, ReminderKeeps
<1>4. CASE UNCHANGED vars
  <2> USE <1>4 DEF vars, reminders
  <2>1. TypeOK' /\ NeverMoreThanRequested'
    BY DEF Inv, TypeOK, NeverMoreThanRequested
  <2>2. RequestsOK' /\ CreatesAlone'
    BY DEF Inv, RequestsOK, RequestOK, CreatesAlone, Asked, Seen, Returning
  <2>3. RowsAsRead' /\ ReturnsFit' /\ ReturnsApart'
    BY DEF Inv, RowsAsRead, ReturnsFit, ReturnsApart, Fits, SameRows, Exists, Asked, Seen, Returning
  <2> QED  BY <2>1, <2>2, <2>3 DEF Inv
<1> QED  BY <1>1, <1>2, <1>3, <1>4 DEF Next, ReminderStep

LEMMA Invariance == Spec => []Inv
  BY Initially, NextKeeps, PTL DEF Spec

\* Every row, request in progress and history keeps its type, whatever overlaps.
THEOREM TypeCorrect == Spec => []TypeOK
<1>1. Inv => TypeOK
  BY DEF Inv
<1> QED  BY <1>1, Invariance, PTL

\* Requests may overlap in every way, die between their steps, and check rows that
\* were replaced since: still nothing is prepared, handed over or returned (with what
\* is announced) beyond what the ticket asks for, because returns lock the items they
\* check and replacing the items gives them a new revision.
THEOREM RequestedBounds == Spec => []NeverMoreThanRequested
<1>1. Inv => NeverMoreThanRequested
  BY DEF Inv
<1> QED  BY <1>1, Invariance, PTL

(***************************************************************************)
(* What holds of a ticket as long as no two requests worked on it at once,    *)
(* however many work on other tickets beside it.                            *)
(***************************************************************************)
Handed == Borrowed \cup {"approved", "being_prepared", "ready_for_pickup", "return_pending", "closed"}
Early == {"unused", "pending_approval", "approved", "being_prepared", "paused", "rejected", "deleted"}

\* Nothing is out.
Quiet(rows) == \A i \in Items : rows[i].received = 0 /\ rows[i].returned = 0 /\ rows[i].pending = 0
\* Nothing is prepared before the warehouse does, and nothing is out before pickup.
NothingEarly(status, rows) ==
  /\ status \in Early => \A i \in Items : rows[i].prepared = 0
  /\ status \in Early \cup {"ready_for_pickup"} => Quiet(rows)
Ordered(rows) == \A i \in Items : /\ rows[i].returned + rows[i].pending <= rows[i].received
                                  /\ rows[i].received <= rows[i].prepared
SomePending(rows) == \E i \in Items : rows[i].pending > 0
SomeBack(rows) == \E i \in Items : rows[i].returned > 0
SomeOut(rows) == \E i \in Items : rows[i].returned < rows[i].received
\* The body of BorrowAgrees.
Agrees(status, rows) ==
  /\ Ordered(rows)
  /\ status = "return_pending" <=> SomePending(rows)
  /\ status = "partially_returned" <=> SomeBack(rows) /\ SomeOut(rows) /\ ~SomePending(rows)
  /\ status = "closed" <=> SomeBack(rows) /\ ~SomeOut(rows)
\* What a pause goes back to was approved as it is, too.
AsApproved(row, revision) ==
  row.status \in Handed \/ (row.status = "paused" /\ row.pausedFrom = "approved") => revision = row.revision

Sound(t) ==
  /\ NothingEarly(tickets[t].status, items[t]) /\ Agrees(tickets[t].status, items[t])
  /\ AsApproved(tickets[t], approved[t])
  /\ \A c \in Counters : recorded[t][c] <= 1
SoundAlone == \A t \in Tickets \ overlapped : Sound(t)

\* Requests that are not alone on their ticket have marked it.
Alone ==
  \A r, q \in Requests : r # q /\ Asked(r) = Asked(q) /\ Asked(r) \in Tickets =>
    Asked(r) \in overlapped

\* The request still sees the ticket as it is.
Fresh(r) ==
  LET t == Asked(r)
  IN /\ Allowed(req[r].kind, tickets[t].status)
     /\ req[r].next # "commit" =>
          /\ Seen(r).status = tickets[t].status
          /\ Seen(r).pausedFrom = tickets[t].pausedFrom
          /\ Seen(r).revision = tickets[t].revision
     /\ req[r].next = "commit" =>
          \E fallback \in Statuses :
            Seen(r).status = ResolveBorrowTicketStatus(OwnItems(r), fallback)
     /\ req[r].kind = "takeout" => \A i \in Items : req[r].lines[i] <= items[t][i].prepared
     /\ Returning(r) /\ req[r].key # None => recorded[t][<<req[r].kind, req[r].key>>] = 0
FreshAlone ==
  \A r \in Requests : req[r].kind \notin {"idle", "create"} /\ Asked(r) \notin overlapped => Fresh(r)

AloneInv == Inv /\ Alone /\ FreshAlone /\ SoundAlone

LEMMA SoundMeans ==
  ASSUME SoundAlone  PROVE BorrowAgrees /\ UnchangedSinceApproval /\ KeyCountedOnce
<1>1. BorrowAgrees
  <2> SUFFICES ASSUME NEW t \in Tickets \ overlapped
               PROVE  LET status == tickets[t].status
                          pending == \E i \in Items : items[t][i].pending > 0
                          someBack == \E i \in Items : items[t][i].returned > 0
                          someOut == \E i \in Items : items[t][i].returned < items[t][i].received
                      IN /\ \A i \in Items : LET item == items[t][i]
                                             IN /\ item.returned + item.pending <= item.received
                                                /\ item.received <= item.prepared
                         /\ status = "return_pending" <=> pending
                         /\ status = "partially_returned" <=> someBack /\ someOut /\ ~pending
                         /\ status = "closed" <=> someBack /\ ~someOut
    BY DEF BorrowAgrees
  <2>1. Agrees(tickets[t].status, items[t])
    BY DEF SoundAlone, Sound
  <2> QED  BY <2>1 DEF Agrees, Ordered, SomePending, SomeBack, SomeOut
<1>2. UnchangedSinceApproval
  BY DEF SoundAlone, Sound, AsApproved, UnchangedSinceApproval, Handed
<1>3. KeyCountedOnce
  BY DEF SoundAlone, Sound, KeyCountedOnce
<1> QED  BY <1>1, <1>2, <1>3

\* With nothing out, a status that says so agrees.
LEMMA QuietAgrees ==
  ASSUME NEW rows \in [Items -> Item], Quiet(rows), NEW status,
         status \notin {"return_pending", "partially_returned", "closed"}
  PROVE  Agrees(status, rows)
<1>1. \A i \in Items : /\ rows[i].prepared \in Nat /\ rows[i].received = 0
                       /\ rows[i].returned = 0 /\ rows[i].pending = 0
  BY ConstantsAssumption DEF Quiet, Item, Quantities
<1>2. Ordered(rows) /\ ~SomePending(rows) /\ ~SomeBack(rows)
  BY <1>1 DEF Ordered, SomePending, SomeBack
<1> QED  BY <1>2 DEF Agrees

LEMMA RequestedQuiet ==
  ASSUME NEW lines \in Lines
  PROVE  /\ Quiet(Requested(lines)) /\ \A i \in Items : Requested(lines)[i].prepared = 0
  BY DEF Quiet, Requested

LEMMA OwnItemsKept ==
  ASSUME NEW q, req'[q] = req[q], items'[req[q].ticket] = items[req[q].ticket]
  PROVE  OwnItems(q)' = OwnItems(q)
<1>1. Lines0(q)' = Lines0(q)
  BY DEF Lines0
<1>2. ASSUME NEW i \in Items
      PROVE  ReturnedRow(q, items[Asked(q)][i], req[q].lines[i])' = ReturnedRow(q, items[Asked(q)][i], req[q].lines[i])
  BY DEF ReturnedRow, Asked
<1>3. Asked(q)' = Asked(q) /\ items'[Asked(q)] = items[Asked(q)]
  BY DEF Asked
<1> QED  BY <1>1, <1>2, <1>3 DEF OwnItems

(***************************************************************************)
(* A request that ends leaves a sound ticket, if it was alone on it.          *)
(***************************************************************************)
LEMMA EndKeeps ==
  ASSUME AloneInv, Inv', NEW r \in Requests, NEW t \in Tickets, t = Asked(r),
         req' = [req EXCEPT ![r] = Idle], overlapped' = overlapped,
         \A u \in Tickets : u # t => /\ tickets'[u] = tickets[u] /\ items'[u] = items[u]
                                     /\ recorded'[u] = recorded[u] /\ approved'[u] = approved[u],
         t \notin overlapped => Sound(t)'
  PROVE  AloneInv'
<1>1. req'[r] = Idle /\ \A q \in Requests : q # r => req'[q] = req[q]
  BY DEF AloneInv, Inv, TypeOK
<1>2. Alone'
  <2> SUFFICES ASSUME NEW p \in Requests, NEW q \in Requests, p # q, req'[p].ticket = req'[q].ticket,
                      req'[p].ticket \in Tickets
               PROVE  req'[p].ticket \in overlapped
    BY DEF Alone, Asked
  <2>1. p # r /\ q # r
    BY <1>1, ConstantsAssumption DEF Idle
  <2> QED  BY <1>1, <2>1 DEF AloneInv, Alone, Asked
<1>3. ASSUME NEW q \in Requests, req'[q].kind \notin {"idle", "create"}, req'[q].ticket \notin overlapped
      PROVE  Fresh(q)'
  <2>1. q # r /\ req'[q] = req[q]
    BY <1>1, <1>3 DEF Idle
  <2>2. req[q].ticket \in Tickets
    BY <1>3, <2>1 DEF AloneInv, Inv, RequestsOK, RequestOK
  <2>3. req[q].ticket # t
    BY <1>3, <2>1, <2>2 DEF AloneInv, Alone, Asked
  <2>4. Fresh(q)
    BY <1>3, <2>1 DEF AloneInv, FreshAlone, Asked
  <2>5. /\ tickets'[req[q].ticket] = tickets[req[q].ticket] /\ items'[req[q].ticket] = items[req[q].ticket]
        /\ recorded'[req[q].ticket] = recorded[req[q].ticket]
    BY <2>2, <2>3
  <2>6. OwnItems(q)' = OwnItems(q)
    BY <2>1, <2>5, OwnItemsKept
  <2> QED  BY <2>1, <2>4, <2>5, <2>6 DEF Fresh, Asked, Seen, Returning
<1>4. SoundAlone'
  <2> SUFFICES ASSUME NEW u \in Tickets \ overlapped  PROVE Sound(u)'
    BY DEF SoundAlone
  <2>1. CASE u = t
    BY <2>1
  <2>2. CASE u # t
    BY <2>2 DEF AloneInv, SoundAlone, Sound
  <2> QED  BY <2>1, <2>2
<1> QED  BY <1>2, <1>3, <1>4 DEF AloneInv, FreshAlone, Asked

LEMMA WriteKeeps ==
  ASSUME AloneInv, Inv', NEW r \in Requests, NEW t \in Tickets, t = Asked(r), NEW row, NEW rows,
         Write(r, row), items' = [items EXCEPT ![t] = rows],
         \A u \in Tickets : u # t => approved'[u] = approved[u],
         t \notin overlapped => /\ NothingEarly(row.status, rows) /\ Agrees(row.status, rows)
                                /\ AsApproved(row, approved'[t])
  PROVE  AloneInv'
<1>1. /\ tickets' = [tickets EXCEPT ![t] = row] /\ req' = [req EXCEPT ![r] = Idle]
      /\ UNCHANGED <<recorded, overlapped>>
  BY DEF Write, End
<1>2. /\ tickets'[t] = row /\ items'[t] = rows
      /\ \A u \in Tickets : u # t => tickets'[u] = tickets[u] /\ items'[u] = items[u]
  BY <1>1 DEF AloneInv, Inv, TypeOK
<1>3. ASSUME t \notin overlapped  PROVE Sound(t)'
  <2>1. \A c \in Counters : recorded[t][c] <= 1
    BY <1>3 DEF AloneInv, SoundAlone, Sound
  <2>2. NothingEarly(tickets[t].status, items[t])' /\ Agrees(tickets[t].status, items[t])'
        /\ AsApproved(tickets[t], approved[t])'
    BY <1>2, <1>3 DEF NothingEarly, Quiet, Agrees, Ordered, SomePending, SomeBack, SomeOut, AsApproved
  <2> QED  BY <1>1, <2>1, <2>2 DEF Sound
<1> QED  BY <1>1, <1>2, <1>3, EndKeeps

\* A write of the row alone.
LEMMA RowKeeps ==
  ASSUME AloneInv, Inv', NEW r \in Requests, NEW t \in Tickets, t = Asked(r), NEW row,
         Write(r, row), UNCHANGED items,
         \A u \in Tickets : u # t => approved'[u] = approved[u],
         t \notin overlapped => /\ NothingEarly(row.status, items[t]) /\ Agrees(row.status, items[t])
                                /\ AsApproved(row, approved'[t])
  PROVE  AloneInv'
<1>1. items' = [items EXCEPT ![t] = items[t]]
  BY DEF AloneInv, Inv, TypeOK
<1> QED  BY <1>1, WriteKeeps

\* What a request alone on its ticket may rely on.
LEMMA AloneOn ==
  ASSUME AloneInv, NEW r \in Requests, req[r].kind \notin {"idle", "create"},
         NEW t \in Tickets, t = Asked(r), t \notin overlapped
  PROVE  /\ Allowed(req[r].kind, tickets[t].status)
         /\ req[r].next # "commit" => /\ Seen(r).status = tickets[t].status
                                      /\ Seen(r).pausedFrom = tickets[t].pausedFrom
                                      /\ Seen(r).revision = tickets[t].revision
         /\ NothingEarly(tickets[t].status, items[t]) /\ Agrees(tickets[t].status, items[t])
         /\ AsApproved(tickets[t], approved[t])
  BY DEF AloneInv, FreshAlone, Fresh, SoundAlone, Sound

LEMMA Typed ==
  ASSUME Inv, NEW t \in Tickets
  PROVE  /\ tickets[t] \in Ticket /\ items[t] \in [Items -> Item]
         /\ approved \in [Tickets -> 0..MaxRevisions]
  BY DEF Inv, TypeOK

(***************************************************************************)
(* Before pickup: the status moves, nothing is out.                         *)
(***************************************************************************)
\* An early status may follow an early one.
LEMMA EarlyMoves ==
  ASSUME Inv, NEW t \in Tickets, tickets[t].status \in Early, NothingEarly(tickets[t].status, items[t]),
         NEW status \in Early \cup {"ready_for_pickup"}
  PROVE  NothingEarly(status, items[t]) /\ Agrees(status, items[t])
<1>1. Quiet(items[t]) /\ \A i \in Items : items[t][i].prepared = 0
  BY DEF NothingEarly
<1>2. status \notin {"return_pending", "partially_returned", "closed"}
  BY DEF Early
<1>3. Agrees(status, items[t])
  BY <1>1, <1>2, Typed, QuietAgrees
<1> QED  BY <1>1, <1>3 DEF NothingEarly

LEMMA StatusKeepsAlone ==
  ASSUME AloneInv, Inv', NEW r \in Requests, StatusCall(r)
  PROVE  AloneInv'
<1> DEFINE t == Asked(r)
<1>1. /\ req[r].kind \notin {"idle", "create"} /\ req[r].next = "write" /\ UNCHANGED items
  BY DEF StatusCall, ApproveTicket, PauseTicket, RejectTicket, ResumeTicket, Treat, Ready
<1>2. PICK u \in Tickets : u = t
  BY <1>1 DEF AloneInv, Inv, RequestsOK, RequestOK, Asked
<1>3. tickets[u] \in Ticket /\ approved \in [Tickets -> 0..MaxRevisions]
  BY Typed DEF AloneInv
<1>4. \A v \in Tickets : v # u => approved'[v] = approved[v]
  BY <1>2, <1>3 DEF StatusCall, ApproveTicket, PauseTicket, RejectTicket, ResumeTicket, Treat
<1>5. ASSUME u \notin overlapped
      PROVE  /\ Allowed(req[r].kind, tickets[u].status)
             /\ Seen(r).status = tickets[u].status /\ Seen(r).pausedFrom = tickets[u].pausedFrom
             /\ Seen(r).revision = tickets[u].revision
             /\ NothingEarly(tickets[u].status, items[u]) /\ AsApproved(tickets[u], approved[u])
  BY <1>1, <1>2, <1>5, AloneOn
<1>6. ASSUME u \notin overlapped, tickets[u].status \in Early, NEW status \in Early
      PROVE  NothingEarly(status, items[u]) /\ Agrees(status, items[u])
  BY <1>5, <1>6, EarlyMoves DEF AloneInv
<1>7. CASE ApproveTicket(r)
  <2> DEFINE row == [tickets[u] EXCEPT !.status = "approved", !.pausedFrom = None]
  <2>1. Write(r, row) /\ req[r].kind = "approve" /\ approved' = [approved EXCEPT ![u] = Seen(r).revision]
    BY <1>2, <1>7 DEF ApproveTicket, Ready
  <2>2. row.status = "approved" /\ row.revision = tickets[u].revision /\ approved'[u] = Seen(r).revision
    BY <1>3, <2>1 DEF Ticket
  <2>3. ASSUME u \notin overlapped
        PROVE  NothingEarly(row.status, items[u]) /\ Agrees(row.status, items[u]) /\ AsApproved(row, approved'[u])
    <3>1. tickets[u].status = "pending_approval"
      BY <1>5, <2>1, <2>3 DEF Allowed
    <3> QED  BY <1>5, <1>6, <2>2, <2>3, <3>1 DEF Early, AsApproved
  <2> QED  BY <1>1, <1>2, <1>4, <2>1, <2>3, RowKeeps
<1>8. CASE PauseTicket(r)
  <2> DEFINE row == [tickets[u] EXCEPT !.status = "paused", !.pausedFrom = Seen(r).status]
  <2>1. Write(r, row) /\ req[r].kind = "pause" /\ approved' = approved
    BY <1>2, <1>8 DEF PauseTicket, Ready
  <2>2. row.status = "paused" /\ row.revision = tickets[u].revision /\ row.pausedFrom = Seen(r).status
    BY <1>3 DEF Ticket
  <2>3. ASSUME u \notin overlapped
        PROVE  NothingEarly(row.status, items[u]) /\ Agrees(row.status, items[u]) /\ AsApproved(row, approved'[u])
    <3>1. tickets[u].status \in {"pending_approval", "approved"}
      BY <1>5, <2>1, <2>3 DEF Allowed
    <3>2. NothingEarly(row.status, items[u]) /\ Agrees(row.status, items[u])
      BY <1>6, <2>2, <2>3, <3>1 DEF Early
    <3>3. AsApproved(row, approved'[u])
      BY <1>5, <2>1, <2>2, <2>3 DEF AsApproved, Handed, Borrowed
    <3> QED  BY <3>2, <3>3
  <2> QED  BY <1>1, <1>2, <1>4, <2>1, <2>3, RowKeeps
<1>9. CASE RejectTicket(r)
  <2> DEFINE row == [tickets[u] EXCEPT !.status = "rejected"]
  <2>1. Write(r, row) /\ req[r].kind = "reject"
    BY <1>2, <1>9 DEF RejectTicket, Ready
  <2>2. row.status = "rejected"
    BY <1>3 DEF Ticket
  <2>3. ASSUME u \notin overlapped
        PROVE  NothingEarly(row.status, items[u]) /\ Agrees(row.status, items[u]) /\ AsApproved(row, approved'[u])
    <3>1. tickets[u].status \in {"pending_approval", "approved", "paused"}
      BY <1>5, <2>1, <2>3 DEF Allowed
    <3> QED  BY <1>6, <2>2, <2>3, <3>1 DEF Early, AsApproved, Handed, Borrowed
  <2> QED  BY <1>1, <1>2, <1>4, <2>1, <2>3, RowKeeps
<1>10. CASE ResumeTicket(r)
  <2> DEFINE row == [tickets[u] EXCEPT !.status = Resumed(Seen(r)), !.pausedFrom = None]
  <2>1. Write(r, row) /\ req[r].kind = "resume" /\ approved' = approved
    BY <1>2, <1>10 DEF ResumeTicket, Ready
  <2>2. /\ row.status = Resumed(Seen(r)) /\ row.revision = tickets[u].revision
        /\ row.status \in {"approved", "pending_approval"}
    BY <1>3 DEF Ticket, Resumed
  <2>3. ASSUME u \notin overlapped
        PROVE  NothingEarly(row.status, items[u]) /\ Agrees(row.status, items[u]) /\ AsApproved(row, approved'[u])
    <3>1. tickets[u].status = "paused"
      BY <1>5, <2>1, <2>3 DEF Allowed
    <3>2. NothingEarly(row.status, items[u]) /\ Agrees(row.status, items[u])
      BY <1>6, <2>2, <2>3, <3>1 DEF Early
    <3>3. row.status = "approved" => tickets[u].pausedFrom = "approved"
      BY <1>5, <2>2, <2>3 DEF Resumed
    <3>4. AsApproved(row, approved'[u])
      BY <1>5, <2>1, <2>2, <2>3, <3>1, <3>3 DEF AsApproved, Handed, Borrowed
    <3> QED  BY <3>2, <3>4
  <2> QED  BY <1>1, <1>2, <1>4, <2>1, <2>3, RowKeeps
<1>11. CASE Treat(r)
  <2> DEFINE row == [tickets[u] EXCEPT !.status = "being_prepared"]
  <2>1. Write(r, row) /\ req[r].kind = "treat" /\ approved' = approved
    BY <1>2, <1>11 DEF Treat, Ready
  <2>2. row.status = "being_prepared" /\ row.revision = tickets[u].revision
    BY <1>3 DEF Ticket
  <2>3. ASSUME u \notin overlapped
        PROVE  NothingEarly(row.status, items[u]) /\ Agrees(row.status, items[u]) /\ AsApproved(row, approved'[u])
    <3>1. tickets[u].status = "approved"
      BY <1>5, <2>1, <2>3 DEF Allowed
    <3>2. NothingEarly(row.status, items[u]) /\ Agrees(row.status, items[u])
      BY <1>6, <2>2, <2>3, <3>1 DEF Early
    <3>3. AsApproved(row, approved'[u])
      BY <1>5, <2>1, <2>2, <2>3, <3>1 DEF AsApproved, Handed
    <3> QED  BY <3>2, <3>3
  <2> QED  BY <1>1, <1>2, <1>4, <2>1, <2>3, RowKeeps
<1> QED  BY <1>7, <1>8, <1>9, <1>10, <1>11 DEF StatusCall

LEMMA UpdateKeepsAlone ==
  ASSUME AloneInv, Inv', NEW r \in Requests, UpdateTicket(r)
  PROVE  AloneInv'
<1>1. /\ req[r].kind = "update" /\ req[r].next = "write" /\ approved' = approved
  BY DEF UpdateTicket, Ready
<1>2. PICK t \in Tickets : t = Asked(r)
  BY <1>1 DEF AloneInv, Inv, RequestsOK, RequestOK, Asked
<1>3. tickets[t] \in Ticket /\ items[t] \in [Items -> Item] /\ req[r].lines \in Lines
  BY <1>1, Typed, RequestTyped DEF AloneInv
<1> DEFINE row == Updated(tickets[t], Seen(r))
           next == [row EXCEPT !.revision = @ + 1]
<1>4. row \in Ticket /\ row.status = IF Seen(r).status = "paused" THEN "pending_approval" ELSE tickets[t].status
  BY <1>3 DEF Updated, Ticket, Statuses
<1>5. next.status = row.status
  BY <1>4 DEF Ticket
<1> HIDE DEF row, next
<1>6. ASSUME t \notin overlapped
      PROVE  /\ row.status = "pending_approval"
             /\ tickets[t].status \in Early /\ NothingEarly(tickets[t].status, items[t])
  <2>1. Allowed("update", tickets[t].status) /\ Seen(r).status = tickets[t].status
        /\ NothingEarly(tickets[t].status, items[t])
    BY <1>1, <1>2, <1>6, AloneOn
  <2> QED  BY <1>4, <2>1 DEF Allowed, Early
<1>7. CASE req[r].lines = NoLines
  <2>1. Write(r, row) /\ UNCHANGED items
    BY <1>2, <1>7 DEF UpdateTicket, row
  <2>2. ASSUME t \notin overlapped
        PROVE  NothingEarly(row.status, items[t]) /\ Agrees(row.status, items[t]) /\ AsApproved(row, approved'[t])
    <3>1. "pending_approval" \in Early
      BY DEF Early
    <3> QED  BY <1>6, <2>2, <3>1, EarlyMoves DEF AloneInv, AsApproved, Handed, Borrowed
  <2> QED  BY <1>1, <1>2, <2>1, <2>2, RowKeeps
<1>8. CASE req[r].lines # NoLines
  <2> DEFINE rows == Requested(req[r].lines)
  <2>1. Write(r, next) /\ items' = [items EXCEPT ![t] = rows]
    BY <1>2, <1>8 DEF UpdateTicket, row, next
  <2>2. Quiet(rows) /\ rows \in [Items -> Item] /\ \A i \in Items : rows[i].prepared = 0
    BY <1>3, RequestedQuiet, RequestedOK
  <2> HIDE DEF rows
  <2>3. ASSUME t \notin overlapped
        PROVE  NothingEarly(next.status, rows) /\ Agrees(next.status, rows) /\ AsApproved(next, approved'[t])
    BY <1>5, <1>6, <2>2, <2>3, QuietAgrees DEF NothingEarly, AsApproved, Handed, Borrowed
  <2> QED  BY <1>1, <1>2, <2>1, <2>3, WriteKeeps
<1> QED  BY <1>7, <1>8

LEMMA DeleteKeepsAlone ==
  ASSUME AloneInv, Inv', NEW r \in Requests, DeleteTicket(r)
  PROVE  AloneInv'
<1> DEFINE row == [Unused EXCEPT !.status = "deleted"]
           rows == Requested(NoLines)
<1>1. PICK t \in Tickets : t = Asked(r)
  BY DEF DeleteTicket, Ready, AloneInv, Inv, RequestsOK, RequestOK, Asked
<1>2. Write(r, row) /\ items' = [items EXCEPT ![t] = rows] /\ approved' = approved
  BY <1>1 DEF DeleteTicket
<1>3. row.status = "deleted"
  BY DEF Unused
<1>4. Quiet(rows) /\ rows \in [Items -> Item] /\ \A i \in Items : rows[i].prepared = 0
  BY RequestedQuiet, RequestedOK, NoLinesTyped
<1> HIDE DEF row, rows
<1>5. NothingEarly(row.status, rows) /\ Agrees(row.status, rows) /\ AsApproved(row, approved'[t])
  BY <1>3, <1>4, QuietAgrees DEF NothingEarly, AsApproved, Handed, Borrowed
<1> QED  BY <1>1, <1>2, <1>5, WriteKeeps

LEMMA CreateKeepsAlone ==
  ASSUME AloneInv, Inv', NEW r \in Requests, CreateTicket(r)
  PROVE  AloneInv'
<1> DEFINE row == NewTicket(Seen(r).code)
           rows == Requested(req[r].lines)
<1>1. PICK t \in Tickets : t = Asked(r)
  BY DEF CreateTicket, AloneInv, Inv, RequestsOK, RequestOK, Asked
<1>2. Write(r, row) /\ items' = [items EXCEPT ![t] = rows] /\ approved' = approved
  BY <1>1 DEF CreateTicket
<1>3. row.status = "pending_approval"
  BY DEF NewTicket
<1>4. Quiet(rows) /\ rows \in [Items -> Item] /\ \A i \in Items : rows[i].prepared = 0
  <2>1. req[r].lines \in Lines
    BY RequestTyped DEF AloneInv, CreateTicket
  <2> QED  BY <2>1, RequestedQuiet, RequestedOK
<1> HIDE DEF row, rows
<1>5. NothingEarly(row.status, rows) /\ Agrees(row.status, rows) /\ AsApproved(row, approved'[t])
  BY <1>3, <1>4, QuietAgrees DEF NothingEarly, AsApproved, Handed, Borrowed
<1> QED  BY <1>1, <1>2, <1>5, WriteKeeps

LEMMA PrepareKeepsAlone ==
  ASSUME AloneInv, Inv', NEW r \in Requests, PrepareTicket(r)
  PROVE  AloneInv'
<1>1. req[r].kind = "prepare" /\ req[r].next = "write" /\ approved' = approved
  BY DEF PrepareTicket, Ready
<1>2. PICK t \in Tickets : t = Asked(r)
  BY <1>1 DEF AloneInv, Inv, RequestsOK, RequestOK, Asked
<1>3. tickets[t] \in Ticket /\ items[t] \in [Items -> Item] /\ req[r].lines \in Lines
  BY <1>1, Typed, RequestTyped DEF AloneInv
<1> DEFINE row == [tickets[t] EXCEPT !.status = "ready_for_pickup"]
           prepared == [i \in Items |-> [items[t][i] EXCEPT !.prepared = req[r].lines[i]]]
           rows == IF SameRows(r) THEN prepared ELSE items[t]
<1>4. row.status = "ready_for_pickup" /\ row.revision = tickets[t].revision
  BY <1>3 DEF Ticket
<1>5. Write(r, row)
  BY <1>2 DEF PrepareTicket
<1>6. items' = [items EXCEPT ![t] = rows]
  <2>1. items = [items EXCEPT ![t] = items[t]]
    BY DEF AloneInv, Inv, TypeOK
  <2> QED  BY <1>2, <2>1 DEF PrepareTicket
<1>7. ASSUME t \notin overlapped
      PROVE  NothingEarly(row.status, rows) /\ Agrees(row.status, rows) /\ AsApproved(row, approved'[t])
  <2>1. /\ Allowed("prepare", tickets[t].status) /\ NothingEarly(tickets[t].status, items[t])
        /\ AsApproved(tickets[t], approved[t])
    BY <1>1, <1>2, <1>7, AloneOn
  <2>2. tickets[t].status \in Early /\ tickets[t].status \in Handed
    BY <2>1 DEF Allowed, Early, Handed
  <2>3. Quiet(items[t])
    BY <2>1, <2>2 DEF NothingEarly
  <2>4. prepared \in [Items -> Item]
    BY <1>3 DEF Item, Lines
  <2>5. Quiet(prepared)
    BY <1>3, <2>3 DEF Quiet, Item
  <2>6. rows \in [Items -> Item] /\ Quiet(rows)
    BY <1>3, <2>3, <2>4, <2>5
  <2> HIDE DEF rows
  <2>7. NothingEarly(row.status, rows) /\ Agrees(row.status, rows)
    BY <1>4, <2>6, QuietAgrees DEF NothingEarly, Early
  <2>8. AsApproved(row, approved'[t])
    BY <1>1, <1>4, <2>1, <2>2 DEF AsApproved
  <2> QED  BY <2>7, <2>8
<1> HIDE DEF row, rows
<1> QED  BY <1>1, <1>2, <1>5, <1>6, <1>7, WriteKeeps

LEMMA TakeoutKeepsAlone ==
  ASSUME AloneInv, Inv', NEW r \in Requests, ConfirmTakeout(r)
  PROVE  AloneInv'
<1>1. req[r].kind = "takeout" /\ req[r].next = "write" /\ approved' = approved
  BY DEF ConfirmTakeout, Ready
<1>2. PICK t \in Tickets : t = Asked(r)
  BY <1>1 DEF AloneInv, Inv, RequestsOK, RequestOK, Asked
<1>3. tickets[t] \in Ticket /\ items[t] \in [Items -> Item] /\ req[r].lines \in Lines
  BY <1>1, Typed, RequestTyped DEF AloneInv
<1> DEFINE row == [tickets[t] EXCEPT !.status = "received_borrowed", !.due = clock + ReminderDays]
           received == [i \in Items |-> [items[t][i] EXCEPT !.received = req[r].lines[i]]]
           rows == IF SameRows(r) THEN received ELSE items[t]
<1>4. row.status = "received_borrowed" /\ row.revision = tickets[t].revision
  BY <1>3 DEF Ticket
<1>5. Write(r, row)
  BY <1>2 DEF ConfirmTakeout
<1>6. items' = [items EXCEPT ![t] = rows]
  <2>1. items = [items EXCEPT ![t] = items[t]]
    BY DEF AloneInv, Inv, TypeOK
  <2> QED  BY <1>2, <2>1 DEF ConfirmTakeout
<1>7. ASSUME t \notin overlapped
      PROVE  NothingEarly(row.status, rows) /\ Agrees(row.status, rows) /\ AsApproved(row, approved'[t])
  <2>1. /\ Allowed("takeout", tickets[t].status) /\ NothingEarly(tickets[t].status, items[t])
        /\ AsApproved(tickets[t], approved[t])
    BY <1>1, <1>2, <1>7, AloneOn
  <2>2. tickets[t].status = "ready_for_pickup"
    BY <2>1 DEF Allowed
  <2>3. Quiet(items[t])
    BY <2>1, <2>2 DEF NothingEarly
  <2>4. \A i \in Items : req[r].lines[i] <= items[t][i].prepared
    BY <1>1, <1>2, <1>7 DEF AloneInv, FreshAlone, Fresh
  <2>5. \A i \in Items : /\ rows[i].returned = 0 /\ rows[i].pending = 0
                         /\ rows[i].received \in Nat /\ rows[i].received <= rows[i].prepared
    <3> TAKE i \in Items
    <3>1. /\ items[t][i] \in Item /\ items[t][i].received = 0 /\ items[t][i].returned = 0
          /\ items[t][i].pending = 0 /\ req[r].lines[i] <= items[t][i].prepared
      BY <1>3, <2>3, <2>4 DEF Quiet
    <3>2. req[r].lines[i] \in Nat /\ items[t][i].prepared \in Nat
      BY <1>3, <3>1, ConstantsAssumption DEF Item, Lines, Quantities
    <3> QED  BY <3>1, <3>2 DEF Item
  <2> HIDE DEF rows
  <2>6. Ordered(rows) /\ ~SomePending(rows) /\ ~SomeBack(rows)
    BY <2>5 DEF Ordered, SomePending, SomeBack
  <2>7. NothingEarly(row.status, rows) /\ Agrees(row.status, rows)
    BY <1>4, <2>6 DEF NothingEarly, Early, Agrees
  <2>8. AsApproved(row, approved'[t])
    BY <1>1, <1>4, <2>1, <2>2 DEF AsApproved, Handed
  <2> QED  BY <2>7, <2>8
<1> HIDE DEF row, rows
<1> QED  BY <1>1, <1>2, <1>5, <1>6, <1>7, WriteKeeps

(***************************************************************************)
(* Returns.                                                                *)
(***************************************************************************)
\* The status a return decides agrees with the items it leaves.
LEMMA ResolveAgrees ==
  ASSUME NEW rows \in [Items -> Item], Ordered(rows), \E i \in Items : rows[i].received > 0,
         NEW fallback
  PROVE  /\ Agrees(ResolveBorrowTicketStatus(rows, fallback), rows)
         /\ ResolveBorrowTicketStatus(rows, fallback) \in
              {"return_pending", "closed", "partially_returned", "received_borrowed"}
<1>1. \A i \in Items : /\ rows[i].received \in Nat /\ rows[i].returned \in Nat /\ rows[i].pending \in Nat
                       /\ rows[i].returned + rows[i].pending <= rows[i].received
                       /\ Outstanding(rows[i]) = IF rows[i].received > rows[i].returned
                                                 THEN rows[i].received - rows[i].returned ELSE 0
  BY ItemArithmetic, ConstantsAssumption DEF Ordered, Item, Quantities
<1>2. ~\A i \in Items : rows[i].received = 0
  BY <1>1
<1>3. (\A i \in Items : Outstanding(rows[i]) = 0) <=> ~SomeOut(rows)
  BY <1>1 DEF SomeOut
<1>4. SomePending(rows) => SomeOut(rows)
  BY <1>1 DEF SomePending, SomeOut
<1>5. SomeOut(rows) \/ SomeBack(rows)
  BY <1>1 DEF SomeOut, SomeBack
<1>6. ResolveBorrowTicketStatus(rows, fallback) =
        IF SomePending(rows) THEN "return_pending" ELSE IF ~SomeOut(rows) THEN "closed"
        ELSE IF SomeBack(rows) THEN "partially_returned" ELSE "received_borrowed"
  BY <1>2, <1>3 DEF ResolveBorrowTicketStatus, SomePending, SomeBack
<1> QED  BY <1>4, <1>5, <1>6 DEF Agrees

\* A return that was let through finds its ticket borrowed, or announced.
LEMMA ReturningHanded ==
  ASSUME AloneInv, NEW r \in Requests, Returning(r), NEW t \in Tickets, t = Asked(r),
         t \notin overlapped
  PROVE  /\ tickets[t].status \in Borrowed \cup {"return_pending"}
         /\ \E i \in Items : req[r].lines[i] > 0 /\ items[t][i].received > 0
<1>1. req[r].kind \in Returns /\ req[r].kind \notin {"idle", "create"} /\ req[r].lines # NoLines
  BY DEF AloneInv, Inv, RequestsOK, RequestOK, Returns
<1>2. req[r].lines \in Lines /\ items[t] \in [Items -> Item]
  BY <1>1, RequestTyped, Typed DEF AloneInv
<1>3. PICK i \in Items : req[r].lines[i] # 0
  BY <1>1, <1>2 DEF NoLines, Lines
<1>4. /\ req[r].lines[i] \in Nat /\ req[r].lines[i] > 0 /\ items[t][i].received \in Nat
      /\ items[t][i].returned \in Nat /\ items[t][i].pending \in Nat
  BY <1>2, <1>3, ConstantsAssumption DEF Lines, Item, Quantities
<1>5. Fits(r, i)
  BY <1>4 DEF AloneInv, Inv, ReturnsFit
<1>6. Allowed(req[r].kind, tickets[t].status) /\ Agrees(tickets[t].status, items[t])
  BY <1>1, AloneOn
<1>7. CASE req[r].kind = "initiate"
  BY <1>4, <1>5, <1>6, <1>7 DEF Fits, Allowed
<1>8. CASE req[r].kind = "confirm"
  <2>1. req[r].lines[i] <= items[t][i].pending /\ items[t][i].returned + req[r].lines[i] <= items[t][i].received
    BY <1>5, <1>8 DEF Fits
  <2>2. items[t][i].pending > 0 /\ items[t][i].received > 0
    BY <1>4, <2>1
  <2>3. tickets[t].status = "return_pending"
    BY <1>6, <2>2 DEF Agrees, SomePending
  <2> QED  BY <1>4, <2>2, <2>3
<1> QED  BY <1>1, <1>7, <1>8 DEF Returns

LEMMA CommitKeepsAlone ==
  ASSUME AloneInv, Inv', NEW r \in Requests, CommitReturn(r)
  PROVE  AloneInv'
<1>1. Returning(r) /\ req[r].kind \notin {"idle", "create"} /\ req[r].kind \in Returns
  BY DEF CommitReturn, Returning, Returns, AloneInv, Inv, RequestsOK, RequestOK
<1>2. PICK t \in Tickets : t = Asked(r)
  BY <1>1 DEF AloneInv, Inv, RequestsOK, RequestOK, Asked
<1> DEFINE rows == OwnItems(r)
           row == [tickets[t] EXCEPT !.status = Seen(r).status]
<1>3. tickets[t] \in Ticket /\ items[t] \in [Items -> Item] /\ req[r] \in Request
  BY <1>1, Typed, RequestTyped DEF AloneInv
<1>4. /\ tickets' = [tickets EXCEPT ![t] = row] /\ items' = [items EXCEPT ![t] = rows]
      /\ recorded' = Count(recorded, r) /\ req' = [req EXCEPT ![r] = Idle]
      /\ UNCHANGED <<approved, overlapped>>
  BY <1>2 DEF CommitReturn, End
<1>5. tickets'[t] = row /\ items'[t] = rows
      /\ \A u \in Tickets : u # t => tickets'[u] = tickets[u] /\ items'[u] = items[u]
  BY <1>4 DEF AloneInv, Inv, TypeOK
<1>6. \A u \in Tickets : u # t => recorded'[u] = recorded[u]
  BY <1>2, <1>4 DEF Count, AloneInv, Inv, TypeOK
<1>7. row.status = Seen(r).status /\ row.revision = tickets[t].revision
  BY <1>3 DEF Ticket
<1>8. rows \in [Items -> Item]
  BY <1>1, OwnItemsOK DEF AloneInv
<1>9. ASSUME t \notin overlapped  PROVE Sound(t)'
  <2>1. /\ tickets[t].status \in Borrowed \cup {"return_pending"}
        /\ \E i \in Items : req[r].lines[i] > 0 /\ items[t][i].received > 0
    BY <1>1, <1>2, <1>9, ReturningHanded
  <2>2. Agrees(tickets[t].status, items[t]) /\ AsApproved(tickets[t], approved[t])
    BY <1>1, <1>2, <1>9, AloneOn
  <2>3. \A i \in Items : /\ rows[i].prepared = items[t][i].prepared
                         /\ rows[i].received = items[t][i].received
                         /\ \/ rows[i].returned + rows[i].pending <= rows[i].received
                            \/ rows[i].returned + rows[i].pending = items[t][i].returned + items[t][i].pending
    <3> TAKE i \in Items
    <3>1. req[r].lines[i] > 0 \/ req[r].lines[i] = 0
      BY <1>3, ConstantsAssumption DEF Request, Lines, Quantities
    <3> QED  BY <1>1, <1>2, <3>1, OwnItemsOK DEF AloneInv
  <2>4. Ordered(rows) /\ \E i \in Items : rows[i].received > 0
    BY <2>1, <2>2, <2>3 DEF Agrees, Ordered
  <2>5. PICK fallback \in Statuses : Seen(r).status = ResolveBorrowTicketStatus(rows, fallback)
    BY <1>1, <1>2, <1>9 DEF AloneInv, FreshAlone, Fresh, CommitReturn
  <2>6. /\ Agrees(row.status, rows)
        /\ row.status \in {"return_pending", "closed", "partially_returned", "received_borrowed"}
    BY <1>7, <1>8, <2>4, <2>5, ResolveAgrees
  <2>7. NothingEarly(row.status, rows)
    BY <2>6 DEF NothingEarly, Early
  <2>8. AsApproved(row, approved[t])
    BY <1>7, <2>1, <2>2 DEF AsApproved, Handed
  <2>9. \A c \in Counters : recorded'[t][c] <= 1
    <3> TAKE c \in Counters
    <3> DEFINE own == <<req[r].kind, req[r].key>>
    <3>1. recorded[t] \in [Counters -> Nat] /\ recorded[t][c] <= 1
      BY <1>9 DEF AloneInv, Inv, TypeOK, SoundAlone, Sound
    <3>2. CASE req[r].key = None
      BY <1>4, <3>1, <3>2 DEF Count
    <3>3. CASE req[r].key # None
      <4>1. own \in Counters /\ recorded[t][own] = 0
        BY <1>1, <1>2, <1>3, <1>9, <3>3 DEF Request, Counters, Returns, AloneInv, FreshAlone, Fresh
      <4>2. recorded'[t] = [recorded[t] EXCEPT ![own] = @ + 1]
        BY <1>2, <1>4, <3>3 DEF Count, AloneInv, Inv, TypeOK
      <4> QED  BY <3>1, <4>1, <4>2
    <3> QED  BY <3>2, <3>3
  <2> HIDE DEF rows, row
  <2>10. NothingEarly(tickets[t].status, items[t])' /\ Agrees(tickets[t].status, items[t])'
         /\ AsApproved(tickets[t], approved[t])'
    BY <1>4, <1>5, <2>6, <2>7, <2>8
       DEF NothingEarly, Quiet, Agrees, Ordered, SomePending, SomeBack, SomeOut, AsApproved
  <2> QED  BY <2>9, <2>10 DEF Sound
<1> QED  BY <1>2, <1>4, <1>5, <1>6, <1>9, EndKeeps

LEMMA GiveUpKeepsAlone ==
  ASSUME AloneInv, Inv', NEW r \in Requests, GiveUp(r)
  PROVE  AloneInv'
<1>1. req' = [req EXCEPT ![r] = Idle] /\ UNCHANGED <<tickets, items, recorded, approved, overlapped>>
  BY DEF GiveUp, End
<1>2. PICK t \in Tickets : t = Asked(r)
  BY DEF GiveUp, AloneInv, Inv, RequestsOK, RequestOK, Asked
<1>3. t \notin overlapped => Sound(t)'
  BY <1>1 DEF AloneInv, SoundAlone, Sound
<1> QED  BY <1>1, <1>2, <1>3, EndKeeps

LEMMA ProceededKeepsAlone ==
  ASSUME AloneInv, Inv', NEW r \in Requests, NEW call, Proceeded(r, call),
         Asked(r) \notin overlapped => Fresh(r)'
  PROVE  AloneInv'
<1>1. req'[r] = call /\ (\A q \in Requests : q # r => req'[q] = req[q])
      /\ UNCHANGED <<tickets, items, recorded, approved, overlapped>>
  BY DEF Proceeded, AloneInv, Inv, TypeOK
<1>2. call.ticket = req[r].ticket /\ call.kind = req[r].kind
  BY DEF Proceeded
<1>3. Alone'
  BY <1>1, <1>2 DEF AloneInv, Alone, Asked
<1>4. ASSUME NEW q \in Requests, req'[q].kind \notin {"idle", "create"}, req'[q].ticket \notin overlapped
      PROVE  Fresh(q)'
  <2>1. CASE q = r
    BY <1>1, <1>2, <1>4, <2>1 DEF Asked
  <2>2. CASE q # r
    <3>1. req'[q] = req[q] /\ Fresh(q)
      BY <1>1, <1>4, <2>2 DEF AloneInv, FreshAlone, Asked
    <3>2. OwnItems(q)' = OwnItems(q)
      BY <1>1, <3>1, OwnItemsKept
    <3> QED  BY <1>1, <3>1, <3>2 DEF Fresh, Asked, Seen, Returning
  <2> QED  BY <2>1, <2>2
<1>5. SoundAlone'
  BY <1>1 DEF AloneInv, SoundAlone, Sound
<1> QED  BY <1>1, <1>3, <1>4, <1>5 DEF AloneInv, FreshAlone, Asked

LEMMA LockKeepsAlone ==
  ASSUME AloneInv, Inv', NEW r \in Requests, LockItems(r)
  PROVE  AloneInv'
<1> DEFINE call == [req[r] EXCEPT !.next = "decide"]
<1>1. Proceeded(r, call) /\ req[r].kind \in Returns /\ req[r].next = "write"
  BY LockProceeds DEF AloneInv, LockItems, Ready, Returns
<1>2. req[r] \in Request
  BY <1>1, RequestTyped DEF AloneInv, Returns
<1>3. /\ req'[r] = call /\ call.kind = req[r].kind /\ call.ticket = req[r].ticket
      /\ call.read = req[r].read /\ call.key = req[r].key /\ call.next = "decide"
      /\ UNCHANGED <<tickets, items, recorded>>
  BY <1>1, <1>2 DEF Proceeded, Request, AloneInv, Inv, TypeOK
<1>4. ASSUME Asked(r) \notin overlapped  PROVE Fresh(r)'
  <2>1. Fresh(r)
    BY <1>1, <1>4 DEF AloneInv, FreshAlone, Returns
  <2>2. req[r].key # None => recorded[req[r].ticket][<<req[r].kind, req[r].key>>] = 0
    <3>1. ASSUME req[r].key # None
          PROVE  recorded[req[r].ticket][<<req[r].kind, req[r].key>>] \in Nat
      <4>1. <<req[r].kind, req[r].key>> \in Counters /\ req[r].ticket \in Tickets
        BY <1>1, <1>2, <3>1 DEF Request, Counters, Returns, AloneInv, Inv, RequestsOK, RequestOK
      <4> QED  BY <4>1 DEF AloneInv, Inv, TypeOK
    <3> QED  BY <3>1 DEF LockItems, AlreadyRecorded, Asked
  <2> QED  BY <1>1, <1>3, <2>1, <2>2 DEF Fresh, Asked, Seen, Returning, Returns
<1> QED  BY <1>1, <1>4, ProceededKeepsAlone

LEMMA DecideKeepsAlone ==
  ASSUME AloneInv, Inv', NEW r \in Requests, Decide(r)
  PROVE  AloneInv'
<1> DEFINE fallback == IF req[r].kind = "initiate" THEN "return_pending" ELSE Seen(r).status
<1>1. Returning(r) /\ req[r].kind \in Returns /\ req[r].next = "decide"
  BY DEF Decide, Returning, AloneInv, Inv, RequestsOK, RequestOK
<1>2. req[r] \in Request /\ Seen(r) \in Read
  BY <1>1, RequestTyped DEF AloneInv, Returns
<1>3. fallback \in Statuses
  BY <1>2 DEF Read, Statuses
<1>4. PICK call : Proceeded(r, call)
  BY DecideProceeds DEF AloneInv
<1>5. /\ req'[r].kind = req[r].kind /\ req'[r].ticket = req[r].ticket /\ req'[r].key = req[r].key
      /\ req'[r].lines = req[r].lines /\ req'[r].next = "commit"
      /\ req'[r].read.status = ResolveBorrowTicketStatus(OwnItems(r), fallback)
      /\ UNCHANGED <<tickets, items, recorded>>
  BY <1>2 DEF Decide, Request, Read, Seen, AloneInv, Inv, TypeOK
<1>6. OwnItems(r)' = OwnItems(r)
  <2>1. Lines0(r)' = Lines0(r)
    BY <1>5 DEF Lines0
  <2>2. \A i \in Items : ReturnedRow(r, items[Asked(r)][i], req[r].lines[i])' =
                         ReturnedRow(r, items[Asked(r)][i], req[r].lines[i])
    BY <1>5 DEF ReturnedRow, Asked
  <2> QED  BY <1>5, <2>1, <2>2 DEF OwnItems, Asked
<1>7. ASSUME Asked(r) \notin overlapped  PROVE Fresh(r)'
  <2>1. Fresh(r)
    BY <1>1, <1>7 DEF AloneInv, FreshAlone, Returns
  <2>2. \E f \in Statuses : req'[r].read.status = ResolveBorrowTicketStatus(OwnItems(r)', f)
    BY <1>3, <1>5, <1>6
  <2> QED  BY <1>1, <1>5, <2>1, <2>2 DEF Fresh, Asked, Seen, Returning, Returns
<1> QED  BY <1>4, <1>7, ProceededKeepsAlone

(***************************************************************************)
(* The steps that read, the reminders and stuttering.                        *)
(***************************************************************************)
LEMMA StartedKeepsAlone ==
  ASSUME AloneInv, Inv', NEW r \in Requests, NEW call, Started(r, call)
  PROVE  AloneInv'
<1>1. /\ req'[r] = call /\ (\A q \in Requests : q # r => req'[q] = req[q])
      /\ UNCHANGED <<tickets, items, recorded, approved>> /\ overlapped \subseteq overlapped'
  BY DEF Started, AloneInv, Inv, TypeOK
<1>2. Alone'
  <2> SUFFICES ASSUME NEW p \in Requests, NEW q \in Requests, p # q, req'[p].ticket = req'[q].ticket,
                      req'[p].ticket \in Tickets
               PROVE  req'[p].ticket \in overlapped'
    BY DEF Alone, Asked
  <2>1. CASE p # r /\ q # r
    BY <1>1, <2>1 DEF AloneInv, Alone, Asked
  <2>2. CASE p = r
    BY <1>1, <2>2 DEF Started
  <2>3. CASE q = r
    BY <1>1, <2>3 DEF Started
  <2> QED  BY <2>1, <2>2, <2>3
<1>3. ASSUME NEW q \in Requests, req'[q].kind \notin {"idle", "create"}, req'[q].ticket \notin overlapped'
      PROVE  Fresh(q)'
  <2>1. CASE q = r
    <3>1. /\ Allowed(call.kind, tickets[call.ticket].status) /\ call.read = ReadRow(call.ticket)
          /\ call.next = "write"
          /\ call.kind = "takeout" => \A i \in Items : call.lines[i] <= items[call.ticket][i].prepared
      BY <1>1, <1>3, <2>1 DEF Started
    <3> QED  BY <1>1, <2>1, <3>1 DEF Fresh, ReadRow, Asked, Seen, Returning
  <2>2. CASE q # r
    <3>1. req'[q] = req[q] /\ Fresh(q)
      BY <1>1, <1>3, <2>2 DEF AloneInv, FreshAlone, Asked
    <3>2. OwnItems(q)' = OwnItems(q)
      BY <1>1, <3>1, OwnItemsKept
    <3> QED  BY <1>1, <3>1, <3>2 DEF Fresh, Asked, Seen, Returning
  <2> QED  BY <2>1, <2>2
<1>4. SoundAlone'
  BY <1>1 DEF AloneInv, SoundAlone, Sound
<1> QED  BY <1>2, <1>3, <1>4 DEF AloneInv, FreshAlone, Asked

\* Nothing the alone invariant is about changes.
LEMMA StillAlone ==
  ASSUME AloneInv, Inv', UNCHANGED <<req, items, recorded, approved, overlapped>>,
         \A t \in Tickets : /\ tickets'[t].status = tickets[t].status
                            /\ tickets'[t].revision = tickets[t].revision
                            /\ tickets'[t].pausedFrom = tickets[t].pausedFrom
  PROVE  AloneInv'
<1>1. Alone'
  BY DEF AloneInv, Alone, Asked
<1>2. ASSUME NEW q \in Requests, req[q].kind \notin {"idle", "create"}, req[q].ticket \notin overlapped
      PROVE  Fresh(q)'
  <2>1. Fresh(q) /\ req[q].ticket \in Tickets
    BY <1>2 DEF AloneInv, FreshAlone, Inv, RequestsOK, RequestOK, Asked
  <2>2. OwnItems(q)' = OwnItems(q)
    BY OwnItemsKept
  <2> QED  BY <2>1, <2>2 DEF Fresh, Asked, Seen, Returning
<1>3. SoundAlone'
  <2> SUFFICES ASSUME NEW t \in Tickets \ overlapped  PROVE Sound(t)'
    BY DEF SoundAlone
  <2>1. Sound(t)
    BY DEF AloneInv, SoundAlone
  <2> QED  BY <2>1 DEF Sound, AsApproved
<1> QED  BY <1>1, <1>2, <1>3 DEF AloneInv, FreshAlone, Asked

LEMMA InitiallyAlone == Init => AloneInv
<1> SUFFICES ASSUME Init  PROVE AloneInv
  OBVIOUS
<1>1. Inv
  BY Initially
<1>2. Alone /\ FreshAlone
  BY ConstantsAssumption DEF Init, Alone, FreshAlone, Asked, Idle
<1>3. SoundAlone
  <2> SUFFICES ASSUME NEW t \in Tickets  PROVE Sound(t)
    BY DEF SoundAlone
  <2> DEFINE rows == Requested(NoLines)
  <2>1. Quiet(rows) /\ rows \in [Items -> Item] /\ \A i \in Items : rows[i].prepared = 0
    BY RequestedQuiet, RequestedOK, NoLinesTyped
  <2>2. tickets[t] = Unused /\ items[t] = rows /\ \A c \in Counters : recorded[t][c] = 0
    BY DEF Init
  <2> HIDE DEF rows
  <2>3. NothingEarly("unused", rows) /\ Agrees("unused", rows)
    BY <2>1, QuietAgrees DEF NothingEarly
  <2>4. AsApproved(Unused, approved[t])
    BY DEF AsApproved, Unused, Handed, Borrowed
  <2> QED  BY <2>2, <2>3, <2>4 DEF Sound, Unused
<1> QED  BY <1>1, <1>2, <1>3 DEF AloneInv

LEMMA NextKeepsAlone ==
  ASSUME AloneInv, [Next]_vars
  PROVE  AloneInv'
<1>0. Inv'
  BY NextKeeps DEF AloneInv
<1>1. ASSUME NEW r \in Requests, Reads(r)  PROVE AloneInv'
  <2>1. PICK call : Started(r, call)
    BY <1>1, ReadsStart DEF AloneInv
  <2> QED  BY <1>0, <2>1, StartedKeepsAlone
<1>2. ASSUME NEW r \in Requests, Writes(r)  PROVE AloneInv'
  BY <1>0, <1>2, CreateKeepsAlone, UpdateKeepsAlone, DeleteKeepsAlone, StatusKeepsAlone,
     PrepareKeepsAlone, TakeoutKeepsAlone, LockKeepsAlone, DecideKeepsAlone, CommitKeepsAlone,
     GiveUpKeepsAlone DEF Writes, StatusCall
<1>3. CASE ReminderStep
  BY <1>0, <1>3, ReminderEffect, StillAlone DEF AloneInv
<1>4. CASE UNCHANGED vars
  BY <1>0, <1>4, StillAlone DEF vars
<1> QED  BY <1>1, <1>2, <1>3, <1>4 DEF Next, ReminderStep

LEMMA AloneInvariance == Spec => []AloneInv
  BY InitiallyAlone, NextKeepsAlone, PTL DEF Spec

(***************************************************************************)
(* A final status.                                                         *)
(***************************************************************************)
\* Only a request that read the ticket changes its status, and none that is alone
\* on it starts from, or lets a return through to, a final status.
LEMMA FinalKept ==
  ASSUME AloneInv, [Next]_vars, NEW t \in Tickets, tickets[t].status \in {"rejected", "closed"},
         t \notin overlapped'
  PROVE  tickets'[t].status = tickets[t].status
<1>1. ASSUME NEW r \in Requests, Reads(r)  PROVE tickets' = tickets
  BY <1>1, ReadsStart DEF AloneInv, Started
<1>2. ASSUME NEW r \in Requests, NEW row, Write(r, row),
             req[r].kind \in Kinds \ {"idle", "create", "initiate", "confirm"}, req[r].next = "write"
      PROVE  tickets'[t] = tickets[t]
  <2>1. tickets' = [tickets EXCEPT ![Asked(r)] = row] /\ overlapped' = overlapped
    BY <1>2 DEF Write
  <2>2. ASSUME t = Asked(r)  PROVE FALSE
    <3>1. Allowed(req[r].kind, tickets[t].status)
      BY <1>2, <2>1, <2>2, AloneOn
    <3> QED  BY <1>2, <3>1 DEF Allowed, Kinds
  <2> QED  BY <2>1, <2>2 DEF AloneInv, Inv, TypeOK
<1>3. ASSUME NEW r \in Requests, CreateTicket(r)  PROVE tickets'[t] = tickets[t]
  <2>1. Asked(r) # t
    BY <1>3 DEF CreateTicket, AloneInv, Inv, RequestsOK, RequestOK, Unused
  <2> QED  BY <1>3, <2>1 DEF CreateTicket, Write, AloneInv, Inv, TypeOK
<1>4. ASSUME NEW r \in Requests, CommitReturn(r)  PROVE tickets'[t] = tickets[t]
  <2>1. Returning(r) /\ overlapped' = overlapped
    BY <1>4 DEF CommitReturn, Returning
  <2>2. Asked(r) # t
    BY <2>1, ReturningHanded DEF Borrowed
  <2> QED  BY <1>4, <2>2 DEF CommitReturn, AloneInv, Inv, TypeOK
<1>5. ASSUME NEW r \in Requests, Writes(r)  PROVE tickets'[t] = tickets[t]
  <2>1. CASE UpdateTicket(r)
    BY <1>2, <2>1 DEF UpdateTicket, Ready, Kinds
  <2>2. CASE DeleteTicket(r)
    BY <1>2, <2>2 DEF DeleteTicket, Ready, Kinds
  <2>3. CASE StatusCall(r)
    BY <1>2, <2>3 DEF StatusCall, ApproveTicket, PauseTicket, RejectTicket, ResumeTicket, Treat,
       Ready, Kinds
  <2>4. CASE PrepareTicket(r) \/ ConfirmTakeout(r)
    BY <1>2, <2>4 DEF PrepareTicket, ConfirmTakeout, Ready, Kinds
  <2>5. CASE LockItems(r) \/ Decide(r) \/ GiveUp(r)
    BY <2>5 DEF LockItems, Proceed, Decide, GiveUp
  <2> QED  BY <1>3, <1>4, <1>5, <2>1, <2>2, <2>3, <2>4, <2>5 DEF Writes, StatusCall
<1>6. CASE ReminderStep
  BY <1>6, ReminderEffect DEF AloneInv
<1>7. CASE UNCHANGED vars
  BY <1>7 DEF vars
<1> QED  BY <1>1, <1>5, <1>6, <1>7 DEF Next, ReminderStep

(***************************************************************************)
(* What follows of a ticket no two requests worked on at once.               *)
(***************************************************************************)
\* Announced and confirmed returns in any order, with any number of items: as long
\* as they do not overlap on the ticket, its status tells how much is back, and what
\* is back was received and what was received was prepared.
THEOREM BorrowsAgree == Spec => []BorrowAgrees
<1>1. AloneInv => BorrowAgrees
  BY SoundMeans DEF AloneInv
<1> QED  BY <1>1, AloneInvariance, PTL

\* What is prepared, handed over or taken back is the revision that the approval request had
\* read, through every pause, resumption and update of the ticket.
THEOREM Approvals == Spec => []UnchangedSinceApproval
<1>1. AloneInv => UnchangedSinceApproval
  BY SoundMeans DEF AloneInv
<1> QED  BY <1>1, AloneInvariance, PTL

\* A return resent with its key after the first has committed is not counted again.
THEOREM KeysCountOnce == Spec => []KeyCountedOnce
<1>1. AloneInv => KeyCountedOnce
  BY SoundMeans DEF AloneInv
<1> QED  BY <1>1, AloneInvariance, PTL

\* No request that is alone on a rejected or closed ticket moves it: a late return
\* confirmation, whose handler does not look at the status, finds nothing announced.
THEOREM FinalIsFinal == Spec => FinalStaysFinal
<1>1. AloneInv /\ [Next]_vars =>
        [\A t \in Tickets : tickets[t].status \in {"rejected", "closed"} /\ t \notin overlapped'
           => tickets'[t].status = tickets[t].status]_vars
  BY FinalKept
<1> QED  BY <1>1, AloneInvariance, PTL DEF Spec, FinalStaysFinal

(***************************************************************************)
(* Reminders.                                                              *)
(***************************************************************************)
LastTold(t) == told[t][Len(told[t])]
\* A ticket that was told of has its mark, unless a run is about to set it or the ticket
\* is gone; one that a run has listed and not told of yet may be told of.
Marked(t) ==
  told[t] # <<>> =>
    /\ tickets[t].status # "unused" /\ LastTold(t) <= clock
    /\ (Exists(t) /\ \A j \in Runs : runs[j].telling # t) =>
         tickets[t].lastReminder # None /\ LastTold(t) <= tickets[t].lastReminder
Listed(j) ==
  \A t \in runs[j].due :
    /\ tickets[t].status # "unused"
    /\ runs[j].telling # t /\ told[t] # <<>> => clock - LastTold(t) >= ReminderDays
OneRun == \A j, k \in Runs : runs[j] # NoRun /\ runs[k] # NoRun => j = k
SpacedInv ==
  /\ RemindersSpaced
  /\ ~spoiled => /\ OneRun
                 /\ \A t \in Tickets : Marked(t)
                 /\ \A j \in Runs : Listed(j)

\* Requests leave the reminders of a ticket alone; one that was told of does not come anew.
LEMMA RequestsMind ==
  ASSUME Inv, NEW r \in Requests, Reads(r) \/ Writes(r)
  PROVE  /\ UNCHANGED reminders
         /\ \A t \in Tickets :
              /\ tickets[t].status # "unused" => tickets'[t].status # "unused"
              /\ Exists(t)' => \/ tickets[t].status = "unused"
                               \/ Exists(t) /\ tickets'[t].lastReminder = tickets[t].lastReminder
<1> DEFINE Goal == /\ UNCHANGED reminders
                   /\ \A t \in Tickets :
                        /\ tickets[t].status # "unused" => tickets'[t].status # "unused"
                        /\ Exists(t)' => \/ tickets[t].status = "unused"
                                         \/ Exists(t) /\ tickets'[t].lastReminder = tickets[t].lastReminder
<1>1. PICK u : u = Asked(r)
  OBVIOUS
<1>2. CASE UNCHANGED tickets /\ UNCHANGED reminders
  BY <1>2 DEF Exists
<1>3. CASE Reads(r)
  <2>1. PICK call : Started(r, call)
    BY <1>3, ReadsStart
  <2> QED  BY <1>2, <2>1 DEF Started
<1>4. CASE LockItems(r) \/ Decide(r) \/ GiveUp(r)
  BY <1>2, <1>4 DEF LockItems, Proceed, Decide, GiveUp
<1>5. ASSUME NEW row, tickets' = [tickets EXCEPT ![u] = row], UNCHANGED reminders, row.status # "unused",
             \/ tickets[u].status = "unused"
             \/ row.status = "deleted"
             \/ Exists(u) /\ row.lastReminder = tickets[u].lastReminder
      PROVE  Goal
  BY <1>5 DEF Inv, TypeOK, Exists
<1>6. CASE CreateTicket(r)
  <2>1. PICK row : row = NewTicket(Seen(r).code)
    OBVIOUS
  <2>2. tickets' = [tickets EXCEPT ![u] = row] /\ UNCHANGED reminders
    BY <1>1, <1>6, <2>1 DEF CreateTicket, Write
  <2>3. tickets[u].status = "unused" /\ row.status # "unused"
    BY <1>1, <1>6, <2>1 DEF CreateTicket, NewTicket, Inv, RequestsOK, RequestOK, Unused
  <2> QED  BY <1>5, <2>2, <2>3
<1>7. CASE DeleteTicket(r)
  <2>1. PICK row : row = [Unused EXCEPT !.status = "deleted"]
    OBVIOUS
  <2>2. tickets' = [tickets EXCEPT ![u] = row] /\ UNCHANGED reminders
    BY <1>1, <1>7, <2>1 DEF DeleteTicket, Write
  <2>3. row.status = "deleted"
    BY <2>1 DEF Unused
  <2> QED  BY <1>5, <2>2, <2>3
<1>8. CASE ~(Reads(r) \/ LockItems(r) \/ Decide(r) \/ GiveUp(r) \/ CreateTicket(r) \/ DeleteTicket(r))
  <2>1. /\ UpdateTicket(r) \/ StatusCall(r) \/ PrepareTicket(r) \/ ConfirmTakeout(r) \/ CommitReturn(r)
        /\ Exists(u) /\ UNCHANGED reminders
    BY <1>1, <1>8 DEF Writes, StatusCall, UpdateTicket, ApproveTicket, PauseTicket, RejectTicket,
      ResumeTicket, Treat, PrepareTicket, ConfirmTakeout, CommitReturn, Ready, Write
  <2>2. PICK was : was = tickets[u]
    OBVIOUS
  <2>3. u \in Tickets /\ was \in Ticket /\ was.status # "unused" /\ req[r].kind # "idle"
    <3>1. req[r].kind # "idle"
      BY <2>1 DEF StatusCall, UpdateTicket, ApproveTicket, PauseTicket, RejectTicket, ResumeTicket,
        Treat, PrepareTicket, ConfirmTakeout, CommitReturn, Ready, Inv, RequestsOK, RequestOK,
        Returning, Returns
    <3> QED  BY <1>1, <2>1, <2>2, <3>1 DEF Inv, TypeOK, RequestsOK, RequestOK, Asked, Exists
  <2>4. \E row : /\ tickets' = [tickets EXCEPT ![u] = row] /\ row.status # "unused"
                 /\ row.lastReminder = was.lastReminder
    <3>1. CASE UpdateTicket(r)
      <4>1. PICK next : next = Updated(was, Seen(r))
        OBVIOUS
      <4>2. next \in Ticket /\ next.status # "unused" /\ next.lastReminder = was.lastReminder
        BY <2>3, <4>1 DEF Updated, Ticket, Statuses
      <4>3. PICK more : more = [next EXCEPT !.revision = @ + 1]
        OBVIOUS
      <4>4. more.status # "unused" /\ more.lastReminder = was.lastReminder
        BY <4>2, <4>3 DEF Ticket
      <4>5. \/ tickets' = [tickets EXCEPT ![u] = next]
            \/ tickets' = [tickets EXCEPT ![u] = more]
        BY <1>1, <2>2, <3>1, <4>1, <4>3 DEF UpdateTicket, Write
      <4> QED  BY <4>2, <4>4, <4>5
    <3>2. CASE StatusCall(r)
      <4>1. \E status \in Statuses \ {"unused"}, from \in Statuses \cup {None} :
              \/ tickets' = [tickets EXCEPT ![u] = [was EXCEPT !.status = status]]
              \/ tickets' = [tickets EXCEPT ![u] = [was EXCEPT !.status = status, !.pausedFrom = from]]
        <5>1. Seen(r).status \in Statuses
          BY <2>3, RequestTyped DEF Read
        <5> QED  BY <1>1, <2>2, <3>2, <5>1 DEF StatusCall, ApproveTicket, PauseTicket, RejectTicket,
                   ResumeTicket, Treat, Write, Resumed, Statuses
      <4>2. PICK status \in Statuses \ {"unused"}, from \in Statuses \cup {None} :
              \/ tickets' = [tickets EXCEPT ![u] = [was EXCEPT !.status = status]]
              \/ tickets' = [tickets EXCEPT ![u] = [was EXCEPT !.status = status, !.pausedFrom = from]]
        BY <4>1
      <4>3. PICK row : /\ tickets' = [tickets EXCEPT ![u] = row]
                       /\ \/ row = [was EXCEPT !.status = status]
                          \/ row = [was EXCEPT !.status = status, !.pausedFrom = from]
        BY <4>2
      <4>4. row.status = status /\ row.lastReminder = was.lastReminder
        BY <2>3, <4>3 DEF Ticket
      <4> QED  BY <4>3, <4>4
    <3>3. CASE PrepareTicket(r)
      <4>1. PICK row : row = [was EXCEPT !.status = "ready_for_pickup"]
        OBVIOUS
      <4>2. tickets' = [tickets EXCEPT ![u] = row]
        BY <1>1, <2>2, <3>3, <4>1 DEF PrepareTicket, Write
      <4> QED  BY <2>3, <4>1, <4>2 DEF Ticket
    <3>4. CASE ConfirmTakeout(r)
      <4>1. PICK due : due = clock + ReminderDays
        OBVIOUS
      <4>2. PICK row : row = [was EXCEPT !.status = "received_borrowed", !.due = due]
        OBVIOUS
      <4>3. tickets' = [tickets EXCEPT ![u] = row]
        BY <1>1, <2>2, <3>4, <4>1, <4>2 DEF ConfirmTakeout, Write
      <4>4. row.status = "received_borrowed" /\ row.lastReminder = was.lastReminder
        BY <2>3, <4>2 DEF Ticket
      <4> QED  BY <4>3, <4>4
    <3>5. CASE CommitReturn(r)
      <4>1. PICK row : row = [was EXCEPT !.status = Seen(r).status]
        OBVIOUS
      <4>2. tickets' = [tickets EXCEPT ![u] = row] /\ Seen(r).status # "unused"
        BY <1>1, <2>2, <3>5, <4>1 DEF CommitReturn, Inv, RequestsOK, RequestOK, Returning
      <4> QED  BY <2>3, <4>1, <4>2 DEF Ticket
    <3> QED  BY <2>1, <3>1, <3>2, <3>3, <3>4, <3>5
  <2> QED  BY <1>5, <2>1, <2>2, <2>4
<1> QED  BY <1>3, <1>4, <1>6, <1>7, <1>8

LEMMA RequestsKeepSpaced ==
  ASSUME Inv, SpacedInv, NEW r \in Requests, Reads(r) \/ Writes(r)
  PROVE  SpacedInv'
<1>1. UNCHANGED <<clock, runs, told, spoiled>>
  BY RequestsMind DEF reminders
<1>2. \A t \in Tickets :
        /\ tickets[t].status # "unused" => tickets'[t].status # "unused"
        /\ Exists(t)' => \/ tickets[t].status = "unused"
                         \/ Exists(t) /\ tickets'[t].lastReminder = tickets[t].lastReminder
  BY RequestsMind
<1>3. \A j \in Runs : runs[j].due \subseteq Tickets
  BY DEF Inv, TypeOK
<1>4. RemindersSpaced'
  BY <1>1 DEF SpacedInv, RemindersSpaced
<1>5. ASSUME ~spoiled, NEW t \in Tickets  PROVE Marked(t)'
  BY <1>1, <1>2, <1>5 DEF SpacedInv, Marked, LastTold
<1>6. ASSUME ~spoiled, NEW j \in Runs  PROVE Listed(j)'
  BY <1>1, <1>2, <1>3, <1>6 DEF SpacedInv, Listed, LastTold
<1>7. ~spoiled => OneRun'
  BY <1>1 DEF SpacedInv, OneRun
<1> QED  BY <1>1, <1>4, <1>5, <1>6, <1>7 DEF SpacedInv

LEMMA ToldTyped ==
  ASSUME Inv, NEW t \in Tickets
  PROVE  /\ clock \in Nat /\ told[t] \in Seq(Nat) /\ Len(told[t]) \in Nat
         /\ told[t] # <<>> => Len(told[t]) > 0 /\ LastTold(t) \in Nat
         /\ tickets[t].lastReminder \in Nat \cup {None}
         /\ \A n \in 1..Len(told[t]) : told[t][n] \in Nat
<1>1. told[t] \in Seq(0..MaxClock) /\ clock \in 0..MaxClock /\ tickets[t] \in Ticket
  BY DEF Inv, TypeOK
<1>2. MaxClock \in Nat
  BY ConstantsAssumption
<1>3. \A n \in 1..Len(told[t]) : told[t][n] \in Nat
  BY <1>1, <1>2
<1>4. told[t] # <<>> => Len(told[t]) > 0
  BY <1>1
<1> QED  BY <1>1, <1>2, <1>3, <1>4 DEF Ticket, LastTold

LEMMA TickKeepsSpaced ==
  ASSUME Inv, SpacedInv, Tick
  PROVE  SpacedInv'
<1>1. clock' = clock + 1 /\ UNCHANGED <<tickets, runs, told, spoiled>>
  BY DEF Tick
<1>2. RemindersSpaced'
  BY <1>1 DEF SpacedInv, RemindersSpaced
<1>3. ASSUME ~spoiled, NEW t \in Tickets  PROVE Marked(t)'
  BY <1>1, <1>3, ToldTyped DEF SpacedInv, Marked, LastTold, Exists
<1>4. ASSUME ~spoiled, NEW j \in Runs  PROVE Listed(j)'
  <2> SUFFICES ASSUME NEW t \in runs[j].due
               PROVE  /\ tickets[t].status # "unused"
                      /\ runs[j].telling # t /\ told[t] # <<>> => clock' - LastTold(t) >= ReminderDays
    BY <1>1 DEF Listed, LastTold
  <2>1. t \in Tickets
    BY DEF Inv, TypeOK
  <2>2. /\ tickets[t].status # "unused"
        /\ runs[j].telling # t /\ told[t] # <<>> => clock - LastTold(t) >= ReminderDays
    BY <1>4 DEF SpacedInv, Listed
  <2> QED  BY <1>1, <2>1, <2>2, ToldTyped, ConstantsAssumption
<1> QED  BY <1>1, <1>2, <1>3, <1>4 DEF SpacedInv, OneRun

LEMMA ListKeepsSpaced ==
  ASSUME Inv, SpacedInv, NEW j \in Runs, ListOverdue(j)
  PROVE  SpacedInv'
<1>1. /\ runs[j] = NoRun /\ runs' = [runs EXCEPT ![j].due = {t \in Tickets : Due(t)}]
      /\ spoiled' = (spoiled \/ \E k \in Runs \ {j} : runs[k] # NoRun)
      /\ UNCHANGED <<tickets, clock, told>>
  BY DEF ListOverdue
<1>2. RemindersSpaced'
  BY <1>1 DEF SpacedInv, RemindersSpaced
<1> SUFFICES ASSUME ~spoiled'
             PROVE  OneRun' /\ (\A t \in Tickets : Marked(t)') /\ \A k \in Runs : Listed(k)'
  BY <1>2 DEF SpacedInv
<1>3. ~spoiled /\ \A k \in Runs : runs[k] = NoRun
  BY <1>1
<1> PICK due : due = {t \in Tickets : Due(t)}
  OBVIOUS
<1>4. runs'[j] = [due |-> due, telling |-> None] /\ \A k \in Runs \ {j} : runs'[k] = NoRun
  <2>1. runs' = [runs EXCEPT ![j].due = due] /\ DOMAIN runs = Runs
    BY <1>1 DEF Inv, TypeOK
  <2>2. runs'[j] = [NoRun EXCEPT !.due = due] /\ \A k \in Runs \ {j} : runs'[k] = NoRun
    BY <1>3, <2>1
  <2> QED  BY <2>2 DEF NoRun
<1>5. OneRun'
  BY <1>4 DEF OneRun
<1>6. ASSUME NEW t \in Tickets  PROVE Marked(t)'
  <2>1. \A k \in Runs : runs[k].telling # t
    BY <1>3, ConstantsAssumption DEF NoRun
  <2> QED  BY <1>1, <1>3, <2>1 DEF SpacedInv, Marked, LastTold, Exists
<1>7. ASSUME NEW k \in Runs  PROVE Listed(k)'
  <2> SUFFICES ASSUME NEW t \in runs'[k].due
               PROVE  /\ tickets[t].status # "unused"
                      /\ told[t] # <<>> => clock - LastTold(t) >= ReminderDays
    BY <1>1 DEF Listed, LastTold
  <2>1. t \in Tickets /\ Due(t)
    <3>1. k # j => runs'[k].due = {}
      BY <1>4 DEF NoRun
    <3>2. runs'[j].due = due
      BY <1>4
    <3> QED  BY <3>1, <3>2
  <2>2. Exists(t) /\ \A i \in Runs : runs[i].telling # t
    BY <1>3, <2>1, ConstantsAssumption DEF Due, Overdue, Borrowed, Exists, NoRun
  <2>3. told[t] # <<>> => tickets[t].lastReminder # None /\ LastTold(t) <= tickets[t].lastReminder
    BY <1>3, <2>1, <2>2 DEF SpacedInv, Marked
  <2>4. tickets[t].lastReminder # None => clock - tickets[t].lastReminder >= ReminderDays
    BY <2>1 DEF Due
  <2> QED  BY <2>1, <2>2, <2>3, <2>4, ToldTyped, ConstantsAssumption DEF Exists
<1> QED  BY <1>5, <1>6, <1>7

LEMMA NotifyKeepsSpaced ==
  ASSUME Inv, SpacedInv, NEW j \in Runs, NotifyReturnReminder(j)
  PROVE  SpacedInv'
<1>1. PICK u \in runs[j].due : /\ told' = [told EXCEPT ![u] = Append(@, clock)]
                               /\ runs' = [runs EXCEPT ![j].telling = u]
  BY DEF NotifyReturnReminder
<1>2. runs[j].telling = None /\ UNCHANGED <<tickets, clock, spoiled>>
  BY DEF NotifyReturnReminder
<1>3. u \in Tickets /\ runs[j] \in [due: SUBSET Tickets, telling: Tickets \cup {None}] /\ u # None
  BY ConstantsAssumption DEF Inv, TypeOK
<1>4. PICK old, new : old = told[u] /\ new = Append(old, clock)
  OBVIOUS
<1>5. told'[u] = new /\ \A t \in Tickets \ {u} : told'[t] = told[t]
  BY <1>1, <1>3, <1>4 DEF Inv, TypeOK
<1>6. /\ old \in Seq(Nat) /\ Len(old) \in Nat /\ Len(new) = Len(old) + 1 /\ new[Len(old) + 1] = clock
      /\ \A n \in 1..Len(old) : new[n] = old[n] /\ old[n] \in Nat
      /\ clock \in Nat
  BY <1>3, <1>4, ToldTyped
<1>7. /\ runs'[j].telling = u /\ runs'[j].due = runs[j].due /\ runs[j] # NoRun
      /\ \A k \in Runs \ {j} : runs'[k] = runs[k]
  BY <1>1, <1>3 DEF Inv, TypeOK, NoRun
<1> SUFFICES ASSUME ~spoiled
             PROVE  /\ OneRun' /\ (\A t \in Tickets : Marked(t)') /\ (\A k \in Runs : Listed(k)')
                    /\ RemindersSpaced'
  BY <1>2 DEF SpacedInv, RemindersSpaced
<1>8. \A k \in Runs \ {j} : runs[k] = NoRun
  BY <1>7 DEF SpacedInv, OneRun
<1>9. OneRun'
  BY <1>7, <1>8 DEF OneRun
<1>10. ASSUME NEW t \in Tickets  PROVE Marked(t)'
  <2>1. CASE t = u
    <3>1. LastTold(u)' = clock
      BY <1>5, <1>6 DEF LastTold
    <3>2. tickets[u].status # "unused"
      BY DEF SpacedInv, Listed
    <3> QED  BY <1>2, <1>6, <1>7, <2>1, <3>1, <3>2 DEF Marked
  <2>2. CASE t # u
    <3>1. (\A k \in Runs : runs'[k].telling # t) => \A k \in Runs : runs[k].telling # t
      BY <1>2, <1>3, <1>7, ConstantsAssumption
    <3>2. LastTold(t)' = LastTold(t)
      BY <1>5, <2>2 DEF LastTold
    <3> QED  BY <1>2, <1>5, <2>2, <3>1, <3>2 DEF SpacedInv, Marked, Exists
  <2> QED  BY <2>1, <2>2
<1>11. ASSUME NEW k \in Runs  PROVE Listed(k)'
  <2>1. CASE k = j
    <3> SUFFICES ASSUME NEW t \in runs[j].due
                 PROVE  /\ tickets[t].status # "unused"
                        /\ t # u /\ told'[t] # <<>> => clock - LastTold(t)' >= ReminderDays
      BY <1>2, <1>7, <2>1 DEF Listed
    <3>1. t \in Tickets /\ t # None
      BY <1>3, ConstantsAssumption
    <3>2. /\ tickets[t].status # "unused"
          /\ told[t] # <<>> => clock - LastTold(t) >= ReminderDays
      BY <1>2, <3>1 DEF SpacedInv, Listed
    <3>3. t # u => told'[t] = told[t] /\ LastTold(t)' = LastTold(t)
      BY <1>5, <3>1 DEF LastTold
    <3> QED  BY <3>2, <3>3
  <2>2. CASE k # j
    BY <1>7, <1>8, <2>2 DEF Listed, NoRun
  <2> QED  BY <2>1, <2>2
<1>12. RemindersSpaced'
  <2> SUFFICES ASSUME NEW t \in Tickets, NEW n \in 1..Len(told'[t]) - 1
               PROVE  told'[t][n + 1] - told'[t][n] >= ReminderDays
    BY DEF RemindersSpaced
  <2>1. \A m \in 1..Len(told[t]) - 1 : told[t][m + 1] - told[t][m] >= ReminderDays
    BY DEF SpacedInv, RemindersSpaced
  <2>2. CASE t # u
    BY <1>5, <2>1, <2>2
  <2>3. CASE t = u /\ n < Len(old)
    <3>1. n \in 1..Len(old) - 1 /\ n + 1 \in 1..Len(old) /\ n \in 1..Len(old)
      BY <1>5, <1>6, <2>3
    <3> QED  BY <1>4, <1>5, <1>6, <2>1, <2>3, <3>1
  <2>4. CASE t = u /\ n = Len(old)
    <3>1. old # <<>> /\ n \in 1..Len(old) /\ told'[u][n + 1] = clock /\ told'[u][n] = LastTold(u)
      BY <1>4, <1>5, <1>6, <2>4 DEF LastTold
    <3>2. clock - LastTold(u) >= ReminderDays
      BY <1>2, <1>3, <1>4, <3>1 DEF SpacedInv, Listed
    <3> QED  BY <2>4, <3>1, <3>2
  <2> QED  BY <1>5, <1>6, <2>2, <2>3, <2>4
<1> QED  BY <1>9, <1>10, <1>11, <1>12

LEMMA MarkKeepsSpaced ==
  ASSUME Inv, SpacedInv, NEW j \in Runs, MarkReturnReminderSent(j)
  PROVE  SpacedInv'
<1>1. PICK u : u = runs[j].telling
  OBVIOUS
<1>2. /\ u # None /\ UNCHANGED <<clock, told, spoiled>>
      /\ tickets' = IF Exists(u) THEN [tickets EXCEPT ![u].lastReminder = clock] ELSE tickets
      /\ runs' = [runs EXCEPT ![j] = [due |-> @.due \ {u}, telling |-> None]]
  BY <1>1 DEF MarkReturnReminderSent
<1>3. u \in Tickets /\ tickets[u] \in Ticket
  BY <1>1, <1>2 DEF Inv, TypeOK
<1>4. /\ \A t \in Tickets \ {u} : tickets'[t] = tickets[t]
      /\ tickets'[u].status = tickets[u].status
      /\ Exists(u) => tickets'[u].lastReminder = clock
  BY <1>2, <1>3 DEF Inv, TypeOK, Ticket
<1>5. /\ runs'[j] = [due |-> runs[j].due \ {u}, telling |-> None]
      /\ \A k \in Runs \ {j} : runs'[k] = runs[k]
  BY <1>2 DEF Inv, TypeOK
<1>6. RemindersSpaced'
  BY <1>2 DEF SpacedInv, RemindersSpaced
<1> SUFFICES ASSUME ~spoiled
             PROVE  OneRun' /\ (\A t \in Tickets : Marked(t)') /\ \A k \in Runs : Listed(k)'
  BY <1>2, <1>6 DEF SpacedInv
<1>7. \A k \in Runs \ {j} : runs[k] = NoRun
  BY <1>1, <1>2 DEF SpacedInv, OneRun, NoRun
<1>8. OneRun'
  BY <1>5, <1>7 DEF OneRun
<1>9. ASSUME NEW t \in Tickets  PROVE Marked(t)'
  <2>1. CASE t = u
    BY <1>2, <1>3, <1>4, <2>1, ToldTyped, ConstantsAssumption DEF SpacedInv, Marked, LastTold, Exists
  <2>2. CASE t # u
    <3>1. \A k \in Runs : runs[k].telling # t
      BY <1>1, <1>7, <2>2, ConstantsAssumption DEF NoRun
    <3> QED  BY <1>2, <1>4, <2>2, <3>1 DEF SpacedInv, Marked, LastTold, Exists
  <2> QED  BY <2>1, <2>2
<1>10. ASSUME NEW k \in Runs  PROVE Listed(k)'
  <2> SUFFICES ASSUME NEW t \in runs'[k].due
               PROVE  /\ tickets'[t].status # "unused"
                      /\ told[t] # <<>> => clock - LastTold(t) >= ReminderDays
    BY <1>2 DEF Listed, LastTold
  <2>1. k = j /\ t \in runs[j].due /\ t # u /\ t \in Tickets
    BY <1>5, <1>7 DEF Inv, TypeOK, NoRun
  <2> QED  BY <1>1, <1>4, <2>1 DEF SpacedInv, Listed
<1> QED  BY <1>8, <1>9, <1>10

LEMMA SpacedInitially == Init => SpacedInv
<1> SUFFICES ASSUME Init PROVE SpacedInv
  OBVIOUS
<1>1. \A t \in Tickets : told[t] = <<>>
  BY DEF Init
<1>2. \A j \in Runs : runs[j] = NoRun
  BY DEF Init
<1>3. RemindersSpaced
  BY <1>1 DEF RemindersSpaced
<1>4. OneRun /\ \A t \in Tickets : Marked(t)
  BY <1>1, <1>2 DEF OneRun, Marked
<1>5. \A j \in Runs : Listed(j)
  BY <1>2 DEF Listed, NoRun
<1> QED  BY <1>3, <1>4, <1>5 DEF SpacedInv

LEMMA SpacedStep ==
  ASSUME Inv, SpacedInv, [Next]_vars
  PROVE  SpacedInv'
<1>1. ASSUME NEW j \in Runs, RunDies(j)  PROVE SpacedInv'
  BY <1>1 DEF RunDies, SpacedInv, RemindersSpaced
<1>2. ASSUME NEW j \in Runs, RunStep(j)  PROVE SpacedInv'
  BY <1>2, ListKeepsSpaced, NotifyKeepsSpaced, MarkKeepsSpaced DEF RunStep
<1>3. CASE UNCHANGED vars
  BY <1>3 DEF vars, reminders, SpacedInv, RemindersSpaced, OneRun, Marked, Listed, LastTold, Exists
<1> QED  BY <1>1, <1>2, <1>3, TickKeepsSpaced, RequestsKeepSpaced DEF Next

\* Whatever requests do to a ticket meanwhile, and however long the reminder run takes
\* between listing, telling and marking, two reminders of one ticket are an interval apart
\* as long as no two runs met and none died before its mark.
THEOREM SpacedReminders == Spec => []RemindersSpaced
<1>1. Inv /\ SpacedInv /\ [Next]_vars => (Inv /\ SpacedInv)'
  BY NextKeeps, SpacedStep
<1>2. SpacedInv => RemindersSpaced
  BY DEF SpacedInv
<1> QED  BY <1>1, <1>2, Initially, SpacedInitially, PTL DEF Spec
=============================================================================
