--------------------------- MODULE WarehouseTickets ---------------------------
(***************************************************************************)
(* One requester's tickets to borrow products from a warehouse: created,     *)
(* approved, prepared, taken out and returned in parts, which the warehouse  *)
(* confirms: warehouse-tickets.service and its repository.  Every request    *)
(* reads the ticket and checks it outside the transaction that writes; two   *)
(* requests may be between their steps at once (on one ticket, those of the    *)
(* kinds in Together).  The reminder runs (the daily *)
(* job, and the list page, which starts one) go beside them.                 *)
(***************************************************************************)
EXTENDS Integers, Sequences, FiniteSets, FiniteSetsExt

CONSTANTS
  Tickets,       \* ids of warehouse_tickets rows, never used twice
  Items,         \* the products a ticket may ask for
  Requests,      \* slots for requests in progress
  Keys,          \* idempotency keys of returns
  MaxOpen,       \* maxOpenTicketsPerUser
  MaxQuantity, MaxRevisions, MaxClock, MaxFailures,   \* bounds
  Together,      \* the kinds of request that may meet another on the same ticket
  ReminderDays,
  Runs,          \* reminder runs that may be in progress
  None

ASSUME ConstantsAssumption ==
  /\ {MaxOpen, MaxQuantity, MaxClock, MaxFailures} \subseteq Nat
  /\ MaxRevisions \in Nat \ {0} /\ ReminderDays \in Nat \ {0} /\ IsFiniteSet(Tickets)
  /\ None \notin Tickets /\ None \notin Keys /\ None \notin Nat

VARIABLES
  tickets,     \* warehouse_tickets rows
  items,       \* warehouse_ticket_items rows of each ticket; quantity 0 is no row
  recorded,    \* warehouse_ticket_events of returns: how often each key was used
  req,         \* what each request read and what it does next
  clock,       \* in days
  runs,        \* reminder runs in progress
  told,        \* history: the days of the reminders of each ticket
  approved,    \* history: the revision the request that approved a ticket had read
  overlapped,  \* history: the tickets two requests worked on at once
  spoiled,     \* history: whether reminder runs met, or one died
  failures
vars == <<tickets, items, recorded, req, clock, runs, told, approved, overlapped,
          spoiled, failures>>
reminders == <<clock, runs, told, spoiled, failures>>

Statuses == {"unused", "pending_approval", "approved", "being_prepared", "paused",
             "rejected", "ready_for_pickup", "received_borrowed", "return_pending",
             "partially_returned", "closed", "deleted"}
OpenStatuses == Statuses \ {"unused", "rejected", "closed", "deleted"}
Borrowed == {"received_borrowed", "partially_returned"}

Code == (0..MaxClock) \X Nat
Ticket == [status: Statuses, pausedFrom: Statuses \cup {None},
           revision: 0..MaxRevisions, code: Code \cup {None},
           due: Nat \cup {None}, lastReminder: Nat \cup {None}]
Quantities == 0..MaxQuantity
Item == [quantity: Quantities, prepared: Quantities, received: Quantities,
         returned: Quantities, pending: Quantities]
Lines == [Items -> Quantities]
NoLines == [i \in Items |-> 0]
Counters == {"initiate", "confirm"} \X Keys
Kinds == {"idle", "create", "update", "delete", "treat", "approve", "pause", "reject",
          "resume", "prepare", "takeout", "initiate", "confirm"}
\* read is what the request keeps of the row (for a new ticket, its code); once a
\* return has decided, its new status.
Read == [status: Statuses, pausedFrom: Statuses \cup {None}, revision: 0..MaxRevisions,
         code: Code \cup {None}]
Request == [kind: Kinds, ticket: Tickets \cup {None}, read: Read,
            lines: Lines, key: Keys \cup {None}, next: {"none", "write", "decide", "commit"}]

Unused == [status |-> "unused", pausedFrom |-> None, revision |-> 0, code |-> None,
           due |-> None, lastReminder |-> None]
Nothing == [status |-> "unused", pausedFrom |-> None, revision |-> 0, code |-> None]
Idle == [kind |-> "idle", ticket |-> None, read |-> Nothing, lines |-> NoLines,
         key |-> None, next |-> "none"]
NoRun == [due |-> {}, telling |-> None]
Requested(lines) ==
  [i \in Items |-> [quantity |-> lines[i], prepared |-> 0, received |-> 0,
                    returned |-> 0, pending |-> 0]]

Init ==
  /\ tickets = [t \in Tickets |-> Unused]
  /\ items = [t \in Tickets |-> Requested(NoLines)]
  /\ recorded = [t \in Tickets |-> [c \in Counters |-> 0]]
  /\ req = [r \in Requests |-> Idle]
  /\ clock = 0 /\ runs = [j \in Runs |-> NoRun] /\ told = [t \in Tickets |-> <<>>]
  /\ approved = [t \in Tickets |-> 0] /\ overlapped = {} /\ spoiled = FALSE
  /\ failures = 0

Exists(t) == tickets[t].status \notin {"unused", "deleted"}
Open(t) == tickets[t].status \in OpenStatuses
OnTicket(t) == {i \in Items : items[t][i].quantity > 0}

(***************************************************************************)
(* A request reads, then writes in one transaction; it may end in between     *)
(* without effect (a refusal, a rollback, a restart).                        *)
(***************************************************************************)
Beside(r, kind, t) ==
  {q \in Requests \ {r} : \/ req[q].ticket = t
                          \/ kind = "create" /\ req[q].kind = "create"}
StartWith(r, kind, t, lines, key, read) ==
  /\ req[r] = Idle
  /\ \A q \in Beside(r, kind, t) : {kind, req[q].kind} \subseteq Together
  /\ req' = [req EXCEPT ![r] = [kind |-> kind, ticket |-> t, read |-> read,
                                lines |-> lines, key |-> key, next |-> "write"]]
  /\ overlapped' = IF Beside(r, kind, t) = {} THEN overlapped
                   ELSE overlapped \cup {t} \cup {req[q].ticket : q \in Beside(r, kind, t)}
  /\ UNCHANGED <<tickets, items, recorded, approved, reminders>>
ReadRow(t) == [status |-> tickets[t].status, pausedFrom |-> tickets[t].pausedFrom,
               revision |-> tickets[t].revision, code |-> None]
Start(r, kind, t, lines) == StartWith(r, kind, t, lines, None, ReadRow(t))

Asked(r) == req[r].ticket
Seen(r) == req[r].read
\* Writing a ticket that is gone violates the events' reference to it.
Ready(r, kind) == req[r].kind = kind /\ req[r].next = "write" /\ Exists(Asked(r))
End(r) == req' = [req EXCEPT ![r] = Idle]
Write(r, row) ==
  /\ tickets' = [tickets EXCEPT ![Asked(r)] = row]
  /\ End(r)
  /\ UNCHANGED <<recorded, overlapped, reminders>>

GiveUp(r) ==
  /\ req[r] # Idle
  /\ End(r)
  /\ UNCHANGED <<tickets, items, recorded, approved, overlapped, reminders>>

\* The rows a return has locked until it commits.
Locked(t) == {i \in Items : \E q \in Requests : /\ req[q].ticket = t
                                                /\ req[q].next \in {"decide", "commit"}
                                                /\ req[q].lines[i] > 0}

(***************************************************************************)
(* The requester: create, update, delete.                                   *)
(***************************************************************************)
Total(lines) == MapThenSumSet(LAMBDA i : lines[i], Items)
\* validateItems with maxTotalQuantity = MaxQuantity.
ValidItems(lines) == Total(lines) \in 1..MaxQuantity

CountOpen == Cardinality({t \in Tickets : Open(t)})
NextSequence == Cardinality({t \in Tickets : Exists(t)}) + 1

ReadCreate(r, t, lines) ==
  /\ tickets[t] = Unused /\ ValidItems(lines)
  /\ \A q \in Requests : req[q].ticket # t
  /\ CountOpen < MaxOpen
  /\ StartWith(r, "create", t, lines, None,
               [Nothing EXCEPT !.code = <<clock, NextSequence>>])

\* ticket_code is unique.
CodeFree(code) == \A t \in Tickets : Exists(t) => tickets[t].code # code
NewTicket(code) == [status |-> "pending_approval", pausedFrom |-> None, revision |-> 1,
                    code |-> code, due |-> None, lastReminder |-> None]
CreateTicket(r) ==
  /\ req[r].kind = "create" /\ CodeFree(Seen(r).code)
  /\ Write(r, NewTicket(Seen(r).code))
  /\ items' = [items EXCEPT ![Asked(r)] = Requested(req[r].lines)]
  /\ UNCHANGED approved

Editable(t) == tickets[t].status \in {"pending_approval", "paused"}
ReadUpdate(r, t, lines) ==
  /\ Editable(t) /\ (lines = NoLines \/ ValidItems(lines))
  /\ lines # NoLines => tickets[t].revision < MaxRevisions
  /\ Start(r, "update", t, lines)

UpdatedKeepsStatus(row, read) == row   \* mutant: a paused ticket keeps its status
\* A pending ticket's update does not write the status, and no update pausedFromStatus.
Updated(row, read) ==
  IF read.status = "paused" THEN [row EXCEPT !.status = "pending_approval"] ELSE row
UpdateTicket(r) ==
  LET t == Asked(r)
      replaced == req[r].lines # NoLines
      row == Updated(tickets[t], Seen(r))
  IN /\ Ready(r, "update")
     /\ replaced => Locked(t) = {} /\ row.revision < MaxRevisions
     /\ Write(r, IF replaced THEN [row EXCEPT !.revision = @ + 1] ELSE row)
     /\ items' = IF replaced THEN [items EXCEPT ![t] = Requested(req[r].lines)] ELSE items
     /\ UNCHANGED approved

ReadDelete(r, t) == tickets[t].status = "pending_approval" /\ Start(r, "delete", t, NoLines)
DeleteTicket(r) ==
  LET t == Asked(r)
  IN /\ Ready(r, "delete") /\ Locked(t) = {}
     /\ Write(r, [Unused EXCEPT !.status = "deleted"])
     /\ items' = [items EXCEPT ![t] = Requested(NoLines)]
     /\ UNCHANGED approved

(***************************************************************************)
(* Approvers and the warehouse team: approve, pause, reject, resume.         *)
(***************************************************************************)
ReadApprove(r, t) == tickets[t].status = "pending_approval" /\ Start(r, "approve", t, NoLines)
ApproveTicket(r) ==
  LET t == Asked(r)
  IN /\ Ready(r, "approve")
     /\ Write(r, [tickets[t] EXCEPT !.status = "approved", !.pausedFrom = None])
     \* The revision this request read; it says nothing of an earlier page.
     /\ approved' = [approved EXCEPT ![t] = Seen(r).revision]
     /\ UNCHANGED items

\* The warehouse team may only pause what is approved; an approver also what is pending.
ReadPause(r, t) ==
  /\ \E tech \in BOOLEAN : tickets[t].status \in IF tech THEN {"approved"}
                                                 ELSE {"pending_approval", "approved"}
  /\ Start(r, "pause", t, NoLines)
PauseTicket(r) ==
  /\ Ready(r, "pause")
  /\ Write(r, [tickets[Asked(r)] EXCEPT !.status = "paused", !.pausedFrom = Seen(r).status])
  /\ UNCHANGED <<items, approved>>

ReadReject(r, t) ==
  /\ \E tech \in BOOLEAN : tickets[t].status \in IF tech THEN {"approved"}
                                                 ELSE {"pending_approval", "paused"}
  /\ Start(r, "reject", t, NoLines)
RejectTicket(r) ==
  /\ Ready(r, "reject")
  /\ Write(r, [tickets[Asked(r)] EXCEPT !.status = "rejected"])
  /\ UNCHANGED <<items, approved>>

ReadResumeRejected(r, t) ==   \* mutant: also what is rejected
  tickets[t].status \in {"paused", "rejected"} /\ Start(r, "resume", t, NoLines)
ReadResume(r, t) == tickets[t].status = "paused" /\ Start(r, "resume", t, NoLines)
Resumed(read) == IF read.pausedFrom = "approved" THEN "approved" ELSE "pending_approval"
ResumeTicket(r) ==
  /\ Ready(r, "resume")
  /\ Write(r, [tickets[Asked(r)] EXCEPT !.status = Resumed(Seen(r)), !.pausedFrom = None])
  /\ UNCHANGED <<items, approved>>

(***************************************************************************)
(* The warehouse team: treat, prepare, hand over.  The checks use the rows    *)
(* read before the transaction; rows replaced since are not written.          *)
(***************************************************************************)
ReadTreat(r, t) == tickets[t].status = "approved" /\ Start(r, "treat", t, NoLines)
Treat(r) ==
  /\ Ready(r, "treat")
  /\ Write(r, [tickets[Asked(r)] EXCEPT !.status = "being_prepared"])
  /\ UNCHANGED <<items, approved>>

ReadPrepareAny(r, t, lines) ==   \* mutant: no comparison with what was asked for
  /\ tickets[t].status \in {"approved", "being_prepared"}
  /\ Start(r, "prepare", t, lines)
ReadPrepare(r, t, lines) ==
  /\ tickets[t].status \in {"approved", "being_prepared"}
  /\ \A i \in Items : lines[i] <= items[t][i].quantity
  /\ Start(r, "prepare", t, lines)
SameRows(r) == tickets[Asked(r)].revision = Seen(r).revision
PrepareTicket(r) ==
  LET t == Asked(r)
      prepared == [i \in Items |-> [items[t][i] EXCEPT !.prepared = req[r].lines[i]]]
  IN /\ Ready(r, "prepare") /\ Locked(t) = {}
     /\ Write(r, [tickets[t] EXCEPT !.status = "ready_for_pickup"])
     /\ items' = IF SameRows(r) THEN [items EXCEPT ![t] = prepared] ELSE items
     /\ UNCHANGED approved

ReadTakeout(r, t, lines) ==
  /\ tickets[t].status = "ready_for_pickup"
  /\ \A i \in Items : lines[i] <= items[t][i].prepared
  /\ Start(r, "takeout", t, lines)
ConfirmTakeout(r) ==
  LET t == Asked(r)
      received == [i \in Items |-> [items[t][i] EXCEPT !.received = req[r].lines[i]]]
  IN /\ Ready(r, "takeout") /\ Locked(t) = {}
     /\ Write(r, [tickets[t] EXCEPT !.status = "received_borrowed",
                                    !.due = clock + ReminderDays])
     /\ items' = IF SameRows(r) THEN [items EXCEPT ![t] = received] ELSE items
     /\ UNCHANGED approved

(***************************************************************************)
(* Returns: the transaction locks and changes the items, then reads all items *)
(* of the ticket to decide its status, then writes the status and commits.    *)
(* What it wrote is its own until then; other items are read as committed.    *)
(***************************************************************************)
Outstanding(item) == Max({0, item.received - item.returned})
Returnable(item) == Max({0, Outstanding(item) - item.pending})

ReadInitiateReturn(r, t, lines, key) ==
  /\ tickets[t].status \in Borrowed /\ lines # NoLines
  /\ StartWith(r, "initiate", t, lines, key, ReadRow(t))
\* There is no check of the status.
ReadConfirmReturn(r, t, lines, key) ==
  /\ Exists(t) /\ lines # NoLines
  /\ StartWith(r, "confirm", t, lines, key, ReadRow(t))

NeverRecorded(r) == FALSE   \* mutant: the key is not looked for
\* hasReturnIdempotencyKey sees what is committed.
AlreadyRecorded(r) ==
  req[r].key # None /\ recorded[Asked(r)][<<req[r].kind, req[r].key>>] > 0
Lines0(r) == {i \in Items : req[r].lines[i] > 0}
Initiates(r, i) == req[r].lines[i] <= Returnable(items[Asked(r)][i])
ConfirmsUpToReceived(r, i) ==   \* mutant: what was not announced is confirmed
  items[Asked(r)][i].returned + req[r].lines[i] <= items[Asked(r)][i].received
Confirms(r, i) ==
  LET item == items[Asked(r)][i]
  IN /\ req[r].lines[i] <= item.pending
     /\ item.returned + req[r].lines[i] <= item.received

Proceed(r, next) ==
  /\ req' = [req EXCEPT ![r].next = next]
  /\ UNCHANGED <<tickets, items, recorded, approved, overlapped, reminders>>
LockItems(r) ==
  /\ \/ Ready(r, "initiate") /\ \A i \in Lines0(r) : Initiates(r, i)
     \/ Ready(r, "confirm") /\ \A i \in Lines0(r) : Confirms(r, i)
  /\ ~AlreadyRecorded(r)
  /\ Lines0(r) \subseteq OnTicket(Asked(r)) \ Locked(Asked(r))
  /\ Proceed(r, "decide")

ReturnedRow(r, item, n) ==
  IF req[r].kind = "initiate" THEN [item EXCEPT !.pending = @ + n]
  ELSE [item EXCEPT !.pending = @ - n, !.returned = @ + n]
OwnItems(r) ==
  [i \in Items |-> IF i \in Lines0(r) THEN ReturnedRow(r, items[Asked(r)][i], req[r].lines[i])
                   ELSE items[Asked(r)][i]]

ResolveUnreturned(rows, fallback) ==   \* mutant: closes when nothing is pending
  IF \A i \in Items : rows[i].received = 0 THEN fallback
  ELSE IF \E i \in Items : rows[i].pending > 0 THEN "return_pending"
  ELSE "closed"
ResolveBorrowTicketStatus(rows, fallback) ==
  IF \A i \in Items : rows[i].received = 0 THEN fallback
  ELSE IF \E i \in Items : rows[i].pending > 0 THEN "return_pending"
  ELSE IF \A i \in Items : Outstanding(rows[i]) = 0 THEN "closed"
  ELSE IF \E i \in Items : rows[i].returned > 0 THEN "partially_returned"
  ELSE "received_borrowed"
Decide(r) ==
  LET fallback == IF req[r].kind = "initiate" THEN "return_pending" ELSE Seen(r).status
  IN /\ req[r].next = "decide"
     /\ req' = [req EXCEPT ![r].next = "commit",
                           ![r].read.status = ResolveBorrowTicketStatus(OwnItems(r), fallback)]
     /\ UNCHANGED <<tickets, items, recorded, approved, overlapped, reminders>>

Count(counts, r) ==
  IF req[r].key = None THEN counts
  ELSE [counts EXCEPT ![Asked(r)][<<req[r].kind, req[r].key>>] = @ + 1]
CommitReturn(r) ==
  LET t == Asked(r)
  IN /\ req[r].next = "commit" /\ Exists(t)
     /\ tickets' = [tickets EXCEPT ![t].status = Seen(r).status]
     /\ items' = [items EXCEPT ![t] = OwnItems(r)]
     /\ recorded' = Count(recorded, r)
     /\ End(r)
     /\ UNCHANGED <<approved, overlapped, reminders>>

(***************************************************************************)
(* processReturnReminders: lists what is due, then tells and marks each.      *)
(***************************************************************************)
Overdue(t) ==
  /\ tickets[t].status \in Borrowed
  /\ tickets[t].due # None /\ tickets[t].due <= clock
  /\ \E i \in Items : Outstanding(items[t][i]) > 0
DueAlways(t) == Overdue(t)   \* mutant: no interval between reminders
Due(t) ==
  /\ Overdue(t)
  /\ tickets[t].lastReminder # None => clock - tickets[t].lastReminder >= ReminderDays

ListNeverReminded(j) ==   \* mutant: one reminder is enough
  LET first == {t \in Tickets : Due(t) /\ tickets[t].lastReminder = None}
  IN /\ runs[j] = NoRun /\ first # {}
     /\ runs' = [runs EXCEPT ![j].due = first]
     /\ spoiled' = (spoiled \/ \E k \in Runs \ {j} : runs[k] # NoRun)
     /\ UNCHANGED <<tickets, items, recorded, req, clock, told, approved, overlapped, failures>>
ListOverdue(j) ==
  /\ runs[j] = NoRun /\ \E t \in Tickets : Due(t)
  /\ runs' = [runs EXCEPT ![j].due = {t \in Tickets : Due(t)}]
  /\ spoiled' = (spoiled \/ \E k \in Runs \ {j} : runs[k] # NoRun)
  /\ UNCHANGED <<tickets, items, recorded, req, clock, told, approved, overlapped, failures>>
NotifyReturnReminder(j) ==
  /\ runs[j].telling = None
  /\ \E t \in runs[j].due :
       /\ told' = [told EXCEPT ![t] = Append(@, clock)]
       /\ runs' = [runs EXCEPT ![j].telling = t]
  /\ UNCHANGED <<tickets, items, recorded, req, clock, approved, overlapped, spoiled, failures>>
MarkReturnReminderSent(j) ==
  LET t == runs[j].telling
  IN /\ t # None
     /\ tickets' = IF Exists(t) THEN [tickets EXCEPT ![t].lastReminder = clock] ELSE tickets
     /\ runs' = [runs EXCEPT ![j] = [due |-> @.due \ {t}, telling |-> None]]
     /\ UNCHANGED <<items, recorded, req, clock, told, approved, overlapped, spoiled, failures>>
RunDies(j) ==
  /\ runs[j] # NoRun /\ failures < MaxFailures
  /\ runs' = [runs EXCEPT ![j] = NoRun]
  /\ failures' = failures + 1 /\ spoiled' = TRUE
  /\ UNCHANGED <<tickets, items, recorded, req, clock, told, approved, overlapped>>
Tick ==
  /\ clock < MaxClock /\ clock' = clock + 1
  /\ UNCHANGED <<tickets, items, recorded, req, runs, told, approved, overlapped, spoiled, failures>>

Reads(r) ==
  \E t \in Tickets :
    \/ ReadDelete(r, t) \/ ReadApprove(r, t) \/ ReadPause(r, t) \/ ReadReject(r, t)
    \/ ReadResume(r, t) \/ ReadTreat(r, t)
    \/ \E lines \in Lines :
         \/ ReadCreate(r, t, lines) \/ ReadUpdate(r, t, lines)
         \/ ReadPrepare(r, t, lines) \/ ReadTakeout(r, t, lines)
         \/ \E key \in Keys \cup {None} : \/ ReadInitiateReturn(r, t, lines, key)
                                          \/ ReadConfirmReturn(r, t, lines, key)
Writes(r) ==
  \/ CreateTicket(r) \/ UpdateTicket(r) \/ DeleteTicket(r)
  \/ ApproveTicket(r) \/ PauseTicket(r) \/ RejectTicket(r) \/ ResumeTicket(r)
  \/ Treat(r) \/ PrepareTicket(r) \/ ConfirmTakeout(r)
  \/ LockItems(r) \/ Decide(r) \/ CommitReturn(r) \/ GiveUp(r)
RunStep(j) == ListOverdue(j) \/ NotifyReturnReminder(j) \/ MarkReturnReminderSent(j)

Next ==
  \/ \E r \in Requests : Reads(r) \/ Writes(r)
  \/ \E j \in Runs : RunStep(j) \/ RunDies(j)
  \/ Tick

\* The daily timer starts a run again and again; a started run goes on.
Fairness == \A j \in Runs : WF_vars(RunStep(j))
Spec == Init /\ [][Next]_vars
FairSpec == Spec /\ Fairness

(***************************************************************************)
(* Properties.                                                             *)
(***************************************************************************)
TypeOK ==
  /\ tickets \in [Tickets -> Ticket]
  /\ items \in [Tickets -> [Items -> Item]]
  /\ recorded \in [Tickets -> [Counters -> Nat]]
  /\ req \in [Requests -> Request]
  /\ clock \in 0..MaxClock
  /\ runs \in [Runs -> [due: SUBSET Tickets, telling: Tickets \cup {None}]]
  /\ told \in [Tickets -> Seq(0..MaxClock)]
  /\ approved \in [Tickets -> 0..MaxRevisions] /\ overlapped \subseteq Tickets
  /\ spoiled \in BOOLEAN /\ failures \in 0..MaxFailures

\* However requests overlap, nothing is prepared, received or returned (with
\* what is pending) beyond what the ticket asks for: the returns' guarded updates
\* hold against every stale check.
NeverMoreThanRequested ==
  \A t \in Tickets, i \in Items :
    LET item == items[t][i]
    IN /\ item.prepared <= item.quantity /\ item.received <= item.quantity
       /\ item.returned + item.pending <= item.quantity

\* Unless requests on the ticket overlapped: what is returned or pending was received,
\* what was received was prepared, and the status tells how much is back: closed
\* exactly when all is, whatever the order of announced and confirmed returns.
BorrowAgrees ==
  \A t \in Tickets \ overlapped :
    LET status == tickets[t].status
        pending == \E i \in Items : items[t][i].pending > 0
        someBack == \E i \in Items : items[t][i].returned > 0
        someOut == \E i \in Items : items[t][i].returned < items[t][i].received
    IN /\ \A i \in Items : LET item == items[t][i]
                           IN /\ item.returned + item.pending <= item.received
                              /\ item.received <= item.prepared
       /\ status = "return_pending" <=> pending
       /\ status = "partially_returned" <=> someBack /\ someOut /\ ~pending
       /\ status = "closed" <=> someBack /\ ~someOut

\* Unless requests on the ticket overlapped, a return resent with its key counts once.
KeyCountedOnce ==
  \A t \in Tickets \ overlapped, c \in Counters : recorded[t][c] <= 1

\* Unless requests on the ticket overlapped, the items that are prepared and handed
\* over have not changed since the approval request read the ticket: every update,
\* of a paused ticket too, needs an approval that began after it.  What the approver
\* had on a page is another matter: the request names no revision (approveTicket).
UnchangedSinceApproval ==
  \A t \in Tickets \ overlapped :
    tickets[t].status \in Borrowed \cup {"approved", "being_prepared", "ready_for_pickup",
                                         "return_pending", "closed"}
      => approved[t] = tickets[t].revision

\* Unless requests on the ticket overlapped, a rejected or closed ticket stays so.
FinalStaysFinal ==
  [][\A t \in Tickets : tickets[t].status \in {"rejected", "closed"} /\ t \notin overlapped'
       => tickets'[t].status = tickets[t].status]_vars

\* Two reminders of one ticket are an interval apart, unless reminder runs met (the
\* list page starts one beside the daily job) or one died before it marked the ticket.
RemindersSpaced ==
  ~spoiled => \A t \in Tickets : \A n \in 1..Len(told[t]) - 1 :
                told[t][n + 1] - told[t][n] >= ReminderDays

\* Whenever a reminder is due that no run is sending it is sent, although runs may die
\* before they mark the ticket, or the ticket stops being overdue.
DueIsTold ==
  \A t \in Tickets, n \in 0..MaxClock :
    (Due(t) /\ Len(told[t]) = n /\ \A j \in Runs : runs[j].telling # t)
      ~> (~Overdue(t) \/ Len(told[t]) > n)
=============================================================================
