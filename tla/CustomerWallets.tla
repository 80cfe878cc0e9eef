--------------------------- MODULE CustomerWallets ---------------------------
(***************************************************************************)
(* The customer wallet of src/src/modules/customer-wallets.  Requests run  *)
(* concurrently in one Node process.  A balance change is a transaction on *)
(* a pooled connection, but ensureWallet and the status writes inside it   *)
(* go through the global `db`, i.e. through a SECOND connection that       *)
(* commits on its own: a step of this module is one awaited statement.     *)
(* Money is in hundredths, so toMoney (two decimals) is exact on it.       *)
(* An account is a (customer, currency) pair, the key of customer_wallets. *)
(***************************************************************************)
EXTENDS Integers, Sequences, FiniteSets, SequencesExt, FiniteSetsExt

CONSTANTS
  Accounts,        \* the (customer, currency) pairs
  XafAccounts,     \* those in XAF, the only ones that may be withdrawn from
  Requests,        \* request slots: how many requests are in flight at most
  Deposits,        \* ids of customer_wallet_deposits rows
  Withdrawals,     \* ids of customer_wallet_withdrawals rows
  Amounts,         \* amounts a request may ask for
  MinWithdrawal, MaxWithdrawal, FeePercent, FeeMin,   \* the settings row
  SettingsChoices, \* the settings the administrator may save
  PoolSize,        \* connections of the postgres.js pool
  MayFail,         \* whether a request may die half-way (error or restart)
  MaxStarted,      \* bound on the number of requests
  None

Balance == [available: Nat, reserved: Nat]
\* A deposit or a withdrawal, as the customer sees it.
Filed == [status: {"pending", "completed", "paid", "rejected"}, account: Accounts, amount: Amounts]
Settings == [walletEnabled: BOOLEAN, depositsEnabled: BOOLEAN,
             withdrawalsEnabled: BOOLEAN, requiresApproval: BOOLEAN]

ASSUME ConstantsAssumption ==
  /\ XafAccounts \subseteq Accounts
  /\ Amounts \subseteq Nat \ {0} /\ IsFiniteSet(Withdrawals)
  /\ {MinWithdrawal, MaxWithdrawal, FeePercent, FeeMin} \subseteq Nat
  /\ SettingsChoices # {} /\ SettingsChoices \subseteq Settings
  /\ PoolSize \in Nat \ {0} /\ MayFail \in BOOLEAN /\ MaxStarted \in Nat
  /\ None \notin Accounts \cup Deposits \cup Withdrawals \cup Balance \cup Filed

VARIABLES
  wallet,      \* committed customer_wallets rows, None where there is no row
  ledger,      \* committed customer_wallet_transactions, in id order
  deposits,    \* customer_wallet_deposits
  withdrawals, \* customer_wallet_withdrawals
  settings,    \* customer_wallet_settings
  intents,     \* deposits for which the provider opened a payment (external)
  paid,        \* deposits the customer paid at the provider (external)
  pc, job,     \* each request's next statement, and its arguments
  snap,        \* the balances each request read
  started      \* number of requests so far

dbVars == <<wallet, ledger, deposits, withdrawals, settings>>
vars == <<wallet, ledger, deposits, withdrawals, settings, intents, paid,
          pc, job, snap, started>>

Zero == [available |-> 0, reserved |-> 0]

\* WalletTransactionType; each balance change is named by the row it posts.
Changes == {"deposit", "purchase", "withdrawal_reserve", "withdrawal_release",
            "withdrawal_payout", "manual_credit", "manual_debit"}
Entry == [type: Changes, amount: Amounts, after: Balance,
          ref: Deposits \cup Withdrawals \cup {None}]

Row(status, account, amount) ==
  [status |-> status, account |-> account, amount |-> amount]
NoDeposit == [status |-> "none", account |-> None, amount |-> 0,
              card |-> FALSE, ref |-> FALSE]
NoWithdrawal == Row("none", None, 0)

\* An idle request has no arguments.
Jobs == [op: Changes \cup {"none"}, account: Accounts, amount: Amounts,
         target: Deposits \cup Withdrawals \cup {None}, auto: BOOLEAN]
NoJob == [op |-> "none", account |-> None, amount |-> 0, target |-> None,
          auto |-> FALSE]
Job(op, account, amount, target, auto) ==
  [op |-> op, account |-> account, amount |-> amount, target |-> target,
   auto |-> auto]

Init ==
  /\ wallet = [a \in Accounts |-> None]
  /\ ledger = [a \in Accounts |-> <<>>]
  /\ deposits = [d \in Deposits |-> NoDeposit]
  /\ withdrawals = [w \in Withdrawals |-> NoWithdrawal]
  /\ settings \in SettingsChoices
  /\ intents = {} /\ paid = {}
  /\ pc = [r \in Requests |-> "idle"]
  /\ job = [r \in Requests |-> NoJob]
  /\ snap = [r \in Requests |-> Zero]
  /\ started = 0

(***************************************************************************)
(* The arithmetic of the handlers.                                         *)
(***************************************************************************)
AtLeast0Unclamped(n) == n   \* mutant: Math.max(0, ...) forgotten
AtLeast0(n) == IF n < 0 THEN 0 ELSE n
Eligible(b) == b.available - b.reserved

\* computeWithdrawalFee: a rounded percentage, at least the minimum fee.
Fee(amount) ==
  LET percentFee == (amount * FeePercent + 50) \div 100
  IN  IF percentFee > FeeMin THEN percentFee ELSE FeeMin

\* Mutant: what is reserved may be spent again.
PermittedOnAvailable(op, amount, b) ==
  op \in {"purchase", "manual_debit", "withdrawal_reserve", "withdrawal_payout"}
    => amount <= b.available

\* The check each handler makes on the balances it read.
Permitted(op, amount, b) ==
  /\ op \in {"purchase", "manual_debit", "withdrawal_reserve"}
       => amount <= Eligible(b)
  /\ op = "withdrawal_payout" => b.available - amount >= 0

\* Mutant: a payout leaves its reserve behind.
AfterKeepingReserve(op, amount, b) ==
  [available |-> CASE op \in {"deposit", "manual_credit"} -> b.available + amount
                   [] op \in {"purchase", "manual_debit", "withdrawal_payout"} ->
                        b.available - amount
                   [] OTHER -> b.available,
   reserved |-> CASE op = "withdrawal_reserve" -> b.reserved + amount
                  [] op = "withdrawal_release" -> AtLeast0(b.reserved - amount)
                  [] OTHER -> b.reserved]

\* The balances it then writes, computed from what it read.
After(op, amount, b) ==
  [available |->
     CASE op \in {"deposit", "manual_credit"} -> b.available + amount
       [] op \in {"purchase", "manual_debit", "withdrawal_payout"} ->
            b.available - amount
       [] OTHER -> b.available,
   reserved |->
     CASE op = "withdrawal_reserve" -> b.reserved + amount
       [] op \in {"withdrawal_release", "withdrawal_payout"} ->
            AtLeast0(b.reserved - amount)
       [] OTHER -> b.reserved]

(***************************************************************************)
(* Connections and locks.                                                  *)
(***************************************************************************)
InTransaction(r) == pc[r] \in {"ensure", "create", "update", "status", "commit"}

\* db.transaction pins a connection until commit; every other statement needs
\* one that is free at that moment.
FreeConnection == Cardinality({r \in Requests : InTransaction(r)}) < PoolSize

LocksRowOnRead(r) ==   \* mutant: ensureWallet locks the row it reads
  pc[r] \in {"update", "status", "commit"}
\* The UPDATE of the row holds its lock until commit.
LocksRow(r) == pc[r] \in {"status", "commit"}
RowFree(a) == \A r \in Requests : LocksRow(r) => job[r].account # a

GoTo(r, label) == pc' = [pc EXCEPT ![r] = label]
Finish(r) == /\ GoTo(r, "idle")
             /\ job' = [job EXCEPT ![r] = NoJob]
             /\ snap' = [snap EXCEPT ![r] = Zero]

\* A request arrives in a free slot and reads what it checks first.
Arrive(r, label, j) ==
  /\ pc[r] = "idle" /\ started < MaxStarted /\ FreeConnection
  /\ GoTo(r, label)
  /\ job' = [job EXCEPT ![r] = j]
  /\ started' = started + 1
  /\ UNCHANGED <<snap, intents, paid>>

(***************************************************************************)
(* Handlers, up to db.transaction.                                         *)
(***************************************************************************)
\* Withdrawals bounds the rows: a request is taken while an id is left for it.
IdLeft ==
  Cardinality({q \in Requests : job[q].op = "withdrawal_reserve" /\ job[q].target = None})
    < Cardinality({w \in Withdrawals : withdrawals[w].status = "none"})

RequestWithdrawal(r, a, amount) ==
  /\ IdLeft
  /\ settings.walletEnabled /\ settings.withdrawalsEnabled
  /\ a \in XafAccounts
  /\ amount >= MinWithdrawal /\ amount <= MaxWithdrawal
  /\ amount - Fee(amount) > 0
  /\ Arrive(r, "begin", Job("withdrawal_reserve", a, amount, None,
                            ~settings.requiresApproval))
  /\ UNCHANGED dbVars

ApplyManualAdjustment(r, a, amount, op) ==
  /\ op \in {"manual_credit", "manual_debit"}
  /\ Arrive(r, "begin", Job(op, a, amount, None, FALSE))
  /\ UNCHANGED dbVars

ApplyWalletPayment(r, a, amount) ==
  /\ settings.walletEnabled
  /\ Arrive(r, "begin", Job("purchase", a, amount, None, FALSE))
  /\ UNCHANGED dbVars

CreditJob(d) ==
  Job("deposit", deposits[d].account, deposits[d].amount, d, FALSE)

StripeWebhookUnchecked(r, d) ==   \* mutant: no early return
  /\ d \in paid /\ deposits[d].card
  /\ Arrive(r, "begin", CreditJob(d))
  /\ UNCHANGED dbVars
\* Stripe's payment_intent.succeeded webhook (delivered at least once) calls
\* creditDeposit, whose early return reads the deposit's status.
StripeWebhook(r, d) ==
  /\ d \in paid /\ deposits[d].card
  /\ deposits[d].status = "pending"
  /\ Arrive(r, "begin", CreditJob(d))
  /\ UNCHANGED dbVars

\* syncDepositPayment: find the deposit by its reference, ask the provider.
SyncDepositPayment(r, d) ==
  /\ deposits[d].ref /\ deposits[d].status = "pending"
  /\ Arrive(r, "provider", CreditJob(d))
  /\ UNCHANGED dbVars

\* The provider answered.  A paid card intent goes on to creditDeposit (which
\* reads the status again); syncTransactionStatus returns no paymentStatus
\* field, so the mobile-money branch never does.
SyncCredits(d) ==
  /\ deposits[d].card /\ d \in paid
  /\ deposits[d].status = "pending"

ProviderAnswers(r) ==
  /\ pc[r] = "provider" /\ FreeConnection
  /\ IF SyncCredits(job[r].target)
     THEN GoTo(r, "begin") /\ UNCHANGED <<job, snap>>
     ELSE Finish(r)
  /\ UNCHANGED <<dbVars, intents, paid, started>>

PayoutJob(w) == Job("withdrawal_payout", withdrawals[w].account,
                    withdrawals[w].amount, w, FALSE)
ReleaseJob(w) == Job("withdrawal_release", withdrawals[w].account,
                     withdrawals[w].amount, w, FALSE)

ApproveWithdrawal(r, w) ==
  /\ withdrawals[w].status = "pending"
  /\ Arrive(r, "begin", PayoutJob(w))
  /\ UNCHANGED dbVars

RejectWithdrawal(r, w) ==
  /\ withdrawals[w].status = "pending"
  /\ Arrive(r, "begin", ReleaseJob(w))
  /\ UNCHANGED dbVars

\* initiateDeposit: insert the pending row, open a payment at the provider,
\* then store the provider's reference.
InitiateDeposit(r, a, amount, d, card) ==
  /\ settings.walletEnabled /\ settings.depositsEnabled
  /\ deposits[d].status = "none"
  /\ deposits' = [deposits EXCEPT ![d] =
       [status |-> "pending", account |-> a, amount |-> amount,
        card |-> card, ref |-> FALSE]]
  /\ Arrive(r, "init", Job("none", a, amount, d, FALSE))
  /\ UNCHANGED <<wallet, ledger, withdrawals, settings>>

InitPayment(r) ==
  /\ pc[r] = "init"
  /\ GoTo(r, "store")
  /\ intents' = intents \cup {job[r].target}
  /\ UNCHANGED <<dbVars, paid, job, snap, started>>

StoreReference(r) ==
  /\ pc[r] = "store" /\ FreeConnection
  /\ deposits' = [deposits EXCEPT ![job[r].target].ref = TRUE]
  /\ Finish(r)
  /\ UNCHANGED <<wallet, ledger, withdrawals, settings, intents, paid, started>>

(***************************************************************************)
(* The transaction.                                                        *)
(***************************************************************************)
Begin(r) ==
  /\ pc[r] = "begin" /\ FreeConnection
  /\ GoTo(r, "ensure")
  /\ UNCHANGED <<dbVars, intents, paid, job, snap, started>>

\* ensureWallet reads the row on another connection, without a lock; a failed
\* check throws and rolls back.
EnsureWallet(r) ==
  /\ pc[r] = "ensure" /\ FreeConnection
  /\ LET a == job[r].account
     IN  \/ /\ wallet[a] = None
            /\ GoTo(r, "create") /\ UNCHANGED <<job, snap>>
         \/ /\ wallet[a] # None
            /\ Permitted(job[r].op, job[r].amount, wallet[a])
            /\ snap' = [snap EXCEPT ![r] = wallet[a]]
            /\ GoTo(r, "update") /\ UNCHANGED job
         \/ /\ wallet[a] # None
            /\ ~Permitted(job[r].op, job[r].amount, wallet[a])
            /\ Finish(r)
  /\ UNCHANGED <<dbVars, intents, paid, started>>

\* The INSERT commits at once; the unique key makes the second of two fail.
CreateWallet(r) ==
  /\ pc[r] = "create" /\ FreeConnection
  /\ LET a == job[r].account
     IN  \/ /\ wallet[a] = None
            /\ wallet' = [wallet EXCEPT ![a] = Zero]
            /\ IF Permitted(job[r].op, job[r].amount, Zero)
               THEN /\ snap' = [snap EXCEPT ![r] = Zero]
                    /\ GoTo(r, "update") /\ UNCHANGED job
               ELSE Finish(r)
         \/ /\ wallet[a] # None
            /\ Finish(r) /\ UNCHANGED wallet
  /\ UNCHANGED <<ledger, deposits, withdrawals, settings, intents, paid, started>>

\* updateWalletBalances waits for the row lock and then holds it.  The values
\* it writes are the ones computed from snap, whatever the row holds by now.
UpdateWallet(r) ==
  /\ pc[r] = "update" /\ RowFree(job[r].account)
  /\ GoTo(r, IF job[r].op \in {"purchase", "manual_credit", "manual_debit"}
             THEN "commit" ELSE "status")
  /\ UNCHANGED <<dbVars, intents, paid, job, snap, started>>

WriteStatusForgotten(r) ==   \* mutant
  /\ pc[r] = "status" /\ FreeConnection
  /\ GoTo(r, "commit")
  /\ UNCHANGED <<dbVars, intents, paid, job, snap, started>>

\* createWithdrawal, markDepositCompleted, updateWithdrawal: on a second
\* connection, so committed before the transaction that calls them.
WriteStatus(r) ==
  /\ pc[r] = "status" /\ FreeConnection
  /\ GoTo(r, "commit")
  /\ \/ /\ job[r].op = "withdrawal_reserve"
        /\ \E w \in Withdrawals :
             /\ withdrawals[w].status = "none"
             /\ withdrawals' = [withdrawals EXCEPT ![w] =
                  Row("pending", job[r].account, job[r].amount)]
             /\ job' = [job EXCEPT ![r].target = w]
        /\ UNCHANGED deposits
     \/ /\ job[r].op \in {"withdrawal_payout", "withdrawal_release"}
        /\ withdrawals' = [withdrawals EXCEPT ![job[r].target].status =
             IF job[r].op = "withdrawal_payout" THEN "paid" ELSE "rejected"]
        /\ UNCHANGED <<deposits, job>>
     \/ /\ job[r].op = "deposit"
        /\ deposits' = [deposits EXCEPT ![job[r].target].status = "completed",
                                        ![job[r].target].ref = TRUE]
        /\ UNCHANGED <<withdrawals, job>>
  /\ UNCHANGED <<wallet, ledger, settings, intents, paid, snap, started>>

NewEntryBefore(r) ==   \* mutant: the balances before the change
  [type |-> job[r].op, amount |-> job[r].amount, ref |-> job[r].target,
   after |-> snap[r]]
NewEntry(r) ==
  [type |-> job[r].op, amount |-> job[r].amount, ref |-> job[r].target,
   after |-> After(job[r].op, job[r].amount, snap[r])]

\* Commit makes the row and its ledger entry visible together.  A withdrawal
\* that needs no approval goes on to approveWithdrawal in the same request.
Commit(r) ==
  /\ pc[r] = "commit"
  /\ LET a == job[r].account
     IN  /\ wallet' = [wallet EXCEPT ![a] =
              After(job[r].op, job[r].amount, snap[r])]
         /\ ledger' = [ledger EXCEPT ![a] = Append(@, NewEntry(r))]
  /\ IF job[r].auto
     THEN /\ GoTo(r, "auto") /\ UNCHANGED <<job, snap>>
     ELSE Finish(r)
  /\ UNCHANGED <<deposits, withdrawals, settings, intents, paid, started>>

AutoApproveStatusOnly(r) ==   \* mutant: marked as paid, nothing posted
  /\ pc[r] = "auto" /\ FreeConnection
  /\ withdrawals' = [withdrawals EXCEPT ![job[r].target].status = "paid"]
  /\ Finish(r)
  /\ UNCHANGED <<wallet, ledger, deposits, settings, intents, paid, started>>
AutoApprove(r) ==
  /\ pc[r] = "auto" /\ FreeConnection
  /\ IF withdrawals[job[r].target].status = "pending"
     THEN /\ job' = [job EXCEPT ![r] = PayoutJob(job[r].target)]
          /\ GoTo(r, "begin") /\ UNCHANGED snap
     ELSE Finish(r)
  /\ UNCHANGED <<dbVars, intents, paid, started>>

\* An error or a restart ends a request anywhere; its open transaction is
\* rolled back, what other connections committed stays.
Fail(r) ==
  /\ MayFail /\ pc[r] # "idle"
  /\ Finish(r)
  /\ UNCHANGED <<dbVars, intents, paid, started>>

(***************************************************************************)
(* The rest: reads that create rows, the administrator, the customer.      *)
(***************************************************************************)
GetCustomerWallets(a) ==
  /\ settings.walletEnabled /\ FreeConnection
  /\ wallet[a] = None
  /\ wallet' = [wallet EXCEPT ![a] = Zero]
  /\ UNCHANGED <<ledger, deposits, withdrawals, settings, intents, paid,
                 pc, job, snap, started>>

UpdateAdminSettings ==
  /\ FreeConnection
  /\ settings' \in SettingsChoices \ {settings}
  /\ UNCHANGED <<wallet, ledger, deposits, withdrawals, intents, paid,
                 pc, job, snap, started>>

\* External: the customer pays an opened intent.
CustomerPays(d) ==
  /\ d \in intents \ paid
  /\ paid' = paid \cup {d}
  /\ UNCHANGED <<dbVars, intents, pc, job, snap, started>>

Handler(r) ==
  \/ \E a \in Accounts, amount \in Amounts :
       \/ RequestWithdrawal(r, a, amount)
       \/ \E op \in {"manual_credit", "manual_debit"} :
            ApplyManualAdjustment(r, a, amount, op)
       \/ ApplyWalletPayment(r, a, amount)
       \/ \E d \in Deposits, card \in BOOLEAN :
            InitiateDeposit(r, a, amount, d, card)
  \/ \E d \in Deposits : StripeWebhook(r, d) \/ SyncDepositPayment(r, d)
  \/ \E w \in Withdrawals : ApproveWithdrawal(r, w) \/ RejectWithdrawal(r, w)

Step(r) ==
  \/ InitPayment(r) \/ StoreReference(r) \/ ProviderAnswers(r)
  \/ Begin(r) \/ EnsureWallet(r) \/ CreateWallet(r) \/ UpdateWallet(r)
  \/ WriteStatus(r) \/ Commit(r) \/ AutoApprove(r)

Next ==
  \/ \E r \in Requests : Handler(r) \/ Step(r) \/ Fail(r)
  \/ \E a \in Accounts : GetCustomerWallets(a)
  \/ UpdateAdminSettings
  \/ \E d \in Deposits : CustomerPays(d)

Spec == Init /\ [][Next]_vars

\* The event loop and Postgres run every statement they were handed; queued
\* lock waiters and queued pool requests are served in order, hence SF.
FairSpec == Spec /\ \A r \in Requests : SF_vars(Step(r))

(***************************************************************************)
(* Properties.                                                             *)
(***************************************************************************)
Labels == {"idle", "init", "store", "provider", "begin", "ensure", "create",
           "update", "status", "commit", "auto"}
Statuses == {"none", "pending", "paid", "rejected"}

(* What a request knows about the row it acts for: *)
HasDeposit(r) ==
  /\ job[r].target \in Deposits
  /\ deposits[job[r].target].status # "none"
  /\ deposits[job[r].target].account = job[r].account
  /\ deposits[job[r].target].amount = job[r].amount
HasWithdrawal(r) ==
  /\ job[r].target \in Withdrawals
  /\ withdrawals[job[r].target].status # "none"
  /\ withdrawals[job[r].target].account = job[r].account
  /\ withdrawals[job[r].target].amount = job[r].amount

\* The inductive strengthening: a request under way has arguments, acts for
\* a row that exists, and from "update" on holds balances that passed its check.
RequestOK(r) ==
  /\ pc[r] # "idle" => job[r] \in Jobs
  /\ pc[r] \in {"init", "store"} => job[r].op = "none" /\ HasDeposit(r)
  /\ pc[r] \notin {"idle", "init", "store"} => job[r].op \in Changes
  /\ pc[r] # "idle" /\ job[r].op = "deposit" => HasDeposit(r)
  /\ pc[r] # "idle" /\ job[r].op \in {"withdrawal_payout", "withdrawal_release"}
       => HasWithdrawal(r)
  /\ pc[r] = "commit" /\ job[r].op = "withdrawal_reserve" => HasWithdrawal(r)
  /\ pc[r] # "idle" /\ job[r].auto => job[r].op = "withdrawal_reserve"
  /\ pc[r] = "auto" => HasWithdrawal(r)
  /\ pc[r] = "commit" /\ job[r].op = "deposit"
       => deposits[job[r].target].status = "completed"
  /\ pc[r] = "commit" /\ job[r].op \in {"withdrawal_payout", "withdrawal_release"}
       => withdrawals[job[r].target].status \in {"paid", "rejected"}
  /\ pc[r] \in {"update", "status", "commit"} =>
       /\ Permitted(job[r].op, job[r].amount, snap[r])
       /\ snap[r].reserved <= snap[r].available
RequestsOK == \A r \in Requests : RequestOK(r)

\* Every variable has its type; in particular no balance is ever negative.
TypeOK ==
  /\ wallet \in [Accounts -> Balance \cup {None}]
  /\ ledger \in [Accounts -> Seq(Entry)]
  /\ deposits \in [Deposits -> {NoDeposit} \cup
       [status: {"pending", "completed"}, account: Accounts, amount: Amounts,
        card: BOOLEAN, ref: BOOLEAN]]
  /\ withdrawals \in [Withdrawals -> {NoWithdrawal} \cup
       [status: Statuses \ {"none"}, account: Accounts, amount: Amounts]]
  /\ settings \in Settings
  /\ intents \subseteq Deposits /\ paid \subseteq intents
  /\ pc \in [Requests -> Labels]
  /\ job \in [Requests -> {NoJob} \cup Jobs]
  /\ snap \in [Requests -> Balance]
  /\ started \in 0 .. MaxStarted

\* However the requests interleave or die, no wallet row ever reserves more
\* than it holds: a stale read may lose an update, it cannot write a row that
\* the CHECK constraints or the spendable balance would reject.
BalancesOrdered ==
  \A a \in Accounts : wallet[a] # None => wallet[a].reserved <= wallet[a].available

\* The balances of a row are those its newest ledger entry says were left:
\* updateWalletBalances and insertLedgerEntry are never seen one without the
\* other, and no other statement touches the row.
LedgerTailMatches ==
  \A a \in Accounts :
    IF ledger[a] = <<>> THEN wallet[a] \in {None, Zero}
    ELSE wallet[a] = Last(ledger[a]).after

\* The status a posted entry of each type finds its deposit or withdrawal in.
PostedFor(e, a) ==
  /\ e.type = "deposit" =>
       /\ e.ref \in Deposits /\ deposits[e.ref].status = "completed"
       /\ deposits[e.ref].account = a /\ deposits[e.ref].amount = e.amount
  /\ e.type \in {"withdrawal_reserve", "withdrawal_payout", "withdrawal_release"} =>
       /\ e.ref \in Withdrawals /\ withdrawals[e.ref].status # "none"
       /\ withdrawals[e.ref].account = a /\ withdrawals[e.ref].amount = e.amount
  /\ e.type \in {"withdrawal_payout", "withdrawal_release"} =>
       withdrawals[e.ref].status \in {"paid", "rejected"}

\* Money moves in the ledger only for a deposit that is completed or a
\* withdrawal that exists and, once paid out or released, is decided; the
\* entry carries the account and the amount of that row.
PostedImpliesDecided ==
  \A a \in Accounts : \A i \in 1 .. Len(ledger[a]) : PostedFor(ledger[a][i], a)

Posted(type, ref) ==
  \E a \in Accounts : \E i \in 1 .. Len(ledger[a]) :
    ledger[a][i].type = type /\ ledger[a][i].ref = ref

InFlight(op, ref) ==
  \E r \in Requests :
    pc[r] = "commit" /\ job[r].op = op /\ job[r].target = ref

\* The converse: a completed deposit or a decided withdrawal has its entry, or
\* the request that decided it is about to commit one.  (Only while no request
\* dies: the status commits on a connection of its own.)
DecisionsPosted ==
  /\ \A d \in Deposits : deposits[d].status = "completed" =>
       Posted("deposit", d) \/ InFlight("deposit", d)
  /\ \A w \in Withdrawals :
       /\ withdrawals[w].status # "none" =>
            Posted("withdrawal_reserve", w) \/ InFlight("withdrawal_reserve", w)
       /\ withdrawals[w].status = "paid" =>
            Posted("withdrawal_payout", w) \/ InFlight("withdrawal_payout", w)
       /\ withdrawals[w].status = "rejected" =>
            Posted("withdrawal_release", w) \/ InFlight("withdrawal_release", w)

\* Every request comes to an end, unless transactions come to hold every
\* connection and keep them.
EveryRequestFinishes ==
  \A r \in Requests : pc[r] # "idle" ~> (pc[r] = "idle" \/ []~FreeConnection)

\* What WalletLedger sees: a status written by a transaction that has not
\* committed does not count yet.
SeenBalance == [a \in Accounts |-> IF wallet[a] = None THEN Zero ELSE wallet[a]]
SeenDeposit == [d \in Deposits |->
  IF deposits[d].status = "none" THEN None
  ELSE Row(IF InFlight("deposit", d) THEN "pending" ELSE deposits[d].status,
           deposits[d].account, deposits[d].amount)]
SeenWithdrawal == [w \in Withdrawals |->
  IF withdrawals[w].status = "none" \/ InFlight("withdrawal_reserve", w) THEN None
  ELSE Row(IF InFlight("withdrawal_payout", w) \/ InFlight("withdrawal_release", w)
           THEN "pending" ELSE withdrawals[w].status,
           withdrawals[w].account, withdrawals[w].amount)]
Ledger == INSTANCE WalletLedger WITH
  balance <- SeenBalance, deposit <- SeenDeposit, withdrawal <- SeenWithdrawal

\* Requests that do not overlap move money as the atomic ledger does: every
\* deposit credited once, every withdrawal reserved, then paid or released.
ImplementsLedger == Ledger!LSpec

\* Then the reserved column is at all times the sum of the pending withdrawals.
ReservedIsPending == Ledger!ReservedIsPending
=============================================================================
