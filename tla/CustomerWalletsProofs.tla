------------------------- MODULE CustomerWalletsProofs -------------------------
(* What holds of the wallet for every value of the constants. *)
EXTENDS CustomerWallets, SumTheorems

USE DEF Labels, Statuses

(***************************************************************************)
(* Rows are never deleted, and keep their account, amount and decision.    *)
(***************************************************************************)
RowsKept ==
  /\ \A d \in Deposits : deposits[d].status # "none" =>
       /\ deposits'[d].status # "none"
       /\ deposits'[d].account = deposits[d].account
       /\ deposits'[d].amount = deposits[d].amount
       /\ deposits[d].status = "completed" => deposits'[d].status = "completed"
  /\ \A w \in Withdrawals : withdrawals[w].status # "none" =>
       /\ withdrawals'[w].status # "none"
       /\ withdrawals'[w].account = withdrawals[w].account
       /\ withdrawals'[w].amount = withdrawals[w].amount
       /\ withdrawals[w].status \in {"paid", "rejected"}
            => withdrawals'[w].status \in {"paid", "rejected"}

OthersKept(r) ==
  \A q \in Requests \ {r} : pc'[q] = pc[q] /\ job'[q] = job[q] /\ snap'[q] = snap[q]

\* A request is not disturbed by the steps of the others.
LEMMA OthersStayOK ==
  ASSUME NEW r \in Requests, RequestsOK, RowsKept, OthersKept(r)
  PROVE  \A q \in Requests \ {r} : RequestOK(q)'
  BY DEF RequestsOK, RequestOK, RowsKept, OthersKept, HasDeposit, HasWithdrawal, Permitted, Eligible

Inv == TypeOK /\ RequestsOK /\ BalancesOrdered

\* A permitted change of ordered balances yields ordered balances.
LEMMA AfterOrdered ==
  ASSUME NEW op \in Changes, NEW amount \in Amounts, NEW b \in Balance,
         b.reserved <= b.available, Permitted(op, amount, b)
  PROVE  /\ After(op, amount, b) \in Balance
         /\ After(op, amount, b).reserved <= After(op, amount, b).available
  BY ConstantsAssumption DEF After, Permitted, Eligible, AtLeast0, Balance, Changes

\* A step of one request keeps the invariant if it keeps that request's part.
LEMMA ZeroBalance == Zero \in Balance
  BY DEF Zero, Balance

LEMMA OneRequest ==
  ASSUME NEW r \in Requests, RequestsOK, RowsKept, OthersKept(r), RequestOK(r)'
  PROVE  RequestsOK'
  BY OthersStayOK DEF RequestsOK

(***************************************************************************)
(* The handlers.                                                           *)
(***************************************************************************)
\* Arriving with arguments that fit keeps the invariant.
LEMMA ArriveInv ==
  ASSUME NEW r \in Requests, NEW label \in {"begin", "provider"}, NEW j \in Jobs, Inv,
         Arrive(r, label, j), UNCHANGED dbVars, j.op \in Changes,
         j.auto => j.op = "withdrawal_reserve",
         j.op = "deposit" =>
           /\ j.target \in Deposits /\ deposits[j.target].status # "none"
           /\ deposits[j.target].account = j.account
           /\ deposits[j.target].amount = j.amount,
         j.op \in {"withdrawal_payout", "withdrawal_release"} =>
           /\ j.target \in Withdrawals /\ withdrawals[j.target].status # "none"
           /\ withdrawals[j.target].account = j.account
           /\ withdrawals[j.target].amount = j.amount
  PROVE  Inv'
<1>1. TypeOK'
  BY ConstantsAssumption DEF Inv, TypeOK, Arrive, GoTo, dbVars
<1>2. RequestOK(r)'
  BY DEF Inv, TypeOK, RequestOK, HasDeposit, HasWithdrawal, Arrive, GoTo, dbVars
<1>3. RowsKept /\ OthersKept(r)
  BY DEF Inv, TypeOK, RowsKept, OthersKept, Arrive, GoTo, dbVars
<1>4. BalancesOrdered'
  BY DEF Inv, BalancesOrdered, dbVars
<1> QED  BY <1>1, <1>2, <1>3, <1>4, OneRequest DEF Inv

LEMMA CreditJobFits ==
  ASSUME NEW d \in Deposits, TypeOK, deposits[d].status = "pending"
  PROVE  /\ CreditJob(d) \in Jobs /\ CreditJob(d).op = "deposit"
         /\ CreditJob(d).target = d /\ ~CreditJob(d).auto
         /\ CreditJob(d).account = deposits[d].account
         /\ CreditJob(d).amount = deposits[d].amount
  BY DEF TypeOK, CreditJob, Job, Jobs, Changes, NoDeposit

LEMMA ReviewJobFits ==
  ASSUME NEW w \in Withdrawals, TypeOK, withdrawals[w].status # "none",
         NEW j \in {PayoutJob(w), ReleaseJob(w)}
  PROVE  /\ j \in Jobs /\ j.op \in {"withdrawal_payout", "withdrawal_release"}
         /\ j.target = w /\ ~j.auto
         /\ j.account = withdrawals[w].account /\ j.amount = withdrawals[w].amount
<1>1. withdrawals[w].account \in Accounts /\ withdrawals[w].amount \in Amounts
  BY DEF TypeOK, NoWithdrawal, Row
<1>2. j = PayoutJob(w) \/ j = ReleaseJob(w)
  OBVIOUS
<1>3. CASE j = PayoutJob(w)
  BY <1>1, <1>3 DEF PayoutJob, Job, Jobs, Changes
<1>4. CASE j = ReleaseJob(w)
  BY <1>1, <1>4 DEF ReleaseJob, Job, Jobs, Changes
<1> QED  BY <1>2, <1>3, <1>4

LEMMA NewJobFits ==
  ASSUME NEW op \in Changes, NEW a \in Accounts, NEW amount \in Amounts,
         NEW auto \in BOOLEAN
  PROVE  Job(op, a, amount, None, auto) \in Jobs
  BY DEF Job, Jobs

LEMMA HandlerInv ==
  ASSUME NEW r \in Requests, Inv, Handler(r)
  PROVE  Inv'
<1>1. ASSUME NEW a \in Accounts, NEW amount \in Amounts,
             RequestWithdrawal(r, a, amount)
      PROVE  Inv'
  <2> DEFINE j == Job("withdrawal_reserve", a, amount, None, ~settings.requiresApproval)
  <2>1. j \in Jobs  BY <1>1, NewJobFits DEF Inv, TypeOK, Settings, Changes
  <2>2. j.op = "withdrawal_reserve"  BY DEF Job
  <2>3. Arrive(r, "begin", j) /\ UNCHANGED dbVars  BY <1>1 DEF RequestWithdrawal
  <2> QED  BY <2>1, <2>2, <2>3, ArriveInv DEF Changes
<1>2. ASSUME NEW a \in Accounts, NEW amount \in Amounts,
             NEW op \in {"manual_credit", "manual_debit"},
             ApplyManualAdjustment(r, a, amount, op)
      PROVE  Inv'
  <2> DEFINE j == Job(op, a, amount, None, FALSE)
  <2>1. j \in Jobs  BY <1>2, NewJobFits DEF Changes
  <2>2. j.op = op /\ ~j.auto  BY DEF Job
  <2>3. Arrive(r, "begin", j) /\ UNCHANGED dbVars  BY <1>2 DEF ApplyManualAdjustment
  <2> QED  BY <2>1, <2>2, <2>3, ArriveInv DEF Changes
<1>3. ASSUME NEW a \in Accounts, NEW amount \in Amounts,
             ApplyWalletPayment(r, a, amount)
      PROVE  Inv'
  <2> DEFINE j == Job("purchase", a, amount, None, FALSE)
  <2>1. j \in Jobs  BY <1>3, NewJobFits DEF Changes
  <2>2. j.op = "purchase" /\ ~j.auto  BY DEF Job
  <2>3. Arrive(r, "begin", j) /\ UNCHANGED dbVars  BY <1>3 DEF ApplyWalletPayment
  <2> QED  BY <2>1, <2>2, <2>3, ArriveInv DEF Changes
<1>4. ASSUME NEW d \in Deposits, StripeWebhook(r, d) \/ SyncDepositPayment(r, d)
      PROVE  Inv'
  <2>1. PICK label \in {"begin", "provider"} :
          Arrive(r, label, CreditJob(d)) /\ UNCHANGED dbVars
    BY <1>4 DEF StripeWebhook, SyncDepositPayment
  <2>2. deposits[d].status = "pending"
    BY <1>4 DEF StripeWebhook, SyncDepositPayment
  <2> HIDE DEF CreditJob
  <2> QED  BY <2>1, <2>2, CreditJobFits, ArriveInv DEF Inv, Changes
<1>5. ASSUME NEW w \in Withdrawals, ApproveWithdrawal(r, w) \/ RejectWithdrawal(r, w)
      PROVE  Inv'
  <2>1. PICK j \in {PayoutJob(w), ReleaseJob(w)} :
          Arrive(r, "begin", j) /\ UNCHANGED dbVars
    BY <1>5 DEF ApproveWithdrawal, RejectWithdrawal
  <2>2. withdrawals[w].status = "pending"
    BY <1>5 DEF ApproveWithdrawal, RejectWithdrawal
  <2> QED  BY <2>1, <2>2, ReviewJobFits, ArriveInv DEF Inv, Changes
<1>6. ASSUME NEW a \in Accounts, NEW amount \in Amounts, NEW d \in Deposits,
             NEW card \in BOOLEAN, InitiateDeposit(r, a, amount, d, card)
      PROVE  Inv'
  <2> USE <1>6 DEF InitiateDeposit, Arrive, GoTo, Job
  <2>1. TypeOK'
    BY ConstantsAssumption DEF Inv, TypeOK, Jobs
  <2>2. RequestOK(r)'
    BY DEF Inv, TypeOK, RequestOK, HasDeposit, Jobs
  <2>3. RowsKept /\ OthersKept(r)
    BY DEF Inv, TypeOK, RowsKept, OthersKept
  <2>4. BalancesOrdered'
    BY DEF Inv, BalancesOrdered
  <2> QED  BY <2>1, <2>2, <2>3, <2>4, OneRequest DEF Inv
<1> QED  BY <1>1, <1>2, <1>3, <1>4, <1>5, <1>6 DEF Handler

(***************************************************************************)
(* The steps of a request.                                                 *)
(***************************************************************************)
LEMMA InitPaymentInv ==
  ASSUME NEW r \in Requests, Inv, InitPayment(r)
  PROVE  Inv'
<1> USE DEF InitPayment, GoTo, Finish, dbVars
<1>1. TypeOK'
  BY ConstantsAssumption, ZeroBalance DEF Inv, TypeOK, RequestsOK, RequestOK, Jobs, HasDeposit, HasWithdrawal
<1>2. RequestOK(r)'
  BY DEF Inv, TypeOK, RequestsOK, RequestOK, HasDeposit, HasWithdrawal
<1>3. RowsKept /\ OthersKept(r)
  BY DEF Inv, TypeOK, RequestsOK, RequestOK, RowsKept, OthersKept, HasDeposit, HasWithdrawal
<1>4. BalancesOrdered'
  BY DEF Inv, TypeOK, BalancesOrdered
<1> QED  BY <1>1, <1>2, <1>3, <1>4, OneRequest DEF Inv

LEMMA StoreReferenceInv ==
  ASSUME NEW r \in Requests, Inv, StoreReference(r)
  PROVE  Inv'
<1> USE DEF StoreReference, GoTo, Finish, dbVars
<1>0. /\ job[r].target \in Deposits
      /\ deposits[job[r].target] \in
           [status: {"pending", "completed"}, account: Accounts, amount: Amounts,
            card: BOOLEAN, ref: BOOLEAN]
  BY DEF Inv, TypeOK, RequestsOK, RequestOK, HasDeposit, NoDeposit
<1>1. TypeOK'
  BY <1>0, ConstantsAssumption, ZeroBalance DEF Inv, TypeOK, RequestsOK, RequestOK, Jobs, HasDeposit, HasWithdrawal
<1>2. RequestOK(r)'
  BY DEF Inv, TypeOK, RequestsOK, RequestOK, HasDeposit, HasWithdrawal
<1>3. RowsKept /\ OthersKept(r)
  BY DEF Inv, TypeOK, RequestsOK, RequestOK, RowsKept, OthersKept, HasDeposit, HasWithdrawal
<1>4. BalancesOrdered'
  BY DEF Inv, TypeOK, BalancesOrdered
<1> QED  BY <1>1, <1>2, <1>3, <1>4, OneRequest DEF Inv

LEMMA BeginInv ==
  ASSUME NEW r \in Requests, Inv, Begin(r)
  PROVE  Inv'
<1> USE DEF Begin, GoTo, Finish, dbVars
<1>1. TypeOK'
  BY ConstantsAssumption, ZeroBalance DEF Inv, TypeOK, RequestsOK, RequestOK, Jobs, HasDeposit, HasWithdrawal
<1>2. RequestOK(r)'
  BY DEF Inv, TypeOK, RequestsOK, RequestOK, HasDeposit, HasWithdrawal
<1>3. RowsKept /\ OthersKept(r)
  BY DEF Inv, TypeOK, RequestsOK, RequestOK, RowsKept, OthersKept, HasDeposit, HasWithdrawal
<1>4. BalancesOrdered'
  BY DEF Inv, TypeOK, BalancesOrdered
<1> QED  BY <1>1, <1>2, <1>3, <1>4, OneRequest DEF Inv

LEMMA UpdateWalletInv ==
  ASSUME NEW r \in Requests, Inv, UpdateWallet(r)
  PROVE  Inv'
<1> USE DEF UpdateWallet, GoTo, Finish, dbVars
<1>1. TypeOK'
  BY ConstantsAssumption, ZeroBalance DEF Inv, TypeOK, RequestsOK, RequestOK, Jobs, HasDeposit, HasWithdrawal
<1>2. RequestOK(r)'
  BY DEF Inv, TypeOK, RequestsOK, RequestOK, HasDeposit, HasWithdrawal
<1>3. RowsKept /\ OthersKept(r)
  BY DEF Inv, TypeOK, RequestsOK, RequestOK, RowsKept, OthersKept, HasDeposit, HasWithdrawal
<1>4. BalancesOrdered'
  BY DEF Inv, TypeOK, BalancesOrdered
<1> QED  BY <1>1, <1>2, <1>3, <1>4, OneRequest DEF Inv

\* Ending a request, whether it failed, was refused or is done.
LEMMA FinishInv ==
  ASSUME NEW r \in Requests, Inv, Finish(r), UNCHANGED <<dbVars, intents, paid, started>>
  PROVE  Inv'
<1> USE DEF Finish, GoTo, dbVars
<1>1. TypeOK'
  BY ConstantsAssumption, ZeroBalance DEF Inv, TypeOK
<1>2. RequestOK(r)'
  BY DEF Inv, TypeOK, RequestOK
<1>3. RowsKept /\ OthersKept(r)
  BY DEF Inv, TypeOK, RowsKept, OthersKept
<1>4. BalancesOrdered'
  BY DEF Inv, BalancesOrdered
<1> QED  BY <1>1, <1>2, <1>3, <1>4, OneRequest DEF Inv

LEMMA FailInv ==
  ASSUME NEW r \in Requests, Inv, Fail(r)
  PROVE  Inv'
  BY FinishInv DEF Fail

\* What a request under way carries.
LEMMA JobTyped ==
  ASSUME NEW r \in Requests, Inv, pc[r] \notin {"idle", "init", "store"}
  PROVE  /\ job[r] \in Jobs /\ job[r].op \in Changes
         /\ job[r].account \in Accounts /\ job[r].amount \in Amounts
         /\ wallet[job[r].account] # None => wallet[job[r].account] \in Balance
<1>1. job[r] \in Jobs /\ job[r].op \in Changes
  BY DEF Inv, TypeOK, RequestsOK, RequestOK
<1>2. job[r].account \in Accounts /\ job[r].amount \in Amounts
  BY <1>1 DEF Jobs
<1> QED  BY <1>1, <1>2 DEF Inv, TypeOK

\* A request that only moves on, to a label with no further claim.
LEMMA MoveOnInv ==
  ASSUME NEW r \in Requests, Inv, pc[r] \notin {"idle", "init", "store"},
         NEW label \in {"begin", "ensure", "create"}, GoTo(r, label),
         UNCHANGED <<dbVars, intents, paid, job, snap, started>>
  PROVE  Inv'
<1> USE DEF GoTo, dbVars
<1>1. TypeOK'
  BY ConstantsAssumption DEF Inv, TypeOK
<1>2. RequestOK(r)'
  BY DEF Inv, TypeOK, RequestsOK, RequestOK, HasDeposit, HasWithdrawal
<1>3. RowsKept /\ OthersKept(r)
  BY DEF Inv, TypeOK, RowsKept, OthersKept
<1>4. BalancesOrdered'
  BY DEF Inv, BalancesOrdered
<1> QED  BY <1>1, <1>2, <1>3, <1>4, OneRequest DEF Inv

LEMMA ProviderAnswersInv ==
  ASSUME NEW r \in Requests, Inv, ProviderAnswers(r)
  PROVE  Inv'
<1>1. CASE GoTo(r, "begin") /\ UNCHANGED <<job, snap>>
  BY <1>1, MoveOnInv DEF ProviderAnswers
<1>2. CASE Finish(r)
  BY <1>2, FinishInv DEF ProviderAnswers
<1> QED  BY <1>1, <1>2 DEF ProviderAnswers

\* Taking balances that passed the check into the request.
LEMMA SnapshotOK ==
  ASSUME NEW r \in Requests, Inv, pc[r] \in {"ensure", "create"},
         NEW b \in Balance, b.reserved <= b.available,
         Permitted(job[r].op, job[r].amount, b),
         GoTo(r, "update"), snap' = [snap EXCEPT ![r] = b],
         UNCHANGED <<ledger, deposits, withdrawals, settings, intents, paid, job, started>>
  PROVE  /\ RequestsOK'
         /\ wallet' \in [Accounts -> Balance \cup {None}] => TypeOK'
<1> USE DEF GoTo
<1>1. snap'[r] = b /\ pc'[r] = "update" /\ job'[r] = job[r]
  BY DEF Inv, TypeOK
<1>2. RequestOK(r)'
  BY <1>1, JobTyped DEF Inv, TypeOK, RequestsOK, RequestOK, HasDeposit, HasWithdrawal
<1>3. RowsKept /\ OthersKept(r)
  BY DEF Inv, TypeOK, RowsKept, OthersKept
<1>4. wallet' \in [Accounts -> Balance \cup {None}] => TypeOK'
  BY ConstantsAssumption DEF Inv, TypeOK
<1> QED  BY <1>2, <1>3, <1>4, OneRequest DEF Inv

LEMMA EnsureWalletInv ==
  ASSUME NEW r \in Requests, Inv, EnsureWallet(r)
  PROVE  Inv'
<1> DEFINE a == job[r].account
<1>0. /\ pc[r] = "ensure"
      /\ UNCHANGED <<dbVars, intents, paid, started>>
  BY DEF EnsureWallet
<1>1. CASE wallet[a] = None /\ GoTo(r, "create") /\ UNCHANGED <<job, snap>>
  BY <1>0, <1>1, MoveOnInv
<1>2. CASE /\ wallet[a] # None /\ Permitted(job[r].op, job[r].amount, wallet[a])
           /\ snap' = [snap EXCEPT ![r] = wallet[a]]
           /\ GoTo(r, "update") /\ UNCHANGED job
  <2>1. wallet[a] \in Balance /\ a \in Accounts
    BY <1>0, <1>2, JobTyped
  <2>2. wallet[a].reserved <= wallet[a].available
    BY <1>2, <2>1 DEF Inv, BalancesOrdered
  <2>3. RequestsOK' /\ TypeOK'
    BY <1>0, <1>2, <2>1, <2>2, SnapshotOK DEF Inv, TypeOK, dbVars
  <2>4. BalancesOrdered'
    BY <1>0 DEF Inv, BalancesOrdered, dbVars
  <2> QED  BY <2>3, <2>4 DEF Inv
<1>3. CASE Finish(r)
  BY <1>0, <1>3, FinishInv
<1> QED  BY <1>1, <1>2, <1>3 DEF EnsureWallet

\* A new row is empty, whichever request created it.
LEMMA NewRow ==
  ASSUME Inv, NEW a \in Accounts, wallet' = [wallet EXCEPT ![a] = Zero]
  PROVE  wallet' \in [Accounts -> Balance \cup {None}] /\ BalancesOrdered'
  BY ZeroBalance DEF Inv, TypeOK, BalancesOrdered, Zero

LEMMA CreateWalletInv ==
  ASSUME NEW r \in Requests, Inv, CreateWallet(r)
  PROVE  Inv'
<1> DEFINE a == job[r].account
<1>0. /\ pc[r] = "create" /\ a \in Accounts
      /\ UNCHANGED <<ledger, deposits, withdrawals, settings, intents, paid, started>>
  BY JobTyped DEF CreateWallet
<1>1. CASE wallet[a] = None /\ wallet' = [wallet EXCEPT ![a] = Zero]
  <2>1. wallet' \in [Accounts -> Balance \cup {None}] /\ BalancesOrdered'
    BY <1>0, <1>1, NewRow
  <2>2. CASE /\ Permitted(job[r].op, job[r].amount, Zero)
             /\ snap' = [snap EXCEPT ![r] = Zero] /\ GoTo(r, "update") /\ UNCHANGED job
    <3>1. Zero \in Balance /\ Zero.reserved <= Zero.available
      BY DEF Zero, Balance
    <3> QED  BY <1>0, <2>1, <2>2, <3>1, SnapshotOK DEF Inv
  <2>3. CASE Finish(r)
    <3> USE DEF Finish, GoTo
    <3>1. TypeOK'
      BY <1>0, <2>1, <2>3, ConstantsAssumption, ZeroBalance DEF Inv, TypeOK
    <3>2. RequestOK(r)'
      BY <2>3 DEF Inv, TypeOK, RequestOK
    <3>3. RowsKept /\ OthersKept(r)
      BY <1>0, <2>3 DEF Inv, TypeOK, RowsKept, OthersKept
    <3> QED  BY <2>1, <3>1, <3>2, <3>3, OneRequest DEF Inv
  <2> QED  BY <1>1, <2>2, <2>3 DEF CreateWallet
<1>2. CASE wallet[a] # None /\ Finish(r) /\ UNCHANGED wallet
  BY <1>0, <1>2, FinishInv DEF dbVars
<1> QED  BY <1>1, <1>2 DEF CreateWallet

LEMMA AutoApproveInv ==
  ASSUME NEW r \in Requests, Inv, AutoApprove(r)
  PROVE  Inv'
<1> DEFINE w == job[r].target
<1>1. CASE /\ withdrawals[w].status = "pending" /\ UNCHANGED snap
           /\ job' = [job EXCEPT ![r] = PayoutJob(w)] /\ GoTo(r, "begin")
  <2> USE DEF GoTo, dbVars
  <2>0. /\ pc[r] = "auto" /\ w \in Withdrawals
        /\ UNCHANGED <<dbVars, intents, paid, started>>
    BY DEF AutoApprove, Inv, RequestsOK, RequestOK, HasWithdrawal
  <2>1. /\ PayoutJob(w) \in Jobs
        /\ PayoutJob(w).op \in {"withdrawal_payout", "withdrawal_release"}
        /\ PayoutJob(w).target = w /\ ~PayoutJob(w).auto
        /\ PayoutJob(w).account = withdrawals[w].account
        /\ PayoutJob(w).amount = withdrawals[w].amount
    BY <1>1, <2>0, ReviewJobFits DEF Inv
  <2> HIDE DEF w
  <2>2. TypeOK'
    BY <1>1, <2>0, <2>1, ConstantsAssumption DEF Inv, TypeOK
  <2>3. job'[r] = PayoutJob(w) /\ pc'[r] = "begin"
    BY <1>1 DEF Inv, TypeOK
  <2>4. RequestOK(r)'
    BY <1>1, <2>0, <2>1, <2>3 DEF RequestOK, HasWithdrawal, Changes
  <2>5. RowsKept /\ OthersKept(r)
    BY <1>1, <2>0 DEF Inv, TypeOK, RowsKept, OthersKept
  <2>6. BalancesOrdered'
    BY <2>0 DEF Inv, BalancesOrdered
  <2> QED  BY <2>2, <2>4, <2>5, <2>6, OneRequest DEF Inv
<1>2. CASE Finish(r)
  BY <1>2, FinishInv DEF AutoApprove
<1> QED  BY <1>1, <1>2 DEF AutoApprove

\* The status write opens, decides or completes the row the request acts for.
LEMMA WriteStatusInv ==
  ASSUME NEW r \in Requests, Inv, WriteStatus(r)
  PROVE  Inv'
<1> DEFINE w == job[r].target
<1> USE DEF GoTo
<1>0. /\ pc[r] = "status" /\ GoTo(r, "commit") /\ pc'[r] = "commit"
      /\ UNCHANGED <<wallet, ledger, settings, intents, paid, snap, started>>
      /\ job[r] \in Jobs /\ job[r].op \in Changes
      /\ job[r].account \in Accounts /\ job[r].amount \in Amounts
  BY JobTyped DEF WriteStatus, Inv, TypeOK
<1>1. BalancesOrdered'
  BY <1>0 DEF Inv, BalancesOrdered
<1>2. ASSUME job[r].op = "withdrawal_reserve", NEW v \in Withdrawals,
             withdrawals[v].status = "none", UNCHANGED deposits,
             withdrawals' = [withdrawals EXCEPT ![v] =
               Row("pending", job[r].account, job[r].amount)],
             job' = [job EXCEPT ![r].target = v]
      PROVE  Inv'
  <2>1. /\ job'[r] \in Jobs /\ job'[r].op = job[r].op /\ job'[r].target = v
        /\ job'[r].account = job[r].account /\ job'[r].amount = job[r].amount
        /\ job'[r].auto = job[r].auto
    BY <1>0, <1>2 DEF Inv, TypeOK, Jobs
  <2>2. withdrawals'[v] = Row("pending", job[r].account, job[r].amount)
    BY <1>2 DEF Inv, TypeOK
  <2>3. TypeOK'
    <3>1. job' \in [Requests -> {NoJob} \cup Jobs]
      BY <1>2, <2>1 DEF Inv, TypeOK
    <3>2. withdrawals' \in [Withdrawals -> {NoWithdrawal} \cup
            [status: Statuses \ {"none"}, account: Accounts, amount: Amounts]]
      BY <1>0, <1>2 DEF Inv, TypeOK, Row
    <3> QED  BY <1>0, <1>2, <3>1, <3>2, ConstantsAssumption DEF Inv, TypeOK
  <2>4. RequestOK(r)'
    BY <1>0, <1>2, <2>1, <2>2
       DEF Inv, RequestsOK, RequestOK, HasWithdrawal, Row, Changes
  <2>5. RowsKept /\ OthersKept(r)
    BY <1>0, <1>2 DEF Inv, TypeOK, RowsKept, OthersKept
  <2> QED  BY <1>1, <2>3, <2>4, <2>5, OneRequest DEF Inv
<1>3. ASSUME job[r].op \in {"withdrawal_payout", "withdrawal_release"},
             UNCHANGED <<deposits, job>>, NEW status \in {"paid", "rejected"},
             withdrawals' = [withdrawals EXCEPT ![w].status = status]
      PROVE  Inv'
  <2>1. w \in Withdrawals /\ HasWithdrawal(r) /\ withdrawals[w] \in
          [status: Statuses \ {"none"}, account: Accounts, amount: Amounts]
    BY <1>0, <1>3 DEF Inv, TypeOK, RequestsOK, RequestOK, HasWithdrawal, NoWithdrawal, Row
  <2>2. /\ withdrawals'[w].status = status
        /\ withdrawals'[w].account = withdrawals[w].account
        /\ withdrawals'[w].amount = withdrawals[w].amount
    BY <1>3, <2>1 DEF Inv, TypeOK
  <2>3. TypeOK'
    <3>1. withdrawals' \in [Withdrawals -> {NoWithdrawal} \cup
            [status: Statuses \ {"none"}, account: Accounts, amount: Amounts]]
      BY <1>3, <2>1 DEF Inv, TypeOK
    <3> QED  BY <1>0, <1>3, <3>1, ConstantsAssumption DEF Inv, TypeOK
  <2>4. RequestOK(r)'
    BY <1>0, <1>3, <2>1, <2>2
       DEF Inv, RequestsOK, RequestOK, HasWithdrawal, Changes
  <2>5. RowsKept /\ OthersKept(r)
    BY <1>0, <1>3, <2>1 DEF Inv, TypeOK, RowsKept, OthersKept
  <2> QED  BY <1>1, <2>3, <2>4, <2>5, OneRequest DEF Inv
<1>4. ASSUME job[r].op = "deposit", UNCHANGED <<withdrawals, job>>,
             deposits' = [deposits EXCEPT ![w].status = "completed", ![w].ref = TRUE]
      PROVE  Inv'
  <2>1. w \in Deposits /\ HasDeposit(r) /\ deposits[w] \in
          [status: {"pending", "completed"}, account: Accounts, amount: Amounts,
           card: BOOLEAN, ref: BOOLEAN]
    BY <1>0, <1>4 DEF Inv, TypeOK, RequestsOK, RequestOK, HasDeposit, NoDeposit
  <2>2. /\ deposits'[w].status = "completed"
        /\ deposits'[w].account = deposits[w].account
        /\ deposits'[w].amount = deposits[w].amount
    BY <1>4, <2>1 DEF Inv, TypeOK
  <2>3. TypeOK'
    <3>1. deposits' \in [Deposits -> {NoDeposit} \cup
            [status: {"pending", "completed"}, account: Accounts, amount: Amounts,
             card: BOOLEAN, ref: BOOLEAN]]
      BY <1>4, <2>1 DEF Inv, TypeOK
    <3> QED  BY <1>0, <1>4, <3>1, ConstantsAssumption DEF Inv, TypeOK
  <2>4. RequestOK(r)'
    BY <1>0, <1>4, <2>1, <2>2
       DEF Inv, RequestsOK, RequestOK, HasDeposit, Changes
  <2>5. RowsKept /\ OthersKept(r)
    BY <1>0, <1>4, <2>1 DEF Inv, TypeOK, RowsKept, OthersKept
  <2> QED  BY <1>1, <2>3, <2>4, <2>5, OneRequest DEF Inv
<1> QED  BY <1>2, <1>3, <1>4 DEF WriteStatus

\* The row a request commits, and the entry that goes with it.
LEMMA CommitWrites ==
  ASSUME NEW r \in Requests, Inv, Commit(r)
  PROVE  LET a == job[r].account
             new == After(job[r].op, job[r].amount, snap[r])
         IN  /\ a \in Accounts /\ new \in Balance /\ new.reserved <= new.available
             /\ wallet' = [wallet EXCEPT ![a] = new]
             /\ ledger' = [ledger EXCEPT ![a] = Append(@, NewEntry(r))]
             /\ NewEntry(r) \in Entry /\ NewEntry(r).after = new
             /\ NewEntry(r).type = job[r].op /\ NewEntry(r).ref = job[r].target
             /\ NewEntry(r).amount = job[r].amount
<1> DEFINE a == job[r].account
           new == After(job[r].op, job[r].amount, snap[r])
<1>1. pc[r] = "commit" /\ snap[r] \in Balance
  BY DEF Commit, Inv, TypeOK
<1>2. /\ job[r].op \in Changes /\ a \in Accounts /\ job[r].amount \in Amounts
      /\ job[r].target \in Deposits \cup Withdrawals \cup {None}
  BY <1>1, JobTyped DEF Jobs
<1>3. Permitted(job[r].op, job[r].amount, snap[r]) /\ snap[r].reserved <= snap[r].available
  BY <1>1 DEF Inv, RequestsOK, RequestOK
<1>4. new \in Balance /\ new.reserved <= new.available
  BY <1>1, <1>2, <1>3, AfterOrdered
<1>5. /\ NewEntry(r) \in Entry /\ NewEntry(r).after = new
      /\ NewEntry(r).type = job[r].op /\ NewEntry(r).ref = job[r].target
      /\ NewEntry(r).amount = job[r].amount
  BY <1>2, <1>4 DEF NewEntry, Entry
<1>6. /\ wallet' = [wallet EXCEPT ![a] = new]
      /\ ledger' = [ledger EXCEPT ![a] = Append(@, NewEntry(r))]
  BY DEF Commit
<1> QED  BY <1>2, <1>4, <1>5, <1>6

LEMMA CommitInv ==
  ASSUME NEW r \in Requests, Inv, Commit(r)
  PROVE  Inv'
<1> DEFINE a == job[r].account
           new == After(job[r].op, job[r].amount, snap[r])
           e == NewEntry(r)
<1>1. /\ a \in Accounts /\ new \in Balance /\ new.reserved <= new.available
      /\ wallet' = [wallet EXCEPT ![a] = new]
      /\ ledger' = [ledger EXCEPT ![a] = Append(@, e)] /\ e \in Entry
  BY CommitWrites
<1>2. /\ pc[r] = "commit"
      /\ UNCHANGED <<deposits, withdrawals, settings, intents, paid, started>>
      /\ \/ job[r].auto /\ GoTo(r, "auto") /\ UNCHANGED <<job, snap>>
         \/ Finish(r)
  BY DEF Commit
<1> HIDE DEF new, e
<1>3. wallet' \in [Accounts -> Balance \cup {None}]
  BY <1>1 DEF Inv, TypeOK
<1>4. ledger' \in [Accounts -> Seq(Entry)]
  BY <1>1 DEF Inv, TypeOK
<1>5. /\ pc' \in [Requests -> Labels] /\ job' \in [Requests -> {NoJob} \cup Jobs]
      /\ snap' \in [Requests -> Balance]
  BY <1>2, ZeroBalance DEF Inv, TypeOK, GoTo, Finish
<1>6. TypeOK'
  BY <1>2, <1>3, <1>4, <1>5, ConstantsAssumption DEF Inv, TypeOK
<1>7. RequestOK(r)'
  BY <1>2 DEF Inv, TypeOK, RequestsOK, RequestOK, HasWithdrawal, GoTo, Finish, Changes
<1>8. RowsKept /\ OthersKept(r)
  BY <1>2 DEF Inv, TypeOK, RowsKept, OthersKept, GoTo, Finish
<1>9. BalancesOrdered'
  BY <1>1 DEF Inv, TypeOK, BalancesOrdered
<1> QED  BY <1>6, <1>7, <1>8, <1>9, OneRequest DEF Inv

(***************************************************************************)
(* The invariant.                                                          *)
(***************************************************************************)
LEMMA InitInv == Init => Inv
<1> SUFFICES ASSUME Init PROVE Inv
  OBVIOUS
<1>1. TypeOK
  BY ConstantsAssumption, ZeroBalance DEF Init, TypeOK
<1>2. RequestsOK
  BY DEF Init, RequestsOK, RequestOK
<1>3. BalancesOrdered
  BY DEF Init, BalancesOrdered
<1> QED  BY <1>1, <1>2, <1>3 DEF Inv

LEMMA StepInv ==
  ASSUME NEW r \in Requests, Inv, Step(r)
  PROVE  Inv'
  BY InitPaymentInv, StoreReferenceInv, ProviderAnswersInv, BeginInv, EnsureWalletInv,
     CreateWalletInv, UpdateWalletInv, WriteStatusInv, CommitInv, AutoApproveInv
  DEF Step

\* The steps outside the requests leave what requests rely on alone.
LEMMA ElsewhereInv ==
  ASSUME Inv,
         \/ \E a \in Accounts : GetCustomerWallets(a)
         \/ UpdateAdminSettings
         \/ \E d \in Deposits : CustomerPays(d)
         \/ UNCHANGED vars
  PROVE  Inv'
<1>1. ASSUME NEW a \in Accounts, GetCustomerWallets(a)
      PROVE  Inv'
  <2>1. wallet' \in [Accounts -> Balance \cup {None}] /\ BalancesOrdered'
    BY <1>1, NewRow DEF GetCustomerWallets
  <2>2. TypeOK'
    BY <1>1, <2>1 DEF Inv, TypeOK, GetCustomerWallets
  <2>3. RequestsOK'
    BY <1>1 DEF Inv, RequestsOK, RequestOK, HasDeposit, HasWithdrawal, GetCustomerWallets
  <2> QED  BY <2>1, <2>2, <2>3 DEF Inv
<1>2. CASE UpdateAdminSettings
  <2>1. TypeOK'
    BY <1>2, ConstantsAssumption DEF Inv, TypeOK, UpdateAdminSettings
  <2>2. RequestsOK' /\ BalancesOrdered'
    BY <1>2 DEF Inv, RequestsOK, RequestOK, HasDeposit, HasWithdrawal, BalancesOrdered,
                UpdateAdminSettings
  <2> QED  BY <2>1, <2>2 DEF Inv
<1>3. ASSUME NEW d \in Deposits, CustomerPays(d)
      PROVE  Inv'
  <2>1. TypeOK'
    BY <1>3 DEF Inv, TypeOK, CustomerPays, dbVars
  <2>2. RequestsOK' /\ BalancesOrdered'
    BY <1>3 DEF Inv, RequestsOK, RequestOK, HasDeposit, HasWithdrawal, BalancesOrdered,
                CustomerPays, dbVars
  <2> QED  BY <2>1, <2>2 DEF Inv
<1>4. CASE UNCHANGED vars
  BY <1>4 DEF Inv, TypeOK, RequestsOK, RequestOK, HasDeposit, HasWithdrawal,
              BalancesOrdered, vars
<1> QED  BY <1>1, <1>2, <1>3, <1>4

LEMMA NextInv == Inv /\ [Next]_vars => Inv'
  BY HandlerInv, StepInv, FailInv, ElsewhereInv DEF Next

LEMMA Invariance == Spec => []Inv
  BY InitInv, NextInv, PTL DEF Spec

\* Every variable keeps its type: no interleaving, crash or pool size ever
\* makes a committed balance negative.
THEOREM TypeCorrect == Spec => []TypeOK
<1>1. Inv => TypeOK
  BY DEF Inv
<1> QED  BY <1>1, Invariance, PTL

\* However the requests interleave or die, a committed wallet row never
\* reserves more than it holds, although every row is written from a read
\* that may be stale.
THEOREM OrderedBalances == Spec => []BalancesOrdered
<1>1. Inv => BalancesOrdered
  BY DEF Inv
<1> QED  BY <1>1, Invariance, PTL

(***************************************************************************)
(* The ledger.                                                             *)
(***************************************************************************)
\* Of all steps only Commit posts; the others leave the rows, but for new ones.
Quiet ==
  /\ UNCHANGED ledger
  /\ \A a \in Accounts : \/ wallet'[a] = wallet[a]
                         \/ wallet[a] = None /\ wallet'[a] = Zero

LEMMA QuietOrCommit ==
  ASSUME Inv, [Next]_vars
  PROVE  Quiet \/ \E r \in Requests : Commit(r)
<1>1. ASSUME NEW r \in Requests, Handler(r)  PROVE Quiet
  BY <1>1 DEF Handler, RequestWithdrawal, ApplyManualAdjustment, ApplyWalletPayment,
              StripeWebhook, SyncDepositPayment, ApproveWithdrawal, RejectWithdrawal,
              InitiateDeposit, dbVars, Quiet
<1>2. ASSUME NEW r \in Requests, Step(r), ~Commit(r)  PROVE Quiet
  <2>1. CASE CreateWallet(r)
    BY <2>1 DEF CreateWallet, Inv, TypeOK, Quiet
  <2>2. CASE ~CreateWallet(r)
    BY <1>2, <2>2 DEF Step, InitPayment, StoreReference, ProviderAnswers, Begin,
       EnsureWallet, UpdateWallet, WriteStatus, AutoApprove, dbVars, Quiet
  <2> QED  BY <2>1, <2>2
<1>3. ASSUME NEW r \in Requests, Fail(r)  PROVE Quiet
  BY <1>3 DEF Fail, dbVars, Quiet
<1>4. ASSUME NEW a \in Accounts, GetCustomerWallets(a)  PROVE Quiet
  BY <1>4 DEF GetCustomerWallets, Inv, TypeOK, Quiet
<1>5. CASE UpdateAdminSettings
  BY <1>5 DEF UpdateAdminSettings, Quiet
<1>6. ASSUME NEW d \in Deposits, CustomerPays(d)  PROVE Quiet
  BY <1>6 DEF CustomerPays, dbVars, Quiet
<1>7. CASE UNCHANGED vars
  BY <1>7 DEF vars, Quiet
<1> QED  BY <1>1, <1>2, <1>3, <1>4, <1>5, <1>6, <1>7 DEF Next

\* A committed entry is the newest of its account.
LEMMA CommitTail ==
  ASSUME Inv, LedgerTailMatches, NEW r \in Requests, Commit(r)
  PROVE  LedgerTailMatches'
<1> DEFINE a == job[r].account
           new == After(job[r].op, job[r].amount, snap[r])
           e == NewEntry(r)
<1>1. /\ a \in Accounts /\ e \in Entry /\ e.after = new
      /\ wallet' = [wallet EXCEPT ![a] = new]
      /\ ledger' = [ledger EXCEPT ![a] = Append(@, e)]
  BY CommitWrites
<1> HIDE DEF new, e
<1>2. SUFFICES ASSUME NEW b \in Accounts
               PROVE  IF ledger'[b] = <<>> THEN wallet'[b] \in {None, Zero}
                      ELSE wallet'[b] = Last(ledger'[b]).after
  BY DEF LedgerTailMatches
<1>3. CASE b = a
  <2>1. wallet'[b] = new /\ ledger'[b] = Append(ledger[b], e) /\ ledger[b] \in Seq(Entry)
    BY <1>1, <1>3 DEF Inv, TypeOK
  <2>2. ledger'[b] # <<>> /\ Last(ledger'[b]) = e
    BY <1>1, <2>1 DEF Last
  <2> QED  BY <1>1, <2>1, <2>2
<1>4. CASE b # a
  BY <1>1, <1>4 DEF Inv, TypeOK, LedgerTailMatches
<1> QED  BY <1>3, <1>4

LEMMA TailNext ==
  ASSUME Inv, LedgerTailMatches, [Next]_vars
  PROVE  LedgerTailMatches'
<1>1. CASE Quiet
  <2> SUFFICES ASSUME NEW b \in Accounts
               PROVE  IF ledger'[b] = <<>> THEN wallet'[b] \in {None, Zero}
                      ELSE wallet'[b] = Last(ledger'[b]).after
    BY DEF LedgerTailMatches
  <2>1. ledger'[b] = ledger[b]
    BY <1>1 DEF Quiet
  <2>2. CASE wallet'[b] = wallet[b]
    BY <2>1, <2>2 DEF LedgerTailMatches
  <2>3. CASE wallet[b] = None /\ wallet'[b] = Zero
    <3>1. CASE ledger[b] = <<>>
      BY <2>1, <2>3, <3>1
    <3>2. CASE ledger[b] # <<>>
      <4>1. ledger[b] \in Seq(Entry) /\ Len(ledger[b]) \in 1 .. Len(ledger[b])
        BY <3>2 DEF Inv, TypeOK
      <4>2. Last(ledger[b]) \in Entry
        BY <4>1 DEF Last
      <4>3. Last(ledger[b]).after \in Balance
        BY <4>2 DEF Entry
      <4> QED  BY <2>3, <3>2, <4>3, ConstantsAssumption DEF LedgerTailMatches
    <3> QED  BY <3>1, <3>2
  <2> QED  BY <1>1, <2>2, <2>3 DEF Quiet
<1>2. CASE \E r \in Requests : Commit(r)
  BY <1>2, CommitTail
<1> QED  BY <1>1, <1>2, QuietOrCommit

\* The balances of a row are always those its newest ledger entry recorded:
\* the ledger explains every balance a customer sees, even after lost updates.
THEOREM LedgerTail == Spec => []LedgerTailMatches
<1>1. Init => LedgerTailMatches
  BY DEF Init, LedgerTailMatches
<1>2. Inv /\ LedgerTailMatches /\ [Next]_vars => LedgerTailMatches'
  BY TailNext
<1> QED  BY <1>1, <1>2, Invariance, PTL DEF Spec

LEMMA RowsAlwaysKept ==
  ASSUME Inv, [Next]_vars
  PROVE  RowsKept
<1>1. CASE UNCHANGED <<deposits, withdrawals>>
  BY <1>1 DEF RowsKept
<1>2. ASSUME NEW r \in Requests, Handler(r)  PROVE RowsKept
  <2>1. ASSUME NEW a \in Accounts, NEW amount \in Amounts, NEW d \in Deposits,
               NEW card \in BOOLEAN, InitiateDeposit(r, a, amount, d, card)
        PROVE  RowsKept
    BY <2>1 DEF InitiateDeposit, RowsKept, Inv, TypeOK
  <2> QED  BY <1>1, <1>2, <2>1 DEF Handler, RequestWithdrawal, ApplyManualAdjustment,
              ApplyWalletPayment, StripeWebhook, SyncDepositPayment, ApproveWithdrawal,
              RejectWithdrawal, dbVars
<1>3. ASSUME NEW r \in Requests, StoreReference(r)  PROVE RowsKept
  BY <1>3 DEF StoreReference, RowsKept, Inv, TypeOK
<1>4. ASSUME NEW r \in Requests, WriteStatus(r)  PROVE RowsKept
  <2> DEFINE w == job[r].target
  <2>1. ASSUME NEW v \in Withdrawals, withdrawals[v].status = "none", UNCHANGED deposits,
               NEW row, row.status = "pending", withdrawals' = [withdrawals EXCEPT ![v] = row]
        PROVE  RowsKept
    BY <2>1 DEF RowsKept, Inv, TypeOK
  <2>2. ASSUME NEW status \in {"paid", "rejected"}, UNCHANGED deposits,
               withdrawals' = [withdrawals EXCEPT ![w].status = status]
        PROVE  RowsKept
    BY <2>2 DEF RowsKept, Inv, TypeOK
  <2>3. CASE /\ UNCHANGED withdrawals
             /\ deposits' = [deposits EXCEPT ![w].status = "completed", ![w].ref = TRUE]
    BY <2>3 DEF RowsKept, Inv, TypeOK
  <2> QED  BY <1>4, <2>1, <2>2, <2>3 DEF WriteStatus, Row
<1>5. ASSUME NEW r \in Requests, Step(r), ~StoreReference(r), ~WriteStatus(r)
      PROVE  UNCHANGED <<deposits, withdrawals>>
  BY <1>5 DEF Step, InitPayment, ProviderAnswers, Begin, EnsureWallet, CreateWallet,
              UpdateWallet, Commit, AutoApprove, dbVars
<1>6. ASSUME \/ \E r \in Requests : Fail(r)
             \/ \E a \in Accounts : GetCustomerWallets(a)
             \/ UpdateAdminSettings \/ \E d \in Deposits : CustomerPays(d)
             \/ UNCHANGED vars
      PROVE  UNCHANGED <<deposits, withdrawals>>
  BY <1>6 DEF Fail, GetCustomerWallets, UpdateAdminSettings, CustomerPays, dbVars, vars
<1> QED  BY <1>1, <1>2, <1>3, <1>4, <1>5, <1>6 DEF Next

\* An entry that is backed stays backed while rows are kept.
LEMMA BackedStays ==
  ASSUME RowsKept, NEW a \in Accounts, NEW e, PostedFor(e, a)
  PROVE  PostedFor(e, a)'
  BY DEF PostedFor, RowsKept

LEMMA PostedNext ==
  ASSUME Inv, PostedImpliesDecided, [Next]_vars
  PROVE  PostedImpliesDecided'
<1>1. RowsKept
  BY RowsAlwaysKept
<1>2. CASE Quiet
  BY <1>1, <1>2, BackedStays DEF PostedImpliesDecided, Quiet
<1>3. ASSUME NEW r \in Requests, Commit(r)  PROVE PostedImpliesDecided'
  <2>1. PICK a \in Accounts, e \in Entry :
          /\ a = job[r].account /\ ledger' = [ledger EXCEPT ![a] = Append(@, e)]
          /\ e.type = job[r].op /\ e.ref = job[r].target /\ e.amount = job[r].amount
    BY <1>3, CommitWrites
  <2>2. pc[r] = "commit" /\ UNCHANGED <<deposits, withdrawals>>
    BY <1>3 DEF Commit
  <2>3. PostedFor(e, a)
    BY <2>1, <2>2 DEF Inv, RequestsOK, RequestOK, HasDeposit, HasWithdrawal, PostedFor
  <2>4. SUFFICES ASSUME NEW b \in Accounts, NEW i \in 1 .. Len(ledger'[b]),
                        NEW f, f = ledger'[b][i]
                 PROVE  PostedFor(f, b)
    BY <1>1, BackedStays DEF PostedImpliesDecided
  <2>5. ledger[b] \in Seq(Entry)
    BY DEF Inv, TypeOK
  <2>6. CASE i \in 1 .. Len(ledger[b])
    BY <2>1, <2>4, <2>5, <2>6 DEF Inv, TypeOK, PostedImpliesDecided
  <2>7. CASE i \notin 1 .. Len(ledger[b])
    <3>1. b = a /\ ledger'[b] = Append(ledger[b], e)
      BY <2>1, <2>4, <2>5, <2>7 DEF Inv, TypeOK
    <3>2. f = e
      BY <2>4, <2>5, <2>7, <3>1
    <3> QED  BY <2>3, <3>1, <3>2
  <2> QED  BY <2>6, <2>7
<1> QED  BY <1>2, <1>3, QuietOrCommit

\* A ledger entry that moves money for a deposit or a withdrawal is backed by
\* a row of that account and amount which is completed or decided.
THEOREM EntriesBacked == Spec => []PostedImpliesDecided
<1>1. Init => PostedImpliesDecided
  BY DEF Init, PostedImpliesDecided
<1>2. Inv /\ PostedImpliesDecided /\ [Next]_vars => PostedImpliesDecided'
  BY PostedNext
<1> QED  BY <1>1, <1>2, Invariance, PTL DEF Spec

(***************************************************************************)
(* The atomic ledger keeps what is reserved the sum of what is pending.      *)
(***************************************************************************)
SeenTyped ==
  /\ SeenBalance \in [Accounts -> Balance]
  /\ \A d \in Deposits : SeenDeposit[d] # None => SeenDeposit[d] \in Filed
  /\ SeenWithdrawal = [w \in Withdrawals |-> SeenWithdrawal[w]]
  /\ \A w \in Withdrawals : SeenWithdrawal[w] # None => SeenWithdrawal[w] \in Filed

\* The amounts of the withdrawals, whoever's and of whatever status.
AmountOf(rows) == [w \in Withdrawals |-> IF rows[w] = None THEN 0 ELSE rows[w].amount]
PendingOf(rows, a) == {w \in Withdrawals : /\ rows[w] # None
                                           /\ rows[w].account = a
                                           /\ rows[w].status = "pending"}
PendingSum(rows, a) == SumFunctionOnSet(AmountOf(rows), PendingOf(rows, a))

LEMMA PendingSumIs ==
  ASSUME NEW a, NEW rows
  PROVE  SumFunction([w \in PendingOf(rows, a) |-> rows[w].amount]) = PendingSum(rows, a)
<1> DEFINE f == [w \in PendingOf(rows, a) |-> rows[w].amount]
<1>1. IsFiniteSet(PendingOf(rows, a))
  BY ConstantsAssumption, FS_Subset DEF PendingOf
<1>2. \A w \in PendingOf(rows, a) : f[w] = AmountOf(rows)[w]
  BY DEF PendingOf, AmountOf
<1>3. SumFunctionOnSet(f, PendingOf(rows, a)) = PendingSum(rows, a)
  BY <1>1, <1>2, SumSame DEF PendingSum
<1> QED  BY <1>3 DEF SumFunction

Held(balances, rows) ==
  \A a \in Accounts : /\ balances[a].reserved = PendingSum(rows, a)
                      /\ balances[a].reserved <= balances[a].available
\* The instance's sums are the module's.
LEMMA LedgerSum == \A f : Ledger!SumFunction(f) = SumFunction(f)
BY Zenon DEF SumFunction, SumFunctionOnSet, FoldFunctionOnSet, MapThenFoldSet,
   Ledger!SumFunction, Ledger!SumFunctionOnSet, Ledger!FoldFunctionOnSet, Ledger!MapThenFoldSet

LEMMA HeldIs == /\ ReservedIsPending <=> Held(SeenBalance, SeenWithdrawal)
                /\ ReservedIsPending' <=> Held(SeenBalance', SeenWithdrawal')
<1>1. \A rows, a : Ledger!SumFunction([w \in {v \in Withdrawals : /\ rows[v] # None
                                                          /\ rows[v].account = a
                                                          /\ rows[v].status = "pending"}
                                  |-> rows[w].amount]) = PendingSum(rows, a)
  BY PendingSumIs, LedgerSum DEF PendingOf
<1>2. ReservedIsPending <=> Held(SeenBalance, SeenWithdrawal)
  BY <1>1 DEF ReservedIsPending, Ledger!ReservedIsPending, Ledger!Mine, Held
<1>3. ReservedIsPending' <=> Held(SeenBalance', SeenWithdrawal')
  BY <1>1 DEF ReservedIsPending, Ledger!ReservedIsPending, Ledger!Mine, Held
<1> QED  BY <1>2, <1>3

LEMMA AmountsAreInt ==
  ASSUME NEW rows, \A w \in Withdrawals : rows[w] # None => rows[w].amount \in Amounts
  PROVE  \A w \in Withdrawals : AmountOf(rows)[w] \in Nat
BY ConstantsAssumption DEF AmountOf

\* One withdrawal becomes pending, or is pending no more.
LEMMA PendingAdded ==
  ASSUME NEW rows, NEW new, NEW w \in Withdrawals, rows[w] = None,
         \A v \in Withdrawals : rows[v] # None => rows[v].amount \in Amounts,
         new[w] # None, new[w].status = "pending", new[w].amount \in Amounts,
         \A v \in Withdrawals \ {w} : new[v] = rows[v], NEW a
  PROVE  /\ a = new[w].account => PendingSum(new, a) = PendingSum(rows, a) + new[w].amount
         /\ a # new[w].account => PendingSum(new, a) = PendingSum(rows, a)
<1> DEFINE S == PendingOf(rows, a)
<1>1. IsFiniteSet(S) /\ w \notin S /\ S \subseteq Withdrawals
  BY ConstantsAssumption, FS_Subset DEF PendingOf
<1>2. \A v \in S : AmountOf(new)[v] = AmountOf(rows)[v]
  BY <1>1 DEF AmountOf
<1>3. SumFunctionOnSet(AmountOf(new), S) = PendingSum(rows, a)
  <2> HIDE DEF S
  <2>1. SumFunctionOnSet(AmountOf(new), S) = SumFunctionOnSet(AmountOf(rows), S)
    BY <1>1, <1>2, SumSame
  <2> QED  BY <2>1 DEF PendingSum, S
<1>4. \A v \in Withdrawals : AmountOf(new)[v] \in Int /\ AmountOf(new)[w] = new[w].amount
  <2>1. \A v \in Withdrawals : new[v] # None => new[v].amount \in Amounts
    OBVIOUS
  <2> QED  BY <2>1, AmountsAreInt DEF AmountOf
<1>5. CASE a = new[w].account
  <2>1. PendingOf(new, a) = S \cup {w}
    BY <1>5 DEF PendingOf
  <2> HIDE DEF S
  <2>2. SumFunctionOnSet(AmountOf(new), S \cup {w}) = SumFunctionOnSet(AmountOf(new), S) + AmountOf(new)[w]
    BY <1>1, <1>4, SumAdd
  <2> QED  BY <1>3, <1>4, <1>5, <2>1, <2>2 DEF PendingSum
<1>6. CASE a # new[w].account
  <2>1. PendingOf(new, a) = S
    BY <1>6 DEF PendingOf
  <2> QED  BY <1>3, <1>6, <2>1 DEF PendingSum
<1> QED  BY <1>5, <1>6

LEMMA PendingRemoved ==
  ASSUME NEW rows, NEW new, NEW w \in Withdrawals, rows[w] # None, rows[w].status = "pending",
         \A v \in Withdrawals : rows[v] # None => rows[v].amount \in Amounts,
         new[w] # None, new[w].status # "pending",
         \A v \in Withdrawals \ {w} : new[v] = rows[v], NEW a
  PROVE  /\ a = rows[w].account =>
              /\ PendingSum(new, a) = PendingSum(rows, a) - rows[w].amount
              /\ rows[w].amount <= PendingSum(rows, a)
         /\ a # rows[w].account => PendingSum(new, a) = PendingSum(rows, a)
<1> DEFINE S == PendingOf(rows, a)
           T == PendingOf(new, a)
<1>1. IsFiniteSet(S) /\ IsFiniteSet(T) /\ S \subseteq Withdrawals /\ T = S \ {w}
  BY ConstantsAssumption, FS_Subset DEF PendingOf
<1>2. \A v \in T : AmountOf(new)[v] = AmountOf(rows)[v]
  BY <1>1 DEF AmountOf
<1>3. /\ \A v \in Withdrawals : AmountOf(rows)[v] \in Nat
      /\ AmountOf(rows)[w] = rows[w].amount
  BY AmountsAreInt DEF AmountOf
<1> HIDE DEF S, T
<1>4. SumFunctionOnSet(AmountOf(rows), T) = PendingSum(new, a)
  BY <1>1, <1>2, SumSame DEF PendingSum, T
<1>5. CASE a = rows[w].account
  <2>1. w \in S
    BY <1>5 DEF PendingOf, S
  <2>2. SumFunctionOnSet(AmountOf(rows), S)
          = AmountOf(rows)[w] + SumFunctionOnSet(AmountOf(rows), S \ {w})
    BY <1>1, <1>3, <2>1, SumRemove
  <2>3. SumFunctionOnSet(AmountOf(rows), T) \in Nat
    BY <1>1, <1>3, SumIsNat
  <2> QED  BY <1>1, <1>3, <1>4, <1>5, <2>2, <2>3 DEF PendingSum, S
<1>6. CASE a # rows[w].account
  <2>1. T = S
    BY <1>1, <1>6 DEF PendingOf, S
  <2> QED  BY <1>4, <1>6, <2>1 DEF PendingSum, S
<1> QED  BY <1>5, <1>6

LEMMA MoveOne ==
  ASSUME SeenBalance \in [Accounts -> Balance], NEW a \in Accounts, NEW x, NEW y, Ledger!Move(a, x, y)
  PROVE  /\ SeenBalance'[a].available = SeenBalance[a].available + x
         /\ SeenBalance'[a].reserved = SeenBalance[a].reserved + y
         /\ \A b \in Accounts \ {a} : SeenBalance'[b] = SeenBalance[b]
         /\ SeenBalance[a].available \in Nat /\ SeenBalance[a].reserved \in Nat
BY DEF Ledger!Move, Balance

LEMMA LedgerKeeps ==
  ASSUME SeenTyped, ReservedIsPending,
         Ledger!LNext \/ UNCHANGED <<SeenBalance, SeenDeposit, SeenWithdrawal>>
  PROVE  ReservedIsPending'
<1> DEFINE B == SeenBalance
           W == SeenWithdrawal
<1>0. /\ Held(B, W) /\ (ReservedIsPending' <=> Held(B', W'))
      /\ B \in [Accounts -> Balance] /\ Amounts \subseteq Nat
      /\ \A w \in Withdrawals : W[w] # None => W[w].amount \in Amounts
  BY HeldIs, ConstantsAssumption DEF SeenTyped, Filed
<1>1. ASSUME W' = W, NEW a \in Accounts, NEW x \in Int, Ledger!Move(a, x, 0),
             x >= 0 \/ -x <= Ledger!Spendable(a)
      PROVE  Held(B', W')
  <2>1. ASSUME NEW b \in Accounts
        PROVE  B'[b].reserved = B[b].reserved /\ B[b].reserved <= B'[b].available
    BY <1>0, <1>1, MoveOne DEF Ledger!Spendable, Held
  <2> QED  BY <1>0, <1>1, <2>1 DEF Held
<1>2. ASSUME NEW a \in Accounts, NEW n \in Amounts, Ledger!Credit(a, n) \/ Ledger!Debit(a, n)
      PROVE  Held(B', W')
  BY <1>0, <1>1, <1>2 DEF Ledger!Credit, Ledger!Debit
<1>3. ASSUME NEW d \in Deposits, NEW a \in Accounts, NEW n \in Amounts, Ledger!OpenDeposit(d, a, n)
      PROVE  Held(B', W')
  BY <1>0, <1>3 DEF Ledger!OpenDeposit
<1>4. ASSUME NEW d \in Deposits, Ledger!SettleDeposit(d)
      PROVE  Held(B', W')
  <2>1. /\ SeenDeposit[d].account \in Accounts /\ SeenDeposit[d].amount \in Nat
        /\ Ledger!Move(SeenDeposit[d].account, SeenDeposit[d].amount, 0) /\ W' = W
    BY <1>0, <1>4 DEF Ledger!SettleDeposit, SeenTyped, Filed
  <2> QED  BY <1>1, <2>1
<1>5. ASSUME NEW w \in Withdrawals, NEW a \in Accounts, NEW n \in Amounts, Ledger!Reserve(w, a, n)
      PROVE  Held(B', W')
  <2>1. /\ W[w] = None /\ W' = [W EXCEPT ![w] = [status |-> "pending", account |-> a, amount |-> n]]
        /\ Ledger!Move(a, 0, n) /\ n <= Ledger!Spendable(a)
    BY <1>5 DEF Ledger!Reserve, Ledger!File
  <2>2. /\ W'[w] = [status |-> "pending", account |-> a, amount |-> n]
        /\ \A v \in Withdrawals \ {w} : W'[v] = W[v]
    BY <2>1 DEF SeenTyped
  <2>3. W'[w] # None
    BY <2>2, ConstantsAssumption DEF Filed
  <2> SUFFICES ASSUME NEW b \in Accounts
               PROVE  B'[b].reserved = PendingSum(W', b) /\ B'[b].reserved <= B'[b].available
    BY DEF Held
  <2>4. /\ b = a => PendingSum(W', b) = PendingSum(W, b) + n
        /\ b # a => PendingSum(W', b) = PendingSum(W, b)
    <3>1. PICK old, new : old = W /\ new = W'
      OBVIOUS
    <3>2. \A v \in Withdrawals : old[v] # None => old[v].amount \in Amounts
      BY <1>0, <3>1
    <3>3. /\ old[w] = None /\ new[w] # None /\ new[w].account = a
          /\ new[w].status = "pending" /\ new[w].amount = n
          /\ \A v \in Withdrawals \ {w} : new[v] = old[v]
      BY <2>1, <2>2, <2>3, <3>1
    <3> QED  BY <3>1, <3>2, <3>3, PendingAdded
  <2> QED  BY <1>0, <2>1, <2>4, MoveOne DEF Held, Ledger!Spendable
<1>6. ASSUME NEW w \in Withdrawals, NEW status \in {"paid", "rejected"}, NEW n \in {0, W[w].amount},
             Ledger!Decide(w, status, n)
      PROVE  Held(B', W')
  <2> DEFINE a == W[w].account
  <2>1. /\ W[w] # None /\ W[w].status = "pending" /\ W' = [W EXCEPT ![w].status = status]
        /\ Ledger!Move(a, -n, -W[w].amount) /\ a \in Accounts /\ W[w].amount \in Amounts
    BY <1>6 DEF Ledger!Decide, SeenTyped, Filed
  <2>2. /\ W'[w].status = status /\ W'[w] # None
        /\ \A v \in Withdrawals \ {w} : W'[v] = W[v]
    <3>1. W'[w] = [status |-> status, account |-> a, amount |-> W[w].amount]
      BY <2>1 DEF SeenTyped, Filed
    <3> QED  BY <2>1, <3>1, ConstantsAssumption DEF SeenTyped, Filed
  <2> SUFFICES ASSUME NEW b \in Accounts
               PROVE  B'[b].reserved = PendingSum(W', b) /\ B'[b].reserved <= B'[b].available
    BY DEF Held
  <2>3. /\ b = a => /\ PendingSum(W', b) = PendingSum(W, b) - W[w].amount
                    /\ W[w].amount <= PendingSum(W, b)
        /\ b # a => PendingSum(W', b) = PendingSum(W, b)
    <3>1. PICK old, new : old = W /\ new = W'
      OBVIOUS
    <3>2. \A v \in Withdrawals : old[v] # None => old[v].amount \in Amounts
      BY <1>0, <3>1
    <3>3. /\ old[w] # None /\ old[w].status = "pending"
          /\ new[w] # None /\ new[w].status # "pending"
          /\ \A v \in Withdrawals \ {w} : new[v] = old[v]
      BY <2>1, <2>2, <3>1
    <3> QED  BY <3>1, <3>2, <3>3, PendingRemoved
  <2>4. W[w].amount \in Nat /\ n \in Nat /\ n <= W[w].amount
    BY <1>0, <2>1
  <2> QED  BY <1>0, <2>1, <2>3, <2>4, MoveOne DEF Held
<1>7. CASE UNCHANGED <<SeenBalance, SeenDeposit, SeenWithdrawal>>
  BY <1>0, <1>7
<1>8. ASSUME NEW w \in Withdrawals, Ledger!PayOut(w) \/ Ledger!Release(w)
      PROVE  Held(B', W')
  BY <1>6, <1>8 DEF Ledger!PayOut, Ledger!Release
<1> QED  BY <1>0, <1>2, <1>3, <1>4, <1>5, <1>7, <1>8 DEF Ledger!LNext

(***************************************************************************)
(* One slot: requests do not overlap, and none dies half-way.                *)
(***************************************************************************)
Serial == (\A q, r \in Requests : q = r) /\ ~MayFail

\* Nothing moves under a request: the row is as it was read, and what it acts for
\* is as undecided as it was found until it decides itself.
Busy == {"begin", "ensure", "create", "update", "status"}
JobAlone(r) ==
  /\ pc[r] = "provider" => job[r].op = "deposit"
  /\ pc[r] \in {"update", "status", "commit"} => wallet[job[r].account] = snap[r]
  /\ pc[r] \in Busy /\ job[r].op = "deposit" => deposits[job[r].target].status = "pending"
  /\ pc[r] \in Busy /\ job[r].op \in {"withdrawal_payout", "withdrawal_release"} =>
       withdrawals[job[r].target].status = "pending"
  /\ pc[r] = "commit" =>
       /\ job[r].op = "withdrawal_reserve" => withdrawals[job[r].target].status = "pending"
       /\ job[r].op = "withdrawal_payout" => withdrawals[job[r].target].status = "paid"
       /\ job[r].op = "withdrawal_release" => withdrawals[job[r].target].status = "rejected"
JobsAlone == \A r \in Requests : JobAlone(r)

LEMMA ArriveAlone ==
  ASSUME Inv, NEW r \in Requests, Handler(r)
  PROVE  JobAlone(r)'
<1>1. ASSUME NEW label \in {"begin", "provider"}, NEW j, Arrive(r, label, j), UNCHANGED dbVars,
             label = "provider" => j.op = "deposit",
             j.op = "deposit" /\ label = "begin" => deposits[j.target].status = "pending",
             j.op \in {"withdrawal_payout", "withdrawal_release"} =>
               withdrawals[j.target].status = "pending"
      PROVE  JobAlone(r)'
  BY <1>1 DEF Arrive, GoTo, JobAlone, Inv, TypeOK, Busy, dbVars
<1>2. ASSUME NEW a \in Accounts, NEW amount \in Amounts,
             \/ RequestWithdrawal(r, a, amount)
             \/ \E op \in {"manual_credit", "manual_debit"} : ApplyManualAdjustment(r, a, amount, op)
             \/ ApplyWalletPayment(r, a, amount)
      PROVE  JobAlone(r)'
  BY <1>1, <1>2 DEF RequestWithdrawal, ApplyManualAdjustment, ApplyWalletPayment, Job
<1>3. ASSUME NEW d \in Deposits, StripeWebhook(r, d) \/ SyncDepositPayment(r, d)
      PROVE  JobAlone(r)'
  BY <1>1, <1>3 DEF StripeWebhook, SyncDepositPayment, CreditJob, Job
<1>4. ASSUME NEW w \in Withdrawals, ApproveWithdrawal(r, w) \/ RejectWithdrawal(r, w)
      PROVE  JobAlone(r)'
  BY <1>1, <1>4 DEF ApproveWithdrawal, RejectWithdrawal, PayoutJob, ReleaseJob, Job
<1>5. ASSUME NEW a \in Accounts, NEW amount \in Amounts, NEW d \in Deposits, NEW card \in BOOLEAN,
             InitiateDeposit(r, a, amount, d, card)
      PROVE  JobAlone(r)'
  BY <1>5 DEF InitiateDeposit, Arrive, GoTo, Job, JobAlone, Inv, TypeOK, Busy
<1> QED  BY <1>2, <1>3, <1>4, <1>5 DEF Handler

LEMMA FinishAlone ==
  ASSUME Inv, NEW r \in Requests, Finish(r)
  PROVE  JobAlone(r)'
BY DEF Finish, GoTo, JobAlone, Inv, TypeOK, Busy

LEMMA StepAlone ==
  ASSUME Inv, NEW r \in Requests, JobAlone(r), Step(r)
  PROVE  JobAlone(r)'
<1> USE DEF Inv, TypeOK
<1>1. CASE InitPayment(r)
  BY <1>1 DEF InitPayment, GoTo, JobAlone, Busy
<1>2. CASE StoreReference(r)
  BY <1>2, FinishAlone DEF StoreReference
<1>3. CASE ProviderAnswers(r)
  <2>1. CASE SyncCredits(job[r].target) /\ GoTo(r, "begin") /\ UNCHANGED job
    BY <1>3, <2>1 DEF ProviderAnswers, SyncCredits, GoTo, JobAlone, Busy, dbVars
  <2> QED  BY <1>3, <2>1, FinishAlone DEF ProviderAnswers
<1>4. CASE Begin(r) \/ UpdateWallet(r)
  BY <1>4 DEF Begin, UpdateWallet, GoTo, JobAlone, Busy, dbVars
<1>5. CASE EnsureWallet(r)
  <2>1. CASE Finish(r)
    BY <2>1, FinishAlone
  <2>2. CASE ~Finish(r)
    BY <1>5, <2>2 DEF EnsureWallet, GoTo, JobAlone, Busy, dbVars
  <2> QED  BY <2>1, <2>2
<1>6. CASE CreateWallet(r)
  <2>1. CASE Finish(r)
    BY <2>1, FinishAlone
  <2>2. CASE ~Finish(r)
    <3>1. job[r].account \in Accounts
      BY <1>6, JobTyped DEF CreateWallet
    <3> QED  BY <1>6, <2>2, <3>1 DEF CreateWallet, GoTo, JobAlone, Busy
  <2> QED  BY <2>1, <2>2
<1>7. CASE WriteStatus(r)
  <2>0. /\ pc[r] = "status" /\ pc'[r] = "commit" /\ UNCHANGED <<wallet, snap>>
    BY <1>7 DEF WriteStatus, GoTo
  <2>1. CASE /\ job[r].op = "withdrawal_reserve"
             /\ \E w \in Withdrawals :
                  /\ withdrawals' = [withdrawals EXCEPT ![w] = Row("pending", job[r].account, job[r].amount)]
                  /\ job' = [job EXCEPT ![r].target = w]
    BY <2>0, <2>1 DEF JobAlone, Busy, Row
  <2>2. CASE /\ job[r].op \in {"withdrawal_payout", "withdrawal_release"} /\ UNCHANGED job
             /\ withdrawals' = [withdrawals EXCEPT ![job[r].target].status =
                  IF job[r].op = "withdrawal_payout" THEN "paid" ELSE "rejected"]
    <3>1. job[r].target \in Withdrawals /\ withdrawals[job[r].target].status # "none"
      BY <2>0, <2>2 DEF RequestsOK, RequestOK, HasWithdrawal
    <3>2. withdrawals[job[r].target] \in [status: Statuses \ {"none"}, account: Accounts, amount: Amounts]
      BY <3>1 DEF NoWithdrawal, Row
    <3> QED  BY <2>0, <2>2, <3>1, <3>2 DEF JobAlone, Busy
  <2>3. CASE job[r].op = "deposit" /\ UNCHANGED job
    BY <2>0, <2>3 DEF JobAlone, Busy
  <2> QED  BY <1>7, <2>1, <2>2, <2>3 DEF WriteStatus
<1>8. CASE Commit(r)
  <2>1. CASE Finish(r)
    BY <2>1, FinishAlone
  <2>2. CASE ~Finish(r)
    BY <1>8, <2>2 DEF Commit, GoTo, JobAlone, Busy
  <2> QED  BY <2>1, <2>2
<1>9. CASE AutoApprove(r)
  <2>1. CASE Finish(r)
    BY <2>1, FinishAlone
  <2>2. CASE ~Finish(r)
    BY <1>9, <2>2 DEF AutoApprove, GoTo, JobAlone, Busy, PayoutJob, Job, dbVars
  <2> QED  BY <2>1, <2>2
<1> QED  BY <1>1, <1>2, <1>3, <1>4, <1>5, <1>6, <1>7, <1>8, <1>9 DEF Step

LEMMA AloneNext ==
  ASSUME Serial, Inv, JobsAlone, [Next]_vars
  PROVE  JobsAlone'
<1>1. ASSUME NEW r \in Requests, Handler(r) \/ Step(r)
      PROVE  JobsAlone'
  BY <1>1, ArriveAlone, StepAlone DEF JobsAlone, Serial
<1>2. ASSUME NEW a \in Accounts, GetCustomerWallets(a)
      PROVE  JobsAlone'
  <2> SUFFICES ASSUME NEW r \in Requests PROVE JobAlone(r)'
    BY DEF JobsAlone
  <2>1. snap[r] \in Balance /\ None \notin Balance
    BY ConstantsAssumption DEF Inv, TypeOK
  <2> QED  BY <1>2, <2>1 DEF GetCustomerWallets, JobsAlone, JobAlone, Inv, TypeOK
<1>3. ASSUME \/ UpdateAdminSettings \/ (\E d \in Deposits : CustomerPays(d)) \/ UNCHANGED vars
      PROVE  JobsAlone'
  BY <1>3 DEF UpdateAdminSettings, CustomerPays, vars, dbVars, JobsAlone, JobAlone
<1> QED  BY <1>1, <1>2, <1>3 DEF Next, Fail, Serial

(***************************************************************************)
(* Each step is one of the ledger's, or none: only a commit moves money, and  *)
(* it moves what the atomic ledger would.                                    *)
(***************************************************************************)
SeenSame == UNCHANGED <<SeenBalance, SeenDeposit, SeenWithdrawal>>
Maps == Ledger!LNext \/ SeenSame

LEMMA SeenIsTyped == TypeOK => SeenTyped
<1> SUFFICES ASSUME TypeOK PROVE SeenTyped
  OBVIOUS
<1>1. SeenBalance \in [Accounts -> Balance]
  BY ZeroBalance DEF TypeOK, SeenBalance
<1>2. ASSUME NEW d \in Deposits, SeenDeposit[d] # None PROVE SeenDeposit[d] \in Filed
  BY <1>2 DEF TypeOK, SeenDeposit, NoDeposit, Row, Filed
<1>3. ASSUME NEW w \in Withdrawals, SeenWithdrawal[w] # None PROVE SeenWithdrawal[w] \in Filed
  BY <1>3 DEF TypeOK, SeenWithdrawal, NoWithdrawal, Row, Filed
<1>4. SeenWithdrawal = [w \in Withdrawals |-> SeenWithdrawal[w]]
  BY DEF SeenWithdrawal
<1> QED  BY <1>1, <1>2, <1>3, <1>4 DEF SeenTyped

\* The one request in flight, if any.
LEMMA InFlightAlone ==
  ASSUME Serial, NEW r \in Requests, NEW op, NEW ref
  PROVE  /\ InFlight(op, ref) <=> pc[r] = "commit" /\ job[r].op = op /\ job[r].target = ref
         /\ InFlight(op, ref)' <=> pc'[r] = "commit" /\ job'[r].op = op /\ job'[r].target = ref
BY DEF Serial, InFlight

\* Statements that write no status and no balance are not seen.
LEMMA QuietMaps ==
  ASSUME Serial, Inv, NEW r \in Requests, pc[r] # "commit", pc'[r] # "commit",
         UNCHANGED <<wallet, withdrawals>>,
         \A d \in Deposits : /\ deposits'[d].status = deposits[d].status
                             /\ deposits'[d].account = deposits[d].account
                             /\ deposits'[d].amount = deposits[d].amount
  PROVE  SeenSame
<1>1. SeenDeposit' = SeenDeposit
  BY InFlightAlone DEF SeenDeposit
<1>2. SeenWithdrawal' = SeenWithdrawal
  BY InFlightAlone DEF SeenWithdrawal
<1>3. SeenBalance' = SeenBalance
  BY DEF SeenBalance
<1> QED  BY <1>1, <1>2, <1>3 DEF SeenSame

LEMMA HandlerMaps ==
  ASSUME Serial, Inv, NEW r \in Requests, Handler(r)
  PROVE  Maps
<1>0. pc[r] = "idle" /\ pc'[r] # "commit"
  BY DEF Handler, RequestWithdrawal, ApplyManualAdjustment, ApplyWalletPayment, StripeWebhook,
     SyncDepositPayment, ApproveWithdrawal, RejectWithdrawal, InitiateDeposit, Arrive, GoTo, Inv, TypeOK
<1>1. ASSUME NEW a \in Accounts, NEW amount \in Amounts, NEW d \in Deposits, NEW card \in BOOLEAN,
             InitiateDeposit(r, a, amount, d, card)
      PROVE  Ledger!OpenDeposit(d, a, amount)
  <2>1. /\ deposits[d].status = "none" /\ UNCHANGED <<wallet, withdrawals>>
        /\ deposits' = [deposits EXCEPT ![d] =
             [status |-> "pending", account |-> a, amount |-> amount, card |-> card, ref |-> FALSE]]
    BY <1>1 DEF InitiateDeposit
  <2>2. SeenDeposit[d] = None
    BY <2>1 DEF SeenDeposit
  <2>3. \A e \in Deposits \ {d} : deposits'[e] = deposits[e]
    BY <2>1 DEF Inv, TypeOK
  <2>4. SeenDeposit' = [SeenDeposit EXCEPT ![d] = Row("pending", a, amount)]
    BY <1>0, <2>1, <2>3, InFlightAlone DEF SeenDeposit, Row, Inv, TypeOK
  <2>5. SeenWithdrawal' = SeenWithdrawal /\ SeenBalance' = SeenBalance
    BY <1>0, <2>1, InFlightAlone DEF SeenWithdrawal, SeenBalance
  <2> QED  BY <2>2, <2>4, <2>5 DEF Ledger!OpenDeposit, Ledger!File, Row
<1>2. CASE UNCHANGED dbVars
  BY <1>0, <1>2, QuietMaps DEF dbVars, Maps
<1> QED  BY <1>1, <1>2 DEF Maps, Ledger!LNext, Handler, RequestWithdrawal, ApplyManualAdjustment,
            ApplyWalletPayment, StripeWebhook, SyncDepositPayment, ApproveWithdrawal, RejectWithdrawal

\* A new row is as good as none.
LEMMA NewRowMaps ==
  ASSUME Inv, NEW a \in Accounts, wallet[a] = None, wallet' = [wallet EXCEPT ![a] = Zero]
  PROVE  SeenBalance' = SeenBalance
BY DEF SeenBalance, Inv, TypeOK

\* The decision of a request is seen when it commits.
LEMMA StatusMaps ==
  ASSUME Serial, Inv, JobsAlone, NEW r \in Requests, WriteStatus(r)
  PROVE  SeenSame
<1>0. /\ pc[r] = "status" /\ pc'[r] = "commit" /\ UNCHANGED wallet /\ JobAlone(r)
  BY DEF WriteStatus, GoTo, Inv, TypeOK, JobsAlone
<1>1. CASE job[r].op = "withdrawal_reserve"
  <2>1. PICK w \in Withdrawals :
          /\ withdrawals[w].status = "none" /\ UNCHANGED deposits
          /\ withdrawals' = [withdrawals EXCEPT ![w] = Row("pending", job[r].account, job[r].amount)]
          /\ job' = [job EXCEPT ![r].target = w]
    BY <1>1 DEF WriteStatus
  <2>2. job'[r].op = job[r].op /\ job'[r].target = w
    BY <1>0, <2>1, JobTyped DEF Inv, TypeOK, Jobs
  <2>3. \A v \in Withdrawals \ {w} : withdrawals'[v] = withdrawals[v]
    BY <2>1 DEF Inv, TypeOK
  <2>4. SeenWithdrawal' = SeenWithdrawal
    BY <1>0, <1>1, <2>1, <2>2, <2>3, InFlightAlone DEF SeenWithdrawal
  <2>5. SeenDeposit' = SeenDeposit
    BY <1>0, <1>1, <2>1, <2>2, InFlightAlone DEF SeenDeposit
  <2> QED  BY <1>0, <2>4, <2>5 DEF SeenBalance, SeenSame
<1>2. CASE job[r].op \in {"withdrawal_payout", "withdrawal_release"}
  <2> DEFINE w == job[r].target
  <2>1. /\ UNCHANGED <<deposits, job>>
        /\ withdrawals' = [withdrawals EXCEPT ![w].status =
             IF job[r].op = "withdrawal_payout" THEN "paid" ELSE "rejected"]
    BY <1>2 DEF WriteStatus
  <2>2. w \in Withdrawals /\ withdrawals[w].status = "pending"
    BY <1>0, <1>2 DEF Inv, RequestsOK, RequestOK, HasWithdrawal, JobAlone, Busy
  <2>3. withdrawals[w] \in [status: Statuses \ {"none"}, account: Accounts, amount: Amounts]
    BY <2>2 DEF Inv, TypeOK, NoWithdrawal, Row
  <2>4. /\ withdrawals'[w].account = withdrawals[w].account
        /\ withdrawals'[w].amount = withdrawals[w].amount /\ withdrawals'[w].status # "none"
        /\ \A v \in Withdrawals \ {w} : withdrawals'[v] = withdrawals[v]
    BY <2>1, <2>2, <2>3 DEF Inv, TypeOK
  <2>5. \A v \in Withdrawals : SeenWithdrawal'[v] = SeenWithdrawal[v]
    BY <1>0, <1>2, <2>1, <2>2, <2>4, InFlightAlone DEF SeenWithdrawal
  <2>6. SeenWithdrawal' = SeenWithdrawal
    BY <2>5 DEF SeenWithdrawal
  <2>7. SeenDeposit' = SeenDeposit
    BY <1>0, <1>2, <2>1, InFlightAlone DEF SeenDeposit
  <2> QED  BY <1>0, <2>6, <2>7 DEF SeenBalance, SeenSame
<1>3. CASE job[r].op = "deposit"
  <2> DEFINE d == job[r].target
  <2>1. /\ UNCHANGED <<withdrawals, job>>
        /\ deposits' = [deposits EXCEPT ![d].status = "completed", ![d].ref = TRUE]
    BY <1>3 DEF WriteStatus
  <2>2. d \in Deposits /\ deposits[d].status = "pending"
    BY <1>0, <1>3 DEF Inv, RequestsOK, RequestOK, HasDeposit, JobAlone, Busy
  <2>3. deposits[d] \in [status: {"pending", "completed"}, account: Accounts, amount: Amounts,
                         card: BOOLEAN, ref: BOOLEAN]
    BY <2>2 DEF Inv, TypeOK, NoDeposit
  <2>4. /\ deposits'[d].account = deposits[d].account
        /\ deposits'[d].amount = deposits[d].amount /\ deposits'[d].status # "none"
        /\ \A e \in Deposits \ {d} : deposits'[e] = deposits[e]
    BY <2>1, <2>2, <2>3 DEF Inv, TypeOK
  <2>5. \A e \in Deposits : SeenDeposit'[e] = SeenDeposit[e]
    <3>1. /\ \A e : ~InFlight("deposit", e)
          /\ \A e : InFlight("deposit", e)' <=> e = d
      BY <1>0, <1>3, <2>1, InFlightAlone
    <3>2. SeenDeposit'[d] = SeenDeposit[d]
      BY <2>2, <2>4, <3>1 DEF SeenDeposit
    <3>3. \A e \in Deposits \ {d} : SeenDeposit'[e] = SeenDeposit[e]
      BY <2>4, <3>1 DEF SeenDeposit
    <3> QED  BY <3>2, <3>3
  <2>6. SeenDeposit' = SeenDeposit
    BY <2>5 DEF SeenDeposit
  <2>7. SeenWithdrawal' = SeenWithdrawal
    BY <1>0, <1>3, <2>1, InFlightAlone DEF SeenWithdrawal
  <2> QED  BY <1>0, <2>6, <2>7 DEF SeenBalance, SeenSame
<1> QED  BY <1>1, <1>2, <1>3 DEF WriteStatus

\* A pending withdrawal is part of what its account reserves.
LEMMA PendingIsReserved ==
  ASSUME SeenTyped, ReservedIsPending, NEW w \in Withdrawals,
         SeenWithdrawal[w] # None, SeenWithdrawal[w].status = "pending"
  PROVE  SeenWithdrawal[w].amount <= SeenBalance[SeenWithdrawal[w].account].reserved
<1> DEFINE W == SeenWithdrawal
           a == W[w].account
           S == PendingOf(W, a)
<1>1. PICK rows : rows = W
  OBVIOUS
<1>2. /\ \A v \in Withdrawals : rows[v] # None => rows[v].amount \in Amounts
      /\ a \in Accounts
  BY <1>1 DEF SeenTyped, Filed
<1>3. \A v \in Withdrawals : AmountOf(rows)[v] \in Nat
  BY <1>2, AmountsAreInt
<1>4. AmountOf(W)[w] = W[w].amount /\ w \in S /\ S \subseteq Withdrawals /\ IsFiniteSet(S)
  BY ConstantsAssumption, FS_Subset DEF AmountOf, PendingOf
<1> HIDE DEF S
<1>5. /\ SumFunctionOnSet(AmountOf(rows), S)
           = AmountOf(rows)[w] + SumFunctionOnSet(AmountOf(rows), S \ {w})
      /\ SumFunctionOnSet(AmountOf(rows), S \ {w}) \in Nat
  <2>1. IsFiniteSet(S \ {w}) /\ \A v \in S \ {w} : AmountOf(rows)[v] \in Nat
    BY <1>3, <1>4, FS_Subset
  <2>2. SumFunctionOnSet(AmountOf(rows), S \ {w}) \in Nat
    BY <2>1, SumIsNat
  <2>3. \A v \in S : AmountOf(rows)[v] \in Int
    BY <1>3, <1>4
  <2> QED  BY <1>4, <2>2, <2>3, SumRemove
<1>6. SeenBalance[a].reserved = SumFunctionOnSet(AmountOf(rows), S)
  BY <1>1, <1>2, HeldIs DEF Held, PendingSum, S
<1>7. AmountOf(rows)[w] = W[w].amount /\ AmountOf(rows)[w] \in Nat
  BY <1>1, <1>3, <1>4
<1> QED  BY <1>5, <1>6, <1>7

LEMMA CommitMoves ==
  ASSUME Inv, JobsAlone, NEW r \in Requests, Commit(r), NEW x \in Int, NEW y \in Int,
         After(job[r].op, job[r].amount, snap[r])
           = [available |-> snap[r].available + x, reserved |-> snap[r].reserved + y]
  PROVE  Ledger!Move(job[r].account, x, y)
<1> DEFINE a == job[r].account
<1>0. pc[r] = "commit" /\ wallet[a] = snap[r] /\ snap[r] \in Balance
  BY DEF Commit, JobsAlone, JobAlone, Inv, TypeOK
<1>1. /\ a \in Accounts /\ wallet[a] = snap[r] /\ snap[r] \in Balance /\ wallet[a] # None
      /\ wallet' = [wallet EXCEPT ![a] = After(job[r].op, job[r].amount, snap[r])]
      /\ After(job[r].op, job[r].amount, snap[r]) \in Balance
  <2>1. None \notin Balance
    BY ConstantsAssumption
  <2> QED  BY <1>0, <2>1, CommitWrites
<1> DEFINE new == [available |-> snap[r].available + x, reserved |-> snap[r].reserved + y]
<1>2. /\ SeenBalance[a] = snap[r]
      /\ SeenBalance' = [SeenBalance EXCEPT ![a] = new]
  BY <1>1, ConstantsAssumption DEF SeenBalance, Inv, TypeOK
<1> QED  BY <1>2 DEF Ledger!Move

LEMMA CommitMaps ==
  ASSUME Serial, Inv, JobsAlone, ReservedIsPending, NEW r \in Requests, Commit(r)
  PROVE  Ledger!LNext
<1> DEFINE a == job[r].account
           n == job[r].amount
           t == job[r].target
<1>0. /\ pc[r] = "commit" /\ pc'[r] # "commit" /\ UNCHANGED <<deposits, withdrawals>>
      /\ JobAlone(r) /\ RequestOK(r) /\ SeenTyped
  BY SeenIsTyped DEF Commit, GoTo, Finish, Inv, TypeOK, RequestsOK, JobsAlone
<1>1. /\ a \in Accounts /\ n \in Amounts /\ n \in Nat /\ job[r].op \in Changes
      /\ snap[r].available \in Nat /\ snap[r].reserved \in Nat
      /\ wallet[a] = snap[r] /\ SeenBalance[a] = snap[r]
  <2>1. snap[r] \in Balance /\ wallet[a] = snap[r]
    BY <1>0 DEF Inv, TypeOK, JobAlone
  <2>2. a \in Accounts /\ n \in Amounts /\ job[r].op \in Changes
    BY <1>0, JobTyped
  <2> QED  BY <2>1, <2>2, ConstantsAssumption DEF SeenBalance, Balance
<1>2. Permitted(job[r].op, n, snap[r])
  BY <1>0 DEF RequestOK
<1>3. /\ job[r].op # "deposit" => SeenDeposit' = SeenDeposit
      /\ job[r].op \notin {"withdrawal_reserve", "withdrawal_payout", "withdrawal_release"} =>
           SeenWithdrawal' = SeenWithdrawal
  BY <1>0, InFlightAlone DEF SeenDeposit, SeenWithdrawal
<1>4. CASE job[r].op \in {"purchase", "manual_debit"}
  <2>1. Ledger!Move(a, -n, 0)
    <3>1. After(job[r].op, n, snap[r])
            = [available |-> snap[r].available + (-n), reserved |-> snap[r].reserved + 0]
      BY <1>1, <1>4 DEF After
    <3> QED  BY <1>1, <3>1, CommitMoves
  <2>2. n <= Ledger!Spendable(a)
    BY <1>1, <1>2, <1>4 DEF Permitted, Eligible, Ledger!Spendable
  <2> QED  BY <1>1, <1>3, <1>4, <2>1, <2>2 DEF Ledger!LNext, Ledger!Debit
<1>5. CASE job[r].op = "manual_credit"
  <2>1. Ledger!Move(a, n, 0)
    <3>1. After(job[r].op, n, snap[r])
            = [available |-> snap[r].available + n, reserved |-> snap[r].reserved + 0]
      BY <1>1, <1>5 DEF After
    <3> QED  BY <1>1, <3>1, CommitMoves
  <2> QED  BY <1>1, <1>3, <1>5, <2>1 DEF Ledger!LNext, Ledger!Credit
<1>6. CASE job[r].op = "deposit"
  <2>1. Ledger!Move(a, n, 0)
    <3>1. After(job[r].op, n, snap[r])
            = [available |-> snap[r].available + n, reserved |-> snap[r].reserved + 0]
      BY <1>1, <1>6 DEF After
    <3> QED  BY <1>1, <3>1, CommitMoves
  <2>2. t \in Deposits /\ deposits[t].status = "completed" /\ deposits[t].account = a /\ deposits[t].amount = n
    BY <1>0, <1>6 DEF RequestOK, HasDeposit
  <2>3. /\ \A d : InFlight("deposit", d) <=> d = t
        /\ \A d : ~InFlight("deposit", d)'
    BY <1>0, <1>6, InFlightAlone
  <2>4. SeenDeposit[t] = Row("pending", a, n) /\ SeenDeposit'[t] = Row("completed", a, n)
    BY <1>0, <2>2, <2>3 DEF SeenDeposit
  <2>5. \A d \in Deposits \ {t} : SeenDeposit'[d] = SeenDeposit[d]
    BY <1>0, <2>3 DEF SeenDeposit
  <2>6. SeenDeposit' = [SeenDeposit EXCEPT ![t].status = "completed"]
    <3>1. [SeenDeposit[t] EXCEPT !.status = "completed"] = SeenDeposit'[t]
      BY <2>4 DEF Row
    <3>2. SeenDeposit' = [SeenDeposit EXCEPT ![t] = SeenDeposit'[t]]
      BY <2>2, <2>5 DEF SeenDeposit
    <3> QED  BY <3>1, <3>2
  <2>7. SeenDeposit[t] # None
    BY <1>0, <1>1, <2>4, ConstantsAssumption DEF Filed, Row
  <2>8. Ledger!SettleDeposit(t)
    <3>1. SeenDeposit[t].status = "pending" /\ SeenDeposit[t].account = a /\ SeenDeposit[t].amount = n
      BY <2>4 DEF Row
    <3> QED  BY <1>3, <1>6, <2>1, <2>6, <2>7, <3>1 DEF Ledger!SettleDeposit
  <2> QED  BY <2>2, <2>8 DEF Ledger!LNext
<1>7. CASE job[r].op = "withdrawal_reserve"
  <2>1. Ledger!Move(a, 0, n)
    <3>1. After(job[r].op, n, snap[r])
            = [available |-> snap[r].available + 0, reserved |-> snap[r].reserved + n]
      BY <1>1, <1>7 DEF After
    <3> QED  BY <1>1, <3>1, CommitMoves
  <2>2. /\ t \in Withdrawals /\ withdrawals[t].status = "pending"
        /\ withdrawals[t].account = a /\ withdrawals[t].amount = n
    BY <1>0, <1>7 DEF RequestOK, HasWithdrawal, JobAlone
  <2>3. /\ \A w : InFlight("withdrawal_reserve", w) <=> w = t
        /\ \A op, w : ~InFlight(op, w)'
        /\ \A w : ~InFlight("withdrawal_payout", w) /\ ~InFlight("withdrawal_release", w)
    BY <1>0, <1>7, InFlightAlone
  <2>4. SeenWithdrawal[t] = None /\ SeenWithdrawal'[t] = Row("pending", a, n)
    BY <1>0, <2>2, <2>3 DEF SeenWithdrawal
  <2>5. \A w \in Withdrawals \ {t} : SeenWithdrawal'[w] = SeenWithdrawal[w]
    BY <1>0, <2>3 DEF SeenWithdrawal
  <2>6. SeenWithdrawal' = [SeenWithdrawal EXCEPT ![t] = Row("pending", a, n)]
    BY <2>2, <2>4, <2>5 DEF SeenWithdrawal
  <2>7. n <= Ledger!Spendable(a)
    BY <1>1, <1>2, <1>7 DEF Permitted, Eligible, Ledger!Spendable
  <2>8. Ledger!Reserve(t, a, n)
    BY <1>3, <1>7, <2>1, <2>4, <2>6, <2>7 DEF Ledger!Reserve, Ledger!File, Row
  <2> QED  BY <1>1, <2>2, <2>8 DEF Ledger!LNext
<1>8. CASE job[r].op \in {"withdrawal_payout", "withdrawal_release"}
  <2> DEFINE status == IF job[r].op = "withdrawal_payout" THEN "paid" ELSE "rejected"
             out == IF job[r].op = "withdrawal_payout" THEN n ELSE 0
  <2>1. /\ t \in Withdrawals /\ withdrawals[t].status = status
        /\ withdrawals[t].account = a /\ withdrawals[t].amount = n
    BY <1>0, <1>8 DEF RequestOK, HasWithdrawal, JobAlone
  <2>2. /\ \A w : InFlight("withdrawal_payout", w) \/ InFlight("withdrawal_release", w) <=> w = t
        /\ \A op, w : ~InFlight(op, w)'
        /\ \A w : ~InFlight("withdrawal_reserve", w)
    BY <1>0, <1>8, InFlightAlone
  <2>3. SeenWithdrawal[t] = Row("pending", a, n) /\ SeenWithdrawal'[t] = Row(status, a, n)
    BY <1>0, <2>1, <2>2 DEF SeenWithdrawal
  <2>4. \A w \in Withdrawals \ {t} : SeenWithdrawal'[w] = SeenWithdrawal[w]
    BY <1>0, <2>2 DEF SeenWithdrawal
  <2>5. SeenWithdrawal' = [SeenWithdrawal EXCEPT ![t].status = status]
    <3>1. [SeenWithdrawal[t] EXCEPT !.status = status] = SeenWithdrawal'[t]
      BY <2>3 DEF Row
    <3>2. SeenWithdrawal' = [SeenWithdrawal EXCEPT ![t] = SeenWithdrawal'[t]]
      BY <2>1, <2>4 DEF SeenWithdrawal
    <3> QED  BY <3>1, <3>2
  <2>6. SeenWithdrawal[t] # None
    BY <1>0, <1>1, <2>3, ConstantsAssumption DEF Filed, Row
  <2>7. n <= snap[r].reserved
    BY <1>0, <1>1, <2>1, <2>3, <2>6, PendingIsReserved DEF Row
  <2>8. Ledger!Move(a, -out, -n)
    <3>1. After(job[r].op, n, snap[r])
            = [available |-> snap[r].available + (-out), reserved |-> snap[r].reserved + (-n)]
      BY <1>1, <1>8, <2>7 DEF After, AtLeast0
    <3> QED  BY <1>1, <3>1, CommitMoves
  <2>9. Ledger!Decide(t, status, out)
    BY <1>3, <1>8, <2>3, <2>5, <2>6, <2>8 DEF Ledger!Decide, Row
  <2>10. Ledger!PayOut(t) \/ Ledger!Release(t)
    BY <1>8, <2>3, <2>6, <2>9 DEF Ledger!PayOut, Ledger!Release, Row
  <2> QED  BY <2>1, <2>10 DEF Ledger!LNext
<1> QED  BY <1>1, <1>4, <1>5, <1>6, <1>7, <1>8 DEF Changes

LEMMA StepMaps ==
  ASSUME Serial, Inv, JobsAlone, ReservedIsPending, [Next]_vars
  PROVE  Maps
<1>1. ASSUME NEW r \in Requests, Step(r)
      PROVE  Maps
  <2>1. CASE Commit(r)
    BY <2>1, CommitMaps DEF Maps
  <2>2. CASE WriteStatus(r)
    BY <2>2, StatusMaps DEF Maps
  <2>3. CASE CreateWallet(r)
    <3>1. /\ pc[r] = "create" /\ pc'[r] # "commit" /\ job[r].account \in Accounts
          /\ UNCHANGED <<deposits, withdrawals>>
      BY <2>3, JobTyped DEF CreateWallet, GoTo, Finish, Inv, TypeOK
    <3>2. SeenBalance' = SeenBalance
      BY <2>3, <3>1, NewRowMaps DEF CreateWallet, SeenBalance
    <3> QED  BY <3>1, <3>2, InFlightAlone DEF SeenDeposit, SeenWithdrawal, SeenSame, Maps
  <2>4. CASE StoreReference(r)
    <3>1. /\ pc[r] = "store" /\ pc'[r] # "commit" /\ UNCHANGED <<wallet, withdrawals>>
          /\ deposits' = [deposits EXCEPT ![job[r].target].ref = TRUE]
      BY <2>4 DEF StoreReference, GoTo, Finish, Inv, TypeOK
    <3>2. \A d \in Deposits : /\ deposits'[d].status = deposits[d].status
                              /\ deposits'[d].account = deposits[d].account
                              /\ deposits'[d].amount = deposits[d].amount
      BY <3>1 DEF Inv, TypeOK
    <3> QED  BY <3>1, <3>2, QuietMaps DEF Maps
  <2>5. CASE InitPayment(r) \/ ProviderAnswers(r) \/ Begin(r) \/ EnsureWallet(r) \/ AutoApprove(r)
    <3>1. pc[r] # "commit" /\ pc'[r] # "commit" /\ UNCHANGED <<wallet, deposits, withdrawals>>
      BY <2>5 DEF InitPayment, ProviderAnswers, Begin, EnsureWallet, AutoApprove, GoTo, Finish, dbVars,
                  Inv, TypeOK
    <3> QED  BY <3>1, QuietMaps DEF Maps
  <2>6. CASE UpdateWallet(r)
    <3>1. /\ pc[r] = "update" /\ UNCHANGED <<wallet, deposits, withdrawals, job>>
          /\ pc'[r] = "commit" => job[r].op \in {"purchase", "manual_credit", "manual_debit"}
      BY <2>6 DEF UpdateWallet, GoTo, dbVars, Inv, TypeOK
    <3>2. \A ref, op : op \notin {"purchase", "manual_credit", "manual_debit"} =>
            ~InFlight(op, ref) /\ ~InFlight(op, ref)'
      BY <3>1, InFlightAlone
    <3> QED  BY <3>1, <3>2 DEF SeenBalance, SeenDeposit, SeenWithdrawal, SeenSame, Maps
  <2> QED  BY <1>1, <2>1, <2>2, <2>3, <2>4, <2>5, <2>6 DEF Step
<1>2. ASSUME NEW a \in Accounts, GetCustomerWallets(a)
      PROVE  Maps
  <2>1. SeenBalance' = SeenBalance
    BY <1>2, NewRowMaps DEF GetCustomerWallets
  <2> QED  BY <1>2, <2>1 DEF GetCustomerWallets, SeenDeposit, SeenWithdrawal, InFlight, SeenSame, Maps
<1>3. ASSUME \/ UpdateAdminSettings \/ (\E d \in Deposits : CustomerPays(d)) \/ UNCHANGED vars
      PROVE  Maps
  BY <1>3 DEF UpdateAdminSettings, CustomerPays, vars, dbVars, SeenBalance, SeenDeposit, SeenWithdrawal,
              InFlight, SeenSame, Maps
<1> QED  BY <1>1, <1>2, <1>3, HandlerMaps DEF Next, Fail, Serial

LEMMA SerialInit ==
  ASSUME Serial, Init
  PROVE  JobsAlone /\ ReservedIsPending /\ Ledger!LInit
<1>1. JobsAlone
  BY DEF Init, JobsAlone, JobAlone, Busy
<1>2. Ledger!LInit
  BY DEF Init, Ledger!LInit, SeenBalance, SeenDeposit, SeenWithdrawal, NoDeposit, NoWithdrawal, Row, Zero
<1>3. \A a : PendingOf(SeenWithdrawal, a) = {}
  BY <1>2 DEF Ledger!LInit, PendingOf
<1>4. \A a : PendingSum(SeenWithdrawal, a) = 0
  BY <1>3, SumEmpty DEF PendingSum
<1> QED  BY <1>1, <1>2, <1>4, HeldIs DEF Held, Ledger!LInit

LEMMA SerialInvariance ==
  ASSUME Serial
  PROVE  Spec => [](Inv /\ JobsAlone /\ ReservedIsPending)
<1>1. Init => Inv /\ JobsAlone /\ ReservedIsPending
  BY InitInv, SerialInit
<1>2. Inv /\ JobsAlone /\ ReservedIsPending /\ [Next]_vars => (Inv /\ JobsAlone /\ ReservedIsPending)'
  BY NextInv, AloneNext, StepMaps, LedgerKeeps, SeenIsTyped DEF Maps, SeenSame, Inv
<1> QED  BY <1>1, <1>2, PTL DEF Spec

\* While no two requests overlap and none dies, what an account reserves is what its
\* pending withdrawals add up to, for any number of accounts, amounts and requests
\* one after another: the clamp at zero of a release or a payout never bites.
THEOREM ReservedAddsUp == Serial => (Spec => []ReservedIsPending)
<1> SUFFICES ASSUME Serial PROVE Spec => []ReservedIsPending
  OBVIOUS
<1>1. Spec => [](Inv /\ JobsAlone /\ ReservedIsPending)
  BY SerialInvariance
<1> QED  BY <1>1, PTL

\* Such requests move money as the atomic ledger does: each deposit is credited once,
\* each withdrawal reserved and then paid out or released once, nothing is lost.
THEOREM LedgerImplemented == Serial => (Spec => ImplementsLedger)
<1> SUFFICES ASSUME Serial PROVE Spec => ImplementsLedger
  OBVIOUS
<1>1. Init => Ledger!LInit
  BY SerialInit
<1>2. Inv /\ JobsAlone /\ ReservedIsPending /\ [Next]_vars
        => [Ledger!LNext]_<<SeenBalance, SeenDeposit, SeenWithdrawal>>
  BY StepMaps DEF Maps, SeenSame
<1>3. Spec => [](Inv /\ JobsAlone /\ ReservedIsPending)
  BY SerialInvariance
<1> QED  BY <1>1, <1>2, <1>3, PTL DEF Spec, ImplementsLedger, Ledger!LSpec, Ledger!lvars

(***************************************************************************)
(* Requests may overlap, none dies: what is decided gets its entry.          *)
(***************************************************************************)
Accounted(type, ref) == Posted(type, ref) \/ InFlight(type, ref)

\* Entries are only ever added.
LEMMA EntriesStay ==
  ASSUME Inv, [Next]_vars, NEW type, NEW ref, Posted(type, ref)
  PROVE  Posted(type, ref)'
<1>1. PICK a \in Accounts : \E i \in 1 .. Len(ledger[a]) :
                              ledger[a][i].type = type /\ ledger[a][i].ref = ref
  BY DEF Posted
<1>2. PICK i \in 1 .. Len(ledger[a]) : ledger[a][i].type = type /\ ledger[a][i].ref = ref
  BY <1>1
<1>3. ledger[a] \in Seq(Entry)
  BY DEF Inv, TypeOK
<1>4. i \in 1 .. Len(ledger'[a]) /\ ledger'[a][i] = ledger[a][i]
  <2>1. CASE Quiet
    BY <2>1 DEF Quiet
  <2>2. ASSUME NEW r \in Requests, Commit(r) PROVE <1>4!:
    <3>1. PICK b \in Accounts, e \in Entry : ledger' = [ledger EXCEPT ![b] = Append(@, e)]
      BY <2>2, CommitWrites
    <3>2. CASE b = a
      <4>1. ledger'[a] = Append(ledger[a], e)
        BY <3>1, <3>2 DEF Inv, TypeOK
      <4> QED  BY <1>3, <4>1
    <3>3. CASE b # a
      BY <3>1, <3>3 DEF Inv, TypeOK
    <3> QED  BY <3>2, <3>3
  <2> QED  BY <2>1, <2>2, QuietOrCommit
<1> QED  BY <1>2, <1>4 DEF Posted

LEMMA CommitPosts ==
  ASSUME Inv, NEW r \in Requests, Commit(r), NEW type, type = job[r].op, NEW ref, ref = job[r].target
  PROVE  Posted(type, ref)'
<1>1. PICK a \in Accounts, e \in Entry : /\ ledger' = [ledger EXCEPT ![a] = Append(@, e)]
                                         /\ e.type = type /\ e.ref = ref
  BY CommitWrites
<1>2. ledger[a] \in Seq(Entry) /\ ledger'[a] = Append(ledger[a], e)
  BY <1>1 DEF Inv, TypeOK
<1>3. Len(ledger'[a]) \in 1 .. Len(ledger'[a]) /\ ledger'[a][Len(ledger'[a])] = e
  BY <1>2
<1>4. /\ ledger'[a][Len(ledger'[a])].type = type
      /\ ledger'[a][Len(ledger'[a])].ref = ref
  BY <1>1, <1>3
<1>5. \E b \in Accounts : \E i \in 1 .. Len(ledger'[b]) :
        ledger'[b][i].type = type /\ ledger'[b][i].ref = ref
  BY <1>3, <1>4
<1> QED  BY <1>5 DEF Posted

\* A request about to commit goes on to commit, whatever the others do.
LEMMA CommitsOnly ==
  ASSUME ~MayFail, Inv, [Next]_vars, NEW r \in Requests, pc[r] = "commit", ~Commit(r)
  PROVE  pc'[r] = "commit" /\ job'[r] = job[r]
<1>1. ASSUME NEW q \in Requests, Handler(q)
      PROVE  /\ pc[q] = "idle" /\ \E l : pc' = [pc EXCEPT ![q] = l]
             /\ \E j : job' = [job EXCEPT ![q] = j]
  BY <1>1 DEF Handler, RequestWithdrawal, ApplyManualAdjustment, ApplyWalletPayment, StripeWebhook,
              SyncDepositPayment, ApproveWithdrawal, RejectWithdrawal, InitiateDeposit, Arrive, GoTo
<1>2. ASSUME NEW q \in Requests, Step(q)
      PROVE  Commit(q) \/ (pc[q] # "commit" /\ OthersKept(q))
  BY <1>2 DEF Step, InitPayment, StoreReference, ProviderAnswers, Begin, EnsureWallet, CreateWallet,
     UpdateWallet, WriteStatus, AutoApprove, GoTo, Finish, OthersKept, Inv, TypeOK
<1>3. ASSUME NEW q \in Requests, Commit(q)
      PROVE  OthersKept(q)
  BY <1>3 DEF Commit, GoTo, Finish, OthersKept, Inv, TypeOK
<1>4. ASSUME \/ (\E a \in Accounts : GetCustomerWallets(a)) \/ UpdateAdminSettings
             \/ (\E d \in Deposits : CustomerPays(d)) \/ UNCHANGED vars
      PROVE  UNCHANGED <<pc, job>>
  BY <1>4 DEF GetCustomerWallets, UpdateAdminSettings, CustomerPays, vars
<1>5. CASE \E q \in Requests : Handler(q)
  BY <1>1, <1>5 DEF Inv, TypeOK
<1>6. CASE \E q \in Requests : Step(q)
  BY <1>2, <1>3, <1>6 DEF OthersKept
<1> QED  BY <1>4, <1>5, <1>6 DEF Next, Fail

LEMMA AccountedStays ==
  ASSUME ~MayFail, Inv, [Next]_vars, NEW type, NEW ref, Accounted(type, ref)
  PROVE  Accounted(type, ref)'
<1>1. CASE Posted(type, ref)
  BY <1>1, EntriesStay DEF Accounted
<1>2. CASE InFlight(type, ref)
  <2>1. PICK r \in Requests : pc[r] = "commit" /\ job[r].op = type /\ job[r].target = ref
    BY <1>2 DEF InFlight
  <2>2. CASE Commit(r)
    BY <2>1, <2>2, CommitPosts DEF Accounted
  <2>3. CASE ~Commit(r)
    BY <2>1, <2>3, CommitsOnly DEF Accounted, InFlight
  <2> QED  BY <2>2, <2>3
<1> QED  BY <1>1, <1>2 DEF Accounted

\* A status is written by a request that is then about to post the entry.
StatusOf == [paid |-> "withdrawal_payout", rejected |-> "withdrawal_release"]
DecidedInFlight ==
  /\ \A d \in Deposits : deposits'[d].status = "completed" =>
       deposits[d].status = "completed" \/ InFlight("deposit", d)'
  /\ \A w \in Withdrawals :
       /\ withdrawals'[w].status # "none" =>
            withdrawals[w].status # "none" \/ InFlight("withdrawal_reserve", w)'
       /\ \A s \in {"paid", "rejected"} : withdrawals'[w].status = s =>
            withdrawals[w].status = s \/ InFlight(StatusOf[s], w)'

LEMMA DecidedBy ==
  ASSUME Inv, [Next]_vars
  PROVE  DecidedInFlight
<1> USE DEF DecidedInFlight
<1>1. CASE UNCHANGED <<deposits, withdrawals>>
  BY <1>1
<1>2. ASSUME NEW r \in Requests, NEW a \in Accounts, NEW amount \in Amounts, NEW d \in Deposits,
             NEW card \in BOOLEAN, InitiateDeposit(r, a, amount, d, card)
      PROVE  DecidedInFlight
  BY <1>2 DEF InitiateDeposit, Inv, TypeOK
<1>3. ASSUME NEW r \in Requests, StoreReference(r)
      PROVE  DecidedInFlight
  BY <1>3 DEF StoreReference, Inv, TypeOK
<1>4. ASSUME NEW r \in Requests, WriteStatus(r)
      PROVE  DecidedInFlight
  <2>0. /\ pc[r] = "status" /\ pc'[r] = "commit" /\ job[r] \in Jobs
    BY <1>4, JobTyped DEF WriteStatus, GoTo, Inv, TypeOK
  <2>1. ASSUME NEW w \in Withdrawals, job[r].op = "withdrawal_reserve", UNCHANGED deposits,
               withdrawals' = [withdrawals EXCEPT ![w] = Row("pending", job[r].account, job[r].amount)],
               job' = [job EXCEPT ![r].target = w]
        PROVE  DecidedInFlight
    <3>1. job'[r].op = "withdrawal_reserve" /\ job'[r].target = w
      BY <2>0, <2>1 DEF Inv, TypeOK, Jobs
    <3>2. InFlight("withdrawal_reserve", w)'
      BY <2>0, <3>1 DEF InFlight
    <3> QED  BY <2>1, <3>2 DEF Inv, TypeOK, Row
  <2>2. CASE /\ job[r].op \in {"withdrawal_payout", "withdrawal_release"} /\ UNCHANGED <<deposits, job>>
             /\ withdrawals' = [withdrawals EXCEPT ![job[r].target].status =
                  IF job[r].op = "withdrawal_payout" THEN "paid" ELSE "rejected"]
    <3>1. InFlight(job[r].op, job[r].target)'
      BY <2>0, <2>2 DEF InFlight
    <3>2. job[r].target \in Withdrawals /\ withdrawals[job[r].target].status # "none"
      BY <2>0, <2>2 DEF Inv, RequestsOK, RequestOK, HasWithdrawal
    <3>3. withdrawals[job[r].target] \in [status: Statuses \ {"none"}, account: Accounts, amount: Amounts]
      BY <3>2 DEF Inv, TypeOK, NoWithdrawal, Row
    <3>4. /\ withdrawals'[job[r].target].status =
               IF job[r].op = "withdrawal_payout" THEN "paid" ELSE "rejected"
          /\ \A w \in Withdrawals \ {job[r].target} : withdrawals'[w] = withdrawals[w]
      BY <2>2, <3>2, <3>3 DEF Inv, TypeOK
    <3> QED  BY <2>2, <3>1, <3>2, <3>4 DEF StatusOf
  <2>3. CASE /\ job[r].op = "deposit" /\ UNCHANGED <<withdrawals, job>>
             /\ deposits' = [deposits EXCEPT ![job[r].target].status = "completed",
                                             ![job[r].target].ref = TRUE]
    <3>1. InFlight("deposit", job[r].target)'
      BY <2>0, <2>3 DEF InFlight
    <3>2. \A d \in Deposits \ {job[r].target} : deposits'[d] = deposits[d]
      BY <2>3 DEF Inv, TypeOK
    <3> QED  BY <2>3, <3>1, <3>2
  <2> QED  BY <1>4, <2>1, <2>2, <2>3 DEF WriteStatus
<1>5. \/ UNCHANGED <<deposits, withdrawals>>
      \/ \E r \in Requests : StoreReference(r) \/ WriteStatus(r)
      \/ \E r \in Requests, a \in Accounts, amount \in Amounts, d \in Deposits, card \in BOOLEAN :
           InitiateDeposit(r, a, amount, d, card)
  <2>1. ASSUME NEW r \in Requests, Handler(r)
        PROVE  <1>5!:
    BY <2>1 DEF Handler, RequestWithdrawal, ApplyManualAdjustment, ApplyWalletPayment, StripeWebhook,
                SyncDepositPayment, ApproveWithdrawal, RejectWithdrawal, dbVars
  <2>2. ASSUME NEW r \in Requests, Step(r)
        PROVE  <1>5!:
    BY <2>2 DEF Step, InitPayment, ProviderAnswers, Begin, EnsureWallet, CreateWallet, UpdateWallet,
                Commit, AutoApprove, dbVars
  <2> QED  BY <2>1, <2>2 DEF Next, Fail, GetCustomerWallets, UpdateAdminSettings, CustomerPays, dbVars, vars
<1> QED  BY <1>1, <1>2, <1>3, <1>4, <1>5

\* While no request dies, however they overlap, every completed deposit and every
\* decided withdrawal has its ledger entry or is about to get it: a status that is
\* committed on a connection of its own is never left without its money.
THEOREM DecisionsReachLedger == ~MayFail => (Spec => []DecisionsPosted)
<1> SUFFICES ASSUME ~MayFail PROVE Spec => []DecisionsPosted
  OBVIOUS
<1>1. Init => DecisionsPosted
  BY DEF Init, DecisionsPosted, NoDeposit, NoWithdrawal, Row
<1>2. ASSUME Inv, DecisionsPosted, [Next]_vars PROVE DecisionsPosted'
  <2>1. \A type, ref : Accounted(type, ref) => Accounted(type, ref)'
    BY <1>2, AccountedStays
  <2>2. StatusOf["paid"] = "withdrawal_payout" /\ StatusOf["rejected"] = "withdrawal_release"
    BY DEF StatusOf
  <2> QED  BY <1>2, <2>1, <2>2, DecidedBy DEF DecisionsPosted, Accounted, DecidedInFlight
<1> QED  BY <1>1, <1>2, Invariance, PTL DEF Spec
=============================================================================
