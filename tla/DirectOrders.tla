----------------------------- MODULE DirectOrders -----------------------------
(***************************************************************************)
(* Checkout and payment of direct orders: orders.service, the order and    *)
(* payment rows of orders.repository, coupon-validation, and the payment   *)
(* status updates of stripe.service (webhook) and campay.service (polling). *)
(* The wallet is the atomic one of WalletLedger; CustomerWallets has the    *)
(* detail.  One subtotal, one coupon and one delivery fee stand for all.    *)
(***************************************************************************)
EXTENDS Integers, Sequences, FiniteSets, SequencesExt, FiniteSetsExt

CONSTANTS
  Users, Orders, Txns,   \* ids: users, orders rows, payment_transactions rows
  Requests,              \* request slots
  Subtotal, Discount,    \* of every order; Discount is the coupon's amount
  DeliveryFee,           \* what delivery costs; pickup is free
  UsageLimit,            \* the coupon's, None when it has none
  WalletStart,           \* what each user's wallet holds at first
  CampayEnabled,         \* whether mobile money is configured
  InOrder,               \* whether Stripe's events arrive in the order they happened
  MayFail,               \* whether a request may die half-way
  None

ASSUME ConstantsAssumption ==
  /\ {Subtotal, Discount, DeliveryFee, WalletStart} \subseteq Nat
  /\ Subtotal > 0 /\ Discount <= Subtotal
  /\ UsageLimit \in Nat \cup {None} /\ None \notin Nat
  /\ {CampayEnabled, InOrder, MayFail} \subseteq BOOLEAN
  /\ None \notin Orders \cup Txns \cup Users /\ IsFiniteSet(Txns)

VARIABLES
  orders,    \* orders rows, None while the id is unused
  txns,      \* payment_transactions rows, None while the id is unused
  wallet,    \* spendable balance of each user
  applied,   \* per order, what its wallet payment took (the ledger's order_id)
  redeemed,  \* coupon_redemptions: the users, by a unique index
  usage,     \* coupons.usage_count
  intents,   \* external: the payment a provider was asked for, per transaction
  events,    \* external: Stripe's events not yet delivered, oldest first
  pc, job    \* each request's next step, and what it knows
vars == <<orders, txns, wallet, applied, redeemed, usage, intents, events, pc, job>>

\* Mobile money, or any other method: cash, card and PayPal are treated alike.
Methods == {"mobile", "other"}
\* stripe: ordered through stripe.service, by card or PayPal and never paid on
\* delivery.  Any other order came through the direct route.
Order == {o \in [user: Users, method: Methods, stripe: BOOLEAN, pod: BOOLEAN,
                 delivery: BOOLEAN, coupon: BOOLEAN, shipping: Nat, total: Nat] :
            o.stripe => o.method = "other" /\ ~o.pod}
PayStatuses == {"PENDING", "COMPLETED", "FAILED"}
Txn == [order: Orders, amount: Nat, status: PayStatuses, stored: BOOLEAN]
Intent == [state: {"open", "paid", "failed"}, amount: Nat]
NoIntent == [state |-> "none", amount |-> 0]
\* None is no row.
ASSUME NoneAssumption == None \notin Order /\ None \notin Txn
NoJob == [order |-> None, txn |-> None, new |-> None, due |-> 0, answer |-> "none"]

Init ==
  /\ orders = [o \in Orders |-> None]
  /\ txns = [t \in Txns |-> None]
  /\ wallet = [u \in Users |-> WalletStart]
  /\ applied = [o \in Orders |-> 0]
  /\ redeemed = {} /\ usage = 0
  /\ intents = [t \in Txns |-> NoIntent]
  /\ events = [t \in Txns |-> <<>>]
  /\ pc = [r \in Requests |-> "idle"]
  /\ job = [r \in Requests |-> NoJob]

GoTo(r, label) == pc' = [pc EXCEPT ![r] = label]
Start(r, label, j) ==
  /\ pc[r] = "idle" /\ GoTo(r, label)
  /\ job' = [job EXCEPT ![r] = j]
Finish(r) == GoTo(r, "idle") /\ job' = [job EXCEPT ![r] = NoJob]

(***************************************************************************)
(* Checkout.                                                               *)
(***************************************************************************)
\* validateCouponForCheckout, outside the transaction: the user's winner slot
\* is not redeemed and the limit is not reached.
CouponValid(u) ==
  u \notin redeemed /\ (UsageLimit # None => usage < UsageLimit)

Shipping(delivery) == IF delivery THEN DeliveryFee ELSE 0
NewOrder(u, method, stripe, pod, delivery, coupon) ==
  [user |-> u, method |-> method, stripe |-> stripe, pod |-> pod,
   delivery |-> delivery, coupon |-> coupon, shipping |-> Shipping(delivery),
   total |-> Subtotal - (IF coupon THEN Discount ELSE 0) + Shipping(delivery)]

\* Ids left for the requests already on their way to insert; the bounds.
OrderIdLeft == Cardinality({o \in Orders : orders[o] = None})
                 > Cardinality({r \in Requests : pc[r] = "insert"})
TxnIdLeft == Cardinality({t \in Txns : txns[t] = None})
               > Cardinality({r \in Requests : pc[r] \in {"insert", "deliver"}})

\* checkoutDirectOrder of either service.  The direct route takes the id of any
\* method, the card's and PayPal's included; only stripe.service looks its
\* method up by name.
Checkout(r, u, method, stripe, pod, delivery, coupon) ==
  LET new == NewOrder(u, method, stripe, pod, delivery, coupon) IN
  /\ OrderIdLeft /\ TxnIdLeft
  /\ stripe => method = "other" /\ ~pod
  /\ coupon => CouponValid(u)
  /\ Start(r, "insert", [NoJob EXCEPT !.new = new])
  /\ UNCHANGED <<orders, txns, wallet, applied, redeemed, usage, intents, events>>

\* Mobile money is asked for now, and CamPay can be.
CollectsNow(new) == new.method = "mobile" /\ ~new.pod /\ CampayEnabled

FirstStatusStripeForgotten(new) ==   \* mutant: stripe.service without paymentPending
  IF new.pod \/ CollectsNow(new) THEN "PENDING" ELSE "COMPLETED"

\* Paid on delivery, through stripe.service or by a collection now: pending.
\* Anything else is completed as it is inserted, a card's id at the direct
\* route too.
FirstStatus(new) ==
  IF new.pod \/ new.stripe \/ CollectsNow(new) THEN "PENDING" ELSE "COMPLETED"

RecordRedemptionUnindexed(u) ==   \* mutant: no unique (coupon, user) index
  redeemed' = redeemed \cup {u} /\ usage' = usage + 1

\* recordCouponRedemption, in the same transaction: the unique (coupon, user)
\* index refuses a second redemption; the count is incremented in place.
RecordRedemption(u) ==
  /\ u \notin redeemed
  /\ redeemed' = redeemed \cup {u} /\ usage' = usage + 1

\* createDirectOrderCheckout's transaction.
InsertOrder(r) ==
  LET new == job[r].new IN
  /\ pc[r] = "insert"
  /\ \E o \in Orders, t \in Txns :
       /\ orders[o] = None /\ txns[t] = None
       /\ orders' = [orders EXCEPT ![o] = new]
       /\ txns' = [txns EXCEPT ![t] =
            [order |-> o, amount |-> new.total, status |-> FirstStatus(new),
             stored |-> FALSE]]
       /\ job' = [job EXCEPT ![r].order = o, ![r].txn = t, ![r].due = new.total]
  /\ IF new.coupon THEN RecordRedemption(new.user) ELSE UNCHANGED <<redeemed, usage>>
  /\ GoTo(r, IF new.stripe THEN "intent" ELSE "wallet")
  /\ UNCHANGED <<wallet, applied, intents, events>>

\* The same transaction refused by the index; nothing of it remains.
InsertRefused(r) ==
  /\ pc[r] = "insert" /\ job[r].new.coupon /\ job[r].new.user \in redeemed
  /\ Finish(r)
  /\ UNCHANGED <<orders, txns, wallet, applied, redeemed, usage, intents, events>>

CoversUnchecked(u, n) == TRUE   \* mutant: the wallet is debited unchecked
\* applyWalletPayment's check on the balance.
Covers(u, n) == n <= wallet[u]

\* applyWalletPayment for all of the order or the part the customer chose; it
\* throws when the wallet does not cover it, after the order is committed.
PayFromWallet(r) ==
  LET new == job[r].new
      u == new.user
  IN
  /\ pc[r] = "wallet"
  /\ \E n \in 0 .. new.total :
       \/ /\ Covers(u, n)
          /\ wallet' = [wallet EXCEPT ![u] = @ - n]
          /\ applied' = [applied EXCEPT ![job[r].order] = n]
          /\ IF n < new.total /\ ~CollectsNow(new)
             THEN Finish(r)
             ELSE /\ GoTo(r, IF n = new.total THEN "settle" ELSE "intent")
                  /\ job' = [job EXCEPT ![r].due = new.total - n]
       \/ /\ ~Covers(u, n)
          /\ Finish(r) /\ UNCHANGED <<wallet, applied>>
  /\ UNCHANGED <<orders, txns, redeemed, usage, intents, events>>

\* Nothing remains to pay: the local reference still names the row.
Settle(r) ==
  /\ pc[r] = "settle"
  /\ txns' = [txns EXCEPT ![job[r].txn].status = "COMPLETED"]
  /\ Finish(r)
  /\ UNCHANGED <<orders, wallet, applied, redeemed, usage, intents, events>>

OpenIntentForTotal(r) ==   \* mutant: the wallet's part is asked for again
  /\ pc[r] = "intent" /\ GoTo(r, "store")
  /\ intents' = [intents EXCEPT ![job[r].txn] =
       [state |-> "open", amount |-> txns[job[r].txn].amount]]
  /\ UNCHANGED <<orders, txns, wallet, applied, redeemed, usage, events, job>>

\* initCollect / paymentIntents.create, for what remains to be paid.
OpenIntent(r) ==
  /\ pc[r] = "intent" /\ GoTo(r, "store")
  /\ intents' = [intents EXCEPT ![job[r].txn] = [state |-> "open", amount |-> job[r].due]]
  /\ UNCHANGED <<orders, txns, wallet, applied, redeemed, usage, events, job>>

\* updatePaymentTransactionReference; the client learns the reference from the
\* answer, so it polls, or pays a card intent, only afterwards.
StoreReference(r) ==
  /\ pc[r] = "store"
  /\ txns' = [txns EXCEPT ![job[r].txn].stored = TRUE]
  /\ Finish(r)
  /\ UNCHANGED <<orders, wallet, applied, redeemed, usage, intents, events>>

(***************************************************************************)
(* The providers (external) and what the backend hears from them.          *)
(***************************************************************************)
Card(t) == txns[t] # None /\ orders[txns[t].order].stripe

Tell(t, kind) ==
  events' = IF Card(t) THEN [events EXCEPT ![t] = Append(@, kind)] ELSE events

\* A mobile-money prompt reaches the phone at once; a card needs the secret.
CustomerPays(t) ==
  /\ intents[t].state = "open" /\ (Card(t) => txns[t].stored)
  /\ intents' = [intents EXCEPT ![t].state = "paid"]
  /\ Tell(t, "succeeded")
  /\ UNCHANGED <<orders, txns, wallet, applied, redeemed, usage, pc, job>>

\* A refused card may be tried again (MaxAttempts bounds how often); a mobile
\* payment that failed is over.
MaxAttempts == 1
CustomerFails(t) ==
  /\ intents[t].state = "open" /\ (Card(t) => txns[t].stored)
  /\ Len(events[t]) < MaxAttempts
  /\ intents' = IF Card(t) THEN intents ELSE [intents EXCEPT ![t].state = "failed"]
  /\ Tell(t, "failed")
  /\ UNCHANGED <<orders, txns, wallet, applied, redeemed, usage, pc, job>>

SetStatusOnce(t, status) ==   \* mutant: only a pending row takes a status
  txns' = IF txns[t].stored /\ txns[t].status = "PENDING"
          THEN [txns EXCEPT ![t].status = status] ELSE txns

\* updatePaymentStatusByTransactionReference: no row, nothing happens.
SetStatus(t, status) ==
  txns' = IF txns[t].stored THEN [txns EXCEPT ![t].status = status] ELSE txns

\* handleWebhook: the row with that reference, if there is one, takes the
\* event's status, whatever it has.
HandleWebhook(t) ==
  \E i \in 1 .. Len(events[t]) :
    /\ InOrder => i = 1
    /\ SetStatus(t, IF events[t][i] = "succeeded" THEN "COMPLETED" ELSE "FAILED")
    /\ events' = [events EXCEPT ![t] = RemoveAt(@, i)]
    /\ UNCHANGED <<orders, wallet, applied, redeemed, usage, intents, pc, job>>

\* syncTransactionStatus: ask CamPay, then write what it said.
SyncTransactionStatus(r, t) ==
  /\ intents[t] # NoIntent /\ ~Card(t) /\ txns[t].stored
  /\ Start(r, "sync", [NoJob EXCEPT !.txn = t, !.answer = intents[t].state])
  /\ UNCHANGED <<orders, txns, wallet, applied, redeemed, usage, intents, events>>
WriteSync(r) ==
  /\ pc[r] = "sync"
  /\ CASE job[r].answer = "paid" -> SetStatus(job[r].txn, "COMPLETED")
       [] job[r].answer = "failed" -> SetStatus(job[r].txn, "FAILED")
       [] OTHER -> UNCHANGED txns
  /\ Finish(r)
  /\ UNCHANGED <<orders, wallet, applied, redeemed, usage, intents, events>>

(***************************************************************************)
(* Delivery asked for after checkout.                                      *)
(***************************************************************************)
\* requestPostCheckoutDelivery reads the order and checks it ...
RequestDelivery(r, o) ==
  /\ TxnIdLeft
  /\ orders[o] # None /\ ~orders[o].delivery
  /\ DeliveryFee > orders[o].shipping
  /\ Start(r, "deliver", [NoJob EXCEPT !.order = o, !.new = orders[o]])
  /\ UNCHANGED <<orders, txns, wallet, applied, redeemed, usage, intents, events>>

WithDelivery(order, fee) ==
  [order EXCEPT !.delivery = TRUE, !.shipping = @ + fee, !.total = @ + fee]

\* ... then, in a transaction, writes totals computed from what it read and
\* opens a payment of the fee.
AddDelivery(r) ==
  LET o == job[r].order
      fee == DeliveryFee - job[r].new.shipping
  IN
  /\ pc[r] = "deliver"
  /\ orders' = [orders EXCEPT ![o] = WithDelivery(job[r].new, fee)]
  /\ \E t \in Txns :
       /\ txns[t] = None
       /\ txns' = [txns EXCEPT ![t] =
            [order |-> o, amount |-> fee, status |-> "PENDING", stored |-> FALSE]]
       /\ IF job[r].new.method = "mobile" /\ CampayEnabled
          THEN GoTo(r, "intent") /\ job' = [job EXCEPT ![r].txn = t, ![r].due = fee]
          ELSE Finish(r)
  /\ UNCHANGED <<wallet, applied, redeemed, usage, intents, events>>

Fail(r) ==
  /\ MayFail /\ pc[r] # "idle" /\ Finish(r)
  /\ UNCHANGED <<orders, txns, wallet, applied, redeemed, usage, intents, events>>

Step(r) ==
  \/ InsertOrder(r) \/ InsertRefused(r) \/ PayFromWallet(r) \/ Settle(r)
  \/ OpenIntent(r) \/ StoreReference(r) \/ WriteSync(r) \/ AddDelivery(r)

Next ==
  \/ \E r \in Requests :
       \/ \E u \in Users, method \in Methods, stripe, pod, delivery, coupon \in BOOLEAN :
            Checkout(r, u, method, stripe, pod, delivery, coupon)
       \/ \E o \in Orders : RequestDelivery(r, o)
       \/ \E t \in Txns : SyncTransactionStatus(r, t)
       \/ Step(r) \/ Fail(r)
  \/ \E t \in Txns : CustomerPays(t) \/ CustomerFails(t) \/ HandleWebhook(t)

Spec == Init /\ [][Next]_vars

\* Statements once issued complete, and Stripe delivers until it is answered.
FairSpec ==
  /\ Spec
  /\ \A r \in Requests : WF_vars(Step(r))
  /\ \A t \in Txns : WF_vars(HandleWebhook(t))

(***************************************************************************)
(* Properties.                                                             *)
(***************************************************************************)
\* Types of the rows, and of what each request carries between its awaits.
TypeOK ==
  /\ orders \in [Orders -> Order \cup {None}]
  /\ txns \in [Txns -> Txn \cup {None}]
  /\ wallet \in [Users -> Nat] /\ applied \in [Orders -> Nat]
  /\ redeemed \subseteq Users /\ usage \in Nat
  /\ intents \in [Txns -> Intent \cup {NoIntent}]
  /\ events \in [Txns -> Seq({"succeeded", "failed"})]
  /\ pc \in [Requests -> {"idle", "insert", "wallet", "settle", "intent",
                          "store", "sync", "deliver"}]
  /\ \A r \in Requests : pc[r] # "idle" =>
       /\ pc[r] \in {"insert", "wallet", "deliver"} => job[r].new \in Order
       /\ pc[r] \in {"wallet", "settle", "deliver"} => orders[job[r].order] # None
       /\ pc[r] \in {"wallet", "settle", "intent", "store", "sync"} =>
            txns[job[r].txn] # None

CouponOrders == {o \in Orders : orders[o] # None /\ orders[o].coupon}

\* The three records of a redemption agree whatever overlaps: the count, the
\* redemption rows and the orders that carry the coupon (recordCouponRedemption
\* commits with the order), and no user has two such orders.
CouponAccounted ==
  /\ usage = Cardinality(redeemed)
  /\ redeemed = {orders[o].user : o \in CouponOrders}
  /\ \A o, p \in CouponOrders : orders[o].user = orders[p].user => o = p

\* The backend asks a provider for this order's money: it came through
\* stripe.service, or is mobile money with CamPay on.
ByProvider(o) ==
  orders[o].stripe \/ (orders[o].method = "mobile" /\ CampayEnabled)

\* The payment of an order whose money a provider is asked for is marked
\* completed only when that provider was paid or the wallet covered all of it,
\* whatever overlaps, dies or comes late.  It says nothing of the other orders,
\* which the direct route completes unpaid: a card's or PayPal's id there, and
\* mobile money with CamPay off.
CompletedIsPaid ==
  \A t \in Txns : txns[t] # None /\ txns[t].status = "COMPLETED" =>
    LET o == txns[t].order IN
    ByProvider(o) => intents[t].state = "paid" \/ applied[o] = txns[t].amount

TransactionsOf(o) == {t \in Txns : txns[t] # None /\ txns[t].order = o}
Charged(o) ==
  SumFunctionOnSet([t \in Txns |-> intents[t].amount],
                   {t \in TransactionsOf(o) : intents[t].state = "paid"})

\* Wallet and provider together never take more than the order's total.
NeverOvercharged ==
  \A o \in Orders : orders[o] # None => applied[o] + Charged(o) <= orders[o].total

\* A card payment the customer made ends completed and stays so, also when the
\* request that opened it died, as long as Stripe's events arrive in order.
PaidEndsCompleted ==
  \A t \in Txns :
    (txns[t] # None /\ Card(t) /\ intents[t].state = "paid")
      ~> [](txns[t] # None /\ txns[t].status = "COMPLETED")
=============================================================================
