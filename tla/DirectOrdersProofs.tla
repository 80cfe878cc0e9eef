--------------------------- MODULE DirectOrdersProofs ---------------------------
(***************************************************************************)
(* What holds of checkout and payment for any number of users, orders and    *)
(* requests in progress, whatever overlaps, dies or arrives out of order.     *)
(***************************************************************************)
EXTENDS DirectOrders, SumTheorems, SequenceTheorems

(***************************************************************************)
(* What requests in progress know.                                         *)
(***************************************************************************)
Job == [order: Orders \cup {None}, txn: Txns \cup {None}, new: Order \cup {None},
        due: Nat, answer: {"none", "open", "paid", "failed"}]

JobOK(r) ==
  /\ pc[r] \in {"insert", "wallet", "deliver"} => job[r].new \in Order
  /\ pc[r] \in {"wallet", "settle", "deliver"} =>
       job[r].order \in Orders /\ orders[job[r].order] # None
  /\ pc[r] \in {"wallet", "settle", "intent", "store", "sync"} =>
       job[r].txn \in Txns /\ txns[job[r].txn] # None
\* A delivery request rewrites the order it read: what it does not change is still so.
ReadStands(r) ==
  pc[r] = "deliver" =>
    /\ job[r].new.shipping < DeliveryFee
    /\ orders[job[r].order].user = job[r].new.user
    /\ orders[job[r].order].coupon = job[r].new.coupon
    /\ orders[job[r].order].method = job[r].new.method
    /\ orders[job[r].order].stripe = job[r].new.stripe
JobsOK == job \in [Requests -> Job] /\ \A r \in Requests : JobOK(r) /\ ReadStands(r)

\* Payments belong to orders, and providers know of used ids only.
RowsOK ==
  \A t \in Txns :
    /\ txns[t] # None => orders[txns[t].order] # None
    /\ txns[t] = None => intents[t] = NoIntent /\ events[t] = <<>>

Inv == TypeOK /\ JobsOK /\ RowsOK

USE DEF PayStatuses, Methods

LEMMA RemovedKnown ==
  ASSUME NEW S, NEW s \in Seq(S), NEW i \in 1..Len(s)
  PROVE  /\ RemoveAt(s, i) \in Seq(S)
         /\ \A j \in DOMAIN RemoveAt(s, i) : \E k \in DOMAIN s : RemoveAt(s, i)[j] = s[k]
<1> DEFINE a == SubSeq(s, 1, i - 1)
           b == SubSeq(s, i + 1, Len(s))
<1>1. /\ a \in Seq(S) /\ Len(a) = i - 1
      /\ \A j \in 1..Len(a) : a[j] = s[j]
  BY SubSeqProperties
<1>2. /\ b \in Seq(S) /\ Len(b) = Len(s) - i
      /\ \A j \in 1..Len(b) : b[j] = s[i + j]
  OBVIOUS
<1>3. RemoveAt(s, i) = a \o b
  BY DEF RemoveAt
<1> HIDE DEF a, b
<1>4. /\ a \o b \in Seq(S) /\ Len(a \o b) = Len(a) + Len(b)
      /\ \A j \in 1..Len(a) + Len(b) :
           (a \o b)[j] = IF j <= Len(a) THEN a[j] ELSE b[j - Len(a)]
  BY <1>1, <1>2, ConcatProperties
<1>5. ASSUME NEW j \in 1..Len(a) + Len(b)
      PROVE  \E k \in 1..Len(s) : (a \o b)[j] = s[k]
  <2>1. CASE j <= Len(a)
    <3>1. (a \o b)[j] = s[j] /\ j \in 1..Len(s)
      BY <2>1, <1>1, <1>4
    <3> QED  BY <3>1
  <2>2. CASE ~(j <= Len(a))
    <3>1. j - Len(a) \in 1..Len(b)
      BY <2>2, <1>1, <1>2
    <3>2. (a \o b)[j] = s[i + (j - Len(a))] /\ i + (j - Len(a)) \in 1..Len(s)
      BY <2>2, <3>1, <1>1, <1>2, <1>4
    <3> QED  BY <3>2
  <2> QED  BY <2>1, <2>2
<1> QED  BY <1>3, <1>4, <1>5

LEMMA NewOrderTyped ==
  ASSUME NEW u \in Users, NEW method \in Methods, NEW stripe \in BOOLEAN, NEW pod \in BOOLEAN,
         NEW delivery \in BOOLEAN, NEW coupon \in BOOLEAN, stripe => method = "other" /\ ~pod
  PROVE  NewOrder(u, method, stripe, pod, delivery, coupon) \in Order
<1>1. Shipping(delivery) \in Nat
  BY ConstantsAssumption DEF Shipping
<1>2. Subtotal - (IF coupon THEN Discount ELSE 0) + Shipping(delivery) \in Nat
  BY ConstantsAssumption, <1>1
<1> QED  BY <1>1, <1>2 DEF NewOrder, Order

LEMMA Initially == Init => Inv
<1> SUFFICES ASSUME Init PROVE Inv
  OBVIOUS
<1>1. TypeOK
  BY ConstantsAssumption DEF Init, TypeOK
<1>2. JobsOK
  BY DEF Init, JobsOK, JobOK, ReadStands, Job, NoJob
<1>3. RowsOK
  BY DEF Init, RowsOK
<1> QED  BY <1>1, <1>2, <1>3 DEF Inv

LEMMA CheckoutKeeps ==
  ASSUME Inv, NEW r \in Requests, NEW u \in Users, NEW method \in Methods,
         NEW stripe \in BOOLEAN, NEW pod \in BOOLEAN, NEW delivery \in BOOLEAN, NEW coupon \in BOOLEAN,
         Checkout(r, u, method, stripe, pod, delivery, coupon)
  PROVE  Inv'
<1> DEFINE new == NewOrder(u, method, stripe, pod, delivery, coupon)
<1>1. new \in Order
  BY NewOrderTyped DEF Checkout
<1>2. /\ pc' = [pc EXCEPT ![r] = "insert"]
      /\ job' = [job EXCEPT ![r] = [NoJob EXCEPT !.new = new]]
      /\ UNCHANGED <<orders, txns, wallet, applied, redeemed, usage, intents, events>>
  BY DEF Checkout, Start, GoTo
<1> HIDE DEF new
<1>3. job' \in [Requests -> Job] /\ job'[r].new = new
  BY <1>1, <1>2 DEF Inv, JobsOK, Job, NoJob
<1>4. TypeOK'
  BY <1>1, <1>2, <1>3 DEF Inv, TypeOK, JobsOK
<1>5. JobsOK'
  BY <1>1, <1>2, <1>3 DEF Inv, TypeOK, JobsOK, JobOK, ReadStands
<1>6. RowsOK'
  BY <1>2 DEF Inv, RowsOK
<1> QED  BY <1>4, <1>5, <1>6 DEF Inv

LEMMA InsertKeeps ==
  ASSUME Inv, NEW r \in Requests, InsertOrder(r)
  PROVE  Inv'
<1> DEFINE new == job[r].new
<1>1. PICK o \in Orders, t \in Txns :
        /\ orders[o] = None /\ txns[t] = None
        /\ orders' = [orders EXCEPT ![o] = new]
        /\ txns' = [txns EXCEPT ![t] =
             [order |-> o, amount |-> new.total, status |-> FirstStatus(new), stored |-> FALSE]]
        /\ job' = [job EXCEPT ![r].order = o, ![r].txn = t, ![r].due = new.total]
  BY DEF InsertOrder
<1>2. /\ pc[r] = "insert" /\ pc' = [pc EXCEPT ![r] = IF new.stripe THEN "intent" ELSE "wallet"]
      /\ UNCHANGED <<wallet, applied, intents, events>>
  BY DEF InsertOrder, GoTo
<1>3. new \in Order /\ job[r] \in Job
  BY <1>2 DEF Inv, JobsOK, JobOK
<1>4. /\ job' \in [Requests -> Job]
      /\ job'[r].new = new /\ job'[r].order = o /\ job'[r].txn = t /\ job'[r].due = new.total
      /\ \A q \in Requests \ {r} : job'[q] = job[q]
  BY <1>1, <1>3 DEF Inv, JobsOK, Job, Order
<1>5. /\ orders' \in [Orders -> Order \cup {None}] /\ orders'[o] # None
      /\ \A p \in Orders \ {o} : orders'[p] = orders[p]
  BY <1>1, <1>3, NoneAssumption DEF Inv, TypeOK
<1>6. FirstStatus(new) \in PayStatuses
  BY DEF FirstStatus
<1>7. /\ txns' \in [Txns -> Txn \cup {None}] /\ txns'[t] # None /\ txns'[t].order = o
      /\ \A x \in Txns \ {t} : txns'[x] = txns[x]
  <2> DEFINE row == [order |-> o, amount |-> new.total, status |-> FirstStatus(new), stored |-> FALSE]
  <2>1. new.total \in Nat
    BY <1>3 DEF Order
  <2>2. row \in Txn /\ row.order = o
    BY <2>1, <1>6 DEF Txn
  <2> HIDE DEF row
  <2> QED  BY <2>2, <1>1, NoneAssumption DEF Inv, TypeOK, row
<1>8. redeemed' \subseteq Users /\ usage' \in Nat
  BY <1>3 DEF InsertOrder, RecordRedemption, Inv, TypeOK, Order
<1> HIDE DEF new
<1>9. TypeOK'
  BY <1>1, <1>2, <1>3, <1>4, <1>5, <1>7, <1>8 DEF Inv, TypeOK, JobsOK, JobOK
<1>10. JobsOK'
  BY <1>1, <1>2, <1>3, <1>4, <1>5, <1>7 DEF Inv, TypeOK, JobsOK, JobOK, ReadStands
<1>11. RowsOK'
  BY <1>1, <1>2, <1>5, <1>7 DEF Inv, RowsOK, TypeOK, Txn
<1> QED  BY <1>9, <1>10, <1>11 DEF Inv

\* What an ended request knows is nothing.
LEMMA EndKeeps ==
  ASSUME Inv, NEW r \in Requests, Finish(r),
         UNCHANGED <<orders, redeemed, usage, intents, events>>,
         wallet' \in [Users -> Nat], applied' \in [Orders -> Nat],
         txns' \in [Txns -> Txn \cup {None}],
         \A t \in Txns : /\ txns'[t] = None <=> txns[t] = None
                         /\ txns[t] # None => txns'[t].order = txns[t].order
  PROVE  Inv'
<1>1. pc' = [pc EXCEPT ![r] = "idle"] /\ job' = [job EXCEPT ![r] = NoJob]
  BY DEF Finish, GoTo
<1>2. job' \in [Requests -> Job]
  BY <1>1 DEF Inv, JobsOK, Job, NoJob
<1>3. TypeOK'
  BY <1>1, <1>2 DEF Inv, TypeOK, JobsOK, JobOK
<1>4. JobsOK'
  BY <1>1, <1>2 DEF Inv, TypeOK, JobsOK, JobOK, ReadStands
<1>5. RowsOK'
  BY DEF Inv, RowsOK
<1> QED  BY <1>3, <1>4, <1>5 DEF Inv

LEMMA PayKeeps ==
  ASSUME Inv, NEW r \in Requests, PayFromWallet(r)
  PROVE  Inv'
<1> DEFINE new == job[r].new
           u == new.user
<1>1. pc[r] = "wallet" /\ UNCHANGED <<orders, txns, redeemed, usage, intents, events>>
  BY DEF PayFromWallet
<1>2. /\ new \in Order /\ u \in Users /\ new.total \in Nat /\ job[r] \in Job
      /\ job[r].order \in Orders /\ orders[job[r].order] # None
      /\ job[r].txn \in Txns /\ txns[job[r].txn] # None
  BY <1>1 DEF Inv, JobsOK, JobOK, Order
<1>3. PICK n \in 0..new.total :
        \/ /\ Covers(u, n)
           /\ wallet' = [wallet EXCEPT ![u] = @ - n]
           /\ applied' = [applied EXCEPT ![job[r].order] = n]
           /\ IF n < new.total /\ ~CollectsNow(new)
              THEN Finish(r)
              ELSE /\ GoTo(r, IF n = new.total THEN "settle" ELSE "intent")
                   /\ job' = [job EXCEPT ![r].due = new.total - n]
        \/ Finish(r) /\ UNCHANGED <<wallet, applied>>
  BY DEF PayFromWallet
<1>4. n \in Nat /\ new.total - n \in Nat
  BY <1>2, <1>3
<1>5. wallet' \in [Users -> Nat] /\ applied' \in [Orders -> Nat]
  <2>1. CASE Covers(u, n) /\ wallet' = [wallet EXCEPT ![u] = @ - n]
             /\ applied' = [applied EXCEPT ![job[r].order] = n]
    <3>1. wallet[u] - n \in Nat
      BY <2>1, <1>2, <1>4 DEF Inv, TypeOK, Covers
    <3> QED  BY <2>1, <3>1, <1>2, <1>4 DEF Inv, TypeOK
  <2>2. CASE UNCHANGED <<wallet, applied>>
    BY <2>2 DEF Inv, TypeOK
  <2> QED  BY <2>1, <2>2, <1>3
<1>6. CASE Finish(r)
  BY <1>1, <1>5, <1>6, EndKeeps DEF Inv, TypeOK
<1>7. CASE /\ GoTo(r, IF n = new.total THEN "settle" ELSE "intent")
           /\ job' = [job EXCEPT ![r].due = new.total - n]
  <2>1. /\ job' \in [Requests -> Job] /\ job'[r].order = job[r].order
        /\ job'[r].txn = job[r].txn
        /\ \A q \in Requests \ {r} : job'[q] = job[q]
    BY <1>2, <1>4, <1>7 DEF Inv, JobsOK, Job
  <2>2. pc' = [pc EXCEPT ![r] = IF n = new.total THEN "settle" ELSE "intent"]
    BY <1>7 DEF GoTo
  <2> HIDE DEF new, u
  <2>3. TypeOK'
    BY <2>1, <2>2, <1>1, <1>2, <1>5 DEF Inv, TypeOK, JobsOK, JobOK
  <2>4. JobsOK'
    BY <2>1, <2>2, <1>1, <1>2 DEF Inv, TypeOK, JobsOK, JobOK, ReadStands
  <2>5. RowsOK'
    BY <1>1 DEF Inv, RowsOK
  <2> QED  BY <2>3, <2>4, <2>5 DEF Inv
<1> QED  BY <1>3, <1>6, <1>7

\* A row takes a status, or its reference.
LEMMA StatusSet ==
  ASSUME Inv, NEW t \in Txns, txns[t] # None, NEW status \in PayStatuses,
         \/ txns' = [txns EXCEPT ![t].status = status]
         \/ txns' = [txns EXCEPT ![t].stored = TRUE]
         \/ UNCHANGED txns
  PROVE  /\ txns' \in [Txns -> Txn \cup {None}]
         /\ \A x \in Txns :
              /\ txns'[x] = None <=> txns[x] = None
              /\ txns[x] # None => /\ txns'[x].order = txns[x].order
                                   /\ txns'[x].amount = txns[x].amount
         /\ txns'[t].status \in {status, txns[t].status}
         /\ \A x \in Txns \ {t} : txns'[x] = txns[x]
<1>1. txns \in [Txns -> Txn \cup {None}] /\ txns[t] \in Txn
  BY DEF Inv, TypeOK
<1>2. [txns[t] EXCEPT !.status = status] \in Txn /\ [txns[t] EXCEPT !.stored = TRUE] \in Txn
  BY <1>1 DEF Txn
<1>3. txns'[t] \in Txn /\ txns'[t].order = txns[t].order /\ txns'[t].amount = txns[t].amount
      /\ txns'[t].status \in {status, txns[t].status}
  BY <1>1, <1>2 DEF Txn
<1>4. \A x \in Txns \ {t} : txns'[x] = txns[x]
  BY <1>1
<1>5. DOMAIN txns' = Txns /\ txns' = [x \in Txns |-> txns'[x]]
  BY <1>1
<1> QED  BY <1>1, <1>3, <1>4, <1>5, NoneAssumption

LEMMA SettleKeeps ==
  ASSUME Inv, NEW r \in Requests, Settle(r)
  PROVE  Inv'
<1>1. job[r].txn \in Txns /\ txns[job[r].txn] # None
  BY DEF Settle, Inv, JobsOK, JobOK
<1>2. /\ txns' = [txns EXCEPT ![job[r].txn].status = "COMPLETED"] /\ Finish(r)
      /\ UNCHANGED <<orders, wallet, applied, redeemed, usage, intents, events>>
  BY DEF Settle
<1>3. wallet' \in [Users -> Nat] /\ applied' \in [Orders -> Nat]
  BY <1>2 DEF Inv, TypeOK
<1>4. /\ txns' \in [Txns -> Txn \cup {None}]
      /\ \A x \in Txns : /\ txns'[x] = None <=> txns[x] = None
                         /\ txns[x] # None => txns'[x].order = txns[x].order
  BY <1>1, <1>2, StatusSet
<1>9. UNCHANGED <<orders, redeemed, usage, intents, events>>
  BY <1>2
<1> QED  BY <1>2, <1>3, <1>4, <1>9, EndKeeps

LEMMA OpenKeeps ==
  ASSUME Inv, NEW r \in Requests, OpenIntent(r)
  PROVE  Inv'
<1>1. /\ job[r].txn \in Txns /\ txns[job[r].txn] # None /\ job[r].due \in Nat
  BY DEF OpenIntent, Inv, JobsOK, JobOK, Job
<1>2. /\ pc[r] = "intent" /\ pc' = [pc EXCEPT ![r] = "store"]
      /\ intents' = [intents EXCEPT ![job[r].txn] = [state |-> "open", amount |-> job[r].due]]
      /\ UNCHANGED <<orders, txns, wallet, applied, redeemed, usage, events, job>>
  BY DEF OpenIntent, GoTo
<1>3. intents' \in [Txns -> Intent \cup {NoIntent}]
  BY <1>1, <1>2 DEF Inv, TypeOK, Intent
<1>4. TypeOK'
  BY <1>1, <1>2, <1>3 DEF Inv, TypeOK, JobsOK, JobOK
<1>5. JobsOK'
  BY <1>1, <1>2 DEF Inv, TypeOK, JobsOK, JobOK, ReadStands
<1>6. RowsOK'
  BY <1>1, <1>2 DEF Inv, RowsOK, TypeOK
<1> QED  BY <1>4, <1>5, <1>6 DEF Inv

LEMMA StoreKeeps ==
  ASSUME Inv, NEW r \in Requests, StoreReference(r)
  PROVE  Inv'
<1>1. job[r].txn \in Txns /\ txns[job[r].txn] # None
  BY DEF StoreReference, Inv, JobsOK, JobOK
<1>2. /\ txns' = [txns EXCEPT ![job[r].txn].stored = TRUE] /\ Finish(r)
      /\ UNCHANGED <<orders, wallet, applied, redeemed, usage, intents, events>>
  BY DEF StoreReference
<1>3. wallet' \in [Users -> Nat] /\ applied' \in [Orders -> Nat]
  BY <1>2 DEF Inv, TypeOK
<1>4. "PENDING" \in PayStatuses
  OBVIOUS
<1>5. /\ txns' \in [Txns -> Txn \cup {None}]
      /\ \A x \in Txns : /\ txns'[x] = None <=> txns[x] = None
                         /\ txns[x] # None => txns'[x].order = txns[x].order
  BY <1>1, <1>2, <1>4, StatusSet
<1>9. UNCHANGED <<orders, redeemed, usage, intents, events>>
  BY <1>2
<1> QED  BY <1>2, <1>3, <1>5, <1>9, EndKeeps

LEMMA WriteSyncKeeps ==
  ASSUME Inv, NEW r \in Requests, WriteSync(r)
  PROVE  Inv'
<1> DEFINE t == job[r].txn
<1>1. t \in Txns /\ txns[t] # None
  BY DEF WriteSync, Inv, JobsOK, JobOK
<1>2. Finish(r) /\ UNCHANGED <<orders, wallet, applied, redeemed, usage, intents, events>>
  BY DEF WriteSync
<1>3. PICK status \in PayStatuses :
        txns' = [txns EXCEPT ![t].status = status] \/ UNCHANGED txns
  BY DEF WriteSync, SetStatus
<1>4. wallet' \in [Users -> Nat] /\ applied' \in [Orders -> Nat]
  BY <1>2 DEF Inv, TypeOK
<1> HIDE DEF t
<1>5. /\ txns' \in [Txns -> Txn \cup {None}]
      /\ \A x \in Txns : /\ txns'[x] = None <=> txns[x] = None
                         /\ txns[x] # None => txns'[x].order = txns[x].order
  BY <1>1, <1>3, StatusSet
<1>9. UNCHANGED <<orders, redeemed, usage, intents, events>>
  BY <1>2
<1> QED  BY <1>2, <1>4, <1>5, <1>9, EndKeeps

LEMMA AddDeliveryKeeps ==
  ASSUME Inv, NEW r \in Requests, AddDelivery(r)
  PROVE  Inv'
<1> DEFINE new == job[r].new
           o == job[r].order
           fee == DeliveryFee - new.shipping
           row == WithDelivery(new, fee)
           txn == [order |-> o, amount |-> fee, status |-> "PENDING", stored |-> FALSE]
<1>1. PICK t \in Txns :
        /\ txns[t] = None
        /\ txns' = [txns EXCEPT ![t] = txn]
        /\ IF new.method = "mobile" /\ CampayEnabled
           THEN GoTo(r, "intent") /\ job' = [job EXCEPT ![r].txn = t, ![r].due = fee]
           ELSE Finish(r)
  BY DEF AddDelivery
<1>2. /\ pc[r] = "deliver" /\ orders' = [orders EXCEPT ![o] = row]
      /\ UNCHANGED <<wallet, applied, redeemed, usage, intents, events>>
  BY DEF AddDelivery
<1>3. /\ new \in Order /\ o \in Orders /\ orders[o] \in Order /\ job[r] \in Job
      /\ new.user = orders[o].user /\ new.coupon = orders[o].coupon
      /\ new.method = orders[o].method /\ new.stripe = orders[o].stripe
      /\ new.shipping < DeliveryFee
  BY <1>2 DEF Inv, TypeOK, JobsOK, JobOK, ReadStands
<1>4. fee \in Nat
  BY <1>3, ConstantsAssumption DEF Order
<1>5. /\ row \in Order /\ row.user = orders[o].user /\ row.coupon = orders[o].coupon
      /\ row.method = orders[o].method /\ row.stripe = orders[o].stripe
  <2>1. new.shipping + fee \in Nat /\ new.total + fee \in Nat
    BY <1>3, <1>4 DEF Order
  <2> HIDE DEF fee
  <2> QED  BY <2>1, <1>3 DEF WithDelivery, Order
<1>6. txn \in Txn /\ txn.order = o
  BY <1>3, <1>4 DEF Txn
<1>7. /\ pc' = [pc EXCEPT ![r] = pc'[r]] /\ pc'[r] \in {"intent", "idle"}
      /\ job' \in [Requests -> Job]
      /\ pc'[r] = "intent" => job'[r].txn = t
      /\ \A q \in Requests \ {r} : job'[q] = job[q] /\ pc'[q] = pc[q]
  <2>1. CASE GoTo(r, "intent") /\ job' = [job EXCEPT ![r].txn = t, ![r].due = fee]
    <3> HIDE DEF fee
    <3> QED  BY <2>1, <1>3, <1>4 DEF GoTo, Inv, TypeOK, JobsOK, Job
  <2>2. CASE Finish(r)
    BY <2>2 DEF Finish, GoTo, NoJob, Inv, TypeOK, JobsOK, Job
  <2> QED  BY <2>1, <2>2, <1>1
<1> HIDE DEF new, fee, row, txn, o
<1>8. /\ orders' \in [Orders -> Order \cup {None}] /\ orders'[o] = row
      /\ \A p \in Orders \ {o} : orders'[p] = orders[p]
  BY <1>2, <1>3, <1>5 DEF Inv, TypeOK
<1>9. /\ txns' \in [Txns -> Txn \cup {None}] /\ txns'[t] = txn
      /\ \A x \in Txns \ {t} : txns'[x] = txns[x]
  BY <1>1, <1>6 DEF Inv, TypeOK
<1>10. \A p \in Orders : orders[p] # None =>
         /\ orders'[p] # None /\ orders'[p].user = orders[p].user
         /\ orders'[p].coupon = orders[p].coupon /\ orders'[p].method = orders[p].method
         /\ orders'[p].stripe = orders[p].stripe
  BY <1>8, <1>5, NoneAssumption
<1>11. \A x \in Txns : txns[x] # None => txns'[x] # None
  BY <1>1, <1>9
<1>12. txns'[t] # None
  BY <1>6, <1>9, NoneAssumption
<1>13. TypeOK'
  <2>1. pc' \in [Requests -> {"idle", "insert", "wallet", "settle", "intent", "store", "sync",
                              "deliver"}]
    BY <1>7 DEF Inv, TypeOK
  <2>2. \A q \in Requests : pc'[q] # "idle" =>
          /\ pc'[q] \in {"insert", "wallet", "deliver"} => job'[q].new \in Order
          /\ pc'[q] \in {"wallet", "settle", "deliver"} => orders'[job'[q].order] # None
          /\ pc'[q] \in {"wallet", "settle", "intent", "store", "sync"} =>
               txns'[job'[q].txn] # None
    BY <1>7, <1>10, <1>11, <1>12 DEF Inv, JobsOK, JobOK
  <2> QED  BY <2>1, <2>2, <1>2, <1>8, <1>9 DEF Inv, TypeOK
<1>14. JobsOK'
  <2>1. \A q \in Requests : JobOK(q)'
    BY <1>7, <1>10, <1>11, <1>12 DEF Inv, JobsOK, JobOK
  <2>2. \A q \in Requests : ReadStands(q)'
    BY <1>7, <1>10 DEF Inv, JobsOK, JobOK, ReadStands
  <2> QED  BY <2>1, <2>2, <1>7 DEF JobsOK
<1>15. RowsOK'
  <2>1. orders'[o] # None
    BY <1>5, <1>8, NoneAssumption
  <2> QED  BY <2>1, <1>1, <1>2, <1>3, <1>6, <1>9, <1>10, <1>12 DEF Inv, RowsOK, TypeOK, Txn
<1> QED  BY <1>13, <1>14, <1>15 DEF Inv

\* A request that reads one row.
LEMMA BeginKeeps ==
  ASSUME Inv, NEW r \in Requests,
         \/ \E o \in Orders : RequestDelivery(r, o)
         \/ \E t \in Txns : SyncTransactionStatus(r, t)
  PROVE  Inv'
<1>1. UNCHANGED <<orders, txns, wallet, applied, redeemed, usage, intents, events>>
  BY DEF RequestDelivery, SyncTransactionStatus
<1>2. RowsOK'
  BY <1>1 DEF Inv, RowsOK
<1>3. ASSUME NEW o \in Orders, RequestDelivery(r, o)
      PROVE  Inv'
  <2>1. /\ orders[o] \in Order /\ orders[o] # None /\ orders[o].shipping < DeliveryFee
        /\ pc' = [pc EXCEPT ![r] = "deliver"]
        /\ job' = [job EXCEPT ![r] = [NoJob EXCEPT !.order = o, !.new = orders[o]]]
    BY <1>3, ConstantsAssumption DEF RequestDelivery, Start, GoTo, Inv, TypeOK, Order
  <2>2. job' \in [Requests -> Job] /\ job'[r].order = o /\ job'[r].new = orders[o]
    BY <2>1 DEF Inv, JobsOK, Job, NoJob
  <2>3. TypeOK' /\ JobsOK'
    BY <2>1, <2>2, <1>1 DEF Inv, TypeOK, JobsOK, JobOK, ReadStands
  <2> QED  BY <2>3, <1>2 DEF Inv
<1>4. ASSUME NEW t \in Txns, SyncTransactionStatus(r, t)
      PROVE  Inv'
  <2>1. txns[t] # None /\ intents[t] \in Intent
    BY <1>4 DEF SyncTransactionStatus, Inv, TypeOK, RowsOK
  <2>2. /\ pc' = [pc EXCEPT ![r] = "sync"]
        /\ job' = [job EXCEPT ![r] = [NoJob EXCEPT !.txn = t, !.answer = intents[t].state]]
    BY <1>4 DEF SyncTransactionStatus, Start, GoTo
  <2>3. job' \in [Requests -> Job] /\ job'[r].txn = t
    BY <2>1, <2>2 DEF Inv, JobsOK, Job, NoJob, Intent
  <2>4. TypeOK' /\ JobsOK'
    BY <2>1, <2>2, <2>3, <1>1 DEF Inv, TypeOK, JobsOK, JobOK, ReadStands
  <2> QED  BY <2>4, <1>2 DEF Inv
<1> QED  BY <1>3, <1>4

LEMMA FinishKeeps ==
  ASSUME Inv, NEW r \in Requests, Fail(r) \/ InsertRefused(r)
  PROVE  Inv'
<1>1. Finish(r) /\ UNCHANGED <<orders, txns, wallet, applied, redeemed, usage, intents, events>>
  BY DEF Fail, InsertRefused
<1>2. /\ wallet' \in [Users -> Nat] /\ applied' \in [Orders -> Nat]
      /\ txns' \in [Txns -> Txn \cup {None}]
  BY <1>1 DEF Inv, TypeOK
<1>3. UNCHANGED <<orders, redeemed, usage, intents, events>> /\ UNCHANGED txns
  BY <1>1
<1> QED  BY <1>1, <1>2, <1>3, EndKeeps

LEMMA ProviderKeeps ==
  ASSUME Inv, NEW t \in Txns, CustomerPays(t) \/ CustomerFails(t)
  PROVE  Inv'
<1>1. UNCHANGED <<orders, txns, wallet, applied, redeemed, usage, pc, job>>
  BY DEF CustomerPays, CustomerFails
<1>2. /\ intents[t].state = "open" /\ intents[t] \in Intent /\ txns[t] # None
  BY DEF CustomerPays, CustomerFails, Inv, TypeOK, RowsOK, NoIntent
<1>3. /\ intents' \in [Txns -> Intent \cup {NoIntent}]
      /\ \A x \in Txns \ {t} : intents'[x] = intents[x]
  <2>1. PICK state \in {"paid", "failed"} :
          intents' = [intents EXCEPT ![t].state = state] \/ UNCHANGED intents
    BY DEF CustomerPays, CustomerFails
  <2>2. [intents[t] EXCEPT !.state = state] \in Intent
    BY <1>2 DEF Intent
  <2> QED  BY <2>1, <2>2 DEF Inv, TypeOK
<1>4. /\ events' \in [Txns -> Seq({"succeeded", "failed"})]
      /\ \A x \in Txns \ {t} : events'[x] = events[x]
  <2>1. PICK kind \in {"succeeded", "failed"} :
          events' = [events EXCEPT ![t] = Append(@, kind)] \/ UNCHANGED events
    BY DEF CustomerPays, CustomerFails, Tell
  <2>2. events[t] \in Seq({"succeeded", "failed"})
    BY DEF Inv, TypeOK
  <2>3. Append(events[t], kind) \in Seq({"succeeded", "failed"})
    BY <2>2
  <2> QED  BY <2>1, <2>3 DEF Inv, TypeOK
<1>5. TypeOK'
  BY <1>1, <1>3, <1>4 DEF Inv, TypeOK
<1>6. JobsOK'
  BY <1>1 DEF Inv, JobsOK, JobOK, ReadStands
<1>7. RowsOK'
  BY <1>1, <1>2, <1>3, <1>4 DEF Inv, RowsOK
<1> QED  BY <1>5, <1>6, <1>7 DEF Inv

LEMMA WebhookKeeps ==
  ASSUME Inv, NEW t \in Txns, HandleWebhook(t)
  PROVE  Inv'
<1>1. UNCHANGED <<orders, wallet, applied, redeemed, usage, intents, pc, job>>
  BY DEF HandleWebhook
<1>2. PICK i \in 1..Len(events[t]), status \in PayStatuses :
        /\ SetStatus(t, status) /\ events' = [events EXCEPT ![t] = RemoveAt(@, i)]
  BY DEF HandleWebhook
<1>3. events[t] \in Seq({"succeeded", "failed"}) /\ events[t] # <<>>
  BY <1>2 DEF Inv, TypeOK
<1>4. txns[t] # None
  BY <1>3 DEF Inv, RowsOK
<1>5. /\ txns' \in [Txns -> Txn \cup {None}]
      /\ \A x \in Txns : /\ txns'[x] = None <=> txns[x] = None
                         /\ txns[x] # None => txns'[x].order = txns[x].order
  BY <1>2, <1>4, StatusSet DEF SetStatus
<1>6. RemoveAt(events[t], i) \in Seq({"succeeded", "failed"})
  BY <1>2, <1>3, RemovedKnown
<1>7. /\ events' \in [Txns -> Seq({"succeeded", "failed"})]
      /\ \A x \in Txns \ {t} : events'[x] = events[x]
  BY <1>2, <1>6 DEF Inv, TypeOK
<1>8. TypeOK'
  BY <1>1, <1>5, <1>7 DEF Inv, TypeOK, JobsOK, JobOK
<1>9. JobsOK'
  BY <1>1, <1>5 DEF Inv, JobsOK, JobOK, ReadStands
<1>10. RowsOK'
  BY <1>1, <1>4, <1>5, <1>7 DEF Inv, RowsOK
<1> QED  BY <1>8, <1>9, <1>10 DEF Inv

LEMMA StepKeeps == Inv /\ [Next]_vars => Inv'
<1> SUFFICES ASSUME Inv, [Next]_vars PROVE Inv'
  OBVIOUS
<1>1. CASE UNCHANGED vars
  BY <1>1 DEF vars, Inv, TypeOK, JobsOK, JobOK, ReadStands, RowsOK
<1>2. CASE Next
  <2>1. ASSUME NEW r \in Requests, NEW u \in Users, NEW method \in Methods,
               NEW stripe \in BOOLEAN, NEW pod \in BOOLEAN, NEW delivery \in BOOLEAN, NEW coupon \in BOOLEAN,
               Checkout(r, u, method, stripe, pod, delivery, coupon)
        PROVE  Inv'
    BY <2>1, CheckoutKeeps
  <2>2. ASSUME NEW r \in Requests, NEW o \in Orders, RequestDelivery(r, o)
        PROVE  Inv'
    BY <2>2, BeginKeeps
  <2>3. ASSUME NEW r \in Requests, NEW t \in Txns, SyncTransactionStatus(r, t)
        PROVE  Inv'
    BY <2>3, BeginKeeps
  <2>4. ASSUME NEW r \in Requests, Step(r) \/ Fail(r)
        PROVE  Inv'
    BY <2>4, InsertKeeps, FinishKeeps, PayKeeps, SettleKeeps, OpenKeeps, StoreKeeps,
       WriteSyncKeeps, AddDeliveryKeeps DEF Step
  <2>5. ASSUME NEW t \in Txns, CustomerPays(t) \/ CustomerFails(t) \/ HandleWebhook(t)
        PROVE  Inv'
    BY <2>5, ProviderKeeps, WebhookKeeps
  <2> QED  BY <1>2, <2>1, <2>2, <2>3, <2>4, <2>5 DEF Next
<1> QED  BY <1>1, <1>2

\* Rows and what requests carry between their awaits keep their types, whatever overlaps.
THEOREM TypeCorrect == Spec => []TypeOK
<1>1. Inv => TypeOK
  BY DEF Inv
<1> QED  BY <1>1, Initially, StepKeeps, PTL DEF Spec

(***************************************************************************)
(* Coupons.                                                                *)
(***************************************************************************)
CouponInv == CouponAccounted /\ IsFiniteSet(redeemed)
WithCoupon(o) == orders[o] # None /\ orders[o].coupon

LEMMA SameCoupons ==
  ASSUME CouponInv, UNCHANGED <<redeemed, usage>>,
         \A o \in Orders : /\ WithCoupon(o)' <=> WithCoupon(o)
                           /\ WithCoupon(o) => orders'[o].user = orders[o].user
  PROVE  CouponInv'
<1>1. CouponOrders' = CouponOrders
  BY DEF CouponOrders, WithCoupon
<1>2. \A o \in CouponOrders : o \in Orders /\ orders'[o].user = orders[o].user
  BY DEF CouponOrders, WithCoupon
<1>3. {orders'[o].user : o \in CouponOrders'} = {orders[o].user : o \in CouponOrders}
  BY <1>1, <1>2
<1>4. \A o, p \in CouponOrders' : orders'[o].user = orders'[p].user => o = p
  BY <1>1, <1>2 DEF CouponInv, CouponAccounted
<1>5. redeemed' = {orders'[o].user : o \in CouponOrders'}
  BY <1>3 DEF CouponInv, CouponAccounted
<1> QED  BY <1>4, <1>5 DEF CouponInv, CouponAccounted

LEMMA InsertCoupon ==
  ASSUME Inv, CouponInv, NEW r \in Requests, InsertOrder(r)
  PROVE  CouponInv'
<1> DEFINE new == job[r].new
<1>1. PICK o \in Orders : orders[o] = None /\ orders' = [orders EXCEPT ![o] = new]
  BY DEF InsertOrder
<1>2. new \in Order /\ new # None
  BY NoneAssumption DEF InsertOrder, Inv, JobsOK, JobOK
<1>3. orders'[o] = new /\ \A p \in Orders \ {o} : orders'[p] = orders[p]
  BY <1>1 DEF Inv, TypeOK
<1>4. CASE ~new.coupon
  <2>1. UNCHANGED <<redeemed, usage>>
    BY <1>4 DEF InsertOrder
  <2>2. \A p \in Orders : /\ WithCoupon(p)' <=> WithCoupon(p)
                          /\ WithCoupon(p) => orders'[p].user = orders[p].user
    BY <1>1, <1>2, <1>3, <1>4 DEF WithCoupon
  <2> QED  BY <2>1, <2>2, SameCoupons
<1>5. CASE new.coupon
  <2>1. /\ new.user \notin redeemed /\ redeemed' = redeemed \cup {new.user}
        /\ usage' = usage + 1
    BY <1>5 DEF InsertOrder, RecordRedemption
  <2>2. IsFiniteSet(redeemed') /\ Cardinality(redeemed') = Cardinality(redeemed) + 1
    BY <2>1, FS_AddElement DEF CouponInv
  <2>3. CouponOrders' = CouponOrders \cup {o} /\ o \notin CouponOrders
    BY <1>1, <1>2, <1>3, <1>5 DEF CouponOrders
  <2>4. \A p \in CouponOrders : p \in Orders /\ orders'[p] = orders[p] /\ orders[p].user \in redeemed
    BY <1>3, <2>3 DEF CouponOrders, CouponInv, CouponAccounted
  <2>5. redeemed' = {orders'[p].user : p \in CouponOrders'}
    BY <1>3, <2>1, <2>3, <2>4 DEF CouponInv, CouponAccounted
  <2>6. \A p, q \in CouponOrders' : orders'[p].user = orders'[q].user => p = q
    BY <1>3, <2>1, <2>3, <2>4 DEF CouponInv, CouponAccounted
  <2>7. usage' = Cardinality(redeemed')
    BY <2>1, <2>2 DEF CouponInv, CouponAccounted
  <2> QED  BY <2>2, <2>5, <2>6, <2>7 DEF CouponInv, CouponAccounted
<1> QED  BY <1>4, <1>5

LEMMA DeliverCoupon ==
  ASSUME Inv, CouponInv, NEW r \in Requests, AddDelivery(r)
  PROVE  CouponInv'
<1> DEFINE new == job[r].new
           o == job[r].order
           row == WithDelivery(new, DeliveryFee - new.shipping)
<1>1. UNCHANGED <<redeemed, usage>> /\ orders' = [orders EXCEPT ![o] = row]
  BY DEF AddDelivery
<1>2. /\ o \in Orders /\ new \in Order /\ orders[o] # None
      /\ orders[o].user = new.user /\ orders[o].coupon = new.coupon
  BY DEF AddDelivery, Inv, JobsOK, JobOK, ReadStands
<1>3. row.user = new.user /\ row.coupon = new.coupon /\ row \in Order
  <2>1. new.shipping + (DeliveryFee - new.shipping) \in Nat
        /\ new.total + (DeliveryFee - new.shipping) \in Nat
    BY <1>2, ConstantsAssumption DEF Order, AddDelivery, Inv, JobsOK, ReadStands
  <2> QED  BY <2>1, <1>2 DEF WithDelivery, Order
<1> HIDE DEF row
<1>4. orders'[o] = row /\ \A p \in Orders \ {o} : orders'[p] = orders[p]
  BY <1>1, <1>2 DEF Inv, TypeOK
<1>5. \A p \in Orders : /\ WithCoupon(p)' <=> WithCoupon(p)
                        /\ WithCoupon(p) => orders'[p].user = orders[p].user
  BY <1>2, <1>3, <1>4, NoneAssumption DEF WithCoupon
<1> QED  BY <1>1, <1>5, SameCoupons

LEMMA CouponStep == Inv /\ CouponInv /\ [Next]_vars => CouponInv'
<1> SUFFICES ASSUME Inv, CouponInv, [Next]_vars PROVE CouponInv'
  OBVIOUS
<1>1. \/ UNCHANGED <<orders, redeemed, usage>>
      \/ \E r \in Requests : InsertOrder(r) \/ AddDelivery(r)
  <2> DEFINE Quiet == UNCHANGED <<orders, redeemed, usage>>
  <2>1. ASSUME NEW r \in Requests, Step(r) PROVE Quiet \/ InsertOrder(r) \/ AddDelivery(r)
    BY <2>1 DEF Step, InsertRefused, PayFromWallet, Settle, OpenIntent, StoreReference, WriteSync
  <2>2. ASSUME NEW r \in Requests, NEW u \in Users, NEW method \in Methods,
               NEW stripe \in BOOLEAN, NEW pod \in BOOLEAN, NEW delivery \in BOOLEAN,
               NEW coupon \in BOOLEAN, Checkout(r, u, method, stripe, pod, delivery, coupon)
        PROVE  Quiet
    BY <2>2 DEF Checkout
  <2>3. ASSUME NEW r \in Requests, NEW o \in Orders, RequestDelivery(r, o) PROVE Quiet
    BY <2>3 DEF RequestDelivery
  <2>4. ASSUME NEW r \in Requests, NEW t \in Txns, SyncTransactionStatus(r, t) PROVE Quiet
    BY <2>4 DEF SyncTransactionStatus
  <2>5. ASSUME NEW r \in Requests, Fail(r) PROVE Quiet
    BY <2>5 DEF Fail
  <2>6. ASSUME NEW t \in Txns, CustomerPays(t) \/ CustomerFails(t) \/ HandleWebhook(t)
        PROVE  Quiet
    BY <2>6 DEF CustomerPays, CustomerFails, HandleWebhook
  <2>7. UNCHANGED vars => Quiet
    BY DEF vars
  <2> QED  BY <2>1, <2>2, <2>3, <2>4, <2>5, <2>6, <2>7 DEF Next
<1>2. CASE UNCHANGED <<orders, redeemed, usage>>
  BY <1>2, SameCoupons DEF WithCoupon
<1> QED  BY <1>1, <1>2, InsertCoupon, DeliverCoupon

\* A coupon's count, its redemptions and the orders that carry it agree, and no user has two
\* such orders, whatever checkouts and delivery requests overlap.
THEOREM CouponsAgree == Spec => []CouponAccounted
<1>1. Init => CouponInv
  BY FS_EmptySet DEF Init, CouponInv, CouponAccounted, CouponOrders
<1>2. CouponInv => CouponAccounted
  BY DEF CouponInv
<1> QED  BY <1>1, <1>2, Initially, StepKeeps, CouponStep, PTL DEF Spec

(***************************************************************************)
(* Payment by providers.                                                   *)
(***************************************************************************)
Completed(t) == txns[t] # None /\ txns[t].status = "COMPLETED"
Paid(t) == intents[t].state = "paid"
Paying == {"wallet", "settle"}

\* A request on its way to a payment is the first to ask a provider for it, and what it is
\* about to write or has heard is true of the rows still.
PaidJob(r) ==
  /\ pc[r] \in Paying \cup {"intent"} => intents[job[r].txn] = NoIntent
  /\ pc[r] \in Paying => txns[job[r].txn].order = job[r].order
  /\ pc[r] = "wallet" => job[r].new.total = txns[job[r].txn].amount
  /\ pc[r] = "settle" => applied[job[r].order] = txns[job[r].txn].amount
  /\ pc[r] = "sync" /\ job[r].answer = "paid" => Paid(job[r].txn)
PaidJobs == \A r \in Requests : PaidJob(r)
\* Until the wallet's part is taken, nothing completed of the order relies on it.
WalletUntouched ==
  \A r \in Requests, t \in Txns :
    /\ pc[r] = "wallet" /\ Completed(t)
    /\ txns[t].order = job[r].order /\ ByProvider(job[r].order)
    => Paid(t)
\* No two requests are on their way to one payment, or to one order's wallet part.
Apart ==
  \A r, q \in Requests : r # q =>
    /\ pc[r] \in Paying \cup {"intent"} /\ pc[q] \in Paying \cup {"intent"} =>
         job[r].txn # job[q].txn
    /\ pc[r] \in Paying /\ pc[q] \in Paying => job[r].order # job[q].order
\* Stripe tells of payments that were made.
EventsTrue ==
  \A t \in Txns : \A i \in DOMAIN events[t] : events[t][i] = "succeeded" => Paid(t)

PaidInv == PaidJobs /\ WalletUntouched /\ Apart /\ EventsTrue /\ CompletedIsPaid

LEMMA PaidInitially == Init => PaidInv
BY DEF Init, PaidInv, PaidJobs, PaidJob, WalletUntouched, Apart, EventsTrue, CompletedIsPaid,
       Completed, Paying

\* A request that starts, or ends without a change.
LEMMA PaidFrame ==
  ASSUME Inv, PaidInv, NEW r \in Requests,
         UNCHANGED <<orders, txns, applied, intents, events>>,
         \A q \in Requests \ {r} : pc'[q] = pc[q] /\ job'[q] = job[q],
         pc'[r] \in {"idle", "insert", "deliver", "sync"},
         pc'[r] = "sync" /\ job'[r].answer = "paid" => Paid(job'[r].txn)
  PROVE  PaidInv'
<1>1. PaidJobs'
  BY DEF PaidInv, PaidJobs, PaidJob, Paying, Paid
<1>2. WalletUntouched'
  BY DEF PaidInv, WalletUntouched, Completed, ByProvider, Paid
<1>3. Apart'
  BY DEF PaidInv, Apart, Paying
<1>4. EventsTrue' /\ CompletedIsPaid'
  BY DEF PaidInv, EventsTrue, Paid, CompletedIsPaid, ByProvider
<1> QED  BY <1>1, <1>2, <1>3, <1>4 DEF PaidInv

LEMMA PaidInsert ==
  ASSUME Inv, Inv', PaidInv, NEW r \in Requests, InsertOrder(r)
  PROVE  PaidInv'
<1> DEFINE new == job[r].new
<1>1. PICK o \in Orders, t \in Txns :
        /\ orders[o] = None /\ txns[t] = None
        /\ orders' = [orders EXCEPT ![o] = new]
        /\ txns' = [txns EXCEPT ![t] =
             [order |-> o, amount |-> new.total, status |-> FirstStatus(new), stored |-> FALSE]]
        /\ job' = [job EXCEPT ![r].order = o, ![r].txn = t, ![r].due = new.total]
  BY DEF InsertOrder
<1>2. /\ pc[r] = "insert" /\ pc' = [pc EXCEPT ![r] = IF new.stripe THEN "intent" ELSE "wallet"]
      /\ UNCHANGED <<wallet, applied, intents, events>>
  BY DEF InsertOrder, GoTo
<1>3. new \in Order /\ job[r] \in Job
  BY <1>2 DEF Inv, JobsOK, JobOK
<1>4. /\ job'[r].new = new /\ job'[r].order = o /\ job'[r].txn = t
      /\ \A q \in Requests \ {r} : job'[q] = job[q] /\ pc'[q] = pc[q]
      /\ pc'[r] \in {"intent", "wallet"}
  BY <1>1, <1>2, <1>3 DEF Inv, TypeOK, JobsOK, Job, Order
<1>5. orders'[o] = new /\ \A p \in Orders \ {o} : orders'[p] = orders[p]
  BY <1>1 DEF Inv, TypeOK
<1>6. /\ txns'[t].order = o /\ txns'[t].amount = new.total /\ txns'[t].status = FirstStatus(new)
      /\ txns'[t] # None
      /\ \A x \in Txns \ {t} : txns'[x] = txns[x]
  <2> DEFINE row == [order |-> o, amount |-> new.total, status |-> FirstStatus(new), stored |-> FALSE]
  <2>1. row \in Txn
    BY <1>3 DEF Txn, Order, FirstStatus
  <2>2. txns'[t] = row /\ \A x \in Txns \ {t} : txns'[x] = txns[x]
    BY <1>1 DEF Inv, TypeOK
  <2>3. /\ row.order = o /\ row.amount = new.total /\ row.status = FirstStatus(new)
    OBVIOUS
  <2> HIDE DEF row, new
  <2> QED  BY <2>1, <2>2, <2>3, NoneAssumption
<1>7. FirstStatus(new) = "COMPLETED" => ~new.stripe /\ ~(new.method = "mobile" /\ CampayEnabled)
  BY <1>3 DEF FirstStatus, CollectsNow, Order
<1>8. \A x \in Txns : txns[x] # None => x # t /\ txns[x].order # o /\ txns[x].order \in Orders
  BY <1>1 DEF Inv, RowsOK, TypeOK, Txn
<1>9. intents[t] = NoIntent /\ events[t] = <<>>
  BY <1>1 DEF Inv, RowsOK
<1>10. \A q \in Requests \ {r} :
         /\ pc[q] \in Paying => job[q].order \in Orders \ {o}
         /\ pc[q] \in Paying \cup {"intent"} => job[q].txn \in Txns \ {t}
         /\ pc[q] = "sync" => job[q].txn \in Txns \ {t}
  BY <1>1 DEF Inv, JobsOK, JobOK, Paying
<1> HIDE DEF new
<1>11. PaidJobs'
  <2>1. \A q \in Requests \ {r} : PaidJob(q)'
    BY <1>2, <1>4, <1>6, <1>10 DEF PaidInv, PaidJobs, PaidJob, Paying, Paid
  <2>2. PaidJob(r)'
    BY <1>2, <1>4, <1>6, <1>9 DEF PaidJob, Paying
  <2> QED  BY <2>1, <2>2 DEF PaidJobs
<1>12. WalletUntouched'
  <2> SUFFICES ASSUME NEW q \in Requests, NEW x \in Txns, pc'[q] = "wallet", Completed(x)',
                      txns'[x].order = job'[q].order, ByProvider(job[q].order)'
               PROVE  Paid(x)'
    BY DEF WalletUntouched
  <2>1. CASE x = t
    BY <2>1, <1>4, <1>5, <1>6, <1>7, <1>10 DEF Completed, ByProvider, Paying
  <2>2. CASE x # t /\ q = r
    BY <2>2, <1>4, <1>6, <1>8 DEF Completed
  <2>3. CASE x # t /\ q # r
    BY <2>3, <1>2, <1>4, <1>5, <1>6, <1>10 DEF PaidInv, WalletUntouched, Completed, ByProvider, Paid, Paying
  <2> QED  BY <2>1, <2>2, <2>3
<1>13. Apart'
  BY <1>4, <1>10 DEF PaidInv, Apart, Paying
<1>14. EventsTrue'
  BY <1>2 DEF PaidInv, EventsTrue, Paid
<1>15. CompletedIsPaid'
  BY <1>2, <1>5, <1>6, <1>7, <1>8 DEF PaidInv, CompletedIsPaid, ByProvider
<1> QED  BY <1>11, <1>12, <1>13, <1>14, <1>15 DEF PaidInv

LEMMA PaidPay ==
  ASSUME Inv, PaidInv, NEW r \in Requests, PayFromWallet(r)
  PROVE  PaidInv'
<1> DEFINE new == job[r].new
           o == job[r].order
<1>1. pc[r] = "wallet" /\ UNCHANGED <<orders, txns, redeemed, usage, intents, events>>
  BY DEF PayFromWallet
<1>2. PICK n \in 0..new.total :
        \/ /\ applied' = [applied EXCEPT ![o] = n]
           /\ IF n < new.total /\ ~CollectsNow(new)
              THEN Finish(r)
              ELSE /\ GoTo(r, IF n = new.total THEN "settle" ELSE "intent")
                   /\ job' = [job EXCEPT ![r].due = new.total - n]
        \/ Finish(r) /\ UNCHANGED applied
  BY DEF PayFromWallet
<1>3. o \in Orders /\ job[r] \in Job /\ job[r].txn \in Txns /\ job[r].new.total = txns[job[r].txn].amount
  BY <1>1 DEF Inv, JobsOK, JobOK, PaidInv, PaidJobs, PaidJob
<1>4. applied'[o] \in {applied[o], n} /\ \A p \in Orders \ {o} : applied'[p] = applied[p]
  BY <1>2, <1>3 DEF Inv, TypeOK
<1>5. /\ \A q \in Requests \ {r} : job'[q] = job[q] /\ pc'[q] = pc[q]
      /\ pc'[r] \in {"idle", "settle", "intent"}
      /\ pc'[r] \in {"settle", "intent"} => job'[r].order = o /\ job'[r].txn = job[r].txn
      /\ pc'[r] = "settle" => applied'[o] = new.total
  <2>1. CASE Finish(r)
    BY <2>1 DEF Finish, GoTo, Inv, TypeOK, JobsOK
  <2>2. CASE /\ applied' = [applied EXCEPT ![o] = n]
             /\ GoTo(r, IF n = new.total THEN "settle" ELSE "intent")
             /\ job' = [job EXCEPT ![r].due = new.total - n]
    BY <2>2, <1>3 DEF GoTo, Inv, TypeOK, JobsOK, Job
  <2> QED  BY <2>1, <2>2, <1>2
<1>6. \A q \in Requests \ {r} : pc[q] \in Paying => job[q].order \in Orders \ {o}
  BY <1>1 DEF PaidInv, Apart, Paying, Inv, JobsOK, JobOK
<1> HIDE DEF new, o
<1>7. PaidJobs'
  <2>1. \A q \in Requests \ {r} : PaidJob(q)'
    BY <1>1, <1>4, <1>5, <1>6 DEF PaidInv, PaidJobs, PaidJob, Paying, Paid
  <2>2. PaidJob(r)'
    BY <1>1, <1>3, <1>5 DEF PaidInv, PaidJobs, PaidJob, Paying, o, new
  <2> QED  BY <2>1, <2>2 DEF PaidJobs
<1>8. WalletUntouched'
  BY <1>1, <1>5 DEF PaidInv, WalletUntouched, Completed, ByProvider, Paid
<1>9. Apart'
  BY <1>1, <1>5 DEF PaidInv, Apart, Paying, o
<1>10. EventsTrue'
  BY <1>1 DEF PaidInv, EventsTrue, Paid
<1>11. CompletedIsPaid'
  <2> SUFFICES ASSUME NEW t \in Txns, Completed(t), ByProvider(txns[t].order)
               PROVE  Paid(t) \/ applied'[txns[t].order] = txns[t].amount
    BY <1>1 DEF CompletedIsPaid, Completed, ByProvider, Paid
  <2>1. txns[t].order \in Orders
    BY DEF Completed, Inv, TypeOK, Txn
  <2>2. CASE txns[t].order = o
    BY <2>2, <1>1 DEF PaidInv, WalletUntouched, o
  <2>3. CASE txns[t].order # o
    BY <2>1, <2>3, <1>4 DEF PaidInv, CompletedIsPaid, Completed, ByProvider, Paid
  <2> QED  BY <2>2, <2>3
<1> QED  BY <1>7, <1>8, <1>9, <1>10, <1>11 DEF PaidInv

\* A row takes a status the provider or the wallet stands for, or its reference; the
\* request that wrote it, if one did, is done.
LEMMA PaidStatus ==
  ASSUME Inv, PaidInv, NEW t \in Txns, txns[t] # None, NEW status \in PayStatuses,
         \/ txns' = [txns EXCEPT ![t].status = status]
         \/ txns' = [txns EXCEPT ![t].stored = TRUE]
         \/ UNCHANGED txns,
         \A r \in Requests : \/ pc'[r] = pc[r] /\ job'[r] = job[r]
                             \/ pc'[r] = "idle",
         UNCHANGED <<orders, applied, intents>>,
         txns'[t].status = "COMPLETED" /\ txns[t].status # "COMPLETED" =>
           \/ Paid(t)
           \/ /\ applied[txns[t].order] = txns[t].amount
              /\ \A r \in Requests : pc'[r] = "wallet" => job[r].order # txns[t].order
  PROVE  PaidJobs' /\ WalletUntouched' /\ Apart' /\ CompletedIsPaid'
<1>1. /\ \A x \in Txns : /\ txns'[x] = None <=> txns[x] = None
                         /\ txns[x] # None => /\ txns'[x].order = txns[x].order
                                              /\ txns'[x].amount = txns[x].amount
      /\ \A x \in Txns \ {t} : txns'[x] = txns[x]
  BY StatusSet
<1>2. \A x \in Txns : Completed(x)' => Completed(x) \/ (x = t /\ txns[t].status # "COMPLETED")
  BY <1>1 DEF Completed
<1>3. PaidJobs'
  <2> SUFFICES ASSUME NEW r \in Requests PROVE PaidJob(r)'
    BY DEF PaidJobs
  <2>1. CASE pc'[r] = "idle"
    BY <2>1 DEF PaidJob, Paying
  <2>2. CASE pc'[r] = pc[r] /\ job'[r] = job[r]
    <3>1. pc[r] \in {"wallet", "settle", "intent", "sync"} => job[r].txn \in Txns /\ txns[job[r].txn] # None
      BY DEF Inv, JobsOK, JobOK
    <3> QED  BY <2>2, <3>1, <1>1 DEF PaidInv, PaidJobs, PaidJob, Paying, Paid
  <2> QED  BY <2>1, <2>2
<1>4. WalletUntouched'
  BY <1>1, <1>2 DEF PaidInv, WalletUntouched, Completed, ByProvider, Paid
<1>5. Apart'
  BY DEF PaidInv, Apart, Paying
<1>6. CompletedIsPaid'
  <2> SUFFICES ASSUME NEW x \in Txns, Completed(x)', ByProvider(txns[x].order)
               PROVE  Paid(x) \/ applied[txns[x].order] = txns[x].amount
    BY <1>1 DEF CompletedIsPaid, Completed, ByProvider, Paid
  <2>1. CASE Completed(x)
    BY <2>1 DEF PaidInv, CompletedIsPaid, Completed, ByProvider, Paid
  <2>2. CASE x = t /\ txns[t].status # "COMPLETED"
    BY <2>2 DEF Completed
  <2> QED  BY <2>1, <2>2, <1>2
<1> QED  BY <1>3, <1>4, <1>5, <1>6

LEMMA PaidFinish ==
  ASSUME Inv, NEW r \in Requests, Finish(r)
  PROVE  \A q \in Requests : \/ pc'[q] = pc[q] /\ job'[q] = job[q]
                             \/ pc'[q] = "idle"
BY DEF Finish, GoTo, Inv, TypeOK, JobsOK

LEMMA PaidSettle ==
  ASSUME Inv, PaidInv, NEW r \in Requests, Settle(r)
  PROVE  PaidInv'
<1> DEFINE t == job[r].txn
<1>1. /\ pc[r] = "settle" /\ t \in Txns /\ txns[t] # None
      /\ txns[t].order = job[r].order /\ applied[job[r].order] = txns[t].amount
  BY DEF Settle, Inv, JobsOK, JobOK, PaidInv, PaidJobs, PaidJob, Paying
<1>2. /\ txns' = [txns EXCEPT ![t].status = "COMPLETED"] /\ Finish(r)
      /\ UNCHANGED <<orders, applied, intents>> /\ UNCHANGED events
  BY DEF Settle
<1>3. pc' = [pc EXCEPT ![r] = "idle"]
  BY <1>2 DEF Finish, GoTo
<1>4. \A q \in Requests : pc'[q] = "wallet" => job[q].order # txns[t].order
  BY <1>1, <1>3 DEF PaidInv, Apart, Paying, Inv, TypeOK
<1>5. "COMPLETED" \in PayStatuses
  OBVIOUS
<1> HIDE DEF t
<1>6. PaidJobs' /\ WalletUntouched' /\ Apart' /\ CompletedIsPaid'
  BY <1>1, <1>2, <1>4, <1>5, PaidStatus, PaidFinish
<1>7. EventsTrue'
  BY <1>2 DEF PaidInv, EventsTrue, Paid
<1> QED  BY <1>6, <1>7 DEF PaidInv

LEMMA PaidStore ==
  ASSUME Inv, PaidInv, NEW r \in Requests, StoreReference(r)
  PROVE  PaidInv'
<1> DEFINE t == job[r].txn
<1>1. t \in Txns /\ txns[t] # None
  BY DEF StoreReference, Inv, JobsOK, JobOK
<1>2. /\ txns' = [txns EXCEPT ![t].stored = TRUE] /\ Finish(r)
      /\ UNCHANGED <<orders, applied, intents>> /\ UNCHANGED events
  BY DEF StoreReference
<1>3. txns'[t].status = txns[t].status
  BY <1>1, <1>2 DEF Inv, TypeOK, Txn
<1>4. "PENDING" \in PayStatuses
  OBVIOUS
<1> HIDE DEF t
<1>5. PaidJobs' /\ WalletUntouched' /\ Apart' /\ CompletedIsPaid'
  BY <1>1, <1>2, <1>3, <1>4, PaidStatus, PaidFinish
<1>6. EventsTrue'
  BY <1>2 DEF PaidInv, EventsTrue, Paid
<1> QED  BY <1>5, <1>6 DEF PaidInv

LEMMA PaidSync ==
  ASSUME Inv, PaidInv, NEW r \in Requests, WriteSync(r)
  PROVE  PaidInv'
<1> DEFINE t == job[r].txn
<1>1. t \in Txns /\ txns[t] # None /\ (job[r].answer = "paid" => Paid(t))
  BY DEF WriteSync, Inv, JobsOK, JobOK, PaidInv, PaidJobs, PaidJob
<1>2. Finish(r) /\ UNCHANGED <<orders, applied, intents>> /\ UNCHANGED events
  BY DEF WriteSync
<1>3. PICK status \in PayStatuses :
        /\ txns' = [txns EXCEPT ![t].status = status] \/ UNCHANGED txns
        /\ status = "COMPLETED" => job[r].answer = "paid" \/ UNCHANGED txns
  BY DEF WriteSync, SetStatus
<1> HIDE DEF t
<1>4. txns'[t].status = "COMPLETED" /\ txns[t].status # "COMPLETED" => Paid(t)
  BY <1>1, <1>3, StatusSet
<1>5. PaidJobs' /\ WalletUntouched' /\ Apart' /\ CompletedIsPaid'
  BY <1>1, <1>2, <1>3, <1>4, PaidStatus, PaidFinish
<1>6. EventsTrue'
  BY <1>2 DEF PaidInv, EventsTrue, Paid
<1> QED  BY <1>5, <1>6 DEF PaidInv

LEMMA PaidWebhook ==
  ASSUME Inv, PaidInv, NEW t \in Txns, HandleWebhook(t)
  PROVE  PaidInv'
<1>1. UNCHANGED <<orders, applied, intents>> /\ UNCHANGED <<pc, job>>
  BY DEF HandleWebhook
<1>2. PICK i \in 1..Len(events[t]) :
        /\ SetStatus(t, IF events[t][i] = "succeeded" THEN "COMPLETED" ELSE "FAILED")
        /\ events' = [events EXCEPT ![t] = RemoveAt(@, i)]
  BY DEF HandleWebhook
<1>3. /\ events[t] \in Seq({"succeeded", "failed"}) /\ events[t] # <<>>
      /\ txns[t] # None
  BY <1>2 DEF Inv, TypeOK, RowsOK
<1>4. PICK status \in PayStatuses :
        /\ txns' = [txns EXCEPT ![t].status = status] \/ UNCHANGED txns
        /\ status = "COMPLETED" => Paid(t)
  <2>1. events[t][i] = "succeeded" => Paid(t)
    BY <1>2, <1>3 DEF PaidInv, EventsTrue
  <2> QED  BY <2>1, <1>2 DEF SetStatus
<1>5. txns'[t].status = "COMPLETED" /\ txns[t].status # "COMPLETED" => Paid(t)
  BY <1>3, <1>4, StatusSet
<1>6. PaidJobs' /\ WalletUntouched' /\ Apart' /\ CompletedIsPaid'
  BY <1>1, <1>3, <1>4, <1>5, PaidStatus
<1>7. EventsTrue'
  <2>1. \A j \in DOMAIN RemoveAt(events[t], i) : \E k \in DOMAIN events[t] :
          RemoveAt(events[t], i)[j] = events[t][k]
    BY <1>2, <1>3, RemovedKnown
  <2>2. events'[t] = RemoveAt(events[t], i) /\ \A x \in Txns \ {t} : events'[x] = events[x]
    BY <1>2 DEF Inv, TypeOK
  <2> QED  BY <2>1, <2>2, <1>1 DEF PaidInv, EventsTrue, Paid
<1> QED  BY <1>6, <1>7 DEF PaidInv

LEMMA PaidOpen ==
  ASSUME Inv, PaidInv, NEW r \in Requests, OpenIntent(r)
  PROVE  PaidInv'
<1> DEFINE t == job[r].txn
<1>1. /\ pc[r] = "intent" /\ pc' = [pc EXCEPT ![r] = "store"]
      /\ intents' = [intents EXCEPT ![t] = [state |-> "open", amount |-> job[r].due]]
      /\ UNCHANGED <<orders, txns, wallet, applied, redeemed, usage, events, job>>
  BY DEF OpenIntent, GoTo
<1>2. t \in Txns /\ intents[t] = NoIntent /\ ~Paid(t)
  BY <1>1 DEF Inv, JobsOK, JobOK, PaidInv, PaidJobs, PaidJob, Paying, Paid, NoIntent
<1>3. \A x \in Txns \ {t} : intents'[x] = intents[x]
  BY <1>1 DEF Inv, TypeOK
<1>4. \A q \in Requests \ {r} : /\ pc'[q] = pc[q]
                                /\ pc[q] \in Paying \cup {"intent"} => job[q].txn \in Txns \ {t}
                                /\ pc[q] = "sync" => job[q].txn \in Txns
  BY <1>1 DEF PaidInv, Apart, Paying, Inv, TypeOK, JobsOK, JobOK
<1>5. pc'[r] = "store"
  BY <1>1 DEF Inv, TypeOK
<1> HIDE DEF t
<1>6. PaidJobs'
  <2>1. \A q \in Requests \ {r} : PaidJob(q)'
    BY <1>1, <1>2, <1>3, <1>4 DEF PaidInv, PaidJobs, PaidJob, Paying, Paid
  <2>2. PaidJob(r)'
    BY <1>5 DEF PaidJob, Paying
  <2> QED  BY <2>1, <2>2 DEF PaidJobs
<1>7. \A x \in Txns : Paid(x) => Paid(x)'
  BY <1>2, <1>3 DEF Paid
<1>8. WalletUntouched'
  BY <1>1, <1>4, <1>5, <1>7 DEF PaidInv, WalletUntouched, Completed, ByProvider
<1>9. Apart'
  BY <1>1, <1>4, <1>5 DEF PaidInv, Apart, Paying
<1>10. EventsTrue'
  BY <1>1, <1>7 DEF PaidInv, EventsTrue
<1>11. CompletedIsPaid'
  BY <1>1, <1>7 DEF PaidInv, CompletedIsPaid, ByProvider, Paid
<1> QED  BY <1>6, <1>8, <1>9, <1>10, <1>11 DEF PaidInv

LEMMA PaidProvider ==
  ASSUME Inv, PaidInv, NEW t \in Txns, CustomerPays(t) \/ CustomerFails(t)
  PROVE  PaidInv'
<1>1. UNCHANGED <<orders, txns, wallet, applied, redeemed, usage, pc, job>>
  BY DEF CustomerPays, CustomerFails
<1>2. /\ intents[t].state = "open" /\ intents[t] \in Intent
      /\ events[t] \in Seq({"succeeded", "failed"})
  BY DEF CustomerPays, CustomerFails, Inv, TypeOK, NoIntent
<1>3. PICK state \in {"paid", "failed"}, kind \in {"succeeded", "failed"} :
        /\ intents' = [intents EXCEPT ![t].state = state] \/ UNCHANGED intents
        /\ events' = [events EXCEPT ![t] = Append(@, kind)] \/ UNCHANGED events
        /\ kind = "succeeded" => state = "paid" /\ intents' = [intents EXCEPT ![t].state = state]
  BY DEF CustomerPays, CustomerFails, Tell
<1>4. /\ \A x \in Txns \ {t} : intents'[x] = intents[x] /\ events'[x] = events[x]
      /\ intents'[t].state \in {state, "open"}
      /\ intents' = [intents EXCEPT ![t].state = state] => intents'[t].state = state
  BY <1>2, <1>3 DEF Inv, TypeOK, Intent
<1>5. \A x \in Txns : Paid(x) => Paid(x)'
  BY <1>2, <1>4 DEF Paid
<1>6. \A x \in Txns : intents[x] = NoIntent => intents'[x] = NoIntent
  BY <1>2, <1>4 DEF NoIntent
<1>7. PaidJobs'
  <2> SUFFICES ASSUME NEW r \in Requests PROVE PaidJob(r)'
    BY DEF PaidJobs
  <2>1. pc[r] \in {"wallet", "settle", "intent", "sync"} => job[r].txn \in Txns
    BY DEF Inv, JobsOK, JobOK
  <2> QED  BY <2>1, <1>1, <1>5, <1>6 DEF PaidInv, PaidJobs, PaidJob, Paying
<1>8. WalletUntouched'
  BY <1>1, <1>5 DEF PaidInv, WalletUntouched, Completed, ByProvider
<1>9. Apart'
  BY <1>1 DEF PaidInv, Apart
<1>10. EventsTrue'
  <2> SUFFICES ASSUME NEW x \in Txns, NEW i \in DOMAIN events'[x], events'[x][i] = "succeeded"
               PROVE  Paid(x)'
    BY DEF EventsTrue
  <2>1. CASE events'[x] = events[x]
    BY <2>1, <1>5 DEF PaidInv, EventsTrue
  <2>2. CASE x = t /\ events'[t] = Append(events[t], kind)
    <3>1. CASE i \in DOMAIN events[t]
      <4>1. events[t][i] = "succeeded"
        BY <2>2, <3>1, <1>2
      <4> QED  BY <4>1, <3>1, <2>2, <1>5 DEF PaidInv, EventsTrue
    <3>2. CASE i \notin DOMAIN events[t]
      <4>1. kind = "succeeded"
        BY <2>2, <3>2, <1>2
      <4> QED  BY <4>1, <2>2, <1>3, <1>4 DEF Paid
    <3> QED  BY <3>1, <3>2
  <2> QED  BY <2>1, <2>2, <1>3, <1>4 DEF Inv, TypeOK
<1>11. CompletedIsPaid'
  BY <1>1, <1>5 DEF PaidInv, CompletedIsPaid, ByProvider, Paid
<1> QED  BY <1>7, <1>8, <1>9, <1>10, <1>11 DEF PaidInv

LEMMA PaidDeliver ==
  ASSUME Inv, PaidInv, NEW r \in Requests, AddDelivery(r)
  PROVE  PaidInv'
<1> DEFINE o == job[r].order
           fee == DeliveryFee - job[r].new.shipping
           row == WithDelivery(job[r].new, fee)
           txn == [order |-> o, amount |-> fee, status |-> "PENDING", stored |-> FALSE]
<1>1. PICK t \in Txns :
        /\ txns[t] = None
        /\ txns' = [txns EXCEPT ![t] = txn]
        /\ IF job[r].new.method = "mobile" /\ CampayEnabled
           THEN GoTo(r, "intent") /\ job' = [job EXCEPT ![r].txn = t, ![r].due = fee]
           ELSE Finish(r)
  BY DEF AddDelivery
<1>2. /\ pc[r] = "deliver" /\ orders' = [orders EXCEPT ![o] = row]
      /\ UNCHANGED <<wallet, applied, redeemed, usage, intents, events>>
  BY DEF AddDelivery
<1>3. /\ o \in Orders /\ job[r].new \in Order /\ job[r] \in Job
      /\ job[r].new.method = orders[o].method /\ job[r].new.stripe = orders[o].stripe
  BY <1>2 DEF Inv, JobsOK, JobOK, ReadStands
<1>4. row.method = orders[o].method /\ row.stripe = orders[o].stripe
  BY <1>3 DEF WithDelivery, Order
<1>5. /\ pc'[r] \in {"intent", "idle"} /\ (pc'[r] = "intent" => job'[r].txn = t)
      /\ \A q \in Requests \ {r} : job'[q] = job[q] /\ pc'[q] = pc[q]
  <2>1. CASE GoTo(r, "intent") /\ job' = [job EXCEPT ![r].txn = t, ![r].due = fee]
    <3> HIDE DEF fee
    <3> QED  BY <2>1, <1>3 DEF GoTo, Inv, TypeOK, JobsOK, Job
  <2>2. CASE Finish(r)
    BY <2>2 DEF Finish, GoTo, Inv, TypeOK, JobsOK
  <2> QED  BY <2>1, <2>2, <1>1
<1>6. txns'[t].status = "PENDING" /\ \A x \in Txns \ {t} : txns'[x] = txns[x]
  BY <1>1 DEF Inv, TypeOK
<1> HIDE DEF o, fee, row, txn
<1>7. \A p \in Orders : orders'[p].method = orders[p].method /\ orders'[p].stripe = orders[p].stripe
  BY <1>2, <1>3, <1>4 DEF Inv, TypeOK
<1>8. \A x \in Txns : Completed(x)' => /\ x # t /\ Completed(x) /\ txns'[x] = txns[x]
                                       /\ txns[x].order \in Orders
  BY <1>6 DEF Completed, Inv, TypeOK, Txn
<1>9. intents[t] = NoIntent
  BY <1>1 DEF Inv, RowsOK
<1>10. \A q \in Requests \ {r} :
         /\ pc[q] \in Paying \cup {"intent", "sync"} => job[q].txn \in Txns \ {t}
         /\ pc[q] = "wallet" => job[q].order \in Orders
  BY <1>1 DEF Inv, JobsOK, JobOK, Paying
<1>11. PaidJobs'
  <2>1. \A q \in Requests \ {r} : PaidJob(q)'
    BY <1>2, <1>5, <1>6, <1>10 DEF PaidInv, PaidJobs, PaidJob, Paying, Paid
  <2>2. PaidJob(r)'
    BY <1>2, <1>5, <1>9 DEF PaidJob, Paying
  <2> QED  BY <2>1, <2>2 DEF PaidJobs
<1>12. WalletUntouched'
  BY <1>2, <1>5, <1>7, <1>8, <1>10 DEF PaidInv, WalletUntouched, ByProvider, Paid
<1>13. Apart'
  BY <1>5, <1>10 DEF PaidInv, Apart, Paying
<1>14. EventsTrue'
  BY <1>2 DEF PaidInv, EventsTrue, Paid
<1>15. CompletedIsPaid'
  BY <1>2, <1>7, <1>8 DEF PaidInv, CompletedIsPaid, ByProvider, Completed
<1> QED  BY <1>11, <1>12, <1>13, <1>14, <1>15 DEF PaidInv

LEMMA PaidStart ==
  ASSUME Inv, PaidInv, NEW r \in Requests,
         \/ \E u \in Users, method \in Methods, stripe, pod, delivery, coupon \in BOOLEAN :
              Checkout(r, u, method, stripe, pod, delivery, coupon)
         \/ \E o \in Orders : RequestDelivery(r, o)
         \/ \E t \in Txns : SyncTransactionStatus(r, t)
         \/ InsertRefused(r) \/ Fail(r)
  PROVE  PaidInv'
<1>1. UNCHANGED <<orders, txns, applied, intents, events>>
  BY DEF Checkout, RequestDelivery, SyncTransactionStatus, InsertRefused, Fail
<1>2. \/ Finish(r)
      \/ \E label \in {"insert", "deliver"}, j \in {job'[r]} : GoTo(r, label) /\ job' = [job EXCEPT ![r] = j]
      \/ \E t \in Txns : Start(r, "sync", [NoJob EXCEPT !.txn = t, !.answer = intents[t].state])
  <2>1. ASSUME NEW label \in {"insert", "deliver"}, NEW j, Start(r, label, j)
        PROVE  \E i \in {job'[r]} : GoTo(r, label) /\ job' = [job EXCEPT ![r] = i]
    BY <2>1 DEF Start, Inv, JobsOK
  <2> QED  BY <2>1 DEF Checkout, RequestDelivery, SyncTransactionStatus, InsertRefused, Fail
<1>3. /\ \A q \in Requests \ {r} : pc'[q] = pc[q] /\ job'[q] = job[q]
      /\ pc'[r] \in {"idle", "insert", "deliver", "sync"}
      /\ pc'[r] = "sync" /\ job'[r].answer = "paid" => Paid(job'[r].txn)
  <2>1. CASE Finish(r)
    BY <2>1 DEF Finish, GoTo, Inv, TypeOK, JobsOK
  <2>2. ASSUME NEW label \in {"insert", "deliver"}, NEW j, GoTo(r, label), job' = [job EXCEPT ![r] = j]
        PROVE  pc'[r] = label /\ \A q \in Requests \ {r} : pc'[q] = pc[q] /\ job'[q] = job[q]
    BY <2>2 DEF GoTo, Inv, TypeOK, JobsOK
  <2>3. ASSUME NEW t \in Txns, Start(r, "sync", [NoJob EXCEPT !.txn = t, !.answer = intents[t].state])
        PROVE  /\ \A q \in Requests \ {r} : pc'[q] = pc[q] /\ job'[q] = job[q]
               /\ pc'[r] = "sync" /\ job'[r].txn = t /\ job'[r].answer = intents[t].state
    BY <2>3 DEF Start, GoTo, Inv, TypeOK, JobsOK, NoJob
  <2> QED  BY <2>1, <2>2, <2>3, <1>2 DEF Paid
<1> QED  BY <1>1, <1>3, PaidFrame

LEMMA PaidStep == Inv /\ Inv' /\ PaidInv /\ [Next]_vars => PaidInv'
<1> SUFFICES ASSUME Inv, Inv', PaidInv, [Next]_vars PROVE PaidInv'
  OBVIOUS
<1>1. CASE UNCHANGED vars
  BY <1>1 DEF vars, PaidInv, PaidJobs, PaidJob, WalletUntouched, Apart, EventsTrue, CompletedIsPaid,
              Completed, ByProvider, Paid
<1>2. ASSUME NEW r \in Requests, Step(r) PROVE PaidInv'
  BY <1>2, PaidInsert, PaidStart, PaidPay, PaidSettle, PaidOpen, PaidStore, PaidSync, PaidDeliver
     DEF Step
<1>3. ASSUME NEW t \in Txns, CustomerPays(t) \/ CustomerFails(t) \/ HandleWebhook(t)
      PROVE  PaidInv'
  BY <1>3, PaidProvider, PaidWebhook
<1>4. ASSUME NEW r \in Requests,
             \/ \E u \in Users, method \in Methods, stripe, pod, delivery, coupon \in BOOLEAN :
                  Checkout(r, u, method, stripe, pod, delivery, coupon)
             \/ \E o \in Orders : RequestDelivery(r, o)
             \/ \E t \in Txns : SyncTransactionStatus(r, t)
             \/ Fail(r)
      PROVE  PaidInv'
  BY <1>4, PaidStart
<1> QED  BY <1>1, <1>2, <1>3, <1>4 DEF Next

\* The payment of an order ordered through stripe.service, or of mobile money with CamPay on, is
\* marked completed only when the provider was paid or the wallet covered all of it, whatever
\* requests and events overlap, die or come late.
THEOREM CompletedPaid == Spec => []CompletedIsPaid
<1>1. Inv /\ PaidInv /\ [Next]_vars => (Inv /\ PaidInv)'
  BY StepKeeps, PaidStep
<1>2. PaidInv => CompletedIsPaid
  BY DEF PaidInv
<1> QED  BY <1>1, <1>2, Initially, PaidInitially, PTL DEF Spec

(***************************************************************************)
(* What customers are asked for.                                           *)
(***************************************************************************)
PaymentsOf(rows, o) == {t \in Txns : rows[t] # None /\ rows[t].order = o}
Asking == {"wallet", "intent"}
\* No two delivery requests for one order are between what they read and what they write.
DeliveriesApart ==
  \A q, r \in Requests :
    pc[q] = "deliver" /\ pc[r] = "deliver" /\ job[q].order = job[r].order => q = r

\* What each payment was asked for, or will be by the request that makes it, adds up with
\* the wallet's part to the order's total at most, and to nothing for an order not there.
Claims(claim) ==
  /\ \A t \in Txns : intents[t] # NoIntent => intents[t].amount = claim[t]
  /\ \A r \in Requests : pc[r] \in Asking =>
       job[r].due = claim[job[r].txn] /\ intents[job[r].txn] = NoIntent
  /\ \A o \in Orders :
       IF orders[o] = None THEN applied[o] = 0
       ELSE applied[o] + SumFunctionOnSet(claim, PaymentsOf(txns, o)) <= orders[o].total
\* Before the wallet's part all of the payment is due; who rewrites an order read it as it is.
OverJob(r) ==
  /\ pc[r] = "wallet" => /\ txns[job[r].txn].order = job[r].order
                         /\ job[r].due = job[r].new.total /\ applied[job[r].order] = 0
  /\ pc[r] = "deliver" => job[r].new = orders[job[r].order]
\* No two requests ask for one payment, or take one order's wallet part.
AskApart ==
  \A q, r \in Requests : q # r =>
    /\ pc[q] \in Asking /\ pc[r] \in Asking => job[q].txn # job[r].txn
    /\ pc[q] = "wallet" /\ pc[r] = "wallet" => job[q].order # job[r].order
OverInv ==
  /\ \E claim \in [Txns -> Nat] : Claims(claim)
  /\ AskApart /\ \A r \in Requests : OverJob(r)

LEMMA PaymentsFinite == \A rows, o : PaymentsOf(rows, o) \subseteq Txns /\ IsFiniteSet(PaymentsOf(rows, o))
BY ConstantsAssumption, FS_Subset DEF PaymentsOf

LEMMA ClaimedTyped ==
  ASSUME NEW claim \in [Txns -> Nat], NEW rows, NEW o
  PROVE  SumFunctionOnSet(claim, PaymentsOf(rows, o)) \in Nat
<1>1. \A t \in PaymentsOf(rows, o) : claim[t] \in Nat
  BY PaymentsFinite
<1> QED  BY <1>1, PaymentsFinite, SumIsNat

\* A payment that is new is claimed.
LEMMA ClaimNew ==
  ASSUME NEW claim \in [Txns -> Nat], NEW t \in Txns, txns[t] = None, txns'[t] # None,
         NEW g \in [Txns -> Nat],
         \A x \in Txns \ {t} : txns'[x] = txns[x] /\ g[x] = claim[x], NEW o
  PROVE  SumFunctionOnSet(g, PaymentsOf(txns', o))
           = SumFunctionOnSet(claim, PaymentsOf(txns, o)) + (IF txns'[t].order = o THEN g[t] ELSE 0)
<1> DEFINE S == PaymentsOf(txns, o)
<1>1. PaymentsOf(txns', o) = IF txns'[t].order = o THEN S \cup {t} ELSE S
  BY DEF PaymentsOf
<1>2. S \subseteq Txns /\ IsFiniteSet(S) /\ t \notin S
  BY PaymentsFinite DEF PaymentsOf
<1>3. \A x \in S : claim[x] = g[x]
  BY <1>2
<1>4. SumFunctionOnSet(claim, S) = SumFunctionOnSet(g, S) /\ SumFunctionOnSet(claim, S) \in Nat
  <2> HIDE DEF S
  <2>1. SumFunctionOnSet(claim, S) = SumFunctionOnSet(g, S)
    BY <1>2, <1>3, SumSame
  <2> QED  BY <2>1, ClaimedTyped DEF S
<1>5. SumFunctionOnSet(g, S \cup {t}) = SumFunctionOnSet(g, S) + g[t]
  <2> HIDE DEF S
  <2>1. \A x \in S \cup {t} : g[x] \in Int
    BY <1>2, <1>3
  <2> QED  BY <1>2, <2>1, SumAdd
<1> HIDE DEF S
<1> QED  BY <1>1, <1>4, <1>5 DEF S

\* The wallet's part is taken off a claim.
LEMMA ClaimLess ==
  ASSUME NEW claim \in [Txns -> Nat], NEW t \in Txns, txns[t] # None,
         NEW g \in [Txns -> Nat], \A x \in Txns \ {t} : g[x] = claim[x], NEW o
  PROVE  SumFunctionOnSet(g, PaymentsOf(txns, o))
           = SumFunctionOnSet(claim, PaymentsOf(txns, o))
               + (IF txns[t].order = o THEN g[t] - claim[t] ELSE 0)
<1> DEFINE S == PaymentsOf(txns, o)
<1>1. S \subseteq Txns /\ IsFiniteSet(S) /\ (t \in S <=> txns[t].order = o)
  BY PaymentsFinite DEF PaymentsOf
<1>2. \A x \in S : claim[x] \in Int /\ g[x] \in Int
  BY <1>1
<1>3. SumFunctionOnSet(claim, S) \in Nat /\ claim[t] \in Nat /\ g[t] \in Nat
  BY ClaimedTyped
<1> HIDE DEF S
<1>4. CASE t \in S
  <2>1. SumFunctionOnSet(g, S) = SumFunctionOnSet(claim, S) - claim[t] + g[t]
    BY <1>1, <1>2, <1>4, SumChange
  <2> QED  BY <1>1, <1>2, <1>3, <1>4, <2>1 DEF S
<1>5. CASE t \notin S
  <2>1. SumFunctionOnSet(g, S) = SumFunctionOnSet(claim, S)
    BY <1>1, <1>2, <1>5, SumSame
  <2> QED  BY <1>1, <1>3, <1>5, <2>1 DEF S
<1> QED  BY <1>4, <1>5

LEMMA OverFrame ==
  ASSUME Inv, OverInv, UNCHANGED <<orders, applied>>,
         \A t \in Txns : /\ intents'[t].amount = intents[t].amount
                         /\ intents[t] = NoIntent => intents'[t] = NoIntent
                         /\ txns'[t] = None <=> txns[t] = None
                         /\ txns[t] # None => txns'[t].order = txns[t].order,
         \A r \in Requests : \/ pc'[r] \in {"idle", "insert", "sync"}
                             \/ pc'[r] = pc[r] /\ job'[r] = job[r]
                             \/ pc'[r] = "deliver" /\ job'[r].new = orders[job'[r].order]
  PROVE  OverInv'
<1>1. PICK claim \in [Txns -> Nat] : Claims(claim)
  BY DEF OverInv
<1>2. \A o : PaymentsOf(txns, o)' = PaymentsOf(txns, o)
  BY DEF PaymentsOf
<1>3. \A r \in Requests : pc[r] \in Asking => job[r].txn \in Txns /\ txns[job[r].txn] # None
  BY DEF Inv, JobsOK, JobOK, Asking
<1>4. \A r \in Requests : pc'[r] \in Asking => pc'[r] = pc[r] /\ job'[r] = job[r]
  BY DEF Asking
<1>5. Claims(claim)'
  <2>1. \A t \in Txns : intents'[t] # NoIntent => intents'[t].amount = claim[t]
    BY <1>1 DEF Claims
  <2>2. \A r \in Requests : pc'[r] \in Asking =>
          job'[r].due = claim[job'[r].txn] /\ intents'[job'[r].txn] = NoIntent
    BY <1>1, <1>3, <1>4 DEF Claims
  <2>3. \A o \in Orders :
          IF orders'[o] = None THEN applied'[o] = 0
          ELSE applied'[o] + SumFunctionOnSet(claim, PaymentsOf(txns, o)') <= orders'[o].total
    BY <1>1, <1>2 DEF Claims
  <2> QED  BY <2>1, <2>2, <2>3 DEF Claims
<1>6. AskApart'
  BY <1>4 DEF OverInv, AskApart, Asking
<1>7. ASSUME NEW r \in Requests  PROVE OverJob(r)'
  <2>1. CASE pc'[r] = pc[r] /\ job'[r] = job[r]
    BY <1>3, <2>1 DEF OverInv, OverJob, Asking
  <2>2. CASE ~(pc'[r] = pc[r] /\ job'[r] = job[r])
    BY <2>2 DEF OverJob
  <2> QED  BY <2>1, <2>2
<1> QED  BY <1>1, <1>5, <1>6, <1>7 DEF OverInv

\* Rows take a status or a reference, customers pay, requests begin, end and fail.
LEMMA OverQuiet ==
  ASSUME Inv, OverInv,
         \/ \E r \in Requests :
              \/ \E u \in Users, method \in Methods, stripe, pod, delivery, coupon \in BOOLEAN :
                   Checkout(r, u, method, stripe, pod, delivery, coupon)
              \/ \E o \in Orders : RequestDelivery(r, o)
              \/ \E t \in Txns : SyncTransactionStatus(r, t)
              \/ InsertRefused(r) \/ Settle(r) \/ StoreReference(r) \/ WriteSync(r) \/ Fail(r)
         \/ \E t \in Txns : CustomerPays(t) \/ CustomerFails(t) \/ HandleWebhook(t)
         \/ UNCHANGED vars
  PROVE  OverInv'
<1>1. UNCHANGED <<orders, applied>>
  BY DEF Checkout, RequestDelivery, SyncTransactionStatus, InsertRefused, Settle, StoreReference,
    WriteSync, Fail, CustomerPays, CustomerFails, HandleWebhook, vars
<1>2. \A t \in Txns : /\ intents'[t].amount = intents[t].amount
                      /\ intents[t] = NoIntent => intents'[t] = NoIntent
  <2>1. ASSUME NEW t \in Txns, CustomerPays(t) \/ CustomerFails(t), NEW x \in Txns
        PROVE  /\ intents'[x].amount = intents[x].amount
               /\ intents[x] = NoIntent => intents'[x] = NoIntent
    <3>1. intents[t].state = "open" /\ intents[t] \in Intent /\ intents[t] # NoIntent
      BY <2>1 DEF CustomerPays, CustomerFails, Inv, TypeOK, NoIntent
    <3>2. PICK state \in {"paid", "failed"} :
            UNCHANGED intents \/ intents' = [intents EXCEPT ![t].state = state]
      BY <2>1 DEF CustomerPays, CustomerFails
    <3>3. PICK ask : ask = [intents[t] EXCEPT !.state = state]
      OBVIOUS
    <3>4. ask.amount = intents[t].amount
      BY <3>1, <3>3 DEF Intent
    <3>5. UNCHANGED intents \/ intents' = [intents EXCEPT ![t] = ask]
      BY <3>2, <3>3
    <3> QED  BY <3>1, <3>4, <3>5 DEF Inv, TypeOK
  <2>2. (\A t \in Txns : ~CustomerPays(t) /\ ~CustomerFails(t)) => UNCHANGED intents
    BY DEF Checkout, RequestDelivery, SyncTransactionStatus, InsertRefused, Settle, StoreReference,
      WriteSync, Fail, HandleWebhook, vars
  <2> QED  BY <2>1, <2>2
<1>3. \A t \in Txns : /\ txns'[t] = None <=> txns[t] = None
                      /\ txns[t] # None => txns'[t].order = txns[t].order
  <2>1. ASSUME NEW r \in Requests, Settle(r) \/ StoreReference(r) \/ WriteSync(r)
        PROVE  \E t \in Txns, status \in PayStatuses :
                 /\ txns[t] # None
                 /\ \/ txns' = [txns EXCEPT ![t].status = status]
                    \/ txns' = [txns EXCEPT ![t].stored = TRUE]
                    \/ UNCHANGED txns
    <3>1. job[r].txn \in Txns /\ txns[job[r].txn] # None
      BY <2>1 DEF Settle, StoreReference, WriteSync, Inv, JobsOK, JobOK
    <3>2. \E status \in PayStatuses :
            \/ txns' = [txns EXCEPT ![job[r].txn].status = status]
            \/ txns' = [txns EXCEPT ![job[r].txn].stored = TRUE]
            \/ UNCHANGED txns
      BY <2>1 DEF Settle, StoreReference, WriteSync, SetStatus
    <3> QED  BY <3>1, <3>2
  <2>2. ASSUME NEW t \in Txns, HandleWebhook(t)
        PROVE  /\ txns[t] # None
               /\ \E status \in PayStatuses :
                    txns' = [txns EXCEPT ![t].status = status] \/ UNCHANGED txns
    <3>1. PICK i \in 1..Len(events[t]), status \in PayStatuses : SetStatus(t, status)
      BY <2>2 DEF HandleWebhook
    <3>2. events[t] \in Seq({"succeeded", "failed"}) /\ events[t] # <<>>
      BY <3>1 DEF Inv, TypeOK
    <3> QED  BY <3>1, <3>2 DEF SetStatus, Inv, RowsOK
  <2>3. CASE UNCHANGED txns
    BY <2>3
  <2>4. CASE ~UNCHANGED txns
    <3>1. (\E r \in Requests : Settle(r) \/ StoreReference(r) \/ WriteSync(r))
          \/ \E t \in Txns : HandleWebhook(t)
      BY <2>4 DEF Checkout, RequestDelivery, SyncTransactionStatus, InsertRefused, Fail,
        CustomerPays, CustomerFails, vars
    <3> QED  BY <2>1, <2>2, <3>1, StatusSet
  <2> QED  BY <2>3, <2>4
<1>4. \A r \in Requests : \/ pc'[r] \in {"idle", "insert", "sync"}
                          \/ pc'[r] = pc[r] /\ job'[r] = job[r]
                          \/ pc'[r] = "deliver" /\ job'[r].new = orders[job'[r].order]
  <2> TAKE q \in Requests
  <2>1. ASSUME NEW r \in Requests, NEW label \in {"insert", "sync"}, NEW j, Start(r, label, j)
        PROVE  \/ pc'[q] \in {"insert", "sync"}
               \/ pc'[q] = pc[q] /\ job'[q] = job[q]
    <3>1. pc' = [pc EXCEPT ![r] = label] /\ job' = [job EXCEPT ![r] = j]
      BY <2>1 DEF Start, GoTo
    <3>2. DOMAIN pc = Requests /\ DOMAIN job = Requests
      BY DEF Inv, TypeOK, JobsOK
    <3> QED  BY <3>1, <3>2
  <2>2. ASSUME NEW r \in Requests, NEW o \in Orders, RequestDelivery(r, o)
        PROVE  \/ pc'[q] = pc[q] /\ job'[q] = job[q]
               \/ pc'[q] = "deliver" /\ job'[q].new = orders[job'[q].order]
    BY <2>2 DEF RequestDelivery, Start, GoTo, Inv, TypeOK, JobsOK, NoJob
  <2>3. ASSUME NEW r \in Requests, Finish(r)
        PROVE  \/ pc'[q] = "idle"
               \/ pc'[q] = pc[q] /\ job'[q] = job[q]
    BY <2>3, PaidFinish
  <2> QED  BY <2>1, <2>2, <2>3 DEF Checkout, SyncTransactionStatus, InsertRefused, Settle,
             StoreReference, WriteSync, Fail, CustomerPays, CustomerFails, HandleWebhook, vars
<1> QED  BY <1>1, <1>2, <1>3, <1>4, OverFrame

\* Another request keeps its place, and what it knows of its order and payment.
LEMMA OthersOver ==
  ASSUME Inv, OverInv, NEW r \in Requests, NEW q \in Requests, q # r,
         pc'[q] = pc[q], job'[q] = job[q],
         \A t \in Txns : txns[t] # None => txns'[t] = txns[t],
         pc[q] = "wallet" => applied'[job[q].order] = applied[job[q].order],
         pc[q] = "deliver" => orders'[job[q].order] = orders[job[q].order]
  PROVE  OverJob(q)'
<1>1. pc[q] = "wallet" => job[q].txn \in Txns /\ txns[job[q].txn] # None
  BY DEF Inv, JobsOK, JobOK
<1> QED  BY <1>1 DEF OverInv, OverJob

LEMMA OverInsert ==
  ASSUME Inv, OverInv, NEW r \in Requests, InsertOrder(r)
  PROVE  OverInv'
<1>1. PICK new : new = job[r].new
  OBVIOUS
<1>2. PICK o \in Orders, t \in Txns :
        /\ orders[o] = None /\ txns[t] = None
        /\ orders' = [orders EXCEPT ![o] = new]
        /\ txns' = [txns EXCEPT ![t] =
             [order |-> o, amount |-> new.total, status |-> FirstStatus(new), stored |-> FALSE]]
        /\ job' = [job EXCEPT ![r].order = o, ![r].txn = t, ![r].due = new.total]
  BY <1>1 DEF InsertOrder
<1>3. /\ pc[r] = "insert" /\ UNCHANGED <<applied, intents>>
      /\ pc' = [pc EXCEPT ![r] = IF new.stripe THEN "intent" ELSE "wallet"]
  BY <1>1 DEF InsertOrder, GoTo
<1>4. new \in Order /\ new # None /\ new.total \in Nat /\ job[r] \in Job
  BY <1>1, <1>3, NoneAssumption DEF Inv, JobsOK, JobOK, Order
<1>5. job'[r].new = new /\ job'[r].order = o /\ job'[r].txn = t /\ job'[r].due = new.total
  BY <1>1, <1>2, <1>4 DEF Inv, JobsOK, Job
<1>6. pc'[r] \in {"intent", "wallet"} /\ \A q \in Requests \ {r} : pc'[q] = pc[q] /\ job'[q] = job[q]
  BY <1>2, <1>3 DEF Inv, TypeOK, JobsOK
<1>7. PICK row : row = [order |-> o, amount |-> new.total, status |-> FirstStatus(new), stored |-> FALSE]
  OBVIOUS
<1>8. row.order = o /\ row # None
  <2>1. FirstStatus(new) \in PayStatuses
    BY DEF FirstStatus
  <2>2. row \in Txn
    BY <1>4, <1>7, <2>1 DEF Txn
  <2> QED  BY <1>7, <2>2, NoneAssumption
<1>9. txns'[t] = row /\ intents[t] = NoIntent /\ \A x \in Txns \ {t} : txns'[x] = txns[x]
  BY <1>2, <1>7 DEF Inv, TypeOK, RowsOK
<1>10. orders'[o] = new /\ \A p \in Orders \ {o} : orders'[p] = orders[p]
  BY <1>2 DEF Inv, TypeOK
<1>11. \A q \in Requests : pc[q] \in Asking => job[q].txn \in Txns \ {t}
  BY <1>2 DEF Inv, JobsOK, JobOK, Asking
<1>12. \A q \in Requests : pc[q] \in {"wallet", "deliver"} => job[q].order \in Orders \ {o}
  BY <1>2 DEF Inv, JobsOK, JobOK
<1>13. PICK claim \in [Txns -> Nat] : Claims(claim)
  BY DEF OverInv
<1>14. PICK claimed \in [Txns -> Nat] : claimed = [claim EXCEPT ![t] = new.total]
  BY <1>4
<1>15. claimed[t] = new.total /\ \A x \in Txns \ {t} : claimed[x] = claim[x]
  BY <1>14
<1>16. \A p : SumFunctionOnSet(claimed, PaymentsOf(txns', p))
                = SumFunctionOnSet(claim, PaymentsOf(txns, p)) + (IF p = o THEN new.total ELSE 0)
  <2> TAKE p
  <2>1. SumFunctionOnSet(claimed, PaymentsOf(txns', p))
          = SumFunctionOnSet(claim, PaymentsOf(txns, p)) + (IF txns'[t].order = p THEN claimed[t] ELSE 0)
    <3>1. \A x \in Txns \ {t} : txns'[x] = txns[x] /\ claimed[x] = claim[x]
      BY <1>9, <1>15
    <3>2. txns[t] = None /\ txns'[t] # None
      BY <1>2, <1>8, <1>9
    <3> QED  BY <3>1, <3>2, ClaimNew
  <2> QED  BY <1>8, <1>9, <1>15, <2>1
<1>17. SumFunctionOnSet(claim, PaymentsOf(txns, o)) = 0 /\ applied[o] = 0
  <2>1. PaymentsOf(txns, o) = {}
    BY <1>2 DEF PaymentsOf, Inv, RowsOK
  <2> QED  BY <1>2, <1>13, <2>1, SumEmpty DEF Claims
<1>18. Claims(claimed)'
  <2>1. \A x \in Txns : intents'[x] # NoIntent => intents'[x].amount = claimed[x]
    BY <1>3, <1>9, <1>13, <1>15 DEF Claims
  <2>2. \A q \in Requests : pc'[q] \in Asking =>
          job'[q].due = claimed[job'[q].txn] /\ intents'[job'[q].txn] = NoIntent
    BY <1>3, <1>5, <1>6, <1>9, <1>11, <1>13, <1>15 DEF Claims
  <2>3. ASSUME NEW p \in Orders
        PROVE  IF orders'[p] = None THEN applied'[p] = 0
               ELSE applied'[p] + SumFunctionOnSet(claimed, PaymentsOf(txns', p)) <= orders'[p].total
    <3>1. CASE p = o
      BY <1>3, <1>4, <1>10, <1>16, <1>17, <3>1
    <3>2. CASE p # o
      <4>1. SumFunctionOnSet(claim, PaymentsOf(txns, p)) \in Nat
        BY ClaimedTyped
      <4>2. SumFunctionOnSet(claimed, PaymentsOf(txns', p)) = SumFunctionOnSet(claim, PaymentsOf(txns, p))
        BY <1>16, <3>2, <4>1
      <4> QED  BY <1>3, <1>10, <1>13, <3>2, <4>2 DEF Claims
    <3> QED  BY <3>1, <3>2
  <2> QED  BY <2>1, <2>2, <2>3 DEF Claims
<1>19. AskApart'
  BY <1>5, <1>6, <1>11, <1>12 DEF OverInv, AskApart, Asking
<1>20. ASSUME NEW q \in Requests  PROVE OverJob(q)'
  <2>1. CASE q = r
    BY <1>3, <1>5, <1>6, <1>8, <1>9, <1>17, <2>1 DEF OverJob
  <2>2. CASE q # r
    BY <1>2, <1>3, <1>6, <1>9, <1>10, <1>12, <2>2, OthersOver
  <2> QED  BY <2>1, <2>2
<1> QED  BY <1>18, <1>19, <1>20 DEF OverInv

LEMMA OverPay ==
  ASSUME Inv, OverInv, NEW r \in Requests, PayFromWallet(r)
  PROVE  OverInv'
<1>1. PICK new, o, t : new = job[r].new /\ o = job[r].order /\ t = job[r].txn
  OBVIOUS
<1>2. pc[r] = "wallet" /\ UNCHANGED <<orders, txns, intents>>
  BY DEF PayFromWallet
<1>3. /\ new \in Order /\ new.total \in Nat /\ job[r] \in Job
      /\ o \in Orders /\ orders[o] # None /\ t \in Txns /\ txns[t] # None
  BY <1>1, <1>2 DEF Inv, JobsOK, JobOK, Order
<1>4. PICK claim \in [Txns -> Nat] : Claims(claim)
  BY DEF OverInv
<1>5. /\ txns[t].order = o /\ claim[t] = new.total /\ applied[o] = 0 /\ intents[t] = NoIntent
  BY <1>1, <1>2, <1>4 DEF OverInv, OverJob, Claims, Asking
<1>6. PICK n \in 0..new.total :
        \/ /\ applied' = [applied EXCEPT ![o] = n]
           /\ \/ Finish(r)
              \/ /\ GoTo(r, IF n = new.total THEN "settle" ELSE "intent")
                 /\ job' = [job EXCEPT ![r].due = new.total - n]
        \/ Finish(r) /\ UNCHANGED applied
  BY <1>1 DEF PayFromWallet
<1>7. n \in Nat /\ new.total - n \in Nat /\ n <= new.total
  BY <1>3, <1>6
<1>8. PICK due \in Nat : due = new.total - n
  BY <1>7
<1>9. applied'[o] \in {0, n} /\ \A p \in Orders \ {o} : applied'[p] = applied[p]
  BY <1>3, <1>5, <1>6 DEF Inv, TypeOK
<1>10. PICK claimed \in [Txns -> Nat] : claimed = [claim EXCEPT ![t] = due]
  OBVIOUS
<1>11. claimed[t] = due /\ \A x \in Txns \ {t} : claimed[x] = claim[x]
  BY <1>3, <1>10
<1>12. \A p : SumFunctionOnSet(claimed, PaymentsOf(txns, p))
                = SumFunctionOnSet(claim, PaymentsOf(txns, p)) + (IF p = o THEN due - new.total ELSE 0)
  <2> TAKE p
  <2>1. SumFunctionOnSet(claimed, PaymentsOf(txns, p))
          = SumFunctionOnSet(claim, PaymentsOf(txns, p)) + (IF txns[t].order = p THEN claimed[t] - claim[t] ELSE 0)
    BY <1>3, <1>11, ClaimLess
  <2> QED  BY <1>5, <1>11, <2>1
<1>13. /\ \/ pc'[r] \in {"idle", "settle"}
          \/ pc'[r] = "intent" /\ job'[r].due = due /\ job'[r].txn = t
       /\ \A q \in Requests \ {r} : pc'[q] = pc[q] /\ job'[q] = job[q]
  <2>1. CASE Finish(r)
    BY <2>1 DEF Finish, GoTo, Inv, TypeOK, JobsOK
  <2>2. CASE /\ GoTo(r, IF n = new.total THEN "settle" ELSE "intent")
             /\ job' = [job EXCEPT ![r].due = new.total - n]
    <3>1. pc'[r] \in {"settle", "intent"} /\ \A q \in Requests \ {r} : pc'[q] = pc[q]
      BY <2>2 DEF GoTo, Inv, TypeOK
    <3>2. job'[r].txn = t /\ job'[r].due = due /\ \A q \in Requests \ {r} : job'[q] = job[q]
      BY <1>1, <1>3, <1>8, <2>2 DEF Inv, JobsOK, Job
    <3> QED  BY <3>1, <3>2
  <2> QED  BY <1>6, <2>1, <2>2
<1>14. \A q \in Requests \ {r} : /\ pc[q] \in Asking => job[q].txn \in Txns \ {t}
                                 /\ pc[q] = "wallet" => job[q].order \in Orders \ {o}
  BY <1>1, <1>2 DEF OverInv, AskApart, Asking, Inv, JobsOK, JobOK
<1>15. Claims(claimed)'
  <2>1. \A x \in Txns : intents'[x] # NoIntent => intents'[x].amount = claimed[x]
    BY <1>2, <1>4, <1>5, <1>11 DEF Claims
  <2>2. ASSUME NEW q \in Requests, pc'[q] \in Asking
        PROVE  job'[q].due = claimed[job'[q].txn] /\ intents'[job'[q].txn] = NoIntent
    <3>1. CASE q = r
      BY <1>2, <1>5, <1>11, <1>13, <2>2, <3>1 DEF Asking
    <3>2. CASE q # r
      BY <1>2, <1>4, <1>11, <1>13, <1>14, <2>2, <3>2 DEF Claims
    <3> QED  BY <3>1, <3>2
  <2>3. ASSUME NEW p \in Orders
        PROVE  IF orders'[p] = None THEN applied'[p] = 0
               ELSE applied'[p] + SumFunctionOnSet(claimed, PaymentsOf(txns', p)) <= orders'[p].total
    <3>1. SumFunctionOnSet(claim, PaymentsOf(txns, p)) \in Nat
      BY ClaimedTyped
    <3>2. CASE p = o
      <4>1. SumFunctionOnSet(claim, PaymentsOf(txns, o)) <= orders[o].total /\ orders[o].total \in Nat
        <5>1. orders[o].total \in Nat
          BY <1>3 DEF Inv, TypeOK, Order
        <5> QED  BY <1>3, <1>4, <1>5, <3>1, <3>2, <5>1 DEF Claims
      <4>2. SumFunctionOnSet(claimed, PaymentsOf(txns, o))
              = SumFunctionOnSet(claim, PaymentsOf(txns, o)) + (due - new.total)
        BY <1>12
      <4> QED  BY <1>2, <1>3, <1>7, <1>8, <1>9, <3>1, <3>2, <4>1, <4>2
    <3>3. CASE p # o
      <4>1. SumFunctionOnSet(claimed, PaymentsOf(txns, p)) = SumFunctionOnSet(claim, PaymentsOf(txns, p))
        BY <1>12, <3>1, <3>3
      <4> QED  BY <1>2, <1>4, <1>9, <3>3, <4>1 DEF Claims
    <3> QED  BY <3>2, <3>3
  <2> QED  BY <2>1, <2>2, <2>3 DEF Claims
<1>16. AskApart'
  <2>1. pc'[r] \in Asking => pc'[r] = "intent" /\ job'[r].txn = t
    BY <1>13 DEF Asking
  <2> QED  BY <1>13, <1>14, <2>1 DEF OverInv, AskApart
<1>17. ASSUME NEW q \in Requests  PROVE OverJob(q)'
  <2>1. CASE q = r
    BY <1>13, <2>1 DEF OverJob
  <2>2. CASE q # r
    BY <1>2, <1>9, <1>13, <1>14, <2>2, OthersOver
  <2> QED  BY <2>1, <2>2
<1> QED  BY <1>15, <1>16, <1>17 DEF OverInv

LEMMA OverOpen ==
  ASSUME Inv, OverInv, NEW r \in Requests, OpenIntent(r)
  PROVE  OverInv'
<1>1. PICK t, due : t = job[r].txn /\ due = job[r].due
  OBVIOUS
<1>2. /\ pc[r] = "intent" /\ pc' = [pc EXCEPT ![r] = "store"]
      /\ intents' = [intents EXCEPT ![t] = [state |-> "open", amount |-> due]]
      /\ UNCHANGED <<orders, txns, applied, job>>
  BY <1>1 DEF OpenIntent, GoTo
<1>3. t \in Txns /\ due \in Nat
  BY <1>1, <1>2 DEF Inv, JobsOK, JobOK, Job
<1>4. PICK claim \in [Txns -> Nat] : Claims(claim)
  BY DEF OverInv
<1>5. due = claim[t] /\ intents'[t].amount = due /\ \A x \in Txns \ {t} : intents'[x] = intents[x]
  BY <1>1, <1>2, <1>3, <1>4 DEF Claims, Asking, Inv, TypeOK
<1>6. pc'[r] = "store" /\ \A q \in Requests \ {r} : pc'[q] = pc[q]
  BY <1>2 DEF Inv, TypeOK
<1>7. \A q \in Requests \ {r} : pc[q] \in Asking => job[q].txn \in Txns \ {t}
  BY <1>1, <1>2 DEF OverInv, AskApart, Asking, Inv, JobsOK, JobOK
<1>8. Claims(claim)'
  <2>1. \A x \in Txns : intents'[x] # NoIntent => intents'[x].amount = claim[x]
    BY <1>4, <1>5 DEF Claims
  <2>2. \A q \in Requests : pc'[q] \in Asking =>
          job'[q].due = claim[job'[q].txn] /\ intents'[job'[q].txn] = NoIntent
    <3>1. "store" \notin Asking
      BY DEF Asking
    <3> QED  BY <1>2, <1>4, <1>5, <1>6, <1>7, <3>1 DEF Claims
  <2> QED  BY <1>2, <1>4, <2>1, <2>2 DEF Claims
<1>9. AskApart'
  BY <1>2, <1>6 DEF OverInv, AskApart, Asking
<1>10. \A q \in Requests : OverJob(q)'
  BY <1>2, <1>6 DEF OverInv, OverJob
<1> QED  BY <1>8, <1>9, <1>10 DEF OverInv

LEMMA OverDeliver ==
  ASSUME DeliveriesApart, Inv, OverInv, NEW r \in Requests, AddDelivery(r)
  PROVE  OverInv'
<1>1. PICK new, o : new = job[r].new /\ o = job[r].order
  OBVIOUS
<1>2. PICK fee : fee = DeliveryFee - new.shipping
  OBVIOUS
<1>3. PICK t \in Txns :
        /\ txns[t] = None
        /\ txns' = [txns EXCEPT ![t] =
             [order |-> o, amount |-> fee, status |-> "PENDING", stored |-> FALSE]]
        /\ \/ GoTo(r, "intent") /\ job' = [job EXCEPT ![r].txn = t, ![r].due = fee]
           \/ Finish(r)
  BY <1>1, <1>2 DEF AddDelivery
<1>4. /\ pc[r] = "deliver" /\ orders' = [orders EXCEPT ![o] = WithDelivery(new, fee)]
      /\ UNCHANGED <<applied, intents>>
  BY <1>1, <1>2 DEF AddDelivery
<1>5. /\ new \in Order /\ o \in Orders /\ orders[o] # None /\ new = orders[o]
      /\ new.shipping < DeliveryFee /\ job[r] \in Job
  BY <1>1, <1>4 DEF Inv, JobsOK, JobOK, ReadStands, OverInv, OverJob
<1>6. fee \in Nat /\ new.total \in Nat /\ new.shipping + fee \in Nat /\ new.total + fee \in Nat
  BY <1>2, <1>5, ConstantsAssumption DEF Order
<1>7. PICK paid : paid = WithDelivery(new, fee)
  OBVIOUS
<1>8. paid \in Order /\ paid # None /\ paid.total = new.total + fee
  BY <1>5, <1>6, <1>7, NoneAssumption DEF WithDelivery, Order
<1>9. PICK row : row = [order |-> o, amount |-> fee, status |-> "PENDING", stored |-> FALSE]
  OBVIOUS
<1>10. row.order = o /\ row # None
  <2>1. row \in Txn
    BY <1>5, <1>6, <1>9 DEF Txn
  <2> QED  BY <1>9, <2>1, NoneAssumption
<1>11. txns'[t] = row /\ intents[t] = NoIntent /\ \A x \in Txns \ {t} : txns'[x] = txns[x]
  BY <1>3, <1>9 DEF Inv, TypeOK, RowsOK
<1>12. orders'[o] = paid /\ \A p \in Orders \ {o} : orders'[p] = orders[p]
  BY <1>4, <1>5, <1>7 DEF Inv, TypeOK
<1>13. /\ \/ pc'[r] = "idle"
          \/ pc'[r] = "intent" /\ job'[r].txn = t /\ job'[r].due = fee
       /\ \A q \in Requests \ {r} : pc'[q] = pc[q] /\ job'[q] = job[q]
  <2>1. CASE Finish(r)
    BY <2>1 DEF Finish, GoTo, Inv, TypeOK, JobsOK
  <2>2. CASE GoTo(r, "intent") /\ job' = [job EXCEPT ![r].txn = t, ![r].due = fee]
    BY <1>5, <2>2 DEF GoTo, Inv, TypeOK, JobsOK, Job
  <2> QED  BY <1>3, <2>1, <2>2
<1>14. \A q \in Requests : pc[q] \in Asking => job[q].txn \in Txns \ {t}
  BY <1>3 DEF Inv, JobsOK, JobOK, Asking
<1>15. \A q \in Requests \ {r} : pc[q] = "deliver" => job[q].order \in Orders \ {o}
  BY <1>1, <1>4 DEF DeliveriesApart, Inv, JobsOK, JobOK
<1>16. PICK claim \in [Txns -> Nat] : Claims(claim)
  BY DEF OverInv
<1>17. PICK claimed \in [Txns -> Nat] : claimed = [claim EXCEPT ![t] = fee]
  BY <1>6
<1>18. claimed[t] = fee /\ \A x \in Txns \ {t} : claimed[x] = claim[x]
  BY <1>17
<1>19. \A p : SumFunctionOnSet(claimed, PaymentsOf(txns', p))
                = SumFunctionOnSet(claim, PaymentsOf(txns, p)) + (IF p = o THEN fee ELSE 0)
  <2> TAKE p
  <2>1. SumFunctionOnSet(claimed, PaymentsOf(txns', p))
          = SumFunctionOnSet(claim, PaymentsOf(txns, p)) + (IF txns'[t].order = p THEN claimed[t] ELSE 0)
    <3>1. \A x \in Txns \ {t} : txns'[x] = txns[x] /\ claimed[x] = claim[x]
      BY <1>11, <1>18
    <3>2. txns[t] = None /\ txns'[t] # None
      BY <1>3, <1>10, <1>11
    <3> QED  BY <3>1, <3>2, ClaimNew
  <2> QED  BY <1>10, <1>11, <1>18, <2>1
<1>20. Claims(claimed)'
  <2>1. \A x \in Txns : intents'[x] # NoIntent => intents'[x].amount = claimed[x]
    BY <1>4, <1>11, <1>16, <1>18 DEF Claims
  <2>2. ASSUME NEW q \in Requests, pc'[q] \in Asking
        PROVE  job'[q].due = claimed[job'[q].txn] /\ intents'[job'[q].txn] = NoIntent
    <3>1. CASE q = r
      BY <1>4, <1>11, <1>13, <1>18, <2>2, <3>1 DEF Asking
    <3>2. CASE q # r
      BY <1>4, <1>13, <1>14, <1>16, <1>18, <2>2, <3>2 DEF Claims
    <3> QED  BY <3>1, <3>2
  <2>3. ASSUME NEW p \in Orders
        PROVE  IF orders'[p] = None THEN applied'[p] = 0
               ELSE applied'[p] + SumFunctionOnSet(claimed, PaymentsOf(txns', p)) <= orders'[p].total
    <3>1. SumFunctionOnSet(claim, PaymentsOf(txns, p)) \in Nat /\ applied[p] \in Nat
      BY ClaimedTyped DEF Inv, TypeOK
    <3>2. CASE p = o
      <4>1. applied[o] + SumFunctionOnSet(claim, PaymentsOf(txns, o)) <= new.total
        BY <1>5, <1>16 DEF Claims
      <4> QED  BY <1>4, <1>6, <1>8, <1>12, <1>19, <3>1, <3>2, <4>1
    <3>3. CASE p # o
      <4>1. SumFunctionOnSet(claimed, PaymentsOf(txns', p)) = SumFunctionOnSet(claim, PaymentsOf(txns, p))
        BY <1>19, <3>1, <3>3
      <4> QED  BY <1>4, <1>12, <1>16, <3>3, <4>1 DEF Claims
    <3> QED  BY <3>2, <3>3
  <2> QED  BY <2>1, <2>2, <2>3 DEF Claims
<1>21. AskApart'
  BY <1>13, <1>14 DEF OverInv, AskApart, Asking
<1>22. ASSUME NEW q \in Requests  PROVE OverJob(q)'
  <2>1. CASE q = r
    BY <1>13, <2>1 DEF OverJob
  <2>2. CASE q # r
    BY <1>3, <1>4, <1>11, <1>12, <1>13, <1>15, <2>2, OthersOver
  <2> QED  BY <2>1, <2>2
<1> QED  BY <1>20, <1>21, <1>22 DEF OverInv

LEMMA OverInitially == Init => OverInv
<1> SUFFICES ASSUME Init PROVE OverInv
  OBVIOUS
<1>1. /\ \A o \in Orders : orders[o] = None /\ applied[o] = 0
      /\ \A t \in Txns : intents[t] = NoIntent
      /\ \A r \in Requests : pc[r] = "idle"
  BY DEF Init
<1>2. PICK claim \in [Txns -> Nat] : claim = [t \in Txns |-> 0]
  OBVIOUS
<1>3. Claims(claim)
  BY <1>1 DEF Claims, Asking
<1> QED  BY <1>1, <1>3 DEF OverInv, AskApart, OverJob, Asking

LEMMA OverStep == DeliveriesApart /\ Inv /\ OverInv /\ [Next]_vars => OverInv'
<1> SUFFICES ASSUME DeliveriesApart, Inv, OverInv, [Next]_vars PROVE OverInv'
  OBVIOUS
<1>1. ASSUME NEW r \in Requests, InsertOrder(r) \/ PayFromWallet(r) \/ OpenIntent(r) \/ AddDelivery(r)
      PROVE  OverInv'
  BY <1>1, OverInsert, OverPay, OverOpen, OverDeliver
<1> QED  BY <1>1, OverQuiet DEF Next, Step

\* Whatever requests overlap, die or come late, wallet and providers together never take more
\* than the order's total, whatever part the wallet paid and whenever delivery was asked for,
\* as long as no two delivery requests for one order overlap.
THEOREM ChargedOnce == Spec /\ []DeliveriesApart => []NeverOvercharged
<1>1. DeliveriesApart /\ Inv /\ OverInv /\ [Next]_vars => (Inv /\ OverInv)'
  BY StepKeeps, OverStep
<1>2. Inv /\ OverInv => NeverOvercharged
  <2> SUFFICES ASSUME Inv, OverInv, NEW o \in Orders, orders[o] # None
               PROVE  applied[o] + Charged(o) <= orders[o].total
    BY DEF NeverOvercharged
  <2>1. PICK claim \in [Txns -> Nat] : Claims(claim)
    BY DEF OverInv
  <2>2. PICK paid : paid = {t \in TransactionsOf(o) : intents[t].state = "paid"}
    OBVIOUS
  <2>3. PICK amounts : amounts = [t \in Txns |-> intents[t].amount]
    OBVIOUS
  <2>4. paid \subseteq PaymentsOf(txns, o) /\ paid \subseteq Txns
    BY <2>2 DEF TransactionsOf, PaymentsOf
  <2>5. \A t \in paid : amounts[t] = claim[t]
    BY <2>1, <2>2, <2>3, <2>4 DEF Claims, NoIntent
  <2>6. /\ IsFiniteSet(PaymentsOf(txns, o)) /\ IsFiniteSet(paid)
        /\ \A t \in PaymentsOf(txns, o) : claim[t] \in Nat
    BY <2>4, PaymentsFinite, FS_Subset
  <2>7. Charged(o) = SumFunctionOnSet(claim, paid)
    <3>1. Charged(o) = SumFunctionOnSet(amounts, paid)
      BY <2>2, <2>3 DEF Charged
    <3> QED  BY <2>5, <2>6, <3>1, SumSame
  <2>8. SumFunctionOnSet(claim, paid) \in Nat
    BY <2>4, <2>6, SumIsNat
  <2>9. SumFunctionOnSet(claim, paid) <= SumFunctionOnSet(claim, PaymentsOf(txns, o))
    BY <2>4, <2>6, SumPart
  <2>10. /\ applied[o] \in Nat /\ orders[o].total \in Nat
         /\ SumFunctionOnSet(claim, PaymentsOf(txns, o)) \in Nat
         /\ applied[o] + SumFunctionOnSet(claim, PaymentsOf(txns, o)) <= orders[o].total
    BY <2>1, ClaimedTyped DEF Inv, TypeOK, Order, Claims
  <2> QED  BY <2>7, <2>8, <2>9, <2>10
<1> QED  BY <1>1, <1>2, Initially, OverInitially, PTL DEF Spec
=============================================================================
