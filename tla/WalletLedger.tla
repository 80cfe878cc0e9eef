----------------------------- MODULE WalletLedger -----------------------------
(***************************************************************************)
(* What the customer wallet promises: balances that change atomically, each *)
(* deposit settled once, each withdrawal reserved, then paid out or released *)
(* once.  CustomerWallets is shown to implement it when requests do not     *)
(* overlap.                                                                 *)
(***************************************************************************)
EXTENDS Integers, Functions

CONSTANTS Accounts, Deposits, Withdrawals, Amounts, None

VARIABLES
  balance,     \* what each account holds and what of it is reserved
  deposit,     \* the money a customer is bringing in, or None
  withdrawal   \* the money a customer is taking out, or None
lvars == <<balance, deposit, withdrawal>>

LInit ==
  /\ balance = [a \in Accounts |-> [available |-> 0, reserved |-> 0]]
  /\ deposit = [d \in Deposits |-> None]
  /\ withdrawal = [w \in Withdrawals |-> None]

Move(a, available, reserved) ==
  balance' = [balance EXCEPT ![a] = [available |-> @.available + available,
                                     reserved |-> @.reserved + reserved]]
Spendable(a) == balance[a].available - balance[a].reserved
File(status, a, n) == [status |-> status, account |-> a, amount |-> n]

Credit(a, n) == Move(a, n, 0) /\ UNCHANGED <<deposit, withdrawal>>
Debit(a, n) == /\ n <= Spendable(a)
               /\ Move(a, -n, 0) /\ UNCHANGED <<deposit, withdrawal>>

OpenDeposit(d, a, n) ==
  /\ deposit[d] = None
  /\ deposit' = [deposit EXCEPT ![d] = File("pending", a, n)]
  /\ UNCHANGED <<balance, withdrawal>>
SettleDeposit(d) ==
  /\ deposit[d] # None /\ deposit[d].status = "pending"
  /\ deposit' = [deposit EXCEPT ![d].status = "completed"]
  /\ Move(deposit[d].account, deposit[d].amount, 0)
  /\ UNCHANGED withdrawal

Reserve(w, a, n) ==
  /\ withdrawal[w] = None /\ n <= Spendable(a)
  /\ withdrawal' = [withdrawal EXCEPT ![w] = File("pending", a, n)]
  /\ Move(a, 0, n)
  /\ UNCHANGED deposit
Decide(w, status, paidOut) ==
  /\ withdrawal[w] # None /\ withdrawal[w].status = "pending"
  /\ withdrawal' = [withdrawal EXCEPT ![w].status = status]
  /\ Move(withdrawal[w].account, -paidOut, -withdrawal[w].amount)
  /\ UNCHANGED deposit
PayOut(w) == withdrawal[w] # None /\ Decide(w, "paid", withdrawal[w].amount)
Release(w) == Decide(w, "rejected", 0)

LNext ==
  \/ \E a \in Accounts, n \in Amounts :
       \/ Credit(a, n) \/ Debit(a, n)
       \/ \E d \in Deposits : OpenDeposit(d, a, n)
       \/ \E w \in Withdrawals : Reserve(w, a, n)
  \/ \E d \in Deposits : SettleDeposit(d)
  \/ \E w \in Withdrawals : PayOut(w) \/ Release(w)

LSpec == LInit /\ [][LNext]_lvars

\* The pending withdrawals of an account.
Mine(a) == {w \in Withdrawals : /\ withdrawal[w] # None
                                /\ withdrawal[w].account = a
                                /\ withdrawal[w].status = "pending"}
\* What an account reserves is what its pending withdrawals add up to, and
\* never more than it holds (the reserved column is a running total).
ReservedIsPending ==
  \A a \in Accounts :
    /\ balance[a].reserved = SumFunction([w \in Mine(a) |-> withdrawal[w].amount])
    /\ balance[a].reserved <= balance[a].available
=============================================================================
