------------------------------- MODULE Ledger -------------------------------
(***************************************************************************)
(* What auth-service promises of a user's money, with no concurrency in    *)
(* it: "serialized, idempotent changes to a user's balance" (the           *)
(* docstring of BalanceService).  A change is one atomic step that moves   *)
(* the balance and appends its row to the journal, and a reference is      *)
(* never applied twice.  Wallet is the program that has to implement it.   *)
(***************************************************************************)
EXTENDS Integers, Sequences

CONSTANTS
    User,       \* ids of wallets
    Reference,  \* idempotency references of changes
    Delta       \* signed amounts a change may carry: a set of integers

VARIABLES
    balance,    \* users.balance
    operations  \* balance_operations, per user in commit order

vars == <<balance, operations>>

Operation == [reference: Reference, delta: Delta, after: Nat]

TypeOK ==
    /\ balance \in [User -> Nat]
    /\ operations \in [User -> Seq(Operation)]

Init ==
    /\ balance = [u \in User |-> 0]
    /\ operations = [u \in User |-> <<>>]

Applied(ref) ==
    \E u \in User : \E i \in 1..Len(operations[u]) :
        operations[u][i].reference = ref

Apply(u, ref, d) ==
    /\ ~Applied(ref)
    /\ balance[u] + d >= 0
    /\ balance' = [balance EXCEPT ![u] = balance[u] + d]
    /\ operations' = [operations EXCEPT ![u] =
           Append(operations[u],
                  [reference |-> ref, delta |-> d, after |-> balance[u] + d])]

Next == \E u \in User, ref \in Reference, d \in Delta : Apply(u, ref, d)

Spec == Init /\ [][Next]_vars
-----------------------------------------------------------------------------
(* The balance the journal of u implies just before its i-th row. *)
Before(u, i) == IF i = 1 THEN 0 ELSE operations[u][i - 1].after

(* The journal explains the balance: every row continues the one before    *)
(* it, and the balance is where the last one ends.  A lost update breaks   *)
(* this: two rows would both start from the same balance.                  *)
JournalExplainsBalance ==
    \A u \in User :
        /\ \A i \in 1..Len(operations[u]) :
               operations[u][i].after = Before(u, i) + operations[u][i].delta
        /\ balance[u] = Before(u, Len(operations[u]) + 1)

(* Idempotence: whoever asks and however often, a reference moves money    *)
(* at most once, over all wallets.                                         *)
AppliedOnce ==
    \A u, v \in User : \A i \in 1..Len(operations[u]), j \in 1..Len(operations[v]) :
        operations[u][i].reference = operations[v][j].reference => u = v /\ i = j
=============================================================================
