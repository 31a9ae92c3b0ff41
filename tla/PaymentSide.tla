----------------------------- MODULE PaymentSide -----------------------------
(***************************************************************************)
(* What order-service may rely on when payment-service tells it about an   *)
(* order, whatever rows, retries, timeouts and late answers are behind it: *)
(* a payment exists because order-service asked for one, money moves only  *)
(* for a payment, it is given back only where it was taken, and what is    *)
(* said of money has happened.  Nothing is promised about the order in     *)
(* which things are said, or that they are said at all, or once.           *)
(*                                                                         *)
(* Payments implements this; in Orders it stands for payment-service.      *)
(***************************************************************************)
CONSTANT Order

VARIABLES
    wanted,   \* orders payment.create was sent for
    opened,   \* orders with a payment
    charged,  \* orders whose payer was debited
    repaid,   \* orders whose payer got the money back
    told      \* what was announced: <<status, order>>

vars == <<wanted, opened, charged, repaid, told>>

Announced == {"pending", "succeeded", "failed", "cancelled", "refunded"}

Init == wanted = {} /\ opened = {} /\ charged = {} /\ repaid = {} /\ told = {}

Ask(o) ==
    /\ wanted' = wanted \cup {o}
    /\ UNCHANGED <<opened, charged, repaid, told>>

(* May only o join S, and only when it is allowed to. *)
Joins(o, S, new, allowed) == new = S \/ (o \in allowed /\ new = S \cup {o})

Money(o) ==
    /\ Joins(o, opened, opened', wanted)
    /\ Joins(o, charged, charged', opened')
    /\ Joins(o, repaid, repaid', charged')

(* Each status is said of an order with a payment, success of one that was *)
(* charged, a refund of one that was repaid.                               *)
Sayable(s, o) ==
    /\ o \in opened
    /\ s = "succeeded" => o \in charged
    /\ s = "refunded" => o \in repaid

Say(o) == \E s \in Announced : Sayable(s, o)' /\ told' = told \cup {<<s, o>>}

(* payment-service does something about o. *)
Pay(o) == UNCHANGED wanted /\ Money(o) /\ (UNCHANGED told \/ Say(o))

Next == \E o \in Order : Ask(o) \/ Pay(o)

Spec == Init /\ [][Next]_vars
=============================================================================
