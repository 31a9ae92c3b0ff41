----------------------------- MODULE MCAnalytics ----------------------------
(* Bounded instances of Analytics. *)
EXTENDS Analytics, TLC

CONSTANTS e1, e2, e3, e4, e5, orderTopic, paymentTopic, o1, p1, p2, g1

\* An order of two products that tie in the top list, its payment and refund, its
\* cancellation, and a message that is no event.
Bodies ==
    e1 :> [type |-> "order.created", at |-> 0, order |-> o1, amount |-> 2, status |-> "created",
           items |-> <<[product |-> p1, quantity |-> 1, price |-> 1],
                       [product |-> p2, quantity |-> 1, price |-> 1]>>] @@
    e2 :> [type |-> "payment.succeeded", at |-> 1, order |-> o1, amount |-> 2, status |-> "succeeded",
           items |-> <<>>] @@
    e3 :> [type |-> "payment.refunded", at |-> 3, order |-> o1, amount |-> 2, status |-> "refunded",
           items |-> <<>>] @@
    e4 :> [type |-> "order.cancelled", at |-> 2, order |-> o1, amount |-> 2, status |-> "cancelled",
           items |-> <<>>]
Topics == e1 :> orderTopic @@ e4 :> orderTopic @@ e2 :> paymentTopic @@ e3 :> paymentTopic @@ e5 :> paymentTopic
\* The cancellation reached Kafka before the event of the creation.
Waiting == orderTopic :> <<e4>> @@ paymentTopic :> <<e5, e2>>
AllTime == <<0, 3>>
SomeWindows == {<<0, 3>>, <<1, 3>>, <<0, 1>>}
=============================================================================
