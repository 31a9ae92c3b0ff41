--------------------------- MODULE MCNotifications --------------------------
(* Bounded instances of Notifications. *)
EXTENDS Notifications, TLC

CONSTANTS u1, e1, e2, e3, orders, payments, c1, c2, g1

OneOfEach == e1 :> orders @@ e2 :> payments @@ e3 :> payments
ForOne == [e \in Event |-> u1]
OneBrowser == [c \in Conn |-> u1]
=============================================================================
