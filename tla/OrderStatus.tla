----------------------------- MODULE OrderStatus -----------------------------
(* order-service/app/enums/order_status.py. *)

Status == {"created", "waiting_payment", "paid", "shipped", "delivered",
           "closed", "cancelled", "failed"}

Final == {"closed", "cancelled", "failed"}

Transitions ==
    [s \in Status |->
        CASE s = "created"         -> {"waiting_payment", "cancelled", "failed"}
          [] s = "waiting_payment" -> {"paid", "cancelled", "failed"}
          [] s = "paid"            -> {"shipped", "cancelled"}
          [] s = "shipped"         -> {"delivered"}
          [] s = "delivered"       -> {"closed"}
          [] s \in Final           -> {}]

CanTransitionTo(s, t) == t \in Transitions[s]
=============================================================================
