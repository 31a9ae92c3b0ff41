------------------------------- MODULE Orders -------------------------------
(***************************************************************************)
(* An order from creation to delivery or cancellation: order-service (HTTP *)
(* requests and the event consumer) and the command consumer of the        *)
(* catalog, interleaved at every await, with the broker queues between     *)
(* them and payment-service reduced to what it tells order-service.        *)
(*                                                                         *)
(* A handler checks the Order object it has loaded and writes by id later: *)
(* as in Payments, what the check saw is where the handler stands.  The    *)
(* event consumer holds one lock over both of its queues, so its handlers  *)
(* never overlap each other; requests overlap everything.  A delivery that *)
(* raises goes back to the head of its queue.                              *)
(*                                                                         *)
(* Faults: a handler may fail at any await, a release may time out after   *)
(* it took effect, an event of payment-service may be lost.  MaxFaults     *)
(* bounds how many; a call starts, and a payer retries, only while fewer   *)
(* than MaxCommands commands, or MaxEvents events, wait.                    *)
(***************************************************************************)
EXTENDS Integers, Sequences, OrderStatus

CONSTANTS
    Order, Product, Items, Initial,   \* see Stock
    Request,    \* concurrent HTTP requests
    Routes,     \* what is called: subset of cancel, close, patch
    Patches,    \* statuses the PATCH route is asked for
    MaxCommands, MaxEvents, MaxFaults,
    None

PaymentEvent == {"pending", "succeeded", "failed", "cancelled", "refunded"}
CatalogEvent == {"reserved", "reservation_failed"}
CatalogCommand == {"reserve", "confirm"}
PaymentCommand == {"create", "cancel", "refund"}

ASSUME OrdersAssumption ==
    /\ Items \in [Order -> [Product -> Nat]] /\ Initial \in [Product -> Nat]
    /\ Routes \subseteq {"cancel", "close", "patch"}
    /\ Patches \subseteq Status
    /\ MaxCommands \in Nat /\ MaxEvents \in Nat /\ MaxFaults \in Nat
    /\ None \notin Order \cup Status
    /\ None \notin {"create"} \cup Routes \cup PaymentEvent \cup CatalogEvent \cup CatalogCommand
    /\ {"orders", "catalog"} \cap Request = {}

Consumer == "orders"
Catalog == "catalog"
Proc == Request \cup {Consumer, Catalog}

VARIABLES
    status,                            \* orders.status; None: no such row
    patched,                           \* history: <<order, status>> that PATCH wrote
    stock, held,                       \* see Stock
    reserved,                          \* history: orders whose reservation committed
    catalogCommands, catalogEvents,    \* catalog.commands, order.catalog.queue
    paymentCommands, paymentEvents,    \* payment.order.queue, order.payment.queue
    asked,                             \* history: payment.create commands of an order
    pay,                               \* the status of its payment
    self,                              \* the handler each process is in
    faults

table == <<status, patched>>
shelf == <<stock, held, reserved>>
toCatalog == <<catalogCommands>>
toOrders == <<catalogEvents, paymentEvents>>
toPayment == <<paymentCommands, asked>>
vars == <<table, shelf, catalogCommands, toOrders, toPayment, pay, self, faults>>

Shelf == INSTANCE Stock

PayStatus == {"none", "pending", "processing", "succeeded", "failed", "cancelled", "refunded"}

Step == {"idle", "load", "check", "insert", "release", "commit", "send", "ack"}

(* goal is the status it is about to write or the message to send, todo    *)
(* the products still to check or to release.                              *)
Handler ==
    [pc: Step,
     op: {"create"} \cup Routes \cup PaymentEvent \cup CatalogEvent \cup CatalogCommand \cup {None},
     ord: Order \cup {None},
     goal: Status \cup CatalogCommand \cup PaymentCommand \cup CatalogEvent \cup {None},
     todo: SUBSET Product]

Idle == [pc |-> "idle", op |-> None, ord |-> None, goal |-> None, todo |-> {}]

TypeOK ==
    /\ status \in [Order -> Status \cup {None}]
    /\ patched \subseteq Order \X Status
    /\ stock \in [Product -> Nat] /\ held \in [Order -> [Product -> Int]]
    /\ reserved \subseteq Order
    /\ catalogCommands \in Seq(CatalogCommand \X Order)
    /\ catalogEvents \in Seq(CatalogEvent \X Order)
    /\ paymentCommands \in Seq(PaymentCommand \X Order)
    /\ paymentEvents \in Seq(PaymentEvent \X Order)
    /\ asked \in [Order -> Nat]
    /\ pay \in [Order -> PayStatus]
    /\ self \in [Proc -> Handler]
    /\ faults \in 0..MaxFaults

Init ==
    /\ status = [o \in Order |-> None] /\ patched = {}
    /\ Shelf!Init /\ reserved = {}
    /\ catalogCommands = <<>> /\ catalogEvents = <<>>
    /\ paymentCommands = <<>> /\ paymentEvents = <<>>
    /\ asked = [o \in Order |-> 0]
    /\ pay = [o \in Order |-> "none"]
    /\ self = [r \in Proc |-> Idle]
    /\ faults = 0
-----------------------------------------------------------------------------
(* Control of a handler. *)

At(r, step) == self[r].pc = step
Loading(r, op) == self[r].pc = "load" /\ self[r].op = op
Goto(r, step, goal) == self' = [self EXCEPT ![r].pc = step, ![r].goal = goal]

(* A request answers, a consumer acknowledges. *)
Return(r) ==
    self' = [self EXCEPT ![r] = IF r \in Request THEN Idle
                                ELSE [Idle EXCEPT !.pc = "ack", !.op = self[r].op]]

(* An exception answers the request, or requeues the delivery. *)
Raise(r) == self' = [self EXCEPT ![r] = Idle]

Fault(r) ==
    /\ faults < MaxFaults
    /\ faults' = faults + 1
    /\ Raise(r)

Abort(r) ==
    /\ self[r] # Idle
    /\ Fault(r)
    /\ UNCHANGED <<table, shelf, catalogCommands, toOrders, toPayment, pay>>

(* What a load does when it only decides where to go. *)
ReadOnly ==
    UNCHANGED <<table, shelf, catalogCommands, toOrders, toPayment, pay, faults>>

Wants(o) == {p \in Product : Items[o][p] > 0}
-----------------------------------------------------------------------------
(* create_order: the catalog is asked product by product, nothing reserved. *)

Create(r) ==
    /\ self[r] = Idle
    /\ \E o \in Order :
           /\ status[o] = None
           /\ \A q \in Request : self[q].op = "create" => self[q].ord # o
           /\ self' = [self EXCEPT ![r] =
                  [pc |-> "check", op |-> "create", ord |-> o, goal |-> None,
                   todo |-> Wants(o)]]
    /\ ReadOnly

(* The catalog may answer from its cache, with the stock of a minute ago. *)
Check(r) ==
    /\ At(r, "check")
    /\ \/ self[r].todo = {} /\ Goto(r, "insert", "created")
       \/ \E p \in self[r].todo : self' = [self EXCEPT ![r].todo = @ \ {p}]
       \/ self[r].todo # {} /\ Raise(r)
    /\ ReadOnly

Insert(r) ==
    /\ At(r, "insert")
    /\ status' = [status EXCEPT ![self[r].ord] = "created"]
    /\ Goto(r, "send", "reserve")
    /\ UNCHANGED <<patched, shelf, catalogCommands, toOrders, toPayment, pay, faults>>
-----------------------------------------------------------------------------
(* The loads: each handler reads the order and decides. *)

(* Mutation: a repeated event starts the payment again, as a repeated      *)
(* payment.succeeded confirms again.                                       *)
LoadReservedAgain(r) ==
    LET s == status[self[r].ord]
    IN  /\ Loading(r, "reserved")
        /\ CASE s = "created"         -> Goto(r, "commit", "waiting_payment")
             [] s = "waiting_payment" -> Goto(r, "send", "create")
             [] OTHER                 -> Return(r)
        /\ ReadOnly

LoadReserved(r) ==
    /\ Loading(r, "reserved")
    /\ IF status[self[r].ord] = "created"
       THEN Goto(r, "commit", "waiting_payment") ELSE Return(r)
    /\ ReadOnly

(* Mutation: a failed reservation fails the order whatever its status. *)
LoadReservationFailedAlways(r) ==
    /\ Loading(r, "reservation_failed")
    /\ Goto(r, "commit", "failed")
    /\ ReadOnly

LoadReservationFailed(r) ==
    /\ Loading(r, "reservation_failed")
    /\ IF status[self[r].ord] = "created"
       THEN Goto(r, "commit", "failed") ELSE Return(r)
    /\ ReadOnly

(* update_order; InvalidStatusTransitionError and CannotCloseEmptyOrder. *)
Update(r, new) ==
    LET s == status[self[r].ord]
        allowed == CanTransitionTo(s, new) /\ (new = "closed" => Wants(self[r].ord) # {})
    IN  /\ \/ s = new /\ Return(r)
           \/ s # new /\ allowed /\ Goto(r, "commit", new)
           \/ s # new /\ ~allowed /\ Raise(r)
        /\ ReadOnly

LoadUpdate(r) ==
    \/ (Loading(r, "pending") \/ Loading(r, "failed")) /\ Update(r, "waiting_payment")
    \/ Loading(r, "patch") /\ \E new \in Patches : Update(r, new)

LoadPaymentCancelled(r) ==
    /\ Loading(r, "cancelled")
    /\ IF status[self[r].ord] = "cancelled"
       THEN Return(r) /\ ReadOnly ELSE Update(r, "waiting_payment")

LoadSucceeded(r) ==
    LET s == status[self[r].ord]
    IN  /\ Loading(r, "succeeded")
        /\ CASE s = "waiting_payment" -> Goto(r, "commit", "paid")
             [] s = "paid"            -> Goto(r, "send", "confirm")
             [] OTHER                 -> Return(r)
        /\ ReadOnly

(* Mutation: a refund is only for orders the cancel left to it. *)
LoadRefundedCancelled(r) ==
    /\ Loading(r, "refunded")
    /\ IF status[self[r].ord] = "cancelled"
       THEN self' = [self EXCEPT ![r].pc = "release", ![r].goal = "cancelled",
                                 ![r].todo = Wants(self[r].ord)]
       ELSE Return(r)
    /\ ReadOnly

LoadRefunded(r) ==
    /\ Loading(r, "refunded")
    /\ IF status[self[r].ord] = "paid"
       THEN self' = [self EXCEPT ![r].pc = "release", ![r].goal = "cancelled",
                                 ![r].todo = Wants(self[r].ord)]
       ELSE Return(r)
    /\ ReadOnly

(* Mutation: a refund is asked for unpaid orders too. *)
LoadCancelRefunding(r) ==
    /\ Loading(r, "cancel")
    /\ IF status[self[r].ord] \in {"waiting_payment", "paid"}
       THEN Goto(r, "send", "refund") ELSE Raise(r)
    /\ ReadOnly

LoadCancel(r) ==
    LET s == status[self[r].ord]
    IN  /\ Loading(r, "cancel")
        /\ CASE s = "paid" -> Goto(r, "send", "refund")
             [] s # "paid" /\ CanTransitionTo(s, "cancelled") ->
                    self' = [self EXCEPT ![r].pc = "release", ![r].goal = "cancel",
                                         ![r].todo = Wants(self[r].ord)]
             [] OTHER -> Raise(r)
        /\ ReadOnly

LoadClose(r) ==
    /\ Loading(r, "close")
    /\ IF /\ Wants(self[r].ord) # {}
          /\ CanTransitionTo(status[self[r].ord], "closed")
       THEN Goto(r, "commit", "closed") ELSE Raise(r)
    /\ ReadOnly
-----------------------------------------------------------------------------
(* Items are given back one HTTP call after the other, before the commit. *)

Release(r) ==
    /\ At(r, "release")
    /\ \/ \E p \in self[r].todo :
              /\ Shelf!Release(self[r].ord, p)
              /\ self' = [self EXCEPT ![r].todo = @ \ {p}]
       \/ /\ self[r].todo = {}
          /\ self' = [self EXCEPT ![r].pc = IF self[r].goal = "cancel"
                                            THEN "send" ELSE "commit"]
          /\ UNCHANGED <<stock, held>>
    /\ UNCHANGED <<table, reserved, catalogCommands, toOrders, toPayment, pay, faults>>

(* CatalogServiceUnavailableError, but the catalog has done it. *)
ReleaseTimeout(r) ==
    /\ At(r, "release")
    /\ \E p \in self[r].todo : Shelf!Release(self[r].ord, p)
    /\ Fault(r)
    /\ UNCHANGED <<table, reserved, catalogCommands, toOrders, toPayment, pay>>

(* UPDATE orders SET status WHERE id, whatever the row holds by now. *)
Commit(r) ==
    /\ At(r, "commit")
    /\ status' = [status EXCEPT ![self[r].ord] = self[r].goal]
    /\ patched' = (IF self[r].op = "patch" THEN patched \cup {<<self[r].ord, self[r].goal>>}
                   ELSE patched)
    /\ CASE self[r].op = "reserved"  -> Goto(r, "send", "create")
         [] self[r].op = "succeeded" -> Goto(r, "send", "confirm")
         [] OTHER                    -> Return(r)
    /\ UNCHANGED <<shelf, catalogCommands, toOrders, toPayment, pay, faults>>

SendToCatalog(r) ==
    /\ At(r, "send") /\ self[r].goal \in CatalogCommand
    /\ catalogCommands' = Append(catalogCommands, <<self[r].goal, self[r].ord>>)
    /\ Return(r)
    /\ UNCHANGED <<table, shelf, toOrders, toPayment, pay, faults>>

(* cancel_order publishes before it commits. *)
SendToPayment(r) ==
    LET kind == self[r].goal
        o == self[r].ord
    IN  /\ At(r, "send") /\ kind \in PaymentCommand
        /\ paymentCommands' = Append(paymentCommands, <<kind, o>>)
        /\ asked' = IF kind = "create" THEN [asked EXCEPT ![o] = @ + 1] ELSE asked
        /\ IF kind = "cancel" THEN Goto(r, "commit", "cancelled") ELSE Return(r)
        /\ UNCHANGED <<table, shelf, catalogCommands, toOrders, pay, faults>>
-----------------------------------------------------------------------------
(* Requests and deliveries begin; deliveries end. *)

Start(r) ==
    /\ self[r] = Idle /\ Len(paymentCommands) < MaxCommands
    /\ \E route \in Routes, o \in Order :
           /\ status[o] # None
           /\ self' = [self EXCEPT ![r] = [Idle EXCEPT !.pc = "load", !.op = route, !.ord = o]]
    /\ ReadOnly

Deliver(r, queue) ==
    /\ self[r] = Idle /\ queue # <<>>
    /\ self' = [self EXCEPT ![r] =
           [Idle EXCEPT !.pc = "load", !.op = Head(queue)[1], !.ord = Head(queue)[2]]]
    /\ ReadOnly

DeliverCatalogEvent == Deliver(Consumer, catalogEvents)
DeliverPaymentEvent == Deliver(Consumer, paymentEvents)
DeliverCommand == Deliver(Catalog, catalogCommands)

Ack ==
    /\ At(Consumer, "ack")
    /\ IF self[Consumer].op \in CatalogEvent
       THEN catalogEvents' = Tail(catalogEvents) /\ UNCHANGED paymentEvents
       ELSE paymentEvents' = Tail(paymentEvents) /\ UNCHANGED catalogEvents
    /\ Raise(Consumer)
    /\ UNCHANGED <<table, shelf, catalogCommands, toPayment, pay, faults>>
-----------------------------------------------------------------------------
(* catalog-service: the whole batch commits, or none of it; then it says so. *)

(* Mutation: a reservation that fails is retried like any other error. *)
ReserveRequeued ==
    LET o == self[Catalog].ord
    IN  /\ Loading(Catalog, "reserve")
        /\ \/ /\ Shelf!Reserve(o) /\ reserved' = reserved \cup {o}
              /\ Goto(Catalog, "send", "reserved")
           \/ ~Shelf!Enough(o) /\ Raise(Catalog) /\ UNCHANGED shelf
        /\ UNCHANGED <<table, catalogCommands, toOrders, toPayment, pay, faults>>

Reserve ==
    LET o == self[Catalog].ord
    IN  /\ Loading(Catalog, "reserve")
        /\ \/ /\ Shelf!Reserve(o) /\ reserved' = reserved \cup {o}
              /\ Goto(Catalog, "send", "reserved")
           \/ /\ ~Shelf!Enough(o) /\ UNCHANGED shelf
              /\ Goto(Catalog, "send", "reservation_failed")
        /\ UNCHANGED <<table, catalogCommands, toOrders, toPayment, pay, faults>>

Confirm == Loading(Catalog, "confirm") /\ Return(Catalog) /\ ReadOnly

SendToOrders ==
    /\ At(Catalog, "send")
    /\ catalogEvents' = Append(catalogEvents, <<self[Catalog].goal, self[Catalog].ord>>)
    /\ Return(Catalog)
    /\ UNCHANGED <<table, shelf, catalogCommands, paymentEvents, toPayment, pay, faults>>

AckCommand ==
    /\ At(Catalog, "ack")
    /\ catalogCommands' = Tail(catalogCommands)
    /\ Raise(Catalog)
    /\ UNCHANGED <<table, shelf, toOrders, toPayment, pay, faults>>
-----------------------------------------------------------------------------
(* payment-service as order-service sees it: one payment per order, its    *)
(* status announced after the commit, or lost.  Payments is the detail.    *)

Announce(o, new) ==
    \/ paymentEvents' = Append(paymentEvents, <<new, o>>) /\ UNCHANGED faults
    \/ faults < MaxFaults /\ faults' = faults + 1 /\ UNCHANGED paymentEvents

PaymentMoves(o, old, new) ==
    /\ pay[o] \in old
    /\ pay' = [pay EXCEPT ![o] = new]
    /\ UNCHANGED <<table, shelf, catalogCommands, catalogEvents, asked, self>>

Commanded(kind, o) ==
    /\ paymentCommands # <<>> /\ Head(paymentCommands) = <<kind, o>>
    /\ paymentCommands' = Tail(paymentCommands)

(* A refund with nothing to refund is requeued for ever: no step. *)
ObeyCommand ==
    \E o \in Order :
        \/ /\ Commanded("create", o)
           /\ PaymentMoves(o, {"none", "failed", "cancelled", "refunded"}, "pending")
           /\ Announce(o, "pending")
        \/ /\ Commanded("cancel", o)
           /\ PaymentMoves(o, {"pending"}, "cancelled") /\ Announce(o, "cancelled")
        \/ /\ Commanded("refund", o)
           /\ PaymentMoves(o, {"succeeded"}, "refunded") /\ Announce(o, "refunded")
        \/ /\ \/ Commanded("create", o) /\ pay[o] \in {"pending", "processing", "succeeded"}
              \/ Commanded("cancel", o) /\ pay[o] # "pending"
              \/ Commanded("refund", o) /\ pay[o] = "refunded"
           /\ UNCHANGED <<table, shelf, catalogCommands, toOrders, asked, pay, self, faults>>

Process(o) ==
    /\ PaymentMoves(o, {"pending"}, "processing")
    /\ UNCHANGED <<paymentCommands, paymentEvents, faults>>

Settle(o) ==
    /\ \E new \in {"succeeded", "failed"} :
           PaymentMoves(o, {"processing"}, new) /\ Announce(o, new)
    /\ UNCHANGED paymentCommands

PayerCancels(o) ==
    /\ PaymentMoves(o, {"pending", "processing"}, "cancelled") /\ Announce(o, "cancelled")
    /\ UNCHANGED paymentCommands

Retry(o) ==
    /\ Len(paymentEvents) < MaxEvents
    /\ PaymentMoves(o, {"failed"}, "pending") /\ Announce(o, "pending")
    /\ UNCHANGED paymentCommands
-----------------------------------------------------------------------------
(* Any payment-service that keeps the word of PaymentSide: several rows of  *)
(* an order, overwritten statuses, events repeated, late or in any order,   *)
(* commands obeyed more than once, or never.                                *)

Charged(o) == pay[o] \in {"succeeded", "refunded"}

Side == INSTANCE PaymentSide WITH
    wanted <- {o \in Order : asked[o] > 0},
    opened <- {o \in Order : pay[o] # "none"},
    charged <- {o \in Order : Charged(o)},
    repaid <- {o \in Order : pay[o] = "refunded"},
    told <- {paymentEvents[i] : i \in 1..Len(paymentEvents)}

AnyPayment ==
    /\ pay' \in [Order -> PayStatus]
    /\ \/ UNCHANGED paymentCommands
       \/ paymentCommands # <<>> /\ paymentCommands' = Tail(paymentCommands)
    /\ \/ UNCHANGED paymentEvents
       \/ \E m \in PaymentEvent \X Order : paymentEvents' = Append(paymentEvents, m)
    /\ faults' \in {faults, faults + 1} \cap 0..MaxFaults
    /\ UNCHANGED <<table, shelf, catalogCommands, catalogEvents, asked, self>>
    /\ \E o \in Order : Side!Pay(o)
-----------------------------------------------------------------------------
Writes(r) == Release(r) \/ Commit(r) \/ SendToCatalog(r) \/ SendToPayment(r)

Answer(r) == Check(r) \/ Insert(r) \/ LoadUpdate(r) \/ LoadCancel(r) \/ LoadClose(r) \/ Writes(r)

Handle ==
    \/ LoadReserved(Consumer) \/ LoadReservationFailed(Consumer)
    \/ LoadUpdate(Consumer) \/ LoadPaymentCancelled(Consumer)
    \/ LoadSucceeded(Consumer) \/ LoadRefunded(Consumer)
    \/ Writes(Consumer) \/ Ack

Inventory == DeliverCommand \/ Reserve \/ Confirm \/ SendToOrders \/ AckCommand

Payer(o) == Process(o) \/ Settle(o) \/ PayerCancels(o) \/ Retry(o)

(* order-service and the catalog. *)
Shop ==
    \/ \E r \in Request : Create(r) \/ Start(r) \/ Answer(r)
    \/ DeliverCatalogEvent \/ DeliverPaymentEvent \/ Handle
    \/ Inventory
    \/ \E r \in Proc : Abort(r) \/ ReleaseTimeout(r)

Next == Shop \/ ObeyCommand \/ \E o \in Order : Payer(o)

Spec == Init /\ [][Next]_vars

(* The same next to any payment-service: what holds here holds with the one *)
(* there is (ImplementsPaymentSide of Payments).                            *)
OpenSpec == Init /\ [][Shop \/ AnyPayment]_vars

(* Handlers go on.  The lock of the event consumer is an asyncio.Lock,     *)
(* which serves its waiters in turn, so a queue that is never served is    *)
(* not a behaviour, even while a delivery of the other one is requeued for *)
(* ever: strong fairness.  Nobody has to order, cancel or pay.             *)
Fairness ==
    /\ \A r \in Request : WF_vars(Answer(r))
    /\ SF_vars(DeliverCatalogEvent) /\ SF_vars(DeliverPaymentEvent) /\ WF_vars(Handle)
    /\ WF_vars(Inventory) /\ WF_vars(ObeyCommand)

FairSpec == Spec /\ Fairness
-----------------------------------------------------------------------------
In(queue, message) == \E i \in 1..Len(queue) : queue[i] = message

(* handle_inventory_reserved: a payment is asked for once, and only after  *)
(* the items were taken from stock, however often the catalog reserves,    *)
(* answers or is redelivered.                                              *)
PaymentStartedOnce == \A o \in Order : asked[o] <= 1 /\ (asked[o] = 1 => o \in reserved)

Patched(o, s) == <<o, s>> \in patched

(* The lock over both queues: an order that failed was never handed to     *)
(* payment-service, though a redelivered reserve may answer both ways.     *)
(* Only PATCH, which asks nothing but the graph, fails one that was.       *)
FailedIsNeverCharged ==
    \A o \in Order : status[o] = "failed" => pay[o] = "none" \/ Patched(o, "failed")

(* An order moves past payment only when it was charged, and a refund is   *)
(* never asked of payment-service for one that was not: that command would *)
(* be requeued for ever.  Unless PATCH named it paid.                      *)
PaidMeansCharged ==
    \A o \in Order :
        \/ status[o] \in {"paid", "shipped", "delivered", "closed"}
        \/ In(paymentCommands, <<"refund", o>>)
        => Charged(o) \/ Patched(o, "paid")

(* A created order whose reserve command is sent learns the answer, through *)
(* faults, and while the payment queue is blocked.                          *)
ReservationIsAnswered ==
    \A o \in Order : In(catalogCommands, <<"reserve", o>>) ~> status[o] # "created"

(* While nothing fails, a refund that was asked for, even twice, ends in a  *)
(* cancelled order; unless PATCH moved the order elsewhere (the refund is  *)
(* then ignored), or named it paid when there was nothing to refund.       *)
RefundCancelsOrder ==
    \A o \in Order :
        In(paymentCommands, <<"refund", o>>) ~>
            \/ status[o] = "cancelled" \/ faults > 0
            \/ \E s \in Status \ {"cancelled"} : Patched(o, s)

(* order_status.py: final statuses are final.                              *)
FinalIsFinal ==
    [][\A o \in Order : status[o] \in Final => status'[o] = status[o]]_vars

(* catalog-service README: stock is returned when an order is cancelled.   *)
(* Once nothing of a cancelled order is under way, it has given back what  *)
(* it took: no less and no more.                                           *)
Quiet(o) == ~In(catalogCommands, <<"reserve", o>>) /\ \A r \in Proc : self[r].ord # o

CancelledHoldsNothing ==
    \A o \in Order, p \in Product :
        status[o] = "cancelled" /\ Quiet(o) => held[o][p] = 0

(* RabbitMQConsumer of the catalog: failures are retryable.  A retry does  *)
(* not take the items again.                                               *)
RetryTakesOnce == \A o \in Order, p \in Product : held[o][p] <= Items[o][p]

(* Cancelling an order that was paid asks for a refund.                    *)
CancelledIsRefunded ==
    \A o \in Order : status[o] = "cancelled" /\ pay[o] = "succeeded" ~> pay[o] = "refunded"

(* RabbitMqConsumer: events are translated into state transitions; none of *)
(* them stays in the queue for ever.                                       *)
PaymentEventsAreTranslated == paymentEvents # <<>> ~> paymentEvents = <<>>
=============================================================================
