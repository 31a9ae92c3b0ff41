----------------------------- MODULE OrdersProofs -----------------------------
(***************************************************************************)
(* What TLAPS proves of Orders, for any orders, products, requests, routes *)
(* and bounds: payment is started once, a failed order is never charged, a *)
(* paid one always was.  First next to any payment-service that keeps the  *)
(* word of PaymentSide (OpenSpec), then next to the one written there.     *)
(* And of the catalog, whose steps on the stock are taken as atomic there: *)
(* Inventory, row lock by row lock, implements them.                       *)
(***************************************************************************)
EXTENDS Orders, TLAPS

Busy(r) == self[r].pc \notin {"idle", "ack"}
PastPayment == {"paid", "shipped", "delivered", "closed"}

(* Charged, or named paid by PATCH; and failed by nothing else.            *)
Excused(o) == Charged(o) \/ Patched(o, "paid")
Unfailed(o) == status[o] = "failed" => Patched(o, "failed")

(* Who runs what.                                                          *)
Role(r) ==
    /\ r \in Request => self[r].op \in {"create"} \cup Routes \cup {None} /\ self[r].pc # "ack"
    /\ r = Consumer => self[r].op \in PaymentEvent \cup CatalogEvent \cup {None}
    /\ r = Catalog => self[r].op \in CatalogCommand \cup {None}
    /\ self[r].pc = "idle" => self[r] = Idle
    /\ Busy(r) => self[r].ord \in Order
    /\ self[r].pc # "idle" => self[r].op # None

(* What the order of a handler was when it was loaded, and still is.       *)
Knows(r) ==
    LET o == self[r].ord
        pc == self[r].pc
        op == self[r].op
        goal == self[r].goal
    IN  /\ pc \in {"check", "insert"} => op = "create" /\ status[o] = None
        /\ pc = "insert" => goal = "created"
        /\ Busy(r) /\ pc \notin {"check", "insert"} => status[o] # None
        /\ op = "reserved" /\ Busy(r) => o \in reserved
        /\ op = "succeeded" /\ Busy(r) => Charged(o)
        /\ pc = "release" => goal \in {"cancel", "cancelled"} /\ op \in {"cancel", "refunded"}
        /\ pc = "commit" => /\ goal \in Status \ {"created"}
                            /\ op = "reserved" => goal = "waiting_payment"
                            /\ goal = "failed" => op \in {"reservation_failed", "patch"}
                            /\ goal \in PastPayment => Excused(o) \/ (op = "patch" /\ goal = "paid")
        /\ pc = "send" => /\ goal \in CatalogCommand \cup PaymentCommand \cup CatalogEvent
                          /\ r = Catalog <=> goal \in CatalogEvent
                          /\ goal = "create" <=> op = "reserved"
                          /\ goal = "refund" => Excused(o)
                          /\ goal = "reserved" => o \in reserved

Creators ==
    \A q, r \in Request : (q # r /\ self[q].op = "create" /\ self[r].op = "create") =>
                              self[q].ord # self[r].ord

(* What the consumer is about to do to the payment of its order.           *)
Starting(o) == /\ self[Consumer].op = "reserved" /\ self[Consumer].ord = o
               /\ self[Consumer].pc \in {"commit", "send"}
Failing(o) == /\ self[Consumer].pc = "commit" /\ self[Consumer].goal = "failed"
              /\ self[Consumer].ord = o

Once ==
    \A o \in Order :
        /\ asked[o] \in {0, 1}
        /\ asked[o] = 1 => o \in reserved /\ status[o] \notin {None, "created"} /\ Unfailed(o)
        /\ Starting(o) => /\ asked[o] = 0 /\ Unfailed(o)
                          /\ self[Consumer].pc = "send" => status[o] # "created"
        /\ Failing(o) => asked[o] = 0

Paying ==
    \A o \in Order :
        /\ asked[o] = 0 => pay[o] = "none"
        /\ status[o] \in PastPayment => Excused(o)

(* What a message says of its order.                                       *)
SaidToCatalog == \A i \in 1..Len(catalogCommands) : status[catalogCommands[i][2]] # None

SaidByCatalog ==
    \A i \in 1..Len(catalogEvents) :
        /\ status[catalogEvents[i][2]] # None
        /\ catalogEvents[i][1] = "reserved" => catalogEvents[i][2] \in reserved

SaidByPayment ==
    \A i \in 1..Len(paymentEvents) :
        /\ status[paymentEvents[i][2]] # None
        /\ paymentEvents[i][1] = "succeeded" => Charged(paymentEvents[i][2])

SaidToPayment ==
    \A i \in 1..Len(paymentCommands) :
        /\ paymentCommands[i][1] = "create" => asked[paymentCommands[i][2]] = 1
        /\ paymentCommands[i][1] = "refund" => Excused(paymentCommands[i][2])

Messages == SaidToCatalog /\ SaidByCatalog /\ SaidByPayment /\ SaidToPayment

(* A consumer works on the head of a queue until it acknowledges it.       *)
Serves(r) ==
    /\ r = Consumer /\ self[r].op \in CatalogEvent => catalogEvents # <<>>
    /\ r = Consumer /\ self[r].op \in PaymentEvent => paymentEvents # <<>>
    /\ r = Catalog /\ self[r].op \in CatalogCommand => catalogCommands # <<>>

Serving == \A r \in Proc : Serves(r)

Roles == \A r \in Proc : Role(r)
Knowing == \A r \in Proc : Knows(r)

IInv == TypeOK /\ Roles /\ Knowing /\ Creators /\ Once /\ Paying /\ Messages /\ Serving

USE DEF table, Patched, Excused, Unfailed
-----------------------------------------------------------------------------
(* How a step moves the handler of one process.                            *)

Goal == Status \cup CatalogCommand \cup PaymentCommand \cup CatalogEvent \cup {None}

Only(r) == /\ self' \in [Proc -> Handler]
           /\ \A q \in Proc : q # r => self'[q] = self[q]

LEMMA Procs ==
    /\ Consumer \in Proc /\ Catalog \in Proc /\ Consumer # Catalog
    /\ Consumer \notin Request /\ Catalog \notin Request
    /\ \A r \in Proc : r \in Request \/ r = Consumer \/ r = Catalog
BY OrdersAssumption DEF Proc, Consumer, Catalog

LEMMA GotoMakes ==
    ASSUME TypeOK, NEW r \in Proc, NEW step \in Step, NEW goal \in Goal, Goto(r, step, goal)
    PROVE  /\ Only(r)
           /\ self'[r].pc = step /\ self'[r].goal = goal
           /\ UNCHANGED <<self[r].op, self[r].ord, self[r].todo>>
<1>1. self \in [Proc -> Handler] /\ self[r] \in Handler
  BY DEF TypeOK
<1>2. self' = [self EXCEPT ![r] = [self[r] EXCEPT !.pc = step, !.goal = goal]]
  BY <1>1 DEF Goto
<1>3. /\ [self[r] EXCEPT !.pc = step, !.goal = goal] \in Handler
      /\ [self[r] EXCEPT !.pc = step, !.goal = goal].pc = step
      /\ [self[r] EXCEPT !.pc = step, !.goal = goal].goal = goal
      /\ [self[r] EXCEPT !.pc = step, !.goal = goal].op = self[r].op
      /\ [self[r] EXCEPT !.pc = step, !.goal = goal].ord = self[r].ord
      /\ [self[r] EXCEPT !.pc = step, !.goal = goal].todo = self[r].todo
  BY <1>1 DEF Handler, Goal
<1> QED BY <1>1, <1>2, <1>3 DEF Only

Rests(r) ==
    /\ Only(r)
    /\ \/ self'[r] = Idle
       \/ /\ r \notin Request /\ self[r].pc # "idle"
          /\ self'[r] = [Idle EXCEPT !.pc = "ack", !.op = self[r].op]

LEMMA RestMakes ==
    ASSUME TypeOK, NEW r \in Proc, Raise(r) \/ (Return(r) /\ self[r].pc # "idle")
    PROVE  Rests(r)
<1>1. self \in [Proc -> Handler] /\ self[r] \in Handler
  BY DEF TypeOK
<1>2. Idle \in Handler
  BY DEF Idle, Handler, Step
<1>3. [Idle EXCEPT !.pc = "ack", !.op = self[r].op] \in Handler
  BY <1>1 DEF Idle, Handler, Step
<1> QED BY <1>1, <1>2, <1>3 DEF Raise, Return, Rests, Only

(* What a step has to say of the handler it moves.                         *)
Fits(r) ==
    /\ Only(r) /\ Role(r)' /\ Knows(r)'
    /\ r \in Request /\ self'[r].op = "create" =>
          \/ self[r].op = "create" /\ self'[r].ord = self[r].ord
          \/ \A q \in Request : self[q].op = "create" => self[q].ord # self'[r].ord

Careful(r) ==
    /\ self'[r].pc = "commit" /\ (self'[r].op = "reserved" \/ self'[r].goal = "failed") =>
          status[self'[r].ord] = "created" \/ self'[r].op = "patch"
    /\ self'[r].pc = "send" => self'[r].op # "reserved"

LEMMA RestFits ==
    ASSUME IInv, NEW r \in Proc, Rests(r)
    PROVE  Fits(r) /\ Careful(r)
<1>1. Role(r)
  BY DEF IInv, Roles
<1>2. CASE self'[r] = Idle
  <2>1. /\ self'[r].pc = "idle" /\ self'[r].op = None /\ self'[r].goal = None
    BY <1>2 DEF Idle
  <2>2. None \notin {"create", "reserved", "succeeded"}
    BY OrdersAssumption DEF CatalogEvent, PaymentEvent
  <2> QED BY <1>2, <2>1, <2>2 DEF Rests, Fits, Careful, Role, Knows, Busy
<1>3. CASE /\ r \notin Request /\ self[r].pc # "idle"
           /\ self'[r] = [Idle EXCEPT !.pc = "ack", !.op = self[r].op]
  <2>1. self'[r].pc = "ack" /\ self'[r].op = self[r].op
    BY <1>3 DEF Idle
  <2> QED BY <1>1, <1>3, <2>1 DEF Rests, Fits, Careful, Role, Knows, Busy
<1> QED BY <1>2, <1>3 DEF Rests

(* The handlers that did not move, when orders only come into being, are   *)
(* only reserved and only charged.                                         *)
Forward ==
    /\ \A o \in Order : status[o] # None => status'[o] # None
    /\ reserved \subseteq reserved'
    /\ \A o \in Order : Charged(o) => Charged(o)'
    /\ patched \subseteq patched'

LEMMA OthersFit ==
    ASSUME IInv, NEW q \in Proc, self'[q] = self[q], Forward,
           self[q].pc \in {"check", "insert"} => status'[self[q].ord] = None
    PROVE  Role(q)' /\ Knows(q)'
<1>1. Role(q) /\ Knows(q)
  BY DEF IInv, Roles, Knowing
<1>2. Role(q)'
  BY <1>1 DEF Role, Busy
<1>3. Knows(q)'
  BY <1>1 DEF Role, Knows, Busy, Forward
<1> QED BY <1>2, <1>3

LEMMA CreatorsKept ==
    ASSUME IInv, NEW r \in Proc, Fits(r)
    PROVE  Creators'
<1> SUFFICES ASSUME NEW p \in Request, NEW q \in Request, p # q,
                    self'[p].op = "create", self'[q].op = "create"
             PROVE  self'[p].ord # self'[q].ord
  BY DEF Creators
<1>1. p \in Proc /\ q \in Proc
  BY DEF Proc
<1>2. \A x, y \in Request : (x # y /\ self[x].op = "create" /\ self[y].op = "create") =>
          self[x].ord # self[y].ord
  BY DEF IInv, Creators
<1>3. CASE p # r /\ q # r
  BY <1>1, <1>2, <1>3 DEF Fits, Only
<1>4. CASE p = r
  BY <1>1, <1>2, <1>4 DEF Fits, Only
<1>5. CASE q = r
  BY <1>1, <1>2, <1>5 DEF Fits, Only
<1> QED BY <1>3, <1>4, <1>5

LEMMA RolesKept ==
    ASSUME IInv, NEW r \in Proc, Fits(r), Forward,
           \A q \in Proc : q # r /\ self[q].pc \in {"check", "insert"} => status'[self[q].ord] = None
    PROVE  Roles' /\ Knowing'
<1> SUFFICES ASSUME NEW q \in Proc PROVE Role(q)' /\ Knows(q)'
  BY DEF Roles, Knowing
<1>1. CASE q = r
  BY <1>1 DEF Fits
<1>2. CASE q # r
  BY <1>2, OthersFit DEF Fits, Only
<1> QED BY <1>1, <1>2

LEMMA OnceKept ==
    ASSUME IInv, NEW r \in Proc, Fits(r), Careful(r), UNCHANGED <<table, reserved, asked>>
    PROVE  Once'
<1> SUFFICES ASSUME NEW o \in Order
             PROVE  /\ asked[o] \in {0, 1}
                    /\ asked[o] = 1 => o \in reserved /\ status[o] \notin {None, "created"} /\ Unfailed(o)
                    /\ Starting(o)' => /\ asked[o] = 0 /\ Unfailed(o)
                                       /\ self'[Consumer].pc = "send" => status[o] # "created"
                    /\ Failing(o)' => asked[o] = 0
  BY DEF Once
<1>1. /\ asked[o] \in {0, 1}
      /\ asked[o] = 1 => o \in reserved /\ status[o] \notin {None, "created"} /\ Unfailed(o)
  BY DEF IInv, Once
<1>2. CASE r = Consumer
  <2>1. ASSUME Starting(o)' PROVE self'[r].pc = "commit" /\ status[o] = "created"
    BY <1>2, <2>1 DEF Starting, Careful
  <2>2. ASSUME Failing(o)' PROVE status[o] = "created"
    <3>1. self'[r].op \in PaymentEvent \cup CatalogEvent
      BY <1>2, <2>2 DEF Failing, Fits, Role
    <3> QED BY <1>2, <2>2, <3>1 DEF Failing, Careful, PaymentEvent, CatalogEvent
  <2> QED BY <1>1, <1>2, <2>1, <2>2
<1>3. CASE r # Consumer
  <2>1. self'[Consumer] = self[Consumer]
    BY <1>3, Procs DEF Fits, Only
  <2> QED BY <1>1, <2>1 DEF IInv, Once, Starting, Failing
<1> QED BY <1>2, <1>3

Settled == /\ UNCHANGED <<table, reserved, catalogCommands, toOrders, toPayment, pay>>
           /\ stock' \in [Product -> Nat] /\ held' \in [Order -> [Product -> Int]]

LEMMA SelfStep ==
    ASSUME IInv, NEW r \in Proc, Fits(r), Careful(r), Serves(r)', Settled, faults' \in 0..MaxFaults
    PROVE  IInv'
<1> USE DEF Settled, toOrders, toPayment
<1>1. TypeOK'
  BY DEF IInv, TypeOK, Fits, Only
<1>2. Forward
  BY DEF Forward, Charged
<1>3. \A q \in Proc : q # r /\ self[q].pc \in {"check", "insert"} => status'[self[q].ord] = None
  BY DEF IInv, Knowing, Knows
<1>4. Roles' /\ Knowing'
  BY <1>2, <1>3, RolesKept
<1>5. Creators'
  BY CreatorsKept
<1>6. Once'
  BY OnceKept
<1>7. Paying'
  BY DEF IInv, Paying, Charged
<1>8. Messages'
  BY DEF IInv, Messages, SaidToCatalog, SaidByCatalog, SaidByPayment, SaidToPayment, Charged
<1>9. Serving'
  BY DEF IInv, Serving, Serves, Fits, Only
<1> QED BY <1>1, <1>4, <1>5, <1>6, <1>7, <1>8, <1>9 DEF IInv

LEMMA SameServed ==
    ASSUME IInv, NEW r \in Proc, self'[r].op \in {self[r].op, None},
           UNCHANGED <<catalogCommands, catalogEvents, paymentEvents>>
    PROVE  Serves(r)'
<1>1. None \notin CatalogEvent \cup PaymentEvent \cup CatalogCommand
  BY OrdersAssumption
<1> QED BY <1>1 DEF IInv, Serving, Serves

LEMMA RestStep ==
    ASSUME IInv, NEW r \in Proc, Raise(r) \/ (Return(r) /\ self[r].pc # "idle"),
           Settled, faults' \in 0..MaxFaults
    PROVE  IInv'
<1>1. Rests(r)
  BY RestMakes DEF IInv
<1>2. self'[r].op \in {self[r].op, None}
  <2>1. CASE self'[r] = Idle
    BY <2>1 DEF Idle
  <2>2. CASE self'[r] = [Idle EXCEPT !.pc = "ack", !.op = self[r].op]
    BY <2>2 DEF Idle
  <2> QED BY <1>1, <2>1, <2>2 DEF Rests
<1>3. Serves(r)'
  BY <1>2, SameServed DEF Settled, toOrders
<1> QED BY <1>1, <1>3, RestFits, SelfStep
-----------------------------------------------------------------------------
(* The steps that only read.                                               *)

LEMMA CreateStep ==
    ASSUME IInv, NEW r \in Request, Create(r)
    PROVE  IInv'
<1>1. PICK o \in Order :
          /\ status[o] = None
          /\ \A q \in Request : self[q].op = "create" => self[q].ord # o
          /\ self' = [self EXCEPT ![r] =
                 [pc |-> "check", op |-> "create", ord |-> o, goal |-> None, todo |-> Wants(o)]]
  BY DEF Create
<1> DEFINE h == [pc |-> "check", op |-> "create", ord |-> o, goal |-> None, todo |-> Wants(o)]
<1>2. /\ h \in Handler /\ h.pc = "check" /\ h.op = "create" /\ h.ord = o
  BY DEF Handler, Step, Wants
<1>3. r \in Proc /\ self \in [Proc -> Handler]
  BY DEF IInv, TypeOK, Proc
<1> HIDE DEF h
<1>4. Only(r) /\ self'[r] = h
  BY <1>1, <1>2, <1>3 DEF Only, h
<1>5. r # Consumer /\ r # Catalog /\ "create" # None
  BY Procs, OrdersAssumption
<1>6. UNCHANGED <<table, reserved, pay>> /\ Settled /\ faults' \in 0..MaxFaults
  BY DEF Create, ReadOnly, Settled, shelf, IInv, TypeOK
<1>7. Role(r)'
  BY <1>2, <1>4, <1>5 DEF Role, Busy
<1>8. Knows(r)'
  BY <1>1, <1>2, <1>4, <1>6 DEF Knows, Busy
<1>9. Fits(r) /\ Careful(r)
  BY <1>1, <1>2, <1>4, <1>7, <1>8 DEF Fits, Careful
<1>10. Serves(r)'
  BY <1>5 DEF Serves
<1> QED BY <1>3, <1>6, <1>9, <1>10, SelfStep

LEMMA CheckStep ==
    ASSUME IInv, NEW r \in Request, Check(r)
    PROVE  IInv'
<1>1. r \in Proc /\ self[r] \in Handler /\ self \in [Proc -> Handler]
  BY DEF IInv, TypeOK, Proc
<1>2. /\ self[r].pc = "check" /\ self[r].op = "create" /\ self[r].ord \in Order
      /\ status[self[r].ord] = None
  BY <1>1 DEF Check, At, IInv, Roles, Role, Busy, Knowing, Knows
<1>3. UNCHANGED <<table, reserved, pay>> /\ Settled /\ faults' \in 0..MaxFaults
  BY DEF Check, ReadOnly, Settled, shelf, IInv, TypeOK
<1>4. r # Consumer /\ r # Catalog /\ "create" # None
  BY Procs, OrdersAssumption
<1>5. CASE Raise(r)
  BY <1>1, <1>3, <1>5, RestStep
<1>6. ASSUME Only(r), self'[r].op = "create", self'[r].ord = self[r].ord,
             self'[r].pc \in {"check", "insert"},
             self'[r].pc = "insert" => self'[r].goal = "created"
      PROVE  IInv'
  <2>1. Role(r)'
    BY <1>2, <1>4, <1>6 DEF Role, Busy
  <2>2. Knows(r)'
    BY <1>2, <1>3, <1>6 DEF Knows, Busy
  <2>3. Fits(r) /\ Careful(r)
    BY <1>2, <1>6, <2>1, <2>2 DEF Fits, Careful
  <2>4. Serves(r)'
    BY <1>4 DEF Serves
  <2> QED BY <1>1, <1>3, <2>3, <2>4, SelfStep
<1>7. CASE Goto(r, "insert", "created")
  <2>1. "insert" \in Step /\ "created" \in Goal
    BY DEF Step, Goal, Status
  <2> QED BY <1>1, <1>2, <1>6, <1>7, <2>1, GotoMakes DEF IInv
<1>8. ASSUME NEW p \in self[r].todo, self' = [self EXCEPT ![r].todo = @ \ {p}]
      PROVE  IInv'
  <2> DEFINE todo == self[r].todo \ {p}
  <2>1. todo \in SUBSET Product
    BY <1>1 DEF Handler
  <2>2. self' = [self EXCEPT ![r] = [self[r] EXCEPT !.todo = todo]]
    BY <1>1, <1>8
  <2> HIDE DEF todo
  <2>3. /\ [self[r] EXCEPT !.todo = todo] \in Handler
        /\ [self[r] EXCEPT !.todo = todo].pc = self[r].pc
        /\ [self[r] EXCEPT !.todo = todo].op = self[r].op
        /\ [self[r] EXCEPT !.todo = todo].ord = self[r].ord
    BY <1>1, <2>1 DEF Handler
  <2>4. /\ Only(r) /\ self'[r].pc = "check" /\ self'[r].op = "create"
        /\ self'[r].ord = self[r].ord
    BY <1>1, <1>2, <2>2, <2>3 DEF Only
  <2> QED BY <1>6, <2>4
<1> QED BY <1>5, <1>7, <1>8 DEF Check

(* A handler that begins: of a route, or of the message at the head of a    *)
(* queue.                                                                   *)
LEMMA BeginStep ==
    ASSUME IInv, NEW r \in Proc, NEW op, NEW o \in Order, Settled, faults' \in 0..MaxFaults,
           self' = [self EXCEPT ![r] = [Idle EXCEPT !.pc = "load", !.op = op, !.ord = o]],
           r \in Request => op \in Routes,
           r = Consumer => op \in PaymentEvent \cup CatalogEvent,
           r = Catalog => op \in CatalogCommand,
           status[o] # None,
           op = "reserved" => o \in reserved,
           op = "succeeded" => Charged(o),
           r = Consumer /\ op \in CatalogEvent => catalogEvents # <<>>,
           r = Consumer /\ op \in PaymentEvent => paymentEvents # <<>>,
           r = Catalog => catalogCommands # <<>>
    PROVE  IInv'
<1> DEFINE h == [Idle EXCEPT !.pc = "load", !.op = op, !.ord = o]
<1>1. op \in {"create"} \cup Routes \cup PaymentEvent \cup CatalogEvent \cup CatalogCommand
  BY Procs
<1>2. op # None /\ op # "create"
  BY Procs, OrdersAssumption DEF PaymentEvent, CatalogEvent, CatalogCommand
<1>3. h \in Handler /\ h.pc = "load" /\ h.op = op /\ h.ord = o
  BY <1>1 DEF Idle, Handler, Step
<1>4. self \in [Proc -> Handler]
  BY DEF IInv, TypeOK
<1> HIDE DEF h
<1>5. Only(r) /\ self'[r] = h
  BY <1>3, <1>4 DEF Only, h
<1>6. UNCHANGED <<table, reserved, pay>>
  BY DEF Settled
<1>7. Role(r)'
  BY <1>2, <1>3, <1>5, Procs DEF Role, Busy
<1>8. Knows(r)'
  BY <1>3, <1>5, <1>6 DEF Knows, Busy, Charged
<1>9. Fits(r) /\ Careful(r)
  BY <1>2, <1>3, <1>5, <1>7, <1>8 DEF Fits, Careful
<1>10. Serves(r)'
  BY <1>3, <1>5 DEF Serves, Settled, toOrders
<1> QED BY <1>9, <1>10, SelfStep

LEMMA StartStep ==
    ASSUME IInv, NEW r \in Request, Start(r)
    PROVE  IInv'
<1>1. PICK route \in Routes, o \in Order :
          /\ status[o] # None
          /\ self' = [self EXCEPT ![r] = [Idle EXCEPT !.pc = "load", !.op = route, !.ord = o]]
  BY DEF Start
<1>2. Settled /\ faults' \in 0..MaxFaults
  BY DEF Start, ReadOnly, Settled, shelf, IInv, TypeOK
<1>3. r \in Proc /\ route \notin {"reserved", "succeeded"}
  BY OrdersAssumption DEF Proc
<1> QED BY <1>1, <1>2, <1>3, Procs, BeginStep

LEMMA DeliverStep ==
    ASSUME IInv, DeliverCatalogEvent \/ DeliverPaymentEvent \/ DeliverCommand
    PROVE  IInv'
<1>1. Settled /\ faults' \in 0..MaxFaults
  BY DEF DeliverCatalogEvent, DeliverPaymentEvent, DeliverCommand, Deliver, ReadOnly, Settled, shelf,
         IInv, TypeOK
<1>2. CASE DeliverCatalogEvent
  <2>1. catalogEvents \in Seq(CatalogEvent \X Order) /\ catalogEvents # <<>>
    BY <1>2 DEF DeliverCatalogEvent, Deliver, IInv, TypeOK
  <2>2. /\ Head(catalogEvents) = catalogEvents[1] /\ 1 \in 1..Len(catalogEvents)
        /\ catalogEvents[1] \in CatalogEvent \X Order
    BY <2>1
  <2> DEFINE op == catalogEvents[1][1]
             o == catalogEvents[1][2]
  <2>3. op \in CatalogEvent /\ o \in Order
    BY <2>2
  <2>4. status[o] # None /\ (op = "reserved" => o \in reserved)
    BY <2>2 DEF IInv, Messages, SaidByCatalog
  <2>5. self' = [self EXCEPT ![Consumer] = [Idle EXCEPT !.pc = "load", !.op = op, !.ord = o]]
    BY <1>2, <2>2 DEF DeliverCatalogEvent, Deliver
  <2>6. op # "succeeded" /\ op \notin PaymentEvent
    BY <2>3 DEF CatalogEvent, PaymentEvent
  <2> HIDE DEF op, o
  <2> QED BY <1>1, <2>1, <2>3, <2>4, <2>5, <2>6, Procs, BeginStep
<1>3. CASE DeliverPaymentEvent
  <2>1. paymentEvents \in Seq(PaymentEvent \X Order) /\ paymentEvents # <<>>
    BY <1>3 DEF DeliverPaymentEvent, Deliver, IInv, TypeOK
  <2>2. /\ Head(paymentEvents) = paymentEvents[1] /\ 1 \in 1..Len(paymentEvents)
        /\ paymentEvents[1] \in PaymentEvent \X Order
    BY <2>1
  <2> DEFINE op == paymentEvents[1][1]
             o == paymentEvents[1][2]
  <2>3. op \in PaymentEvent /\ o \in Order
    BY <2>2
  <2>4. status[o] # None /\ (op = "succeeded" => Charged(o))
    BY <2>2 DEF IInv, Messages, SaidByPayment
  <2>5. self' = [self EXCEPT ![Consumer] = [Idle EXCEPT !.pc = "load", !.op = op, !.ord = o]]
    BY <1>3, <2>2 DEF DeliverPaymentEvent, Deliver
  <2>6. op # "reserved" /\ op \notin CatalogEvent
    BY <2>3 DEF PaymentEvent, CatalogEvent
  <2> HIDE DEF op, o
  <2> QED BY <1>1, <2>1, <2>3, <2>4, <2>5, <2>6, Procs, BeginStep
<1>4. CASE DeliverCommand
  <2>1. catalogCommands \in Seq(CatalogCommand \X Order) /\ catalogCommands # <<>>
    BY <1>4 DEF DeliverCommand, Deliver, IInv, TypeOK
  <2>2. /\ Head(catalogCommands) = catalogCommands[1] /\ 1 \in 1..Len(catalogCommands)
        /\ catalogCommands[1] \in CatalogCommand \X Order
    BY <2>1
  <2> DEFINE op == catalogCommands[1][1]
             o == catalogCommands[1][2]
  <2>3. op \in CatalogCommand /\ o \in Order
    BY <2>2
  <2>4. status[o] # None
    BY <2>2 DEF IInv, Messages, SaidToCatalog
  <2>5. self' = [self EXCEPT ![Catalog] = [Idle EXCEPT !.pc = "load", !.op = op, !.ord = o]]
    BY <1>4, <2>2 DEF DeliverCommand, Deliver
  <2>6. op # "reserved" /\ op # "succeeded"
    BY <2>3 DEF CatalogCommand
  <2> HIDE DEF op, o
  <2> QED BY <1>1, <2>1, <2>3, <2>4, <2>5, <2>6, Procs, BeginStep
<1> QED BY <1>2, <1>3, <1>4

(* A load that decides to write: what it saw justifies what it will do.     *)
LEMMA DecideStep ==
    ASSUME IInv, NEW r \in Proc, Settled, faults' \in 0..MaxFaults,
           self[r].pc = "load", Only(r), UNCHANGED <<self[r].op, self[r].ord>>,
           self'[r].pc \in {"release", "commit", "send"},
           self'[r].pc = "release" => /\ self'[r].goal \in {"cancel", "cancelled"}
                                      /\ self[r].op \in {"cancel", "refunded"},
           self'[r].pc = "commit" =>
               /\ self'[r].goal \in Status \ {"created"}
               /\ self[r].op = "reserved" => /\ self'[r].goal = "waiting_payment"
                                            /\ status[self[r].ord] = "created"
               /\ self'[r].goal = "failed" => \/ self[r].op = "patch"
                                              \/ /\ self[r].op = "reservation_failed"
                                                 /\ status[self[r].ord] = "created"
               /\ self'[r].goal \in PastPayment => \/ Excused(self[r].ord)
                                                   \/ self[r].op = "patch" /\ self'[r].goal = "paid",
           self'[r].pc = "send" =>
               /\ r # Catalog /\ self[r].op # "reserved"
               /\ self'[r].goal \in {"refund", "confirm"}
               /\ self'[r].goal = "refund" => Excused(self[r].ord)
    PROVE  IInv'
<1>1. /\ Role(r) /\ Knows(r) /\ Busy(r)
      /\ UNCHANGED <<table, reserved, pay>>
  BY DEF IInv, Roles, Knowing, Busy, Settled
<1>2. Role(r)'
  BY <1>1 DEF Role, Busy
<1>3. Knows(r)'
  BY <1>1 DEF Knows, Busy, Charged, CatalogCommand, PaymentCommand, CatalogEvent
<1>4. Fits(r) /\ Careful(r)
  BY <1>1, <1>2, <1>3 DEF Fits, Careful
<1>5. Serves(r)'
  BY SameServed DEF Settled, toOrders
<1> QED BY <1>4, <1>5, SelfStep

LEMMA GoCommit ==
    ASSUME IInv, NEW r \in Proc, NEW new \in Status \ {"created"},
           Settled, faults' \in 0..MaxFaults, self[r].pc = "load", Goto(r, "commit", new),
           self[r].op = "reserved" => new = "waiting_payment" /\ status[self[r].ord] = "created",
           new = "failed" => \/ self[r].op = "patch"
                             \/ self[r].op = "reservation_failed" /\ status[self[r].ord] = "created",
           new \in PastPayment => Excused(self[r].ord) \/ (self[r].op = "patch" /\ new = "paid")
    PROVE  IInv'
<1> HIDE DEF Excused
<1>1. "commit" \in Step /\ new \in Goal
  BY DEF Step, Goal
<1>2. /\ Only(r) /\ UNCHANGED <<self[r].op, self[r].ord>>
      /\ self'[r].pc = "commit" /\ self'[r].goal = new
  BY <1>1, GotoMakes DEF IInv
<1> HIDE DEF IInv, PastPayment, Status
<1> QED BY <1>2, DecideStep

LEMMA GoSend ==
    ASSUME IInv, NEW r \in Proc, NEW goal \in {"refund", "confirm"},
           Settled, faults' \in 0..MaxFaults, self[r].pc = "load", Goto(r, "send", goal),
           r # Catalog, self[r].op # "reserved", goal = "refund" => Excused(self[r].ord)
    PROVE  IInv'
<1> HIDE DEF Excused
<1>1. "send" \in Step /\ goal \in Goal
  BY DEF Step, Goal, CatalogCommand, PaymentCommand
<1>2. /\ Only(r) /\ UNCHANGED <<self[r].op, self[r].ord>>
      /\ self'[r].pc = "send" /\ self'[r].goal = goal
  BY <1>1, GotoMakes DEF IInv
<1> HIDE DEF IInv, PastPayment, Status
<1> QED BY <1>2, DecideStep

LEMMA UpdateStep ==
    ASSUME IInv, NEW r \in Proc, NEW new \in Status,
           new = "waiting_payment" \/ self[r].op = "patch",
           self[r].pc = "load", self[r].op # "reserved", Update(r, new)
    PROVE  IInv'
<1>1. Settled /\ faults' \in 0..MaxFaults
  BY DEF Update, ReadOnly, Settled, shelf, IInv, TypeOK
<1>2. CASE Return(r) \/ Raise(r)
  BY <1>1, <1>2, RestStep
<1>3. CASE Goto(r, "commit", new) /\ CanTransitionTo(status[self[r].ord], new)
  <2>2. self[r].ord \in Order /\ status[self[r].ord] \in Status
    BY DEF IInv, Roles, Role, Knowing, Knows, Busy, TypeOK
  <2>3. /\ new # "created"
        /\ new \in PastPayment \ {"paid"} => status[self[r].ord] \in PastPayment
    BY <1>3, <2>2 DEF CanTransitionTo, Transitions, Status, PastPayment, Final
  <2>4. new \in PastPayment => Excused(self[r].ord) \/ (self[r].op = "patch" /\ new = "paid")
    BY <2>2, <2>3 DEF IInv, Paying, PastPayment
  <2> HIDE DEF Excused
  <2>5. new = "failed" => self[r].op = "patch"
    OBVIOUS
  <2> HIDE DEF IInv
  <2> QED BY <1>1, <1>3, <2>3, <2>4, <2>5, GoCommit
<1> QED BY <1>2, <1>3 DEF Update

LEMMA ReadsOnly ==
    ASSUME IInv, ReadOnly
    PROVE  Settled /\ faults' \in 0..MaxFaults
BY DEF ReadOnly, Settled, shelf, IInv, TypeOK

LEMMA GoRelease ==
    ASSUME IInv, NEW r \in Proc, NEW goal \in {"cancel", "cancelled"}, ReadOnly,
           self[r].pc = "load", self[r].op \in {"cancel", "refunded"},
           self' = [self EXCEPT ![r].pc = "release", ![r].goal = goal,
                                ![r].todo = Wants(self[r].ord)]
    PROVE  IInv'
<1> DEFINE todo == Wants(self[r].ord)
           h == [self[r] EXCEPT !.pc = "release", !.goal = goal, !.todo = todo]
<1>1. self \in [Proc -> Handler] /\ self[r] \in Handler
  BY DEF IInv, TypeOK
<1>2. todo \in SUBSET Product /\ "release" \in Step /\ goal \in Goal
  BY DEF Wants, Step, Goal, Status, PaymentCommand
<1>3. self' = [self EXCEPT ![r] = h]
  BY <1>1
<1> HIDE DEF todo
<1>4. /\ h \in Handler /\ h.pc = "release" /\ h.goal = goal
      /\ h.op = self[r].op /\ h.ord = self[r].ord
  BY <1>1, <1>2 DEF Handler, Goal
<1> HIDE DEF h
<1>5. Only(r) /\ self'[r] = h
  BY <1>1, <1>3, <1>4 DEF Only
<1> QED BY <1>4, <1>5, ReadsOnly, DecideStep

(* Each load of the consumer and of a request.                              *)
LEMMA LoadStep ==
    ASSUME IInv, NEW r \in Proc,
           \/ LoadReserved(r) \/ LoadReservationFailed(r) \/ LoadUpdate(r)
           \/ LoadPaymentCancelled(r) \/ LoadSucceeded(r) \/ LoadRefunded(r)
           \/ LoadCancel(r) \/ LoadClose(r)
    PROVE  IInv'
<1>1. ReadOnly /\ self[r].pc = "load"
  BY DEF LoadReserved, LoadReservationFailed, LoadUpdate, LoadPaymentCancelled, LoadSucceeded,
         LoadRefunded, LoadCancel, LoadClose, Update, Loading
<1>2. Settled /\ faults' \in 0..MaxFaults
  BY <1>1, ReadsOnly
<1>3. /\ self[r].ord \in Order /\ status[self[r].ord] \in Status /\ Role(r) /\ Knows(r)
  BY <1>1 DEF IInv, Roles, Role, Knowing, Knows, Busy, TypeOK
<1>4. Return(r) \/ Raise(r) => IInv'
  BY <1>1, <1>2, RestStep
<1>6. CASE LoadReserved(r)
  <2>1. self[r].op = "reserved"
    BY <1>6 DEF LoadReserved, Loading
  <2>2. CASE status[self[r].ord] = "created" /\ Goto(r, "commit", "waiting_payment")
    BY <1>1, <1>2, <2>1, <2>2, GoCommit DEF Status, PastPayment
  <2> QED BY <1>4, <1>6, <2>2 DEF LoadReserved
<1>7. CASE LoadReservationFailed(r)
  <2>1. self[r].op = "reservation_failed"
    BY <1>7 DEF LoadReservationFailed, Loading
  <2>2. CASE status[self[r].ord] = "created" /\ Goto(r, "commit", "failed")
    BY <1>1, <1>2, <2>1, <2>2, GoCommit DEF Status, PastPayment
  <2> QED BY <1>4, <1>7, <2>2 DEF LoadReservationFailed
<1>8. CASE LoadUpdate(r)
  <2>1. PICK new \in {"waiting_payment"} \cup Patches :
            /\ new = "waiting_payment" \/ self[r].op = "patch"
            /\ self[r].op # "reserved" /\ Update(r, new)
    BY <1>8 DEF LoadUpdate, Loading
  <2>2. new \in Status
    BY OrdersAssumption DEF Status
  <2> QED BY <1>1, <2>1, <2>2, UpdateStep
<1>9. CASE LoadPaymentCancelled(r)
  <2>1. self[r].op = "cancelled" /\ (Return(r) \/ Update(r, "waiting_payment"))
    BY <1>9 DEF LoadPaymentCancelled, Loading
  <2>2. "waiting_payment" \in Status
    BY DEF Status
  <2> QED BY <1>1, <1>4, <2>1, <2>2, UpdateStep
<1>10. CASE LoadSucceeded(r)
  <2>1. self[r].op = "succeeded" /\ Charged(self[r].ord)
    BY <1>1, <1>3, <1>10 DEF LoadSucceeded, Loading, Knows, Busy
  <2>2. r # Catalog
    BY <1>3, <2>1, OrdersAssumption DEF Role, CatalogCommand, PaymentEvent
  <2>3. CASE Goto(r, "commit", "paid")
    BY <1>1, <1>2, <2>1, <2>3, GoCommit DEF Status, PastPayment
  <2>4. CASE Goto(r, "send", "confirm")
    BY <1>1, <1>2, <2>1, <2>2, <2>4, GoSend
  <2>5. Goto(r, "commit", "paid") \/ Goto(r, "send", "confirm") \/ Return(r)
    BY <1>10 DEF LoadSucceeded
  <2> QED BY <1>4, <2>3, <2>4, <2>5
<1>11. CASE LoadRefunded(r)
  <2>1. self[r].op = "refunded"
    BY <1>11 DEF LoadRefunded, Loading
  <2>2. \/ Return(r)
        \/ self' = [self EXCEPT ![r].pc = "release", ![r].goal = "cancelled",
                                ![r].todo = Wants(self[r].ord)]
    BY <1>11 DEF LoadRefunded
  <2> QED BY <1>1, <1>4, <2>1, <2>2, GoRelease
<1>12. CASE LoadCancel(r)
  <2>1. self[r].op = "cancel"
    BY <1>12 DEF LoadCancel, Loading
  <2>2. r # Catalog
    BY <1>1, <1>3, <2>1 DEF Role, Busy, CatalogCommand
  <2>3. CASE status[self[r].ord] = "paid" /\ Goto(r, "send", "refund")
    <3>1. Excused(self[r].ord)
      BY <1>3, <2>3 DEF IInv, Paying, PastPayment
    <3> QED BY <1>1, <1>2, <2>1, <2>2, <2>3, <3>1, GoSend
  <2>4. CASE self' = [self EXCEPT ![r].pc = "release", ![r].goal = "cancel",
                                  ![r].todo = Wants(self[r].ord)]
    BY <1>1, <2>1, <2>4, GoRelease
  <2> QED BY <1>4, <1>12, <2>3, <2>4 DEF LoadCancel
<1>13. CASE LoadClose(r)
  <2>1. self[r].op = "close"
    BY <1>13 DEF LoadClose, Loading
  <2>2. CASE Goto(r, "commit", "closed") /\ CanTransitionTo(status[self[r].ord], "closed")
    <3>1. status[self[r].ord] = "delivered"
      BY <1>3, <2>2 DEF CanTransitionTo, Transitions, Status, Final
    <3>2. Excused(self[r].ord)
      BY <1>3, <3>1 DEF IInv, Paying, PastPayment
    <3> QED BY <1>1, <1>2, <2>1, <2>2, <3>2, GoCommit DEF Status, PastPayment
  <2> QED BY <1>4, <1>13, <2>2 DEF LoadClose
<1> QED BY <1>6, <1>7, <1>8, <1>9, <1>10, <1>11, <1>12, <1>13

LEMMA ConfirmStep ==
    ASSUME IInv, Confirm
    PROVE  IInv'
BY Procs, ReadsOnly, RestStep DEF Confirm, Loading

LEMMA AbortStep ==
    ASSUME IInv, NEW r \in Proc, Abort(r)
    PROVE  IInv'
<1>1. Raise(r) /\ faults' \in 0..MaxFaults
  BY OrdersAssumption DEF Abort, Fault, IInv, TypeOK
<1>2. Settled
  BY DEF Abort, Settled, shelf, IInv, TypeOK
<1> QED BY <1>1, <1>2, RestStep
-----------------------------------------------------------------------------
(* Releases.                                                               *)

LEMMA GivesBack ==
    ASSUME TypeOK, NEW o \in Order, NEW p \in Product, Shelf!Release(o, p)
    PROVE  stock' \in [Product -> Nat] /\ held' \in [Order -> [Product -> Int]]
<1>1. Items[o] \in [Product -> Nat] /\ Items[o][p] \in Nat
  BY OrdersAssumption
<1>2. stock' = [stock EXCEPT ![p] = stock[p] + Items[o][p]]
  BY DEF Shelf!Release
<1>3. held' = [held EXCEPT ![o] = [held[o] EXCEPT ![p] = held[o][p] - Items[o][p]]]
  BY DEF Shelf!Release, TypeOK
<1>4. stock[p] + Items[o][p] \in Nat /\ held[o][p] - Items[o][p] \in Int
  BY <1>1 DEF TypeOK
<1>5. stock' \in [Product -> Nat]
  BY <1>2, <1>4 DEF TypeOK
<1>6. [held[o] EXCEPT ![p] = held[o][p] - Items[o][p]] \in [Product -> Int]
  BY <1>4 DEF TypeOK
<1> QED BY <1>3, <1>5, <1>6 DEF TypeOK

LEMMA Releasing ==
    ASSUME IInv, NEW r \in Proc, self[r].pc = "release"
    PROVE  /\ self[r] \in Handler /\ self[r].ord \in Order
           /\ self[r].todo \subseteq Product
           /\ Role(r) /\ Knows(r) /\ Busy(r)
           /\ r # Catalog /\ self[r].op \notin {"reserved", "succeeded", "create"}
<1>1. self[r] \in Handler /\ Role(r) /\ Knows(r) /\ Busy(r)
  BY DEF IInv, TypeOK, Roles, Knowing, Busy
<1>2. self[r].op \in {"cancel", "refunded"}
  BY <1>1 DEF Knows
<1>3. r # Catalog
  BY <1>1, <1>2 DEF Role, Busy, CatalogCommand
<1> QED BY <1>1, <1>2, <1>3 DEF Role, Handler

LEMMA ReleaseStep ==
    ASSUME IInv, NEW r \in Proc, Release(r)
    PROVE  IInv'
<1>1. self[r].pc = "release"
  BY DEF Release, At
<1>2. /\ self[r] \in Handler /\ self[r].ord \in Order
      /\ self[r].todo \subseteq Product
      /\ Role(r) /\ Knows(r) /\ Busy(r)
      /\ r # Catalog /\ self[r].op \notin {"reserved", "succeeded", "create"}
  BY <1>1, Releasing
<1>3. /\ UNCHANGED <<table, reserved, catalogCommands, toOrders, toPayment, pay>>
      /\ faults' \in 0..MaxFaults /\ self \in [Proc -> Handler]
  BY DEF Release, IInv, TypeOK
<1>4. ASSUME NEW h \in Handler, self' = [self EXCEPT ![r] = h],
             h.op = self[r].op, h.ord = self[r].ord,
             \/ h.pc = "release" /\ h.goal = self[r].goal
             \/ h.pc = "send" /\ h.goal = "cancel"
             \/ h.pc = "commit" /\ h.goal = "cancelled",
             stock' \in [Product -> Nat] /\ held' \in [Order -> [Product -> Int]]
      PROVE  IInv'
  <2>1. Only(r) /\ self'[r] = h
    BY <1>3, <1>4 DEF Only
  <2>2. Role(r)'
    BY <1>1, <1>2, <1>4, <2>1 DEF Role, Busy
  <2>3. ASSUME h.pc = "release" /\ h.goal = self[r].goal PROVE Knows(r)'
    BY <1>1, <1>2, <1>3, <1>4, <2>1, <2>3 DEF Knows, Busy
  <2>4. ASSUME h.pc = "send" /\ h.goal = "cancel" PROVE Knows(r)'
    BY <1>1, <1>2, <1>3, <1>4, <2>1, <2>4
       DEF Knows, Busy, CatalogCommand, PaymentCommand, CatalogEvent
  <2>5. ASSUME h.pc = "commit" /\ h.goal = "cancelled" PROVE Knows(r)'
    BY <1>1, <1>2, <1>3, <1>4, <2>1, <2>5 DEF Knows, Busy, Status, PastPayment
  <2>6. Knows(r)'
    BY <1>4, <2>3, <2>4, <2>5
  <2>7. Fits(r) /\ Careful(r)
    BY <1>2, <1>4, <2>1, <2>2, <2>6 DEF Fits, Careful
  <2>8. Serves(r)'
    BY <1>3, <1>4, <2>1, SameServed DEF toOrders
  <2> QED BY <1>3, <1>4, <2>7, <2>8, SelfStep DEF Settled
<1>5. CASE \E p \in self[r].todo :
              /\ Shelf!Release(self[r].ord, p)
              /\ self' = [self EXCEPT ![r].todo = @ \ {p}]
  <2>1. PICK p \in self[r].todo :
              /\ Shelf!Release(self[r].ord, p)
              /\ self' = [self EXCEPT ![r].todo = @ \ {p}]
    BY <1>5
  <2>2. stock' \in [Product -> Nat] /\ held' \in [Order -> [Product -> Int]]
    BY <1>2, <2>1, GivesBack DEF IInv
  <2> DEFINE todo == self[r].todo \ {p}
             h == [self[r] EXCEPT !.todo = todo]
  <2>3. todo \in SUBSET Product
    BY <1>2
  <2>4. self' = [self EXCEPT ![r] = h]
    BY <1>3, <2>1
  <2> HIDE DEF todo
  <2>5. /\ h \in Handler /\ h.op = self[r].op /\ h.ord = self[r].ord
        /\ h.pc = "release" /\ h.goal = self[r].goal
    BY <1>1, <1>2, <2>3 DEF Handler
  <2> HIDE DEF h
  <2> QED BY <1>4, <2>2, <2>4, <2>5
<1>6. CASE /\ self[r].todo = {}
           /\ self' = [self EXCEPT ![r].pc = IF self[r].goal = "cancel" THEN "send" ELSE "commit"]
           /\ UNCHANGED <<stock, held>>
  <2> DEFINE step == IF self[r].goal = "cancel" THEN "send" ELSE "commit"
             h == [self[r] EXCEPT !.pc = step]
  <2>1. step \in Step /\ self[r].goal \in {"cancel", "cancelled"}
    BY <1>1, <1>2 DEF Step, Knows
  <2>2. self' = [self EXCEPT ![r] = h]
    BY <1>3, <1>6
  <2>3. \/ step = "send" /\ self[r].goal = "cancel"
        \/ step = "commit" /\ self[r].goal = "cancelled"
    BY <2>1
  <2> HIDE DEF step
  <2>4. /\ h \in Handler /\ h.op = self[r].op /\ h.ord = self[r].ord
        /\ h.pc = step /\ h.goal = self[r].goal
    BY <1>2, <2>1 DEF Handler
  <2>5. stock' \in [Product -> Nat] /\ held' \in [Order -> [Product -> Int]]
    BY <1>6 DEF IInv, TypeOK
  <2> HIDE DEF h
  <2> QED BY <1>4, <2>2, <2>3, <2>4, <2>5
<1> QED BY <1>5, <1>6 DEF Release

LEMMA TimeoutStep ==
    ASSUME IInv, NEW r \in Proc, ReleaseTimeout(r)
    PROVE  IInv'
<1>1. self[r].pc = "release"
  BY DEF ReleaseTimeout, At
<1>2. PICK p \in self[r].todo : Shelf!Release(self[r].ord, p)
  BY DEF ReleaseTimeout
<1>3. stock' \in [Product -> Nat] /\ held' \in [Order -> [Product -> Int]]
  BY <1>1, <1>2, Releasing, GivesBack DEF IInv
<1>4. Raise(r) /\ faults' \in 0..MaxFaults
  BY OrdersAssumption DEF ReleaseTimeout, Fault, IInv, TypeOK
<1>5. Settled
  BY <1>3 DEF ReleaseTimeout, Settled
<1> QED BY <1>4, <1>5, RestStep
-----------------------------------------------------------------------------
(* The writes of an order: its new status, its row.                        *)

LEMMA MessagesKept ==
    ASSUME IInv, Forward,
           UNCHANGED <<catalogCommands, catalogEvents, paymentCommands, paymentEvents, asked, pay>>
    PROVE  Messages'
<1> USE DEF IInv, TypeOK, Messages
<1>1. SaidToCatalog'
  BY DEF Forward, SaidToCatalog
<1>2. SaidByCatalog'
  BY DEF Forward, SaidByCatalog
<1>3. SaidByPayment'
  BY DEF Forward, SaidByPayment, Charged
<1>4. SaidToPayment'
  BY DEF Forward, SaidToPayment, Charged
<1> QED BY <1>1, <1>2, <1>3, <1>4

LEMMA CommitStep ==
    ASSUME IInv, NEW r \in Proc, Commit(r)
    PROVE  IInv'
<1> DEFINE x == self[r].ord
           new == self[r].goal
<1>1. /\ self[r].pc = "commit" /\ status' = [status EXCEPT ![x] = new]
      /\ UNCHANGED <<stock, held, reserved, catalogCommands, catalogEvents, paymentEvents,
                     paymentCommands, asked, pay, faults>>
      /\ patched' = IF self[r].op = "patch" THEN patched \cup {<<x, new>>} ELSE patched
  BY DEF Commit, At, shelf, toOrders, toPayment
<1>2. Role(r) /\ Knows(r) /\ Busy(r)
  BY <1>1 DEF IInv, Roles, Knowing, Busy
<1>3. /\ x \in Order /\ new \in Status \ {"created"} /\ new # None /\ status[x] # None
      /\ self[r].op = "reserved" => new = "waiting_payment"
      /\ new = "failed" => self[r].op \in {"reservation_failed", "patch"}
      /\ new \in PastPayment => Excused(x) \/ (self[r].op = "patch" /\ new = "paid")
  BY <1>1, <1>2, OrdersAssumption DEF Role, Knows
<1>4. new = "failed" => r = Consumer \/ <<x, "failed">> \in patched'
  <2>1. self[r].op = "patch" /\ new = "failed" => <<x, "failed">> \in patched'
    BY <1>1
  <2>2. self[r].op = "reservation_failed" => r = Consumer
    BY <1>2, Procs, OrdersAssumption DEF Role, Busy, CatalogCommand, CatalogEvent
  <2> QED BY <1>3, <2>1, <2>2
<1>5. status \in [Order -> Status \cup {None}] /\ self \in [Proc -> Handler]
  BY DEF IInv, TypeOK
<1>6. status' \in [Order -> Status \cup {None}]
  BY <1>1, <1>3, <1>5
<1>7. Forward
  BY <1>1, <1>3, <1>5 DEF Forward, Charged
<1>8. \A q \in Proc : q # r /\ self[q].pc \in {"check", "insert"} => status'[self[q].ord] = None
  <2> SUFFICES ASSUME NEW q \in Proc, self[q].pc \in {"check", "insert"}
               PROVE  status'[self[q].ord] = None
    OBVIOUS
  <2>1. status[self[q].ord] = None
    BY DEF IInv, Knowing, Knows
  <2> QED BY <1>1, <1>3, <1>5, <2>1
<1>9. "send" \in Step /\ {"create", "confirm"} \subseteq Goal
  BY DEF Step, Goal, CatalogCommand, PaymentCommand
<1>10. \/ self[r].op = "reserved" /\ Goto(r, "send", "create")
       \/ self[r].op = "succeeded" /\ Goto(r, "send", "confirm")
       \/ Return(r)
  BY DEF Commit
<1>11. Fits(r) /\ (self'[r].pc \in {"idle", "ack"} \/ self'[r].pc = "send")
       /\ (self'[r].pc = "send" => UNCHANGED <<self[r].op, self[r].ord>>)
       /\ self'[r].op \in {self[r].op, None}
  <2>1. CASE Return(r)
    <3>1. Rests(r)
      BY <1>1, <2>1, RestMakes DEF IInv
    <3>2. CASE self'[r] = Idle
      BY <3>1, <3>2, RestFits DEF Idle
    <3>3. CASE self'[r] = [Idle EXCEPT !.pc = "ack", !.op = self[r].op]
      BY <3>1, <3>3, RestFits DEF Idle
    <3> QED BY <3>1, <3>2, <3>3 DEF Rests
  <2>2. ASSUME NEW goal \in {"create", "confirm"}, Goto(r, "send", goal),
               goal = "create" <=> self[r].op = "reserved",
               self[r].op \in {"reserved", "succeeded"}
        PROVE  /\ Fits(r) /\ self'[r].pc = "send"
               /\ UNCHANGED <<self[r].op, self[r].ord>>
    <3>1. /\ Only(r) /\ self'[r].pc = "send" /\ self'[r].goal = goal
          /\ UNCHANGED <<self[r].op, self[r].ord>>
      BY <1>9, <2>2, GotoMakes DEF IInv
    <3>2. r # Catalog /\ self[r].op # "create"
      BY <1>2, <2>2 DEF Role, Busy, CatalogCommand
    <3>3. Role(r)'
      BY <1>2, <3>1 DEF Role, Busy
    <3>4. Knows(r)'
      BY <1>1, <1>2, <1>3, <1>7, <2>2, <3>1, <3>2
         DEF Knows, Busy, Charged, Forward, CatalogCommand, PaymentCommand, CatalogEvent
    <3> QED BY <3>1, <3>2, <3>3, <3>4 DEF Fits
  <2>3. "create" # "confirm" /\ "reserved" # "succeeded"
    OBVIOUS
  <2> QED BY <1>10, <2>1, <2>2, <2>3
<1>12. TypeOK'
  <2>1. patched' \subseteq Order \X Status
    BY <1>1, <1>3 DEF IInv, TypeOK
  <2> QED BY <1>1, <1>6, <1>11, <2>1 DEF IInv, TypeOK, Fits, Only
<1>13. Roles' /\ Knowing'
  BY <1>7, <1>8, <1>11, RolesKept
<1>14. Creators'
  BY <1>11, CreatorsKept
<1>15. Once'
  <2> SUFFICES ASSUME NEW o \in Order
               PROVE  /\ asked'[o] \in {0, 1}
                      /\ asked'[o] = 1 => o \in reserved' /\ status'[o] \notin {None, "created"} /\ Unfailed(o)'
                      /\ Starting(o)' => /\ asked'[o] = 0 /\ Unfailed(o)'
                                         /\ self'[Consumer].pc = "send" => status'[o] # "created"
                      /\ Failing(o)' => asked'[o] = 0
    BY DEF Once
  <2>1. /\ asked[o] \in {0, 1}
        /\ asked[o] = 1 => o \in reserved /\ status[o] \notin {None, "created"} /\ Unfailed(o)
        /\ Starting(o) => /\ asked[o] = 0 /\ Unfailed(o)
                          /\ self[Consumer].pc = "send" => status[o] # "created"
        /\ Failing(o) => asked[o] = 0
    BY DEF IInv, Once
  <2>2. status'[o] = IF o = x THEN new ELSE status[o]
    BY <1>1, <1>3, <1>5
  <2>3. asked[o] = 1 => status'[o] \notin {None, "created"} /\ Unfailed(o)'
    <3>1. o = x /\ new = "failed" => Failing(o) \/ <<x, "failed">> \in patched'
      BY <1>1, <1>4 DEF Failing
    <3>2. patched \subseteq patched'
      BY <1>7 DEF Forward
    <3> QED BY <1>3, <2>1, <2>2, <3>1, <3>2
  <2>4. CASE r = Consumer
    <3>1. ~Failing(o)'
      BY <1>11, <2>4 DEF Failing
    <3>2. Starting(o)' => Starting(o) /\ o = x /\ new = "waiting_payment"
      BY <1>1, <1>3, <1>11, <2>4 DEF Starting
    <3> QED BY <1>1, <2>1, <2>2, <2>3, <3>1, <3>2
  <2>5. CASE r # Consumer
    <3>1. self'[Consumer] = self[Consumer]
      BY <1>11, <2>5, Procs DEF Fits, Only
    <3> QED BY <1>1, <1>3, <1>4, <2>1, <2>2, <2>3, <2>5, <3>1 DEF Starting, Failing
  <2> QED BY <2>4, <2>5
<1>16. Paying'
  BY <1>1, <1>3, <1>5 DEF IInv, Paying, Charged
<1>17. Messages'
  BY <1>1, <1>7, MessagesKept
<1>18. Serving'
  <2>1. Serves(r)'
    BY <1>1, <1>11, SameServed
  <2> QED BY <1>1, <1>11, <2>1 DEF IInv, Serving, Serves, Fits, Only
<1> QED BY <1>12, <1>13, <1>14, <1>15, <1>16, <1>17, <1>18 DEF IInv

LEMMA InsertStep ==
    ASSUME IInv, NEW r \in Request, Insert(r)
    PROVE  IInv'
<1> DEFINE x == self[r].ord
<1>1. /\ self[r].pc = "insert" /\ status' = [status EXCEPT ![x] = "created"]
      /\ Goto(r, "send", "reserve")
      /\ UNCHANGED <<patched, stock, held, reserved, catalogCommands, catalogEvents, paymentEvents,
                     paymentCommands, asked, pay, faults>>
  BY DEF Insert, At, shelf, toOrders, toPayment
<1>2. r \in Proc /\ r # Consumer /\ r # Catalog
  BY Procs DEF Proc
<1>3. Role(r) /\ Knows(r) /\ Busy(r)
  BY <1>1, <1>2 DEF IInv, Roles, Knowing, Busy
<1>4. x \in Order /\ status[x] = None /\ self[r].op = "create" /\ "created" # None
  BY <1>1, <1>3, OrdersAssumption DEF Role, Knows, Status
<1>5. status \in [Order -> Status \cup {None}] /\ self \in [Proc -> Handler]
  BY DEF IInv, TypeOK
<1>6. status' \in [Order -> Status \cup {None}]
  BY <1>1, <1>5 DEF Status
<1>7. Forward
  BY <1>1, <1>4, <1>5 DEF Forward, Charged
<1>8. \A q \in Proc : q # r /\ self[q].pc \in {"check", "insert"} => status'[self[q].ord] = None
  <2> SUFFICES ASSUME NEW q \in Proc, q # r, self[q].pc \in {"check", "insert"}
               PROVE  status'[self[q].ord] = None
    OBVIOUS
  <2>1. /\ Role(q) /\ Busy(q) /\ self[q].op = "create" /\ status[self[q].ord] = None
    BY DEF IInv, Roles, Knowing, Knows, Busy
  <2>2. q \in Request
    BY <2>1, Procs, OrdersAssumption
       DEF Role, CatalogCommand, CatalogEvent, PaymentEvent
  <2>3. self[q].ord # x
    BY <1>4, <2>1, <2>2 DEF IInv, Creators
  <2> QED BY <1>1, <1>4, <1>5, <2>1, <2>3
<1>9. /\ Only(r) /\ self'[r].pc = "send" /\ self'[r].goal = "reserve"
      /\ UNCHANGED <<self[r].op, self[r].ord>>
  BY <1>1, <1>2, GotoMakes DEF IInv, Step, Goal, CatalogCommand
<1>10. Fits(r)
  <2>1. Role(r)'
    BY <1>3, <1>9 DEF Role, Busy
  <2>2. Knows(r)'
    BY <1>1, <1>2, <1>4, <1>5, <1>9
       DEF Knows, Busy, CatalogCommand, CatalogEvent, PaymentCommand
  <2> QED BY <1>4, <1>9, <2>1, <2>2 DEF Fits
<1>11. TypeOK'
  BY <1>1, <1>6, <1>9 DEF IInv, TypeOK, Only
<1>12. Roles' /\ Knowing'
  BY <1>2, <1>7, <1>8, <1>10, RolesKept
<1>13. Creators'
  BY <1>2, <1>10, CreatorsKept
<1>14. Once'
  <2> SUFFICES ASSUME NEW o \in Order
               PROVE  /\ asked'[o] \in {0, 1}
                      /\ asked'[o] = 1 => o \in reserved' /\ status'[o] \notin {None, "created"} /\ Unfailed(o)'
                      /\ Starting(o)' => /\ asked'[o] = 0 /\ Unfailed(o)'
                                         /\ self'[Consumer].pc = "send" => status'[o] # "created"
                      /\ Failing(o)' => asked'[o] = 0
    BY DEF Once
  <2>1. /\ asked[o] \in {0, 1}
        /\ asked[o] = 1 => o \in reserved /\ status[o] \notin {None, "created"} /\ Unfailed(o)
        /\ Starting(o) => /\ asked[o] = 0 /\ Unfailed(o)
                          /\ self[Consumer].pc = "send" => status[o] # "created"
        /\ Failing(o) => asked[o] = 0
    BY DEF IInv, Once
  <2>2. self'[Consumer] = self[Consumer]
    BY <1>2, <1>9, Procs DEF Only
  <2>3. Starting(o) => o # x
    BY <1>4, Procs DEF IInv, Knowing, Knows, Busy, Starting
  <2> QED BY <1>1, <1>4, <1>5, <2>1, <2>2, <2>3 DEF Starting, Failing
<1>15. Paying'
  BY <1>1, <1>4, <1>5 DEF IInv, Paying, Charged, PastPayment
<1>16. Messages'
  BY <1>1, <1>7, MessagesKept
<1>17. Serving'
  BY <1>1, <1>2, <1>9 DEF IInv, Serving, Serves, Only
<1> QED BY <1>11, <1>12, <1>13, <1>14, <1>15, <1>16, <1>17 DEF IInv
-----------------------------------------------------------------------------
(* Queues.                                                                 *)

LEMMA Appended ==
    ASSUME NEW S, NEW q \in Seq(S), NEW m \in S
    PROVE  /\ Append(q, m) \in Seq(S) /\ Append(q, m) # <<>>
           /\ Len(Append(q, m)) = Len(q) + 1
           /\ \A i \in 1..Len(Append(q, m)) :
                 \/ i \in 1..Len(q) /\ Append(q, m)[i] = q[i]
                 \/ i = Len(q) + 1 /\ Append(q, m)[i] = m
OBVIOUS

LEMMA Beheaded ==
    ASSUME NEW S, NEW q \in Seq(S), q # <<>>
    PROVE  /\ Tail(q) \in Seq(S)
           /\ 1 \in 1..Len(q) /\ Head(q) = q[1]
           /\ \A i \in 1..Len(Tail(q)) :
                 i \in Int /\ i # 0 /\ i + 1 \in 1..Len(q) /\ Tail(q)[i] = q[i + 1]
OBVIOUS

(* A step of a handler that leaves the orders alone but moves messages.    *)
LEMMA QueueStep ==
    ASSUME IInv, NEW r \in Proc, Fits(r), Careful(r), TypeOK', Messages', Serving',
           UNCHANGED <<table, reserved, asked, pay>>
    PROVE  IInv'
<1>1. Forward
  BY DEF Forward, Charged
<1>2. \A q \in Proc : q # r /\ self[q].pc \in {"check", "insert"} => status'[self[q].ord] = None
  BY DEF IInv, Knowing, Knows
<1>3. Roles' /\ Knowing'
  BY <1>1, <1>2, RolesKept
<1>4. Creators' /\ Once'
  BY CreatorsKept, OnceKept
<1>5. Paying'
  BY DEF IInv, Paying, Charged
<1> QED BY <1>3, <1>4, <1>5 DEF IInv

LEMMA SendToCatalogStep ==
    ASSUME IInv, NEW r \in Proc, SendToCatalog(r)
    PROVE  IInv'
<1> DEFINE m == <<self[r].goal, self[r].ord>>
<1>1. /\ self[r].pc = "send" /\ self[r].goal \in CatalogCommand
      /\ catalogCommands' = Append(catalogCommands, m) /\ Return(r)
      /\ UNCHANGED <<table, stock, held, reserved, catalogEvents, paymentEvents,
                     paymentCommands, asked, pay, faults>>
  BY DEF SendToCatalog, At, shelf, toOrders, toPayment
<1>2. /\ self[r].ord \in Order /\ status[self[r].ord] # None
  BY <1>1 DEF IInv, Roles, Role, Knowing, Knows, Busy
<1>3. Rests(r)
  BY <1>1, RestMakes DEF IInv
<1>4. Fits(r) /\ Careful(r) /\ Only(r)
  BY <1>3, RestFits DEF Fits
<1>5. /\ catalogCommands \in Seq(CatalogCommand \X Order) /\ m \in CatalogCommand \X Order
      /\ m[2] = self[r].ord
  BY <1>1, <1>2 DEF IInv, TypeOK
<1> HIDE DEF m
<1>6. /\ catalogCommands' \in Seq(CatalogCommand \X Order) /\ catalogCommands' # <<>>
      /\ \A i \in 1..Len(catalogCommands') :
            \/ i \in 1..Len(catalogCommands) /\ catalogCommands'[i] = catalogCommands[i]
            \/ catalogCommands'[i] = m
  BY <1>1, <1>5, Appended
<1>7. TypeOK'
  BY <1>1, <1>4, <1>6 DEF IInv, TypeOK, Only
<1>8. Messages'
  <2>1. SaidToCatalog'
    BY <1>1, <1>2, <1>5, <1>6 DEF IInv, Messages, SaidToCatalog
  <2> QED BY <1>1, <2>1
          DEF IInv, Messages, SaidByCatalog, SaidByPayment, SaidToPayment, Charged
<1>9. Serving'
  <2>1. self'[r].op \in {self[r].op, None}
    <3>1. CASE self'[r] = Idle
      BY <3>1 DEF Idle
    <3>2. CASE self'[r] = [Idle EXCEPT !.pc = "ack", !.op = self[r].op]
      BY <3>2 DEF Idle
    <3> QED BY <1>3, <3>1, <3>2 DEF Rests
  <2>2. None \notin CatalogEvent \cup PaymentEvent \cup CatalogCommand
    BY OrdersAssumption
  <2> QED BY <1>1, <1>4, <1>6, <2>1, <2>2 DEF IInv, Serving, Serves, Only
<1> QED BY <1>1, <1>4, <1>7, <1>8, <1>9, QueueStep

LEMMA SendToOrdersStep ==
    ASSUME IInv, SendToOrders
    PROVE  IInv'
<1> DEFINE r == Catalog
           m == <<self[r].goal, self[r].ord>>
<1>1. /\ self[r].pc = "send"
      /\ catalogEvents' = Append(catalogEvents, m) /\ Return(r)
      /\ UNCHANGED <<table, stock, held, reserved, catalogCommands, paymentEvents,
                     paymentCommands, asked, pay, faults>>
  BY DEF SendToOrders, At, shelf, toPayment
<1>2. /\ r \in Proc /\ self[r].ord \in Order /\ status[self[r].ord] # None
      /\ self[r].goal \in CatalogEvent /\ (self[r].goal = "reserved" => self[r].ord \in reserved)
  BY <1>1, Procs DEF IInv, Roles, Role, Knowing, Knows, Busy
<1>3. Rests(r)
  BY <1>1, <1>2, RestMakes DEF IInv
<1>4. Fits(r) /\ Careful(r) /\ Only(r)
  BY <1>2, <1>3, RestFits DEF Fits
<1>5. /\ catalogEvents \in Seq(CatalogEvent \X Order) /\ m \in CatalogEvent \X Order
      /\ m[1] = self[r].goal /\ m[2] = self[r].ord
  BY <1>1, <1>2 DEF IInv, TypeOK
<1> HIDE DEF m
<1>6. /\ catalogEvents' \in Seq(CatalogEvent \X Order) /\ catalogEvents' # <<>>
      /\ \A i \in 1..Len(catalogEvents') :
            \/ i \in 1..Len(catalogEvents) /\ catalogEvents'[i] = catalogEvents[i]
            \/ catalogEvents'[i] = m
  BY <1>1, <1>5, Appended
<1>7. TypeOK'
  BY <1>1, <1>4, <1>6 DEF IInv, TypeOK, Only
<1>8. Messages'
  <2>1. SaidByCatalog'
    BY <1>1, <1>2, <1>5, <1>6 DEF IInv, Messages, SaidByCatalog
  <2> QED BY <1>1, <2>1
          DEF IInv, Messages, SaidToCatalog, SaidByPayment, SaidToPayment, Charged
<1>9. Serving'
  <2>1. self'[r].op \in {self[r].op, None}
    <3>1. CASE self'[r] = Idle
      BY <3>1 DEF Idle
    <3>2. CASE self'[r] = [Idle EXCEPT !.pc = "ack", !.op = self[r].op]
      BY <3>2 DEF Idle
    <3> QED BY <1>3, <3>1, <3>2 DEF Rests
  <2>2. None \notin CatalogEvent \cup PaymentEvent \cup CatalogCommand
    BY OrdersAssumption
  <2> QED BY <1>1, <1>4, <1>6, <2>1, <2>2 DEF IInv, Serving, Serves, Only
<1> QED BY <1>1, <1>2, <1>4, <1>7, <1>8, <1>9, QueueStep

LEMMA ReserveStep ==
    ASSUME IInv, Reserve
    PROVE  IInv'
<1> DEFINE r == Catalog
           o == self[r].ord
<1>1. /\ r \in Proc /\ r # Consumer /\ r \notin Request
      /\ self[r].pc = "load" /\ self[r].op = "reserve"
      /\ UNCHANGED <<table, catalogCommands, catalogEvents, paymentEvents,
                     paymentCommands, asked, pay, faults>>
  BY Procs DEF Reserve, Loading, toOrders, toPayment
<1>2. /\ Role(r) /\ Knows(r) /\ Busy(r) /\ o \in Order /\ status[o] # None
  BY <1>1 DEF IInv, Roles, Role, Knowing, Knows, Busy
<1>3. PICK goal \in {"reserved", "reservation_failed"} :
          /\ Goto(r, "send", goal)
          /\ \/ /\ goal = "reserved" /\ reserved' = reserved \cup {o}
                /\ Shelf!Reserve(o)
             \/ goal = "reservation_failed" /\ UNCHANGED <<stock, held, reserved>>
  BY DEF Reserve, shelf
<1>4. /\ Only(r) /\ self'[r].pc = "send" /\ self'[r].goal = goal
      /\ UNCHANGED <<self[r].op, self[r].ord>>
  BY <1>1, <1>3, GotoMakes DEF IInv, Step, Goal, CatalogEvent
<1>5. /\ reserved \subseteq reserved' /\ reserved' \subseteq Order
      /\ goal = "reserved" => o \in reserved'
  BY <1>2, <1>3 DEF IInv, TypeOK
<1>6. stock' \in [Product -> Nat] /\ held' \in [Order -> [Product -> Int]]
  <2>1. CASE Shelf!Reserve(o)
    <3>1. Items[o] \in [Product -> Nat] /\ held[o] \in [Product -> Int]
      BY <1>2, OrdersAssumption DEF IInv, TypeOK
    <3>2. \A p \in Product : stock[p] - Items[o][p] \in Nat
      <4>1. \A p \in Product : stock[p] >= Items[o][p]
        BY <2>1 DEF Shelf!Reserve, Shelf!Enough
      <4>2. stock \in [Product -> Nat]
        BY DEF IInv, TypeOK
      <4> SUFFICES ASSUME NEW p \in Product PROVE stock[p] - Items[o][p] \in Nat
        OBVIOUS
      <4>3. stock[p] \in Nat /\ Items[o][p] \in Nat /\ stock[p] >= Items[o][p]
        BY <3>1, <4>1, <4>2
      <4> QED BY <4>3
    <3>3. \A p \in Product : held[o][p] + Items[o][p] \in Int
      BY <3>1
    <3>4. /\ stock' = [p \in Product |-> stock[p] - Items[o][p]]
          /\ held' = [held EXCEPT ![o] = [p \in Product |-> held[o][p] + Items[o][p]]]
      BY <2>1 DEF Shelf!Reserve, IInv, TypeOK
    <3>5. held \in [Order -> [Product -> Int]]
      BY DEF IInv, TypeOK
    <3>6. [p \in Product |-> held[o][p] + Items[o][p]] \in [Product -> Int]
      BY <3>3
    <3> QED BY <1>2, <3>2, <3>4, <3>5, <3>6
  <2>2. CASE UNCHANGED <<stock, held, reserved>>
    BY <2>2 DEF IInv, TypeOK
  <2> QED BY <1>3, <2>1, <2>2
<1>7. Forward
  BY <1>1, <1>5 DEF Forward, Charged
<1>8. Fits(r)
  <2>1. Role(r)'
    BY <1>2, <1>4 DEF Role, Busy
  <2>2. Knows(r)'
    BY <1>1, <1>2, <1>3, <1>4, <1>5 DEF Knows, Busy, CatalogEvent
  <2> QED BY <1>1, <1>4, <2>1, <2>2 DEF Fits
<1>9. TypeOK'
  BY <1>1, <1>4, <1>5, <1>6 DEF IInv, TypeOK, Only
<1>10. Roles' /\ Knowing'
  <2>1. \A q \in Proc : q # r /\ self[q].pc \in {"check", "insert"} => status'[self[q].ord] = None
    BY <1>1 DEF IInv, Knowing, Knows
  <2> QED BY <1>1, <1>7, <1>8, <2>1, RolesKept
<1>11. Creators'
  BY <1>1, <1>8, CreatorsKept
<1>12. Once'
  <2>1. self'[Consumer] = self[Consumer]
    BY <1>1, <1>4, Procs DEF Only
  <2> QED BY <1>1, <1>5, <2>1 DEF IInv, Once, Starting, Failing
<1>13. Paying'
  BY <1>1 DEF IInv, Paying, Charged
<1>14. Messages'
  BY <1>1, <1>7, MessagesKept
<1>15. Serving'
  BY <1>1, <1>4 DEF IInv, Serving, Serves, Only
<1> QED BY <1>9, <1>10, <1>11, <1>12, <1>13, <1>14, <1>15 DEF IInv

(* The acknowledgement takes the head of a queue: the other messages stay. *)
LEMMA Acknowledged ==
    ASSUME IInv, NEW r \in Proc, self' = [self EXCEPT ![r] = Idle]
    PROVE  Fits(r) /\ Careful(r) /\ Only(r) /\ self'[r].op = None
<1>1. Rests(r)
  BY RestMakes DEF IInv, Raise
<1>2. self'[r].op = None
  BY DEF IInv, TypeOK, Idle
<1> QED BY <1>1, <1>2, RestFits DEF Fits

LEMMA AckStep ==
    ASSUME IInv, Ack
    PROVE  IInv'
<1>1. /\ self[Consumer].pc = "ack" /\ self' = [self EXCEPT ![Consumer] = Idle]
      /\ UNCHANGED <<table, stock, held, reserved, catalogCommands, paymentCommands,
                     asked, pay, faults>>
      /\ Consumer \in Proc
  BY Procs DEF Ack, At, Raise, shelf, toPayment
<1>2. Fits(Consumer) /\ Careful(Consumer) /\ Only(Consumer) /\ self'[Consumer].op = None
  BY <1>1, Acknowledged
<1>3. Serving'
  <2>1. None \notin CatalogEvent \cup PaymentEvent
    BY OrdersAssumption
  <2> QED BY <1>1, <1>2, <2>1, Procs DEF IInv, Serving, Serves, Only
<1>4. /\ catalogEvents \in Seq(CatalogEvent \X Order)
      /\ paymentEvents \in Seq(PaymentEvent \X Order)
  BY DEF IInv, TypeOK
<1>5. CASE self[Consumer].op \in CatalogEvent
  <2>1. catalogEvents # <<>>
    BY <1>1, <1>5 DEF IInv, Serving, Serves
  <2>2. catalogEvents' = Tail(catalogEvents) /\ UNCHANGED paymentEvents
    BY <1>5 DEF Ack
  <2>3. /\ catalogEvents' \in Seq(CatalogEvent \X Order)
        /\ \A i \in 1..Len(catalogEvents') :
              i + 1 \in 1..Len(catalogEvents) /\ catalogEvents'[i] = catalogEvents[i + 1]
    BY <1>4, <2>1, <2>2, Beheaded
  <2>4. TypeOK'
    BY <1>1, <1>2, <2>2, <2>3 DEF IInv, TypeOK, Only
  <2>5. SaidByCatalog'
    BY <1>1, <2>3 DEF IInv, Messages, SaidByCatalog
  <2>6. Messages'
    BY <1>1, <2>2, <2>5
       DEF IInv, Messages, SaidToCatalog, SaidByPayment, SaidToPayment, Charged
  <2> QED BY <1>1, <1>2, <1>3, <2>4, <2>6, QueueStep
<1>6. CASE self[Consumer].op \notin CatalogEvent
  <2>1. paymentEvents # <<>>
    <3>1. self[Consumer].op # None
      BY <1>1 DEF IInv, Roles, Role
    <3> QED BY <1>1, <1>6, <3>1 DEF IInv, Serving, Serves, Roles, Role
  <2>2. paymentEvents' = Tail(paymentEvents) /\ UNCHANGED catalogEvents
    BY <1>6 DEF Ack
  <2>3. /\ paymentEvents' \in Seq(PaymentEvent \X Order)
        /\ \A i \in 1..Len(paymentEvents') :
              i + 1 \in 1..Len(paymentEvents) /\ paymentEvents'[i] = paymentEvents[i + 1]
    BY <1>4, <2>1, <2>2, Beheaded
  <2>4. TypeOK'
    BY <1>1, <1>2, <2>2, <2>3 DEF IInv, TypeOK, Only
  <2>5. SaidByPayment'
    BY <1>1, <2>3 DEF IInv, Messages, SaidByPayment, Charged
  <2>6. Messages'
    BY <1>1, <2>2, <2>5
       DEF IInv, Messages, SaidToCatalog, SaidByCatalog, SaidToPayment, Charged
  <2> QED BY <1>1, <1>2, <1>3, <2>4, <2>6, QueueStep
<1> QED BY <1>5, <1>6

LEMMA AckCommandStep ==
    ASSUME IInv, AckCommand
    PROVE  IInv'
<1>1. /\ self[Catalog].pc = "ack" /\ self' = [self EXCEPT ![Catalog] = Idle]
      /\ catalogCommands' = Tail(catalogCommands)
      /\ UNCHANGED <<table, stock, held, reserved, catalogEvents, paymentEvents, paymentCommands,
                     asked, pay, faults>>
      /\ Catalog \in Proc
  BY Procs DEF AckCommand, At, Raise, shelf, toOrders, toPayment
<1>2. Fits(Catalog) /\ Careful(Catalog) /\ Only(Catalog) /\ self'[Catalog].op = None
  BY <1>1, Acknowledged
<1>3. Serving'
  <2>1. None \notin CatalogCommand
    BY OrdersAssumption
  <2> QED BY <1>1, <1>2, <2>1, Procs DEF IInv, Serving, Serves, Only
<1>4. catalogCommands # <<>>
  BY <1>1 DEF IInv, Serving, Serves, Roles, Role
<1>5. /\ catalogCommands' \in Seq(CatalogCommand \X Order)
      /\ \A i \in 1..Len(catalogCommands') :
            i + 1 \in 1..Len(catalogCommands) /\ catalogCommands'[i] = catalogCommands[i + 1]
  BY <1>1, <1>4, Beheaded DEF IInv, TypeOK
<1>6. TypeOK'
  BY <1>1, <1>2, <1>5 DEF IInv, TypeOK, Only
<1>7. SaidToCatalog'
  BY <1>1, <1>5 DEF IInv, Messages, SaidToCatalog
<1>8. Messages'
  BY <1>1, <1>7 DEF IInv, Messages, SaidByCatalog, SaidByPayment, SaidToPayment, Charged
<1> QED BY <1>1, <1>2, <1>3, <1>6, <1>8, QueueStep
-----------------------------------------------------------------------------
(* Commands to payment-service, and what it does with them.                *)

LEMMA AskStep ==
    ASSUME IInv, NEW r \in Proc, SendToPayment(r), self[r].goal = "create"
    PROVE  IInv'
<1> DEFINE x == self[r].ord
           m == <<"create", x>>
<1>1. /\ self[r].pc = "send" /\ Return(r)
      /\ paymentCommands' = Append(paymentCommands, m)
      /\ asked' = [asked EXCEPT ![x] = @ + 1]
      /\ UNCHANGED <<table, stock, held, reserved, catalogCommands, catalogEvents, paymentEvents,
                     pay, faults>>
  BY DEF SendToPayment, At, shelf, toOrders
<1>2. /\ x \in Order /\ status[x] # None /\ self[r].op = "reserved" /\ x \in reserved
      /\ Role(r)
  BY <1>1 DEF IInv, Roles, Role, Knowing, Knows, Busy
<1>3. r = Consumer
  BY <1>2, Procs, OrdersAssumption DEF Role, CatalogCommand, CatalogEvent
<1>4. asked[x] = 0 /\ Unfailed(x) /\ status[x] # "created" /\ pay[x] = "none"
  BY <1>1, <1>2, <1>3 DEF IInv, Once, Starting, Paying
<1>5. Rests(r)
  BY <1>1, RestMakes DEF IInv
<1>6. /\ Fits(r) /\ Only(r) /\ self'[r].pc \in {"idle", "ack"}
      /\ self'[r].op \in {self[r].op, None}
  <2>1. CASE self'[r] = Idle
    BY <1>5, <2>1, RestFits DEF Idle, Fits
  <2>2. CASE self'[r] = [Idle EXCEPT !.pc = "ack", !.op = self[r].op]
    BY <1>5, <2>2, RestFits DEF Idle, Fits
  <2> QED BY <1>5, <2>1, <2>2 DEF Rests
<1>7. /\ paymentCommands \in Seq(PaymentCommand \X Order) /\ m \in PaymentCommand \X Order
      /\ m[1] = "create" /\ m[2] = x
  BY <1>2 DEF IInv, TypeOK, PaymentCommand
<1> HIDE DEF m
<1>8. /\ paymentCommands' \in Seq(PaymentCommand \X Order)
      /\ \A i \in 1..Len(paymentCommands') :
            \/ i \in 1..Len(paymentCommands) /\ paymentCommands'[i] = paymentCommands[i]
            \/ i = Len(paymentCommands) + 1 /\ paymentCommands'[i] = m
  BY <1>1, <1>7, Appended
<1>9. asked \in [Order -> Nat] /\ asked' \in [Order -> Nat] /\ asked'[x] = 1
      /\ \A o \in Order : o # x => asked'[o] = asked[o]
  BY <1>1, <1>2, <1>4 DEF IInv, TypeOK
<1>10. TypeOK'
  BY <1>1, <1>6, <1>8, <1>9 DEF IInv, TypeOK, Only
<1>11. Forward
  BY <1>1 DEF Forward, Charged
<1>12. Roles' /\ Knowing'
  <2>1. \A q \in Proc : q # r /\ self[q].pc \in {"check", "insert"} => status'[self[q].ord] = None
    BY <1>1 DEF IInv, Knowing, Knows
  <2> QED BY <1>6, <1>11, <2>1, RolesKept
<1>13. Creators'
  BY <1>6, CreatorsKept
<1>14. Once'
  <2> SUFFICES ASSUME NEW o \in Order
               PROVE  /\ asked'[o] \in {0, 1}
                      /\ asked'[o] = 1 => o \in reserved' /\ status'[o] \notin {None, "created"} /\ Unfailed(o)'
                      /\ ~Starting(o)' /\ ~Failing(o)'
    BY DEF Once
  <2>1. ~Starting(o)' /\ ~Failing(o)'
    BY <1>3, <1>6 DEF Starting, Failing
  <2>2. /\ asked[o] \in {0, 1}
        /\ asked[o] = 1 => o \in reserved /\ status[o] \notin {None, "created"} /\ Unfailed(o)
    BY DEF IInv, Once
  <2>3. CASE o = x
    BY <1>1, <1>2, <1>4, <1>9, <2>1, <2>3
  <2>4. CASE o # x
    BY <1>1, <1>9, <2>1, <2>2, <2>4
  <2> QED BY <2>3, <2>4
<1>15. Paying'
  <2> SUFFICES ASSUME NEW o \in Order
               PROVE  /\ asked'[o] = 0 => pay[o] = "none"
                      /\ status[o] \in PastPayment => Excused(o)
    BY <1>1 DEF Paying, Charged
  <2>1. /\ asked[o] = 0 => pay[o] = "none"
        /\ status[o] \in PastPayment => Excused(o)
    BY DEF IInv, Paying
  <2> QED BY <1>9, <2>1
<1>16. Messages'
  <2>1. ASSUME NEW i \in 1..Len(paymentCommands')
        PROVE  /\ paymentCommands'[i][1] = "create" => asked'[paymentCommands'[i][2]] = 1
               /\ paymentCommands'[i][1] = "refund" =>
                      \/ pay'[paymentCommands'[i][2]] \in {"succeeded", "refunded"}
                      \/ <<paymentCommands'[i][2], "paid">> \in patched'
    <3>1. CASE i \in 1..Len(paymentCommands) /\ paymentCommands'[i] = paymentCommands[i]
      <4> DEFINE c == paymentCommands[i]
      <4>1. /\ c[2] \in Order
            /\ c[1] = "create" => asked[c[2]] = 1
            /\ c[1] = "refund" => Excused(c[2])
        BY <1>7, <3>1 DEF IInv, Messages, SaidToPayment
      <4>2. paymentCommands'[i] = c
        BY <3>1
      <4> HIDE DEF c
      <4> QED BY <1>1, <1>4, <1>9, <4>1, <4>2 DEF Charged
    <3>2. CASE paymentCommands'[i] = m
      BY <1>7, <1>9, <3>2
    <3> QED BY <1>8, <3>1, <3>2
  <2>2. SaidToPayment'
    BY <2>1 DEF SaidToPayment, Charged
  <2> QED BY <1>1, <2>2 DEF IInv, Messages, SaidToCatalog, SaidByCatalog, SaidByPayment, Charged
<1>17. Serving'
  <2>1. Serves(r)'
    BY <1>1, <1>6, SameServed
  <2> QED BY <1>1, <1>6, <2>1 DEF IInv, Serving, Serves, Only
<1> QED BY <1>10, <1>12, <1>13, <1>14, <1>15, <1>16, <1>17 DEF IInv

LEMMA SendToPaymentStep ==
    ASSUME IInv, NEW r \in Proc, SendToPayment(r), self[r].goal # "create"
    PROVE  IInv'
<1> DEFINE x == self[r].ord
           m == <<self[r].goal, x>>
<1>1. /\ self[r].pc = "send" /\ self[r].goal \in PaymentCommand
      /\ paymentCommands' = Append(paymentCommands, m)
      /\ \/ self[r].goal = "cancel" /\ Goto(r, "commit", "cancelled")
         \/ Return(r)
      /\ UNCHANGED <<table, stock, held, reserved, catalogCommands, catalogEvents, paymentEvents,
                     asked, pay, faults>>
  BY DEF SendToPayment, At, shelf, toOrders
<1>2. /\ Role(r) /\ Knows(r) /\ Busy(r)
      /\ x \in Order /\ status[x] # None /\ self[r].op # "reserved"
      /\ self[r].goal = "refund" => Excused(x)
  BY <1>1 DEF IInv, Roles, Role, Knowing, Knows, Busy
<1>3. /\ Fits(r) /\ Careful(r) /\ self'[r].op \in {self[r].op, None}
  <2>1. CASE Return(r)
    <3>1. Rests(r)
      BY <1>1, <2>1, RestMakes DEF IInv
    <3>2. CASE self'[r] = Idle
      BY <3>1, <3>2, RestFits DEF Idle
    <3>3. CASE self'[r] = [Idle EXCEPT !.pc = "ack", !.op = self[r].op]
      BY <3>1, <3>3, RestFits DEF Idle
    <3> QED BY <3>1, <3>2, <3>3 DEF Rests
  <2>2. CASE self[r].goal = "cancel" /\ Goto(r, "commit", "cancelled")
    <3>1. /\ Only(r) /\ self'[r].pc = "commit" /\ self'[r].goal = "cancelled"
          /\ UNCHANGED <<self[r].op, self[r].ord>>
      BY <2>2, GotoMakes DEF IInv, Step, Goal, Status
    <3>2. Role(r)'
      BY <1>2, <3>1 DEF Role, Busy
    <3>3. Knows(r)'
      BY <1>1, <1>2, <3>1 DEF Knows, Busy, Charged, Status, PastPayment
    <3> QED BY <1>2, <3>1, <3>2, <3>3 DEF Fits, Careful
  <2> QED BY <1>1, <2>1, <2>2
<1>4. /\ paymentCommands \in Seq(PaymentCommand \X Order) /\ m \in PaymentCommand \X Order
      /\ m[1] = self[r].goal /\ m[2] = x
  BY <1>1, <1>2 DEF IInv, TypeOK
<1> HIDE DEF m
<1>5. /\ paymentCommands' \in Seq(PaymentCommand \X Order)
      /\ \A i \in 1..Len(paymentCommands') :
            \/ i \in 1..Len(paymentCommands) /\ paymentCommands'[i] = paymentCommands[i]
            \/ i = Len(paymentCommands) + 1 /\ paymentCommands'[i] = m
  BY <1>1, <1>4, Appended
<1>6. TypeOK'
  BY <1>1, <1>3, <1>5 DEF IInv, TypeOK, Fits, Only
<1>7. Messages'
  <2>1. ASSUME NEW i \in 1..Len(paymentCommands')
        PROVE  /\ paymentCommands'[i][1] = "create" => asked'[paymentCommands'[i][2]] = 1
               /\ paymentCommands'[i][1] = "refund" =>
                      \/ pay'[paymentCommands'[i][2]] \in {"succeeded", "refunded"}
                      \/ <<paymentCommands'[i][2], "paid">> \in patched'
    <3>1. CASE i \in 1..Len(paymentCommands) /\ paymentCommands'[i] = paymentCommands[i]
      <4> DEFINE c == paymentCommands[i]
      <4>1. /\ c[1] = "create" => asked[c[2]] = 1
            /\ c[1] = "refund" => Excused(c[2])
        BY <3>1 DEF IInv, Messages, SaidToPayment
      <4>2. paymentCommands'[i] = c
        BY <3>1
      <4> HIDE DEF c
      <4> QED BY <1>1, <4>1, <4>2 DEF Charged
    <3>2. CASE paymentCommands'[i] = m
      <4>1. m[1] # "create" /\ (m[1] = "refund" => Excused(m[2]))
        BY <1>2, <1>4
      <4> QED BY <1>1, <3>2, <4>1 DEF Charged
    <3> QED BY <1>5, <3>1, <3>2
  <2>2. SaidToPayment'
    BY <2>1 DEF SaidToPayment, Charged
  <2> QED BY <1>1, <2>2 DEF IInv, Messages, SaidToCatalog, SaidByCatalog, SaidByPayment, Charged
<1>8. Serving'
  <2>1. Serves(r)'
    BY <1>1, <1>3, SameServed
  <2> QED BY <1>1, <1>3, <2>1 DEF IInv, Serving, Serves, Fits, Only
<1> QED BY <1>1, <1>3, <1>6, <1>7, <1>8, QueueStep

(* What any payment-service that keeps its word does to the payments, and  *)
(* what it may say: what it said already, or what is so of one order.      *)
LEMMA KeepsItsWord ==
    ASSUME IInv, NEW o \in Order, Side!Pay(o), pay' \in [Order -> PayStatus],
           UNCHANGED <<table, asked>>
    PROVE  /\ \A x \in Order : pay'[x] # "none" => asked[x] = 1
           /\ \A x \in Order : Charged(x) => Charged(x)'
           /\ \A i \in 1..Len(paymentEvents') :
                 \/ \E j \in 1..Len(paymentEvents) : paymentEvents'[i] = paymentEvents[j]
                 \/ /\ paymentEvents'[i][2] = o /\ pay'[o] # "none"
                    /\ paymentEvents'[i][1] = "succeeded" => Charged(o)'
<1>1. \A x \in Order : asked[x] \in {0, 1} /\ (asked[x] = 0 => pay[x] = "none")
  BY DEF IInv, Once, Paying
<1>2. \A x \in Order : pay'[x] # "none" => pay[x] # "none" \/ asked[x] > 0
  BY DEF Side!Pay, Side!Money, Side!Joins
<1>3. \A x \in Order : pay'[x] # "none" => asked[x] = 1
  BY <1>1, <1>2
<1>4. \A x \in Order : Charged(x) => Charged(x)'
  BY DEF Side!Pay, Side!Money, Side!Joins
<1>5. ASSUME NEW i \in 1..Len(paymentEvents')
      PROVE  \/ \E j \in 1..Len(paymentEvents) : paymentEvents'[i] = paymentEvents[j]
             \/ /\ paymentEvents'[i][2] = o /\ pay'[o] # "none"
                /\ paymentEvents'[i][1] = "succeeded" => Charged(o)'
  <2> DEFINE told == {paymentEvents[j] : j \in 1..Len(paymentEvents)}
  <2>1. paymentEvents'[i] \in told'
    OBVIOUS
  <2>2. CASE UNCHANGED told
    BY <2>1, <2>2
  <2>3. CASE ~UNCHANGED told
    <3>1. PICK s \in Side!Announced : Side!Sayable(s, o)' /\ told' = told \cup {<<s, o>>}
      BY <2>3 DEF Side!Pay, Side!Say
    <3>2. pay'[o] # "none" /\ (s = "succeeded" => Charged(o)')
      BY <3>1 DEF Side!Sayable
    <3>3. paymentEvents'[i] \in told \/ paymentEvents'[i] = <<s, o>>
      BY <2>1, <3>1
    <3> QED BY <3>2, <3>3
  <2> QED BY <2>2, <2>3
<1> QED BY <1>3, <1>4, <1>5

LEMMA AnyPaymentStep ==
    ASSUME IInv, AnyPayment
    PROVE  IInv'
<1>1. /\ pay \in [Order -> PayStatus] /\ pay' \in [Order -> PayStatus]
      /\ UNCHANGED <<table, stock, held, reserved, catalogCommands, catalogEvents, asked, self>>
      /\ faults' \in 0..MaxFaults
  BY DEF AnyPayment, shelf, IInv, TypeOK
<1>2. PICK o \in Order : Side!Pay(o)
  BY DEF AnyPayment
<1>3. /\ \A x \in Order : pay'[x] # "none" => asked[x] = 1
      /\ \A x \in Order : Charged(x) => Charged(x)'
      /\ \A i \in 1..Len(paymentEvents') :
            \/ \E j \in 1..Len(paymentEvents) : paymentEvents'[i] = paymentEvents[j]
            \/ /\ paymentEvents'[i][2] = o /\ pay'[o] # "none"
               /\ paymentEvents'[i][1] = "succeeded" => Charged(o)'
  BY <1>1, <1>2, KeepsItsWord
<1>4. Forward
  BY <1>1, <1>3 DEF Forward
<1>5. /\ paymentCommands' \in Seq(PaymentCommand \X Order)
      /\ \A i \in 1..Len(paymentCommands') :
            \E j \in 1..Len(paymentCommands) : paymentCommands'[i] = paymentCommands[j]
  <2>1. paymentCommands \in Seq(PaymentCommand \X Order)
    BY DEF IInv, TypeOK
  <2>2. CASE UNCHANGED paymentCommands
    BY <2>1, <2>2
  <2>3. CASE paymentCommands # <<>> /\ paymentCommands' = Tail(paymentCommands)
    BY <2>1, <2>3, Beheaded
  <2> QED BY <2>2, <2>3 DEF AnyPayment
<1>6. /\ paymentEvents \in Seq(PaymentEvent \X Order)
      /\ paymentEvents' \in Seq(PaymentEvent \X Order)
      /\ paymentEvents # <<>> => paymentEvents' # <<>>
  <2>1. paymentEvents \in Seq(PaymentEvent \X Order)
    BY DEF IInv, TypeOK
  <2>2. CASE UNCHANGED paymentEvents
    BY <2>1, <2>2
  <2>3. ASSUME NEW m \in PaymentEvent \X Order, paymentEvents' = Append(paymentEvents, m)
        PROVE  paymentEvents' \in Seq(PaymentEvent \X Order) /\ paymentEvents' # <<>>
    BY <2>1, <2>3, Appended
  <2> QED BY <2>1, <2>2, <2>3 DEF AnyPayment
<1>7. TypeOK'
  BY <1>1, <1>5, <1>6 DEF IInv, TypeOK
<1>8. Roles' /\ Knowing'
  <2> SUFFICES ASSUME NEW q \in Proc PROVE Role(q)' /\ Knows(q)'
    BY DEF Roles, Knowing
  <2>1. self[q].pc \in {"check", "insert"} => status'[self[q].ord] = None
    BY <1>1 DEF IInv, Knowing, Knows
  <2>2. self'[q] = self[q]
    BY <1>1
  <2> QED BY <1>4, <2>1, <2>2, OthersFit
<1>9. Creators' /\ Once'
  <2>1. Creators' = Creators /\ Once' = Once
    BY <1>1 DEF Creators, Once, Starting, Failing
  <2> QED BY <2>1 DEF IInv
<1>10. Paying'
  <2> SUFFICES ASSUME NEW x \in Order
               PROVE  /\ asked[x] = 0 => pay'[x] = "none"
                      /\ status[x] \in PastPayment => Charged(x)' \/ <<x, "paid">> \in patched
    BY <1>1 DEF Paying
  <2>1. /\ asked[x] = 0 => pay[x] = "none"
        /\ status[x] \in PastPayment => Excused(x)
    BY DEF IInv, Paying
  <2> QED BY <1>3, <2>1
<1>11. SaidToPayment'
  <2>1. ASSUME NEW i \in 1..Len(paymentCommands')
        PROVE  /\ paymentCommands'[i][1] = "create" => asked'[paymentCommands'[i][2]] = 1
               /\ paymentCommands'[i][1] = "refund" =>
                      \/ pay'[paymentCommands'[i][2]] \in {"succeeded", "refunded"}
                      \/ <<paymentCommands'[i][2], "paid">> \in patched'
    <3>1. PICK j \in 1..Len(paymentCommands) : paymentCommands'[i] = paymentCommands[j]
      BY <1>5
    <3> DEFINE c == paymentCommands'[i]
    <3>2. /\ c[1] = "create" => asked[c[2]] = 1
          /\ c[1] = "refund" => Excused(c[2])
      BY <3>1 DEF IInv, Messages, SaidToPayment
    <3>3. c[2] \in Order
      BY <1>5
    <3> HIDE DEF c
    <3>4. /\ c[1] = "create" => asked'[c[2]] = 1
          /\ c[1] = "refund" => \/ pay'[c[2]] \in {"succeeded", "refunded"}
                               \/ <<c[2], "paid">> \in patched'
      BY <1>1, <1>3, <3>2, <3>3 DEF Charged
    <3> QED BY <3>4 DEF c
  <2> QED BY <2>1 DEF SaidToPayment, Charged
<1>12. SaidByPayment'
  <2> SUFFICES ASSUME NEW i \in 1..Len(paymentEvents')
               PROVE  /\ status'[paymentEvents'[i][2]] # None
                      /\ paymentEvents'[i][1] = "succeeded" =>
                             pay'[paymentEvents'[i][2]] \in {"succeeded", "refunded"}
    BY DEF SaidByPayment, Charged
  <2>1. ASSUME NEW j \in 1..Len(paymentEvents), paymentEvents'[i] = paymentEvents[j]
        PROVE  /\ status'[paymentEvents'[i][2]] # None
               /\ paymentEvents'[i][1] = "succeeded" =>
                      pay'[paymentEvents'[i][2]] \in {"succeeded", "refunded"}
    <3>1. paymentEvents[j][2] \in Order
      BY <1>6
    <3> QED BY <1>1, <1>3, <2>1, <3>1 DEF IInv, Messages, SaidByPayment, Charged
  <2>2. CASE /\ paymentEvents'[i][2] = o /\ pay'[o] # "none"
             /\ paymentEvents'[i][1] = "succeeded" => Charged(o)'
    <3>1. status[o] # None
      BY <1>3, <2>2 DEF IInv, Once
    <3> QED BY <1>1, <2>2, <3>1 DEF Charged
  <2> QED BY <1>3, <2>1, <2>2
<1>13. Messages'
  BY <1>1, <1>11, <1>12 DEF IInv, Messages, SaidToCatalog, SaidByCatalog
<1>14. Serving'
  BY <1>1, <1>6 DEF IInv, Serving, Serves
<1> QED BY <1>7, <1>8, <1>9, <1>10, <1>13, <1>14 DEF IInv
-----------------------------------------------------------------------------
(* The invariant is inductive.                                             *)

LEMMA InitIInv == Init => IInv
<1> SUFFICES ASSUME Init PROVE IInv
  OBVIOUS
<1>1. Idle \in Handler /\ Idle.pc = "idle" /\ Idle.op = None /\ Idle.goal = None
  BY DEF Idle, Handler, Step
<1>2. \A r \in Proc : self[r] = Idle
  BY DEF Init
<1>3. TypeOK
  BY <1>1, OrdersAssumption DEF Init, TypeOK, Shelf!Init, PayStatus
<1>4. None \notin
         {"create", "reserved", "succeeded"} \cup CatalogEvent \cup PaymentEvent \cup CatalogCommand
  BY OrdersAssumption DEF CatalogEvent, PaymentEvent
<1>5. Roles /\ Knowing /\ Serving
  BY <1>1, <1>2, <1>4 DEF Roles, Role, Knowing, Knows, Busy, Serving, Serves
<1>6. Creators
  BY <1>1, <1>2, <1>4 DEF Creators, Proc
<1>7. Once
  BY <1>1, <1>2, <1>4, Procs DEF Init, Once, Starting, Failing
<1>8. Paying
  BY OrdersAssumption DEF Init, Paying, PastPayment, Status
<1>9. Messages
  BY DEF Init, Messages, SaidToCatalog, SaidByCatalog, SaidByPayment, SaidToPayment
<1> QED BY <1>3, <1>5, <1>6, <1>7, <1>8, <1>9 DEF IInv

LEMMA WriteStep ==
    ASSUME IInv, NEW r \in Proc, Writes(r)
    PROVE  IInv'
BY ReleaseStep, CommitStep, SendToCatalogStep, AskStep, SendToPaymentStep DEF Writes

LEMMA ShopStep == IInv /\ [Shop]_vars => IInv'
<1> SUFFICES ASSUME IInv, [Shop]_vars PROVE IInv'
  OBVIOUS
<1>1. ASSUME NEW r \in Request, Create(r) \/ Start(r) \/ Answer(r)
      PROVE  IInv'
  <2>1. r \in Proc
    BY DEF Proc
  <2> QED BY <1>1, <2>1, CreateStep, StartStep, CheckStep, InsertStep, LoadStep, WriteStep DEF Answer
<1>2. CASE DeliverCatalogEvent \/ DeliverPaymentEvent
  BY <1>2, DeliverStep
<1>3. CASE Handle
  BY <1>3, Procs, LoadStep, WriteStep, AckStep DEF Handle
<1>4. CASE Inventory
  BY <1>4, DeliverStep, ReserveStep, ConfirmStep, SendToOrdersStep, AckCommandStep DEF Inventory
<1>5. ASSUME NEW r \in Proc, Abort(r) \/ ReleaseTimeout(r)
      PROVE  IInv'
  BY <1>5, AbortStep, TimeoutStep
<1>6. CASE UNCHANGED vars
  <2>1. Settled /\ UNCHANGED <<stock, held, self, faults, catalogEvents, paymentEvents,
                              paymentCommands, asked>>
    BY <1>6 DEF vars, shelf, toOrders, toPayment, Settled, IInv, TypeOK
  <2> QED BY <2>1 DEF Settled, IInv, TypeOK, Roles, Role, Busy, Knowing, Knows, Charged, Creators,
                      Once, Starting, Failing, Paying, Messages, SaidToCatalog, SaidByCatalog,
                      SaidByPayment, SaidToPayment, Serving, Serves
<1> QED BY <1>1, <1>2, <1>3, <1>4, <1>5, <1>6 DEF Shop

(* Nothing takes back a payment that was asked for, and what asks for it   *)
(* is counted.                                                             *)
LEMMA AskedStays ==
    ASSUME IInv, Shop
    PROVE  \A o \in Order : asked[o] = 1 => asked'[o] = 1
<1>1. asked \in [Order -> Nat]
  BY DEF IInv, TypeOK
<1>2. ASSUME NEW r \in Proc, SendToPayment(r)
      PROVE  \A o \in Order : asked[o] = 1 => asked'[o] = 1
  <2>1. /\ self[r].ord \in Order
        /\ self[r].goal = "create" => asked[self[r].ord] = 0
    <3>1. self[r].pc = "send" /\ self[r].goal \in PaymentCommand
      BY <1>2 DEF SendToPayment, At
    <3>2. self[r].ord \in Order
      BY <3>1 DEF IInv, Roles, Role, Busy
    <3>3. ASSUME self[r].goal = "create" PROVE asked[self[r].ord] = 0
      <4>1. self[r].op = "reserved"
        BY <3>1, <3>3 DEF IInv, Knowing, Knows
      <4>2. r = Consumer
        <5>1. "reserved" \in CatalogEvent /\ "reserved" \notin {"create"} \cup Routes \cup {None}
          BY OrdersAssumption DEF CatalogEvent
        <5>2. "reserved" \notin CatalogCommand \cup {None}
          BY OrdersAssumption DEF CatalogEvent, CatalogCommand
        <5> QED BY <4>1, <5>1, <5>2, Procs DEF IInv, Roles, Role
      <4> QED BY <3>1, <3>2, <4>1, <4>2 DEF IInv, Once, Starting
    <3> QED BY <3>2, <3>3
  <2>2. \/ UNCHANGED asked
        \/ self[r].goal = "create" /\ asked' = [asked EXCEPT ![self[r].ord] = @ + 1]
    BY <1>2 DEF SendToPayment
  <2> QED BY <1>1, <2>1, <2>2
<1>3. Request \subseteq Proc /\ Consumer \in Proc
  BY Procs DEF Proc
<1>4. UNCHANGED asked \/ \E r \in Proc : SendToPayment(r)
  <2>1. ASSUME NEW r, Writes(r) PROVE UNCHANGED asked \/ SendToPayment(r)
    BY <2>1 DEF Writes, Release, Commit, SendToCatalog, toPayment
  <2>2. ASSUME NEW r, LoadUpdate(r) PROVE UNCHANGED asked
    BY <2>2 DEF LoadUpdate, Update, ReadOnly, toPayment
  <2>3. ASSUME NEW r \in Request, Create(r) \/ Start(r) \/ Answer(r)
        PROVE  UNCHANGED asked \/ SendToPayment(r)
    BY <2>1, <2>2, <2>3
    DEF Answer, Create, Start, Check, Insert, LoadCancel, LoadClose, ReadOnly, toPayment
  <2>4. CASE DeliverCatalogEvent \/ DeliverPaymentEvent \/ Inventory
    BY <2>4 DEF DeliverCatalogEvent, DeliverPaymentEvent, DeliverCommand, Deliver, Inventory,
                Reserve, Confirm, SendToOrders, AckCommand, ReadOnly, toPayment
  <2>5. CASE Handle
    <3>1. CASE Writes(Consumer) \/ LoadUpdate(Consumer)
      BY <1>3, <2>1, <2>2, <3>1
    <3>2. CASE \/ LoadReserved(Consumer) \/ LoadReservationFailed(Consumer) \/ LoadSucceeded(Consumer)
               \/ LoadRefunded(Consumer) \/ LoadPaymentCancelled(Consumer) \/ Ack
      BY <3>2 DEF LoadReserved, LoadReservationFailed, LoadSucceeded, LoadRefunded,
                  LoadPaymentCancelled, Update, Ack, ReadOnly, toPayment
    <3> QED BY <2>5, <3>1, <3>2 DEF Handle
  <2>6. CASE \E r \in Proc : Abort(r) \/ ReleaseTimeout(r)
    BY <2>6 DEF Abort, ReleaseTimeout, toPayment
  <2> QED BY <1>3, <2>3, <2>4, <2>5, <2>6 DEF Shop
<1> QED BY <1>2, <1>4

LEMMA OpenIInv == OpenSpec => []IInv
<1>1. IInv /\ [Shop \/ AnyPayment]_vars => IInv'
  BY ShopStep, AnyPaymentStep
<1> QED BY <1>1, InitIInv, PTL DEF OpenSpec
-----------------------------------------------------------------------------
(* Next to any payment-service that keeps the word of PaymentSide.         *)

(* Whatever a payment-service says, in whatever order and how often, the   *)
(* tables, queues, handlers and histories keep their types.                *)
THEOREM OpenTyped == OpenSpec => []TypeOK
<1>1. IInv => TypeOK
  BY DEF IInv
<1> QED BY <1>1, OpenIInv, PTL

(* handle_inventory_reserved asks for a payment once, and only for items   *)
(* that were taken from stock: not because of what payment-service does.   *)
THEOREM OpenPaymentStartsOnce == OpenSpec => []PaymentStartedOnce
<1>1. IInv => PaymentStartedOnce
  <2> SUFFICES ASSUME IInv, NEW o \in Order PROVE asked[o] <= 1 /\ (asked[o] = 1 => o \in reserved)
    BY DEF PaymentStartedOnce
  <2>1. asked[o] \in {0, 1} /\ (asked[o] = 1 => o \in reserved)
    BY DEF IInv, Once
  <2> QED BY <2>1
<1> QED BY <1>1, OpenIInv, PTL

(* An order that failed was not asked to be paid, so no payment-service    *)
(* that opens payments only when asked can charge it; unless PATCH, which  *)
(* asks only what the graph allows, is what failed it.                     *)
THEOREM OpenFailedNeverCharged == OpenSpec => []FailedIsNeverCharged
<1>1. IInv => FailedIsNeverCharged
  <2> SUFFICES ASSUME IInv, NEW o \in Order, status[o] = "failed", ~Patched(o, "failed")
               PROVE  pay[o] = "none"
    BY DEF FailedIsNeverCharged
  <2>1. /\ asked[o] \in {0, 1} /\ (asked[o] = 1 => Unfailed(o))
        /\ asked[o] = 0 => pay[o] = "none"
    BY DEF IInv, Once, Paying
  <2> QED BY <2>1
<1> QED BY <1>1, OpenIInv, PTL

(* An order goes past payment, and is refunded, only when it was charged:  *)
(* all order-service needs is that an announced success is one, repeated,  *)
(* late or out of order as it may be.  Or PATCH named it paid.             *)
THEOREM OpenPaidWasCharged == OpenSpec => []PaidMeansCharged
<1>1. IInv => PaidMeansCharged
  <2> SUFFICES ASSUME IInv, NEW o \in Order,
                      \/ status[o] \in PastPayment
                      \/ In(paymentCommands, <<"refund", o>>)
               PROVE  Excused(o)
    BY DEF PaidMeansCharged, PastPayment
  <2>1. CASE status[o] \in PastPayment
    BY <2>1 DEF IInv, Paying
  <2>2. CASE In(paymentCommands, <<"refund", o>>)
    BY <2>2 DEF In, IInv, Messages, SaidToPayment
  <2> QED BY <2>1, <2>2
<1> QED BY <1>1, OpenIInv, PTL
-----------------------------------------------------------------------------
(* payment-service as Orders reduces it is one of them.                    *)

(* The command that creates a payment is queued once, before there is one. *)
Unopened ==
    /\ \A i \in 1..Len(paymentCommands) :
           paymentCommands[i][1] = "create" => pay[paymentCommands[i][2]] = "none"
    /\ \A i, j \in 1..Len(paymentCommands) :
           (paymentCommands[i] = paymentCommands[j] /\ paymentCommands[i][1] = "create") => i = j

(* A payment that exists was asked for, and no second command creates it.  *)
LEMMA Existing ==
    ASSUME IInv, Unopened, NEW o \in Order, pay[o] # "none"
    PROVE  /\ asked[o] = 1
           /\ \A i \in 1..Len(paymentCommands) : paymentCommands[i] # <<"create", o>>
<1>1. asked[o] \in {0, 1} /\ (asked[o] = 0 => pay[o] = "none")
  BY DEF IInv, Once, Paying
<1> QED BY <1>1 DEF Unopened

LEMMA HeadLeaves ==
    ASSUME IInv, Unopened, NEW o \in Order, NEW kind \in PaymentCommand, Commanded(kind, o)
    PROVE  /\ paymentCommands # <<>> /\ paymentCommands' = Tail(paymentCommands)
           /\ kind = "create" => asked[o] = 1 /\ pay[o] = "none"
           /\ kind = "create" \/ pay[o] # "none" =>
                 \A i \in 1..Len(paymentCommands') : paymentCommands'[i] # <<"create", o>>
<1>1. /\ paymentCommands # <<>> /\ paymentCommands' = Tail(paymentCommands)
      /\ Head(paymentCommands) = <<kind, o>>
      /\ paymentCommands \in Seq(PaymentCommand \X Order)
  BY DEF Commanded, IInv, TypeOK
<1>2. /\ 1 \in 1..Len(paymentCommands) /\ paymentCommands[1] = <<kind, o>>
      /\ \A i \in 1..Len(paymentCommands') :
            /\ i \in Int /\ i # 0 /\ i + 1 \in 1..Len(paymentCommands)
            /\ paymentCommands'[i] = paymentCommands[i + 1]
  BY <1>1, Beheaded
<1>3. kind = "create" => asked[o] = 1 /\ pay[o] = "none"
  <2> HIDE DEF Excused
  <2> QED BY <1>2 DEF IInv, Messages, SaidToPayment, Unopened
<1>4. ASSUME kind = "create" \/ pay[o] # "none", NEW i \in 1..Len(paymentCommands'),
             paymentCommands'[i] = <<"create", o>>
      PROVE  FALSE
  <2>1. /\ i + 1 \in 1..Len(paymentCommands) /\ paymentCommands[i + 1] = <<"create", o>>
        /\ i + 1 # 1
    BY <1>2, <1>4
  <2>2. CASE kind = "create"
    <3>1. /\ paymentCommands[i + 1] = paymentCommands[1]
          /\ paymentCommands[i + 1][1] = "create"
      BY <1>2, <2>1, <2>2
    <3> QED BY <1>2, <2>1, <3>1 DEF Unopened
  <2>3. CASE pay[o] # "none"
    BY <2>1, <2>3, Existing
  <2> QED BY <1>4, <2>2, <2>3
<1> QED BY <1>1, <1>3, <1>4

(* One payment moves forward and what is said of it is so: a step of the   *)
(* payment side.                                                           *)
LEMMA PayKeepsWord ==
    ASSUME IInv, NEW o \in Order, NEW new \in PayStatus \ {"none"}, NEW said \in PaymentEvent,
           asked[o] = 1,
           pay' = [pay EXCEPT ![o] = new],
           Charged(o) => new \in {"succeeded", "refunded"},
           pay[o] = "refunded" => new = "refunded",
           said = "succeeded" => new = "succeeded",
           said = "refunded" => new = "refunded",
           UNCHANGED asked,
           Announce(o, said) \/ UNCHANGED <<paymentEvents, faults>>
    PROVE  Side!Pay(o)
<1>1. /\ pay \in [Order -> PayStatus]
      /\ pay'[o] = new /\ \A x \in Order : x # o => pay'[x] = pay[x]
      /\ paymentEvents \in Seq(PaymentEvent \X Order) /\ <<said, o>> \in PaymentEvent \X Order
  BY DEF IInv, TypeOK
<1> DEFINE wanted == {x \in Order : asked[x] > 0}
           opened == {x \in Order : pay[x] # "none"}
           charged == {x \in Order : Charged(x)}
           repaid == {x \in Order : pay[x] = "refunded"}
           told == {paymentEvents[i] : i \in 1..Len(paymentEvents)}
<1>2. o \in wanted /\ UNCHANGED wanted
  OBVIOUS
<1>3. opened' = opened \cup {o}
  BY <1>1
<1>4. charged' = charged \/ (o \in opened' /\ charged' = charged \cup {o})
  <2>1. \A x \in Order : x # o => (Charged(x)' <=> Charged(x))
    BY <1>1 DEF Charged
  <2>2. CASE Charged(o) \/ ~Charged(o)'
    <3>1. Charged(o)' <=> Charged(o)
      BY <1>1, <2>2 DEF Charged
    <3> QED BY <2>1, <3>1
  <2>3. CASE ~Charged(o) /\ Charged(o)'
    BY <1>3, <2>1, <2>3
  <2> QED BY <2>2, <2>3
<1>5. repaid' = repaid \/ (o \in charged' /\ repaid' = repaid \cup {o})
  <2>1. CASE new = "refunded"
    <3>1. Charged(o)'
      BY <1>1, <2>1 DEF Charged
    <3>2. repaid' = repaid \cup {o}
      BY <1>1, <2>1
    <3> QED BY <3>1, <3>2
  <2>2. CASE new # "refunded"
    BY <1>1, <2>2
  <2> QED BY <2>1, <2>2
<1>6. Side!Money(o)
  BY <1>2, <1>3, <1>4, <1>5 DEF Side!Money, Side!Joins
<1>7. UNCHANGED told \/ Side!Say(o)
  <2>1. UNCHANGED paymentEvents \/ paymentEvents' = Append(paymentEvents, <<said, o>>)
    BY DEF Announce
  <2>2. CASE UNCHANGED paymentEvents
    BY <2>2
  <2>3. CASE paymentEvents' = Append(paymentEvents, <<said, o>>)
    <3>1. /\ Len(paymentEvents') = Len(paymentEvents) + 1
          /\ \A i \in 1..Len(paymentEvents) : paymentEvents'[i] = paymentEvents[i]
          /\ paymentEvents'[Len(paymentEvents) + 1] = <<said, o>>
          /\ Len(paymentEvents) \in Nat
          /\ \A i \in 1..Len(paymentEvents') :
                 \/ i \in 1..Len(paymentEvents) /\ paymentEvents'[i] = paymentEvents[i]
                 \/ paymentEvents'[i] = <<said, o>>
      BY <1>1, <2>3, Appended
    <3>2. told' = told \cup {<<said, o>>}
      <4>1. ASSUME NEW m PROVE m \in told' <=> m \in told \/ m = <<said, o>>
        <5>1. m \in told' <=> \E i \in 1..Len(paymentEvents') : m = paymentEvents'[i]
          OBVIOUS
        <5>2. m \in told <=> \E i \in 1..Len(paymentEvents) : m = paymentEvents[i]
          OBVIOUS
        <5> HIDE DEF told
        <5>3. m \in told' => m \in told \/ m = <<said, o>>
          BY <3>1, <5>1, <5>2
        <5>4. m \in told => m \in told'
          BY <3>1, <5>1, <5>2
        <5>5. m = <<said, o>> => m \in told'
          BY <3>1, <5>1
        <5> QED BY <5>3, <5>4, <5>5
      <4> HIDE DEF told
      <4> QED BY <4>1
    <3>3. said \in Side!Announced
      BY DEF PaymentEvent, Side!Announced
    <3>4. Side!Sayable(said, o)'
      BY <1>1, <1>3 DEF Side!Sayable, Charged
    <3> QED BY <3>2, <3>3, <3>4 DEF Side!Say
  <2> QED BY <2>1, <2>2, <2>3
<1> QED BY <1>2, <1>6, <1>7 DEF Side!Pay

LEMMA PayIsOpen ==
    ASSUME IInv, NEW o \in Order, NEW new \in PayStatus \ {"none"}, NEW said \in PaymentEvent,
           asked[o] = 1,
           pay' = [pay EXCEPT ![o] = new],
           Charged(o) => new \in {"succeeded", "refunded"},
           pay[o] = "refunded" => new = "refunded",
           said = "succeeded" => new = "succeeded",
           said = "refunded" => new = "refunded",
           UNCHANGED <<table, shelf, catalogCommands, catalogEvents, asked, self>>,
           \/ UNCHANGED paymentCommands
           \/ paymentCommands # <<>> /\ paymentCommands' = Tail(paymentCommands),
           \A i \in 1..Len(paymentCommands') : paymentCommands'[i] # <<"create", o>>,
           Announce(o, said) \/ UNCHANGED <<paymentEvents, faults>>
    PROVE  AnyPayment
<1>1. Side!Pay(o)
  BY PayKeepsWord
<1>2. pay' \in [Order -> PayStatus]
  BY DEF IInv, TypeOK
<1>3. /\ \/ UNCHANGED faults
         \/ faults < MaxFaults /\ faults' = faults + 1
      /\ \/ UNCHANGED paymentEvents
         \/ paymentEvents' = Append(paymentEvents, <<said, o>>)
  BY DEF Announce
<1>4. faults \in 0..MaxFaults /\ MaxFaults \in Nat
  BY OrdersAssumption DEF IInv, TypeOK
<1>5. faults' \in {faults, faults + 1} \cap 0..MaxFaults
  BY <1>3, <1>4
<1>6. <<said, o>> \in PaymentEvent \X Order
  OBVIOUS
<1> QED BY <1>1, <1>2, <1>3, <1>5, <1>6 DEF AnyPayment

LEMMA PayerIsOpen ==
    ASSUME IInv, Unopened, NEW o \in Order, Payer(o)
    PROVE  AnyPayment
<1> USE DEF PaymentMoves
<1>1. /\ pay[o] # "none" /\ ~Charged(o) /\ pay[o] # "refunded"
      /\ UNCHANGED paymentCommands
      /\ UNCHANGED <<table, shelf, catalogCommands, catalogEvents, asked, self>>
  BY DEF Payer, Process, Settle, PayerCancels, Retry, Charged
<1>2. /\ asked[o] = 1
      /\ \A i \in 1..Len(paymentCommands) : paymentCommands[i] # <<"create", o>>
  BY <1>1, Existing
<1>3. \E new \in PayStatus \ {"none"}, said \in PaymentEvent :
          /\ pay' = [pay EXCEPT ![o] = new]
          /\ new # "refunded" /\ said # "refunded" /\ (said = "succeeded" => new = "succeeded")
          /\ Announce(o, said) \/ UNCHANGED <<paymentEvents, faults>>
  BY DEF Payer, Process, Settle, PayerCancels, Retry, PayStatus, PaymentEvent
<1> QED BY <1>1, <1>2, <1>3, PayIsOpen

LEMMA ObeyIsOpen ==
    ASSUME IInv, Unopened, ObeyCommand
    PROVE  AnyPayment
<1>1. PICK o \in Order :
        \/ /\ Commanded("create", o)
           /\ PaymentMoves(o, {"none", "failed", "cancelled", "refunded"}, "pending")
           /\ Announce(o, "pending")
        \/ /\ Commanded("cancel", o)
           /\ PaymentMoves(o, {"pending"}, "cancelled") /\ Announce(o, "cancelled")
        \/ /\ Commanded("refund", o)
           /\ PaymentMoves(o, {"succeeded"}, "refunded") /\ Announce(o, "refunded")
        \/ /\ Commanded("create", o) \/ Commanded("cancel", o) \/ Commanded("refund", o)
           /\ UNCHANGED <<table, shelf, catalogCommands, toOrders, asked, pay, self, faults>>
  BY DEF ObeyCommand
<1>2. {"create", "cancel", "refund"} \subseteq PaymentCommand
  BY DEF PaymentCommand
<1>3. /\ {"pending", "cancelled", "refunded"} \subseteq PayStatus \ {"none"}
      /\ {"pending", "cancelled", "refunded"} \subseteq PaymentEvent
  BY DEF PayStatus, PaymentEvent
<1>4. CASE /\ Commanded("create", o)
           /\ PaymentMoves(o, {"none", "failed", "cancelled", "refunded"}, "pending")
           /\ Announce(o, "pending")
  <2>1. /\ asked[o] = 1 /\ ~Charged(o) /\ pay[o] # "refunded"
        /\ paymentCommands # <<>> /\ paymentCommands' = Tail(paymentCommands)
        /\ \A i \in 1..Len(paymentCommands') : paymentCommands'[i] # <<"create", o>>
    BY <1>2, <1>4, HeadLeaves DEF Charged
  <2> QED BY <1>3, <1>4, <2>1, PayIsOpen DEF PaymentMoves
<1>5. CASE /\ Commanded("cancel", o)
           /\ PaymentMoves(o, {"pending"}, "cancelled") /\ Announce(o, "cancelled")
  <2>1. pay[o] # "none" /\ ~Charged(o) /\ pay[o] # "refunded"
    BY <1>5 DEF PaymentMoves, Charged
  <2>2. /\ asked[o] = 1
        /\ paymentCommands # <<>> /\ paymentCommands' = Tail(paymentCommands)
        /\ \A i \in 1..Len(paymentCommands') : paymentCommands'[i] # <<"create", o>>
    BY <1>2, <1>5, <2>1, HeadLeaves, Existing
  <2> QED BY <1>3, <1>5, <2>1, <2>2, PayIsOpen DEF PaymentMoves
<1>6. CASE /\ Commanded("refund", o)
           /\ PaymentMoves(o, {"succeeded"}, "refunded") /\ Announce(o, "refunded")
  <2>1. pay[o] # "none"
    BY <1>6 DEF PaymentMoves
  <2>2. /\ asked[o] = 1
        /\ paymentCommands # <<>> /\ paymentCommands' = Tail(paymentCommands)
        /\ \A i \in 1..Len(paymentCommands') : paymentCommands'[i] # <<"create", o>>
    BY <1>2, <1>6, <2>1, HeadLeaves, Existing
  <2> QED BY <1>3, <1>6, <2>2, PayIsOpen DEF PaymentMoves
<1>7. CASE /\ Commanded("create", o) \/ Commanded("cancel", o) \/ Commanded("refund", o)
           /\ UNCHANGED <<table, shelf, catalogCommands, toOrders, asked, pay, self, faults>>
  <2>1. paymentCommands # <<>> /\ paymentCommands' = Tail(paymentCommands)
    BY <1>7 DEF Commanded
  <2>2. /\ UNCHANGED <<table, shelf, catalogCommands, catalogEvents, paymentEvents, asked, pay,
                       self, faults>>
        /\ pay' \in [Order -> PayStatus] /\ faults' \in {faults, faults + 1} \cap 0..MaxFaults
    BY <1>7 DEF toOrders, IInv, TypeOK
  <2>3. Side!Pay(o)
    BY <2>2 DEF Side!Pay, Side!Money, Side!Joins, Charged
  <2> QED BY <2>1, <2>2, <2>3 DEF AnyPayment
<1> QED BY <1>1, <1>4, <1>5, <1>6, <1>7

(* No step queues a create twice, or opens a payment whose create waits.   *)
LEMMA UnopenedStep ==
    ASSUME IInv, Unopened, [Next]_vars
    PROVE  Unopened'
<1>1. CASE UNCHANGED <<paymentCommands, pay>>
  BY <1>1 DEF Unopened
<1>2. ASSUME NEW r \in Proc, SendToPayment(r) PROVE Unopened'
  <2> DEFINE x == self[r].ord
             m == <<self[r].goal, x>>
  <2>1. /\ paymentCommands' = Append(paymentCommands, m) /\ UNCHANGED pay
        /\ self[r].pc = "send" /\ self[r].goal \in PaymentCommand
    BY <1>2 DEF SendToPayment, At
  <2>2. Role(r) /\ Knows(r) /\ x \in Order
    BY <2>1 DEF IInv, Roles, Role, Knowing, Busy
  <2>3. /\ paymentCommands \in Seq(PaymentCommand \X Order) /\ m \in PaymentCommand \X Order
        /\ m[1] = self[r].goal /\ m[2] = x
    BY <2>1, <2>2 DEF IInv, TypeOK
  <2>4. self[r].goal = "create" => asked[x] = 0 /\ pay[x] = "none"
    <3> SUFFICES ASSUME self[r].goal = "create" PROVE asked[x] = 0 /\ pay[x] = "none"
      OBVIOUS
    <3>1. self[r].op = "reserved"
      BY <2>1, <2>2 DEF Knows
    <3>2. r = Consumer
      BY <2>2, <3>1, Procs, OrdersAssumption DEF Role, CatalogCommand, CatalogEvent
    <3> QED BY <2>1, <2>2, <3>1, <3>2 DEF IInv, Once, Starting, Paying
  <2> HIDE DEF m
  <2>5. \A i \in 1..Len(paymentCommands') :
            \/ i \in 1..Len(paymentCommands) /\ paymentCommands'[i] = paymentCommands[i]
            \/ i = Len(paymentCommands) + 1 /\ paymentCommands'[i] = m
    BY <2>1, <2>3, Appended
  <2>6. m[1] = "create" => \A i \in 1..Len(paymentCommands) : paymentCommands[i] # m
    <3> HIDE DEF Excused
    <3> QED BY <2>3, <2>4 DEF IInv, Messages, SaidToPayment
  <2>7. ASSUME NEW i \in 1..Len(paymentCommands')
        PROVE  paymentCommands'[i][1] = "create" => pay[paymentCommands'[i][2]] = "none"
    BY <2>3, <2>4, <2>5 DEF Unopened
  <2>8. ASSUME NEW i \in 1..Len(paymentCommands'), NEW j \in 1..Len(paymentCommands'),
               paymentCommands'[i] = paymentCommands'[j], paymentCommands'[i][1] = "create"
        PROVE  i = j
    BY <2>5, <2>6, <2>8 DEF Unopened
  <2> QED BY <2>1, <2>7, <2>8 DEF Unopened
<1>3. ASSUME NEW o \in Order, pay' = [pay EXCEPT ![o] = pay'[o]],
             \A i \in 1..Len(paymentCommands') : paymentCommands'[i] # <<"create", o>>,
             \/ UNCHANGED paymentCommands
             \/ paymentCommands # <<>> /\ paymentCommands' = Tail(paymentCommands)
      PROVE  Unopened'
  <2>1. /\ paymentCommands \in Seq(PaymentCommand \X Order) /\ pay \in [Order -> PayStatus]
        /\ \A y \in Order : y # o => pay'[y] = pay[y]
    BY <1>3 DEF IInv, TypeOK
  <2>2. /\ paymentCommands' \in Seq(PaymentCommand \X Order)
        /\ \E d \in {0, 1} : \A i \in 1..Len(paymentCommands') :
               /\ i \in Int /\ i + d \in 1..Len(paymentCommands)
               /\ paymentCommands'[i] = paymentCommands[i + d]
    <3>1. CASE UNCHANGED paymentCommands
      BY <2>1, <3>1
    <3>2. CASE paymentCommands # <<>> /\ paymentCommands' = Tail(paymentCommands)
      BY <2>1, <3>2, Beheaded
    <3> QED BY <1>3, <3>1, <3>2
  <2>3. PICK d \in {0, 1} : \A i \in 1..Len(paymentCommands') :
               /\ i \in Int /\ i + d \in 1..Len(paymentCommands)
               /\ paymentCommands'[i] = paymentCommands[i + d]
    BY <2>2
  <2>4. ASSUME NEW i \in 1..Len(paymentCommands'), paymentCommands'[i][1] = "create"
        PROVE  pay'[paymentCommands'[i][2]] = "none"
    <3>1. /\ paymentCommands'[i] \in PaymentCommand \X Order
          /\ paymentCommands'[i] # <<"create", o>>
      BY <1>3, <2>2
    <3>2. paymentCommands'[i][2] \in Order /\ paymentCommands'[i][2] # o
      BY <2>4, <3>1
    <3>3. pay[paymentCommands'[i][2]] = "none"
      BY <2>3, <2>4 DEF Unopened
    <3> QED BY <2>1, <3>2, <3>3
  <2>5. ASSUME NEW i \in 1..Len(paymentCommands'), NEW j \in 1..Len(paymentCommands'),
               paymentCommands'[i] = paymentCommands'[j], paymentCommands'[i][1] = "create"
        PROVE  i = j
    <3>1. /\ i + d \in 1..Len(paymentCommands) /\ j + d \in 1..Len(paymentCommands)
          /\ paymentCommands[i + d] = paymentCommands[j + d]
          /\ paymentCommands[i + d][1] = "create" /\ i \in Int /\ j \in Int
      BY <2>3, <2>5
    <3>2. i + d = j + d
      BY <3>1 DEF Unopened
    <3> QED BY <3>1, <3>2
  <2> QED BY <2>4, <2>5 DEF Unopened
<1>4. ASSUME NEW o \in Order, Payer(o) PROVE Unopened'
  <2>1. /\ pay[o] # "none" /\ pay' = [pay EXCEPT ![o] = pay'[o]] /\ UNCHANGED paymentCommands
    BY <1>4 DEF Payer, Process, Settle, PayerCancels, Retry, PaymentMoves, IInv, TypeOK
  <2> QED BY <1>3, <2>1, Existing
<1>5. ASSUME ObeyCommand PROVE Unopened'
  <2>1. PICK o \in Order, kind \in PaymentCommand :
            /\ Commanded(kind, o)
            /\ \/ UNCHANGED pay
               \/ /\ \E new \in PayStatus : pay' = [pay EXCEPT ![o] = new]
                  /\ kind = "create" \/ pay[o] # "none"
    BY <1>5 DEF ObeyCommand, PaymentMoves, PaymentCommand, PayStatus
  <2>2. paymentCommands # <<>> /\ paymentCommands' = Tail(paymentCommands)
    BY <2>1, HeadLeaves
  <2>3. CASE UNCHANGED pay
    <3>1. /\ paymentCommands \in Seq(PaymentCommand \X Order)
          /\ \A i \in 1..Len(paymentCommands') :
                 /\ i \in Int /\ i + 1 \in 1..Len(paymentCommands)
                 /\ paymentCommands'[i] = paymentCommands[i + 1]
      BY <2>2, Beheaded DEF IInv, TypeOK
    <3>2. ASSUME NEW i \in 1..Len(paymentCommands'), NEW j \in 1..Len(paymentCommands'),
                 paymentCommands'[i] = paymentCommands'[j], paymentCommands'[i][1] = "create"
          PROVE  i = j
      <4>1. /\ i + 1 \in 1..Len(paymentCommands) /\ j + 1 \in 1..Len(paymentCommands)
            /\ paymentCommands[i + 1] = paymentCommands[j + 1]
            /\ paymentCommands[i + 1][1] = "create" /\ i \in Int /\ j \in Int
        BY <3>1, <3>2
      <4>2. i + 1 = j + 1
        BY <4>1 DEF Unopened
      <4> QED BY <4>1, <4>2
    <3> QED BY <2>3, <3>1, <3>2 DEF Unopened
  <2>4. CASE ~UNCHANGED pay
    <3>1. pay' = [pay EXCEPT ![o] = pay'[o]]
      BY <2>1, <2>4 DEF IInv, TypeOK
    <3>2. \A i \in 1..Len(paymentCommands') : paymentCommands'[i] # <<"create", o>>
      BY <2>1, <2>4, HeadLeaves
    <3> QED BY <1>3, <2>2, <3>1, <3>2
  <2> QED BY <2>3, <2>4
<1>6. \/ UNCHANGED <<paymentCommands, pay>>
      \/ \E r \in Proc : SendToPayment(r)
      \/ ObeyCommand
      \/ \E o \in Order : Payer(o)
  BY Procs DEF Next, Shop, Create, Start, Answer, Check, Insert, LoadUpdate, Update, LoadCancel,
     LoadClose, Writes, Release, Commit, SendToCatalog, DeliverCatalogEvent,
     DeliverPaymentEvent, Deliver, Handle, LoadReserved, LoadReservationFailed,
     LoadPaymentCancelled, LoadSucceeded, LoadRefunded, Ack, Inventory, DeliverCommand,
     Reserve, Confirm, SendToOrders, AckCommand, Abort, ReleaseTimeout, ReadOnly, toPayment,
     vars, Proc
<1> QED BY <1>1, <1>2, <1>4, <1>5, <1>6

(* With both invariants, each step is one of the shop or of a payment      *)
(* side that keeps its word.                                               *)
LEMMA SpecIInv == Spec => [](IInv /\ Unopened)
<1>1. Init => IInv /\ Unopened
  BY InitIInv DEF Init, Unopened
<1>2. IInv /\ Unopened /\ [Next]_vars => [Shop \/ AnyPayment]_vars
  BY PayerIsOpen, ObeyIsOpen DEF Next
<1>3. IInv /\ Unopened /\ [Next]_vars => (IInv /\ Unopened)'
  BY <1>2, ShopStep, AnyPaymentStep, UnopenedStep
<1> QED BY <1>1, <1>3, PTL DEF Spec

(* The payment-service that Orders has keeps the word of PaymentSide, so   *)
(* all that holds next to any payment-service holds next to this one.      *)
THEOREM OrdersNextToAnyPayment == Spec => OpenSpec
<1>1. IInv /\ Unopened /\ [Next]_vars => [Shop \/ AnyPayment]_vars
  BY PayerIsOpen, ObeyIsOpen DEF Next
<1> QED BY <1>1, SpecIInv, PTL DEF Spec, OpenSpec
-----------------------------------------------------------------------------
(* The tables, queues, handlers and histories keep their types.            *)
THEOREM OrdersTyped == Spec => []TypeOK
BY OrdersNextToAnyPayment, OpenTyped, PTL

(* handle_inventory_reserved: however often a reservation is answered or   *)
(* redelivered, payment.create is sent once, and only for items that were  *)
(* taken from stock.                                                       *)
THEOREM PaymentStartsOnce == Spec => []PaymentStartedOnce
BY OrdersNextToAnyPayment, OpenPaymentStartsOnce, PTL

(* A failed order was never asked to be paid, so it was never charged;     *)
(* unless PATCH failed it.                                                 *)
THEOREM FailedNeverCharged == Spec => []FailedIsNeverCharged
BY OrdersNextToAnyPayment, OpenFailedNeverCharged, PTL

(* Past payment, or asked to be refunded, an order was charged; unless     *)
(* PATCH named it paid.                                                    *)
THEOREM PaidWasCharged == Spec => []PaidMeansCharged
BY OrdersNextToAnyPayment, OpenPaidWasCharged, PTL
-----------------------------------------------------------------------------
(* The catalog behind Orders: what its sessions have locked, and what each *)
(* is doing (self of Inventory).                                           *)
VARIABLES locked, work

Shelves == INSTANCE Inventory WITH self <- work

(* A row that was updated and not committed belongs to one session.        *)
Exclusive == \A s, t \in Shelves!Session : s # t => locked[s] \cap locked[t] = {}

(* What a session has updated, and has yet to update, are the rows it      *)
(* began with.                                                             *)
Rows(s) == locked[s] \cup work[s].todo

Working(s) ==
    LET o == work[s].ord
        op == work[s].op
    IN  /\ op = "idle" => locked[s] = {} /\ work[s] = Shelves!Idle
        /\ op # "idle" => o \in Order
        /\ op = "batch" => Rows(s) = Shelves!Wants(o)
        /\ op \in {"reserve", "release"} => \E p \in Shelves!Wants(o) : Rows(s) = {p}

(* A reserving session found enough in the rows it holds, and nobody else  *)
(* has changed them since.                                                 *)
Covered(s) ==
    work[s].op \in {"batch", "reserve"} =>
        \A p \in locked[s] : stock[p] >= Items[work[s].ord][p]

ShelvesInv == Shelves!TypeOK /\ Exclusive /\ (\A s \in Shelves!Session : Working(s) /\ Covered(s))
-----------------------------------------------------------------------------
LEMMA SessionIdleFits == Shelves!Idle \in Shelves!Work /\ Shelves!Idle.op = "idle" /\ Shelves!Idle.todo = {}
BY DEF Shelves!Idle, Shelves!Work

LEMMA Quantity ==
    ASSUME NEW o \in Order, NEW p \in Product
    PROVE  Items[o][p] \in Nat /\ (p \notin Shelves!Wants(o) => Items[o][p] = 0)
<1>1. Items[o] \in [Product -> Nat]
  BY OrdersAssumption
<1> QED BY <1>1 DEF Shelves!Wants

LEMMA InitShelves == Shelves!Init => ShelvesInv
<1> SUFFICES ASSUME Shelves!Init PROVE ShelvesInv
  OBVIOUS
<1>1. Shelves!TypeOK
  BY SessionIdleFits, OrdersAssumption DEF Shelves!Init, Shelves!TypeOK, Shelves!Shelf!Init
<1>2. Exclusive
  BY DEF Shelves!Init, Exclusive
<1>3. ASSUME NEW s \in Shelves!Session PROVE Working(s) /\ Covered(s)
  BY SessionIdleFits DEF Shelves!Init, Working, Covered
<1> QED BY <1>1, <1>2, <1>3 DEF ShelvesInv

(* The sessions that do not move, while the rows they hold stay as they are. *)
LEMMA SessionsKept ==
    ASSUME ShelvesInv, NEW t \in Shelves!Session, UNCHANGED <<work[t], locked[t]>>,
           \A p \in locked[t] : stock'[p] = stock[p]
    PROVE  Working(t)' /\ Covered(t)'
BY DEF ShelvesInv, Working, Covered, Rows

LEMMA SessionBegins ==
    ASSUME ShelvesInv, NEW s \in Shelves!Session, NEW op \in {"batch", "reserve", "release"},
           NEW o \in Order, NEW rows \in SUBSET Product, Shelves!Begin(s, op, o, rows),
           op = "batch" => rows = Shelves!Wants(o),
           op # "batch" => \E p \in Shelves!Wants(o) : rows = {p}
    PROVE  ShelvesInv'
<1> DEFINE w == [op |-> op, ord |-> o, todo |-> rows]
<1>1. w \in Shelves!Work /\ w.op = op /\ w.ord = o /\ w.todo = rows
  BY DEF Shelves!Work
<1>2. /\ work \in [Shelves!Session -> Shelves!Work] /\ work[s] = Shelves!Idle
      /\ work' = [work EXCEPT ![s] = w] /\ UNCHANGED <<stock, held, locked>>
  BY DEF Shelves!Begin, ShelvesInv, Shelves!TypeOK
<1> HIDE DEF w
<1>3. work' \in [Shelves!Session -> Shelves!Work] /\ work'[s] = w /\ \A t \in Shelves!Session : t # s => work'[t] = work[t]
  BY <1>1, <1>2
<1>4. Shelves!TypeOK' /\ Exclusive'
  BY <1>2, <1>3 DEF ShelvesInv, Shelves!TypeOK, Exclusive
<1>5. locked[s] = {}
  BY <1>2, SessionIdleFits DEF ShelvesInv, Working
<1>6. Working(s)' /\ Covered(s)'
  BY <1>1, <1>2, <1>3, <1>5 DEF Working, Covered, Rows
<1>7. ASSUME NEW t \in Shelves!Session, t # s PROVE Working(t)' /\ Covered(t)'
  BY <1>2, <1>3, <1>7, SessionsKept
<1> QED BY <1>4, <1>6, <1>7 DEF ShelvesInv

LEMMA RowUpdated ==
    ASSUME ShelvesInv, NEW s \in Shelves!Session, NEW p \in Product, Shelves!Update(s, p)
    PROVE  ShelvesInv'
<1> DEFINE w == [work[s] EXCEPT !.todo = work[s].todo \ {p}]
<1>1. /\ work \in [Shelves!Session -> Shelves!Work] /\ work[s] \in Shelves!Work
      /\ locked \in [Shelves!Session -> SUBSET Product]
  BY DEF ShelvesInv, Shelves!TypeOK
<1>2. /\ p \in work[s].todo /\ Shelves!Free(s, p) /\ Shelves!Enough(s, p)
      /\ locked' = [locked EXCEPT ![s] = locked[s] \cup {p}]
      /\ work' = [work EXCEPT ![s] = w]
      /\ UNCHANGED <<stock, held>>
  BY <1>1 DEF Shelves!Update
<1>3. w \in Shelves!Work /\ w.op = work[s].op /\ w.ord = work[s].ord /\ w.todo = work[s].todo \ {p}
  BY <1>1 DEF Shelves!Work
<1> HIDE DEF w
<1>4. /\ work' \in [Shelves!Session -> Shelves!Work] /\ work'[s] = w
      /\ locked' \in [Shelves!Session -> SUBSET Product] /\ locked'[s] = locked[s] \cup {p}
      /\ \A t \in Shelves!Session : t # s => work'[t] = work[t] /\ locked'[t] = locked[t]
  BY <1>1, <1>2, <1>3
<1>5. Shelves!TypeOK'
  BY <1>2, <1>4 DEF ShelvesInv, Shelves!TypeOK
<1>6. Exclusive'
  <2>1. \A t \in Shelves!Session : t # s => p \notin locked[t]
    BY <1>2 DEF Shelves!Free
  <2> QED BY <1>4, <2>1 DEF ShelvesInv, Exclusive
<1>7. Working(s)'
  <2>1. locked'[s] \cup work'[s].todo = Rows(s)
    BY <1>2, <1>3, <1>4 DEF Rows
  <2>2. work[s].op # "idle"
    BY <1>2, SessionIdleFits DEF ShelvesInv, Working
  <2> QED BY <1>3, <1>4, <2>1, <2>2 DEF ShelvesInv, Working, Rows
<1>8. Covered(s)'
  BY <1>2, <1>3, <1>4 DEF ShelvesInv, Covered, Shelves!Enough
<1>9. ASSUME NEW t \in Shelves!Session, t # s PROVE Working(t)' /\ Covered(t)'
  BY <1>2, <1>4, <1>9, SessionsKept
<1> QED BY <1>5, <1>6, <1>7, <1>8, <1>9 DEF ShelvesInv

(* A session that ends holds nothing; the others hold what they held.      *)
LEMMA SessionEnds ==
    ASSUME ShelvesInv, NEW s \in Shelves!Session, locked' = [locked EXCEPT ![s] = {}],
           work' = [work EXCEPT ![s] = Shelves!Idle],
           stock' \in [Product -> Nat], held' \in [Order -> [Product -> Int]],
           \A p \in Product : p \notin locked[s] => stock'[p] = stock[p]
    PROVE  ShelvesInv'
<1>1. work \in [Shelves!Session -> Shelves!Work] /\ locked \in [Shelves!Session -> SUBSET Product]
  BY DEF ShelvesInv, Shelves!TypeOK
<1>2. /\ work' \in [Shelves!Session -> Shelves!Work] /\ work'[s] = Shelves!Idle
      /\ locked' \in [Shelves!Session -> SUBSET Product] /\ locked'[s] = {}
      /\ \A t \in Shelves!Session : t # s => work'[t] = work[t] /\ locked'[t] = locked[t]
  BY <1>1, SessionIdleFits
<1>3. Shelves!TypeOK'
  BY <1>2 DEF Shelves!TypeOK
<1>4. Exclusive'
  BY <1>2 DEF ShelvesInv, Exclusive
<1>5. Working(s)' /\ Covered(s)'
  BY <1>2, SessionIdleFits DEF Working, Covered
<1>6. ASSUME NEW t \in Shelves!Session, t # s PROVE Working(t)' /\ Covered(t)'
  <2>1. \A p \in locked[t] : p \in Product /\ p \notin locked[s]
    BY <1>1, <1>6 DEF ShelvesInv, Exclusive
  <2> QED BY <1>2, <1>6, <2>1, SessionsKept
<1> QED BY <1>3, <1>4, <1>5, <1>6 DEF ShelvesInv

(* What a transaction commits, to everyone else: one step of Stock.        *)
LEMMA CommitIsAtomic ==
    ASSUME ShelvesInv, NEW s \in Shelves!Session, Shelves!Commit(s)
    PROVE  /\ Shelf!Next
           /\ stock' \in [Product -> Nat] /\ held' \in [Order -> [Product -> Int]]
<1> DEFINE o == work[s].ord
           L == locked[s]
<1>1. /\ stock \in [Product -> Nat] /\ held \in [Order -> [Product -> Int]]
      /\ work[s] \in Shelves!Work /\ Working(s) /\ Covered(s)
  BY DEF ShelvesInv, Shelves!TypeOK
<1>2. work[s].op # "idle" /\ Rows(s) = L /\ o \in Order /\ held[o] \in [Product -> Int]
  BY <1>1 DEF Shelves!Commit, Working, Rows
<1>3. \A p \in Product : Items[o][p] \in Nat /\ (p \notin Shelves!Wants(o) => Items[o][p] = 0)
  BY <1>2, Quantity
<1>4. CASE work[s].op = "batch"
  <2>1. L = Shelves!Wants(o)
    BY <1>1, <1>2, <1>4 DEF Working
  <2>2. \A p \in Product : stock[p] \in Nat /\ stock[p] >= Items[o][p]
    BY <1>1, <1>3, <1>4, <2>1 DEF Covered
  <2>3. stock' = [p \in Product |-> stock[p] - Items[o][p]]
    <3>1. stock' = [p \in Product |-> IF p \in L THEN stock[p] + (-1) * Items[o][p] ELSE stock[p]]
      BY <1>4 DEF Shelves!Commit
    <3>2. \A p \in Product :
              (IF p \in L THEN stock[p] + (-1) * Items[o][p] ELSE stock[p]) = stock[p] - Items[o][p]
      BY <1>3, <2>1, <2>2
    <3> QED BY <3>1, <3>2
  <2>4. held' = [held EXCEPT ![o] = [p \in Product |-> held[o][p] + Items[o][p]]]
    <3>1. held' = [held EXCEPT ![o] = [p \in Product |->
                      IF p \in L THEN held[o][p] - (-1) * Items[o][p] ELSE held[o][p]]]
      BY <1>1, <1>2, <1>4 DEF Shelves!Commit
    <3>2. \A p \in Product : (IF p \in L THEN held[o][p] - (-1) * Items[o][p] ELSE held[o][p])
                             = held[o][p] + Items[o][p]
      BY <1>2, <1>3, <2>1
    <3> QED BY <3>1, <3>2
  <2>5. Shelf!Reserve(o)
    BY <1>1, <1>2, <2>2, <2>3, <2>4 DEF Shelf!Reserve, Shelf!Enough
  <2>6. stock' \in [Product -> Nat]
    BY <1>3, <2>2, <2>3
  <2>7. held' \in [Order -> [Product -> Int]]
    BY <1>1, <1>2, <1>3, <2>4
  <2> QED BY <1>2, <2>5, <2>6, <2>7 DEF Shelf!Next
<1>5. CASE work[s].op = "reserve"
  <2>1. PICK p \in Shelves!Wants(o) : L = {p}
    BY <1>1, <1>2, <1>5 DEF Working
  <2>2. p \in Product /\ stock[p] \in Nat /\ Items[o][p] \in Nat /\ stock[p] >= Items[o][p]
    BY <1>1, <1>3, <1>5, <2>1 DEF Covered, Shelves!Wants
  <2>3. stock' = [stock EXCEPT ![p] = stock[p] - Items[o][p]]
    <3>1. stock' = [q \in Product |-> IF q = p THEN stock[q] + (-1) * Items[o][q] ELSE stock[q]]
      BY <1>5, <2>1 DEF Shelves!Commit
    <3>2. stock[p] + (-1) * Items[o][p] = stock[p] - Items[o][p]
      BY <2>2
    <3>3. stock' = [q \in Product |-> IF q = p THEN stock[p] - Items[o][p] ELSE stock[q]]
      BY <3>1, <3>2
    <3>4. stock \in [Product -> Nat]
      BY <1>1
    <3> HIDE DEF o
    <3> QED BY <3>3, <3>4
  <2>4. held' = [held EXCEPT ![o] = [held[o] EXCEPT ![p] = held[o][p] + Items[o][p]]]
    <3>1. held' = [held EXCEPT ![o] = [q \in Product |->
                      IF q = p THEN held[o][q] - (-1) * Items[o][q] ELSE held[o][q]]]
      BY <1>1, <1>2, <1>5, <2>1 DEF Shelves!Commit
    <3>2. [q \in Product |-> IF q = p THEN held[o][q] - (-1) * Items[o][q] ELSE held[o][q]]
          = [held[o] EXCEPT ![p] = held[o][p] + Items[o][p]]
      BY <1>2, <2>2
    <3> QED BY <3>1, <3>2
  <2>5. Shelf!ReserveItem(o, p)
    BY <1>1, <1>2, <2>2, <2>3, <2>4 DEF Shelf!ReserveItem
  <2>6. stock' \in [Product -> Nat] /\ held' \in [Order -> [Product -> Int]]
    BY <1>1, <1>2, <2>2, <2>3, <2>4
  <2> QED BY <1>2, <2>2, <2>5, <2>6 DEF Shelf!Next
<1>6. CASE work[s].op = "release"
  <2>1. PICK p \in Shelves!Wants(o) : L = {p}
    BY <1>1, <1>2, <1>6 DEF Working
  <2>2. p \in Product /\ stock[p] \in Nat /\ Items[o][p] \in Nat
    BY <1>1, <1>3, <2>1 DEF Shelves!Wants
  <2>3. stock' = [stock EXCEPT ![p] = stock[p] + Items[o][p]]
    <3>1. stock' = [q \in Product |-> IF q = p THEN stock[q] + 1 * Items[o][q] ELSE stock[q]]
      BY <1>6, <2>1 DEF Shelves!Commit
    <3>2. stock[p] + 1 * Items[o][p] = stock[p] + Items[o][p]
      BY <2>2
    <3>3. stock' = [q \in Product |-> IF q = p THEN stock[p] + Items[o][p] ELSE stock[q]]
      BY <3>1, <3>2
    <3>4. stock \in [Product -> Nat]
      BY <1>1
    <3> HIDE DEF o
    <3> QED BY <3>3, <3>4
  <2>4. held' = [held EXCEPT ![o] = [held[o] EXCEPT ![p] = held[o][p] - Items[o][p]]]
    <3>1. held' = [held EXCEPT ![o] = [q \in Product |->
                      IF q = p THEN held[o][q] - 1 * Items[o][q] ELSE held[o][q]]]
      BY <1>1, <1>2, <1>6, <2>1 DEF Shelves!Commit
    <3>2. [q \in Product |-> IF q = p THEN held[o][q] - 1 * Items[o][q] ELSE held[o][q]]
          = [held[o] EXCEPT ![p] = held[o][p] - Items[o][p]]
      BY <1>2, <2>2
    <3> QED BY <3>1, <3>2
  <2>5. Shelf!Release(o, p)
    BY <1>1, <1>2, <2>2, <2>3, <2>4 DEF Shelf!Release
  <2>6. stock' \in [Product -> Nat] /\ held' \in [Order -> [Product -> Int]]
    BY <1>1, <1>2, <2>2, <2>3, <2>4
  <2> QED BY <1>2, <2>2, <2>5, <2>6 DEF Shelf!Next
<1> QED BY <1>1, <1>2, <1>4, <1>5, <1>6 DEF Shelves!Work
-----------------------------------------------------------------------------
LEMMA ShelvesStep ==
    ASSUME ShelvesInv, [Shelves!Next]_(Shelves!vars)
    PROVE  ShelvesInv' /\ (Shelf!Next \/ UNCHANGED <<stock, held>>)
<1>1. ASSUME NEW o \in Order, Shelves!ReserveProducts(o)
      PROVE  ShelvesInv' /\ UNCHANGED <<stock, held>>
  <2>1. Shelves!Catalog \in Shelves!Session /\ Shelves!Wants(o) \in SUBSET Product
    BY DEF Shelves!Session, Shelves!Wants
  <2> QED BY <1>1, <2>1, SessionBegins DEF Shelves!ReserveProducts, Shelves!Begin
<1>2. ASSUME NEW o \in Order, NEW s \in Request, Shelves!ReserveProduct(s, o) \/ Shelves!ReleaseProduct(s, o)
      PROVE  ShelvesInv' /\ UNCHANGED <<stock, held>>
  <2>1. PICK p \in Shelves!Wants(o) : Shelves!Begin(s, "reserve", o, {p}) \/ Shelves!Begin(s, "release", o, {p})
    BY <1>2 DEF Shelves!ReserveProduct, Shelves!ReleaseProduct
  <2>2. s \in Shelves!Session /\ {p} \in SUBSET Product
    BY DEF Shelves!Session, Shelves!Wants
  <2> QED BY <2>1, <2>2, SessionBegins DEF Shelves!Begin
<1>3. ASSUME NEW s \in Shelves!Session, NEW p \in Product, Shelves!Update(s, p)
      PROVE  ShelvesInv' /\ UNCHANGED <<stock, held>>
  BY <1>3, RowUpdated DEF Shelves!Update
<1>4. ASSUME NEW s \in Shelves!Session, Shelves!Rollback(s)
      PROVE  ShelvesInv' /\ UNCHANGED <<stock, held>>
  BY <1>4, SessionEnds DEF Shelves!Rollback, ShelvesInv, Shelves!TypeOK
<1>5. ASSUME NEW s \in Shelves!Session, Shelves!Commit(s)
      PROVE  ShelvesInv' /\ Shelf!Next
  <2>1. /\ Shelf!Next
        /\ stock' \in [Product -> Nat] /\ held' \in [Order -> [Product -> Int]]
    BY <1>5, CommitIsAtomic
  <2>2. \A p \in Product : p \notin locked[s] => stock'[p] = stock[p]
    BY <1>5 DEF Shelves!Commit
  <2> QED BY <1>5, <2>1, <2>2, SessionEnds DEF Shelves!Commit
<1>6. CASE UNCHANGED Shelves!vars
  BY <1>6 DEF Shelves!vars, ShelvesInv, Shelves!TypeOK, Exclusive, Working, Rows, Covered
<1> QED BY <1>1, <1>2, <1>3, <1>4, <1>5, <1>6 DEF Shelves!Next, Shelves!Go, Shelves!Refuse

LEMMA SpecShelves == Shelves!Spec => []ShelvesInv
<1>1. ShelvesInv /\ [Shelves!Next]_(Shelves!vars) => ShelvesInv'
  BY ShelvesStep
<1> QED BY <1>1, InitShelves, PTL DEF Shelves!Spec
-----------------------------------------------------------------------------
(* Committed quantities stay natural numbers and rows stay with sessions.   *)
THEOREM InventoryTyped == Shelves!Spec => []Shelves!TypeOK
<1>1. ShelvesInv => Shelves!TypeOK
  BY DEF ShelvesInv
<1> QED BY <1>1, SpecShelves, PTL

(* reserve_products, reserve_product and release_product of catalog-service: *)
(* updated row by row, beside each other, rolled back anywhere, each takes   *)
(* effect at once and whole, and only when there is enough - one of the      *)
(* steps on its own stock that Orders takes the catalog's work for.          *)
THEOREM InventoryImplementsStock == Shelves!Spec => Shelf!Spec
<1>1. Shelves!Init => Shelf!Init
  BY DEF Shelves!Init, Shelves!Shelf!Init, Shelf!Init
<1>2. ShelvesInv /\ [Shelves!Next]_(Shelves!vars) => [Shelf!Next]_<<stock, held>>
  BY ShelvesStep
<1> QED BY <1>1, <1>2, SpecShelves, PTL DEF Shelves!Spec, Shelf!Spec
=============================================================================
