------------------------------ MODULE Payments ------------------------------
(***************************************************************************)
(* payment-service: the HTTP requests of payers and the command consumer,  *)
(* interleaved at every await, over one payments table and the wallet of   *)
(* auth-service (Ledger).                                                  *)
(*                                                                         *)
(* A handler that keeps a Payment object keeps its status too: the later   *)
(* SELECTs of the same session return that object unrefreshed.  So what a  *)
(* check sees is where the handler stands, not what the row holds by then, *)
(* and the UPDATE that follows is by id alone.  A handler that dropped its *)
(* objects reads afresh.  No row is ever locked.                           *)
(*                                                                         *)
(* Faults: a handler may fail at any await (its HTTP call answered 500, or *)
(* its command requeued), and a wallet call may time out and take effect   *)
(* later.  MaxFaults bounds how many, MaxPayments the rows and MaxCommands *)
(* the queue.                                                              *)
(***************************************************************************)
EXTENDS Integers, Sequences, FiniteSets

CONSTANTS
    Order,
    Request,      \* concurrent HTTP requests
    Routes,       \* what payers call: subset of complete, cancel, retry
    Commands,     \* what order-service sends: subset of create, cancel, refund
    Price,        \* the amount of every payment
    TopUp,        \* what the payer deposits, once, at some time
    MaxCommands, MaxPayments, MaxFaults,
    None

ASSUME PaymentsAssumption ==
    /\ Routes \subseteq {"complete", "cancel", "retry"}
    /\ Commands \subseteq {"create", "cancel", "refund"}
    /\ Price \in Nat \ {0} /\ TopUp \in Nat \ {0}
    /\ MaxCommands \in Nat /\ MaxPayments \in Nat /\ MaxFaults \in Nat
    /\ None \notin Order /\ "consumer" \notin Request

(* enums/payment_status.py. *)
Status == {"pending", "processing", "succeeded", "failed", "cancelled", "refunded"}

Transitions ==
    [s \in Status |->
        CASE s = "pending"    -> {"processing", "cancelled"}
          [] s = "processing" -> {"succeeded", "failed", "cancelled"}
          [] s = "succeeded"  -> {"refunded"}
          [] OTHER            -> {}]

CanTransitionTo(s, t) == t \in Transitions[s]

(* The statuses create_payment takes for "the order has a payment already". *)
Active == {"pending", "processing", "succeeded"}

Payment == 1..MaxPayments   \* in order of created_at
Consumer == "consumer"
Proc == Request \cup {Consumer}
Payer == "payer"
Reference == {"payment", "payment-refund"} \X Payment \cup {<<"deposit", 0>>}

VARIABLES
    status, orderOf,       \* the payments table; orderOf[p] = None: no such row
    balance, operations,   \* the wallet
    late,                  \* wallet calls that timed out and are still running
    known,                 \* the balance the deposit has read, before its lock
    over,                  \* history: what the deposit put back or wrote over
    commands, sent,        \* payment.order.queue; what was ever sent to it
    published,             \* events published: <<payment, status>>
    self,                  \* the handler each process is in
    todo,                  \* cancel_pending_payments: rows still to cancel
    faults

vars == <<status, orderOf, balance, operations, late, known, over, commands, sent,
          published, self, todo, faults>>
rows == <<status, orderOf>>
deposit == <<known, over>>
wallet == <<balance, operations, late, deposit>>
queue == <<commands, sent>>

Money == INSTANCE Ledger WITH User <- {Payer}, Delta <- {-Price, Price, TopUp}

Debited(p) == Money!Applied(<<"payment", p>>)
Credited(p) == Money!Applied(<<"payment-refund", p>>)
Created == {p \in Payment : orderOf[p] # None}
Of(o) == {p \in Created : orderOf[p] = o}
Newest(p, S) == p \in S /\ \A q \in S : q <= p

(* What order-service knows of all this. *)
Side == INSTANCE PaymentSide WITH
    wanted <- {o \in Order : <<"create", o>> \in sent},
    opened <- {o \in Order : Of(o) # {}},
    charged <- {o \in Order : \E p \in Of(o) : Debited(p)},
    repaid <- {o \in Order : \E p \in Of(o) : Credited(p)},
    told <- {<<m[2], orderOf[m[1]]>> : m \in published}

Step == {"idle", "ack", "load_complete", "set_processing", "debit", "debit_locked",
         "fail", "succeed", "load_cancel", "cancel", "load_retry", "find_active",
         "insert", "publish", "list", "next", "credit", "credit_locked",
         "load_refund", "refund"}

(* pay is the payment it is about, held the status it has just written. *)
Handler == [pc: Step, op: Routes \cup Commands \cup {None},
            pay: Payment \cup {None}, held: Status \cup {None}]

Idle == [pc |-> "idle", op |-> None, pay |-> None, held |-> None]

TypeOK ==
    /\ status \in [Payment -> Status]
    /\ orderOf \in [Payment -> Order \cup {None}]
    /\ balance \in [{Payer} -> Nat]
    /\ operations \in [{Payer} -> Seq(Money!Operation)]
    /\ late \subseteq Reference
    /\ known \in Nat \cup {None} /\ over \in Int
    /\ commands \in Seq(Commands \X Order)
    /\ sent \subseteq Commands \X Order
    /\ published \subseteq Payment \X Status
    /\ self \in [Proc -> Handler]
    /\ todo \subseteq Payment
    /\ faults \in 0..MaxFaults

Init ==
    /\ status = [p \in Payment |-> "pending"]
    /\ orderOf = [p \in Payment |-> None]
    /\ Money!Init
    /\ late = {} /\ known = None /\ over = 0
    /\ commands = <<>> /\ sent = {}
    /\ published = {}
    /\ self = [r \in Proc |-> Idle]
    /\ todo = {}
    /\ faults = 0
-----------------------------------------------------------------------------
(* Control of a handler. *)

At(r, step) == self[r].pc = step
Goto(r, step) == self' = [self EXCEPT ![r].pc = step]
GotoPay(r, step, p) == self' = [self EXCEPT ![r].pc = step, ![r].pay = p]

(* Where a handler goes on returning: a request has answered; the consumer *)
(* takes the next row of cancel_pending_payments, or acknowledges.         *)
Returned(r) ==
    IF r \in Request THEN Idle
    ELSE [Idle EXCEPT !.op = self[r].op,
                      !.pc = IF self[r].op = "cancel" THEN "next" ELSE "ack"]

Return(r) == self' = [self EXCEPT ![r] = Returned(r)]

(* An exception answers the request, or requeues the command. *)
Raise(r) == self' = [self EXCEPT ![r] = Idle]

Fault(r) ==
    /\ faults < MaxFaults
    /\ faults' = faults + 1
    /\ Raise(r)

Abort(r) ==
    /\ self[r] # Idle
    /\ Fault(r)
    /\ UNCHANGED <<rows, wallet, queue, published, todo>>

(* update_status and commit: by id, whatever the row holds by now. *)
Write(r, new, step) ==
    /\ status' = [status EXCEPT ![self[r].pay] = new]
    /\ self' = [self EXCEPT ![r].pc = step, ![r].held = new]
    /\ UNCHANGED <<orderOf, wallet, queue, published, todo, faults>>
-----------------------------------------------------------------------------
(* complete_payment *)

(* Mutation: a payment found in processing is taken to have been debited. *)
LoadCompleteTrusting(r) ==
    /\ At(r, "load_complete")
    /\ CASE status[self[r].pay] = "succeeded"  -> Return(r)
         [] status[self[r].pay] = "pending"    -> Goto(r, "set_processing")
         [] status[self[r].pay] = "processing" -> Goto(r, "succeed")
         [] OTHER                              -> Raise(r)
    /\ UNCHANGED <<rows, wallet, queue, published, todo, faults>>

LoadComplete(r) ==
    LET s == status[self[r].pay]
    IN  /\ At(r, "load_complete")
        /\ CASE s = "succeeded"  -> Return(r)
             [] s = "pending"    -> Goto(r, "set_processing")
             [] s = "processing" -> Goto(r, "debit")
             [] OTHER            -> Raise(r)
        /\ UNCHANGED <<rows, wallet, queue, published, todo, faults>>

SetProcessing(r) == At(r, "set_processing") /\ Write(r, "processing", "debit")

(* BalanceService looks the reference up before it locks the user. *)
DebitLookup(r) ==
    /\ At(r, "debit")
    /\ Goto(r, IF Debited(self[r].pay) THEN "succeed" ELSE "debit_locked")
    /\ UNCHANGED <<rows, wallet, queue, published, todo, faults>>

Debit(r) ==
    /\ At(r, "debit_locked")
    /\ Money!Apply(Payer, <<"payment", self[r].pay>>, -Price)
    /\ Goto(r, "succeed")
    /\ UNCHANGED <<rows, late, deposit, queue, published, todo, faults>>

(* 409: the balance is looked at before the uniqueness of the reference. *)
DebitRefused(r) ==
    /\ At(r, "debit_locked")
    /\ balance[Payer] < Price
    /\ Goto(r, "fail")
    /\ UNCHANGED <<rows, wallet, queue, published, todo, faults>>

(* 500 from the unique index: BalanceServiceUnavailableError. *)
DebitDuplicate(r) ==
    /\ At(r, "debit_locked")
    /\ balance[Payer] >= Price
    /\ Debited(self[r].pay)
    /\ Raise(r)
    /\ UNCHANGED <<rows, wallet, queue, published, todo, faults>>

(* Mutation: a timeout is taken for a success. *)
DebitTimeoutTrusted(r) ==
    /\ At(r, "debit_locked")
    /\ faults < MaxFaults /\ faults' = faults + 1
    /\ late' = late \cup {<<"payment", self[r].pay>>}
    /\ Goto(r, "succeed")
    /\ UNCHANGED <<rows, balance, operations, deposit, queue, published, todo>>

(* The client gave up after 5 seconds; auth-service did not. *)
DebitTimeout(r) ==
    /\ At(r, "debit_locked")
    /\ late' = late \cup {<<"payment", self[r].pay>>}
    /\ Fault(r)
    /\ UNCHANGED <<rows, balance, operations, deposit, queue, published, todo>>

(* InsufficientBalanceError; a second of provider latency and success. *)
Fail(r) == At(r, "fail") /\ Write(r, "failed", "publish")
Succeed(r) == At(r, "succeed") /\ Write(r, "succeeded", "publish")

LateDebit(p) ==
    /\ <<"payment", p>> \in late
    /\ late' = late \ {<<"payment", p>>}
    /\ \/ Money!Apply(Payer, <<"payment", p>>, -Price)
       \/ /\ Debited(p) \/ balance[Payer] < Price
          /\ UNCHANGED <<balance, operations>>
    /\ UNCHANGED <<rows, deposit, queue, published, self, todo, faults>>
-----------------------------------------------------------------------------
(* cancel_payment, for a payer or from cancel_pending_payments *)

LoadCancel(r) ==
    LET s == status[self[r].pay]
    IN  /\ At(r, "load_cancel")
        /\ CASE s = "cancelled"                 -> Return(r)
             [] CanTransitionTo(s, "cancelled") -> Goto(r, "cancel")
             [] OTHER                           -> Raise(r)
        /\ UNCHANGED <<rows, wallet, queue, published, todo, faults>>

Cancel(r) == At(r, "cancel") /\ Write(r, "cancelled", "publish")

ListPending ==
    /\ At(Consumer, "list") /\ self[Consumer].op = "cancel"
    /\ todo' = {p \in Of(Head(commands)[2]) : status[p] = "pending"}
    /\ Goto(Consumer, "next")
    /\ UNCHANGED <<rows, wallet, queue, published, faults>>

NextPending ==
    /\ At(Consumer, "next")
    /\ \/ todo = {} /\ Goto(Consumer, "ack") /\ UNCHANGED todo
       \/ \E p \in todo :
              /\ Newest(p, todo)
              /\ todo' = todo \ {p}
              /\ GotoPay(Consumer, "load_cancel", p)
    /\ UNCHANGED <<rows, wallet, queue, published, faults>>
-----------------------------------------------------------------------------
(* create_payment, from the command and from retry_payment *)

LoadRetry(r) ==
    /\ At(r, "load_retry")
    /\ IF status[self[r].pay] = "failed" THEN Goto(r, "find_active") ELSE Raise(r)
    /\ UNCHANGED <<rows, wallet, queue, published, todo, faults>>

OrderToPay(r) == IF r = Consumer THEN Head(commands)[2] ELSE orderOf[self[r].pay]

ActiveOf(o) == {p \in Of(o) : status[p] \in Active}

(* A retry keeps its failed payment, so a row of it that has become active  *)
(* since is still failed to complete_payment.                              *)
FindActive(r) ==
    LET found == ActiveOf(OrderToPay(r))
    IN  /\ At(r, "find_active")
        /\ \/ found = {} /\ Goto(r, "insert")
           \/ found # {} /\ r = Consumer /\ Return(r)
           \/ r \in Request /\ \E p \in found :
                  /\ Newest(p, found)
                  /\ IF p = self[r].pay THEN Raise(r) ELSE GotoPay(r, "load_complete", p)
        /\ UNCHANGED <<rows, wallet, queue, published, todo, faults>>

(* Rows are numbered as they come.  When MaxPayments exist, one more fails. *)
NextRow(p) == p \notin Created /\ \A q \in Payment \ Created : p <= q

Insert(r) ==
    /\ At(r, "insert")
    /\ \/ Created = Payment /\ Raise(r) /\ UNCHANGED rows
       \/ \E p \in Payment :
              /\ NextRow(p)
              /\ orderOf' = [orderOf EXCEPT ![p] = OrderToPay(r)]
              /\ status' = [status EXCEPT ![p] = "pending"]
              /\ self' = [self EXCEPT ![r].pc = "publish", ![r].pay = p,
                                      ![r].held = "pending"]
    /\ UNCHANGED <<wallet, queue, published, todo, faults>>

(* _publish_payment_event, after the commit. *)
Publish(r) ==
    /\ At(r, "publish")
    /\ published' = published \cup {<<self[r].pay, self[r].held>>}
    /\ IF self[r].op = "retry" /\ self[r].held = "pending"
       THEN Goto(r, "load_complete") ELSE Return(r)
    /\ UNCHANGED <<rows, wallet, queue, todo, faults>>
-----------------------------------------------------------------------------
(* refund_payment *)

Refundable(o) == {p \in Of(o) : status[p] \in {"succeeded", "refunded"}}

(* Without one, PaymentNotFoundError: the command is requeued. *)
ListRefundable ==
    LET found == Refundable(Head(commands)[2])
    IN  /\ At(Consumer, "list") /\ self[Consumer].op = "refund"
        /\ \/ found = {} /\ Raise(Consumer)
           \/ \E p \in found :
                  /\ Newest(p, found)
                  /\ IF status[p] = "refunded" THEN Return(Consumer)
                     ELSE GotoPay(Consumer, "credit", p)
        /\ UNCHANGED <<rows, wallet, queue, published, todo, faults>>

(* Mutation: a repeated reference is an error. *)
CreditLookupOnce ==
    /\ At(Consumer, "credit")
    /\ IF Credited(self[Consumer].pay) THEN Raise(Consumer) ELSE Goto(Consumer, "credit_locked")
    /\ UNCHANGED <<rows, wallet, queue, published, todo, faults>>

(* A repeated reference is answered as it was the first time. *)
CreditLookup ==
    /\ At(Consumer, "credit")
    /\ Goto(Consumer, IF Credited(self[Consumer].pay) THEN "load_refund" ELSE "credit_locked")
    /\ UNCHANGED <<rows, wallet, queue, published, todo, faults>>

Credit ==
    /\ At(Consumer, "credit_locked")
    /\ Money!Apply(Payer, <<"payment-refund", self[Consumer].pay>>, Price)
    /\ Goto(Consumer, "load_refund")
    /\ UNCHANGED <<rows, late, deposit, queue, published, todo, faults>>

CreditDuplicate ==
    /\ At(Consumer, "credit_locked")
    /\ Credited(self[Consumer].pay)
    /\ Raise(Consumer)
    /\ UNCHANGED <<rows, wallet, queue, published, todo, faults>>

CreditTimeout ==
    /\ At(Consumer, "credit_locked")
    /\ late' = late \cup {<<"payment-refund", self[Consumer].pay>>}
    /\ Fault(Consumer)
    /\ UNCHANGED <<rows, balance, operations, deposit, queue, published, todo>>

LateCredit(p) ==
    LET ref == <<"payment-refund", p>>
    IN  /\ ref \in late
        /\ late' = late \ {ref}
        /\ \/ Money!Apply(Payer, ref, Price)
           \/ Money!Applied(ref) /\ UNCHANGED <<balance, operations>>
        /\ UNCHANGED <<rows, deposit, queue, published, self, todo, faults>>

(* update_payment_status: no object is kept since the list was read. *)
LoadRefund ==
    LET s == status[self[Consumer].pay]
    IN  /\ At(Consumer, "load_refund")
        /\ CASE s = "refunded"                 -> Return(Consumer)
             [] CanTransitionTo(s, "refunded") -> Goto(Consumer, "refund")
             [] OTHER                          -> Raise(Consumer)
        /\ UNCHANGED <<rows, wallet, queue, published, todo, faults>>

Refund == At(Consumer, "refund") /\ Write(Consumer, "refunded", "publish")
-----------------------------------------------------------------------------
(* Requests, commands and money come from outside. *)

Enter(r, name, step, p) ==
    self' = [self EXCEPT ![r] = [Idle EXCEPT !.pc = step, !.op = name, !.pay = p]]

Start(r) ==
    /\ self[r] = Idle
    /\ \E route \in Routes, p \in Created :
           Enter(r, route, CASE route = "complete" -> "load_complete"
                             [] route = "cancel"   -> "load_cancel"
                             [] route = "retry"    -> "load_retry", p)
    /\ UNCHANGED <<rows, wallet, queue, published, todo, faults>>

(* What reaches payment.order.queue. *)
Receive(kind, o) ==
    /\ sent' = sent \cup {<<kind, o>>}
    /\ commands' = Append(commands, <<kind, o>>)
    /\ UNCHANGED <<rows, wallet, published, self, todo, faults>>

(* order-service asks for a payment once (PaymentStartedOnce of Orders). *)
Send(kind, o) ==
    /\ Len(commands) < MaxCommands
    /\ kind = "create" => <<kind, o>> \notin sent
    /\ Receive(kind, o)

Take ==
    /\ self[Consumer] = Idle /\ commands # <<>>
    /\ LET kind == Head(commands)[1]
       IN  Enter(Consumer, kind, IF kind = "create" THEN "find_active" ELSE "list", None)
    /\ UNCHANGED <<rows, wallet, queue, published, todo, faults>>

Ack ==
    /\ At(Consumer, "ack")
    /\ commands' = Tail(commands)
    /\ self' = [self EXCEPT ![Consumer] = Idle]
    /\ UNCHANGED <<rows, wallet, sent, published, todo, faults>>

(* BalanceService.deposit: the user was read when the request was          *)
(* authenticated, and the session answers the locked SELECT with that      *)
(* object (Wallet).  What others changed in between is written over.       *)
DepositLoad ==
    /\ known = None
    /\ known' = balance[Payer]
    /\ UNCHANGED <<rows, balance, operations, late, over, queue, published, self, todo, faults>>

Deposit ==
    LET ref == <<"deposit", 0>>
        after == known + TopUp
    IN  /\ known # None /\ ~Money!Applied(ref)
        /\ balance' = [balance EXCEPT ![Payer] = after]
        /\ operations' = [operations EXCEPT ![Payer] =
               Append(@, [reference |-> ref, delta |-> TopUp, after |-> after])]
        /\ over' = known - balance[Payer]
        /\ UNCHANGED <<rows, late, known, queue, published, self, todo, faults>>

Progress(r) ==
    \/ LoadComplete(r) \/ SetProcessing(r) \/ DebitLookup(r)
    \/ Debit(r) \/ DebitRefused(r) \/ DebitDuplicate(r) \/ Succeed(r) \/ Fail(r)
    \/ LoadRetry(r) \/ FindActive(r) \/ Insert(r)
    \/ LoadCancel(r) \/ Cancel(r) \/ Publish(r)

Consume ==
    \/ Take \/ Ack
    \/ FindActive(Consumer) \/ Insert(Consumer) \/ Publish(Consumer)
    \/ ListPending \/ NextPending \/ LoadCancel(Consumer) \/ Cancel(Consumer)
    \/ ListRefundable \/ CreditLookup \/ Credit \/ CreditDuplicate \/ LoadRefund \/ Refund

(* payment-service, the wallet and the payers. *)
Serve ==
    \/ \E r \in Request : Start(r) \/ Progress(r) \/ DebitTimeout(r)
    \/ Consume \/ CreditTimeout
    \/ \E r \in Proc : Abort(r)
    \/ \E p \in Payment : LateDebit(p) \/ LateCredit(p)
    \/ DepositLoad \/ Deposit

Next == Serve \/ \E kind \in Commands, o \in Order : Send(kind, o)

Spec == Init /\ [][Next]_vars

(* The same next to any order-service: every command at any time, as often *)
(* as it likes.                                                            *)
OpenNext == Serve \/ \E kind \in Commands, o \in Order : Receive(kind, o)

OpenSpec == Init /\ [][OpenNext]_vars

(* A handler that can go on does; the broker redelivers a requeued command *)
(* at once; faults are finitely many.  Nobody has to call or to pay.       *)
Fairness == WF_vars(Consume) /\ \A r \in Request : WF_vars(Progress(r))

FairSpec == Spec /\ Fairness
-----------------------------------------------------------------------------
(* A payment that reads succeeded was paid for, one that reads refunded    *)
(* was given back, and nothing is given back that was not paid: whatever   *)
(* handlers overlap, time out or are redelivered.                          *)
SettledMatchesLedger ==
    \A p \in Payment :
        /\ status[p] \in {"succeeded", "refunded"} => Debited(p)
        /\ status[p] = "refunded" => Credited(p)
        /\ Credited(p) => Debited(p)

(* Order-service acts on events alone: each one it may receive about money *)
(* is true of the wallet, even when the row was overwritten since.         *)
EventsBackedByLedger ==
    \A p \in Payment :
        /\ <<p, "succeeded">> \in published => Debited(p)
        /\ <<p, "refunded">> \in published => Credited(p)

(* To order-service, all of this is a payment side that keeps its word.    *)
ImplementsPaymentSide == Side!Spec

(* The payer is short of exactly the payments that were debited and not    *)
(* given back, whatever was retried, timed out or answered late; but for   *)
(* what a deposit wrote over, the debits and credits since it had read.    *)
Unreturned == {p \in Payment : Debited(p) /\ ~Credited(p)}

NothingElseIsTaken ==
    balance[Payer] = (IF Money!Applied(<<"deposit", 0>>) THEN TopUp ELSE 0) + over
                     - Price * Cardinality(Unreturned)

(* A refund of an order that announced its success is paid out and recorded,*)
(* through timeouts, late answers and redeliveries; unless handlers with a *)
(* stale status wrote over the payment that succeeded, and none is left    *)
(* that reads so (StatusFollowsGraph).                                     *)
Succeeded(o) == \E p \in Of(o) : <<p, "succeeded">> \in published
Refunded(o) ==
    \E p \in Of(o) : Credited(p) /\ (status[p] = "refunded" \/ <<p, "refunded">> \in published)
Asked(o) == commands # <<>> /\ Head(commands) = <<"refund", o>> /\ ~At(Consumer, "ack")

RefundCompletes ==
    \A o \in Order :
        (Asked(o) /\ Succeeded(o) ~> Refunded(o)) \/ <>[](Refundable(o) = {})

(* payment_status.py: a payment moves along the edges of the graph.        *)
StatusFollowsGraph ==
    [][\A p \in Created : status'[p] # status[p] => CanTransitionTo(status[p], status'[p])]_vars

(* README: one active payment for an order.                                *)
OneActivePaymentPerOrder == \A o \in Order : Cardinality(ActiveOf(o)) <= 1

(* README: debits are idempotent.  A payment is failed on the word of      *)
(* auth-service that it could not be charged, so it was not.               *)
FailedWasNotCharged == \A p \in Payment : status[p] = "failed" => ~Debited(p)

(* README: results are published for order-service.  A payment that        *)
(* succeeds is announced some day.                                         *)
SucceededIsAnnounced ==
    \A p \in Payment : status[p] = "succeeded" ~> <<p, "succeeded">> \in published
=============================================================================
