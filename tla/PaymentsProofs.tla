--------------------------- MODULE PaymentsProofs ---------------------------
(***************************************************************************)
(* What TLAPS proves of Payments, for every number of concurrent requests, *)
(* orders, payments and faults: first next to any order-service, whatever  *)
(* commands it sends; then next to the one there is.  At the end both are  *)
(* put together (Market), where the theorems of OrdersProofs next to any   *)
(* payment-service and those of this module next to any order-service      *)
(* give what holds from an order to the journal of the wallet.             *)
(***************************************************************************)
EXTENDS Payments, SequenceTheorems, FiniteSetTheorems, TLAPS

USE DEF deposit

Amounts == {-Price, Price, TopUp}

(* The Ledger of one payer (see WalletProofs).                             *)
LEMMA AmountsAreIntegers == Amounts \subseteq Int
BY PaymentsAssumption DEF Amounts

(* One row is appended to the payer's journal, and the balance is what it says. *)
Entered(ref, d, after) ==
    /\ balance' = [balance EXCEPT ![Payer] = after]
    /\ operations' = [operations EXCEPT ![Payer] =
           Append(@, [reference |-> ref, delta |-> d, after |-> after])]

(* The steps in which a handler is about a payment. *)
AboutPayment == {"load_complete", "set_processing", "debit", "debit_locked", "fail",
                 "succeed", "load_cancel", "cancel", "load_retry", "publish",
                 "credit", "credit_locked", "load_refund", "refund"}

(* A request, and a command past choosing its payment, has one; one that   *)
(* publishes has a status to publish.                                      *)
Handlers ==
    /\ self \in [Proc -> Handler]
    /\ \A r \in Proc :
           /\ self[r].pc \in AboutPayment => self[r].pay \in Payment
           /\ r # Consumer /\ self[r].pc # "idle" => self[r].pay \in Payment
           /\ self[r].pc = "publish" => self[r].held \in Status

(* The consumer works on the head of its queue. *)
Busy == self[Consumer].pc # "idle" => commands # <<>>

WellFormed == TypeOK /\ Handlers /\ Busy

(* When a row is entered rows stay well formed, and the reference it is    *)
(* entered under becomes applied, no other.                                *)
LEMMA RowEntered ==
    ASSUME TypeOK, NEW ref \in Reference, NEW d \in Amounts, NEW after \in Nat,
           Entered(ref, d, after)
    PROVE  /\ balance' \in [{Payer} -> Nat]
           /\ operations' \in [{Payer} -> Seq(Money!Operation)]
           /\ \A x : Money!Applied(x)' <=> Money!Applied(x) \/ x = ref
<1> DEFINE op == [reference |-> ref, delta |-> d, after |-> after]
           n == Len(operations[Payer])
<1>1. operations[Payer] \in Seq(Money!Operation) /\ n \in Nat
  BY LenProperties DEF TypeOK
<1>2. op \in Money!Operation /\ op.reference = ref
  BY DEF Money!Operation, Amounts
<1>3. /\ operations' = [operations EXCEPT ![Payer] = Append(operations[Payer], op)]
      /\ operations'[Payer] = Append(operations[Payer], op)
  BY DEF Entered, TypeOK
<1> HIDE DEF op
<1>4. /\ Append(operations[Payer], op) \in Seq(Money!Operation)
      /\ Len(operations'[Payer]) = n + 1
      /\ operations'[Payer][n + 1] = op
      /\ \A i \in 1..n : operations'[Payer][i] = operations[Payer][i]
  BY <1>1, <1>2, <1>3, AppendProperties
<1>5. balance' \in [{Payer} -> Nat] /\ operations' \in [{Payer} -> Seq(Money!Operation)]
  BY <1>3, <1>4 DEF Entered, TypeOK
<1>6. \A x : /\ Money!Applied(x) <=> \E i \in 1..n : operations[Payer][i].reference = x
             /\ Money!Applied(x)' <=> \E i \in 1..(n + 1) : operations'[Payer][i].reference = x
  BY <1>4 DEF Money!Applied
<1>7. \A i : i \in 1..(n + 1) <=> i \in 1..n \/ i = n + 1
  BY <1>1
<1> QED BY <1>2, <1>4, <1>5, <1>6, <1>7

(* One change of the Ledger enters its row. *)
LEMMA MoneyMoves ==
    ASSUME TypeOK, NEW ref \in Reference, NEW d \in Amounts, Money!Apply(Payer, ref, d)
    PROVE  /\ balance' \in [{Payer} -> Nat]
           /\ operations' \in [{Payer} -> Seq(Money!Operation)]
           /\ \A x : Money!Applied(x)' <=> Money!Applied(x) \/ x = ref
<1>1. balance[Payer] + d \in Nat
  BY AmountsAreIntegers DEF TypeOK, Money!Apply
<1>2. Entered(ref, d, balance[Payer] + d)
  BY DEF Entered, Money!Apply
<1> QED BY <1>1, <1>2, RowEntered

(* So does a deposit, whatever balance it had read. *)
LEMMA DepositMoves ==
    ASSUME TypeOK, Deposit
    PROVE  /\ balance' \in [{Payer} -> Nat]
           /\ operations' \in [{Payer} -> Seq(Money!Operation)]
           /\ \A x : Money!Applied(x)' <=> Money!Applied(x) \/ x = <<"deposit", 0>>
           /\ over' \in Int
<1>1. known \in Nat /\ known + TopUp \in Nat /\ balance[Payer] \in Nat
  BY PaymentsAssumption DEF TypeOK, Deposit
<1>2. Entered(<<"deposit", 0>>, TopUp, known + TopUp)
  BY DEF Entered, Deposit
<1>3. <<"deposit", 0>> \in Reference /\ TopUp \in Amounts
  BY DEF Reference, Amounts
<1>4. over' \in Int
  BY <1>1 DEF Deposit
<1> QED BY <1>1, <1>2, <1>3, <1>4, RowEntered

(* One handler moves: the others stay as they were. *)
LEMMA HandlerMoves ==
    ASSUME WellFormed, NEW r \in Proc, NEW h \in Handler,
           self' = [self EXCEPT ![r] = h],
           h.pc \in AboutPayment => h.pay \in Payment,
           r # Consumer /\ h.pc # "idle" => h.pay \in Payment,
           h.pc = "publish" => h.held \in Status,
           r = Consumer /\ h.pc # "idle" => commands # <<>>
    PROVE  Handlers' /\ (self'[Consumer].pc # "idle" => commands # <<>>)
<1>1. self \in [Proc -> Handler]
  BY DEF WellFormed, TypeOK
<1>2. self'[r] = h /\ \A q \in Proc : q # r => self'[q] = self[q]
  BY <1>1
<1>3. Consumer \in Proc
  BY DEF Proc
<1> QED BY <1>1, <1>2, <1>3 DEF WellFormed, Handlers, Busy

(* An idle handler is well typed, and idle. *)
LEMMA IdleTyped == Idle \in Handler /\ Idle.pc = "idle"
BY DEF Idle, Handler, Step

(* Raising, returning and going on keep the handlers well formed. *)
LEMMA RaiseTyped ==
    ASSUME WellFormed, NEW r \in Proc, Raise(r)
    PROVE  Handlers' /\ (self'[Consumer].pc # "idle" => commands # <<>>)
<1>1. "idle" \notin AboutPayment
  BY DEF AboutPayment
<1> HIDE DEF Idle
<1> QED BY <1>1, IdleTyped, HandlerMoves DEF Raise

(* A handler returns only from a step it is in. *)
LEMMA ReturnTyped ==
    ASSUME WellFormed, NEW r \in Proc, self[r].pc # "idle", Return(r)
    PROVE  Handlers' /\ (self'[Consumer].pc # "idle" => commands # <<>>)
<1>1. /\ Returned(r) \in Handler
      /\ Returned(r).pc \in {"idle", "next", "ack"}
  BY DEF WellFormed, TypeOK, Returned, Idle, Handler, Step
<1>2. Returned(r).pc \notin AboutPayment /\ Returned(r).pc # "publish"
  BY <1>1 DEF AboutPayment
<1>3. r = Consumer => commands # <<>>
  BY DEF WellFormed, Busy
<1>4. r # Consumer => Returned(r).pc = "idle"
  BY DEF Proc, Returned, Idle
<1> HIDE DEF Returned
<1> QED BY <1>1, <1>2, <1>3, <1>4, HandlerMoves DEF Return

(* Going on keeps the payment the handler is about. *)
LEMMA GotoTyped ==
    ASSUME WellFormed, NEW r \in Proc, NEW step \in Step \ {"publish"},
           self[r].pc # "idle", Goto(r, step),
           step \in AboutPayment => self[r].pay \in Payment
    PROVE  Handlers' /\ (self'[Consumer].pc # "idle" => commands # <<>>)
<1> DEFINE h == [self[r] EXCEPT !.pc = step]
<1>1. self[r] \in Handler
  BY DEF WellFormed, TypeOK
<1>2. h \in Handler /\ h.pc = step /\ h.pay = self[r].pay
  BY <1>1 DEF Handler
<1>3. self' = [self EXCEPT ![r] = h]
  BY DEF Goto
<1>4. /\ r = Consumer => commands # <<>>
      /\ r # Consumer => self[r].pay \in Payment
  BY DEF WellFormed, Busy, Handlers
<1> HIDE DEF h
<1> QED BY <1>2, <1>3, <1>4, HandlerMoves

(* Choosing a payment is choosing a row. *)
LEMMA GotoPayTyped ==
    ASSUME WellFormed, NEW r \in Proc, NEW step \in Step \ {"publish"},
           NEW p \in Payment, self[r].pc # "idle", GotoPay(r, step, p)
    PROVE  Handlers' /\ (self'[Consumer].pc # "idle" => commands # <<>>)
<1> DEFINE h == [self[r] EXCEPT !.pc = step, !.pay = p]
<1>1. self[r] \in Handler
  BY DEF WellFormed, TypeOK
<1>2. h \in Handler /\ h.pc = step /\ h.pay = p
  BY <1>1 DEF Handler
<1>3. self' = [self EXCEPT ![r] = h]
  BY <1>1 DEF WellFormed, TypeOK, GotoPay
<1>4. r = Consumer => commands # <<>>
  BY DEF WellFormed, Busy
<1> HIDE DEF h
<1> QED BY <1>2, <1>3, <1>4, HandlerMoves

(* A write by id keeps every row and handler well formed. *)
LEMMA WriteTyped ==
    ASSUME WellFormed, NEW r \in Proc, NEW new \in Status, NEW step \in Step,
           self[r].pc \in AboutPayment, Write(r, new, step)
    PROVE  WellFormed'
<1> DEFINE h == [self[r] EXCEPT !.pc = step, !.held = new]
<1>1. self[r] \in Handler /\ self[r].pay \in Payment
  BY DEF WellFormed, TypeOK, Handlers
<1>2. h \in Handler /\ h.pay = self[r].pay /\ h.held = new
  BY <1>1 DEF Handler
<1>3. self' = [self EXCEPT ![r] = h]
  BY <1>1 DEF WellFormed, TypeOK, Write
<1>4. r = Consumer => commands # <<>>
  BY DEF WellFormed, Busy, AboutPayment
<1> HIDE DEF h
<1>5. Handlers' /\ (self'[Consumer].pc # "idle" => commands # <<>>)
  BY <1>1, <1>2, <1>3, <1>4, HandlerMoves
<1>6. status' \in [Payment -> Status]
  BY DEF WellFormed, TypeOK, Write
<1> QED BY <1>5, <1>6 DEF WellFormed, TypeOK, Handlers, Busy, Write, rows, wallet, queue

(* The wallet changed by one reference, and one handler moved: nothing else. *)
LEMMA QuietTyped ==
    ASSUME WellFormed, Handlers', self'[Consumer].pc # "idle" => commands # <<>>,
           balance' \in [{Payer} -> Nat],
           operations' \in [{Payer} -> Seq(Money!Operation)],
           late' \subseteq Reference,
           faults' \in 0..MaxFaults, todo' \subseteq Payment,
           published' \subseteq Payment \X Status,
           UNCHANGED <<rows, queue, deposit>>
    PROVE  WellFormed'
BY DEF WellFormed, TypeOK, Handlers, Busy, rows, queue, deposit

(* Every reachable state is well typed, and every handler knows the        *)
(* payment it is about.                                                    *)
THEOREM OpenWellFormed == OpenSpec => []WellFormed
<1>1. Init => WellFormed
  <2> SUFFICES ASSUME Init PROVE WellFormed
    OBVIOUS
  <2>1. self = [r \in Proc |-> Idle] /\ Consumer \in Proc
    BY DEF Init, Proc
  <2> HIDE DEF Idle
  <2>2. Handlers /\ Busy
    BY <2>1, IdleTyped DEF Handlers, Busy, AboutPayment
  <2>3. TypeOK
    BY <2>2, PaymentsAssumption
    DEF Init, TypeOK, Handlers, Money!Init, Status, Reference
  <2> QED BY <2>2, <2>3 DEF WellFormed
<1>2. WellFormed /\ [OpenNext]_vars => WellFormed'
  <2> SUFFICES ASSUME WellFormed, [OpenNext]_vars PROVE WellFormed'
    OBVIOUS
  <2> USE PaymentsAssumption
  <2>0. /\ TypeOK /\ Handlers /\ Busy
        /\ Consumer \in Proc /\ Request \subseteq Proc
        /\ \A r \in Proc : self[r].pc \in AboutPayment =>
               self[r].pay \in Payment /\ self[r].pc # "idle"
    BY DEF WellFormed, Handlers, Proc, AboutPayment
  <2>1. ASSUME NEW r \in Proc, LoadComplete(r) PROVE WellFormed'
    <3>1. self[r].pc # "idle" /\ self[r].pay \in Payment
      BY <2>0, <2>1 DEF LoadComplete, At, AboutPayment
    <3>2. \/ Return(r) \/ Raise(r)
          \/ Goto(r, "set_processing") \/ Goto(r, "debit")
      BY <2>1 DEF LoadComplete
    <3>3. Handlers' /\ (self'[Consumer].pc # "idle" => commands # <<>>)
      BY <3>1, <3>2, ReturnTyped, RaiseTyped, GotoTyped DEF Step
    <3> QED BY <2>0, <2>1, <3>3, QuietTyped DEF LoadComplete, TypeOK, rows, wallet, queue
  <2>2. ASSUME NEW r \in Proc, SetProcessing(r) PROVE WellFormed'
    BY <2>2, WriteTyped DEF SetProcessing, At, AboutPayment, Status, Step
  <2>3. ASSUME NEW r \in Proc, DebitLookup(r) PROVE WellFormed'
    <3>1. self[r].pc # "idle" /\ self[r].pay \in Payment
      BY <2>0, <2>3 DEF DebitLookup, At, AboutPayment
    <3>2. Goto(r, "succeed") \/ Goto(r, "debit_locked")
      BY <2>3 DEF DebitLookup
    <3>3. Handlers' /\ (self'[Consumer].pc # "idle" => commands # <<>>)
      BY <3>1, <3>2, GotoTyped DEF Step
    <3> QED BY <2>0, <2>3, <3>3, QuietTyped DEF DebitLookup, TypeOK, rows, wallet, queue
  <2>4. ASSUME NEW r \in Proc, Debit(r) PROVE WellFormed'
    <3>1. self[r].pc # "idle" /\ self[r].pay \in Payment
      BY <2>0, <2>4 DEF Debit, At, AboutPayment
    <3>2. Handlers' /\ (self'[Consumer].pc # "idle" => commands # <<>>)
      BY <2>4, <3>1, GotoTyped DEF Debit, Step
    <3>3. <<"payment", self[r].pay>> \in Reference
      BY <3>1 DEF Reference
    <3>4. /\ balance' \in [{Payer} -> Nat]
          /\ operations' \in [{Payer} -> Seq(Money!Operation)]
      BY <2>0, <2>4, <3>3, MoneyMoves DEF Debit, Amounts
    <3> QED BY <2>0, <2>4, <3>2, <3>4, QuietTyped DEF Debit, TypeOK, rows, queue
  <2>5. ASSUME NEW r \in Proc, DebitRefused(r) PROVE WellFormed'
    <3>1. self[r].pc # "idle" /\ self[r].pay \in Payment
      BY <2>0, <2>5 DEF DebitRefused, At, AboutPayment
    <3>2. Handlers' /\ (self'[Consumer].pc # "idle" => commands # <<>>)
      BY <2>5, <3>1, GotoTyped DEF DebitRefused, Step
    <3> QED BY <2>0, <2>5, <3>2, QuietTyped DEF DebitRefused, TypeOK, rows, wallet, queue
  <2>6. ASSUME NEW r \in Proc, DebitDuplicate(r) PROVE WellFormed'
    <3>1. Handlers' /\ (self'[Consumer].pc # "idle" => commands # <<>>)
      BY <2>6, RaiseTyped DEF DebitDuplicate
    <3> QED BY <2>0, <2>6, <3>1, QuietTyped DEF DebitDuplicate, TypeOK, rows, wallet, queue
  <2>7. ASSUME NEW r \in Proc, DebitTimeout(r) PROVE WellFormed'
    <3>1. self[r].pay \in Payment
      BY <2>0, <2>7 DEF DebitTimeout, At, AboutPayment
    <3>2. late' \subseteq Reference
      BY <2>0, <2>7, <3>1 DEF DebitTimeout, TypeOK, Reference
    <3>3. Handlers' /\ (self'[Consumer].pc # "idle" => commands # <<>>)
      BY <2>7, RaiseTyped DEF DebitTimeout, Fault
    <3>4. faults' \in 0..MaxFaults
      BY <2>0, <2>7 DEF DebitTimeout, Fault, TypeOK
    <3> QED BY <2>0, <2>7, <3>2, <3>3, <3>4, QuietTyped DEF DebitTimeout, TypeOK, rows, queue
  <2>8. ASSUME NEW r \in Proc, Succeed(r) \/ Fail(r) PROVE WellFormed'
    BY <2>8, WriteTyped DEF Succeed, Fail, At, AboutPayment, Status, Step
  <2>9. ASSUME NEW r \in Proc, LoadRetry(r) PROVE WellFormed'
    <3>1. self[r].pc # "idle"
      BY <2>0, <2>9 DEF LoadRetry, At, AboutPayment
    <3>2. Raise(r) \/ Goto(r, "find_active")
      BY <2>9 DEF LoadRetry
    <3>3. Handlers' /\ (self'[Consumer].pc # "idle" => commands # <<>>)
      BY <3>1, <3>2, RaiseTyped, GotoTyped DEF Step, AboutPayment
    <3> QED BY <2>0, <2>9, <3>3, QuietTyped DEF LoadRetry, TypeOK, rows, wallet, queue
  <2>10. ASSUME NEW r \in Proc, FindActive(r) PROVE WellFormed'
    <3>1. self[r].pc # "idle"
      BY <2>10 DEF FindActive, At
    <3>2. \/ Goto(r, "insert") \/ Return(r) \/ Raise(r)
          \/ \E p \in Payment : GotoPay(r, "load_complete", p)
      BY <2>10 DEF FindActive, ActiveOf, Of, Created
    <3>3. Handlers' /\ (self'[Consumer].pc # "idle" => commands # <<>>)
      BY <3>1, <3>2, GotoTyped, ReturnTyped, RaiseTyped, GotoPayTyped DEF Step, AboutPayment
    <3> QED BY <2>0, <2>10, <3>3, QuietTyped DEF FindActive, TypeOK, rows, wallet, queue
  <2>11. ASSUME NEW r \in Proc, Insert(r) PROVE WellFormed'
    <3>1. CASE Raise(r) /\ UNCHANGED rows
      <4>1. Handlers' /\ (self'[Consumer].pc # "idle" => commands # <<>>)
        BY <3>1, RaiseTyped
      <4> QED BY <2>0, <2>11, <3>1, <4>1, QuietTyped DEF Insert, TypeOK, rows, wallet, queue
    <3>2. CASE ~(Raise(r) /\ UNCHANGED rows)
      <4>1. PICK p \in Payment :
                /\ orderOf' = [orderOf EXCEPT ![p] = OrderToPay(r)]
                /\ status' = [status EXCEPT ![p] = "pending"]
                /\ self' = [self EXCEPT ![r].pc = "publish", ![r].pay = p,
                                        ![r].held = "pending"]
        BY <2>11, <3>2 DEF Insert
      <4> DEFINE h == [self[r] EXCEPT !.pc = "publish", !.pay = p, !.held = "pending"]
      <4>2. self[r] \in Handler /\ (r = Consumer => commands # <<>>)
        BY <2>0, <2>11 DEF TypeOK, Busy, Insert, At
      <4>3. h \in Handler /\ h.pay = p /\ h.held \in Status
        BY <4>2 DEF Handler, Step, Status
      <4>4. self' = [self EXCEPT ![r] = h]
        BY <2>0, <4>1 DEF TypeOK
      <4> HIDE DEF h
      <4>5. Handlers' /\ (self'[Consumer].pc # "idle" => commands # <<>>)
        BY <4>2, <4>3, <4>4, HandlerMoves
      <4>6. OrderToPay(r) \in Order \cup {None}
        <5>1. CASE r = Consumer
          <6>1. Head(commands) \in Commands \X Order
            BY <2>0, <4>2, <5>1, HeadTailProperties DEF TypeOK
          <6> QED BY <5>1, <6>1 DEF OrderToPay
        <5>2. CASE r # Consumer
          <6>1. self[r].pay \in Payment
            BY <2>0, <2>11, <5>2 DEF Handlers, Insert, At
          <6> QED BY <2>0, <5>2, <6>1 DEF OrderToPay, TypeOK
        <5> QED BY <5>1, <5>2
      <4>7. orderOf' \in [Payment -> Order \cup {None}] /\ status' \in [Payment -> Status]
        BY <2>0, <4>1, <4>6 DEF TypeOK, Status
      <4> QED BY <2>0, <2>11, <4>5, <4>7
              DEF Insert, WellFormed, TypeOK, Handlers, Busy, wallet, queue
    <3> QED BY <3>1, <3>2
  <2>12. ASSUME NEW r \in Proc, LoadCancel(r) PROVE WellFormed'
    <3>1. self[r].pc # "idle" /\ self[r].pay \in Payment
      BY <2>0, <2>12 DEF LoadCancel, At, AboutPayment
    <3>2. Return(r) \/ Raise(r) \/ Goto(r, "cancel")
      BY <2>12 DEF LoadCancel
    <3>3. Handlers' /\ (self'[Consumer].pc # "idle" => commands # <<>>)
      BY <3>1, <3>2, ReturnTyped, RaiseTyped, GotoTyped DEF Step
    <3> QED BY <2>0, <2>12, <3>3, QuietTyped DEF LoadCancel, TypeOK, rows, wallet, queue
  <2>13. ASSUME NEW r \in Proc, Cancel(r) PROVE WellFormed'
    BY <2>13, WriteTyped DEF Cancel, At, AboutPayment, Status, Step
  <2>14. ASSUME NEW r \in Proc, Publish(r) PROVE WellFormed'
    <3>1. self[r].pc # "idle" /\ self[r].pay \in Payment /\ self[r].held \in Status
      BY <2>0, <2>14 DEF Publish, At, AboutPayment, Handlers
    <3>2. Goto(r, "load_complete") \/ Return(r)
      BY <2>14 DEF Publish
    <3>3. Handlers' /\ (self'[Consumer].pc # "idle" => commands # <<>>)
      BY <3>1, <3>2, ReturnTyped, GotoTyped DEF Step
    <3>4. published' \subseteq Payment \X Status
      BY <2>0, <2>14, <3>1 DEF Publish, TypeOK
    <3> QED BY <2>0, <2>14, <3>3, <3>4, QuietTyped DEF Publish, TypeOK, rows, wallet, queue
  <2>15. CASE ListPending
    <3>1. Handlers' /\ (self'[Consumer].pc # "idle" => commands # <<>>)
      BY <2>0, <2>15, GotoTyped DEF ListPending, At, Step, AboutPayment
    <3>2. todo' \subseteq Payment
      BY <2>15 DEF ListPending, Of, Created
    <3> QED BY <2>0, <2>15, <3>1, <3>2, QuietTyped DEF ListPending, TypeOK, rows, wallet, queue
  <2>16. CASE NextPending
    <3>1. \/ Goto(Consumer, "ack")
          \/ \E p \in Payment : GotoPay(Consumer, "load_cancel", p)
      BY <2>0, <2>16 DEF NextPending, TypeOK
    <3>2. Handlers' /\ (self'[Consumer].pc # "idle" => commands # <<>>)
      BY <2>0, <2>16, <3>1, GotoTyped, GotoPayTyped DEF NextPending, At, Step, AboutPayment
    <3>3. todo' \subseteq Payment
      BY <2>0, <2>16 DEF NextPending, TypeOK
    <3> QED BY <2>0, <2>16, <3>2, <3>3, QuietTyped DEF NextPending, TypeOK, rows, wallet, queue
  <2>17. CASE ListRefundable
    <3>1. \/ Raise(Consumer) \/ Return(Consumer)
          \/ \E p \in Payment : GotoPay(Consumer, "credit", p)
      BY <2>17 DEF ListRefundable, Refundable, Of, Created
    <3>2. Handlers' /\ (self'[Consumer].pc # "idle" => commands # <<>>)
      BY <2>0, <2>17, <3>1, RaiseTyped, ReturnTyped, GotoPayTyped DEF ListRefundable, At, Step
    <3> QED BY <2>0, <2>17, <3>2, QuietTyped DEF ListRefundable, TypeOK, rows, wallet, queue
  <2>33. CASE CreditLookup
    <3>1. self[Consumer].pc # "idle" /\ self[Consumer].pay \in Payment
      BY <2>0, <2>33 DEF CreditLookup, At, AboutPayment
    <3>2. Goto(Consumer, "load_refund") \/ Goto(Consumer, "credit_locked")
      BY <2>33 DEF CreditLookup
    <3>3. Handlers' /\ (self'[Consumer].pc # "idle" => commands # <<>>)
      BY <2>0, <3>1, <3>2, GotoTyped DEF Step
    <3> QED BY <2>0, <2>33, <3>3, QuietTyped DEF CreditLookup, TypeOK, rows, wallet, queue
  <2>34. CASE CreditDuplicate
    <3>1. Handlers' /\ (self'[Consumer].pc # "idle" => commands # <<>>)
      BY <2>0, <2>34, RaiseTyped DEF CreditDuplicate
    <3> QED BY <2>0, <2>34, <3>1, QuietTyped DEF CreditDuplicate, TypeOK, rows, wallet, queue
  <2>18. CASE Credit
    <3>1. self[Consumer].pc # "idle" /\ self[Consumer].pay \in Payment
      BY <2>0, <2>18 DEF Credit, At, AboutPayment
    <3>2. Handlers' /\ (self'[Consumer].pc # "idle" => commands # <<>>)
      BY <2>0, <2>18, <3>1, GotoTyped DEF Credit, Step
    <3>3. <<"payment-refund", self[Consumer].pay>> \in Reference
      BY <3>1 DEF Reference
    <3>4. /\ balance' \in [{Payer} -> Nat]
          /\ operations' \in [{Payer} -> Seq(Money!Operation)]
      BY <2>0, <2>18, <3>3, MoneyMoves DEF Credit, Amounts, TypeOK
    <3> QED BY <2>0, <2>18, <3>2, <3>4, QuietTyped DEF Credit, TypeOK, rows, queue
  <2>19. CASE CreditTimeout
    <3>1. self[Consumer].pay \in Payment
      BY <2>0, <2>19 DEF CreditTimeout, At, AboutPayment
    <3>2. late' \subseteq Reference
      BY <2>0, <2>19, <3>1 DEF CreditTimeout, TypeOK, Reference
    <3>3. Handlers' /\ (self'[Consumer].pc # "idle" => commands # <<>>)
      BY <2>0, <2>19, RaiseTyped DEF CreditTimeout, Fault
    <3>4. faults' \in 0..MaxFaults
      BY <2>0, <2>19 DEF CreditTimeout, Fault, TypeOK
    <3> QED BY <2>0, <2>19, <3>2, <3>3, <3>4, QuietTyped DEF CreditTimeout, TypeOK, rows, queue
  <2>20. CASE LoadRefund
    <3>1. self[Consumer].pc # "idle" /\ self[Consumer].pay \in Payment
      BY <2>0, <2>20 DEF LoadRefund, At, AboutPayment
    <3>2. Return(Consumer) \/ Raise(Consumer) \/ Goto(Consumer, "refund")
      BY <2>20 DEF LoadRefund
    <3>3. Handlers' /\ (self'[Consumer].pc # "idle" => commands # <<>>)
      BY <2>0, <3>1, <3>2, ReturnTyped, RaiseTyped, GotoTyped DEF Step
    <3> QED BY <2>0, <2>20, <3>3, QuietTyped DEF LoadRefund, TypeOK, rows, wallet, queue
  <2>21. CASE Refund
    BY <2>0, <2>21, WriteTyped DEF Refund, At, AboutPayment, Status, Step
  <2>22. ASSUME NEW r \in Proc, NEW name \in Routes \cup Commands,
                NEW step \in Step \ {"publish", "idle"}, NEW p \in Payment \cup {None},
                Enter(r, name, step, p), r = Consumer => commands # <<>>,
                r # Consumer \/ step \in AboutPayment => p \in Payment
         PROVE  Handlers' /\ (self'[Consumer].pc # "idle" => commands # <<>>)
    <3> DEFINE h == [Idle EXCEPT !.pc = step, !.op = name, !.pay = p]
    <3>1. h \in Handler /\ h.pc = step /\ h.pay = p
      BY DEF Handler, Idle
    <3>2. self' = [self EXCEPT ![r] = h]
      BY <2>22 DEF Enter
    <3> HIDE DEF h
    <3> QED BY <2>22, <3>1, <3>2, HandlerMoves
  <2>23. ASSUME NEW r \in Request, Start(r) PROVE WellFormed'
    <3>1. PICK route \in Routes, p \in Created :
              Enter(r, route, CASE route = "complete" -> "load_complete"
                                [] route = "cancel"   -> "load_cancel"
                                [] route = "retry"    -> "load_retry", p)
      BY <2>23 DEF Start
    <3>2. PICK step \in {"load_complete", "load_cancel", "load_retry"} :
              Enter(r, route, step, p)
      BY <3>1
    <3>3. r \in Proc /\ r # Consumer /\ p \in Payment
      BY DEF Proc, Consumer, Created
    <3>4. step \in Step \ {"publish", "idle"}
      BY <3>2 DEF Step
    <3>5. Handlers' /\ (self'[Consumer].pc # "idle" => commands # <<>>)
      BY <2>22, <3>2, <3>3, <3>4
    <3> QED BY <2>0, <2>23, <3>5, QuietTyped DEF Start, TypeOK, rows, wallet, queue
  <2>24. CASE Take
    <3>1. PICK step \in {"find_active", "list"} :
              Enter(Consumer, Head(commands)[1], step, None)
      BY <2>24 DEF Take
    <3>2. commands # <<>> /\ Head(commands)[1] \in Commands
      BY <2>0, <2>24, HeadTailProperties DEF Take, TypeOK
    <3>3. step \in Step \ {"publish", "idle"} /\ step \notin AboutPayment
      BY <3>1 DEF Step, AboutPayment
    <3>4. Handlers' /\ (self'[Consumer].pc # "idle" => commands # <<>>)
      BY <2>0, <2>22, <3>1, <3>2, <3>3
    <3> QED BY <2>0, <2>24, <3>4, QuietTyped DEF Take, TypeOK, rows, wallet, queue
  <2>25. CASE Ack
    <3>1. Handlers' /\ self'[Consumer].pc = "idle"
      <4>1. Raise(Consumer)
        BY <2>25 DEF Ack, Raise
      <4>2. self'[Consumer] = Idle
        BY <2>0, <4>1 DEF Raise, TypeOK
      <4> QED BY <2>0, <4>1, <4>2, RaiseTyped, IdleTyped
    <3>2. commands' \in Seq(Commands \X Order)
      <4>1. commands # <<>>
        BY <2>0, <2>25 DEF Ack, At, Busy
      <4> QED BY <2>0, <2>25, <4>1, HeadTailProperties DEF Ack, TypeOK
    <3> QED BY <2>0, <2>25, <3>1, <3>2
            DEF Ack, WellFormed, TypeOK, Handlers, Busy, rows, wallet
  <2>26. ASSUME NEW kind \in Commands, NEW o \in Order, Receive(kind, o) PROVE WellFormed'
    <3>1. commands' \in Seq(Commands \X Order) /\ commands' # <<>>
      BY <2>0, <2>26, AppendProperties DEF Receive, TypeOK
    <3>2. sent' \subseteq Commands \X Order
      BY <2>0, <2>26 DEF Receive, TypeOK
    <3> QED BY <2>0, <2>26, <3>1, <3>2
            DEF Receive, WellFormed, TypeOK, Handlers, Busy, rows, wallet
  <2>27. ASSUME Handlers' /\ Busy',
                balance' \in [{Payer} -> Nat],
                operations' \in [{Payer} -> Seq(Money!Operation)],
                known' \in Nat \cup {None}, over' \in Int,
                late' \subseteq late, UNCHANGED <<rows, queue, published, self, todo, faults>>
         PROVE  WellFormed'
    BY <2>0, <2>27 DEF WellFormed, TypeOK, rows, queue
  <2>28. UNCHANGED <<queue, self>> => Handlers' /\ Busy'
    BY <2>0 DEF Handlers, Busy, queue
  <2>29. ASSUME NEW p \in Payment, LateDebit(p) \/ LateCredit(p) PROVE WellFormed'
    <3>1. <<"payment", p>> \in Reference /\ <<"payment-refund", p>> \in Reference
      BY DEF Reference
    <3>2. \/ Money!Apply(Payer, <<"payment", p>>, -Price)
          \/ Money!Apply(Payer, <<"payment-refund", p>>, Price)
          \/ UNCHANGED <<balance, operations>>
      BY <2>29 DEF LateDebit, LateCredit
    <3>3. /\ balance' \in [{Payer} -> Nat]
          /\ operations' \in [{Payer} -> Seq(Money!Operation)]
      BY <2>0, <3>1, <3>2, MoneyMoves DEF Amounts, TypeOK
    <3>4. known' \in Nat \cup {None} /\ over' \in Int
      BY <2>0, <2>29 DEF LateDebit, LateCredit, TypeOK, deposit
    <3> QED BY <2>27, <2>28, <2>29, <3>3, <3>4 DEF LateDebit, LateCredit
  <2>30. CASE Deposit
    <3>1. /\ balance' \in [{Payer} -> Nat]
          /\ operations' \in [{Payer} -> Seq(Money!Operation)]
          /\ known' \in Nat \cup {None} /\ over' \in Int
      BY <2>0, <2>30, DepositMoves DEF Deposit, TypeOK
    <3> QED BY <2>27, <2>28, <2>30, <3>1 DEF Deposit
  <2>35. CASE DepositLoad
    <3>1. /\ balance' \in [{Payer} -> Nat]
          /\ operations' \in [{Payer} -> Seq(Money!Operation)]
          /\ known' \in Nat \cup {None} /\ over' \in Int
      BY <2>0, <2>35 DEF DepositLoad, TypeOK
    <3> QED BY <2>27, <2>28, <2>35, <3>1 DEF DepositLoad
  <2>31. ASSUME NEW r \in Proc, Abort(r) PROVE WellFormed'
    <3>1. Handlers' /\ (self'[Consumer].pc # "idle" => commands # <<>>)
      BY <2>31, RaiseTyped DEF Abort, Fault
    <3>2. faults' \in 0..MaxFaults
      BY <2>0, <2>31 DEF Abort, Fault, TypeOK
    <3> QED BY <2>0, <2>31, <3>1, <3>2, QuietTyped DEF Abort, TypeOK, rows, wallet, queue
  <2>32. CASE UNCHANGED vars
    BY <2>0, <2>32 DEF vars, rows, wallet, queue, WellFormed, TypeOK, Handlers, Busy
  <2> QED
    BY <2>0, <2>1, <2>2, <2>3, <2>4, <2>5, <2>6, <2>7, <2>8, <2>9, <2>10, <2>11, <2>12,
       <2>13, <2>14, <2>15, <2>16, <2>17, <2>18, <2>19, <2>20, <2>21, <2>23, <2>24,
       <2>25, <2>26, <2>29, <2>30, <2>31, <2>32, <2>33, <2>34, <2>35 DEF OpenNext, Serve, Progress, Consume
<1> QED BY <1>1, <1>2, PTL DEF OpenSpec

(* Every reachable state is well typed; no balance is ever negative.       *)
THEOREM OpenTyped == OpenSpec => []TypeOK
<1>1. WellFormed => TypeOK
  BY DEF WellFormed
<1> QED BY <1>1, OpenWellFormed, PTL
-----------------------------------------------------------------------------
(* What a handler knows of the wallet from where it stands. *)
Knows(h) ==
    /\ h.pc = "succeed" => Debited(h.pay)
    /\ h.pc = "publish" /\ h.held = "succeeded" => Debited(h.pay)
    /\ h.pc = "publish" /\ h.held = "refunded" => Credited(h.pay)
    /\ h.pc \in {"credit", "credit_locked"} => Debited(h.pay)
    /\ h.pc \in {"load_refund", "refund"} => Credited(h.pay)

(* The inductive invariant: rows and events alone do not tell what the     *)
(* handlers and the calls still under way are about to do to them.         *)
Backed ==
    /\ SettledMatchesLedger
    /\ EventsBackedByLedger
    /\ \A r \in Proc : Knows(self[r])
    /\ \A p \in Payment : <<"payment-refund", p>> \in late => Debited(p)

(* Nothing applied is forgotten, and money given back has been taken.      *)
LEMMA WalletStep ==
    ASSUME WellFormed, Backed, [OpenNext]_vars
    PROVE  /\ \A x : Money!Applied(x) => Money!Applied(x)'
           /\ \A p \in Payment : Credited(p)' => Debited(p)'
<1>0. /\ TypeOK /\ Consumer \in Proc
      /\ \A r \in Proc : self[r].pc \in AboutPayment => self[r].pay \in Payment
      /\ \A p \in Payment : Credited(p) => Debited(p)
      /\ \A r \in Proc : Knows(self[r])
      /\ \A p \in Payment : <<"payment-refund", p>> \in late => Debited(p)
  BY DEF WellFormed, Handlers, Proc, Backed, SettledMatchesLedger
<1>1. ASSUME NEW ref \in Reference, NEW d \in Amounts, Money!Apply(Payer, ref, d),
             ASSUME NEW p \in Payment, ref = <<"payment-refund", p>> PROVE Debited(p)
      PROVE  /\ \A x : Money!Applied(x) => Money!Applied(x)'
             /\ \A p \in Payment : Credited(p)' => Debited(p)'
  <2>1. \A x : Money!Applied(x)' <=> Money!Applied(x) \/ x = ref
    BY <1>0, <1>1, MoneyMoves
  <2> QED BY <1>0, <1>1, <2>1 DEF Debited, Credited
<1>2. ASSUME UNCHANGED operations
      PROVE  /\ \A x : Money!Applied(x) => Money!Applied(x)'
             /\ \A p \in Payment : Credited(p)' => Debited(p)'
  BY <1>0, <1>2 DEF Debited, Credited, Money!Applied
<1>3. -Price \in Amounts /\ Price \in Amounts /\ TopUp \in Amounts
  BY DEF Amounts
<1>4. ASSUME NEW r \in Proc, Debit(r)
      PROVE  \E ref \in Reference, d \in Amounts :
                 Money!Apply(Payer, ref, d) /\ ref[1] # "payment-refund"
  <2>1. <<"payment", self[r].pay>> \in Reference
    BY <1>0, <1>4 DEF Debit, At, AboutPayment, Reference
  <2> QED BY <1>3, <1>4, <2>1 DEF Debit
<1>5. ASSUME NEW p \in Payment, LateDebit(p), ~UNCHANGED operations
      PROVE  \E ref \in Reference, d \in Amounts :
                 Money!Apply(Payer, ref, d) /\ ref[1] # "payment-refund"
  <2>1. <<"payment", p>> \in Reference
    BY DEF Reference
  <2> QED BY <1>3, <1>5, <2>1 DEF LateDebit
<1>6. ASSUME Deposit
      PROVE  /\ \A x : Money!Applied(x) => Money!Applied(x)'
             /\ \A p \in Payment : Credited(p)' => Debited(p)'
  <2>1. \A x : Money!Applied(x)' <=> Money!Applied(x) \/ x = <<"deposit", 0>>
    BY <1>0, <1>6, DepositMoves
  <2> QED BY <1>0, <2>1 DEF Debited, Credited
<1>7. ASSUME NEW ref \in Reference, NEW d \in Amounts,
             Money!Apply(Payer, ref, d) /\ ref[1] # "payment-refund"
      PROVE  /\ \A x : Money!Applied(x) => Money!Applied(x)'
             /\ \A p \in Payment : Credited(p)' => Debited(p)'
  <2>1. \A p \in Payment : ref # <<"payment-refund", p>>
    BY <1>7
  <2> QED BY <1>1, <1>7, <2>1
<1>8. ASSUME NEW p \in Payment, Debited(p), Money!Apply(Payer, <<"payment-refund", p>>, Price)
      PROVE  /\ \A x : Money!Applied(x) => Money!Applied(x)'
             /\ \A q \in Payment : Credited(q)' => Debited(q)'
  <2>1. <<"payment-refund", p>> \in Reference
    BY DEF Reference
  <2>2. \A q \in Payment : <<"payment-refund", p>> = <<"payment-refund", q>> => Debited(q)
    BY <1>8
  <2> QED BY <1>1, <1>3, <1>8, <2>1, <2>2
<1>9. ASSUME Credit, ~UNCHANGED operations
      PROVE  \E p \in Payment : Debited(p) /\ Money!Apply(Payer, <<"payment-refund", p>>, Price)
  BY <1>0, <1>9 DEF Credit, At, AboutPayment, Knows
<1>10. ASSUME NEW p \in Payment, LateCredit(p), ~UNCHANGED operations
       PROVE  Debited(p) /\ Money!Apply(Payer, <<"payment-refund", p>>, Price)
  BY <1>0, <1>10 DEF LateCredit
<1>11. \/ UNCHANGED operations
       \/ \E r \in Proc : Debit(r)
       \/ \E p \in Payment : LateDebit(p) \/ LateCredit(p)
       \/ Credit \/ Deposit
  BY DEF OpenNext, Serve, Progress, Consume, Proc, vars, rows, wallet, queue, LoadComplete,
     SetProcessing, DebitLookup, DebitRefused, DebitDuplicate, DebitTimeout, Succeed,
     Fail, LoadRetry, FindActive, Insert, LoadCancel, Cancel, Publish, Take, Ack,
     ListPending, NextPending, ListRefundable, CreditLookup, CreditDuplicate,
     LoadRefund, Refund, Write, Start, Receive, CreditTimeout, Abort, DepositLoad
<1> QED BY <1>2, <1>4, <1>5, <1>6, <1>7, <1>8, <1>9, <1>10, <1>11

(* A handler learns of the wallet only what the wallet has told it.        *)
LEMMA HandlerStep ==
    ASSUME WellFormed, Backed, [OpenNext]_vars
    PROVE  \A q \in Proc : Knows(self[q])'
<1>0. /\ self \in [Proc -> Handler] /\ Consumer \in Proc /\ Request \subseteq Proc
      /\ \A q \in Proc : Knows(self[q])
      /\ \A q \in Proc : self[q].pc \in AboutPayment => self[q].pay \in Payment
      /\ \A p \in Payment : status[p] = "succeeded" => Debited(p)
  BY DEF WellFormed, Handlers, Proc, Backed, SettledMatchesLedger
<1>1. \A x : Money!Applied(x) => Money!Applied(x)'
  BY WalletStep
<1>2. ASSUME NEW q \in Proc, self'[q] = self[q] PROVE Knows(self[q])'
  BY <1>0, <1>1, <1>2 DEF Knows, Debited, Credited
<1>3. ASSUME NEW r \in Proc, \A q \in Proc : q # r => self'[q] = self[q], Knows(self[r])'
      PROVE  \A q \in Proc : Knows(self[q])'
  BY <1>2, <1>3
<1> DEFINE Quiet == Step \ {"succeed", "publish", "credit", "credit_locked", "load_refund", "refund"}
<1>4. ASSUME NEW r \in Proc, \A q \in Proc : q # r => self'[q] = self[q],
             self'[r].pc \in Quiet
      PROVE  \A q \in Proc : Knows(self[q])'
  <2>1. Knows(self[r])'
    BY <1>4 DEF Knows
  <2> QED BY <1>3, <1>4, <2>1
<1>5. ASSUME NEW r \in Proc, NEW step, Goto(r, step)
      PROVE  /\ \A q \in Proc : q # r => self'[q] = self[q]
             /\ self'[r].pc = step /\ self'[r].pay = self[r].pay
  BY <1>0, <1>5 DEF Goto, Handler
<1>6. ASSUME NEW r \in Proc, NEW step, NEW p, GotoPay(r, step, p)
      PROVE  /\ \A q \in Proc : q # r => self'[q] = self[q]
             /\ self'[r].pc = step /\ self'[r].pay = p
  BY <1>0, <1>6 DEF GotoPay, Handler
<1>7. ASSUME NEW r \in Proc, Raise(r) \/ Return(r)
      PROVE  \A q \in Proc : Knows(self[q])'
  <2>1. Idle.pc \in Quiet /\ Returned(r).pc \in Quiet
    BY DEF Idle, Returned, Step
  <2>2. /\ \A q \in Proc : q # r => self'[q] = self[q]
        /\ self'[r] = Idle \/ self'[r] = Returned(r)
    BY <1>0, <1>7 DEF Raise, Return
  <2> HIDE DEF Idle, Returned
  <2> QED BY <1>4, <2>1, <2>2
<1>8. ASSUME NEW r \in Proc, NEW new, NEW step, Write(r, new, step)
      PROVE  /\ \A q \in Proc : q # r => self'[q] = self[q]
             /\ self'[r].pc = step /\ self'[r].held = new /\ self'[r].pay = self[r].pay
  BY <1>0, <1>8 DEF Write, Handler
<1>9. ASSUME NEW r \in Proc, NEW step \in Quiet, Goto(r, step)
      PROVE  \A q \in Proc : Knows(self[q])'
  BY <1>4, <1>5, <1>9
<1>10. ASSUME NEW r \in Proc, NEW step \in Quiet, NEW p, GotoPay(r, step, p)
       PROVE  \A q \in Proc : Knows(self[q])'
  BY <1>4, <1>6, <1>10
<1>11. ASSUME NEW r \in Proc, NEW new, new \notin {"succeeded", "refunded"},
             Write(r, new, "publish")
       PROVE  \A q \in Proc : Knows(self[q])'
  <2>1. Knows(self[r])'
    BY <1>8, <1>11 DEF Knows
  <2> QED BY <1>3, <1>8, <1>11, <2>1
<1>12. ASSUME NEW r \in Proc, Succeed(r) PROVE \A q \in Proc : Knows(self[q])'
  <2>1. Debited(self[r].pay) /\ Write(r, "succeeded", "publish")
    BY <1>0, <1>12 DEF Succeed, At, Knows
  <2>2. Knows(self[r])'
    BY <1>1, <1>8, <2>1 DEF Knows, Debited
  <2> QED BY <1>3, <1>8, <2>1, <2>2
<1>13. ASSUME Refund PROVE \A q \in Proc : Knows(self[q])'
  <2>1. Credited(self[Consumer].pay) /\ Write(Consumer, "refunded", "publish")
    BY <1>0, <1>13 DEF Refund, At, Knows
  <2>2. Knows(self[Consumer])'
    BY <1>0, <1>1, <1>8, <2>1 DEF Knows, Credited
  <2> QED BY <1>0, <1>3, <1>8, <2>1, <2>2
<1>14. ASSUME NEW r \in Proc, Goto(r, "succeed"), Debited(self[r].pay)'
       PROVE  \A q \in Proc : Knows(self[q])'
  <2>1. self'[r].pc = "succeed" /\ Debited(self[r].pay)'
    BY <1>5, <1>14
  <2>2. Knows(self[r])'
    BY <2>1 DEF Knows
  <2> QED BY <1>3, <1>5, <1>14, <2>2
<1>15. ASSUME NEW r \in Proc, DebitLookup(r) PROVE \A q \in Proc : Knows(self[q])'
  <2>1. CASE Debited(self[r].pay)
    <3>1. Goto(r, "succeed")
      BY <1>15, <2>1 DEF DebitLookup
    <3>2. Debited(self[r].pay)'
      BY <1>1, <1>5, <2>1, <3>1 DEF Debited
    <3> QED BY <1>14, <3>1, <3>2
  <2>2. CASE ~Debited(self[r].pay)
    BY <1>9, <1>15, <2>2 DEF DebitLookup, Step
  <2> QED BY <2>1, <2>2
<1>16. ASSUME NEW r \in Proc, Debit(r) PROVE \A q \in Proc : Knows(self[q])'
  <2>1. /\ Goto(r, "succeed")
        /\ Money!Apply(Payer, <<"payment", self[r].pay>>, -Price)
        /\ <<"payment", self[r].pay>> \in Reference
    BY <1>0, <1>16 DEF Debit, At, AboutPayment, Reference
  <2>2. Money!Applied(<<"payment", self[r].pay>>)' <=>
            Debited(self[r].pay)'
    BY <1>5, <2>1 DEF Debited
  <2>3. \A x : Money!Applied(x)' <=> Money!Applied(x) \/ x = <<"payment", self[r].pay>>
    BY <2>1, MoneyMoves DEF WellFormed, Amounts
  <2>4. self'[r].pay = self[r].pay
    BY <1>5, <2>1
  <2>5. Debited(self[r].pay)'
    BY <2>3, <2>4 DEF Debited
  <2> QED BY <1>14, <2>1, <2>5
<1>17. ASSUME NEW r \in Proc, Insert(r) PROVE \A q \in Proc : Knows(self[q])'
  <2>1. CASE Raise(r)
    BY <1>7, <2>1
  <2>2. CASE ~Raise(r)
    <3>1. PICK p \in Payment :
              self' = [self EXCEPT ![r].pc = "publish", ![r].pay = p, ![r].held = "pending"]
      BY <1>17, <2>2 DEF Insert
    <3>2. /\ self'[r].pc = "publish" /\ self'[r].held = "pending"
          /\ \A q \in Proc : q # r => self'[q] = self[q]
      BY <1>0, <3>1 DEF Handler
    <3>3. Knows(self[r])'
      BY <3>2 DEF Knows
    <3> QED BY <1>3, <3>2, <3>3
  <2> QED BY <2>1, <2>2
<1>18. ASSUME ListRefundable PROVE \A q \in Proc : Knows(self[q])'
  <2>1. CASE Raise(Consumer) \/ Return(Consumer)
    BY <1>0, <1>7, <2>1
  <2>2. CASE ~(Raise(Consumer) \/ Return(Consumer))
    <3>1. PICK p \in Payment : status[p] = "succeeded" /\ GotoPay(Consumer, "credit", p)
      BY <1>18, <2>2 DEF ListRefundable, Refundable, Of, Created
    <3>2. Debited(p)
      BY <1>0, <3>1
    <3>3. Knows(self[Consumer])'
      BY <1>0, <1>1, <1>6, <3>1, <3>2 DEF Knows, Debited
    <3> QED BY <1>0, <1>3, <1>6, <3>1, <3>3
  <2> QED BY <2>1, <2>2
<1>19. ASSUME Credit PROVE \A q \in Proc : Knows(self[q])'
  <2> DEFINE ref == <<"payment-refund", self[Consumer].pay>>
  <2>1. /\ Goto(Consumer, "load_refund")
        /\ ref \in Reference
    BY <1>0, <1>19 DEF Credit, At, AboutPayment, Reference
  <2>2. self'[Consumer].pay = self[Consumer].pay /\ self'[Consumer].pc = "load_refund"
    BY <1>0, <1>5, <2>1
  <2>3. \A x : Money!Applied(x)' <=> Money!Applied(x) \/ x = ref
    BY <1>19, <2>1, MoneyMoves DEF Credit, WellFormed, Amounts
  <2>4. Credited(self[Consumer].pay)'
    BY <2>2, <2>3 DEF Credited
  <2>5. Knows(self[Consumer])'
    BY <2>2, <2>4 DEF Knows
  <2> QED BY <1>0, <1>3, <1>5, <2>1, <2>5
<1>26. ASSUME CreditLookup PROVE \A q \in Proc : Knows(self[q])'
  <2>1. /\ Debited(self[Consumer].pay)
        /\ \/ Credited(self[Consumer].pay) /\ Goto(Consumer, "load_refund")
           \/ Goto(Consumer, "credit_locked")
    BY <1>0, <1>26 DEF CreditLookup, At, Knows
  <2>2. Knows(self[Consumer])'
    BY <1>0, <1>1, <1>5, <2>1 DEF Knows, Debited, Credited
  <2> QED BY <1>0, <1>3, <1>5, <2>1, <2>2
<1>20. ASSUME LoadRefund PROVE \A q \in Proc : Knows(self[q])'
  <2>1. CASE Goto(Consumer, "refund")
    <3>1. Credited(self[Consumer].pay)
      BY <1>0, <1>20 DEF LoadRefund, At, Knows
    <3>2. Knows(self[Consumer])'
      BY <1>0, <1>1, <1>5, <2>1, <3>1 DEF Knows, Credited
    <3> QED BY <1>0, <1>3, <1>5, <2>1, <3>2
  <2> QED BY <1>0, <1>7, <1>20, <2>1 DEF LoadRefund
<1>21. ASSUME NEW r \in Proc,
              \/ LoadComplete(r) \/ SetProcessing(r) \/ DebitRefused(r) \/ DebitDuplicate(r)
              \/ DebitTimeout(r) \/ Fail(r) \/ LoadRetry(r) \/ FindActive(r)
              \/ LoadCancel(r) \/ Cancel(r) \/ Publish(r) \/ Abort(r)
       PROVE  \A q \in Proc : Knows(self[q])'
  <2>1. {"set_processing", "debit", "fail", "find_active", "insert", "load_complete",
         "cancel"} \subseteq Quiet
    BY DEF Step
  <2>2. \/ Raise(r) \/ Return(r)
        \/ \E step \in Quiet : Goto(r, step)
        \/ \E step \in Quiet, p \in Payment : GotoPay(r, step, p)
        \/ Write(r, "processing", "debit")
        \/ \E new \in Status \ {"succeeded", "refunded"} : Write(r, new, "publish")
    BY <1>21, <2>1 DEF LoadComplete, SetProcessing, DebitRefused, DebitDuplicate,
       DebitTimeout, Fail, LoadRetry, FindActive, ActiveOf, Of, Created, LoadCancel,
       Cancel, Publish, Abort, Fault, Status
  <2>3. CASE Write(r, "processing", "debit")
    BY <1>4, <1>8, <2>1, <2>3
  <2> HIDE DEF Quiet
  <2> QED BY <1>7, <1>9, <1>10, <1>11, <2>2, <2>3
<1>22. ASSUME NEW r \in Proc, NEW name, NEW step \in Quiet, NEW p, Enter(r, name, step, p)
       PROVE  \A q \in Proc : Knows(self[q])'
  <2>1. self'[r].pc = step /\ \A q \in Proc : q # r => self'[q] = self[q]
    BY <1>0, <1>22 DEF Enter, Idle
  <2> QED BY <1>4, <1>22, <2>1
<1>23. ASSUME \/ \E r \in Request : Start(r)
              \/ Take \/ Ack \/ ListPending \/ NextPending \/ CreditTimeout
              \/ CreditDuplicate
       PROVE  \A q \in Proc : Knows(self[q])'
  <2>1. {"load_complete", "load_cancel", "load_retry", "find_active", "list", "next", "ack"}
            \subseteq Quiet
    BY DEF Step
  <2>2. ASSUME NEW r \in Request, Start(r) PROVE \A q \in Proc : Knows(self[q])'
    <3>1. PICK name \in Routes, p \in Created,
                step \in {"load_complete", "load_cancel", "load_retry"} :
              Enter(r, name, step, p)
      BY <2>2, PaymentsAssumption DEF Start
    <3> HIDE DEF Quiet
    <3> QED BY <1>0, <1>22, <2>1, <3>1
  <2>3. CASE Take
    <3>1. PICK step \in {"find_active", "list"} :
              Enter(Consumer, Head(commands)[1], step, None)
      BY <2>3 DEF Take
    <3> HIDE DEF Quiet
    <3> QED BY <1>0, <1>22, <2>1, <3>1
  <2>4. CASE ListPending \/ NextPending \/ Ack \/ CreditTimeout \/ CreditDuplicate
    <3>1. \/ Goto(Consumer, "next") \/ Goto(Consumer, "ack") \/ Raise(Consumer)
          \/ \E p \in todo : GotoPay(Consumer, "load_cancel", p)
      BY <2>4 DEF ListPending, NextPending, Ack, CreditTimeout, CreditDuplicate, Fault, Raise
    <3> HIDE DEF Quiet
    <3> QED BY <1>0, <1>7, <1>9, <1>10, <2>1, <3>1
  <2> QED BY <1>23, <2>2, <2>3, <2>4
<1>24. ASSUME UNCHANGED self PROVE \A q \in Proc : Knows(self[q])'
  BY <1>2, <1>24
<1>25. ASSUME \/ \E p \in Payment : LateDebit(p) \/ LateCredit(p)
              \/ \E kind \in Commands, o \in Order : Receive(kind, o)
              \/ DepositLoad \/ Deposit \/ UNCHANGED vars
       PROVE  UNCHANGED self
  BY <1>25 DEF LateDebit, LateCredit, Receive, DepositLoad, Deposit, vars
<1> HIDE DEF Quiet
<1> QED
  BY <1>0, <1>12, <1>13, <1>15, <1>16, <1>17, <1>18, <1>19, <1>20, <1>21, <1>23, <1>24,
     <1>25, <1>26 DEF OpenNext, Serve, Progress, Consume

(* Rows, events and calls still under way change as the handlers know.     *)
LEMMA RecordStep ==
    ASSUME WellFormed, Backed, [OpenNext]_vars
    PROVE  /\ \A p \in Payment : status'[p] = "succeeded" => Debited(p)
           /\ \A p \in Payment : status'[p] = "refunded" => Credited(p)
           /\ \A p \in Payment : <<p, "succeeded">> \in published' => Debited(p)
           /\ \A p \in Payment : <<p, "refunded">> \in published' => Credited(p)
           /\ \A p \in Payment : <<"payment-refund", p>> \in late' => Debited(p)
<1>0. /\ TypeOK /\ Consumer \in Proc /\ Request \subseteq Proc
      /\ \A q \in Proc : Knows(self[q])
      /\ SettledMatchesLedger /\ EventsBackedByLedger
      /\ \A p \in Payment : <<"payment-refund", p>> \in late => Debited(p)
  BY DEF WellFormed, Proc, Backed
<1> DEFINE Rows == \A p \in Payment : /\ status'[p] = "succeeded" => Debited(p)
                                      /\ status'[p] = "refunded" => Credited(p)
           Events == \A p \in Payment : /\ <<p, "succeeded">> \in published' => Debited(p)
                                        /\ <<p, "refunded">> \in published' => Credited(p)
           Calls == \A p \in Payment : <<"payment-refund", p>> \in late' => Debited(p)
<1>1. UNCHANGED status => Rows
  BY <1>0 DEF SettledMatchesLedger
<1>2. UNCHANGED published => Events
  BY <1>0 DEF EventsBackedByLedger
<1>3. ASSUME NEW r \in Proc, NEW new, NEW step, Write(r, new, step),
             new = "succeeded" => Debited(self[r].pay),
             new = "refunded" => Credited(self[r].pay)
      PROVE  Rows
  <2>1. \A p \in Payment : status'[p] = IF p = self[r].pay THEN new ELSE status[p]
    BY <1>0, <1>3 DEF Write, TypeOK
  <2> QED BY <1>0, <1>3, <2>1 DEF SettledMatchesLedger
<1>4. ASSUME NEW r \in Proc, SetProcessing(r) \/ Fail(r) \/ Cancel(r) PROVE Rows
  BY <1>3, <1>4 DEF SetProcessing, Fail, Cancel
<1>5. ASSUME NEW r \in Proc, Succeed(r) PROVE Rows
  BY <1>0, <1>3, <1>5 DEF Succeed, At, Knows
<1>6. ASSUME Refund PROVE Rows
  BY <1>0, <1>3, <1>6 DEF Refund, At, Knows
<1>7. ASSUME NEW r \in Proc, Insert(r) PROVE Rows
  <2>1. UNCHANGED status \/ \E p \in Payment : status' = [status EXCEPT ![p] = "pending"]
    BY <1>7 DEF Insert, rows
  <2> QED BY <1>0, <1>1, <2>1 DEF SettledMatchesLedger, TypeOK
<1>8. ASSUME NEW r \in Proc, Publish(r) PROVE Events
  BY <1>0, <1>8 DEF Publish, At, Knows, EventsBackedByLedger
<1>9. ASSUME ~UNCHANGED published, OpenNext PROVE \E r \in Proc : Publish(r)
  BY <1>0, <1>9 DEF OpenNext, Serve, Progress, Consume, LoadComplete, SetProcessing, DebitLookup,
     Debit, DebitRefused, DebitDuplicate, DebitTimeout, Succeed, Fail, LateDebit,
     LoadRetry, FindActive, Insert, LoadCancel, Cancel, Take, Ack, ListPending,
     NextPending, ListRefundable, CreditLookup, Credit, CreditDuplicate, LoadRefund, Refund, Write, Start, Receive,
     CreditTimeout, LateCredit, Abort, DepositLoad, Deposit
<1>10. ASSUME ~UNCHANGED status, OpenNext
       PROVE  \/ \E r \in Proc : SetProcessing(r) \/ Fail(r) \/ Succeed(r) \/ Cancel(r)
                                   \/ Insert(r)
              \/ Refund
  BY <1>0, <1>10 DEF OpenNext, Serve, Progress, Consume, LoadComplete, DebitLookup, rows,
     Debit, DebitRefused, DebitDuplicate, DebitTimeout, LateDebit,
     LoadRetry, FindActive, LoadCancel, Take, Ack, ListPending, Publish,
     NextPending, ListRefundable, CreditLookup, Credit, CreditDuplicate, LoadRefund, Start, Receive,
     CreditTimeout, LateCredit, Abort, DepositLoad, Deposit
<1>11. ASSUME OpenNext PROVE Calls
  <2>1. CASE CreditTimeout
    BY <1>0, <2>1 DEF CreditTimeout, At, Knows
  <2>2. CASE ~CreditTimeout
    <3>1. late' \subseteq late \cup {<<"payment", p>> : p \in Payment \cup {None}}
      BY <1>0, <1>11, <2>2 DEF OpenNext, Serve, Progress, Consume, LoadComplete, SetProcessing,
         DebitLookup, Debit, DebitRefused, DebitDuplicate, DebitTimeout, Succeed, Fail,
         LateDebit, LoadRetry, FindActive, Insert, LoadCancel, Cancel, Take, Ack,
         ListPending, NextPending, ListRefundable, CreditLookup, Credit, CreditDuplicate, LoadRefund, Refund, Write,
         Start, Receive, LateCredit, Abort, DepositLoad, Deposit, Publish, wallet, TypeOK, Handler
    <3> QED BY <1>0, <3>1
  <2> QED BY <2>1, <2>2
<1>12. CASE UNCHANGED vars
  BY <1>0, <1>12 DEF vars, rows, wallet, SettledMatchesLedger, EventsBackedByLedger
<1>13. CASE OpenNext
  <2>1. Rows
    BY <1>1, <1>4, <1>5, <1>6, <1>7, <1>10, <1>13
  <2>2. Events
    BY <1>2, <1>8, <1>9, <1>13
  <2> QED BY <1>11, <1>13, <2>1, <2>2
<1> QED BY <1>12, <1>13

(* What every handler, row, event and pending call says of the wallet is  *)
(* so: the induction over all of them at once.                             *)
THEOREM OpenBacked == OpenSpec => []Backed
<1>1. Init => Backed
  <2> SUFFICES ASSUME Init PROVE Backed
    OBVIOUS
  <2>1. Idle.pc = "idle" /\ \A r \in Proc : self[r] = Idle
    BY DEF Init, Idle
  <2>2. \A x : ~Money!Applied(x)
    BY DEF Init, Money!Init, Money!Applied
  <2> HIDE DEF Idle
  <2> QED BY <2>1, <2>2
          DEF Init, Backed, SettledMatchesLedger, EventsBackedByLedger, Knows, Credited
<1>2. WellFormed /\ Backed /\ [OpenNext]_vars => Backed'
  <2> SUFFICES ASSUME WellFormed, Backed, [OpenNext]_vars PROVE Backed'
    OBVIOUS
  <2>1. \A p \in Payment : (Debited(p) => Debited(p)') /\ (Credited(p) => Credited(p)')
    BY WalletStep DEF Debited, Credited
  <2>2. SettledMatchesLedger'
    BY <2>1, WalletStep, RecordStep DEF SettledMatchesLedger
  <2>3. EventsBackedByLedger'
    BY <2>1, RecordStep DEF EventsBackedByLedger
  <2>4. \A p \in Payment : <<"payment-refund", p>> \in late' => Debited(p)'
    BY <2>1, RecordStep
  <2> QED BY <2>2, <2>3, <2>4, HandlerStep DEF Backed
<1> QED BY <1>1, <1>2, OpenWellFormed, PTL DEF OpenSpec

(* No interleaving, timeout, late answer or redelivery makes a row claim   *)
(* money that the wallet did not move.                                     *)
THEOREM OpenSettles == OpenSpec => []SettledMatchesLedger
<1>1. Backed => SettledMatchesLedger
  BY DEF Backed
<1> QED BY <1>1, OpenBacked, PTL

(* Order-service is never told of money the wallet did not move.           *)
THEOREM OpenEventsBacked == OpenSpec => []EventsBackedByLedger
<1>1. Backed => EventsBackedByLedger
  BY DEF Backed
<1> QED BY <1>1, OpenBacked, PTL
-----------------------------------------------------------------------------
(* Where a handler stands tells what it may speak for: the payment it is   *)
(* about has a row, what it announces order-service can hear, and the      *)
(* consumer works for the command at the head of its queue.                *)
SpeaksFor(r) ==
    /\ self[r].pc \in AboutPayment => self[r].pay \in Created
    /\ r # Consumer /\ self[r].pc # "idle" => self[r].pay \in Created
    /\ self[r].pc = "publish" => self[r].held \in Side!Announced
    /\ r = Consumer /\ self[r].pc # "idle" => self[r].op = Head(commands)[1]
    /\ r = Consumer /\ self[r].pc \in {"find_active", "insert"} => self[r].op = "create"

(* Money, calls still under way and events are about payments that have a  *)
(* row, and rows and commands about orders that were asked for.            *)
Attached ==
    /\ \A r \in Proc : SpeaksFor(r)
    /\ \A p \in Payment : Debited(p) \/ Credited(p) => p \in Created
    /\ \A p \in Payment :
           <<"payment", p>> \in late \/ <<"payment-refund", p>> \in late => p \in Created
    /\ \A m \in published : m[1] \in Created
    /\ todo \subseteq Created
    /\ \A i \in 1..Len(commands) : commands[i] \in sent
    /\ \A p \in Created : <<"create", orderOf[p]>> \in sent

(* The first command stays first until it is acknowledged, and those that  *)
(* are left or added were sent.                                            *)
LEMMA QueueMoves ==
    ASSUME NEW S, NEW c \in Seq(S)
    PROVE  /\ c # <<>> => Head(c) \in S /\ \E i \in 1..Len(c) : Head(c) = c[i]
           /\ \A e \in S : c # <<>> => Head(Append(c, e)) = Head(c)
           /\ \A e \in S : \A i \in 1..Len(Append(c, e)) :
                  Append(c, e)[i] = e \/ \E j \in 1..Len(c) : Append(c, e)[i] = c[j]
           /\ c # <<>> => \A i \in 1..Len(Tail(c)) : \E j \in 1..Len(c) : Tail(c)[i] = c[j]
<1>1. Len(c) \in Nat /\ (c # <<>> => Len(c) >= 1)
  BY EmptySeq, LenProperties
<1>2. c # <<>> => Head(c) \in S /\ Head(c) = c[1]
  BY HeadTailProperties
<1>3. ASSUME NEW e \in S
      PROVE  /\ c # <<>> => Head(Append(c, e)) = Head(c)
             /\ \A i \in 1..Len(Append(c, e)) :
                    Append(c, e)[i] = e \/ \E j \in 1..Len(c) : Append(c, e)[i] = c[j]
  <2>1. /\ Append(c, e) \in Seq(S) /\ Append(c, e) # <<>>
        /\ Len(Append(c, e)) = Len(c) + 1
        /\ \A i \in 1..Len(c) : Append(c, e)[i] = c[i]
        /\ Append(c, e)[Len(c) + 1] = e
    BY AppendProperties
  <2>2. Head(Append(c, e)) = Append(c, e)[1]
    BY <2>1, HeadTailProperties
  <2>3. c # <<>> => Append(c, e)[1] = c[1]
    BY <1>1, <2>1
  <2> QED BY <1>1, <1>2, <2>1, <2>2, <2>3
<1>4. c # <<>> => /\ Len(Tail(c)) = Len(c) - 1
                  /\ \A i \in 1..Len(Tail(c)) : Tail(c)[i] = c[i + 1]
  BY HeadTailProperties
<1>5. c # <<>> => \A i \in 1..Len(Tail(c)) : \E j \in 1..Len(c) : Tail(c)[i] = c[j]
  BY <1>1, <1>4
<1> QED BY <1>1, <1>2, <1>3, <1>5

(* What the queue, the rows and the events may become in one step.         *)
Inserted(r, p) ==
    /\ At(r, "insert") /\ NextRow(p)
    /\ orderOf' = [orderOf EXCEPT ![p] = OrderToPay(r)]
    /\ UNCHANGED <<balance, operations, late, over, queue, published, todo>>

Moved(ref, d) ==
    Money!Apply(Payer, ref, d) /\ UNCHANGED <<orderOf, over, queue, published, todo>>

(* Every step is one command sent, one row inserted, one event published,  *)
(* one movement of money, or nothing that order-service could tell.        *)
LEMMA KindsOfStep ==
    ASSUME WellFormed, Attached, [OpenNext]_vars
    PROVE  \/ UNCHANGED <<orderOf, balance, operations, over, sent, published>>
           \/ \E kind \in Commands, o \in Order : Receive(kind, o)
           \/ \E r \in Proc : Publish(r)
           \/ \E r \in Proc, p \in Payment : Inserted(r, p)
           \/ \E p \in Created : \/ Moved(<<"payment", p>>, -Price)
                                 \/ Moved(<<"payment-refund", p>>, Price)
           \/ Deposit
<1>0. /\ Consumer \in Proc /\ Request \subseteq Proc
      /\ \A r \in Proc : self[r].pc \in AboutPayment => self[r].pay \in Created
      /\ \A p \in Payment :
           <<"payment", p>> \in late \/ <<"payment-refund", p>> \in late => p \in Created
  BY DEF Proc, Attached, SpeaksFor
<1>1. ASSUME NEW r \in Proc, Insert(r)
      PROVE  \/ UNCHANGED <<orderOf, balance, operations, over, sent, published>>
             \/ \E p \in Payment : Inserted(r, p)
  BY <1>1 DEF Insert, Inserted, rows, wallet, queue
<1>2. ASSUME NEW r \in Proc, Debit(r)
      PROVE  \E p \in Created : Moved(<<"payment", p>>, -Price)
  BY <1>0, <1>2 DEF Debit, At, AboutPayment, Moved, rows
<1>3. ASSUME Credit
      PROVE  \E p \in Created : Moved(<<"payment-refund", p>>, Price)
  <2>1. self[Consumer].pay \in Created
    BY <1>0, <1>3 DEF Credit, At, AboutPayment
  <2> QED BY <1>3, <2>1 DEF Credit, Moved, rows, queue
<1>4. ASSUME NEW p \in Payment, LateDebit(p)
      PROVE  \/ UNCHANGED <<orderOf, balance, operations, over, sent, published>>
             \/ \E q \in Created : Moved(<<"payment", q>>, -Price)
  BY <1>0, <1>4 DEF LateDebit, Moved, rows, queue
<1>5. ASSUME NEW p \in Payment, LateCredit(p)
      PROVE  \/ UNCHANGED <<orderOf, balance, operations, over, sent, published>>
             \/ \E q \in Created : Moved(<<"payment-refund", q>>, Price)
  BY <1>0, <1>5 DEF LateCredit, Moved, rows, queue
<1>7. ASSUME NEW r \in Proc,
             \/ LoadComplete(r) \/ SetProcessing(r) \/ DebitLookup(r) \/ DebitRefused(r)
             \/ DebitDuplicate(r) \/ DebitTimeout(r) \/ Succeed(r) \/ Fail(r)
             \/ LoadRetry(r) \/ FindActive(r) \/ LoadCancel(r) \/ Cancel(r) \/ Abort(r)
      PROVE  UNCHANGED <<orderOf, balance, operations, over, sent, published>>
  BY <1>7 DEF LoadComplete, SetProcessing, DebitLookup, DebitRefused, DebitDuplicate,
     DebitTimeout, Succeed, Fail, LoadRetry, FindActive, LoadCancel, Cancel, Abort, Write,
     rows, wallet, queue
<1>8. ASSUME \/ \E r \in Request : Start(r)
             \/ Take \/ Ack \/ ListPending \/ NextPending \/ ListRefundable \/ LoadRefund
             \/ Refund \/ CreditTimeout \/ CreditLookup \/ CreditDuplicate \/ DepositLoad
             \/ UNCHANGED vars
      PROVE  UNCHANGED <<orderOf, balance, operations, over, sent, published>>
  BY <1>8 DEF Start, Take, Ack, ListPending, NextPending, ListRefundable, LoadRefund,
     Refund, CreditTimeout, CreditLookup, CreditDuplicate, DepositLoad, Write, vars, rows, wallet, queue
<1> QED BY <1>0, <1>1, <1>2, <1>3, <1>4, <1>5, <1>7, <1>8
        DEF OpenNext, Serve, Progress, Consume

(* Rows are never deleted, nor given to another order.                     *)
LEMMA RowsStay ==
    ASSUME WellFormed, Attached, [OpenNext]_vars
    PROVE  \A p \in Created : p \in Created' /\ orderOf'[p] = orderOf[p]
<1>1. ASSUME NEW r \in Proc, NEW p \in Payment, Inserted(r, p)
      PROVE  \A q \in Created : q \in Created' /\ orderOf'[q] = orderOf[q]
  <2>1. \A q \in Created : q # p /\ q \in Payment /\ orderOf[q] # None
    BY <1>1 DEF Inserted, NextRow, Created
  <2>2. \A q \in Created : orderOf'[q] = orderOf[q]
    BY <1>1, <2>1 DEF Inserted, WellFormed, TypeOK
  <2> QED BY <2>1, <2>2 DEF Created
<1>2. UNCHANGED orderOf => \A q \in Created : q \in Created' /\ orderOf'[q] = orderOf[q]
  BY DEF Created
<1>3. UNCHANGED orderOf \/ \E r \in Proc, p \in Payment : Inserted(r, p)
  BY KindsOfStep DEF Moved, Receive, Publish, Deposit, rows
<1> QED BY <1>1, <1>2, <1>3

(* A row inserted is one of an order that payment.create was sent for.     *)
LEMMA InsertedIsWanted ==
    ASSUME WellFormed, Attached, NEW r \in Proc, At(r, "insert")
    PROVE  OrderToPay(r) \in Order /\ <<"create", OrderToPay(r)>> \in sent
<1>1. CASE r = Consumer
  <2>1. commands # <<>> /\ commands \in Seq(Commands \X Order)
    BY <1>1 DEF WellFormed, Busy, TypeOK, At
  <2>2. Head(commands) \in Commands \X Order /\ Head(commands) \in sent
    BY <2>1, QueueMoves DEF Attached
  <2>3. Head(commands)[1] = "create"
    BY <1>1 DEF Attached, SpeaksFor, At
  <2>4. Head(commands) = <<"create", Head(commands)[2]>>
    BY <2>2, <2>3
  <2> QED BY <1>1, <2>2, <2>4 DEF OrderToPay
<1>2. CASE r # Consumer
  <2>1. self[r].pay \in Created
    BY <1>2 DEF Attached, SpeaksFor, At
  <2> QED BY <1>2, <2>1 DEF OrderToPay, Attached, Created, WellFormed, TypeOK
<1> QED BY <1>1, <1>2

(* One handler moves and the queue keeps its head: what the others may     *)
(* speak for stays.                                                        *)
LEMMA OneSpeaks ==
    ASSUME WellFormed, Attached, NEW r \in Proc,
           \A q \in Proc : q # r => self'[q] = self[q],
           \A p \in Created : p \in Created',
           r = Consumer \/ self[Consumer].pc = "idle" \/ Head(commands') = Head(commands),
           SpeaksFor(r)'
    PROVE  \A q \in Proc : SpeaksFor(q)'
<1> SUFFICES ASSUME NEW q \in Proc PROVE SpeaksFor(q)'
  OBVIOUS
<1>1. SpeaksFor(q)
  BY DEF Attached
<1>2. CASE q # r
  <2>1. self'[q] = self[q]
    BY <1>2
  <2> QED BY <1>1, <1>2, <2>1 DEF SpeaksFor, AboutPayment
<1> QED BY <1>2

(* Whoever stops, stops speaking. *)
LEMMA StoppedSpeaks ==
    ASSUME WellFormed, Attached, NEW r \in Proc,
           Raise(r) \/ (Return(r) /\ self[r].pc # "idle"), UNCHANGED <<orderOf, commands>>
    PROVE  \A q \in Proc : SpeaksFor(q)'
<1>0. self \in [Proc -> Handler]
  BY DEF WellFormed, TypeOK
<1>1. \A q \in Proc : q # r => self'[q] = self[q]
  BY <1>0 DEF Raise, Return
<1>2. \A p \in Created : p \in Created'
  BY DEF Created
<1>3. SpeaksFor(r)'
  <2>1. CASE Raise(r)
    <3>1. self'[r].pc = "idle"
      BY <1>0, <2>1 DEF Raise, Idle
    <3> QED BY <3>1 DEF SpeaksFor, AboutPayment
  <2>2. CASE ~Raise(r)
    <3>0. Return(r) /\ self[r].pc # "idle"
      BY <2>2
    <3>1. /\ self'[r].pc \in {"idle", "next", "ack"}
          /\ r # Consumer => self'[r].pc = "idle"
          /\ r = Consumer /\ self'[r].pc # "idle" => self'[r].op = self[r].op
      BY <1>0, <3>0 DEF Return, Returned, Idle, Proc, Consumer
    <3>2. r = Consumer => self[r].op = Head(commands)[1]
      BY <3>0 DEF Attached, SpeaksFor
    <3> QED BY <3>1, <3>2 DEF SpeaksFor, AboutPayment
  <2> QED BY <2>1, <2>2
<1> QED BY <1>1, <1>2, <1>3, OneSpeaks

(* Whoever goes on speaks for the payment it was about, or has chosen.     *)
LEMMA GoingOnSpeaks ==
    ASSUME WellFormed, Attached, NEW r \in Proc, self[r].pc # "idle",
           UNCHANGED <<orderOf, commands>>, NEW step,
           \/ Goto(r, step) /\ (step \in AboutPayment => self[r].pc \in AboutPayment)
                            /\ step # "publish"
           \/ \E new : Write(r, new, step) /\ self[r].pc \in AboutPayment
                                           /\ (step = "publish" => new \in Side!Announced)
           \/ \E p \in Created : GotoPay(r, step, p) /\ step # "publish",
           r = Consumer /\ step \in {"find_active", "insert"} => self[r].op = "create"
    PROVE  \A q \in Proc : SpeaksFor(q)'
<1>0. self \in [Proc -> Handler] /\ SpeaksFor(r)
  BY DEF WellFormed, TypeOK, Attached
<1>1. \A q \in Proc : q # r => self'[q] = self[q]
  BY <1>0 DEF Goto, GotoPay, Write
<1>2. \A p \in Created : p \in Created'
  BY DEF Created
<1>3. /\ self'[r].pc = step /\ self'[r].op = self[r].op
      /\ step = "publish" => self'[r].held \in Side!Announced
      /\ \/ self'[r].pay \in Created
         \/ self'[r].pay = self[r].pay /\ (step \in AboutPayment => self[r].pc \in AboutPayment)
  BY <1>0 DEF Goto, GotoPay, Write, Handler
<1>4. SpeaksFor(r)'
  BY <1>0, <1>2, <1>3 DEF SpeaksFor, AboutPayment
<1> QED BY <1>1, <1>2, <1>4, OneSpeaks

(* Whoever starts speaks for what it was called about.                     *)
LEMMA StartSpeaks ==
    ASSUME WellFormed, Attached, NEW r \in Proc, NEW name, NEW step, NEW p,
           Enter(r, name, step, p), UNCHANGED <<orderOf, commands>>,
           step # "publish", r # Consumer \/ step \in AboutPayment => p \in Created,
           r = Consumer => name = Head(commands)[1],
           r = Consumer /\ step \in {"find_active", "insert"} => name = "create"
    PROVE  \A q \in Proc : SpeaksFor(q)'
<1>0. self \in [Proc -> Handler]
  BY DEF WellFormed, TypeOK
<1>1. \A q \in Proc : q # r => self'[q] = self[q]
  BY <1>0 DEF Enter
<1>2. \A q \in Created : q \in Created'
  BY DEF Created
<1>3. self'[r].pc = step /\ self'[r].op = name /\ self'[r].pay = p
  BY <1>0 DEF Enter, Idle
<1>4. SpeaksFor(r)'
  BY <1>2, <1>3 DEF SpeaksFor
<1> QED BY <1>1, <1>2, <1>4, OneSpeaks

(* No step makes a handler speak for what it has not seen.                 *)
LEMMA SpeakersStep ==
    ASSUME WellFormed, Attached, [OpenNext]_vars
    PROVE  \A q \in Proc : SpeaksFor(q)'
<1>0. /\ Consumer \in Proc /\ Request \subseteq Proc /\ Consumer \notin Request
      /\ self \in [Proc -> Handler]
  BY PaymentsAssumption DEF Proc, Consumer, WellFormed, TypeOK
<1>1. ASSUME NEW r \in Proc,
             \/ LoadComplete(r) \/ DebitLookup(r) \/ Debit(r) \/ DebitRefused(r)
             \/ LoadCancel(r) \/ DebitDuplicate(r) \/ DebitTimeout(r)
      PROVE  \A q \in Proc : SpeaksFor(q)'
  <2>1. /\ self[r].pc # "idle" /\ self[r].pc \in AboutPayment
        /\ UNCHANGED <<orderOf, commands>>
        /\ \/ Raise(r) \/ Return(r)
           \/ \E step \in {"set_processing", "debit", "debit_locked", "succeed", "fail",
                           "cancel"} : Goto(r, step)
    BY <1>1 DEF LoadComplete, DebitLookup, Debit, DebitRefused, LoadCancel, DebitDuplicate,
       DebitTimeout, Fault, At, AboutPayment, rows, queue
  <2> QED BY <2>1, StoppedSpeaks, GoingOnSpeaks DEF AboutPayment
<1>2. ASSUME NEW r \in Proc,
             SetProcessing(r) \/ Succeed(r) \/ Fail(r) \/ Cancel(r)
      PROVE  \A q \in Proc : SpeaksFor(q)'
  <2>1. /\ self[r].pc # "idle" /\ self[r].pc \in AboutPayment
        /\ UNCHANGED <<orderOf, commands>>
        /\ \/ Write(r, "processing", "debit")
           \/ \E new \in Side!Announced : Write(r, new, "publish")
    BY <1>2 DEF SetProcessing, Succeed, Fail, Cancel, Write, At, AboutPayment, queue,
       Side!Announced
  <2>2. CASE Write(r, "processing", "debit")
    <3>1. "debit" # "publish" /\ "debit" \notin {"find_active", "insert"}
      OBVIOUS
    <3> QED BY <2>1, <2>2, <3>1, GoingOnSpeaks
  <2>3. ASSUME NEW new \in Side!Announced, Write(r, new, "publish")
        PROVE  \A q \in Proc : SpeaksFor(q)'
    BY <2>1, <2>3, GoingOnSpeaks
  <2> QED BY <2>1, <2>2, <2>3
<1>3. ASSUME CreditLookup \/ Credit \/ CreditDuplicate \/ LoadRefund \/ Refund
      PROVE  \A q \in Proc : SpeaksFor(q)'
  <2>1. /\ self[Consumer].pc # "idle" /\ self[Consumer].pc \in AboutPayment
        /\ UNCHANGED <<orderOf, commands>>
        /\ \/ Raise(Consumer) \/ Return(Consumer)
           \/ \E step \in {"credit_locked", "load_refund", "refund"} : Goto(Consumer, step)
           \/ \E new \in Side!Announced : Write(Consumer, new, "publish")
    BY <1>3 DEF CreditLookup, Credit, CreditDuplicate, LoadRefund, Refund, Write, At, AboutPayment, rows, queue,
       Side!Announced
  <2> QED BY <1>0, <2>1, StoppedSpeaks, GoingOnSpeaks DEF AboutPayment
<1>4. ASSUME NEW r \in Request, LoadRetry(r) PROVE \A q \in Proc : SpeaksFor(q)'
  <2>1. /\ self[r].pc # "idle" /\ r \in Proc /\ r # Consumer
        /\ UNCHANGED <<orderOf, commands>>
        /\ Raise(r) \/ Goto(r, "find_active")
    BY <1>0, <1>4 DEF LoadRetry, At, rows, queue
  <2> QED BY <2>1, StoppedSpeaks, GoingOnSpeaks DEF AboutPayment
<1>5. ASSUME NEW r \in Proc, FindActive(r) PROVE \A q \in Proc : SpeaksFor(q)'
  <2>1. /\ self[r].pc = "find_active" /\ UNCHANGED <<orderOf, commands>>
        /\ \/ Goto(r, "insert") \/ Return(r) \/ Raise(r)
           \/ r \in Request /\ \E p \in Created : GotoPay(r, "load_complete", p)
    BY <1>5 DEF FindActive, ActiveOf, Of, At, rows, queue
  <2>2. r = Consumer => self[r].op = "create"
    BY <2>1 DEF Attached, SpeaksFor
  <2>3. CASE Goto(r, "insert")
    BY <2>1, <2>2, <2>3, GoingOnSpeaks DEF AboutPayment
  <2>4. ASSUME NEW p \in Created, GotoPay(r, "load_complete", p)
        PROVE  \A q \in Proc : SpeaksFor(q)'
    BY <2>1, <2>4, GoingOnSpeaks
  <2> QED BY <2>1, <2>3, <2>4, StoppedSpeaks
<1>6. ASSUME NEW r \in Proc, Insert(r) PROVE \A q \in Proc : SpeaksFor(q)'
  <2>1. CASE Raise(r) /\ UNCHANGED rows
    BY <1>6, <2>1, StoppedSpeaks DEF Insert, At, rows, queue
  <2>2. CASE ~(Raise(r) /\ UNCHANGED rows)
    <3>1. PICK p \in Payment :
              /\ orderOf' = [orderOf EXCEPT ![p] = OrderToPay(r)]
              /\ self' = [self EXCEPT ![r].pc = "publish", ![r].pay = p,
                                      ![r].held = "pending"]
      BY <1>6, <2>2 DEF Insert
    <3>2. OrderToPay(r) # None
      BY <1>6, InsertedIsWanted, PaymentsAssumption DEF Insert
    <3>3. p \in Created' /\ \A q \in Created : q \in Created'
      BY <3>1, <3>2, RowsStay DEF Created, WellFormed, TypeOK
    <3>4. /\ self'[r].pc = "publish" /\ self'[r].pay = p /\ self'[r].held = "pending"
          /\ self'[r].op = self[r].op
          /\ \A q \in Proc : q # r => self'[q] = self[q]
      BY <1>0, <3>1 DEF Handler
    <3>5. r = Consumer => self[r].op = Head(commands)[1] /\ UNCHANGED commands
      BY <1>6 DEF Attached, SpeaksFor, Insert, At, queue
    <3>6. SpeaksFor(r)'
      BY <3>3, <3>4, <3>5 DEF SpeaksFor, Side!Announced
    <3>7. UNCHANGED commands
      BY <1>6 DEF Insert, queue
    <3> QED BY <3>3, <3>4, <3>6, <3>7, OneSpeaks
  <2> QED BY <2>1, <2>2
<1>7. ASSUME NEW r \in Proc, Publish(r) PROVE \A q \in Proc : SpeaksFor(q)'
  <2>1. /\ self[r].pc = "publish" /\ UNCHANGED <<orderOf, commands>>
        /\ Goto(r, "load_complete") \/ Return(r)
    BY <1>7 DEF Publish, At, rows, queue
  <2> QED BY <2>1, StoppedSpeaks, GoingOnSpeaks DEF AboutPayment
<1>8. ASSUME ListPending \/ NextPending \/ ListRefundable \/ CreditTimeout
      PROVE  \A q \in Proc : SpeaksFor(q)'
  <2>1. /\ self[Consumer].pc # "idle" /\ UNCHANGED <<orderOf, commands>>
        /\ \/ Goto(Consumer, "next") \/ Goto(Consumer, "ack")
           \/ \E p \in todo : GotoPay(Consumer, "load_cancel", p)
           \/ \E p \in Created : GotoPay(Consumer, "credit", p)
           \/ Raise(Consumer) \/ Return(Consumer)
    BY <1>8 DEF ListPending, NextPending, ListRefundable, Refundable, Of, CreditTimeout,
       Fault, At, rows, queue
  <2>2. ASSUME NEW p \in Created, NEW step \in {"load_cancel", "credit"},
               GotoPay(Consumer, step, p)
        PROVE  \A q \in Proc : SpeaksFor(q)'
    BY <1>0, <2>1, <2>2, GoingOnSpeaks
  <2>3. CASE Goto(Consumer, "next") \/ Goto(Consumer, "ack")
    BY <1>0, <2>1, <2>3, GoingOnSpeaks DEF AboutPayment
  <2> QED BY <1>0, <2>1, <2>2, <2>3, StoppedSpeaks DEF Attached
<1>9. ASSUME NEW r \in Request, Start(r) PROVE \A q \in Proc : SpeaksFor(q)'
  <2>1. PICK name \in Routes, p \in Created,
             step \in {"load_complete", "load_cancel", "load_retry"} :
            Enter(r, name, step, p)
    BY <1>9, PaymentsAssumption DEF Start
  <2>2. UNCHANGED <<orderOf, commands>>
    BY <1>9 DEF Start, rows, queue
  <2> QED BY <1>0, <2>1, <2>2, StartSpeaks
<1>10. ASSUME Take PROVE \A q \in Proc : SpeaksFor(q)'
  <2>1. PICK step \in {"find_active", "list"} :
            /\ Enter(Consumer, Head(commands)[1], step, None)
            /\ step = "find_active" => Head(commands)[1] = "create"
    BY <1>10 DEF Take
  <2>2. UNCHANGED <<orderOf, commands>>
    BY <1>10 DEF Take, rows, queue
  <2> QED BY <1>0, <2>1, <2>2, StartSpeaks DEF AboutPayment
<1>11. ASSUME Ack PROVE \A q \in Proc : SpeaksFor(q)'
  <2>1. /\ self'[Consumer].pc = "idle" /\ \A q \in Proc : q # Consumer => self'[q] = self[q]
    BY <1>0, <1>11 DEF Ack, Idle
  <2>2. SpeaksFor(Consumer)'
    BY <2>1 DEF SpeaksFor, AboutPayment
  <2> QED BY <1>0, <2>1, <2>2, RowsStay, OneSpeaks
<1>12. ASSUME NEW kind \in Commands, NEW o \in Order, Receive(kind, o)
       PROVE  \A q \in Proc : SpeaksFor(q)'
  <2>1. /\ commands' = Append(commands, <<kind, o>>) /\ UNCHANGED <<self, orderOf>>
        /\ commands \in Seq(Commands \X Order) /\ <<kind, o>> \in Commands \X Order
    BY <1>12 DEF Receive, rows, WellFormed, TypeOK
  <2>2. self[Consumer].pc = "idle" \/ Head(commands') = Head(commands)
    BY <2>1, QueueMoves DEF WellFormed, Busy
  <2>3. SpeaksFor(Consumer)'
    BY <1>0, <2>1, <2>2 DEF Attached, SpeaksFor, Created
  <2> QED BY <1>0, <2>1, <2>2, <2>3, RowsStay, OneSpeaks
<1>13. ASSUME UNCHANGED <<self, commands, orderOf>> PROVE \A q \in Proc : SpeaksFor(q)'
  BY <1>13 DEF Attached, SpeaksFor, Created
<1>14. ASSUME \/ \E p \in Payment : LateDebit(p) \/ LateCredit(p)
              \/ DepositLoad \/ Deposit \/ UNCHANGED vars
       PROVE  UNCHANGED <<self, commands, orderOf>>
  BY <1>14 DEF LateDebit, LateCredit, DepositLoad, Deposit, vars, rows, queue
<1>15. ASSUME NEW r \in Proc, Abort(r) PROVE \A q \in Proc : SpeaksFor(q)'
  <2>1. Raise(r) /\ UNCHANGED <<orderOf, commands>>
    BY <1>15 DEF Abort, Fault, rows, queue
  <2> QED BY <2>1, StoppedSpeaks
<1> QED
  BY <1>0, <1>1, <1>2, <1>3, <1>4, <1>5, <1>6, <1>7, <1>8, <1>9, <1>10, <1>11, <1>12,
     <1>13, <1>14, <1>15 DEF OpenNext, Serve, Progress, Consume

(* What speakers, money, events and commands are about stays so.           *)
LEMMA AttachedStep ==
    ASSUME WellFormed, Attached, [OpenNext]_vars
    PROVE  Attached'
<1>0. /\ Consumer \in Proc /\ Request \subseteq Proc
      /\ \A r \in Proc : self[r].pc \in AboutPayment => self[r].pay \in Created
      /\ todo \subseteq Created
      /\ commands \in Seq(Commands \X Order)
  BY DEF Proc, Attached, SpeaksFor, WellFormed, TypeOK
<1>1. \A p \in Created : p \in Created' /\ orderOf'[p] = orderOf[p]
  BY RowsStay
<1>2. \A p \in Payment : Debited(p)' \/ Credited(p)' => p \in Created'
  <2>1. ASSUME NEW kind \in {"payment", "payment-refund"}, NEW p \in Created, NEW d \in Amounts,
               Moved(<<kind, p>>, d)
        PROVE  \A q \in Payment : Debited(q)' \/ Credited(q)' => q \in Created
    <3>1. <<kind, p>> \in Reference
      BY DEF Reference, Created
    <3>2. \A x : Money!Applied(x)' <=> Money!Applied(x) \/ x = <<kind, p>>
      BY <2>1, <3>1, MoneyMoves DEF Moved, WellFormed
    <3> QED BY <3>2 DEF Debited, Credited, Attached
  <2>2. ASSUME Deposit
        PROVE  \A q \in Payment : Debited(q)' \/ Credited(q)' => q \in Created
    <3>1. \A x : Money!Applied(x)' <=> Money!Applied(x) \/ x = <<"deposit", 0>>
      BY <2>2, DepositMoves DEF WellFormed
    <3> QED BY <3>1 DEF Debited, Credited, Attached
  <2>3. UNCHANGED operations => \A q \in Payment : Debited(q)' \/ Credited(q)' => q \in Created
    BY DEF Debited, Credited, Money!Applied, Attached
  <2>4. \/ UNCHANGED operations
        \/ \E kind \in {"payment", "payment-refund"}, p \in Created, d \in Amounts :
               Moved(<<kind, p>>, d)
        \/ Deposit
    BY KindsOfStep DEF Amounts, Receive, Publish, Inserted, wallet
  <2> QED BY <1>1, <2>1, <2>2, <2>3, <2>4
<1>3. \A p \in Payment :
          <<"payment", p>> \in late' \/ <<"payment-refund", p>> \in late' => p \in Created'
  <2>1. late' \subseteq late \cup {<<kind, p>> : kind \in {"payment", "payment-refund"}, p \in Created}
    <3>1. ASSUME NEW r \in Proc, DebitTimeout(r)
          PROVE  late' \subseteq late \cup {<<kind, p>> : kind \in {"payment", "payment-refund"},
                                                          p \in Created}
      BY <1>0, <3>1 DEF DebitTimeout, At, AboutPayment
    <3>2. ASSUME CreditTimeout
          PROVE  late' \subseteq late \cup {<<kind, p>> : kind \in {"payment", "payment-refund"},
                                                          p \in Created}
      BY <1>0, <3>2 DEF CreditTimeout, At, AboutPayment
    <3>3. ASSUME ~CreditTimeout, \A r \in Proc : ~DebitTimeout(r) PROVE late' \subseteq late
      BY <1>0, <3>3 DEF OpenNext, Serve, Progress, Consume, LoadComplete, SetProcessing,
         DebitLookup, Debit, DebitRefused, DebitDuplicate, Succeed, Fail,
         LateDebit, LoadRetry, FindActive, Insert, LoadCancel, Cancel, Take, Ack,
         ListPending, NextPending, ListRefundable, CreditLookup, Credit, CreditDuplicate, LoadRefund, Refund, Write,
         Start, Receive, LateCredit, Abort, DepositLoad, Deposit, Publish, wallet, vars
    <3> QED BY <3>1, <3>2, <3>3
  <2> QED BY <1>1, <2>1 DEF Attached
<1>4. \A m \in published' : m[1] \in Created'
  <2>1. ASSUME NEW r \in Proc, Publish(r) PROVE \A m \in published' : m[1] \in Created
    <3>1. self[r].pay \in Created
      BY <1>0, <2>1 DEF Publish, At, AboutPayment
    <3> QED BY <2>1, <3>1 DEF Publish, Attached
  <2>2. UNCHANGED published \/ \E r \in Proc : Publish(r)
    BY KindsOfStep DEF Receive, Inserted, Moved, Deposit
  <2> QED BY <1>1, <2>1, <2>2 DEF Attached
<1>5. todo' \subseteq Created'
  <2>1. todo' \subseteq todo \/ ListPending
    BY <1>0 DEF OpenNext, Serve, Progress, Consume, LoadComplete, SetProcessing, DebitTimeout,
       DebitLookup, Debit, DebitRefused, DebitDuplicate, Succeed, Fail,
       LateDebit, LoadRetry, FindActive, Insert, LoadCancel, Cancel, Take, Ack,
       NextPending, ListRefundable, CreditLookup, Credit, CreditDuplicate, LoadRefund, Refund, Write, CreditTimeout,
       Start, Receive, LateCredit, Abort, DepositLoad, Deposit, Publish, vars
  <2>2. ListPending => todo' \subseteq Created
    BY DEF ListPending, Of
  <2> QED BY <1>0, <1>1, <2>1, <2>2
<1>6. \A i \in 1..Len(commands') : commands'[i] \in sent'
  <2>1. ASSUME NEW kind \in Commands, NEW o \in Order, Receive(kind, o)
        PROVE  \A i \in 1..Len(commands') : commands'[i] \in sent'
    <3>1. /\ commands' = Append(commands, <<kind, o>>) /\ <<kind, o>> \in Commands \X Order
          /\ sent' = sent \cup {<<kind, o>>}
      BY <2>1 DEF Receive
    <3> QED BY <1>0, <3>1, QueueMoves DEF Attached
  <2>2. ASSUME Ack PROVE \A i \in 1..Len(commands') : commands'[i] \in sent'
    <3>1. commands' = Tail(commands) /\ commands # <<>> /\ UNCHANGED sent
      BY <2>2 DEF Ack, At, WellFormed, Busy
    <3> QED BY <1>0, <3>1, QueueMoves DEF Attached
  <2>3. UNCHANGED queue => \A i \in 1..Len(commands') : commands'[i] \in sent'
    BY DEF queue, Attached
  <2>4. UNCHANGED queue \/ Ack \/ \E kind \in Commands, o \in Order : Receive(kind, o)
    BY <1>0 DEF OpenNext, Serve, Progress, Consume, LoadComplete, SetProcessing, DebitTimeout,
       DebitLookup, Debit, DebitRefused, DebitDuplicate, Succeed, Fail,
       LateDebit, LoadRetry, FindActive, Insert, LoadCancel, Cancel, Take,
       ListPending, NextPending, ListRefundable, CreditLookup, Credit, CreditDuplicate, LoadRefund, Refund, Write,
       CreditTimeout, Start, LateCredit, Abort, DepositLoad, Deposit, Publish, vars, queue
  <2> QED BY <2>1, <2>2, <2>3, <2>4
<1>7. \A p \in Created' : <<"create", orderOf'[p]>> \in sent'
  <2>1. ASSUME NEW r \in Proc, NEW p \in Payment, Inserted(r, p)
        PROVE  \A q \in Created' : <<"create", orderOf'[q]>> \in sent'
    <3>1. <<"create", OrderToPay(r)>> \in sent
      BY <2>1, InsertedIsWanted DEF Inserted
    <3>2. \A q \in Payment : orderOf'[q] = IF q = p THEN OrderToPay(r) ELSE orderOf[q]
      BY <2>1 DEF Inserted, WellFormed, TypeOK
    <3>3. UNCHANGED sent
      BY <2>1 DEF Inserted, queue
    <3> QED BY <3>1, <3>2, <3>3 DEF Attached, Created
  <2>2. ASSUME UNCHANGED orderOf, sent \subseteq sent'
        PROVE  \A q \in Created' : <<"create", orderOf'[q]>> \in sent'
    BY <2>2 DEF Attached, Created
  <2>3. \/ UNCHANGED orderOf /\ sent \subseteq sent'
        \/ \E r \in Proc, p \in Payment : Inserted(r, p)
    BY KindsOfStep DEF Receive, Publish, Moved, Deposit, rows, queue
  <2> QED BY <2>1, <2>2, <2>3
<1> QED BY <1>2, <1>3, <1>4, <1>5, <1>6, <1>7, SpeakersStep DEF Attached

(* Everything payment-service does is about a row, and every row about an  *)
(* order that order-service wanted paid.                                   *)
THEOREM OpenAttached == OpenSpec => []Attached
<1>1. Init => Attached
  <2> SUFFICES ASSUME Init PROVE Attached
    OBVIOUS
  <2>1. \A r \in Proc : self[r].pc = "idle"
    BY DEF Init, Idle
  <2>2. \A x : ~Money!Applied(x)
    BY DEF Init, Money!Init, Money!Applied
  <2>3. Created = {} /\ commands = <<>> /\ late = {} /\ published = {} /\ todo = {}
    BY DEF Init, Created
  <2>4. \A r \in Proc : SpeaksFor(r)
    BY <2>1 DEF SpeaksFor, AboutPayment
  <2> QED BY <2>2, <2>3, <2>4 DEF Attached, Debited, Credited
<1>2. WellFormed /\ Attached /\ [OpenNext]_vars => Attached'
  BY AttachedStep
<1> QED BY <1>1, <1>2, OpenWellFormed, PTL DEF OpenSpec
-----------------------------------------------------------------------------
(* The five sets in which order-service sees payment-service.              *)
Wanted == {o \in Order : <<"create", o>> \in sent}
Opened == {o \in Order : Of(o) # {}}
Charged == {o \in Order : \E p \in Of(o) : Debited(p)}
Repaid == {o \in Order : \E p \in Of(o) : Credited(p)}
Told == {<<m[2], orderOf[m[1]]>> : m \in published}

(* The same rows, movements and events are the same sets. *)
LEMMA SidesStay ==
    /\ UNCHANGED sent => UNCHANGED Wanted
    /\ UNCHANGED orderOf => UNCHANGED Opened
    /\ UNCHANGED <<orderOf, operations>> => UNCHANGED <<Charged, Repaid>>
    /\ UNCHANGED <<orderOf, published>> => UNCHANGED Told
<1>1. UNCHANGED orderOf => \A o : Of(o)' = Of(o)
  BY DEF Of, Created
<1>2. UNCHANGED operations => \A p : Debited(p)' = Debited(p) /\ Credited(p)' = Credited(p)
  BY DEF Debited, Credited, Money!Applied
<1> QED BY <1>1, <1>2 DEF Wanted, Opened, Charged, Repaid, Told

(* A row inserted opens its order, and tells nothing of it yet.            *)
LEMMA InsertOpens ==
    ASSUME WellFormed, Backed, Attached, NEW r \in Proc, NEW p \in Payment, Inserted(r, p)
    PROVE  \E o \in Wanted : /\ Opened' = Opened \cup {o}
                             /\ UNCHANGED <<Wanted, Charged, Repaid, Told>>
<1> DEFINE o == OrderToPay(r)
<1>1. o \in Order /\ o \in Wanted
  BY InsertedIsWanted DEF Inserted, Wanted
<1>2. \A q \in Payment : orderOf'[q] = IF q = p THEN o ELSE orderOf[q]
  BY DEF Inserted, WellFormed, TypeOK
<1>3. p \notin Created /\ o # None
  BY <1>1, PaymentsAssumption DEF Inserted, NextRow
<1> HIDE DEF o
<1>4. \A x : Of(x)' = IF x = o THEN Of(x) \cup {p} ELSE Of(x)
  BY <1>2, <1>3 DEF Of, Created
<1>5. Opened' = Opened \cup {o}
  BY <1>1, <1>4 DEF Opened
<1>6. \A q : Debited(q)' = Debited(q) /\ Credited(q)' = Credited(q)
  BY DEF Inserted, Debited, Credited, Money!Applied
<1>7. ~Debited(p) /\ ~Credited(p)
  BY <1>3 DEF Attached
<1>8. UNCHANGED <<Charged, Repaid>>
  BY <1>4, <1>6, <1>7 DEF Charged, Repaid
<1>9. \A m \in published : orderOf'[m[1]] = orderOf[m[1]]
  BY <1>2, <1>3 DEF Attached, Created
<1>10. UNCHANGED Told
  BY <1>9 DEF Told, Inserted
<1>11. UNCHANGED Wanted
  BY SidesStay DEF Inserted, queue
<1> QED BY <1>1, <1>5, <1>8, <1>10, <1>11

(* A debit charges an order with a payment, a credit repays a charged one. *)
LEMMA MoneyCharges ==
    ASSUME WellFormed, Backed, Attached, NEW p \in Created
    PROVE  /\ Moved(<<"payment", p>>, -Price) =>
                  /\ orderOf[p] \in Opened
                  /\ Charged' = Charged \cup {orderOf[p]} /\ Repaid' = Repaid
           /\ Moved(<<"payment-refund", p>>, Price) =>
                  /\ Charged' = Charged /\ Repaid' = Repaid \cup {orderOf[p]}
<1>1. /\ p \in Payment /\ orderOf[p] \in Order /\ p \in Of(orderOf[p])
      /\ \A o \in Order : p \in Of(o) => o = orderOf[p]
  BY DEF Created, Of, WellFormed, TypeOK
<1>2. <<"payment", p>> \in Reference /\ <<"payment-refund", p>> \in Reference
  BY <1>1 DEF Reference
<1>3. ASSUME NEW kind \in {"payment", "payment-refund"}, NEW d \in Amounts, Moved(<<kind, p>>, d)
      PROVE  /\ \A x : Money!Applied(x)' <=> Money!Applied(x) \/ x = <<kind, p>>
             /\ \A o : Of(o)' = Of(o)
  <2>1. \A x : Money!Applied(x)' <=> Money!Applied(x) \/ x = <<kind, p>>
    BY <1>2, <1>3, MoneyMoves DEF Moved, WellFormed
  <2> QED BY <1>3, <2>1 DEF Moved, Of, Created
<1>4. ASSUME Moved(<<"payment", p>>, -Price)
      PROVE  Charged' = Charged \cup {orderOf[p]} /\ Repaid' = Repaid
  <2>1. \A q \in Payment : /\ Debited(q)' <=> Debited(q) \/ q = p
                           /\ Credited(q)' <=> Credited(q)
    BY <1>3, <1>4 DEF Debited, Credited, Amounts
  <2>2. \A o : Of(o)' = Of(o) /\ Of(o) \subseteq Payment
    BY <1>3, <1>4 DEF Amounts, Of, Created
  <2> QED BY <1>1, <2>1, <2>2 DEF Charged, Repaid
<1>5. ASSUME Moved(<<"payment-refund", p>>, Price)
      PROVE  Charged' = Charged /\ Repaid' = Repaid \cup {orderOf[p]}
  <2>1. \A q \in Payment : /\ Debited(q)' <=> Debited(q)
                           /\ Credited(q)' <=> Credited(q) \/ q = p
    BY <1>3, <1>5 DEF Debited, Credited, Amounts
  <2>2. \A o : Of(o)' = Of(o) /\ Of(o) \subseteq Payment
    BY <1>3, <1>5 DEF Amounts, Of, Created
  <2> QED BY <1>1, <2>1, <2>2 DEF Charged, Repaid
<1>6. orderOf[p] \in Opened
  BY <1>1 DEF Opened
<1> QED BY <1>4, <1>5, <1>6

(* An event says what its handler has written, of the order of its row.    *)
LEMMA PublishTells ==
    ASSUME WellFormed, Backed, Attached, NEW r \in Proc, Publish(r)
    PROVE  \E o \in Order, s \in Side!Announced :
               /\ Told' = Told \cup {<<s, o>>}
               /\ o \in Opened
               /\ s = "succeeded" => o \in Charged
               /\ s = "refunded" => o \in Repaid
<1> DEFINE p == self[r].pay
           s == self[r].held
<1>1. p \in Created /\ s \in Side!Announced
  BY DEF Attached, SpeaksFor, Publish, At, AboutPayment
<1>2. /\ s = "succeeded" => Debited(p)
      /\ s = "refunded" => Credited(p)
  BY DEF Backed, Knows, Publish, At
<1>3. published' = published \cup {<<p, s>>} /\ UNCHANGED orderOf
  BY DEF Publish, rows
<1> HIDE DEF p, s
<1>4. orderOf[p] \in Order /\ p \in Of(orderOf[p])
  BY <1>1 DEF Of, Created, WellFormed, TypeOK
<1>5. Told' = Told \cup {<<s, orderOf[p]>>}
  <2>1. \A t : t \in Told <=> \E m \in published : t = <<m[2], orderOf[m[1]]>>
    BY DEF Told
  <2>2. \A t : t \in Told' <=> \E m \in published' : t = <<m[2], orderOf[m[1]]>>
    BY <1>3 DEF Told
  <2>3. <<p, s>>[1] = p /\ <<p, s>>[2] = s
    OBVIOUS
  <2>4. ASSUME NEW t PROVE t \in Told' <=> t \in Told \/ t = <<s, orderOf[p]>>
    <3>1. t \in Told' => t \in Told \/ t = <<s, orderOf[p]>>
      BY <1>3, <2>1, <2>2, <2>3
    <3>2. t \in Told => t \in Told'
      BY <1>3, <2>1, <2>2
    <3>3. <<s, orderOf[p]>> \in Told'
      <4>1. <<p, s>> \in published'
        BY <1>3
      <4> QED BY <2>2, <2>3, <4>1
    <3> QED BY <3>1, <3>2, <3>3
  <2> QED BY <2>4
<1>6. /\ orderOf[p] \in Opened
      /\ s = "succeeded" => orderOf[p] \in Charged
      /\ s = "refunded" => orderOf[p] \in Repaid
  BY <1>2, <1>4 DEF Opened, Charged, Repaid
<1> QED BY <1>1, <1>4, <1>5, <1>6

(* Every step is a step of the payment side, or invisible to it.           *)
LEMMA SideStep ==
    ASSUME WellFormed, Backed, Attached, [OpenNext]_vars
    PROVE  [Side!Next]_(Side!vars)
<1> DEFINE Same == UNCHANGED <<Wanted, Opened, Charged, Repaid, Told>>
<1>1. Same => UNCHANGED Side!vars
  BY DEF Wanted, Opened, Charged, Repaid, Told, Side!vars
<1>2. ASSUME NEW o \in Order, Wanted' = Wanted \cup {o},
             UNCHANGED <<Opened, Charged, Repaid, Told>>
      PROVE  Side!Next
  <2>1. Side!Ask(o)
    BY <1>2 DEF Side!Ask, Wanted, Opened, Charged, Repaid, Told
  <2> QED BY <2>1 DEF Side!Next
<1>3. ASSUME NEW o \in Order, UNCHANGED Wanted,
             \/ UNCHANGED Opened
             \/ o \in Wanted /\ Opened' = Opened \cup {o},
             \/ UNCHANGED Charged
             \/ o \in Opened' /\ Charged' = Charged \cup {o},
             \/ UNCHANGED Repaid
             \/ o \in Charged' /\ Repaid' = Repaid \cup {o},
             \/ UNCHANGED Told
             \/ \E s \in Side!Announced :
                    /\ Told' = Told \cup {<<s, o>>}
                    /\ o \in Opened'
                    /\ s = "succeeded" => o \in Charged'
                    /\ s = "refunded" => o \in Repaid'
      PROVE  Side!Next
  <2>1. Side!Money(o)
    BY <1>3 DEF Side!Money, Side!Joins, Wanted, Opened, Charged, Repaid
  <2>2. UNCHANGED Told \/ Side!Say(o)
    BY <1>3 DEF Side!Say, Side!Sayable, Opened, Charged, Repaid, Told
  <2>3. Side!Pay(o)
    BY <1>3, <2>1, <2>2 DEF Side!Pay, Wanted, Told
  <2> QED BY <2>3 DEF Side!Next
<1>4. CASE UNCHANGED <<orderOf, balance, operations, over, sent, published>>
  BY <1>1, <1>4, SidesStay
<1>5. ASSUME NEW kind \in Commands, NEW o \in Order, Receive(kind, o)
      PROVE  [Side!Next]_(Side!vars)
  <2>1. UNCHANGED <<Opened, Charged, Repaid, Told>>
    BY <1>5, SidesStay DEF Receive, rows, wallet
  <2>2. CASE kind = "create"
    <3>1. Wanted' = Wanted \cup {o}
      BY <1>5, <2>2 DEF Receive, Wanted
    <3> QED BY <1>2, <2>1, <3>1
  <2>3. CASE kind # "create"
    <3>1. UNCHANGED Wanted
      BY <1>5, <2>3 DEF Receive, Wanted
    <3> QED BY <1>1, <2>1, <3>1
  <2> QED BY <2>2, <2>3
<1>6. ASSUME NEW r \in Proc, Publish(r) PROVE Side!Next
  <2>1. UNCHANGED <<Wanted, Opened, Charged, Repaid>>
    BY <1>6, SidesStay DEF Publish, rows, wallet, queue
  <2> QED BY <1>3, <1>6, <2>1, PublishTells
<1>7. ASSUME NEW r \in Proc, NEW p \in Payment, Inserted(r, p) PROVE Side!Next
  <2>1. PICK o \in Wanted : /\ Opened' = Opened \cup {o}
                            /\ UNCHANGED <<Wanted, Charged, Repaid, Told>>
    BY <1>7, InsertOpens
  <2>2. o \in Order
    BY DEF Wanted
  <2> QED BY <1>3, <2>1, <2>2
<1>8. ASSUME NEW p \in Created,
             Moved(<<"payment", p>>, -Price) \/ Moved(<<"payment-refund", p>>, Price)
      PROVE  Side!Next
  <2>1. UNCHANGED <<Wanted, Opened, Told>>
    BY <1>8, SidesStay DEF Moved, queue
  <2>2. orderOf[p] \in Order
    BY DEF Created, WellFormed, TypeOK
  <2>3. CASE Moved(<<"payment", p>>, -Price)
    BY <1>3, <2>1, <2>2, <2>3, MoneyCharges
  <2>4. CASE Moved(<<"payment-refund", p>>, Price)
    <3>1. orderOf[p] \in Charged
      <4>1. <<"payment-refund", p>> \in Reference /\ p \in Payment /\ p \in Of(orderOf[p])
        BY DEF Reference, Created, Of
      <4>2. Credited(p)'
        BY <2>4, <4>1, MoneyMoves DEF Moved, WellFormed, Amounts, Credited
      <4>3. Debited(p)'
        BY <4>1, <4>2, WalletStep
      <4>4. Debited(p)' <=> Debited(p)
        BY <2>4, <4>1, MoneyMoves DEF Moved, WellFormed, Amounts, Debited
      <4> QED BY <2>2, <4>1, <4>3, <4>4 DEF Charged
    <3> QED BY <1>3, <2>1, <2>2, <2>4, <3>1, MoneyCharges
  <2> QED BY <1>8, <2>3, <2>4
<1>9. CASE Deposit
  <2>1. UNCHANGED <<Wanted, Opened, Told>>
    BY <1>9, SidesStay DEF Deposit, rows, queue
  <2>3. \A x : Money!Applied(x)' <=> Money!Applied(x) \/ x = <<"deposit", 0>>
    BY <1>9, DepositMoves DEF WellFormed
  <2>4. \A q : (Debited(q)' <=> Debited(q)) /\ (Credited(q)' <=> Credited(q))
    BY <2>3 DEF Debited, Credited
  <2>5. \A o : Of(o)' = Of(o)
    BY <1>9 DEF Deposit, rows, Of, Created
  <2>6. UNCHANGED <<Charged, Repaid>>
    BY <2>4, <2>5 DEF Charged, Repaid
  <2> QED BY <1>1, <2>1, <2>6
<1> HIDE DEF Same
<1> QED BY <1>4, <1>5, <1>6, <1>7, <1>8, <1>9, KindsOfStep

(* To order-service all of payment-service is a payment side that keeps    *)
(* its word: it opens a payment only for an order it was asked to, moves   *)
(* money only for an order with a payment, gives back only what it took,   *)
(* and announces only what is so.                                          *)
THEOREM OpenImplementsPaymentSide == OpenSpec => ImplementsPaymentSide
<1>1. Init => Side!Init
  <2> SUFFICES ASSUME Init PROVE Side!Init
    OBVIOUS
  <2>1. \A o : Of(o) = {}
    BY DEF Init, Of, Created
  <2> QED BY <2>1 DEF Init, Side!Init
<1>2. WellFormed /\ Backed /\ Attached /\ [OpenNext]_vars => [Side!Next]_(Side!vars)
  BY SideStep
<1> QED
  BY <1>1, <1>2, OpenWellFormed, OpenBacked, OpenAttached, PTL
  DEF OpenSpec, ImplementsPaymentSide, Side!Spec
-----------------------------------------------------------------------------
(* A payment joins or leaves the ones that were taken and not given back.  *)
LEMMA UnreturnedCounts ==
    /\ Cardinality(Unreturned) \in Nat
    /\ \A p \in Payment :
           /\ p \notin Unreturned /\ Unreturned' = Unreturned \cup {p} =>
                  Price * Cardinality(Unreturned)' = Price * Cardinality(Unreturned) + Price
           /\ p \in Unreturned /\ Unreturned' = Unreturned \ {p} =>
                  Price * Cardinality(Unreturned)' = Price * Cardinality(Unreturned) - Price
<1>1. IsFiniteSet(Payment)
  BY PaymentsAssumption, FS_Interval DEF Payment
<1>2. IsFiniteSet(Unreturned)
  BY <1>1, FS_Subset DEF Unreturned
<1>3. Cardinality(Unreturned) \in Nat
  BY <1>2, FS_CardinalityType
<1>4. ASSUME NEW n \in Nat PROVE Price * (n + 1) = Price * n + Price
                                 /\ Price * (n - 1) = Price * n - Price
  BY PaymentsAssumption
<1>5. ASSUME NEW p \in Payment, p \notin Unreturned, Unreturned' = Unreturned \cup {p}
      PROVE  Cardinality(Unreturned') = Cardinality(Unreturned) + 1
  BY <1>2, <1>5, FS_AddElement
<1>6. ASSUME NEW p \in Payment, p \in Unreturned, Unreturned' = Unreturned \ {p}
      PROVE  Cardinality(Unreturned') = Cardinality(Unreturned) - 1
  BY <1>2, <1>6, FS_RemoveElement
<1> QED BY <1>3, <1>4, <1>5, <1>6

(* Nothing was written over before the deposit. *)
Taken == NothingElseIsTaken /\ (Money!Applied(<<"deposit", 0>>) \/ over = 0)

(* One movement of money changes the balance and the payments it is short  *)
(* of alike.                                                               *)
LEMMA MovedCounts ==
    ASSUME WellFormed, Backed, Taken,
           NEW p, \A q \in Payment : Credited(q)' => Debited(q)',
           \/ p \in Payment /\ Moved(<<"payment", p>>, -Price)
           \/ p \in Payment /\ Moved(<<"payment-refund", p>>, Price)
           \/ Deposit
    PROVE  Taken'
<1> DEFINE Deposited == Money!Applied(<<"deposit", 0>>)
           n == Cardinality(Unreturned)
<1>0. /\ TypeOK /\ balance[Payer] \in Nat /\ balance \in [{Payer} -> Nat]
      /\ Price \in Nat /\ TopUp \in Nat /\ n \in Nat
      /\ Price * n \in Nat
      /\ \A q \in Payment : Credited(q) => Debited(q)
      /\ over \in Int /\ (Deposited \/ over = 0)
      /\ balance[Payer] = (IF Deposited THEN TopUp ELSE 0) + over - Price * n
  BY PaymentsAssumption, UnreturnedCounts
  DEF WellFormed, TypeOK, Backed, SettledMatchesLedger, NothingElseIsTaken, Taken
<1>1. \A q \in Payment : q \in Unreturned <=> Debited(q) /\ ~Credited(q)
  BY DEF Unreturned
<1>2. Unreturned \subseteq Payment /\ Unreturned' \subseteq Payment
  BY DEF Unreturned
<1>3. \A q \in Payment : q \in Unreturned' <=> Debited(q)' /\ ~Credited(q)'
  BY DEF Unreturned
<1>4. CASE p \in Payment /\ Moved(<<"payment", p>>, -Price)
  <2>1. <<"payment", p>> \in Reference
    BY <1>4 DEF Reference
  <2>2. \A x : Money!Applied(x)' <=> Money!Applied(x) \/ x = <<"payment", p>>
    BY <1>0, <1>4, <2>1, MoneyMoves DEF Moved, Amounts
  <2>3. /\ ~Debited(p) /\ Debited(p)'
        /\ \A q \in Payment : (Credited(q)' <=> Credited(q))
                              /\ (q # p => (Debited(q)' <=> Debited(q)))
        /\ Deposited' <=> Deposited
    BY <1>4, <2>2 DEF Moved, Money!Apply, Debited, Credited
  <2>4. p \notin Unreturned /\ Unreturned' = Unreturned \cup {p}
    BY <1>0, <1>1, <1>2, <1>3, <1>4, <2>3
  <2>5. balance'[Payer] = balance[Payer] - Price /\ over' = over
    BY <1>0, <1>4 DEF Moved, Money!Apply
  <2>6. Price * n' = Price * n + Price
    BY <1>4, <2>4, UnreturnedCounts
  <2> HIDE DEF n, Deposited
  <2>7. balance'[Payer] = (IF Deposited' THEN TopUp ELSE 0) + over' - Price * n'
    BY <1>0, <2>3, <2>5, <2>6
  <2>8. Deposited' \/ over' = 0
    BY <1>0, <2>3, <2>5
  <2> QED BY <2>7, <2>8 DEF NothingElseIsTaken, Taken, n, Deposited
<1>5. CASE p \in Payment /\ Moved(<<"payment-refund", p>>, Price)
  <2>1. <<"payment-refund", p>> \in Reference
    BY <1>5 DEF Reference
  <2>2. \A x : Money!Applied(x)' <=> Money!Applied(x) \/ x = <<"payment-refund", p>>
    BY <1>0, <1>5, <2>1, MoneyMoves DEF Moved, Amounts
  <2>3. /\ ~Credited(p) /\ Credited(p)'
        /\ \A q \in Payment : (Debited(q)' <=> Debited(q))
                              /\ (q # p => (Credited(q)' <=> Credited(q)))
        /\ Deposited' <=> Deposited
    BY <1>5, <2>2 DEF Moved, Money!Apply, Debited, Credited
  <2>4. p \in Unreturned /\ Unreturned' = Unreturned \ {p}
    BY <1>1, <1>2, <1>3, <1>5, <2>3
  <2>5. balance'[Payer] = balance[Payer] + Price /\ over' = over
    BY <1>0, <1>5 DEF Moved, Money!Apply
  <2>6. Price * n' = Price * n - Price
    BY <1>5, <2>4, UnreturnedCounts
  <2> HIDE DEF n, Deposited
  <2>7. balance'[Payer] = (IF Deposited' THEN TopUp ELSE 0) + over' - Price * n'
    BY <1>0, <2>3, <2>5, <2>6
  <2>8. Deposited' \/ over' = 0
    BY <1>0, <2>3, <2>5
  <2> QED BY <2>7, <2>8 DEF NothingElseIsTaken, Taken, n, Deposited
<1>6. CASE Deposit
  <2>2. \A x : Money!Applied(x)' <=> Money!Applied(x) \/ x = <<"deposit", 0>>
    BY <1>0, <1>6, DepositMoves
  <2>3. /\ ~Deposited /\ Deposited'
        /\ \A q \in Payment : (Debited(q)' <=> Debited(q)) /\ (Credited(q)' <=> Credited(q))
    BY <1>6, <2>2 DEF Deposit, Debited, Credited
  <2>4. Unreturned' = Unreturned
    BY <1>1, <1>2, <1>3, <2>3
  <2>5. /\ balance'[Payer] = known + TopUp
        /\ over' = known - balance[Payer]
        /\ known \in Nat
    BY <1>0, <1>6 DEF Deposit, TypeOK
  <2>6. n' = n
    BY <2>4
  <2> HIDE DEF n, Deposited
  <2>7. balance'[Payer] = (IF Deposited' THEN TopUp ELSE 0) + over' - Price * n'
    BY <1>0, <2>3, <2>5, <2>6
  <2>8. Deposited' \/ over' = 0
    BY <1>0, <2>3, <2>5
  <2> QED BY <2>7, <2>8 DEF NothingElseIsTaken, Taken, n, Deposited
<1> QED BY <1>4, <1>5, <1>6

(* The payer's money: what was paid in, less one price for each payment    *)
(* that was debited and not given back, and what the deposit wrote over.   *)
(* No interleaving of requests, retries, refunds, timeouts and late answers*)
(* takes or returns any more.                                              *)
THEOREM OpenTakesNothingElse == OpenSpec => []NothingElseIsTaken
<1>1. Init => Taken
  <2> SUFFICES ASSUME Init PROVE Taken
    OBVIOUS
  <2>1. \A x : ~Money!Applied(x)
    BY DEF Init, Money!Init, Money!Applied
  <2>2. Unreturned = {}
    BY <2>1 DEF Unreturned, Debited
  <2>3. Cardinality(Unreturned) = 0
    BY <2>2, FS_EmptySet
  <2>4. balance[Payer] = 0
    BY DEF Init, Money!Init
  <2>5. 0 = 0 + 0 - Price * 0
    BY PaymentsAssumption
  <2> QED BY <2>1, <2>3, <2>4, <2>5 DEF Init, Taken, NothingElseIsTaken
<1>2. WellFormed /\ Backed /\ Attached /\ Taken /\ [OpenNext]_vars => Taken'
  <2> SUFFICES ASSUME WellFormed, Backed, Attached, Taken, [OpenNext]_vars
               PROVE  Taken'
    OBVIOUS
  <2>1. ASSUME UNCHANGED <<balance, operations, over>> PROVE Taken'
    <3>1. \A x : Money!Applied(x)' <=> Money!Applied(x)
      BY <2>1 DEF Money!Applied
    <3>2. Unreturned' = Unreturned
      BY <3>1 DEF Unreturned, Debited, Credited
    <3> QED BY <2>1, <3>1, <3>2 DEF Taken, NothingElseIsTaken
  <2>2. ASSUME NEW p \in Created,
               Moved(<<"payment", p>>, -Price) \/ Moved(<<"payment-refund", p>>, Price)
        PROVE  Taken'
    <3>1. p \in Payment
      BY DEF Created
    <3> QED BY <2>2, <3>1, WalletStep, MovedCounts
  <2>3. ASSUME Deposit PROVE Taken'
    BY <2>3, WalletStep, MovedCounts
  <2>4. \/ UNCHANGED <<balance, operations, over>>
        \/ \E p \in Created : \/ Moved(<<"payment", p>>, -Price)
                              \/ Moved(<<"payment-refund", p>>, Price)
        \/ Deposit
    BY KindsOfStep DEF Receive, Publish, Inserted, wallet, deposit
  <2> QED BY <2>1, <2>2, <2>3, <2>4
<1>3. Taken => NothingElseIsTaken
  BY DEF Taken
<1> QED
  BY <1>1, <1>2, <1>3, OpenWellFormed, OpenBacked, OpenAttached, PTL DEF OpenSpec
-----------------------------------------------------------------------------
(* Next to the order-service there is, which sends some of the commands.   *)

(* What order-service sends, and when, is among what Receive allows.       *)
THEOREM PaymentsNextToAnyOrders == Spec => OpenSpec
<1>1. [Next]_vars => [OpenNext]_vars
  BY DEF Next, OpenNext, Send
<1> QED BY <1>1, PTL DEF Spec, OpenSpec

(* The tables, the queue, the wallet and the handlers keep their types.    *)
THEOREM PaymentsTyped == Spec => []TypeOK
BY PaymentsNextToAnyOrders, OpenTyped, PTL

(* No row of payments claims money the wallet did not move.                *)
THEOREM PaymentsSettle == Spec => []SettledMatchesLedger
BY PaymentsNextToAnyOrders, OpenSettles, PTL

(* No event order-service may receive claims money the wallet did not move. *)
THEOREM PaymentEventsBacked == Spec => []EventsBackedByLedger
BY PaymentsNextToAnyOrders, OpenEventsBacked, PTL

(* Whatever is done is done about a payment that exists, of an order a     *)
(* payment was asked for.                                                  *)
THEOREM PaymentsAttached == Spec => []Attached
BY PaymentsNextToAnyOrders, OpenAttached, PTL

(* To order-service, payment-service keeps its word.                       *)
THEOREM PaymentsImplementPaymentSide == Spec => ImplementsPaymentSide
BY PaymentsNextToAnyOrders, OpenImplementsPaymentSide, PTL

(* The payer is short of the payments that were debited and not returned,  *)
(* and of nothing else.                                                    *)
THEOREM PaymentsTakeNothingElse == Spec => []NothingElseIsTaken
BY PaymentsNextToAnyOrders, OpenTakesNothingElse, PTL
-----------------------------------------------------------------------------
(* Both together: the order-service and catalog of Orders over the rows,   *)
(* wallet and queues of Payments.  Each is proved next to anything that    *)
(* the other may be, so neither proof rests on the other.                  *)

CONSTANTS
    Product, Items, Initial,   \* see Stock
    Visitor, Calls, Patches,   \* Request and Routes of Orders
    MaxEvents, MaxMishaps      \* MaxFaults of Orders

VARIABLES
    ordered, patched,                 \* orders.status; what PATCH wrote to it
    stock, held, reserved,
    catalogCommands, catalogEvents,
    paymentEvents,                    \* order.payment.queue
    asked,
    serving, mishaps                  \* self and faults of Orders

shop == <<ordered, patched, stock, held, reserved, catalogCommands, catalogEvents, asked,
          serving, mishaps>>

(* An order's payment, as far as money has moved.                          *)
PaidFor ==
    [o \in Order |-> CASE o \in Repaid -> "refunded"
                       [] o \in Charged \ Repaid -> "succeeded"
                       [] o \in Opened \ (Charged \cup Repaid) -> "pending"
                       [] OTHER -> "none"]

Shop == INSTANCE OrdersProofs WITH
    status <- ordered, self <- serving, faults <- mishaps,
    Request <- Visitor, Routes <- Calls, MaxFaults <- MaxMishaps,
    paymentCommands <- commands, pay <- PaidFor,
    locked <- None, work <- None

(* order-service or the catalog moves, and may send a command.             *)
OrdersMove ==
    /\ UNCHANGED vars \/ \E kind \in Commands, o \in Order : Receive(kind, o)
    /\ Shop!Shop

(* payment-service moves; what it publishes reaches order-service.         *)
PaymentsMove ==
    /\ Serve
    /\ \/ \E r \in Proc :
              /\ Publish(r)
              /\ paymentEvents' = Append(paymentEvents, <<self[r].held, orderOf[self[r].pay]>>)
       \/ (\A r \in Proc : ~Publish(r)) /\ UNCHANGED paymentEvents
    /\ UNCHANGED shop

MarketNext == OrdersMove \/ PaymentsMove

marketVars == <<vars, shop, paymentEvents>>

Market == Init /\ Shop!Init /\ [][MarketNext]_marketVars

(* Whoever was asked to open a payment has been asked by order-service.    *)
Linked == \A o \in Order : <<"create", o>> \in sent => asked[o] = 1

(* Of Payments, next to this order-service.                                *)
LEMMA MarketIsPayments == Market => OpenSpec
<1>1. [MarketNext]_marketVars => [OpenNext]_vars
  BY DEF MarketNext, marketVars, OrdersMove, PaymentsMove, OpenNext
<1> QED BY <1>1, PTL DEF Market, OpenSpec

(* What Shop sees of payments is what has happened.                        *)
Seen ==
    /\ PaidFor \in [Order -> Shop!PayStatus]
    /\ Opened = {o \in Order : PaidFor[o] # "none"}
    /\ Charged = {o \in Order : Shop!Charged(o)}
    /\ Repaid = {o \in Order : PaidFor[o] = "refunded"}

LEMMA PaidForIsSeen == Backed => Seen
<1> SUFFICES ASSUME Backed PROVE Seen
  OBVIOUS
<1>1. \A o : Of(o) \subseteq Payment
  BY DEF Of, Created
<1>2. Repaid \subseteq Charged
  BY <1>1 DEF Backed, SettledMatchesLedger, Repaid, Charged
<1>3. Charged \subseteq Opened /\ Opened \subseteq Order /\ Charged \subseteq Order
  BY DEF Charged, Opened
<1>4. \A o \in Order : PaidFor[o] = CASE o \in Repaid -> "refunded"
                                      [] o \in Charged \ Repaid -> "succeeded"
                                      [] o \in Opened \ (Charged \cup Repaid) -> "pending"
                                      [] OTHER -> "none"
  BY DEF PaidFor
<1>5. \A o \in Order : /\ o \in Repaid => PaidFor[o] = "refunded"
                       /\ o \in Charged /\ o \notin Repaid => PaidFor[o] = "succeeded"
                       /\ o \in Opened /\ o \notin Charged => PaidFor[o] = "pending"
                       /\ o \notin Opened => PaidFor[o] = "none"
  BY <1>2, <1>3, <1>4
<1>6. \A o \in Order : PaidFor[o] \in {"none", "pending", "succeeded", "refunded"}
  BY <1>5
<1>7. PaidFor \in [Order -> Shop!PayStatus]
  <2>1. PaidFor = [o \in Order |-> PaidFor[o]]
    BY DEF PaidFor
  <2> QED BY <1>6, <2>1 DEF Shop!PayStatus
<1>8. Charged = {o \in Order : Shop!Charged(o)}
  BY <1>2, <1>3, <1>5 DEF Shop!Charged
<1> QED BY <1>2, <1>3, <1>5, <1>7, <1>8 DEF Seen

LEMMA PaidForStaysSeen == Backed' => Seen'
BY PaidForIsSeen, PTL

LEMMA PaidForStays ==
    ASSUME UNCHANGED <<Opened, Charged, Repaid>>
    PROVE  UNCHANGED PaidFor
BY DEF PaidFor

(* What is added to the queue is in it, and what was there stays.          *)
LEMMA QueueTells ==
    ASSUME NEW S, NEW q \in Seq(S), NEW e \in S
    PROVE  {Append(q, e)[i] : i \in 1..Len(Append(q, e))} = {q[i] : i \in 1..Len(q)} \cup {e}
<1>1. /\ Len(Append(q, e)) = Len(q) + 1 /\ Len(q) \in Nat
      /\ \A i \in 1..Len(q) : Append(q, e)[i] = q[i]
      /\ Append(q, e)[Len(q) + 1] = e
  BY AppendProperties, LenProperties
<1> QED BY <1>1

(* What payment-service does when it publishes: it says what is so.        *)
LEMMA PublishIsPay ==
    ASSUME WellFormed, Backed, Attached, Backed', Shop!IInv,
           NEW r \in Proc, Publish(r), UNCHANGED shop,
           NEW p \in Payment, NEW s \in Status, NEW o \in Order,
           self[r].pay = p, self[r].held = s, orderOf[p] = o,
           paymentEvents' = Append(paymentEvents, <<s, o>>)
    PROVE  Shop!AnyPayment
<1> DEFINE told == {paymentEvents[i] : i \in 1..Len(paymentEvents)}
<1>1. p \in Created /\ s \in Side!Announced
  BY DEF Attached, SpeaksFor, Publish, At, AboutPayment
<1>2. /\ s = "succeeded" => Debited(p)
      /\ s = "refunded" => Credited(p)
  BY DEF Backed, Knows, Publish, At
<1>3. p \in Of(o)
  BY <1>1 DEF Of
<1>4. /\ o \in Opened
      /\ s = "succeeded" => o \in Charged
      /\ s = "refunded" => o \in Repaid
  BY <1>2, <1>3 DEF Opened, Charged, Repaid
<1>5. UNCHANGED <<Opened, Charged, Repaid, commands>>
  BY SidesStay DEF Publish, rows, wallet, queue
<1>6. s \in Shop!PaymentEvent /\ s \in Shop!Side!Announced
  BY <1>1 DEF Side!Announced, Shop!PaymentEvent, Shop!Side!Announced
<1>7. <<s, o>> \in Shop!PaymentEvent \X Order
  BY <1>6
<1>8. paymentEvents \in Seq(Shop!PaymentEvent \X Order) /\ mishaps \in 0..MaxMishaps
  BY DEF Shop!IInv, Shop!TypeOK
<1>9. UNCHANGED PaidFor
  BY <1>5, PaidForStays
<1>10. /\ PaidFor[o] # "none"
       /\ s = "succeeded" => Shop!Charged(o)
       /\ s = "refunded" => PaidFor[o] = "refunded"
  BY <1>4, PaidForIsSeen DEF Seen
<1>11. told' = told \cup {<<s, o>>}
  BY <1>7, <1>8, QueueTells
<1>12. Shop!Side!Pay(o)
  <2>1. Shop!Side!Sayable(s, o)'
    BY <1>9, <1>10 DEF Shop!Side!Sayable, Shop!Charged
  <2>2. Shop!Side!Say(o)
    BY <1>6, <1>11, <2>1 DEF Shop!Side!Say
  <2>3. Shop!Side!Money(o)
    BY <1>9 DEF Shop!Side!Money, Shop!Side!Joins, Shop!Charged
  <2> QED BY <2>2, <2>3 DEF Shop!Side!Pay, shop
<1>13. UNCHANGED <<ordered, patched, stock, held, reserved, catalogCommands, catalogEvents,
                  asked, serving, mishaps>>
  BY DEF shop
<1>14. PaidFor' \in [Order -> Shop!PayStatus]
  BY <1>9, PaidForIsSeen DEF Seen
<1>15. mishaps' \in {mishaps, mishaps + 1} \cap 0..MaxMishaps
  BY <1>8, <1>13
<1>16. \E m \in Shop!PaymentEvent \X Order : paymentEvents' = Append(paymentEvents, m)
  BY <1>7
<1> HIDE DEF told
<1> QED BY <1>5, <1>12, <1>13, <1>14, <1>15, <1>16 DEF Shop!AnyPayment, Shop!shelf, Shop!table

(* payment-service takes commands off the head of its queue.               *)
LEMMA ServeTakes ==
    ASSUME WellFormed, Serve
    PROVE  \/ UNCHANGED queue
           \/ /\ commands # <<>> /\ commands' = Tail(commands)
              /\ UNCHANGED <<orderOf, balance, operations, sent, published>>
<1>1. ASSUME Ack
      PROVE  /\ commands # <<>> /\ commands' = Tail(commands)
             /\ UNCHANGED <<orderOf, balance, operations, sent, published>>
  BY <1>1 DEF WellFormed, Busy, Ack, At, rows, wallet
<1>2. ASSUME NEW r \in Proc, Progress(r) PROVE UNCHANGED queue
  <2>1. CASE LoadComplete(r) \/ DebitLookup(r) \/ Debit(r) \/ DebitRefused(r) \/ DebitDuplicate(r)
    BY <2>1 DEF LoadComplete, DebitLookup, Debit, DebitRefused, DebitDuplicate, queue
  <2>2. CASE \/ SetProcessing(r) \/ Succeed(r) \/ Fail(r) \/ Cancel(r)
    BY <2>2 DEF SetProcessing, Succeed, Fail, Cancel, Write, queue
  <2>3. CASE LoadRetry(r) \/ FindActive(r) \/ Insert(r) \/ LoadCancel(r) \/ Publish(r)
    BY <2>3 DEF LoadRetry, FindActive, Insert, LoadCancel, Publish, queue
  <2> QED BY <1>2, <2>1, <2>2, <2>3 DEF Progress
<1>3. ASSUME Consume PROVE UNCHANGED queue \/ Ack
  <2>1. CASE FindActive(Consumer) \/ Insert(Consumer) \/ Publish(Consumer) \/ LoadCancel(Consumer) \/ Cancel(Consumer)
    BY <2>1 DEF FindActive, Insert, Publish, LoadCancel, Cancel, Write, queue
  <2>2. CASE \/ Take \/ ListPending \/ NextPending \/ ListRefundable
             \/ CreditLookup \/ Credit \/ CreditDuplicate \/ LoadRefund \/ Refund
    BY <2>2 DEF Take, ListPending, NextPending, ListRefundable, CreditLookup, Credit,
       CreditDuplicate, LoadRefund, Refund, Write, queue
  <2> QED BY <1>3, <2>1, <2>2 DEF Consume
<1>4. ASSUME NEW r \in Proc, Abort(r) \/ DebitTimeout(r) PROVE UNCHANGED queue
  BY <1>4 DEF Abort, DebitTimeout, queue
<1>5. ASSUME CreditTimeout \/ DepositLoad \/ Deposit \/ \E p \in Payment : LateDebit(p) \/ LateCredit(p)
      PROVE  UNCHANGED queue
  BY <1>5 DEF CreditTimeout, DepositLoad, Deposit, LateDebit, LateCredit, queue
<1>6. ASSUME NEW r \in Proc, Start(r) PROVE UNCHANGED queue
  BY <1>6 DEF Start, queue
<1>7. Request \subseteq Proc
  BY DEF Proc
<1> QED BY <1>1, <1>2, <1>3, <1>4, <1>5, <1>6, <1>7 DEF Serve

(* What it does besides publishing: order-service cannot tell, or money    *)
(* moves for an order that wants it to.                                    *)
LEMMA ServeIsPay ==
    ASSUME WellFormed, Backed, Attached, Backed', Shop!IInv, Linked,
           Serve, UNCHANGED <<shop, paymentEvents>>
    PROVE  Shop!AnyPayment \/ UNCHANGED Shop!vars
<1>1. Seen /\ Seen'
  BY PaidForIsSeen, PaidForStaysSeen
<1>2. /\ mishaps \in 0..MaxMishaps
      /\ UNCHANGED <<ordered, patched, stock, held, reserved, catalogCommands, catalogEvents,
                     asked, serving, mishaps, paymentEvents>>
  BY DEF Shop!IInv, Shop!TypeOK, shop
<1>3. mishaps' \in {mishaps, mishaps + 1} \cap 0..MaxMishaps
  BY <1>2
<1>4. PaidFor' \in [Order -> Shop!PayStatus]
  BY <1>1 DEF Seen
<1>5. \/ UNCHANGED commands
      \/ commands # <<>> /\ commands' = Tail(commands) /\ UNCHANGED <<Opened, Charged, Repaid>>
  BY ServeTakes, SidesStay DEF queue
<1>6. ASSUME NEW o \in Order, Shop!Side!Money(o) PROVE Shop!AnyPayment
  <2>1. Shop!Side!Pay(o)
    BY <1>2, <1>6 DEF Shop!Side!Pay
  <2> QED BY <1>2, <1>3, <1>4, <1>5, <2>1 DEF Shop!AnyPayment, Shop!shelf, Shop!table
<1>7. ASSUME UNCHANGED <<Opened, Charged, Repaid>>
      PROVE  UNCHANGED PaidFor /\ \A o \in Order : Shop!Side!Money(o)
  <2>1. UNCHANGED PaidFor
    BY <1>7, PaidForStays
  <2> QED BY <2>1 DEF Shop!Side!Money, Shop!Side!Joins, Shop!Charged
<1>8. CASE UNCHANGED <<Opened, Charged, Repaid>>
  <2>1. CASE UNCHANGED commands
    BY <1>2, <1>7, <1>8, <2>1 DEF Shop!vars, Shop!table, Shop!shelf, Shop!toOrders, Shop!toPayment
  <2>2. CASE commands # <<>>
    <3>1. Head(commands)[2] \in Order
      <4>1. Head(commands) \in Commands \X Order
        BY <2>2, QueueMoves DEF WellFormed, TypeOK
      <4> QED BY <4>1
    <3> QED BY <1>6, <1>7, <1>8, <3>1
  <2> QED BY <1>5, <2>1, <2>2
<1>9. CASE ~UNCHANGED <<Opened, Charged, Repaid>>
  <2>1. PICK o \in Order : Side!Money(o)
    <3>1. [Side!Next]_(Side!vars)
      BY SideStep DEF OpenNext
    <3>2. ~UNCHANGED Side!vars
      BY <1>9 DEF Side!vars, Opened, Charged, Repaid
    <3>3. \A o \in Order : ~Side!Ask(o)
      BY <1>9 DEF Side!Ask, Opened, Charged, Repaid
    <3> QED BY <3>1, <3>2, <3>3 DEF Side!Next, Side!Pay
  <2>2. /\ Opened' = Opened \/ (o \in Wanted /\ Opened' = Opened \cup {o})
        /\ Charged' = Charged \/ (o \in Opened' /\ Charged' = Charged \cup {o})
        /\ Repaid' = Repaid \/ (o \in Charged' /\ Repaid' = Repaid \cup {o})
    BY <2>1 DEF Side!Money, Side!Joins, Wanted, Opened, Charged, Repaid
  <2>3. Wanted \subseteq {x \in Order : asked[x] > 0}
    BY DEF Linked, Wanted
  <2>4. Shop!Side!Money(o)
    BY <1>1, <2>2, <2>3 DEF Seen, Shop!Side!Money, Shop!Side!Joins
  <2> QED BY <1>6, <2>4
<1> QED BY <1>8, <1>9

(* Each step is one of Orders next to any payment-service.                 *)
LEMMA MarketIsOpen ==
    ASSUME WellFormed, Backed, Attached, Backed', Shop!IInv, Linked, [MarketNext]_marketVars
    PROVE  [Shop!Shop \/ Shop!AnyPayment]_(Shop!vars)
<1>1. CASE OrdersMove
  BY <1>1 DEF OrdersMove
<1>2. CASE PaymentsMove
  <2>1. ASSUME NEW r \in Proc, Publish(r), UNCHANGED shop,
               paymentEvents' = Append(paymentEvents, <<self[r].held, orderOf[self[r].pay]>>)
        PROVE  Shop!AnyPayment
    <3>1. self[r].pay \in Created /\ self[r].held \in Side!Announced
      BY <2>1 DEF Attached, SpeaksFor, Publish, At, AboutPayment
    <3>2. /\ self[r].pay \in Payment /\ self[r].held \in Status
          /\ orderOf[self[r].pay] \in Order
      BY <3>1 DEF Created, WellFormed, TypeOK, Side!Announced, Status
    <3> QED BY <2>1, <3>2, PublishIsPay
  <2>2. CASE UNCHANGED paymentEvents
    BY <1>2, <2>2, ServeIsPay DEF PaymentsMove
  <2> QED BY <1>2, <2>1, <2>2 DEF PaymentsMove
<1>3. CASE UNCHANGED marketVars
  <2>1. UNCHANGED <<Opened, Charged, Repaid, commands>>
    BY <1>3, SidesStay DEF marketVars, vars
  <2>2. UNCHANGED PaidFor
    BY <2>1, PaidForStays
  <2> QED BY <1>3, <2>1, <2>2
      DEF marketVars, shop, Shop!vars, Shop!table, Shop!shelf, Shop!toOrders, Shop!toPayment
<1> QED BY <1>1, <1>2, <1>3 DEF MarketNext

(* Whoever has asked stays so, and who asks now is counted.                *)
LEMMA LinkedStep ==
    ASSUME Shop!OrdersAssumption, WellFormed, Shop!IInv, Shop!IInv', Linked, [MarketNext]_marketVars
    PROVE  Linked'
<1>1. CASE OrdersMove
  <2>1. \A o \in Order : asked[o] = 1 => asked'[o] = 1
    BY <1>1, Shop!AskedStays DEF OrdersMove
  <2>2. CASE UNCHANGED vars
    BY <2>1, <2>2 DEF Linked, vars
  <2>3. ASSUME NEW kind \in Commands, NEW o \in Order, Receive(kind, o)
        PROVE  Linked'
    <3>1. sent' = sent \cup {<<kind, o>>} /\ commands' = Append(commands, <<kind, o>>)
      BY <2>3 DEF Receive
    <3>2. commands \in Seq(Commands \X Order) /\ <<kind, o>> \in Commands \X Order
      BY DEF WellFormed, TypeOK
    <3>3. /\ Len(commands) + 1 \in 1..Len(commands')
          /\ commands'[Len(commands) + 1] = <<kind, o>>
      BY <3>1, <3>2, AppendProperties, LenProperties
    <3>4. kind = "create" => asked'[o] = 1
      BY <3>3 DEF Shop!IInv, Shop!Messages, Shop!SaidToPayment
    <3> QED BY <2>1, <3>1, <3>4 DEF Linked
  <2> QED BY <1>1, <2>2, <2>3 DEF OrdersMove
<1>2. CASE PaymentsMove
  <2>1. UNCHANGED sent
    BY <1>2, ServeTakes DEF PaymentsMove, queue
  <2> QED BY <1>2, <2>1 DEF PaymentsMove, shop, Linked
<1>3. CASE UNCHANGED marketVars
  BY <1>3 DEF marketVars, vars, shop, Linked
<1> QED BY <1>1, <1>2, <1>3 DEF MarketNext

LEMMA MarketBegins == Init /\ Shop!Init => Linked
BY DEF Init, Linked

(* Of Orders, next to this payment-service.                                *)
LEMMA MarketInvariant == ASSUME Shop!OrdersAssumption PROVE Market => [](Shop!IInv /\ Linked)
<1>1. Init /\ Shop!Init => Shop!IInv /\ Linked
  BY MarketBegins, Shop!InitIInv
<1>2. WellFormed /\ Backed /\ Attached /\ Backed' /\ Shop!IInv /\ Linked /\ [MarketNext]_marketVars
         => (Shop!IInv /\ Linked)'
  <2> SUFFICES ASSUME WellFormed, Backed, Attached, Backed', Shop!IInv, Linked, [MarketNext]_marketVars
               PROVE  Shop!IInv' /\ Linked'
    OBVIOUS
  <2>1. [Shop!Shop \/ Shop!AnyPayment]_(Shop!vars)
    BY MarketIsOpen
  <2>2. Shop!IInv'
    BY <2>1, Shop!ShopStep, Shop!AnyPaymentStep
  <2> QED BY <2>2, LinkedStep
<1> QED
  BY <1>1, <1>2, MarketIsPayments, OpenWellFormed, OpenBacked, OpenAttached, PTL
  DEF Market

(* order-service and the catalog, next to the payment-service there is:    *)
(* what was proved of them next to any payment-service holds of them here. *)
THEOREM MarketImplementsOrders ==
    ASSUME Shop!OrdersAssumption PROVE Market => Shop!OpenSpec
<1>1. WellFormed /\ Backed /\ Attached /\ Backed' /\ Shop!IInv /\ Linked /\ [MarketNext]_marketVars
         => [Shop!Shop \/ Shop!AnyPayment]_(Shop!vars)
  BY MarketIsOpen
<1> QED
  BY <1>1, MarketInvariant, MarketIsPayments, OpenWellFormed, OpenBacked, OpenAttached, PTL
  DEF Market, Shop!OpenSpec

(* From the order to the journal of the wallet: one that went past payment *)
(* in order-service was debited by auth-service, and so was every one a    *)
(* refund is asked for; but for one that PATCH /v1/orders/{id} named paid, *)
(* which charges nobody (update_order).                                    *)
PaidOrdersWereDebited ==
    \A o \in Order :
        \/ ordered[o] \in {"paid", "shipped", "delivered", "closed"}
        \/ Shop!In(commands, <<"refund", o>>)
        => (\E p \in Of(o) : Debited(p)) \/ <<o, "paid">> \in patched

THEOREM MarketPaidWasDebited ==
    ASSUME Shop!OrdersAssumption PROVE Market => []PaidOrdersWereDebited
<1>1. Seen /\ Shop!PaidMeansCharged => PaidOrdersWereDebited
  BY DEF Seen, Charged, Shop!PaidMeansCharged, Shop!Patched, PaidOrdersWereDebited
<1>2. Backed /\ Shop!PaidMeansCharged => PaidOrdersWereDebited
  BY <1>1, PaidForIsSeen
<1>3. Shop!OpenSpec => []Shop!PaidMeansCharged
  BY Shop!OpenPaidWasCharged
<1> QED BY <1>2, <1>3, MarketImplementsOrders, MarketIsPayments, OpenBacked, PTL

(* And from the journal to the order: money is taken only for an order     *)
(* whose items were taken from stock, never for one that reads failed      *)
(* unless PATCH named it so.                                               *)
DebitsAreForReserved ==
    \A p \in Payment :
        Debited(p) => /\ orderOf[p] \in reserved
                      /\ ordered[orderOf[p]] \notin {None, "created"}
                      /\ ordered[orderOf[p]] = "failed" => <<orderOf[p], "failed">> \in patched

THEOREM MarketDebitsForReserved ==
    ASSUME Shop!OrdersAssumption PROVE Market => []DebitsAreForReserved
<1>1. WellFormed /\ Attached /\ Shop!IInv /\ Linked => DebitsAreForReserved
  <2> SUFFICES ASSUME WellFormed, Attached, Shop!IInv, Linked, NEW p \in Payment, Debited(p)
               PROVE  /\ orderOf[p] \in reserved
                      /\ ordered[orderOf[p]] \notin {None, "created"}
                      /\ ordered[orderOf[p]] = "failed" => <<orderOf[p], "failed">> \in patched
    BY DEF DebitsAreForReserved
  <2>1. p \in Created /\ orderOf[p] \in Order /\ <<"create", orderOf[p]>> \in sent
    BY DEF Attached, Created, WellFormed, TypeOK
  <2>2. asked[orderOf[p]] = 1
    BY <2>1 DEF Linked
  <2> QED BY <2>1, <2>2 DEF Shop!IInv, Shop!Once, Shop!Unfailed, Shop!Patched
<1> QED
  BY <1>1, MarketInvariant, MarketIsPayments, OpenWellFormed, OpenAttached, PTL
=============================================================================
