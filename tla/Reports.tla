------------------------------- MODULE Reports ------------------------------
(***************************************************************************)
(* The aggregation pipelines of analytics-service over the stored events   *)
(* (repositories/analytics.py) and what services/analytics.py answers from *)
(* them.  A collection is the sequence of its documents, each the id of an *)
(* event; a window is a pair of times, both of them inside.  Averages and  *)
(* rates are left to the numbers they divide.                              *)
(***************************************************************************)
EXTENDS Integers, FiniteSets, FiniteSetsExt, SequencesExt

CONSTANTS Body,  \* event -> [type, at, order, amount, status, items]
          Unit   \* the length of a period of the revenue report

Sum(D, value(_)) == SumFunction([n \in D |-> value(n)])

\* $sort: every order its answer may have; rows that compare equal come in any.
Ranked(S, Before(_, _)) ==
    {s \in [1..Cardinality(S) -> S] :
        IsInjective(s) /\ \A i, j \in DOMAIN s : i < j => ~Before(s[j], s[i])}

\* $match: the documents of a window, and of some types.
InWindow(docs, w) == {n \in DOMAIN docs : Body[docs[n]].at >= w[1] /\ Body[docs[n]].at < w[2]}
DateMatch(docs, w) == {n \in DOMAIN docs : Body[docs[n]].at >= w[1] /\ Body[docs[n]].at <= w[2]}
OfType(docs, D, types) == {n \in D : Body[docs[n]].type \in types}

CountEvent(docs, D, type) == Cardinality(OfType(docs, D, {type}))
SumAmount(docs, D, type) == LET amount(n) == Body[docs[n]].amount
                            IN Sum(OfType(docs, D, {type}), amount)

Payments(docs, D) ==
    [succeeded |-> CountEvent(docs, D, "payment.succeeded"),
     failed    |-> CountEvent(docs, D, "payment.failed"),
     cancelled |-> CountEvent(docs, D, "payment.cancelled"),
     refunds   |-> CountEvent(docs, D, "payment.refunded"),
     gross     |-> SumAmount(docs, D, "payment.succeeded"),
     refunded  |-> SumAmount(docs, D, "payment.refunded")]

GetOverview(docs, w) ==
    LET D == DateMatch(docs, w)  p == Payments(docs, D)
    IN [orders |-> CountEvent(docs, D, "order.created"), payments |-> p,
        net |-> p.gross - p.refunded]

PaymentTypes == {"payment.created", "payment.succeeded", "payment.failed", "payment.cancelled",
                 "payment.refunded"}
GetPayments(docs, w) ==
    LET D == OfType(docs, DateMatch(docs, w), PaymentTypes)
    IN [total |-> CountEvent(docs, D, "payment.created"), payments |-> Payments(docs, D)]

Period(n, docs) == Body[docs[n]].at \div Unit
GetRevenue(docs, w) ==
    LET D == OfType(docs, DateMatch(docs, w), {"payment.succeeded", "payment.refunded"})
    IN [t \in {Period(n, docs) : n \in D} |->
            LET p == Payments(docs, {n \in D : Period(n, docs) = t})
            IN [succeeded |-> p.succeeded, gross |-> p.gross, refunded |-> p.refunded,
                net |-> p.gross - p.refunded]]

OrderTypes == {"order.created", "order.status_changed", "order.cancelled", "order.failed"}
OrdersIn(docs, D) == {Body[docs[n]].order : n \in D}

\* $sort by occurred_at, then the $last status of every order.
LatestOf(docs, D, o) == CHOOSE n \in D : /\ Body[docs[n]].order = o
                                     /\ \A k \in D : Body[docs[k]].order = o
                                                     => Body[docs[k]].at <= Body[docs[n]].at
GetOrders(docs, w) ==
    LET D == OfType(docs, DateMatch(docs, w), OrderTypes)
        created == OfType(docs, D, {"order.created"})
        amount(n) == Body[docs[n]].amount
        status(o) == Body[docs[LatestOf(docs, D, o)]].status
    IN [orders |-> Cardinality(created), value |-> Sum(created, amount),
        by_status |-> [s \in {status(o) : o \in OrdersIn(docs, D)} |->
                           Cardinality({o \in OrdersIn(docs, D) : status(o) = s})]]

\* $unwind: one row for every item of every created order.
Lines(docs, w) ==
    UNION {{<<n, i>> : i \in DOMAIN Body[docs[n]].items} :
               n \in OfType(docs, DateMatch(docs, w), {"order.created"})}
ProductRow(docs, p, lines) ==
    LET item(l) == Body[docs[l[1]]].items[l[2]]
        mine == {l \in lines : item(l).product = p}
        units(l) == item(l).quantity
        price(l) == item(l).quantity * item(l).price
    IN [product |-> p, units |-> Sum(mine, units), lines |-> Cardinality(mine),
        revenue |-> Sum(mine, price)]
Better(a, b) == a.units > b.units \/ (a.units = b.units /\ a.revenue > b.revenue)
\* $sort and $limit: the lists the database may answer with.
GetTopProducts(docs, limit, w) ==
    LET lines == Lines(docs, w)
        products == {Body[docs[l[1]]].items[l[2]].product : l \in lines}
        sold == {ProductRow(docs, p, lines) : p \in products}
    IN {SubSeq(rows, 1, Min({limit, Len(rows)})) : rows \in Ranked(sold, Better)}

-----------------------------------------------------------------------------
(* Every report of one window; of the top list, all its possible answers.  *)
AllReports(docs, w, limit) ==
    <<GetOverview(docs, w), GetPayments(docs, w), GetRevenue(docs, w), GetOrders(docs, w),
      GetTopProducts(docs, limit, w)>>
=============================================================================
