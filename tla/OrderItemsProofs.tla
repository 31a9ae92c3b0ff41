---------------------------- MODULE OrderItemsProofs ---------------------------
(***************************************************************************)
(* What TLAPS proves of OrderItems, for any products, requests, amounts    *)
(* and bounds.  Sums first: a finite sum is a number, the sum of sums is   *)
(* the sum of their terms, and one term that changes changes the sum by as *)
(* much.  The library's induction theorems take an operator, so each proof *)
(* is by a smallest counterexample among the subsets that are summed.  At  *)
(* the end, what it proves of OrderCache: the cached views of the orders   *)
(* that are edited.                                                        *)
(***************************************************************************)
EXTENDS OrderItems, FiniteSetTheorems, WellFoundedInduction, TLAPS

(* What an edit has moved so far, item by item.                            *)
Done(s) == s.gave \cup s.got
Todo(s) == s.give \cup s.take
Diff(s, i) == Quantity(s.new, i) - Quantity(s.loaded, i)
Sort(s, i) == Over(s.new, s.loaded)[i].product
Moved(s, i, p) == IF i \in Done(s) /\ Sort(s, i) = p THEN Diff(s, i) ELSE 0
Accounted(s) == \A p \in Product : s.took[p] = SumFunction([i \in Item |-> Moved(s, i, p)])

(* The items an edit is about, and where it stands with each of them.  A   *)
(* request that is neither a replacement nor a return is about one item at *)
(* most: when it fails before its last call it has moved nothing.          *)
Touched(s) ==
    IF s.op \in Whole THEN DOMAIN s.loaded \cup DOMAIN s.new
    ELSE IF s.op = "add" THEN DOMAIN s.new ELSE {s.item} \ {None}

Stands(s) ==
    /\ s.pc = "idle" => s = Idle
    /\ s.op = None => s = Idle
    /\ Todo(s) \cup Done(s) \subseteq Touched(s)
    /\ s.give \cap s.gave = {} /\ s.take \cap s.got = {} /\ s.gave \cap s.got = {}
    /\ s.give \cap s.got = {} /\ s.take \cap s.gave = {} /\ s.give \cap s.take = {}
    /\ s.pc # "undo" => Touched(s) \subseteq Todo(s) \cup Done(s)
    /\ s.pc = "undo" => s.op = "replace"
    /\ s.pc = "give" /\ s.op # "replace" => s.take = {}
    /\ s.pc \in {"check", "take"} => s.give = {} /\ s.op # "return"
    /\ s.pc \in {"check", "take"} /\ s.op # "replace" => s.gave = {}
    /\ s.pc \in {"sum", "commit"} => Todo(s) = {}
    /\ s.pc = "sum" => s.op \notin Whole
    /\ s.op \notin Whole => \A i, j \in Touched(s) : i = j

(* What its rows are.                                                      *)
Writes(s) ==
    /\ s.op \in {"add", "replace", "return"} =>
           s.item = None /\ DOMAIN s.new \cap DOMAIN s.loaded = {}
    /\ s.op = "return" => DOMAIN s.new = {}
    /\ s.op \in {"update", "remove"} => s.item \in DOMAIN s.loaded \cup {None}
    /\ s.op = "remove" => s.item # None /\ DOMAIN s.new = {}
    /\ s.op = "update" => /\ DOMAIN s.new = {s.item} \ {None}
                          /\ s.item # None => s.new[s.item].product = s.loaded[s.item].product
Begun(s) == s \in Edit /\ Stands(s) /\ Writes(s) /\ Accounted(s)

(* Rows get new ids; rows that nobody else edits are as they were loaded;  *)
(* an order whose items went back stays cancelled.                         *)
Inserts(r) == self[r].op \in {"add", "replace"}
New(r) == IF Inserts(r) THEN DOMAIN self[r].new ELSE {}
Fresh ==
    /\ \A r \in Request : New(r) \subseteq 1..last /\ New(r) \cap DOMAIN rows = {}
    /\ \A r, x \in Request : r # x => New(r) \cap New(x) = {}
Apart ==
    \A r, x \in Request :
        r # x /\ self[r] # Idle => ~Overlaps(self[r].op, self[r].item, self[x])
AsLoaded(r) ==
    /\ self[r].op \in Whole => rows = self[r].loaded
    /\ self[r].item # None => /\ self[r].item \in DOMAIN rows
                              /\ rows[self[r].item] = self[r].loaded[self[r].item]

Typed ==
    /\ rows \in SomeRows /\ last \in 0..MaxItems /\ DOMAIN rows \subseteq 1..last
    /\ total \in Nat /\ status \in Status /\ returned \in BOOLEAN
    /\ reserved \in {"asked", "taken", "refused"} /\ setting \in [Request -> Setting]
    /\ stock \in [Product -> Nat] /\ held \in [Product -> Int]
    /\ contended \in BOOLEAN /\ lost \in BOOLEAN /\ faults \in 0..MaxFaults
Requests ==
    /\ self = [r \in Request |-> self[r]] /\ DOMAIN self = Request
    /\ \A r \in Request : Begun(self[r])
Ended(r) == returned => status = "cancelled" /\ self[r] = Idle
Alone == contended \/ (Apart /\ \A r \in Request : AsLoaded(r) /\ Ended(r))
Inv == Typed /\ Requests /\ Fresh /\ Alone /\ BooksBalance
-----------------------------------------------------------------------------
(* A nonempty family of subsets of a finite set has a smallest member.     *)
LEMMA SmallestSubset ==
    ASSUME NEW S, IsFiniteSet(S), NEW F, F \subseteq SUBSET S, F # {}
    PROVE  \E T \in F : \A U \in F : ~(U \subseteq T /\ U # T)
<1> DEFINE R == StrictSubsetOrdering(S)
<1>1. F \subseteq FiniteSubsetsOf(S)
  BY FS_Subset DEF FiniteSubsetsOf
<1>2. IsWellFoundedOn(R, FiniteSubsetsOf(S))
  BY FS_StrictSubsetOrderingWellFounded
<1>3. PICK T \in F : \A U \in F : ~(<<U, T>> \in R)
  <2> HIDE DEF R
  <2> QED BY <1>1, <1>2, WFMin
<1>4. ASSUME NEW U \in F, U \subseteq T, U # T
      PROVE  FALSE
  BY <1>3, <1>4 DEF StrictSubsetOrdering
<1> QED BY <1>4

(* The sums over the subsets of S, in the order the fold takes them.       *)
Chosen(s) == CHOOSE x \in s : TRUE
Follows(f, S, g) ==
    g = [s \in SUBSET S |-> IF s = {} THEN 0 ELSE f[Chosen(s)] + g[s \ {Chosen(s)}]]
Sums(f, S) == CHOOSE g : Follows(f, S, g)

LEMMA SumsAreFolds ==
    ASSUME NEW f, NEW S
    PROVE  SumFunctionOnSet(f, S) = Sums(f, S)[S]
  BY DEF SumFunctionOnSet, FoldFunctionOnSet, MapThenFoldSet, Sums, Follows, Chosen

LEMMA FollowsOn ==
    ASSUME NEW f, NEW S, NEW g, NEW h, NEW T, IsFiniteSet(S), T \subseteq S,
           Follows(f, S, g), Follows(f, T, h)
    PROVE  \A s \in SUBSET T : g[s] = h[s]
<1> DEFINE F == {s \in SUBSET T : g[s] # h[s]}
<1> SUFFICES ASSUME F # {} PROVE FALSE
  OBVIOUS
<1>1. PICK s \in F : \A u \in F : ~(u \subseteq s /\ u # s)
  <2>1. IsFiniteSet(T)
    BY FS_Subset
  <2> HIDE DEF F
  <2>2. F \subseteq SUBSET T
    BY DEF F
  <2> QED BY <2>1, <2>2, SmallestSubset
<1>2. CASE s = {}
  BY <1>1, <1>2 DEF Follows
<1>3. CASE s # {}
  <2> DEFINE c == Chosen(s)
             u == s \ {c}
  <2>1. c \in s
    BY <1>3 DEF Chosen
  <2>2. u \subseteq T /\ u \subseteq s /\ u # s
    BY <2>1, <1>1
  <2>3. g[u] = h[u]
    BY <1>1, <2>2
  <2>4. s \in SUBSET T /\ s \in SUBSET S
    BY <1>1
  <2>5. g[s] = f[c] + g[u] /\ h[s] = f[c] + h[u]
    BY <1>3, <2>4 DEF Follows
  <2> QED BY <2>3, <2>5, <1>1
<1> QED BY <1>2, <1>3

LEMMA SumsExist ==
    ASSUME NEW f, NEW S, IsFiniteSet(S)
    PROVE  Follows(f, S, Sums(f, S))
<1> DEFINE F == {T \in SUBSET S : ~\E g : Follows(f, T, g)}
<1>1. F = {}
  <2> SUFFICES ASSUME F # {} PROVE FALSE
    OBVIOUS
  <2>1. PICK T \in F : \A U \in F : ~(U \subseteq T /\ U # T)
    <3> HIDE DEF F
    <3>1. F \subseteq SUBSET S
      BY DEF F
    <3> QED BY <3>1, SmallestSubset
  <2>2. \A U \in SUBSET T : U # T => Follows(f, U, Sums(f, U))
    <3> SUFFICES ASSUME NEW U \in SUBSET T, U # T PROVE Follows(f, U, Sums(f, U))
      OBVIOUS
    <3>1. \E g : Follows(f, U, g)
      BY <2>1
    <3> QED BY <3>1 DEF Sums
  <2> DEFINE v(s) == IF s = {} THEN 0 ELSE
                        f[Chosen(s)] + Sums(f, s \ {Chosen(s)})[s \ {Chosen(s)}]
             g == [s \in SUBSET T |-> v(s)]
  <2>3. ASSUME NEW s \in SUBSET T
        PROVE  g[s] = IF s = {} THEN 0 ELSE f[Chosen(s)] + g[s \ {Chosen(s)}]
    <3>1. CASE s = {}
      BY <3>1
    <3>2. CASE s # {}
      <4> DEFINE u == s \ {Chosen(s)}
      <4>1. Chosen(s) \in s
        BY <3>2 DEF Chosen
      <4>2. u \in SUBSET T /\ u # T
        BY <4>1
      <4>3. g[s] = f[Chosen(s)] + Sums(f, u)[u]
        BY <3>2
      <4>4. g[u] = Sums(f, u)[u]
        <5>1. CASE u = {}
          <6> HIDE DEF u
          <6>1. Follows(f, u, Sums(f, u)) /\ u \in SUBSET u
            BY <4>2, <2>2
          <6>2. Sums(f, u)[u] = 0
            BY <5>1, <6>1 DEF Follows
          <6> QED BY <4>2, <5>1, <6>2
        <5>2. CASE u # {}
          <6> DEFINE w == u \ {Chosen(u)}
          <6>1. Chosen(u) \in u
            BY <5>2 DEF Chosen
          <6>2. w \in SUBSET u /\ w # T /\ w \in SUBSET T
            BY <6>1, <4>2
          <6>3. Follows(f, u, Sums(f, u)) /\ Follows(f, w, Sums(f, w))
            BY <2>2, <4>2, <6>2
          <6>4. Sums(f, u)[u] = f[Chosen(u)] + Sums(f, u)[w]
            BY <5>2, <6>3 DEF Follows
          <6>5. IsFiniteSet(u)
            BY <4>2, <2>1, FS_Subset
          <6>6. Sums(f, u)[w] = Sums(f, w)[w]
            BY <6>2, <6>3, <6>5, FollowsOn
          <6>7. g[u] = f[Chosen(u)] + Sums(f, w)[w]
            BY <5>2, <4>2
          <6> QED BY <6>4, <6>6, <6>7
        <5> QED BY <5>1, <5>2
      <4> QED BY <3>2, <4>3, <4>4
    <3> QED BY <3>1, <3>2
  <2>4. Follows(f, T, g)
    <3> HIDE DEF v
    <3> QED BY <2>3 DEF Follows
  <2> HIDE DEF g
  <2> QED BY <2>1, <2>4
<1>2. \E g : Follows(f, S, g)
  <2>1. S \in SUBSET S
    OBVIOUS
  <2> QED BY <1>1, <2>1
<1> QED BY <1>2 DEF Sums

Adds(f, S, g) ==
    \A s \in SUBSET S : /\ s = {} => g[s] = 0
                        /\ s # {} => Chosen(s) \in s /\ g[s] = f[Chosen(s)] + g[s \ {Chosen(s)}]

LEMMA SumOfParts ==
    ASSUME NEW S, IsFiniteSet(S), NEW f
    PROVE  Adds(f, S, Sums(f, S))
<1>1. ASSUME NEW g, Follows(f, S, g)
      PROVE  Adds(f, S, g)
  BY <1>1 DEF Adds, Follows, Chosen
<1> QED BY <1>1, SumsExist

(* To show a property of all sums over subsets of S, show that it fails at  *)
(* no s whose sum without its first element has it.                        *)
LEMMA PartialSums ==
    ASSUME NEW S, IsFiniteSet(S), NEW f, NEW N, N \in {Int, Nat}, f \in [S -> N]
    PROVE  \A s \in SUBSET S : Sums(f, S)[s] \in N
<1> DEFINE G == Sums(f, S)
           F == {s \in SUBSET S : G[s] \notin N}
<1>1. ASSUME F # {} PROVE FALSE
  <2>1. PICK s \in F : \A u \in F : ~(u \subseteq s /\ u # s)
    <3> HIDE DEF F
    <3>1. F \subseteq SUBSET S
      BY DEF F
    <3> QED BY <1>1, <3>1, SmallestSubset
  <2>2. s \in SUBSET S /\ G[s] \notin N
    BY <2>1
  <2>3. s # {} /\ Chosen(s) \in s /\ G[s] = f[Chosen(s)] + G[s \ {Chosen(s)}]
    <3>1. Adds(f, S, G)
      BY SumOfParts
    <3>2. 0 \in N
      OBVIOUS
    <3> HIDE DEF F, G
    <3> QED BY <2>2, <3>1, <3>2 DEF Adds
  <2>4. G[s \ {Chosen(s)}] \in N
    BY <2>1, <2>2, <2>3
  <2>5. f[Chosen(s)] \in N
    BY <2>2, <2>3
  <2> HIDE DEF G
  <2> QED BY <2>2, <2>3, <2>4, <2>5
<1> QED BY <1>1

LEMMA SumIsNumber ==
    ASSUME NEW S, IsFiniteSet(S), NEW f, NEW N, N \in {Int, Nat}, f \in [S -> N]
    PROVE  SumFunctionOnSet(f, S) \in N
  BY PartialSums, SumsAreFolds

AreSums(f, g, h, S) ==
    /\ f \in [S -> Int] /\ g \in [S -> Int] /\ h \in [S -> Int]
    /\ \A i \in S : h[i] = f[i] + g[i]

LEMMA SumOfSums ==
    ASSUME NEW S, IsFiniteSet(S), NEW f, NEW g, NEW h, AreSums(f, g, h, S)
    PROVE  SumFunctionOnSet(h, S) = SumFunctionOnSet(f, S) + SumFunctionOnSet(g, S)
<1> DEFINE G(k) == Sums(k, S)
           F == {s \in SUBSET S : G(h)[s] # G(f)[s] + G(g)[s]}
<1> USE DEF AreSums
<1>1. ASSUME F # {} PROVE FALSE
  <2>1. PICK s \in F : \A u \in F : ~(u \subseteq s /\ u # s)
    <3> HIDE DEF F
    <3>1. F \subseteq SUBSET S
      BY DEF F
    <3> QED BY <1>1, <3>1, SmallestSubset
  <2>2. s \in SUBSET S /\ G(h)[s] # G(f)[s] + G(g)[s]
    BY <2>1
  <2> DEFINE c == Chosen(s)
             u == s \ {c}
  <2>4. /\ c \in s
        /\ G(h)[s] = h[c] + G(h)[u] /\ G(f)[s] = f[c] + G(f)[u] /\ G(g)[s] = g[c] + G(g)[u]
    <3>1. Adds(h, S, G(h)) /\ Adds(f, S, G(f)) /\ Adds(g, S, G(g))
      BY SumOfParts
    <3>2. s # {}
      <4>1. s = {} => G(h)[s] = 0 /\ G(f)[s] = 0 /\ G(g)[s] = 0
        BY <2>2, <3>1 DEF Adds
      <4> HIDE DEF F, G
      <4> QED BY <2>2, <4>1
    <3> HIDE DEF F, G
    <3> QED BY <2>2, <3>1, <3>2 DEF Adds
  <2>5. G(h)[u] = G(f)[u] + G(g)[u]
    BY <2>1, <2>2, <2>4
  <2>6. h[c] = f[c] + g[c] /\ f[c] \in Int /\ g[c] \in Int
    BY <2>2, <2>4
  <2>7. G(f)[u] \in Int /\ G(g)[u] \in Int
    BY <2>2, PartialSums
  <2> HIDE DEF G
  <2> QED BY <2>2, <2>4, <2>5, <2>6, <2>7
<1> QED BY <1>1, SumsAreFolds

(* A sum with one summand.                                                 *)
LEMMA SumAtOnePoint ==
    ASSUME NEW S, IsFiniteSet(S), NEW a, NEW f \in [S -> Int], \A i \in S : i # a => f[i] = 0
    PROVE  SumFunctionOnSet(f, S) = IF a \in S THEN f[a] ELSE 0
<1> DEFINE G == Sums(f, S)
           F == {s \in SUBSET S : G[s] # IF a \in s THEN f[a] ELSE 0}
<1>1. ASSUME F # {} PROVE FALSE
  <2>1. PICK s \in F : \A u \in F : ~(u \subseteq s /\ u # s)
    <3> HIDE DEF F
    <3>1. F \subseteq SUBSET S
      BY DEF F
    <3> QED BY <1>1, <3>1, SmallestSubset
  <2>2. s \in SUBSET S /\ G[s] # IF a \in s THEN f[a] ELSE 0
    BY <2>1
  <2> DEFINE c == Chosen(s)
             u == s \ {c}
  <2>3. s # {} /\ c \in s /\ G[s] = f[c] + G[u]
    <3>1. Adds(f, S, G)
      BY SumOfParts
    <3> HIDE DEF F, G
    <3> QED BY <2>2, <3>1 DEF Adds
  <2>4. G[u] = IF a \in u THEN f[a] ELSE 0
    BY <2>1, <2>2, <2>3
  <2>5. f[c] \in Int /\ (c # a => f[c] = 0) /\ (a \in S => f[a] \in Int)
    BY <2>2, <2>3
  <2> HIDE DEF G
  <2> QED BY <2>2, <2>3, <2>4, <2>5
<1> QED BY <1>1, SumsAreFolds

(* One summand changes by d.                                               *)
DifferAt(f, g, S, a, d) ==
    /\ f \in [S -> Int] /\ g \in [S -> Int] /\ a \in S /\ d \in Int
    /\ g[a] = f[a] + d /\ \A i \in S : i # a => g[i] = f[i]

LEMMA SumWithChange ==
    ASSUME NEW S, IsFiniteSet(S), NEW f, NEW g, NEW a, NEW d, DifferAt(f, g, S, a, d)
    PROVE  SumFunctionOnSet(g, S) = SumFunctionOnSet(f, S) + d
<1> USE DEF DifferAt
<1> DEFINE h == [i \in S |-> IF i = a THEN d ELSE 0]
<1>1. h \in [S -> Int] /\ \A i \in S : g[i] = f[i] + h[i]
  OBVIOUS
<1>2. SumFunctionOnSet(h, S) = d
  <2>1. h[a] = d /\ \A i \in S : i # a => h[i] = 0
    OBVIOUS
  <2> HIDE DEF h
  <2> QED BY <1>1, <2>1, SumAtOnePoint
<1> HIDE DEF h
<1>3. AreSums(f, h, g, S)
  BY <1>1 DEF AreSums
<1> QED BY <1>2, <1>3, SumOfSums
LEMMA SomeRowsFields ==
    ASSUME NEW f
    PROVE  f \in SomeRows <=> /\ DOMAIN f \subseteq Item
                              /\ f \in [DOMAIN f -> Row]
  BY DEF SomeRows

(* What SetToSeq gives for a finite set.                                   *)
LEMMA Enumerated ==
    ASSUME NEW S, IsFiniteSet(S)
    PROVE  /\ Cardinality(S) \in Nat /\ SetToSeq(S) \in [1..Cardinality(S) -> S]
           /\ IsInjective(SetToSeq(S)) /\ \A x \in S : \E i \in 1..Cardinality(S) : SetToSeq(S)[i] = x
           /\ Len(SetToSeq(S)) = Cardinality(S)
<1> DEFINE n == Cardinality(S)
           q == SetToSeq(S)
<1>1. n \in Nat /\ \E f : f \in Bijection(1..n, S)
  BY FS_CardinalityType DEF ExistsBijection
<1>2. q \in [1..n -> S] /\ IsInjective(q)
  <2>1. PICK f : f \in Bijection(1..n, S)
    BY <1>1
  <2>2. f \in [1..n -> S] /\ IsInjective(f)
    BY <2>1 DEF Bijection, Injection
  <2> QED BY <2>2 DEF SetToSeq
<1>3. Len(q) = n
  BY <1>1, <1>2
<1>4. ASSUME NEW x \in S, \A i \in 1..n : q[i] # x
      PROVE  FALSE
  <2>1. IsFiniteSet(S \ {x}) /\ Cardinality(S \ {x}) = n - 1
    BY FS_RemoveElement
  <2>2. q \in Injection(1..n, S \ {x})
    BY <1>2, <1>4 DEF Injection
  <2>3. IsFiniteSet(1..n) /\ Cardinality(1..n) = n
    BY <1>1, FS_Interval
  <2>4. Cardinality(1..n) <= Cardinality(S \ {x})
    BY <2>1, <2>2, FS_Injection DEF ExistsInjection
  <2> QED BY <1>1, <2>1, <2>3, <2>4
<1> QED BY <1>1, <1>2, <1>3, <1>4

LEMMA NumberedRows ==
    ASSUME NEW n \in Nat, NEW want \in [Product -> Nat],
           \A p \in Product : want[p] > 0 => want[p] \in Quantities \cup {Ordered[x] : x \in Product}
    PROVE  LET f == Numbered(n, want)
               k == Cardinality({p \in Product : want[p] > 0})
           IN  /\ k \in Nat /\ DOMAIN f = n + 1 .. n + k
               /\ f \in [DOMAIN f -> Row]
               /\ \A i \in DOMAIN f : f[i].quantity = want[f[i].product] /\ f[i].quantity > 0
               /\ \A i, j \in DOMAIN f : f[i].product = f[j].product => i = j
               /\ \A p \in Product : want[p] > 0 => \E i \in DOMAIN f : f[i].product = p
<1> DEFINE A == {p \in Product : want[p] > 0}
           q == SetToSeq(A)
           k == Cardinality(A)
           f == Numbered(n, want)
<1>1. /\ k \in Nat /\ q \in [1..k -> A] /\ IsInjective(q) /\ Len(q) = k
      /\ \A x \in A : \E i \in 1..k : q[i] = x
  <2>1. IsFiniteSet(A)
    BY OrderItemsAssumption, FS_Subset
  <2> QED BY <2>1, Enumerated
<1>2. f = [i \in n + 1 .. n + k |-> [product |-> q[i - n], quantity |-> want[q[i - n]]]]
  BY <1>1 DEF Numbered
<1>3. \A i \in n + 1 .. n + k : i - n \in 1..k /\ q[i - n] \in A
  BY <1>1
<1>4. \A i \in n + 1 .. n + k : f[i].product = q[i - n] /\ f[i].quantity = want[q[i - n]]
  BY <1>2
<1>5. ASSUME NEW i \in n + 1 .. n + k, NEW j \in n + 1 .. n + k, f[i].product = f[j].product
      PROVE  i = j
  <2>1. i - n \in DOMAIN q /\ j - n \in DOMAIN q /\ q[i - n] = q[j - n]
    BY <1>1, <1>3, <1>4, <1>5
  <2>2. i - n = j - n
    BY <1>1, <2>1 DEF IsInjective
  <2> QED BY <1>1, <2>2
<1>6. ASSUME NEW p \in Product, want[p] > 0
      PROVE  \E i \in n + 1 .. n + k : f[i].product = p
  <2>1. PICK j \in 1..k : q[j] = p
    BY <1>1, <1>6
  <2>2. n + j \in n + 1 .. n + k /\ (n + j) - n = j
    BY <1>1
  <2> QED BY <2>1, <2>2, <1>4
<1>7. ASSUME NEW i \in n + 1 .. n + k
      PROVE  f[i] \in Row
  <2>1. q[i - n] \in A
    BY <1>3
  <2>2. f[i] = [product |-> q[i - n], quantity |-> want[q[i - n]]]
    BY <1>2
  <2>3. q[i - n] \in Product
        /\ want[q[i - n]] \in Quantities \cup {Ordered[x] : x \in Product}
    BY <2>1
  <2> HIDE DEF f, q
  <2> QED BY <2>2, <2>3 DEF Row
<1>8. DOMAIN f = n + 1 .. n + k
  BY <1>2
<1>9. f \in [DOMAIN f -> Row]
  BY <1>2, <1>7, <1>8
<1>10. \A i \in DOMAIN f : f[i].quantity = want[f[i].product] /\ f[i].quantity > 0
  BY <1>3, <1>4, <1>8
<1> HIDE DEF f, k
<1> QED BY <1>1, <1>5, <1>6, <1>8, <1>9, <1>10 DEF f, k
-----------------------------------------------------------------------------
(* The books: a step that changes one request and the rows keeps them, if  *)
(* what is held changes by as much.                                        *)

LEMMA Finite == IsFiniteSet(Item) /\ IsFiniteSet(Request) /\ Item \subseteq Nat
  BY OrderItemsAssumption, FS_Interval DEF Item

LEMMA SumWhole ==
    ASSUME NEW f, NEW S, f \in [S -> Int]
    PROVE  SumFunction(f) = SumFunctionOnSet(f, S)
  BY DEF SumFunction

LEMMA RowNumbers ==
    ASSUME NEW items \in SomeRows
    PROVE  \A i \in DOMAIN items :
               /\ i \in Item /\ items[i].product \in Product /\ items[i].quantity \in Nat
               /\ items[i] \in Row
  BY OrderItemsAssumption, SomeRowsFields DEF Row

LEMMA PiecesAreNumbers ==
    ASSUME NEW items \in SomeRows, NEW p
    PROVE  [i \in Item |-> Pieces(items, i, p)] \in [Item -> Int] /\ Listed(items, p) \in Int
<1> DEFINE f == [i \in Item |-> Pieces(items, i, p)]
<1>1. f \in [Item -> Int]
  BY RowNumbers DEF Pieces
<1> HIDE DEF f
<1>2. SumFunctionOnSet(f, Item) \in Int
  BY <1>1, Finite, SumIsNumber
<1>3. SumFunction(f) \in Int
  BY <1>1, <1>2, SumWhole
<1> QED BY <1>1, <1>3 DEF Listed, f

LEMMA TotalIsNumber ==
    ASSUME NEW items \in SomeRows
    PROVE  Total(items) \in Nat
<1> DEFINE f == [i \in DOMAIN items |-> Price[items[i].product] * items[i].quantity]
<1>1. \A a, b \in Nat : a * b \in Nat
  OBVIOUS
<1>2. \A i \in DOMAIN items : f[i] \in Nat
  <2> SUFFICES ASSUME NEW i \in DOMAIN items PROVE f[i] \in Nat
    OBVIOUS
  <2>1. Price[items[i].product] \in Nat /\ items[i].quantity \in Nat
    BY RowNumbers, OrderItemsAssumption
  <2> QED BY <1>1, <2>1
<1>3. f \in [DOMAIN items -> Nat] /\ f \in [DOMAIN items -> Int]
  BY <1>2
<1>4. IsFiniteSet(DOMAIN items) /\ Nat \in {Int, Nat}
  BY SomeRowsFields, Finite, FS_Subset
<1> HIDE DEF f
<1>5. SumFunctionOnSet(f, DOMAIN items) \in Nat
  BY <1>3, <1>4, SumIsNumber
<1>6. SumFunction(f) \in Nat
  BY <1>3, <1>5, SumWhole
<1> QED BY <1>6 DEF Total, f

(* What one request changes in the sum over all of them.                   *)
LEMMA OneRequest ==
    ASSUME NEW T, NEW U, NEW r \in Request, NEW p \in Product,
           \A x \in Request : T[x].took[p] \in Int /\ U[x].took[p] \in Int,
           \A x \in Request : x # r => U[x] = T[x]
    PROVE  /\ SumFunction([x \in Request |-> T[x].took[p]]) \in Int
           /\ SumFunction([x \in Request |-> U[x].took[p]])
              = SumFunction([x \in Request |-> T[x].took[p]]) + (U[r].took[p] - T[r].took[p])
<1> DEFINE f == [x \in Request |-> T[x].took[p]]
           g == [x \in Request |-> U[x].took[p]]
           d == U[r].took[p] - T[r].took[p]
<1>1. f \in [Request -> Int] /\ g \in [Request -> Int] /\ d \in Int
  OBVIOUS
<1>2. g[r] = f[r] + d /\ \A x \in Request : x # r => g[x] = f[x]
  OBVIOUS
<1> HIDE DEF f, g, d
<1>3. SumFunctionOnSet(g, Request) = SumFunctionOnSet(f, Request) + d
  <2>1. DifferAt(f, g, Request, r, d)
    BY <1>1, <1>2 DEF DifferAt
  <2> QED BY <2>1, Finite, SumWithChange
<1>4. SumFunctionOnSet(f, Request) \in Int
  BY <1>1, Finite, SumIsNumber
<1>5. SumFunction(g) = SumFunction(f) + d /\ SumFunction(f) \in Int
  BY <1>1, <1>3, <1>4, SumWhole
<1> QED BY <1>5 DEF f, g, d

(* The rows change by what the items of one edit changed.                  *)
LEMMA RowsMoved ==
    ASSUME NEW items \in SomeRows, NEW written \in SomeRows, NEW s \in Edit, NEW p \in Product,
           Accounted(s), \A i \in Item : Moved(s, i, p) \in Int,
           \A i \in Item : Pieces(written, i, p) = Pieces(items, i, p) + Moved(s, i, p)
    PROVE  Listed(written, p) = Listed(items, p) + s.took[p]
<1> DEFINE f == [i \in Item |-> Pieces(items, i, p)]
           g == [i \in Item |-> Moved(s, i, p)]
           h == [i \in Item |-> Pieces(written, i, p)]
<1>1. f \in [Item -> Int] /\ h \in [Item -> Int]
  BY PiecesAreNumbers
<1>2. g \in [Item -> Int] /\ \A i \in Item : h[i] = f[i] + g[i]
  OBVIOUS
<1>3. Listed(written, p) = SumFunction(h) /\ Listed(items, p) = SumFunction(f)
      /\ s.took[p] = SumFunction(g)
  BY DEF Listed, Accounted
<1> HIDE DEF f, g, h
<1>4. SumFunctionOnSet(h, Item) = SumFunctionOnSet(f, Item) + SumFunctionOnSet(g, Item)
  <2>1. AreSums(f, g, h, Item)
    BY <1>1, <1>2 DEF AreSums
  <2> QED BY <2>1, Finite, SumOfSums
<1>5. SumFunction(h) = SumFunction(f) + SumFunction(g)
  BY <1>1, <1>2, <1>4, SumWhole
<1> QED BY <1>3, <1>5

LEMMA Changes ==
    ASSUME NEW s \in Edit
    PROVE  \A i \in Item : /\ Diff(s, i) \in Int
                           /\ \A p : Moved(s, i, p) \in Int
                           /\ i \in DOMAIN s.new \cup DOMAIN s.loaded => Sort(s, i) \in Product
<1>1. s.new \in SomeRows /\ s.loaded \in SomeRows
  BY DEF Edit
<1>2. \A i : Quantity(s.new, i) \in Int /\ Quantity(s.loaded, i) \in Int
  BY <1>1, RowNumbers DEF Quantity
<1>3. \A i : Diff(s, i) \in Int
  BY <1>2 DEF Diff
<1>4. \A i \in DOMAIN s.new \cup DOMAIN s.loaded : Sort(s, i) \in Product
  BY <1>1, RowNumbers DEF Sort, Over
<1> QED BY <1>3, <1>4 DEF Moved

(* One more item is done, or one is undone, and the account follows.       *)
LEMMA OneItem ==
    ASSUME NEW s \in Edit, NEW t \in Edit, Accounted(s), NEW i \in Item,
           i \in DOMAIN s.new \cup DOMAIN s.loaded, t.new = s.new, t.loaded = s.loaded,
           \/ /\ i \notin Done(s) /\ Done(t) = Done(s) \cup {i}
              /\ t.took = [s.took EXCEPT ![Sort(s, i)] = @ + Diff(s, i)]
           \/ /\ i \in Done(s) /\ Done(t) = Done(s) \ {i}
              /\ t.took = [s.took EXCEPT ![Sort(s, i)] = @ - Diff(s, i)]
    PROVE  Accounted(t)
<1> SUFFICES ASSUME NEW p \in Product
             PROVE  t.took[p] = SumFunction([j \in Item |-> Moved(t, j, p)])
  BY DEF Accounted
<1> DEFINE f == [j \in Item |-> Moved(s, j, p)]
           g == [j \in Item |-> Moved(t, j, p)]
           d == Moved(t, i, p) - Moved(s, i, p)
<1>1. \A j : Diff(t, j) = Diff(s, j) /\ Sort(t, j) = Sort(s, j)
  BY DEF Diff, Sort
<1>2. f \in [Item -> Int] /\ g \in [Item -> Int] /\ d \in Int
  BY Changes
<1>3. g[i] = f[i] + d
  BY Changes
<1>4. \A j \in Item : j # i => g[j] = f[j]
  BY <1>1 DEF Moved
<1>5. t.took[p] = s.took[p] + d
  <2>1. s.took \in [Product -> Int] /\ Diff(s, i) \in Int /\ Sort(s, i) \in Product
    BY Changes DEF Edit
  <2> QED BY <1>1, <2>1 DEF Moved
<1>6. s.took[p] = SumFunction(f)
  BY DEF Accounted
<1> HIDE DEF f, g, d
<1>7. SumFunctionOnSet(g, Item) = SumFunctionOnSet(f, Item) + d
  <2>1. DifferAt(f, g, Item, i, d)
    BY <1>2, <1>3, <1>4 DEF DifferAt
  <2> QED BY <2>1, Finite, SumWithChange
<1>8. SumFunction(g) = SumFunction(f) + d
  BY <1>2, <1>7, SumWhole
<1> QED BY <1>5, <1>6, <1>8 DEF g

LEMMA NothingDone ==
    ASSUME NEW s \in Edit, Accounted(s), Done(s) = {}
    PROVE  \A p \in Product : s.took[p] = 0
<1> SUFFICES ASSUME NEW p \in Product PROVE s.took[p] = 0
  OBVIOUS
<1> DEFINE g == [j \in Item |-> Moved(s, j, p)]
<1>1. g \in [Item -> Int] /\ \A j \in Item : g[j] = 0
  BY DEF Moved
<1>2. s.took[p] = SumFunction(g)
  BY DEF Accounted
<1>3. None \notin Item
  BY OrderItemsAssumption DEF Item
<1> HIDE DEF g
<1>4. SumFunctionOnSet(g, Item) = 0
  BY <1>1, <1>3, Finite, SumAtOnePoint
<1> QED BY <1>1, <1>2, <1>4, SumWhole

(* Converse, for requests that have nothing to account for.                *)
LEMMA NoAccount ==
    ASSUME NEW s, Done(s) = {}, \A p \in Product : s.took[p] = 0
    PROVE  Accounted(s)
<1> SUFFICES ASSUME NEW p \in Product
             PROVE  SumFunction([j \in Item |-> Moved(s, j, p)]) = 0
  BY DEF Accounted
<1> DEFINE g == [j \in Item |-> Moved(s, j, p)]
<1>1. g \in [Item -> Int] /\ \A j \in Item : g[j] = 0
  BY DEF Moved
<1>2. None \notin Item
  BY OrderItemsAssumption DEF Item
<1> HIDE DEF g
<1>3. SumFunctionOnSet(g, Item) = 0
  BY <1>1, <1>2, Finite, SumAtOnePoint
<1>4. SumFunction(g) = 0
  BY <1>1, <1>3, SumWhole
<1> QED BY <1>4 DEF g
-----------------------------------------------------------------------------
(* One request goes from s to t, or gives up.                              *)
Becomes(r, t) ==
    /\ self' = [x \in Request |-> self'[x]] /\ DOMAIN self' = Request /\ self'[r] = t
    /\ \A x \in Request : x # r => self'[x] = self[x]
Continues(s, t) ==
    t = Idle \/ (t.op = s.op /\ t.item = s.item /\ t.new = s.new /\ t.loaded = s.loaded)

LEMMA IdleFields ==
    /\ Idle.pc = "idle" /\ Idle.op = None /\ Idle.item = None /\ DOMAIN Idle.new = {}
    /\ Idle.new \in SomeRows /\ Idle.loaded \in SomeRows
    /\ Idle.give = {} /\ Idle.gave = {} /\ Idle.take = {} /\ Idle.got = {}
    /\ \A p \in Product : Idle.took[p] = 0
    /\ Idle \in Edit
    /\ None \notin {"add", "update", "remove", "replace", "return"} /\ None \notin Status /\ None \notin Item
<1>1. NoRows \in SomeRows /\ DOMAIN NoRows = {}
  BY SomeRowsFields DEF NoRows
<1>2. Idle \in Edit
  BY <1>1 DEF Idle, Edit
<1> QED BY <1>1, <1>2, OrderItemsAssumption DEF Idle, Item

LEMMA IdleBegun == Begun(Idle)
<1>1. Accounted(Idle)
  BY IdleFields, NoAccount DEF Done
<1>2. Stands(Idle)
  BY IdleFields DEF Stands, Touched, Todo, Done, Whole
<1>3. Writes(Idle)
  BY IdleFields DEF Writes
<1> QED BY <1>1, <1>2, <1>3, IdleFields DEF Begun

LEMMA SelfUpdated ==
    ASSUME NEW r \in Request, NEW t, DOMAIN self = Request, self' = [self EXCEPT ![r] = t]
    PROVE  Becomes(r, t)
  BY DEF Becomes

LEMMA OwnedRows ==
    /\ rows \in SomeRows => Owned \in SomeRows
    /\ rows' \in SomeRows => Owned' \in SomeRows
    /\ \A p \in Product : Awaited(p) \in Int
<1>1. NoRows \in SomeRows
  BY SomeRowsFields DEF NoRows
<1> QED BY <1>1, OrderItemsAssumption DEF Owned, Awaited

LEMMA BooksKept ==
    ASSUME Requests, Requests', NEW r \in Request, NEW t, Becomes(r, t), BooksBalance,
           rows \in SomeRows, rows' \in SomeRows, held \in [Product -> Int],
           contended => contended', lost => lost', reserved' = reserved,
           \/ contended' \/ lost'
           \/ \A p \in Product :
                  held'[p] = held[p] + (Listed(Owned', p) - Listed(Owned, p))
                                     + (t.took[p] - self[r].took[p])
    PROVE  BooksBalance'
<1> SUFFICES ASSUME ~contended', ~lost', NEW p \in Product
             PROVE  (held[p] + Awaited(p) = Listed(Owned, p)
                         + SumFunction([x \in Request |-> self[x].took[p]]))'
  BY DEF BooksBalance
<1>1. held[p] + Awaited(p) = Listed(Owned, p) + SumFunction([x \in Request |-> self[x].took[p]])
  BY DEF BooksBalance
<1>2. \A x \in Request : self[x].took[p] \in Int /\ self'[x].took[p] \in Int
  BY DEF Requests, Begun, Edit
<1>3. \A x \in Request : x # r => self'[x] = self[x]
  BY DEF Becomes
<1>4. /\ SumFunction([x \in Request |-> self[x].took[p]]) \in Int
      /\ SumFunction([x \in Request |-> self'[x].took[p]])
         = SumFunction([x \in Request |-> self[x].took[p]]) + (self'[r].took[p] - self[r].took[p])
  BY <1>2, <1>3, OneRequest
<1>5. held'[p] = held[p] + (Listed(Owned', p) - Listed(Owned, p))
                         + (self'[r].took[p] - self[r].took[p])
  BY DEF Becomes
<1>6. Listed(Owned, p) \in Int /\ Listed(Owned', p) \in Int
      /\ Awaited(p) \in Int /\ held[p] \in Int
  BY OwnedRows, PiecesAreNumbers
<1>7. Listed(Owned, p)' = Listed(Owned', p) /\ Awaited(p)' = Awaited(p)
  BY DEF Listed, Pieces, Awaited
<1>8. held'[p] + Awaited(p) = Listed(Owned', p) + SumFunction([x \in Request |-> self'[x].took[p]])
  <2> DEFINE S == SumFunction([x \in Request |-> self[x].took[p]])
             T == SumFunction([x \in Request |-> self'[x].took[p]])
             l == Listed(Owned, p)
             m == Listed(Owned', p)
             a == Awaited(p)
             u == self[r].took[p]
             v == self'[r].took[p]
  <2>1. u \in Int /\ v \in Int
    BY <1>2
  <2>2. /\ held[p] + a = l + S /\ T = S + (v - u) /\ held'[p] = held[p] + (m - l) + (v - u)
        /\ S \in Int /\ l \in Int /\ m \in Int /\ a \in Int /\ held[p] \in Int
    BY <1>1, <1>4, <1>5, <1>6
  <2> SUFFICES held'[p] + a = m + T
    OBVIOUS
  <2> HIDE DEF S, T, l, m, a, u, v
  <2> QED BY <2>1, <2>2
<1> QED BY <1>7, <1>8

(* A step of one request that leaves the rows alone.                       *)
LEMMA Kept ==
    ASSUME Inv, NEW r \in Request, NEW t, Begun(t), Continues(self[r], t), Becomes(r, t),
           UNCHANGED <<rows, status, returned, reserved, last, contended>>,
           Typed', lost => lost',
           \/ contended \/ lost'
           \/ \A p \in Product : held'[p] = held[p] + (t.took[p] - self[r].took[p])
    PROVE  Inv'
<1>1. Requests'
  BY DEF Inv, Requests, Becomes
<1>2. Fresh'
  <2>1. \A x \in Request : New(x)' \subseteq New(x)
    BY IdleFields DEF Becomes, Continues, New, Inserts
  <2> QED BY <2>1 DEF Inv, Fresh
<1>3. Alone'
  <2>1. CASE contended
    BY <2>1 DEF Alone
  <2>2. CASE ~contended
    <3>1. t # Idle => self[r] # Idle
      BY IdleFields DEF Inv, Requests, Begun, Stands, Continues
    <3>2. Apart'
      BY <2>2, <3>1 DEF Inv, Alone, Apart, Overlaps, Becomes, Continues
    <3>3. \A x \in Request : AsLoaded(x)'
      BY <2>2, IdleFields DEF Inv, Alone, AsLoaded, Becomes, Continues, Whole
    <3>4. \A x \in Request : Ended(x)'
      BY <2>2, <3>1 DEF Inv, Alone, Ended, Becomes
    <3> QED BY <3>2, <3>3, <3>4 DEF Alone
  <2> QED BY <2>1, <2>2
<1>4. BooksBalance'
  <2>1. \A p \in Product : /\ held[p] \in Int /\ Listed(Owned', p) = Listed(Owned, p)
                           /\ Listed(Owned, p) \in Int
    BY OwnedRows, PiecesAreNumbers DEF Inv, Typed, Owned
  <2>2. \A p \in Product : t.took[p] \in Int /\ self[r].took[p] \in Int
    BY DEF Inv, Requests, Begun, Edit
  <2>3. \/ contended' \/ lost'
        \/ \A p \in Product :
               held'[p] = held[p] + (Listed(Owned', p) - Listed(Owned, p))
                                  + (t.took[p] - self[r].took[p])
    BY <2>1, <2>2
  <2> QED BY <1>1, <2>3, BooksKept DEF Inv, Typed
<1> QED BY <1>1, <1>2, <1>3, <1>4 DEF Inv

LEMMA Failing ==
    ASSUME Inv, NEW r \in Request, Fail(r), self[r].pc \in {"give", "check", "take", "commit"}
    PROVE  \E t : /\ Begun(t) /\ Continues(self[r], t) /\ Becomes(r, t)
                  /\ self[r].op = "replace" => t.took = self[r].took
                  /\ self[r].op # "replace" => t = Idle
<1> DEFINE s == self[r]
<1>1. DOMAIN self = Request /\ Begun(s)
  BY DEF Inv, Requests
<1>2. CASE s.op = "replace"
  <2> DEFINE t == [s EXCEPT !.pc = "undo"]
  <2>1. self' = [self EXCEPT ![r] = t]
    BY <1>1, <1>2 DEF Fail, Goto
  <2>2. t \in Edit
    BY <1>1 DEF Begun, Edit
  <2>3. /\ t.pc = "undo" /\ t.op = s.op /\ t.item = s.item /\ t.new = s.new /\ t.loaded = s.loaded
        /\ t.give = s.give /\ t.gave = s.gave /\ t.take = s.take /\ t.got = s.got /\ t.took = s.took
    BY <1>1 DEF Begun, Edit
  <2> HIDE DEF t, s
  <2>4. Stands(t)
    BY <1>1, <1>2, <2>3, IdleFields DEF Begun, Stands, Touched, Todo, Done, Whole
  <2>5. Writes(t)
    BY <1>1, <2>3 DEF Begun, Writes
  <2>6. Accounted(t)
    BY <1>1, <2>3 DEF Begun, Accounted, Moved, Done, Sort, Diff
  <2>7. Becomes(r, t)
    BY <1>1, <2>1, SelfUpdated
  <2> QED BY <1>2, <2>2, <2>3, <2>4, <2>5, <2>6, <2>7 DEF Begun, Continues, s
<1>3. CASE s.op # "replace"
  <2>1. self' = [self EXCEPT ![r] = Idle]
    BY <1>3 DEF Fail, Raise
  <2>2. Becomes(r, Idle)
    BY <1>1, <2>1, SelfUpdated
  <2> QED BY <1>3, <2>2, IdleBegun DEF Continues
<1> QED BY <1>2, <1>3
-----------------------------------------------------------------------------
LEMMA TouchedRows ==
    ASSUME NEW s, Begun(s)
    PROVE  /\ Touched(s) \subseteq DOMAIN s.new \cup DOMAIN s.loaded
           /\ Touched(s) \subseteq Item
           /\ DOMAIN s.new \subseteq Item /\ DOMAIN s.loaded \subseteq Item
<1>1. DOMAIN s.new \subseteq Item /\ DOMAIN s.loaded \subseteq Item
  BY SomeRowsFields DEF Begun, Edit
<1>2. s.op \in {"add", "update", "remove", "replace", "return", None} /\ (s.op = None => s = Idle)
  BY DEF Begun, Edit, Stands
<1>3. Touched(s) \subseteq DOMAIN s.new \cup DOMAIN s.loaded
  BY <1>2, IdleFields DEF Begun, Writes, Touched
<1> QED BY <1>1, <1>3

LEMMA Moves ==
    ASSUME Typed, NEW p \in Product, NEW n \in Int, Move(p, n)
    PROVE  /\ stock' \in [Product -> Nat] /\ held' \in [Product -> Int]
           /\ \A x \in Product : held'[x] = held[x] + (IF x = p THEN n ELSE 0)
  BY DEF Typed, Move, Enough

LEMMA TookMore ==
    ASSUME NEW s \in Edit, NEW P \in Product, NEW d \in Int, NEW t,
           t.took = [s.took EXCEPT ![P] = @ + d]
    PROVE  \A p \in Product : t.took[p] - s.took[p] = IF p = P THEN d ELSE 0
  BY DEF Edit

(* A call that the catalog answers.                                        *)
LEMMA Moving ==
    ASSUME Inv, NEW r \in Request, NEW t \in Edit, NEW i, i \in Touched(self[r]),
           NEW n \in Int, Becomes(r, t), Stands(t),
           t.op = self[r].op, t.item = self[r].item, t.new = self[r].new, t.loaded = self[r].loaded,
           \/ /\ i \notin Done(self[r]) /\ Done(t) = Done(self[r]) \cup {i} /\ n = Change(r, i)
           \/ /\ i \in Done(self[r]) /\ Done(t) = Done(self[r]) \ {i} /\ n = -Change(r, i),
           t.took = [self[r].took EXCEPT ![ProductOf(r, i)] = @ + n],
           Move(ProductOf(r, i), n),
           UNCHANGED <<rows, total, status, returned, reserved, setting, last, contended, lost>>, faults' \in 0..MaxFaults
    PROVE  Inv'
<1> DEFINE s == self[r]
           P == ProductOf(r, i)
<1>1. Begun(s) /\ s \in Edit /\ Typed
  BY DEF Inv, Requests, Begun
<1>2. P = Sort(s, i) /\ Change(r, i) = Diff(s, i)
  BY DEF Sort, ProductOf, Change, Diff
<1>3. i \in Item /\ i \in DOMAIN s.new \cup DOMAIN s.loaded
  BY <1>1, TouchedRows
<1>4. Diff(s, i) \in Int /\ P \in Product
  BY <1>1, <1>2, <1>3, Changes
<1> HIDE DEF s, P
<1>5. t.took = [s.took EXCEPT ![P] = @ + n]
  BY DEF s, P
<1>6. Accounted(t)
  <2>1. s.took \in [Product -> Int]
    BY <1>1 DEF Edit
  <2>2. CASE i \notin Done(s) /\ Done(t) = Done(s) \cup {i} /\ n = Change(r, i)
    BY <1>1, <1>2, <1>3, <1>5, <2>2, OneItem DEF Begun, s
  <2>3. CASE i \in Done(s) /\ Done(t) = Done(s) \ {i} /\ n = -Change(r, i)
    <3>1. t.took = [s.took EXCEPT ![Sort(s, i)] = @ - Diff(s, i)]
      <4>1. \A x \in Int : x + n = x - Diff(s, i)
        BY <1>2, <1>4, <2>3
      <4>2. s.took[P] + n = s.took[P] - Diff(s, i)
        BY <1>4, <2>1, <4>1
      <4> QED BY <1>2, <1>5, <4>2
    <3> QED BY <1>1, <1>3, <3>1, <2>3, OneItem DEF Begun, s
  <2> QED BY <2>2, <2>3 DEF s
<1>7. Begun(t)
  <2>1. Writes(t)
    BY <1>1 DEF Begun, Writes, s
  <2> QED BY <1>6, <2>1 DEF Begun
<1>8. /\ stock' \in [Product -> Nat] /\ held' \in [Product -> Int]
      /\ \A x \in Product : held'[x] = held[x] + (IF x = P THEN n ELSE 0)
  BY <1>1, <1>4, Moves DEF P
<1>9. \A p \in Product : held'[p] = held[p] + (t.took[p] - s.took[p])
  BY <1>1, <1>4, <1>5, <1>8, TookMore
<1>10. Typed'
  BY <1>1, <1>8 DEF Typed
<1> QED BY <1>7, <1>9, <1>10, Kept DEF Continues, s

(* A step of one request that moves nothing and writes no row.             *)
LEMMA Still ==
    ASSUME Inv, NEW r \in Request, NEW t, Begun(t), Continues(self[r], t), Becomes(r, t),
           UNCHANGED <<rows, total, status, returned, reserved, setting, last, stock, held, contended>>,
           faults' \in 0..MaxFaults, lost' \in BOOLEAN, lost => lost',
           lost' \/ \A p \in Product : t.took[p] = self[r].took[p]
    PROVE  Inv'
<1>1. Typed'
  BY DEF Inv, Typed
<1>2. \A p \in Product : t.took[p] \in Int /\ self[r].took[p] \in Int /\ held[p] \in Int
  BY DEF Inv, Requests, Begun, Edit, Typed
<1>3. lost' \/ \A p \in Product : held'[p] = held[p] + (t.took[p] - self[r].took[p])
  BY <1>2
<1> QED BY <1>1, <1>3, Kept

(* The request goes on to another step with the same items to call for.    *)
LEMMA SameItems ==
    ASSUME NEW s, NEW t \in Edit, Begun(s), Stands(t),
           t.op = s.op, t.item = s.item, t.new = s.new, t.loaded = s.loaded,
           t.gave = s.gave, t.got = s.got, t.took = s.took
    PROVE  Begun(t) /\ Continues(s, t)
<1>1. Writes(t)
  BY DEF Begun, Writes
<1>2. Accounted(t)
  BY DEF Begun, Accounted, Moved, Done, Sort, Diff
<1> QED BY <1>1, <1>2 DEF Begun, Continues
-----------------------------------------------------------------------------
(* Calls to the catalog. *)

LEMMA GoingTo ==
    ASSUME Inv, NEW r \in Request, NEW step, Goto(r, step),
           step \in {"give", "check", "take", "sum", "commit", "undo"}
    PROVE  LET t == [self[r] EXCEPT !.pc = step]
           IN  /\ Becomes(r, t) /\ t \in Edit /\ t.pc = step
               /\ t.op = self[r].op /\ t.item = self[r].item /\ t.new = self[r].new
               /\ t.loaded = self[r].loaded /\ t.give = self[r].give /\ t.gave = self[r].gave
               /\ t.take = self[r].take /\ t.got = self[r].got /\ t.took = self[r].took
               /\ t.sum = self[r].sum /\ t.before = self[r].before
<1>1. DOMAIN self = Request /\ self[r] \in Edit
  BY DEF Inv, Requests, Begun
<1>2. self' = [self EXCEPT ![r] = [self[r] EXCEPT !.pc = step]]
  BY <1>1 DEF Goto
<1>3. Becomes(r, [self[r] EXCEPT !.pc = step])
  BY <1>1, <1>2, SelfUpdated
<1> QED BY <1>1, <1>3 DEF Edit

LEMMA GiveKeeps ==
    ASSUME Inv, NEW r \in Request, Give(r)
    PROVE  Inv'
<1> DEFINE s == self[r]
<1>1. DOMAIN self = Request /\ Begun(s) /\ s.pc = "give" /\ faults \in 0..MaxFaults
      /\ UNCHANGED <<rows, total, status, returned, reserved, setting, last, contended, lost, faults>>
  BY DEF Inv, Requests, Give, At, order, around, past, Typed
<1>2. ASSUME NEW i \in s.give, Move(ProductOf(r, i), Change(r, i)),
             self' = [self EXCEPT ![r].give = @ \ {i}, ![r].gave = @ \cup {i},
                                  ![r].took[ProductOf(r, i)] = @ + Change(r, i)]
      PROVE  Inv'
  <2> DEFINE n == Change(r, i)
             t == [s EXCEPT !.give = @ \ {i}, !.gave = @ \cup {i}, !.took[ProductOf(r, i)] = @ + n]
  <2>1. i \in Touched(s) /\ i \notin Done(s) /\ i \in Item /\ i \in DOMAIN s.new \cup DOMAIN s.loaded
    BY <1>1, TouchedRows DEF Begun, Stands, Todo, Done
  <2>2. n \in Int /\ ProductOf(r, i) \in Product
    BY <1>1, <2>1, Changes DEF Begun, Change, Diff, ProductOf, Sort
  <2>3. Becomes(r, t)
    BY <1>1, <1>2 DEF Becomes, Begun, Edit
  <2>4. /\ t.pc = "give" /\ t.op = s.op /\ t.item = s.item /\ t.new = s.new /\ t.loaded = s.loaded
        /\ t.give = s.give \ {i} /\ t.gave = s.gave \cup {i} /\ t.take = s.take /\ t.got = s.got
        /\ t.took = [s.took EXCEPT ![ProductOf(r, i)] = @ + n]
    BY <1>1 DEF Begun, Edit
  <2>5. t \in Edit
    <3>1. s.took \in [Product -> Int] /\ s \in Edit
      BY <1>1 DEF Begun, Edit
    <3> HIDE DEF s, n
    <3>2. [s.took EXCEPT ![ProductOf(r, i)] = @ + n] \in [Product -> Int]
      BY <2>2, <3>1
    <3> QED BY <2>1, <3>1, <3>2 DEF Edit
  <2> HIDE DEF t, n
  <2>6. Stands(t)
    BY <1>1, <2>1, <2>4, IdleFields DEF Begun, Stands, Touched, Todo, Done, Whole
  <2>7. Done(t) = Done(s) \cup {i}
    BY <2>4 DEF Done
  <2> QED BY <1>1, <1>2, <2>1, <2>2, <2>3, <2>4, <2>5, <2>6, <2>7, Moving DEF n
<1>3. ASSUME s.give = {}, UNCHANGED shelf,
             Goto(r, CASE s.op = "replace" -> "check"
                       [] s.op = "return"  -> "commit"
                       [] OTHER            -> "sum")
      PROVE  Inv'
  <2> DEFINE step == CASE s.op = "replace" -> "check"
                       [] s.op = "return"  -> "commit"
                       [] OTHER            -> "sum"
             t == [s EXCEPT !.pc = step]
  <2>1. /\ Becomes(r, t) /\ t \in Edit /\ t.pc = step
        /\ t.op = s.op /\ t.item = s.item /\ t.new = s.new
        /\ t.loaded = s.loaded /\ t.give = s.give /\ t.gave = s.gave
        /\ t.take = s.take /\ t.got = s.got /\ t.took = s.took
    BY <1>3, GoingTo
  <2> HIDE DEF t, s
  <2>2. Stands(t)
    BY <1>1, <1>3, <2>1, IdleFields DEF Begun, Stands, Touched, Todo, Done, Whole
  <2>3. Begun(t) /\ Continues(s, t)
    BY <1>1, <2>1, <2>2, SameItems
  <2> QED BY <1>1, <1>3, <2>1, <2>3, Still DEF s, shelf, Inv, Typed
<1> QED BY <1>2, <1>3 DEF Give

(* A request that fails in a call has moved nothing, or undoes it.         *)
LEMMA FailKeeps ==
    ASSUME Inv, NEW r \in Request, Fail(r), self[r].pc \in {"give", "check", "take", "commit"},
           UNCHANGED <<rows, total, status, returned, reserved, setting, last, contended, stock, held>>,
           faults' \in 0..MaxFaults, lost' \in BOOLEAN, lost => lost',
           self[r].op = "replace" \/ Done(self[r]) = {} \/ self[r].took = Idle.took \/ lost'
    PROVE  Inv'
<1>1. PICK t : /\ Begun(t) /\ Continues(self[r], t) /\ Becomes(r, t)
               /\ self[r].op = "replace" => t.took = self[r].took
               /\ self[r].op # "replace" => t = Idle
  BY Failing
<1>2. self[r] \in Edit /\ Accounted(self[r])
  BY DEF Inv, Requests, Begun
<1>3. lost' \/ \A p \in Product : t.took[p] = self[r].took[p]
  BY <1>1, <1>2, NothingDone, IdleFields
<1> QED BY <1>1, <1>3, Still

LEMMA LostKeeps ==
    ASSUME Inv, NEW r \in Request, NEW t, Begun(t), Continues(self[r], t), Becomes(r, t),
           UNCHANGED <<rows, total, status, returned, reserved, setting, last, contended>>,
           stock' \in [Product -> Nat], held' \in [Product -> Int],
           faults' \in 0..MaxFaults, lost' = TRUE
    PROVE  Inv'
<1>1. Typed'
  BY DEF Inv, Typed
<1> QED BY <1>1, Kept

LEMMA CheckKeeps ==
    ASSUME Inv, NEW r \in Request, Check(r)
    PROVE  Inv'
<1> DEFINE s == self[r]
<1>1. DOMAIN self = Request /\ Begun(s) /\ s.pc = "check" /\ faults \in 0..MaxFaults
      /\ lost \in BOOLEAN /\ UNCHANGED <<rows, total, status, returned, reserved, setting, last, contended, lost, faults, stock, held>>
  BY DEF Inv, Requests, Check, At, order, around, past, shelf, Typed
<1>2. ASSUME Goto(r, "take") PROVE Inv'
  <2> DEFINE t == [s EXCEPT !.pc = "take"]
  <2>1. /\ Becomes(r, t) /\ t \in Edit /\ t.pc = "take"
        /\ t.op = s.op /\ t.item = s.item /\ t.new = s.new
        /\ t.loaded = s.loaded /\ t.give = s.give /\ t.gave = s.gave
        /\ t.take = s.take /\ t.got = s.got /\ t.took = s.took
    BY <1>2, GoingTo
  <2> HIDE DEF t, s
  <2>2. Stands(t)
    BY <1>1, <2>1, IdleFields DEF Begun, Stands, Touched, Todo, Done, Whole
  <2>3. Begun(t) /\ Continues(s, t)
    BY <1>1, <2>1, <2>2, SameItems
  <2> QED BY <1>1, <2>1, <2>3, Still DEF s
<1>3. ASSUME s.take # {}, Fail(r) PROVE Inv'
  <2>1. s.op = "replace" \/ Done(s) = {}
    BY <1>1, <1>3 DEF Begun, Stands, Todo, Done, Whole
  <2> QED BY <1>1, <1>3, <2>1, FailKeeps
<1> QED BY <1>2, <1>3 DEF Check

LEMMA TakeKeeps ==
    ASSUME Inv, NEW r \in Request, Take(r)
    PROVE  Inv'
<1> DEFINE s == self[r]
<1>1. DOMAIN self = Request /\ Begun(s) /\ s.pc = "take" /\ faults \in 0..MaxFaults
      /\ lost \in BOOLEAN /\ UNCHANGED <<rows, total, status, returned, reserved, setting, last, contended, lost, faults>>
  BY DEF Inv, Requests, Take, At, order, around, past, Typed
<1>2. ASSUME NEW i \in s.take, Move(ProductOf(r, i), Change(r, i)),
             self' = [self EXCEPT ![r].take = @ \ {i}, ![r].got = @ \cup {i},
                                  ![r].took[ProductOf(r, i)] = @ + Change(r, i)]
      PROVE  Inv'
  <2> DEFINE n == Change(r, i)
             t == [s EXCEPT !.take = @ \ {i}, !.got = @ \cup {i}, !.took[ProductOf(r, i)] = @ + n]
  <2>1. i \in Touched(s) /\ i \notin Done(s) /\ i \in Item /\ i \in DOMAIN s.new \cup DOMAIN s.loaded
    BY <1>1, TouchedRows DEF Begun, Stands, Todo, Done
  <2>2. n \in Int /\ ProductOf(r, i) \in Product
    BY <1>1, <2>1, Changes DEF Begun, Change, Diff, ProductOf, Sort
  <2>3. Becomes(r, t)
    BY <1>1, <1>2 DEF Becomes, Begun, Edit
  <2>4. /\ t.pc = "take" /\ t.op = s.op /\ t.item = s.item /\ t.new = s.new /\ t.loaded = s.loaded
        /\ t.give = s.give /\ t.gave = s.gave /\ t.take = s.take \ {i} /\ t.got = s.got \cup {i}
        /\ t.took = [s.took EXCEPT ![ProductOf(r, i)] = @ + n]
    BY <1>1 DEF Begun, Edit
  <2>5. t \in Edit
    <3>1. s.took \in [Product -> Int] /\ s \in Edit
      BY <1>1 DEF Begun, Edit
    <3> HIDE DEF s, n
    <3>2. [s.took EXCEPT ![ProductOf(r, i)] = @ + n] \in [Product -> Int]
      BY <2>2, <3>1
    <3> QED BY <2>1, <3>1, <3>2 DEF Edit
  <2> HIDE DEF t, n
  <2>6. Stands(t)
    BY <1>1, <2>1, <2>4, IdleFields DEF Begun, Stands, Touched, Todo, Done, Whole
  <2>7. Done(t) = Done(s) \cup {i}
    BY <2>4 DEF Done
  <2> QED BY <1>1, <1>2, <2>1, <2>2, <2>3, <2>4, <2>5, <2>6, <2>7, Moving DEF n
<1>3. ASSUME NEW i \in s.take, Fail(r), UNCHANGED shelf
      PROVE  Inv'
  <2>1. s.op = "replace" \/ Done(s) = {}
    BY <1>1, <1>3 DEF Begun, Stands, Todo, Done, Whole
  <2> QED BY <1>1, <1>3, <2>1, FailKeeps DEF shelf
<1>4. ASSUME s.take = {}, UNCHANGED shelf, 
             self' = [self EXCEPT ![r] =
                 IF @.op = "replace"
                 THEN [@ EXCEPT !.pc = "commit", !.sum = Total(self[r].new)]
                 ELSE [@ EXCEPT !.pc = "sum"]]
      PROVE  Inv'
  <2> DEFINE t == IF s.op = "replace" THEN [s EXCEPT !.pc = "commit", !.sum = Total(s.new)]
                  ELSE [s EXCEPT !.pc = "sum"]
  <2>1. Becomes(r, t)
    BY <1>1, <1>4, SelfUpdated
  <2>2. s \in Edit /\ Total(s.new) \in Nat
    BY <1>1, TotalIsNumber DEF Begun, Edit
  <2>3. /\ t \in Edit /\ t.pc \in {"sum", "commit"} /\ (t.pc = "sum" => t.op # "replace")
        /\ t.op = s.op /\ t.item = s.item /\ t.new = s.new
        /\ t.loaded = s.loaded /\ t.give = s.give /\ t.gave = s.gave
        /\ t.take = s.take /\ t.got = s.got /\ t.took = s.took
    BY <2>2 DEF Edit
  <2> HIDE DEF t, s
  <2>4. Stands(t)
    BY <1>1, <1>4, <2>3, IdleFields DEF Begun, Stands, Touched, Todo, Done, Whole
  <2>5. Begun(t) /\ Continues(s, t)
    BY <1>1, <2>3, <2>4, SameItems
  <2> QED BY <1>1, <1>4, <2>1, <2>3, <2>5, Still DEF s, shelf
<1> QED BY <1>2, <1>3, <1>4 DEF Take

LEMMA CallFailsKeeps ==
    ASSUME Inv, NEW r \in Request, CallFails(r)
    PROVE  Inv'
<1> DEFINE s == self[r]
<1>1. DOMAIN self = Request /\ Begun(s) /\ s.pc \in {"give", "take"} /\ faults' \in 0..MaxFaults
      /\ lost \in BOOLEAN /\ UNCHANGED <<rows, total, status, returned, reserved, setting, last, contended>> /\ Fail(r)
  BY OrderItemsAssumption DEF Inv, Requests, CallFails, At, order, around, Typed
<1>2. PICK i \in IF At(r, "give") THEN s.give ELSE s.take :
           \/ Move(ProductOf(r, i), Change(r, i)) /\ lost' = TRUE
           \/ UNCHANGED shelf /\ lost' = (lost \/ Abandons(r))
  BY DEF CallFails
<1>3. i \in Touched(s) /\ i \in Item /\ i \in DOMAIN s.new \cup DOMAIN s.loaded
  BY <1>1, <1>2, TouchedRows DEF Begun, Stands, Todo, Done
<1>4. CASE Move(ProductOf(r, i), Change(r, i)) /\ lost' = TRUE
  <2>1. Change(r, i) \in Int /\ ProductOf(r, i) \in Product
    BY <1>1, <1>3, Changes DEF Begun, Change, Diff, ProductOf, Sort
  <2>2. stock' \in [Product -> Nat] /\ held' \in [Product -> Int]
    BY <1>4, <2>1, Moves DEF Inv
  <2>3. PICK t : Begun(t) /\ Continues(s, t) /\ Becomes(r, t)
    BY <1>1, Failing
  <2> QED BY <1>1, <1>4, <2>2, <2>3, LostKeeps
<1>5. CASE UNCHANGED shelf /\ lost' = (lost \/ Abandons(r))
  <2>1. s.op = "replace" \/ s.took = Idle.took \/ lost'
    BY <1>5 DEF Abandons
  <2>2. lost' \in BOOLEAN /\ (lost => lost')
    BY <1>1, <1>5 DEF Abandons
  <2> QED BY <1>1, <1>5, <2>1, <2>2, FailKeeps DEF shelf
<1> QED BY <1>2, <1>4, <1>5
-----------------------------------------------------------------------------
(* The undo, and requests that end. *)

LEMMA UndoKeeps ==
    ASSUME Inv, NEW r \in Request, Undo(r)
    PROVE  Inv'
<1> DEFINE s == self[r]
<1>1. DOMAIN self = Request /\ Begun(s) /\ s.pc = "undo" /\ s.op = "replace"
      /\ faults \in 0..MaxFaults /\ lost \in BOOLEAN
      /\ UNCHANGED <<rows, total, status, returned, reserved, setting, last, contended>>
  BY DEF Inv, Requests, Undo, At, order, around, Typed, Begun, Stands
<1>2. ASSUME NEW i \in s.got \cup s.gave, Undone(r, i)
      PROVE  \E t \in Edit :
                 /\ Becomes(r, t) /\ Stands(t)
                 /\ t.op = s.op /\ t.item = s.item /\ t.new = s.new /\ t.loaded = s.loaded
                 /\ t.took = [s.took EXCEPT ![ProductOf(r, i)] = @ + -Change(r, i)]
                 /\ i \in Done(s) /\ Done(t) = Done(s) \ {i} /\ i \in Touched(s)
                 /\ i \in Item /\ i \in DOMAIN s.new \cup DOMAIN s.loaded
                 /\ Change(r, i) \in Int /\ ProductOf(r, i) \in Product
                 /\ Change(r, i) = Diff(s, i) /\ ProductOf(r, i) = Sort(s, i)
  <2> DEFINE n == Change(r, i)
             t == [s EXCEPT !.got = @ \ {i}, !.gave = @ \ {i}, !.took[ProductOf(r, i)] = @ - n]
  <2>1. i \in Touched(s) /\ i \in Done(s) /\ i \in Item /\ i \in DOMAIN s.new \cup DOMAIN s.loaded
    BY <1>1, TouchedRows DEF Begun, Stands, Todo, Done
  <2>2. n \in Int /\ ProductOf(r, i) \in Product
    BY <1>1, <2>1, Changes DEF Begun, Change, Diff, ProductOf, Sort
  <2>3. Becomes(r, t)
    BY <1>1, <1>2 DEF Becomes, Begun, Edit, Undone
  <2>4. /\ t.pc = "undo" /\ t.op = s.op /\ t.item = s.item /\ t.new = s.new /\ t.loaded = s.loaded
        /\ t.give = s.give /\ t.gave = s.gave \ {i} /\ t.take = s.take /\ t.got = s.got \ {i}
        /\ t.took = [s.took EXCEPT ![ProductOf(r, i)] = @ - n]
    BY <1>1 DEF Begun, Edit
  <2>5. t \in Edit /\ t.took = [s.took EXCEPT ![ProductOf(r, i)] = @ + -n]
    <3>1. s.took \in [Product -> Int] /\ s \in Edit
      BY <1>1 DEF Begun, Edit
    <3> HIDE DEF s, n
    <3>2. [s.took EXCEPT ![ProductOf(r, i)] = @ - n] \in [Product -> Int]
      BY <2>2, <3>1
    <3>3. [s.took EXCEPT ![ProductOf(r, i)] = @ - n] = [s.took EXCEPT ![ProductOf(r, i)] = @ + -n]
      <4>1. s.took[ProductOf(r, i)] - n = s.took[ProductOf(r, i)] + -n
        BY <2>2, <3>1
      <4> QED BY <4>1
    <3> QED BY <2>4, <3>1, <3>2, <3>3 DEF Edit
  <2> HIDE DEF t
  <2>6. Stands(t)
    BY <1>1, <2>1, <2>4, IdleFields DEF Begun, Stands, Touched, Todo, Done, Whole
  <2>7. Done(t) = Done(s) \ {i}
    BY <2>4 DEF Done
  <2> QED BY <1>1, <2>1, <2>2, <2>3, <2>4, <2>5, <2>6, <2>7 DEF Sort, ProductOf, Change, Diff
<1>3. ASSUME NEW i \in s.got \cup s.gave, Undone(r, i), MoveBack(r, i), UNCHANGED <<lost, faults>>
      PROVE  Inv'
  <2>1. PICK t \in Edit :
                 /\ Becomes(r, t) /\ Stands(t)
                 /\ t.op = s.op /\ t.item = s.item /\ t.new = s.new /\ t.loaded = s.loaded
                 /\ t.took = [s.took EXCEPT ![ProductOf(r, i)] = @ + -Change(r, i)]
                 /\ i \in Done(s) /\ Done(t) = Done(s) \ {i} /\ i \in Touched(s)
                 /\ i \in Item /\ i \in DOMAIN s.new \cup DOMAIN s.loaded
                 /\ Change(r, i) \in Int /\ ProductOf(r, i) \in Product
                 /\ Change(r, i) = Diff(s, i) /\ ProductOf(r, i) = Sort(s, i)
    BY <1>2, <1>3
  <2>2. -Change(r, i) \in Int
    BY <2>1
  <2> QED BY <1>1, <1>3, <2>1, <2>2, Moving DEF MoveBack
<1>4. ASSUME NEW i \in s.got \cup s.gave, Undone(r, i), lost' = TRUE, UNCHANGED shelf,
             faults' \in 0..MaxFaults
      PROVE  Inv'
  <2>1. PICK t \in Edit :
                 /\ Becomes(r, t) /\ Stands(t)
                 /\ t.op = s.op /\ t.item = s.item /\ t.new = s.new /\ t.loaded = s.loaded
                 /\ t.took = [s.took EXCEPT ![ProductOf(r, i)] = @ + -Change(r, i)]
                 /\ i \in Done(s) /\ Done(t) = Done(s) \ {i} /\ i \in Touched(s)
                 /\ i \in Item /\ i \in DOMAIN s.new \cup DOMAIN s.loaded
                 /\ Change(r, i) \in Int /\ ProductOf(r, i) \in Product
                 /\ Change(r, i) = Diff(s, i) /\ ProductOf(r, i) = Sort(s, i)
    BY <1>2, <1>4
  <2>2. t.took = [s.took EXCEPT ![Sort(s, i)] = @ - Diff(s, i)]
    <3>1. s.took \in [Product -> Int]
      BY <1>1 DEF Begun, Edit
    <3> HIDE DEF s
    <3>2. s.took[Sort(s, i)] + -Diff(s, i) = s.took[Sort(s, i)] - Diff(s, i)
      BY <2>1, <3>1
    <3> QED BY <2>1, <3>2
  <2>3. Accounted(t)
    BY <1>1, <2>1, <2>2, OneItem DEF Begun
  <2>4. Writes(t)
    BY <1>1, <2>1 DEF Begun, Writes
  <2>5. stock' \in [Product -> Nat] /\ held' \in [Product -> Int]
    BY <1>4 DEF Inv, Typed, shelf
  <2> QED BY <1>1, <1>4, <2>1, <2>3, <2>4, <2>5, LostKeeps DEF Begun, Continues
<1>5. ASSUME s.got = {}, s.gave = {}, Raise(r), UNCHANGED <<shelf, lost, faults>>
      PROVE  Inv'
  <2>1. Becomes(r, Idle)
    BY <1>1, <1>5, SelfUpdated DEF Raise
  <2>2. \A p \in Product : Idle.took[p] = s.took[p]
    BY <1>1, <1>5, IdleFields, NothingDone DEF Begun, Done
  <2> QED BY <1>1, <1>5, <2>1, <2>2, IdleBegun, Still DEF Continues, shelf
<1>6. faults < MaxFaults /\ faults' = faults + 1 => faults' \in 0..MaxFaults
  BY <1>1, OrderItemsAssumption
<1>7. UNCHANGED faults => faults' \in 0..MaxFaults
  BY <1>1
<1>8. \/ \E i \in s.got \cup s.gave :
             /\ Undone(r, i)
             /\ \/ MoveBack(r, i) /\ UNCHANGED <<lost, faults>>
                \/ lost' = TRUE /\ UNCHANGED shelf /\ faults' \in 0..MaxFaults
      \/ s.got = {} /\ s.gave = {} /\ Raise(r) /\ UNCHANGED <<shelf, lost, faults>>
  BY <1>6, <1>7 DEF Undo
<1> QED BY <1>3, <1>4, <1>5, <1>8

LEMMA CommitFailsKeeps ==
    ASSUME Inv, NEW r \in Request, CommitFails(r)
    PROVE  Inv'
<1> DEFINE s == self[r]
<1>1. DOMAIN self = Request /\ Begun(s) /\ s.pc = "commit" /\ faults' \in 0..MaxFaults
      /\ lost \in BOOLEAN /\ UNCHANGED <<rows, total, status, returned, reserved, setting, last, contended, stock, held>>
      /\ Fail(r) /\ lost' = (lost \/ (s.op # "replace" /\ s.took # Idle.took))
  BY OrderItemsAssumption DEF Inv, Requests, CommitFails, Abandons, At, order, around, shelf, Typed
<1>2. PICK t : /\ Begun(t) /\ Continues(s, t) /\ Becomes(r, t)
               /\ s.op = "replace" => t.took = s.took
               /\ s.op # "replace" => t = Idle
  BY <1>1, Failing
<1>3. lost' \/ \A p \in Product : t.took[p] = s.took[p]
  BY <1>1, <1>2
<1> QED BY <1>1, <1>2, <1>3, Still

LEMMA DieKeeps ==
    ASSUME Inv, NEW r \in Request, Die(r)
    PROVE  Inv'
<1> DEFINE s == self[r]
<1>1. DOMAIN self = Request /\ Begun(s) /\ faults' \in 0..MaxFaults
      /\ lost \in BOOLEAN /\ UNCHANGED <<rows, total, status, returned, reserved, setting, last, contended, stock, held>>
      /\ self' = [self EXCEPT ![r] = Idle] /\ lost' = (lost \/ s.took # Idle.took)
  BY OrderItemsAssumption DEF Inv, Requests, Die, Raise, order, around, shelf, Typed
<1>2. Becomes(r, Idle)
  BY <1>1, SelfUpdated
<1>3. lost' \/ \A p \in Product : Idle.took[p] = s.took[p]
  BY <1>1
<1> QED BY <1>1, <1>2, <1>3, IdleBegun, Still DEF Continues
-----------------------------------------------------------------------------
(* The rows. *)

LEMMA OverRows ==
    ASSUME NEW f \in SomeRows, NEW g \in SomeRows
    PROVE  /\ Over(f, g) \in SomeRows /\ DOMAIN Over(f, g) = DOMAIN f \cup DOMAIN g
           /\ \A j \in DOMAIN f : Over(f, g)[j] = f[j]
           /\ \A j \in DOMAIN g \ DOMAIN f : Over(f, g)[j] = g[j]
<1>1. /\ DOMAIN Over(f, g) = DOMAIN f \cup DOMAIN g
      /\ \A j \in DOMAIN f : Over(f, g)[j] = f[j]
      /\ \A j \in DOMAIN g \ DOMAIN f : Over(f, g)[j] = g[j]
  BY DEF Over
<1>2. Over(f, g) \in [DOMAIN f \cup DOMAIN g -> Row]
  BY RowNumbers DEF Over
<1>3. DOMAIN f \subseteq Item /\ DOMAIN g \subseteq Item
  BY SomeRowsFields
<1> QED BY <1>1, <1>2, <1>3, SomeRowsFields

LEMMA WithoutRows ==
    ASSUME NEW g \in SomeRows, NEW i
    PROVE  /\ Without(g, i) \in SomeRows /\ DOMAIN Without(g, i) = DOMAIN g \ {i}
           /\ \A j \in DOMAIN g \ {i} : Without(g, i)[j] = g[j]
<1>1. /\ DOMAIN Without(g, i) = DOMAIN g \ {i}
      /\ \A j \in DOMAIN g \ {i} : Without(g, i)[j] = g[j]
  BY DEF Without
<1>2. Without(g, i) \in [DOMAIN g \ {i} -> Row]
  BY RowNumbers DEF Without
<1>3. DOMAIN g \subseteq Item
  BY SomeRowsFields
<1> QED BY <1>1, <1>2, <1>3, SomeRowsFields

Replaces(w, f, g, i) ==
    /\ w \in SomeRows /\ DOMAIN w = DOMAIN f \cup (DOMAIN g \ {i})
    /\ \A j \in DOMAIN f : w[j] = f[j]
    /\ \A j \in (DOMAIN g \ {i}) \ DOMAIN f : w[j] = g[j]

LEMMA WrittenRows ==
    ASSUME NEW f \in SomeRows, NEW g \in SomeRows, NEW i
    PROVE  Replaces(Over(f, Without(g, i)), f, g, i)
<1> DEFINE h == Without(g, i)
<1>1. h \in SomeRows /\ DOMAIN h = DOMAIN g \ {i} /\ \A j \in DOMAIN g \ {i} : h[j] = g[j]
  BY WithoutRows
<1> HIDE DEF h
<1>2. /\ Over(f, h) \in SomeRows /\ DOMAIN Over(f, h) = DOMAIN f \cup DOMAIN h
      /\ \A j \in DOMAIN f : Over(f, h)[j] = f[j]
      /\ \A j \in DOMAIN h \ DOMAIN f : Over(f, h)[j] = h[j]
  BY <1>1, OverRows
<1> QED BY <1>1, <1>2 DEF h, Replaces

LEMMA SumKeeps ==
    ASSUME Inv, NEW r \in Request, Sum(r)
    PROVE  Inv'
<1> DEFINE s == self[r]
           t == [s EXCEPT !.pc = "commit", !.sum = Total(Flushed(r))]
<1>1. DOMAIN self = Request /\ Begun(s) /\ s.pc = "sum" /\ faults \in 0..MaxFaults
      /\ lost \in BOOLEAN /\ rows \in SomeRows
      /\ UNCHANGED <<rows, total, status, returned, reserved, setting, last, contended, lost, faults, stock, held>>
      /\ self' = [self EXCEPT ![r].pc = "commit", ![r].sum = Total(Flushed(r))]
  BY DEF Inv, Requests, Sum, At, order, around, past, shelf, Typed
<1>2. s.op \in {"add", "remove", "update"}
  BY <1>1, IdleFields DEF Begun, Stands, Edit, Whole
<1>3. Flushed(r) \in SomeRows
  BY <1>1, <1>2, OverRows, WithoutRows DEF Flushed, Begun, Edit
<1>4. Total(Flushed(r)) \in Nat
  BY <1>3, TotalIsNumber
<1>5. Becomes(r, t)
  BY <1>1 DEF Becomes, Begun, Edit
<1>6. /\ t \in Edit /\ t.pc = "commit"
      /\ t.op = s.op /\ t.item = s.item /\ t.new = s.new
      /\ t.loaded = s.loaded /\ t.give = s.give /\ t.gave = s.gave
      /\ t.take = s.take /\ t.got = s.got /\ t.took = s.took
  BY <1>1, <1>4 DEF Begun, Edit
<1> HIDE DEF t, s
<1>7. Stands(t)
  BY <1>1, <1>6, IdleFields DEF Begun, Stands, Touched, Todo, Done, Whole
<1>8. Begun(t) /\ Continues(s, t)
  BY <1>1, <1>6, <1>7, SameItems
<1> QED BY <1>1, <1>5, <1>6, <1>8, Still DEF s

(* What a request that commits alone changes, item by item.                *)
LEMMA WrittenPieces ==
    ASSUME Inv, ~contended, NEW r \in Request, self[r].pc = "commit",
           self[r].op # "return", self[r].op = "update" => self[r].item \in DOMAIN rows,
           NEW p \in Product, NEW i \in Item
    PROVE  Pieces(Written(r), i, p) = Pieces(rows, i, p) + Moved(self[r], i, p)
<1> DEFINE s == self[r]
<1>1. /\ Begun(s) /\ s.new \in SomeRows /\ s.loaded \in SomeRows /\ rows \in SomeRows
      /\ AsLoaded(r) /\ New(r) \cap DOMAIN rows = {}
  BY DEF Inv, Requests, Begun, Edit, Typed, Alone, Fresh
<1>2. s.op \in {"add", "update", "remove", "replace"} /\ Done(s) = Touched(s)
  BY <1>1, IdleFields DEF Begun, Edit, Stands, Todo, Done
<1>3. \A f \in SomeRows : \A j \in DOMAIN f : f[j].quantity \in Nat
  BY RowNumbers
<1>4. None \notin DOMAIN rows /\ None \notin Item
  BY <1>1, IdleFields, SomeRowsFields
<1> SUFFICES Pieces(Written(r), i, p) = Pieces(rows, i, p) + Moved(s, i, p)
  OBVIOUS
<1> HIDE DEF s
<1>5. /\ i \in DOMAIN s.new => /\ Quantity(s.new, i) = s.new[i].quantity
                               /\ Sort(s, i) = s.new[i].product /\ s.new[i].quantity \in Nat
      /\ i \notin DOMAIN s.new => Quantity(s.new, i) = 0
      /\ i \in DOMAIN s.loaded => /\ Quantity(s.loaded, i) = s.loaded[i].quantity
                                  /\ s.loaded[i].quantity \in Nat
      /\ i \notin DOMAIN s.loaded => Quantity(s.loaded, i) = 0
      /\ i \in DOMAIN s.loaded \ DOMAIN s.new => Sort(s, i) = s.loaded[i].product
  BY <1>1, <1>3 DEF Quantity, Sort, Over
<1>6. CASE s.op = "replace"
  <2>1. Written(r) = s.new /\ rows = s.loaded /\ DOMAIN s.new \cap DOMAIN s.loaded = {}
        /\ Done(s) = DOMAIN s.loaded \cup DOMAIN s.new
    BY <1>1, <1>2, <1>6 DEF Written, AsLoaded, Begun, Writes, Touched, Whole, s
  <2>2. CASE i \in DOMAIN s.new
    BY <1>5, <2>1, <2>2 DEF Pieces, Moved, Diff
  <2>3. CASE i \in DOMAIN s.loaded
    BY <1>5, <2>1, <2>3 DEF Pieces, Moved, Diff
  <2>4. CASE i \notin DOMAIN s.new \cup DOMAIN s.loaded
    BY <2>1, <2>4 DEF Pieces, Moved
  <2> QED BY <2>2, <2>3, <2>4
<1>7. CASE s.op # "replace"
  <2> DEFINE W == Written(r)
  <2>1. /\ DOMAIN W = DOMAIN s.new \cup (DOMAIN rows \ {s.item})
        /\ \A j \in DOMAIN s.new : W[j] = s.new[j]
        /\ \A j \in (DOMAIN rows \ {s.item}) \ DOMAIN s.new : W[j] = rows[j]
    <3>1. W = Over(s.new, Without(rows, s.item))
      BY <1>7 DEF Written, s
    <3> HIDE DEF W
    <3>2. Replaces(W, s.new, rows, s.item)
      BY <1>1, <3>1, WrittenRows
    <3> QED BY <3>2 DEF Replaces
  <2> HIDE DEF W
  <2>2. /\ s.op = "add" => /\ s.item = None /\ Done(s) = DOMAIN s.new
                           /\ DOMAIN s.new \cap DOMAIN s.loaded = {}
                           /\ DOMAIN s.new \cap DOMAIN rows = {}
        /\ s.op # "add" => /\ s.item \in DOMAIN rows /\ rows[s.item] = s.loaded[s.item]
                           /\ s.item \in DOMAIN s.loaded /\ Done(s) = {s.item}
        /\ s.op = "update" => /\ DOMAIN s.new = {s.item}
                              /\ s.new[s.item].product = s.loaded[s.item].product
        /\ s.op = "remove" => DOMAIN s.new = {}
    BY <1>1, <1>2, <1>4, <1>7 DEF Begun, Writes, Touched, Whole, AsLoaded, New, Inserts, s
  <2>3. CASE i \notin Done(s)
    <3>1. (i \in DOMAIN W <=> i \in DOMAIN rows) /\ (i \in DOMAIN rows => W[i] = rows[i])
      BY <1>2, <1>4, <1>7, <2>1, <2>2, <2>3
    <3>2. Pieces(rows, i, p) \in Int
      BY <1>1, <1>3 DEF Pieces
    <3> QED BY <2>3, <3>1, <3>2 DEF Pieces, Moved, W
  <2>4. CASE i \in Done(s) /\ s.op = "add"
    <3>1. i \in DOMAIN s.new /\ i \notin DOMAIN rows /\ i \notin DOMAIN s.loaded
          /\ i \in DOMAIN W /\ W[i] = s.new[i]
      BY <2>1, <2>2, <2>4
    <3> QED BY <1>5, <2>4, <3>1 DEF Pieces, Moved, Diff, W
  <2>5. CASE i \in Done(s) /\ s.op = "update"
    <3>1. i \in DOMAIN s.new /\ i \in DOMAIN rows /\ i \in DOMAIN s.loaded
          /\ i \in DOMAIN W /\ W[i] = s.new[i] /\ rows[i] = s.loaded[i]
          /\ s.new[i].product = s.loaded[i].product
      BY <2>1, <2>2, <2>5
    <3> QED BY <1>5, <2>5, <3>1 DEF Pieces, Moved, Diff, W
  <2>6. CASE i \in Done(s) /\ s.op = "remove"
    <3>1. i \notin DOMAIN s.new /\ i \in DOMAIN rows /\ i \in DOMAIN s.loaded
          /\ i \notin DOMAIN W /\ rows[i] = s.loaded[i]
      BY <2>1, <2>2, <2>6
    <3> QED BY <1>5, <2>6, <3>1 DEF Pieces, Moved, Diff, W
  <2> QED BY <1>2, <1>7, <2>3, <2>4, <2>5, <2>6
<1> QED BY <1>6, <1>7

(* What a return gives back is everything the order listed.                *)
LEMMA ReturnedPieces ==
    ASSUME Inv, ~contended, NEW r \in Request, self[r].pc = "commit", self[r].op = "return",
           NEW p \in Product, NEW i \in Item
    PROVE  Pieces(NoRows, i, p) = Pieces(rows, i, p) + Moved(self[r], i, p)
<1> DEFINE s == self[r]
<1>1. Begun(s) /\ s.new \in SomeRows /\ s.loaded \in SomeRows /\ AsLoaded(r)
  BY DEF Inv, Requests, Begun, Edit, Alone
<1>2. Done(s) = DOMAIN s.loaded /\ rows = s.loaded /\ DOMAIN s.new = {}
  BY <1>1 DEF Begun, Stands, Writes, Touched, Todo, Done, Whole, AsLoaded
<1> HIDE DEF s
<1>3. DOMAIN NoRows = {}
  BY DEF NoRows
<1>4. CASE i \in DOMAIN s.loaded
  <2>1. s.loaded[i].quantity \in Nat
    BY <1>1, <1>4, RowNumbers
  <2> QED BY <1>2, <1>3, <1>4, <2>1 DEF Pieces, Moved, Diff, Quantity, Sort, Over, s
<1>5. CASE i \notin DOMAIN s.loaded
  BY <1>2, <1>3, <1>5 DEF Pieces, Moved, s
<1> QED BY <1>4, <1>5

LEMMA CommitKeeps ==
    ASSUME Inv, NEW r \in Request, Commit(r)
    PROVE  Inv'
<1> DEFINE s == self[r]
<1>1. /\ DOMAIN self = Request /\ Begun(s) /\ s.pc = "commit" /\ s \in Edit /\ Typed
      /\ UNCHANGED <<last, reserved, setting, contended, lost, faults, stock, held>>
      /\ self' = [self EXCEPT ![r] = Idle]
  BY DEF Inv, Requests, Commit, At, around, past, shelf, Raise, Begun
<1>2. Becomes(r, Idle)
  BY <1>1, SelfUpdated
<1>3. s.op \in {"add", "update", "remove", "replace", "return"} /\ s # Idle /\ Done(s) = Touched(s)
      /\ s.new \in SomeRows /\ s.loaded \in SomeRows
  BY <1>1, IdleFields DEF Begun, Edit, Stands, Todo, Done
<1>4. ASSUME s.op = "update", s.item \notin DOMAIN rows, UNCHANGED order
      PROVE  Inv'
  <2>1. contended \/ s.item = None
    BY <1>4 DEF Inv, Alone, AsLoaded
  <2>2. s.item = None => Done(s) = {}
    BY <1>3, <1>4 DEF Touched, Whole
  <2>3. contended \/ \A p \in Product : Idle.took[p] = 0 /\ s.took[p] = 0
    BY <1>1, <2>1, <2>2, NothingDone, IdleFields DEF Begun
  <2>4. contended \/ \A p \in Product : held'[p] = held[p] + (Idle.took[p] - s.took[p])
    BY <1>1, <2>3 DEF Typed
  <2>5. Typed'
    BY <1>1, <1>4 DEF Typed, order
  <2> QED BY <1>1, <1>2, <1>4, <2>4, <2>5, IdleBegun, Kept DEF Continues, order
<1>5. ASSUME s.op # "return", s.op = "update" => s.item \in DOMAIN rows,
             rows' = Written(r), total' = Totalled(s.before, s.sum),
             UNCHANGED <<status, returned>>
      PROVE  Inv'
  <2>1. None \notin DOMAIN rows /\ rows \in SomeRows
    BY <1>1, IdleFields, SomeRowsFields DEF Typed
  <2>2. /\ rows' \in SomeRows
        /\ s.op = "replace" => rows' = s.new
        /\ s.op # "replace" => DOMAIN rows' = DOMAIN s.new \cup (DOMAIN rows \ {s.item})
        /\ s.op # "replace" => \A j \in (DOMAIN rows \ {s.item}) \ DOMAIN s.new : rows'[j] = rows[j]
    <3>1. CASE s.op = "replace"
      BY <1>3, <1>5, <3>1 DEF Written
    <3>2. CASE s.op # "replace"
      <4>1. rows' = Over(s.new, Without(rows, s.item))
        BY <1>5, <3>2 DEF Written
      <4>2. Replaces(rows', s.new, rows, s.item)
        BY <1>3, <2>1, <4>1, WrittenRows
      <4> QED BY <3>2, <4>2 DEF Replaces
    <3> QED BY <3>1, <3>2
  <2>3. DOMAIN rows' \subseteq New(r) \cup DOMAIN rows
    BY <1>1, <1>3, <1>5, <2>2 DEF Begun, Writes, New, Inserts
  <2>4. Typed'
    <3>1. total' \in Nat
      BY <1>1, <1>5 DEF Typed, Edit, Totalled
    <3>2. DOMAIN rows' \subseteq 1..last
      BY <1>1, <2>3 DEF Inv, Fresh, Typed
    <3> QED BY <1>1, <1>5, <2>2, <3>1, <3>2 DEF Typed
  <2>5. Requests'
    BY <1>2, IdleBegun DEF Inv, Requests, Becomes
  <2>6. Fresh'
    <3>1. New(r)' = {} /\ \A x \in Request : x # r => New(x)' = New(x)
      BY <1>2, IdleFields DEF Becomes, New, Inserts
    <3> QED BY <1>1, <2>3, <3>1 DEF Inv, Fresh
  <2>7. ASSUME ~contended PROVE Apart' /\ \A x \in Request : AsLoaded(x)' /\ Ended(x)'
    <3>1. Apart'
      BY <1>2, <2>7 DEF Inv, Alone, Apart, Overlaps, Becomes
    <3>2. ASSUME NEW x \in Request PROVE AsLoaded(x)'
      <4>1. CASE x = r
        BY <1>2, <4>1, IdleFields DEF AsLoaded, Becomes, Whole
      <4>2. CASE self[x] = Idle /\ x # r
        BY <1>2, <4>2, IdleFields DEF AsLoaded, Becomes, Whole
      <4>3. CASE self[x] # Idle /\ x # r
        <5>1. /\ self'[x] = self[x] /\ AsLoaded(x)
              /\ s.op \notin Whole /\ self[x].op \notin Whole
              /\ self[x].item # None => self[x].item # s.item
          BY <1>2, <1>3, <2>7, <4>3 DEF Becomes, Inv, Alone, Apart, Overlaps
        <5>2. ASSUME self[x].item # None
              PROVE  self[x].item \in DOMAIN rows' /\ rows'[self[x].item] = rows[self[x].item]
          <6>1. self[x].item \in DOMAIN rows
            BY <5>1, <5>2 DEF AsLoaded
          <6>2. self[x].item \notin DOMAIN s.new
            <7>1. CASE s.op = "add"
              BY <6>1, <7>1 DEF Inv, Fresh, New, Inserts
            <7>2. CASE s.op # "add"
              BY <1>1, <1>3, <5>1, <5>2, <7>2 DEF Begun, Writes, Whole
            <7> QED BY <7>1, <7>2
          <6> QED BY <2>2, <5>1, <5>2, <6>1, <6>2 DEF Whole
        <5> QED BY <5>1, <5>2 DEF AsLoaded
      <4> QED BY <4>1, <4>2, <4>3
    <3>3. \A x \in Request : Ended(x)'
      BY <1>3, <1>5, <2>7 DEF Inv, Alone, Ended
    <3> QED BY <3>1, <3>2, <3>3
  <2>8. contended' \/ \A p \in Product : held'[p] = held[p] + (Listed(Owned', p) - Listed(Owned, p))
                                                          + (Idle.took[p] - s.took[p])
    <3> SUFFICES ASSUME ~contended, NEW p \in Product
                 PROVE  held'[p] = held[p] + (Listed(Owned', p) - Listed(Owned, p))
                                           + (Idle.took[p] - s.took[p])
      BY <1>1
    <3>1. \A i \in Item : Pieces(rows', i, p) = Pieces(rows, i, p) + Moved(s, i, p)
      BY <1>1, <1>5, WrittenPieces
    <3>2. \A i \in Item : Moved(s, i, p) \in Int
      BY <1>1, Changes
    <3>3. Owned = rows /\ Owned' = rows'
      BY <1>3, <1>5 DEF Inv, Alone, Ended, Owned
    <3>4. Listed(rows', p) = Listed(rows, p) + s.took[p]
      BY <1>1, <2>1, <2>2, <3>1, <3>2, RowsMoved DEF Begun
    <3>5. Listed(rows, p) \in Int /\ s.took[p] \in Int /\ Idle.took[p] = 0 /\ held[p] \in Int
      BY <1>1, <2>1, PiecesAreNumbers, IdleFields DEF Edit, Typed
    <3> QED BY <1>1, <3>3, <3>4, <3>5
  <2>9. BooksBalance'
    BY <1>1, <1>2, <2>1, <2>2, <2>5, <2>8, BooksKept DEF Inv, Typed
  <2> QED BY <1>1, <2>4, <2>5, <2>6, <2>7, <2>9 DEF Inv, Alone
<1>6. ASSUME s.op = "return", status' = "cancelled", returned' = TRUE, UNCHANGED <<rows, total>>
      PROVE  Inv'
  <2>1. Typed'
    BY <1>1, <1>6 DEF Typed, Status
  <2>2. Requests'
    BY <1>2, IdleBegun DEF Inv, Requests, Becomes
  <2>3. Fresh'
    <3>1. New(r)' = {} /\ \A x \in Request : x # r => New(x)' = New(x)
      BY <1>2, IdleFields DEF Becomes, New, Inserts
    <3> QED BY <1>1, <1>6, <3>1 DEF Inv, Fresh
  <2>4. ASSUME ~contended PROVE Apart' /\ \A x \in Request : AsLoaded(x)' /\ Ended(x)'
    <3>1. \A x \in Request : x # r => self[x] = Idle
      BY <1>3, <1>6, <2>4 DEF Inv, Alone, Apart, Overlaps, Whole
    <3>2. \A x \in Request : self'[x] = Idle
      BY <1>2, <3>1 DEF Becomes
    <3> QED BY <1>6, <3>2, IdleFields DEF Apart, AsLoaded, Ended, Whole
  <2>5. contended' \/ \A p \in Product : held'[p] = held[p] + (Listed(Owned', p) - Listed(Owned, p))
                                                          + (Idle.took[p] - s.took[p])
    <3> SUFFICES ASSUME ~contended, NEW p \in Product
                 PROVE  held'[p] = held[p] + (Listed(Owned', p) - Listed(Owned, p))
                                           + (Idle.took[p] - s.took[p])
      BY <1>1
    <3>1. Owned = rows /\ Owned' = NoRows
      BY <1>3, <1>6 DEF Inv, Alone, Ended, Owned
    <3>2. \A i \in Item : Pieces(NoRows, i, p) = Pieces(rows, i, p) + Moved(s, i, p)
      BY <1>1, <1>6, ReturnedPieces
    <3>3. \A i \in Item : Moved(s, i, p) \in Int
      BY <1>1, Changes
    <3>4. rows \in SomeRows /\ NoRows \in SomeRows
      BY <1>1, SomeRowsFields DEF Typed, NoRows
    <3>5. Listed(NoRows, p) = Listed(rows, p) + s.took[p]
      BY <1>1, <3>2, <3>3, <3>4, RowsMoved DEF Begun
    <3>6. Listed(rows, p) \in Int /\ s.took[p] \in Int /\ Idle.took[p] = 0 /\ held[p] \in Int
      BY <1>1, <3>4, PiecesAreNumbers, IdleFields DEF Edit, Typed
    <3> QED BY <1>1, <3>1, <3>5, <3>6
  <2>6. BooksBalance'
    <3>1. rows \in SomeRows /\ rows' \in SomeRows
      BY <1>1, <1>6 DEF Typed
    <3> QED BY <1>1, <1>2, <2>2, <2>5, <3>1, BooksKept DEF Inv, Typed
  <2> QED BY <1>1, <2>1, <2>2, <2>3, <2>4, <2>6 DEF Inv, Alone
<1> QED BY <1>4, <1>5, <1>6 DEF Commit
-----------------------------------------------------------------------------
(* Requests that begin. *)

Loads(op, edit) == [edit EXCEPT !.op = op, !.loaded = rows, !.before = total]

LEMMA LoadsFields ==
    ASSUME Typed, NEW op \in {"add", "update", "remove", "replace", "return"}, NEW edit \in Edit
    PROVE  LET t == Loads(op, edit)
           IN  /\ t \in Edit /\ t.op = op /\ t.loaded = rows /\ t.pc = edit.pc
               /\ t.item = edit.item /\ t.new = edit.new
               /\ t.give = edit.give /\ t.gave = edit.gave /\ t.take = edit.take
               /\ t.got = edit.got /\ t.took = edit.took
  BY DEF Typed, Edit, Loads

LEMMA Beginning ==
    ASSUME Inv, NEW r \in Request, NEW op \in {"add", "update", "remove", "replace", "return"},
           NEW edit \in Edit, Begin(r, op, edit), status # "cancelled",
           edit.gave = {}, edit.got = {}, \A p \in Product : edit.took[p] = 0,
           Stands(Loads(op, edit)), Writes(Loads(op, edit)),
           edit.item # None => edit.item \in DOMAIN rows,
           IF op \in {"add", "replace"}
           THEN \E k \in Nat : DOMAIN edit.new = last + 1 .. last + k
           ELSE DOMAIN edit.new \subseteq DOMAIN rows
    PROVE  Inv'
<1> DEFINE t == Loads(op, edit)
<1>1. Typed /\ Requests /\ self[r] = Idle /\ DOMAIN self = Request /\ op # None
      /\ DOMAIN rows \subseteq 1..last /\ last \in Nat
  BY IdleFields DEF Inv, Requests, Begin, Typed
<1>2. /\ t \in Edit /\ t.op = op /\ t.loaded = rows
      /\ t.item = edit.item /\ t.new = edit.new
      /\ t.gave = {} /\ t.got = {} /\ \A p \in Product : t.took[p] = 0
  BY <1>1, LoadsFields
<1>3. Begun(t)
  <2>1. Accounted(t)
    BY <1>2, NoAccount DEF Done
  <2> QED BY <1>2, <2>1 DEF Begun
<1>4. self' = [self EXCEPT ![r] = t]
      /\ UNCHANGED <<rows, total, status, returned, reserved, setting, stock, held, lost, faults>>
      /\ contended' = (contended \/ \E x \in Request : Overlaps(op, edit.item, self[x]))
  BY DEF Begin, Loads, order, around, shelf
<1>5. Becomes(r, t)
  BY <1>1, <1>4, SelfUpdated
<1> HIDE DEF t
<1>6. last' \in Nat /\ last <= last' /\ last' <= MaxItems
      /\ (op \in {"add", "replace"} => DOMAIN edit.new = last + 1 .. last')
  <2>1. CASE op \in {"add", "replace"}
    <3>1. PICK k \in Nat : DOMAIN edit.new = last + 1 .. last + k
      BY <2>1
    <3>2. DOMAIN edit.new \ DOMAIN rows = last + 1 .. last + k
      BY <1>1, <3>1
    <3>3. Cardinality(last + 1 .. last + k) = k
      <4>1. last + 1 \in Int /\ last + k \in Int
        BY <1>1
      <4>2. Cardinality(last + 1 .. last + k)
            = IF last + 1 > last + k THEN 0 ELSE (last + k) - (last + 1) + 1
        BY <4>1, FS_Interval
      <4> QED BY <1>1, <4>2
    <3>4. last' = last + k /\ last + k <= MaxItems
      BY <3>2, <3>3 DEF Begin
    <3> QED BY <1>1, <3>1, <3>4
  <2>2. CASE op \notin {"add", "replace"}
    <3>1. DOMAIN edit.new \ DOMAIN rows = {}
      BY <2>2
    <3>2. Cardinality(DOMAIN edit.new \ DOMAIN rows) = 0
      BY <3>1, FS_EmptySet
    <3>3. last' = last
      BY <1>1, <3>2 DEF Begin
    <3> QED BY <1>1, <2>2, <3>3, OrderItemsAssumption DEF Typed
  <2> QED BY <2>1, <2>2
<1>7. Typed'
  BY <1>1, <1>4, <1>6, OrderItemsAssumption DEF Typed
<1>8. Requests'
  BY <1>1, <1>3, <1>5 DEF Requests, Becomes
<1>9. Fresh'
  <2>1. New(r)' \subseteq 1..last' /\ New(r)' \cap 1..last = {}
    BY <1>1, <1>2, <1>5, <1>6 DEF New, Inserts, Becomes
  <2>2. \A x \in Request : x # r => New(x)' = New(x)
    BY <1>5 DEF New, Inserts, Becomes
  <2>3. \A x \in Request : New(x) \subseteq 1..last
    BY DEF Inv, Fresh
  <2>4. 1..last \subseteq 1..last'
    BY <1>1, <1>6
  <2>5. \A x \in Request : New(x)' \subseteq 1..last' /\ New(x)' \cap DOMAIN rows = {}
    BY <1>1, <2>1, <2>2, <2>3, <2>4 DEF Inv, Fresh
  <2>6. \A x, y \in Request : x # y => New(x)' \cap New(y)' = {}
    BY <2>1, <2>2, <2>3 DEF Inv, Fresh
  <2> QED BY <1>4, <2>5, <2>6 DEF Fresh
<1>10. ASSUME ~contended' PROVE Apart' /\ \A x \in Request : AsLoaded(x)' /\ Ended(x)'
  <2>1. ~contended /\ \A x \in Request : ~Overlaps(op, edit.item, self[x])
    BY <1>4, <1>10
  <2>2. Apart'
    <3> SUFFICES ASSUME NEW x \in Request, NEW y \in Request, x # y, self'[x] # Idle
                 PROVE  ~Overlaps(self'[x].op, self'[x].item, self'[y])
      BY DEF Apart, Overlaps
    <3>1. CASE x = r
      BY <1>2, <1>5, <2>1, <3>1 DEF Becomes
    <3>2. CASE y = r
      <4>1. self'[x] = self[x] /\ self'[y] = t /\ self[x] # Idle
        BY <1>5, <3>2 DEF Becomes
      <4>2. ~Overlaps(op, edit.item, self[x])
        BY <2>1
      <4> QED BY <1>2, <4>1, <4>2 DEF Overlaps
    <3>3. CASE x # r /\ y # r
      BY <1>5, <2>1, <3>3 DEF Becomes, Inv, Alone, Apart
    <3> QED BY <3>1, <3>2, <3>3
  <2>3. ASSUME NEW x \in Request PROVE AsLoaded(x)'
    <3>1. CASE x = r
      BY <1>2, <1>4, <1>5, <3>1 DEF Becomes, AsLoaded
    <3>2. CASE x # r
      BY <1>4, <1>5, <2>1, <3>2 DEF Becomes, AsLoaded, Inv, Alone
    <3> QED BY <3>1, <3>2
  <2>4. \A x \in Request : Ended(x)'
    BY <1>4, <2>1 DEF Inv, Alone, Ended
  <2> QED BY <2>2, <2>3, <2>4
<1>11. BooksBalance'
  <2>1. \A p \in Product : /\ held[p] \in Int /\ Listed(Owned', p) = Listed(Owned, p)
                           /\ Listed(Owned, p) \in Int /\ t.took[p] = 0 /\ self[r].took[p] = 0
    BY <1>1, <1>2, <1>4, OwnedRows, PiecesAreNumbers, IdleFields DEF Typed, Owned
  <2>2. \A p \in Product :
            held'[p] = held[p] + (Listed(Owned', p) - Listed(Owned, p))
                               + (t.took[p] - self[r].took[p])
    BY <1>4, <2>1
  <2>3. contended => contended'
    BY <1>4
  <2>4. lost => lost'
    BY <1>4
  <2> QED BY <1>1, <1>4, <1>5, <1>8, <2>2, <2>3, <2>4, BooksKept DEF Inv, Typed
<1> QED BY <1>7, <1>8, <1>9, <1>10, <1>11 DEF Inv, Alone

LEMMA NumberedAfter ==
    ASSUME Inv, NEW want \in [Product -> Quantities \cup {0}],
           LET new == Numbered(last, want)
           IN  last + Cardinality(DOMAIN new \ DOMAIN rows) <= MaxItems
    PROVE  LET new == Numbered(last, want)
           IN  /\ new \in SomeRows
               /\ \E k \in Nat : /\ DOMAIN new = last + 1 .. last + k
                                 /\ k = Cardinality({p \in Product : want[p] > 0})
               /\ DOMAIN new \cap DOMAIN rows = {}
<1> DEFINE new == Numbered(last, want)
           k == Cardinality({p \in Product : want[p] > 0})
<1>1. want \in [Product -> Nat] /\ last \in Nat /\ DOMAIN rows \subseteq 1..last
  <2>1. Quantities \cup {0} \subseteq Nat
    BY OrderItemsAssumption
  <2>2. last \in Nat /\ DOMAIN rows \subseteq 1..last
    BY OrderItemsAssumption DEF Inv, Typed
  <2> QED BY <2>1, <2>2
<1>2. \A p \in Product : want[p] > 0 => want[p] \in Quantities \cup {Ordered[x] : x \in Product}
  BY OrderItemsAssumption
<1>3. k \in Nat /\ DOMAIN new = last + 1 .. last + k /\ new \in [DOMAIN new -> Row]
  BY <1>1, <1>2, NumberedRows
<1> HIDE DEF new, k
<1>4. DOMAIN new \cap DOMAIN rows = {} /\ DOMAIN new \ DOMAIN rows = last + 1 .. last + k
  BY <1>1, <1>3
<1>5. Cardinality(last + 1 .. last + k) = k
  <2>1. last + 1 \in Int /\ last + k \in Int
    BY <1>1, <1>3
  <2>2. Cardinality(last + 1 .. last + k)
        = IF last + 1 > last + k THEN 0 ELSE (last + k) - (last + 1) + 1
    BY <2>1, FS_Interval
  <2> QED BY <1>1, <1>3, <2>2
<1>6. last + k <= MaxItems
  BY <1>4, <1>5 DEF new
<1>7. DOMAIN new \subseteq Item
  BY <1>1, <1>3, <1>6, OrderItemsAssumption DEF Item
<1>8. new \in SomeRows
  BY <1>3, <1>7, SomeRowsFields
<1> QED BY <1>3, <1>4, <1>8 DEF new, k

LEMMA AddItemKeeps ==
    ASSUME Inv, NEW r \in Request, AddItem(r)
    PROVE  Inv'
<1>1. PICK p \in Product, q \in Quantities :
          LET new == Numbered(last, [x \in Product |-> IF x = p THEN q ELSE 0])
          IN  /\ \A i \in DOMAIN rows : rows[i].product # p
              /\ Begin(r, "add", [Idle EXCEPT !.pc = "check", !.new = new,
                                              !.take = DOMAIN new])
  BY DEF AddItem
<1> DEFINE want == [x \in Product |-> IF x = p THEN q ELSE 0]
           new == Numbered(last, want)
           edit == [Idle EXCEPT !.pc = "check", !.new = new, !.take = DOMAIN new]
           t == Loads("add", edit)
<1>2. want \in [Product -> Quantities \cup {0}] /\ Begin(r, "add", edit)
  BY <1>1
<1>3. {x \in Product : want[x] > 0} = {p}
  BY OrderItemsAssumption
<1>4. Cardinality({x \in Product : want[x] > 0}) = 1
  BY <1>3, FS_Singleton
<1>5. edit.new = new
  BY IdleFields DEF Edit
<1>6. last + Cardinality(DOMAIN new \ DOMAIN rows) <= MaxItems
  BY <1>2, <1>5 DEF Begin
<1>7. /\ new \in SomeRows /\ DOMAIN new \cap DOMAIN rows = {}
      /\ \E k \in Nat : DOMAIN new = last + 1 .. last + k /\ k = 1
  <2>1. \E k \in Nat : /\ DOMAIN new = last + 1 .. last + k
                       /\ k = Cardinality({x \in Product : want[x] > 0})
        /\ new \in SomeRows /\ DOMAIN new \cap DOMAIN rows = {}
    <3> HIDE DEF want
    <3> QED BY <1>2, <1>6, NumberedAfter
  <2> HIDE DEF new, want
  <2> QED BY <1>4, <2>1
<1>8. \A i, j \in DOMAIN new : i = j
  <2> HIDE DEF new
  <2>1. last \in Int
    BY DEF Inv, Typed
  <2> QED BY <1>7, <2>1
<1> HIDE DEF new
<1>9. DOMAIN new \subseteq Item
  BY <1>7, SomeRowsFields
<1>10. /\ edit \in Edit /\ edit.pc = "check" /\ edit.new = new /\ edit.take = DOMAIN new
       /\ edit.give = {} /\ edit.gave = {} /\ edit.got = {} /\ edit.item = None
       /\ \A x \in Product : edit.took[x] = 0
  BY <1>7, <1>9, IdleFields DEF Edit
<1> HIDE DEF edit
<1>11. /\ t \in Edit /\ t.op = "add" /\ t.loaded = rows /\ t.pc = edit.pc
       /\ t.item = edit.item /\ t.new = edit.new
       /\ t.give = edit.give /\ t.gave = edit.gave /\ t.take = edit.take
       /\ t.got = edit.got /\ t.took = edit.took
  BY <1>10, LoadsFields DEF Inv
<1> HIDE DEF t
<1>12. Stands(t)
  BY <1>8, <1>10, <1>11, IdleFields DEF Stands, Touched, Todo, Done, Whole
<1>13. Writes(t)
  BY <1>7, <1>10, <1>11 DEF Writes
<1>14. status # "cancelled"
  BY DEF AddItem, CanEdit
<1> QED BY <1>2, <1>7, <1>10, <1>12, <1>13, <1>14, Beginning DEF t

LEMMA UpdateItemKeeps ==
    ASSUME Inv, NEW r \in Request, UpdateItem(r)
    PROVE  Inv'
<1>1. rows \in SomeRows /\ DOMAIN rows \subseteq Item /\ status # "cancelled"
  BY SomeRowsFields DEF Inv, Typed, UpdateItem, CanEdit
<1>2. PICK i \in DOMAIN rows, q \in Quantities :
        LET edit == [Idle EXCEPT !.item = i,
                                 !.new = [j \in {i} |-> [rows[i] EXCEPT !.quantity = q]]]
        IN  Begin(r, "update",
                CASE q > rows[i].quantity -> [edit EXCEPT !.pc = "check", !.take = {i}]
                  [] q < rows[i].quantity -> [edit EXCEPT !.pc = "give", !.give = {i}]
                  [] OTHER                -> [Idle EXCEPT !.pc = "sum"])
  BY DEF UpdateItem
<1> DEFINE new == [j \in {i} |-> [rows[i] EXCEPT !.quantity = q]]
           edit == [Idle EXCEPT !.item = i, !.new = new]
<1>3. /\ new \in SomeRows /\ DOMAIN new = {i} /\ new[i].product = rows[i].product
      /\ i \in Item /\ i # None
  <2>1. rows[i] \in Row /\ i \in Item
    BY <1>1, RowNumbers
  <2>2. [rows[i] EXCEPT !.quantity = q] \in Row
        /\ [rows[i] EXCEPT !.quantity = q].product = rows[i].product
    BY <2>1 DEF Row
  <2>3. DOMAIN new = {i} /\ new \in [{i} -> Row] /\ new[i].product = rows[i].product
    BY <2>2
  <2> QED BY <2>1, <2>3, SomeRowsFields, IdleFields
<1>4. /\ edit \in Edit /\ edit.item = i /\ edit.new = new
      /\ edit.give = {} /\ edit.gave = {} /\ edit.take = {} /\ edit.got = {}
      /\ \A x \in Product : edit.took[x] = 0
  <2> HIDE DEF new
  <2> QED BY <1>3, IdleFields DEF Edit
<1> HIDE DEF new, edit
<1>5. ASSUME NEW e \in Edit, Begin(r, "update", e), e.item = i, e.new = new,
             e.gave = {}, e.got = {}, \A x \in Product : e.took[x] = 0,
             \/ e.pc = "check" /\ e.take = {i} /\ e.give = {}
             \/ e.pc = "give" /\ e.give = {i} /\ e.take = {}
      PROVE  Inv'
  <2> DEFINE t == Loads("update", e)
  <2>1. /\ t \in Edit /\ t.op = "update" /\ t.loaded = rows /\ t.pc = e.pc
        /\ t.item = e.item /\ t.new = e.new
        /\ t.give = e.give /\ t.gave = e.gave /\ t.take = e.take
        /\ t.got = e.got /\ t.took = e.took
    BY LoadsFields DEF Inv
  <2> HIDE DEF t
  <2>2. Stands(t)
    BY <1>3, <1>5, <2>1, IdleFields DEF Stands, Touched, Todo, Done, Whole
  <2>3. Writes(t)
    BY <1>3, <1>5, <2>1 DEF Writes
  <2> QED BY <1>1, <1>3, <1>5, <2>2, <2>3, Beginning DEF t
<1>6. ASSUME Begin(r, "update", [Idle EXCEPT !.pc = "sum"])
      PROVE  Inv'
  <2> DEFINE e == [Idle EXCEPT !.pc = "sum"]
             t == Loads("update", e)
  <2>1. /\ e \in Edit /\ e.pc = "sum" /\ e.item = None /\ DOMAIN e.new = {}
        /\ e.give = {} /\ e.gave = {} /\ e.take = {} /\ e.got = {}
        /\ \A x \in Product : e.took[x] = 0
    BY IdleFields DEF Edit
  <2> HIDE DEF e
  <2>2. /\ t \in Edit /\ t.op = "update" /\ t.loaded = rows /\ t.pc = e.pc
        /\ t.item = e.item /\ t.new = e.new
        /\ t.give = e.give /\ t.gave = e.gave /\ t.take = e.take
        /\ t.got = e.got /\ t.took = e.took
    BY <2>1, LoadsFields DEF Inv
  <2> HIDE DEF t
  <2>3. Stands(t)
    BY <2>1, <2>2, IdleFields DEF Stands, Touched, Todo, Done, Whole
  <2>4. Writes(t)
    BY <2>1, <2>2 DEF Writes
  <2> QED BY <1>1, <1>6, <2>1, <2>3, <2>4, Beginning DEF t, e
<1>7. CASE q > rows[i].quantity
  <2> DEFINE e == [edit EXCEPT !.pc = "check", !.take = {i}]
  <2>1. Begin(r, "update", e)
    <3>1. q \in Int /\ rows[i].quantity \in Int
      BY <1>1, RowNumbers, OrderItemsAssumption
    <3> QED BY <1>2, <1>7, <3>1 DEF edit, new
  <2>2. /\ e \in Edit /\ e.item = i /\ e.new = new /\ e.gave = {} /\ e.got = {}
        /\ \A x \in Product : e.took[x] = 0
        /\ e.pc = "check" /\ e.take = {i} /\ e.give = {}
    BY <1>3, <1>4 DEF Edit
  <2> HIDE DEF e
  <2> QED BY <1>5, <2>1, <2>2
<1>8. CASE q < rows[i].quantity
  <2> DEFINE e == [edit EXCEPT !.pc = "give", !.give = {i}]
  <2>1. q \in Int /\ rows[i].quantity \in Int
    BY <1>1, RowNumbers, OrderItemsAssumption
  <2>2. Begin(r, "update", e)
    BY <1>2, <1>8, <2>1 DEF edit, new
  <2>3. /\ e \in Edit /\ e.item = i /\ e.new = new /\ e.gave = {} /\ e.got = {}
        /\ \A x \in Product : e.took[x] = 0
        /\ e.pc = "give" /\ e.give = {i} /\ e.take = {}
    BY <1>3, <1>4 DEF Edit
  <2> HIDE DEF e
  <2> QED BY <1>5, <2>2, <2>3
<1>9. CASE ~(q > rows[i].quantity) /\ ~(q < rows[i].quantity)
  BY <1>2, <1>6, <1>9
<1> QED BY <1>7, <1>8, <1>9

LEMMA RemoveItemKeeps ==
    ASSUME Inv, NEW r \in Request, RemoveItem(r)
    PROVE  Inv'
<1>1. PICK i \in DOMAIN rows :
        Begin(r, "remove", [Idle EXCEPT !.pc = "give", !.item = i, !.give = {i}])
  BY DEF RemoveItem
<1>2. i \in Item /\ i # None /\ status # "cancelled"
  BY SomeRowsFields, IdleFields DEF Inv, Typed, RemoveItem, CanEdit
<1> DEFINE e == [Idle EXCEPT !.pc = "give", !.item = i, !.give = {i}]
           t == Loads("remove", e)
<1>3. /\ e \in Edit /\ e.pc = "give" /\ e.item = i /\ DOMAIN e.new = {}
      /\ e.give = {i} /\ e.gave = {} /\ e.take = {} /\ e.got = {}
      /\ \A x \in Product : e.took[x] = 0
  BY <1>2, IdleFields DEF Edit
<1> HIDE DEF e
<1>4. /\ t \in Edit /\ t.op = "remove" /\ t.loaded = rows /\ t.pc = e.pc
      /\ t.item = e.item /\ t.new = e.new
      /\ t.give = e.give /\ t.gave = e.gave /\ t.take = e.take
      /\ t.got = e.got /\ t.took = e.took
  BY <1>3, LoadsFields DEF Inv
<1> HIDE DEF t
<1>5. Stands(t)
  BY <1>2, <1>3, <1>4, IdleFields DEF Stands, Touched, Todo, Done, Whole
<1>6. Writes(t)
  BY <1>2, <1>3, <1>4 DEF Writes
<1> QED BY <1>1, <1>2, <1>3, <1>5, <1>6, Beginning DEF t, e

LEMMA UpdateAllItemsKeeps ==
    ASSUME Inv, NEW r \in Request, UpdateAllItems(r)
    PROVE  Inv'
<1>1. PICK want \in [Product -> Quantities \cup {0}] :
        LET new == Numbered(last, want)
        IN  Begin(r, "replace", [Idle EXCEPT !.pc = "give", !.give = DOMAIN rows,
                                             !.new = new, !.take = DOMAIN new])
  BY DEF UpdateAllItems
<1> DEFINE new == Numbered(last, want)
           edit == [Idle EXCEPT !.pc = "give", !.give = DOMAIN rows,
                                !.new = new, !.take = DOMAIN new]
           t == Loads("replace", edit)
<1>2. Begin(r, "replace", edit)
  BY <1>1
<1>3. edit.new = new
  BY IdleFields DEF Edit
<1>4. last + Cardinality(DOMAIN new \ DOMAIN rows) <= MaxItems
  BY <1>2, <1>3 DEF Begin
<1>5. /\ new \in SomeRows /\ DOMAIN new \cap DOMAIN rows = {}
      /\ \E k \in Nat : DOMAIN new = last + 1 .. last + k
  BY <1>4, NumberedAfter
<1> HIDE DEF new
<1>6. DOMAIN new \subseteq Item /\ DOMAIN rows \subseteq Item
  BY <1>5, SomeRowsFields DEF Inv, Typed
<1>7. /\ edit \in Edit /\ edit.pc = "give" /\ edit.new = new /\ edit.take = DOMAIN new
      /\ edit.give = DOMAIN rows /\ edit.gave = {} /\ edit.got = {} /\ edit.item = None
      /\ \A x \in Product : edit.took[x] = 0
  BY <1>5, <1>6, IdleFields DEF Edit
<1> HIDE DEF edit
<1>8. /\ t \in Edit /\ t.op = "replace" /\ t.loaded = rows /\ t.pc = edit.pc
      /\ t.item = edit.item /\ t.new = edit.new
      /\ t.give = edit.give /\ t.gave = edit.gave /\ t.take = edit.take
      /\ t.got = edit.got /\ t.took = edit.took
  BY <1>7, LoadsFields DEF Inv
<1> HIDE DEF t
<1>9. Stands(t)
  BY <1>5, <1>7, <1>8, IdleFields DEF Stands, Touched, Todo, Done, Whole
<1>10. Writes(t)
  BY <1>5, <1>7, <1>8 DEF Writes
<1>11. status # "cancelled"
  BY DEF UpdateAllItems, CanEdit
<1> QED BY <1>2, <1>5, <1>7, <1>9, <1>10, <1>11, Beginning DEF t

LEMMA ReturnKeeps ==
    ASSUME Inv, NEW r \in Request, CancelOrder(r) \/ HandlePaymentRefunded(r)
    PROVE  Inv'
<1> DEFINE e == [Idle EXCEPT !.pc = "give", !.give = DOMAIN rows]
           t == Loads("return", e)
<1>1. Begin(r, "return", e) /\ status # "cancelled"
  BY DEF CancelOrder, HandlePaymentRefunded, Return, CanTransitionTo, Transitions, Final, Status
<1>2. DOMAIN rows \subseteq Item
  BY SomeRowsFields DEF Inv, Typed
<1>3. /\ e \in Edit /\ e.pc = "give" /\ e.item = None /\ DOMAIN e.new = {}
      /\ e.give = DOMAIN rows /\ e.gave = {} /\ e.take = {} /\ e.got = {}
      /\ \A x \in Product : e.took[x] = 0
  BY <1>2, IdleFields DEF Edit
<1> HIDE DEF e
<1>4. /\ t \in Edit /\ t.op = "return" /\ t.loaded = rows /\ t.pc = e.pc
      /\ t.item = e.item /\ t.new = e.new
      /\ t.give = e.give /\ t.gave = e.gave /\ t.take = e.take
      /\ t.got = e.got /\ t.took = e.took
  BY <1>3, LoadsFields DEF Inv
<1> HIDE DEF t
<1>5. Stands(t)
  BY <1>3, <1>4, IdleFields DEF Stands, Touched, Todo, Done, Whole
<1>6. Writes(t)
  BY <1>3, <1>4 DEF Writes
<1> QED BY <1>1, <1>3, <1>5, <1>6, Beginning DEF t, e
-----------------------------------------------------------------------------
(* The rows an order is created with.                                      *)
LEMMA OrderedRows ==
    LET f == Numbered(0, Ordered)
        k == Cardinality({p \in Product : Ordered[p] > 0})
    IN  /\ k \in Nat /\ DOMAIN f = 1..k /\ f \in [DOMAIN f -> Row] /\ f \in SomeRows
        /\ \A i \in DOMAIN f : f[i].quantity = Ordered[f[i].product] /\ f[i].quantity > 0
        /\ \A i, j \in DOMAIN f : f[i].product = f[j].product => i = j
        /\ \A p \in Product : Ordered[p] > 0 => \E i \in DOMAIN f : f[i].product = p
<1> DEFINE f == Numbered(0, Ordered)
           k == Cardinality({p \in Product : Ordered[p] > 0})
<1>1. Ordered \in [Product -> Nat] /\ 0 \in Nat
  BY OrderItemsAssumption
<1>2. \A p \in Product : Ordered[p] > 0 =>
          Ordered[p] \in Quantities \cup {Ordered[x] : x \in Product}
  OBVIOUS
<1>3. /\ k \in Nat /\ DOMAIN f = 0 + 1 .. 0 + k
      /\ f \in [DOMAIN f -> Row]
      /\ \A i \in DOMAIN f : f[i].quantity = Ordered[f[i].product] /\ f[i].quantity > 0
      /\ \A i, j \in DOMAIN f : f[i].product = f[j].product => i = j
      /\ \A p \in Product : Ordered[p] > 0 => \E i \in DOMAIN f : f[i].product = p
  <2> HIDE DEF f, k
  <2> QED BY <1>1, <1>2, NumberedRows DEF f, k
<1> HIDE DEF f
<1>4. 0 + 1 .. 0 + k = 1..k /\ k <= MaxItems
  BY <1>3, OrderItemsAssumption
<1> HIDE DEF k
<1>5. DOMAIN f \subseteq Item
  BY <1>3, <1>4, OrderItemsAssumption DEF Item
<1>6. f \in SomeRows
  BY <1>3, <1>5, SomeRowsFields
<1> QED BY <1>3, <1>4, <1>6 DEF f, k

(* Steps that move nothing for a request and write no row.                 *)
LEMMA Outside ==
    ASSUME Inv, Typed', UNCHANGED <<rows, returned, last, self, lost>>,
           contended => contended', contended' \/ status' = status,
           contended' \/ lost
           \/ \A p \in Product : held'[p] + Awaited(p)' = held[p] + Awaited(p)
    PROVE  Inv'
<1>1. Requests' /\ Fresh'
  BY DEF Inv, Requests, Fresh, New, Inserts
<1>2. Alone'
  BY DEF Inv, Alone, Apart, AsLoaded, Ended, Overlaps
<1>3. BooksBalance'
  BY DEF Inv, BooksBalance, Listed, Pieces, Owned
<1> QED BY <1>1, <1>2, <1>3 DEF Inv

LEMMA ReserveKeeps ==
    ASSUME Inv, Reserve
    PROVE  Inv'
<1>1. UNCHANGED <<rows, total, status, returned, last, self, setting, contended, lost, faults>>
  BY DEF Reserve, order, past
<1>2. /\ stock' \in [Product -> Nat] /\ held' \in [Product -> Int]
      /\ reserved' \in {"asked", "taken", "refused"}
  BY OrderItemsAssumption DEF Inv, Typed, Reserve, Enough, shelf
<1>3. \A p \in Product : held'[p] + Awaited(p)' = held[p] + Awaited(p)
  BY OrderItemsAssumption DEF Inv, Typed, Reserve, Awaited, shelf
<1>4. Typed'
  BY <1>1, <1>2 DEF Inv, Typed
<1> QED BY <1>1, <1>3, <1>4, Outside

LEMMA BuyKeeps ==
    ASSUME Inv, NEW p \in Product, Buy(p)
    PROVE  Inv'
<1>1. UNCHANGED <<rows, total, status, returned, last, held, reserved, setting, self,
                  contended, lost, faults>>
  BY DEF Buy, order, around, past
<1>2. stock' \in [Product -> Nat]
  BY DEF Buy, Enough, Inv, Typed
<1>3. Typed'
  BY <1>1, <1>2 DEF Inv, Typed
<1> QED BY <1>1, <1>3, Outside DEF Awaited

LEMMA SetsKeeps ==
    ASSUME Inv, NEW r \in Request, UpdateOrder(r) \/ HandleReserved(r)
    PROVE  Inv'
<1>1. Numbered(0, Ordered) \in SomeRows
  BY OrderedRows
<1>2. PICK goal \in Status, before \in Nat, sum \in Nat : Sets(r, goal, before, sum)
  BY <1>1, TotalIsNumber DEF UpdateOrder, HandleReserved, Inv, Typed, Status
<1>3. UNCHANGED <<rows, total, status, returned, last, stock, held, reserved, self,
                  contended, lost, faults>>
  BY <1>2 DEF Sets, order, shelf, past
<1>4. setting' \in [Request -> Setting]
  BY <1>2 DEF Sets, Setting, Inv, Typed
<1>5. Typed'
  BY <1>3, <1>4 DEF Inv, Typed
<1> QED BY <1>3, <1>5, Outside DEF Awaited

LEMMA CommitStatusKeeps ==
    ASSUME Inv, NEW r \in Request, CommitStatus(r)
    PROVE  Inv'
<1>1. /\ UNCHANGED <<rows, returned, last, stock, held, reserved, self, lost, faults>>
      /\ contended' = (contended \/ returned)
  BY DEF CommitStatus, shelf
<1>2. setting[r] \in Setting
  BY DEF Inv, Typed
<1>3. status' \in Status /\ total' \in Nat /\ contended' \in BOOLEAN
      /\ setting' \in [Request -> Setting]
  BY <1>2 DEF CommitStatus, Totalled, Inv, Typed, Setting, NoSetting
<1>4. Typed'
  BY <1>1, <1>3 DEF Inv, Typed
<1>5. Requests' /\ Fresh'
  BY <1>1 DEF Inv, Requests, Fresh, New, Inserts
<1>6. Alone'
  BY <1>1 DEF Inv, Alone, Apart, AsLoaded, Ended, Overlaps
<1>7. BooksBalance'
  BY <1>1 DEF Inv, BooksBalance, Listed, Pieces, Owned, Awaited
<1> QED BY <1>4, <1>5, <1>6, <1>7 DEF Inv

LEMMA StutterKeeps ==
    ASSUME Inv, UNCHANGED vars
    PROVE  Inv'
<1>1. UNCHANGED <<rows, total, status, returned, last, stock, held, reserved, setting, self,
                  contended, lost, faults>>
  BY DEF vars, order, shelf, around, past
<1>2. Typed'
  BY <1>1 DEF Inv, Typed
<1> QED BY <1>1, <1>2, Outside DEF Awaited

LEMMA InitInv == Init => Inv
<1> SUFFICES ASSUME Init PROVE Inv
  OBVIOUS
<1> DEFINE k == Cardinality({p \in Product : Ordered[p] > 0})
<1>1. /\ k \in Nat /\ DOMAIN rows = 1..k /\ rows \in [DOMAIN rows -> Row]
      /\ \A i \in DOMAIN rows : rows[i].quantity = Ordered[rows[i].product] /\ rows[i].quantity > 0
      /\ \A i, j \in DOMAIN rows : rows[i].product = rows[j].product => i = j
      /\ \A p \in Product : Ordered[p] > 0 => \E i \in DOMAIN rows : rows[i].product = p
  <2>1. rows = Numbered(0, Ordered)
    BY DEF Init
  <2> QED BY <2>1, OrderedRows
<1>2. k <= MaxItems
  BY OrderItemsAssumption
<1> HIDE DEF k
<1>3. last = k
  <2>1. Cardinality(1..k) = k
    <3>1. 1 \in Int /\ k \in Int
      BY <1>1
    <3>2. Cardinality(1..k) = IF 1 > k THEN 0 ELSE k - 1 + 1
      BY <3>1, FS_Interval
    <3> QED BY <1>1, <3>2
  <2> QED BY <1>1, <2>1 DEF Init
<1>4. rows \in SomeRows
  <2>1. DOMAIN rows \subseteq Item
    BY <1>1, <1>2, OrderItemsAssumption DEF Item
  <2> QED BY <1>1, <2>1, SomeRowsFields
<1>5. total \in Nat
  BY <1>4, TotalIsNumber DEF Init
<1>6. Typed
  <2>1. last \in 0..MaxItems /\ DOMAIN rows \subseteq 1..last
    BY <1>1, <1>2, <1>3, OrderItemsAssumption
  <2>2. stock \in [Product -> Nat] /\ held \in [Product -> Int]
    BY OrderItemsAssumption DEF Init
  <2>3. returned \in BOOLEAN /\ contended \in BOOLEAN /\ lost \in BOOLEAN
    BY Zenon DEF Init
  <2>5. status \in Status /\ reserved \in {"asked", "taken", "refused"}
    BY DEF Init, Status
  <2>6. setting \in [Request -> Setting]
    BY DEF Init, Setting, NoSetting
  <2>4. faults \in 0..MaxFaults
    BY OrderItemsAssumption DEF Init
  <2> QED BY <1>4, <1>5, <2>1, <2>2, <2>3, <2>4, <2>5, <2>6 DEF Typed
<1>7. DOMAIN self = Request /\ \A r \in Request : self[r] = Idle
  BY DEF Init
<1>8. Requests /\ Fresh /\ Alone
  <2>1. self = [r \in Request |-> self[r]]
    BY DEF Init
  <2>2. Requests
    BY <1>7, <2>1, IdleBegun DEF Requests
  <2>3. \A r \in Request : New(r) = {}
    BY <1>7, IdleFields DEF New, Inserts
  <2>4. Fresh
    BY <2>3 DEF Fresh
  <2>5. Apart
    BY <1>7 DEF Apart
  <2>6. \A r \in Request : AsLoaded(r)
    BY <1>7, IdleFields DEF AsLoaded, Whole
  <2>7. \A r \in Request : Ended(r)
    BY Zenon DEF Ended, Init
  <2> QED BY <2>2, <2>4, <2>5, <2>6, <2>7 DEF Alone
<1>9. ASSUME NEW p \in Product PROVE Ordered[p] = Listed(rows, p)
  <2> DEFINE g == [i \in Item |-> Pieces(rows, i, p)]
  <2>1. g \in [Item -> Int]
    BY <1>4, PiecesAreNumbers
  <2>2. Ordered[p] \in Nat /\ DOMAIN rows \subseteq Item
    BY <1>4, SomeRowsFields, OrderItemsAssumption DEF Init
  <2>3. CASE Ordered[p] > 0
    <3>1. PICK a \in DOMAIN rows : rows[a].product = p
      BY <1>1, <2>3
    <3>2. a \in Item /\ g[a] = Ordered[p] /\ \A i \in Item : i # a => g[i] = 0
      BY <1>1, <2>2, <3>1 DEF Pieces
    <3> HIDE DEF g
    <3>3. SumFunctionOnSet(g, Item) = g[a]
      BY <2>1, <3>2, Finite, SumAtOnePoint
    <3>4. SumFunction(g) = Ordered[p]
      BY <2>1, <3>2, <3>3, SumWhole
    <3> QED BY <2>2, <3>4 DEF Listed, g
  <2>4. CASE ~(Ordered[p] > 0)
    <3>1. \A i \in Item : g[i] = 0
      BY <1>1, <2>2, <2>4 DEF Pieces
    <3> HIDE DEF g
    <3>2. SumFunctionOnSet(g, Item) = 0
      BY <2>1, <3>1, Finite, IdleFields, SumAtOnePoint
    <3>3. SumFunction(g) = 0
      BY <2>1, <3>2, SumWhole
    <3> QED BY <2>2, <2>4, <3>3 DEF Listed, g
  <2> QED BY <2>3, <2>4
<1>10. BooksBalance
  <2> SUFFICES ASSUME NEW p \in Product
               PROVE  held[p] + Awaited(p) = Listed(Owned, p) + SumFunction([r \in Request |-> self[r].took[p]])
    BY DEF BooksBalance
  <2> DEFINE g == [r \in Request |-> self[r].took[p]]
  <2>1. g \in [Request -> Int] /\ \A r \in Request : g[r] = 0
    BY <1>7, IdleFields
  <2> HIDE DEF g
  <2>2. SumFunctionOnSet(g, Request) = 0
    <3>1. CASE Request = {}
      BY <2>1, <3>1, Finite, SumAtOnePoint
    <3>2. CASE Request # {}
      <4>1. PICK a \in Request : TRUE
        BY <3>2
      <4> QED BY <2>1, <4>1, Finite, SumAtOnePoint
    <3> QED BY <3>1, <3>2
  <2>3. SumFunction(g) = 0
    BY <2>1, <2>2, SumWhole
  <2>4. Listed(rows, p) \in Int /\ Owned = rows /\ held[p] = 0 /\ Awaited(p) = Ordered[p]
    BY <1>4, PiecesAreNumbers DEF Init, Owned, Awaited
  <2> QED BY <1>9, <2>3, <2>4 DEF g
<1> QED BY <1>6, <1>8, <1>10 DEF Inv

LEMMA NextInv == Inv /\ [Next]_vars => Inv'
<1> SUFFICES ASSUME Inv, [Next]_vars PROVE Inv'
  OBVIOUS
<1>1. ASSUME NEW r \in Request,
             \/ AddItem(r) \/ UpdateItem(r) \/ RemoveItem(r) \/ UpdateAllItems(r)
             \/ Give(r) \/ Check(r) \/ Take(r) \/ Sum(r) \/ Commit(r)
             \/ Undo(r) \/ CallFails(r) \/ CommitFails(r) \/ Die(r)
             \/ CancelOrder(r) \/ HandlePaymentRefunded(r)
             \/ UpdateOrder(r) \/ HandleReserved(r) \/ CommitStatus(r)
      PROVE  Inv'
  BY <1>1, AddItemKeeps, UpdateItemKeeps, RemoveItemKeeps, UpdateAllItemsKeeps, GiveKeeps,
     CheckKeeps, TakeKeeps, SumKeeps, CommitKeeps, UndoKeeps, CallFailsKeeps,
     CommitFailsKeeps, DieKeeps, ReturnKeeps, SetsKeeps, CommitStatusKeeps
<1> QED BY <1>1, ReserveKeeps, BuyKeeps, StutterKeeps DEF Next

LEMMA Invariance == Spec => []Inv
  BY InitInv, NextInv, PTL DEF Spec

(* Rows, requests and amounts have their types in every state.             *)
THEOREM OrderItemsTyped == Spec => []TypeOK
<1>1. Inv => TypeOK
  BY DEF Inv, Typed, Requests, Begun, TypeOK
<1> QED BY <1>1, Invariance, PTL

(* What the catalog took for the order, or will when it answers the        *)
(* reservation, is what its rows list and what the edits and returns under *)
(* way have moved, and nothing once its items went back, unless two uses   *)
(* of an item overlapped, a status was written over a cancellation, or     *)
(* stock was lost on a path that has no way to give it back.               *)
THEOREM BooksAlwaysBalance == Spec => []BooksBalance
<1>1. Inv => BooksBalance
  BY DEF Inv
<1> QED BY <1>1, Invariance, PTL
-----------------------------------------------------------------------------
(* The cached views of the orders those edits leave (OrderCache), for any  *)
(* lines, sellers, requests and readers.                                   *)
CONSTANTS Line, Seller, SellerOf, First, Reader, MaxChanges
VARIABLES placed, used, req, key, entry, reader, kept, changes

Views == INSTANCE OrderCache WITH Item <- Line, order <- placed

Kind == {"create", "status", "add", "update", "remove", "replace"}
Handler ==
    [pc : {"idle", "find", "commit", "delete", "lists"}, kind : Kind \cup {None},
     loaded : Views!SomeItems \cup {None}, item : Line \cup {None}, was : Quantities \cup {None},
     quantity : Quantities \cup {None}, status : Views!Status \cup {None}, new : Views!SomeItems,
     delete : SUBSET Views!Key]

HandlersTyped ==
    /\ placed \in Views!Order \cup {None}
    /\ placed # None => DOMAIN placed.items \subseteq used
    /\ used \subseteq Line /\ key \in Views!Key /\ changes \in 0..MaxChanges
    /\ req \in [Request -> Handler]

(* What a handler q that is about to commit has computed, and from what.   *)
Computed(q, items) == q.delete = Views!KeysOf(items \cup DOMAIN q.loaded) \cap {key}

Knows(q) ==
    /\ q.pc = "idle" => q = Views!Idle
    /\ q.pc = "find" => /\ placed # None /\ q.loaded \in Views!SomeItems
                        /\ q.kind \in {"update", "remove"} /\ DOMAIN q.new = {}
                        /\ q.kind = "update" => q.quantity \in Quantities
    /\ q.pc = "commit" =>
          /\ q.kind \in Kind /\ DOMAIN q.new \subseteq used
          /\ q.kind = "create" => /\ placed = None /\ used # {}
                                  /\ q.delete = Views!Lists \cap Views!KeysOf(DOMAIN q.new) \cap {key}
          /\ q.kind # "create" => placed # None /\ q.loaded \in Views!SomeItems
          /\ q.kind = "status" => q.status \in Views!Status /\ Computed(q, {})
          /\ q.kind = "add" => q.item \in used /\ q.quantity \in Quantities /\ Computed(q, {q.item})
          /\ q.kind = "update" => q.item \in Line /\ q.quantity \in Quantities /\ Computed(q, {})
          /\ q.kind = "remove" => q.item \in Line /\ Computed(q, {q.item})
          /\ q.kind = "replace" => Computed(q, DOMAIN q.new)

Creating(r) == req[r].pc = "commit" /\ req[r].kind = "create"
OneCreates == \A r, s \in Request : Creating(r) /\ Creating(s) => r = s

HandlersInv ==
    Views!OrderCacheAssumption /\ HandlersTyped /\ (\A r \in Request : Knows(req[r])) /\ OneCreates
-----------------------------------------------------------------------------
LEMMA IdleHandler ==
    Views!Idle \in Handler /\ Views!Idle.pc = "idle" /\ Views!Idle.delete = {}
        /\ Views!NoItems \in Views!SomeItems
<1>1. Views!NoItems \in [{} -> Quantities]
  BY DEF Views!NoItems
<1>2. Views!NoItems \in Views!SomeItems
  BY <1>1 DEF Views!SomeItems
<1> QED BY <1>2 DEF Views!Idle, Handler

LEMMA ItemsFit ==
    ASSUME NEW items
    PROVE  /\ items \in Views!SomeItems => DOMAIN items \subseteq Line
                  /\ items \in [DOMAIN items -> Quantities]
           /\ DOMAIN items \subseteq Line /\ items \in [DOMAIN items -> Quantities]
                  => items \in Views!SomeItems
<1>1. ASSUME items \in Views!SomeItems
      PROVE  DOMAIN items \subseteq Line /\ items \in [DOMAIN items -> Quantities]
  <2>1. PICK S \in SUBSET Line : items \in [S -> Quantities]
    BY <1>1 DEF Views!SomeItems
  <2> QED BY <2>1
<1>2. ASSUME DOMAIN items \subseteq Line, items \in [DOMAIN items -> Quantities]
      PROVE  items \in Views!SomeItems
  BY <1>2 DEF Views!SomeItems
<1> QED BY <1>1, <1>2

LEMMA ListsAreKeys ==
    HandlersInv =>
        Views!Lists \subseteq Views!Key /\ \A S \in SUBSET Line : Views!KeysOf(S) \subseteq Views!Key
BY DEF HandlersInv, Views!Lists, Views!Key, Views!KeysOf

LEMMA InitHandlers == Views!OrderCacheAssumption /\ Views!Init => HandlersInv
<1> SUFFICES ASSUME Views!OrderCacheAssumption, Views!Init PROVE HandlersInv
  OBVIOUS
<1>1. HandlersTyped
  <2>1. placed \in Views!Order \cup {None} /\ (placed # None => placed \in Views!Order)
    BY Views!OrderCacheAssumption DEF Views!Init
  <2>2. placed \in Views!Order => placed.items \in Views!SomeItems
    BY DEF Views!Order
  <2>3. placed # None => used = DOMAIN placed.items /\ DOMAIN placed.items \subseteq Line
    BY <2>1, <2>2, ItemsFit DEF Views!Init
  <2> QED BY <2>1, <2>3, IdleHandler, Views!OrderCacheAssumption DEF Views!Init, HandlersTyped
<1>2. \A r \in Request : req[r] = Views!Idle
  BY DEF Views!Init
<1> QED BY <1>1, <1>2, IdleHandler DEF HandlersInv, Knows, OneCreates, Creating

(* One handler moves to q, the others and the order stay; identifiers may  *)
(* be taken.                                                               *)
LEMMA HandlerMoves ==
    ASSUME HandlersInv, NEW r \in Request, NEW q \in Handler, req' = [req EXCEPT ![r] = q],
           UNCHANGED <<placed, key, changes>>, used \subseteq used', used' \subseteq Line,
           Knows(q)',
           q.pc = "commit" /\ q.kind = "create" => \A s \in Request : ~Creating(s)
    PROVE  HandlersInv'
<1>1. HandlersTyped'
  BY DEF HandlersInv, HandlersTyped
<1>2. req'[r] = q /\ \A s \in Request : s # r => req'[s] = req[s]
  BY DEF HandlersInv, HandlersTyped
<1>3. ASSUME NEW s \in Request PROVE Knows(req[s])'
  <2>1. CASE s = r
    BY <1>2, <2>1 DEF Knows, Computed
  <2>2. CASE s # r
    <3>1. req'[s] = req[s] /\ Knows(req[s]) /\ req[s] \in Handler
      BY <1>2, <2>2 DEF HandlersInv, HandlersTyped
    <3> QED BY <3>1 DEF Knows, Computed
  <2> QED BY <2>1, <2>2
<1>4. OneCreates'
  BY <1>2 DEF HandlersInv, OneCreates, Creating
<1> QED BY <1>1, <1>3, <1>4 DEF HandlersInv

(* What a request asks for, before it begins.                              *)
LEMMA AskedFits ==
    /\ \A new \in Views!SomeItems : [Views!Idle EXCEPT !.new = new] \in Handler
                              /\ [Views!Idle EXCEPT !.new = new].new = new
    /\ \A s \in Views!Status : [Views!Idle EXCEPT !.status = s] \in Handler
                         /\ [Views!Idle EXCEPT !.status = s].status = s
                         /\ [Views!Idle EXCEPT !.status = s].new = Views!NoItems
    /\ \A q \in Quantities : [Views!Idle EXCEPT !.quantity = q] \in Handler
                             /\ [Views!Idle EXCEPT !.quantity = q].quantity = q
                             /\ [Views!Idle EXCEPT !.quantity = q].new = Views!NoItems
    /\ \A i \in Line, q \in Quantities :
          LET w == [Views!Idle EXCEPT !.item = i, !.quantity = q]
          IN  w \in Handler /\ w.item = i /\ w.quantity = q /\ w.new = Views!NoItems
    /\ DOMAIN Views!NoItems = {}
BY IdleHandler DEF Views!Idle, Handler, Views!NoItems

LEMMA CreateStep ==
    ASSUME HandlersInv, NEW r \in Request, Views!CreateOrder(r)
    PROVE  HandlersInv'
<1>1. PICK new \in Views!SomeItems :
          /\ placed = None /\ used = {} /\ Views!Fresh(new) /\ Views!Takes(DOMAIN new)
          /\ Views!Begin(r, "commit", "create", None, Views!Lists \cap Views!KeysOf(DOMAIN new),
                 [Views!Idle EXCEPT !.new = new])
  BY DEF Views!CreateOrder
<1>2. DOMAIN new \subseteq Line /\ DOMAIN new # {}
      /\ Views!Lists \cap Views!KeysOf(DOMAIN new) \in SUBSET Views!Key
  <2>1. DOMAIN new \subseteq Line /\ new \in [DOMAIN new -> Quantities]
    BY ItemsFit
  <2>2. DOMAIN new = {} => new = Views!NoItems
    BY <2>1 DEF Views!NoItems
  <2> QED BY <1>1, <2>1, <2>2, ListsAreKeys DEF Views!Fresh
<1>3. PICK q \in Handler :
          /\ q.pc = "commit" /\ q.kind = "create" /\ q.new = new
          /\ q.delete = Views!Lists \cap Views!KeysOf(DOMAIN new) \cap {key}
          /\ req' = [req EXCEPT ![r] = q] /\ UNCHANGED <<placed, key, changes>>
  <2> DEFINE keys == Views!Lists \cap Views!KeysOf(DOMAIN new)
             w == [Views!Idle EXCEPT !.new = new]
             q == [w EXCEPT !.pc = "commit", !.kind = "create", !.loaded = None,
                            !.delete = keys \cap {key}]
  <2>1. w \in Handler /\ w.new = new
    BY AskedFits
  <2>2. keys \in SUBSET Views!Key
    BY <1>2
  <2>3. req' = [req EXCEPT ![r] = q] /\ UNCHANGED <<placed, key, changes>>
    BY <1>1 DEF Views!Begin
  <2> HIDE DEF w, keys
  <2>4. /\ q \in Handler /\ q.pc = "commit" /\ q.kind = "create" /\ q.new = w.new
        /\ q.delete = keys \cap {key}
    BY <2>1, <2>2 DEF Handler, Kind
  <2> HIDE DEF q
  <2> QED BY <2>1, <2>3, <2>4 DEF keys
<1>4. \A s \in Request : ~Creating(s)
  BY <1>1 DEF HandlersInv, Knows, Creating
<1>5. used \subseteq used' /\ used' \subseteq Line /\ used' # {} /\ DOMAIN new \subseteq used'
  BY <1>1, <1>2 DEF Views!Takes
<1>6. Knows(q)'
  BY <1>1, <1>3, <1>5 DEF Knows, Kind
<1> QED BY <1>3, <1>4, <1>5, <1>6, HandlerMoves

LEMMA SetStatusStep ==
    ASSUME HandlersInv, NEW r \in Request, Views!SetStatus(r)
    PROVE  HandlersInv'
<1>1. placed # None /\ placed.items \in Views!SomeItems /\ DOMAIN placed.items \subseteq Line
      /\ placed.status \in Views!Status
  BY ItemsFit DEF Views!SetStatus, HandlersInv, HandlersTyped, Views!Order
<1>2. PICK s \in Views!Transitions[placed.status] :
          Views!Begin(r, "commit", "status", placed.items, Views!KeysOf(DOMAIN placed.items),
          [Views!Idle EXCEPT !.status = s])
          /\ used' = used
  BY DEF Views!SetStatus
<1>3. s \in Views!Status
  BY <1>1 DEF Views!Transitions, Views!Status, Views!Final
<1>4. PICK q \in Handler :
          /\ q.pc = "commit" /\ q.kind = "status" /\ q.new = Views!NoItems /\ q.status = s
          /\ q.loaded = placed.items /\ q.delete = Views!KeysOf(DOMAIN placed.items) \cap {key}
          /\ req' = [req EXCEPT ![r] = q] /\ UNCHANGED <<placed, key, changes>>
  <2> DEFINE keys == Views!KeysOf(DOMAIN placed.items)
             w == [Views!Idle EXCEPT !.status = s]
             q == [w EXCEPT !.pc = "commit", !.kind = "status", !.loaded = placed.items,
                            !.delete = keys \cap {key}]
  <2>1. w \in Handler /\ w.new = Views!NoItems /\ w.status = s
    BY <1>3, AskedFits
  <2>2. keys \in SUBSET Views!Key
    BY <1>1, ListsAreKeys
  <2>3. req' = [req EXCEPT ![r] = q] /\ UNCHANGED <<placed, key, changes>>
    BY <1>2 DEF Views!Begin
  <2> HIDE DEF w, keys
  <2>4. /\ q \in Handler /\ q.pc = "commit" /\ q.kind = "status" /\ q.loaded = placed.items
        /\ q.new = w.new /\ q.status = w.status /\ q.delete = keys \cap {key}
    BY <1>1, <2>1, <2>2 DEF Handler, Kind
  <2> HIDE DEF q
  <2> QED BY <2>1, <2>3, <2>4 DEF keys
<1>5. Knows(q)'
  BY <1>1, <1>2, <1>3, <1>4, AskedFits DEF Knows, Computed, Kind
<1> QED BY <1>2, <1>4, <1>5, HandlerMoves DEF HandlersInv, HandlersTyped

(* The order an edit is checked against.                                   *)
LEMMA OrderFits ==
    ASSUME HandlersInv, placed # None
    PROVE  /\ placed \in Views!Order /\ placed.status \in Views!Status
                  /\ placed.items \in Views!SomeItems
           /\ DOMAIN placed.items \subseteq Line /\ DOMAIN placed.items \subseteq used
           /\ used \subseteq Line
BY ItemsFit DEF HandlersInv, HandlersTyped, Views!Order

LEMMA AddItemStep ==
    ASSUME HandlersInv, NEW r \in Request, Views!AddItem(r)
    PROVE  HandlersInv'
<1>1. PICK i \in Line \ used, n \in Quantities :
          /\ placed # None /\ used' = used \cup {i}
          /\ Views!Begin(r, "commit", "add", placed.items, Views!KeysOf({i} \cup DOMAIN placed.items),
                   [Views!Idle EXCEPT !.item = i, !.quantity = n])
  BY DEF Views!AddItem, Views!CanEdit, Views!Takes
<1>2. PICK q \in Handler :
          /\ q.pc = "commit" /\ q.kind = "add" /\ q.new = Views!NoItems /\ q.item = i /\ q.quantity = n
          /\ q.loaded = placed.items /\ q.delete = Views!KeysOf({i} \cup DOMAIN placed.items) \cap {key}
          /\ req' = [req EXCEPT ![r] = q] /\ UNCHANGED <<placed, key, changes>>
  <2> DEFINE keys == Views!KeysOf({i} \cup DOMAIN placed.items)
             w == [Views!Idle EXCEPT !.item = i, !.quantity = n]
             q == [w EXCEPT !.pc = "commit", !.kind = "add", !.loaded = placed.items,
                            !.delete = keys \cap {key}]
  <2>1. w \in Handler /\ w.new = Views!NoItems /\ w.item = i /\ w.quantity = n
    BY <1>1, AskedFits
  <2>2. keys \in SUBSET Views!Key /\ placed.items \in Views!SomeItems
    <3>1. {i} \cup DOMAIN placed.items \in SUBSET Line
      BY <1>1, OrderFits
    <3> QED BY <1>1, <3>1, OrderFits, ListsAreKeys
  <2>3. req' = [req EXCEPT ![r] = q] /\ UNCHANGED <<placed, key, changes>>
    BY <1>1 DEF Views!Begin
  <2> HIDE DEF w, keys
  <2>4. /\ q \in Handler /\ q.pc = "commit" /\ q.kind = "add" /\ q.loaded = placed.items
        /\ q.new = w.new /\ q.item = w.item /\ q.quantity = w.quantity /\ q.delete = keys \cap {key}
    BY <2>1, <2>2 DEF Handler, Kind
  <2> HIDE DEF q
  <2> QED BY <2>1, <2>3, <2>4 DEF keys
<1>3. Knows(q)'
  BY <1>1, <1>2, AskedFits, OrderFits DEF Knows, Computed, Kind
<1>4. used \subseteq used' /\ used' \subseteq Line
  BY <1>1, OrderFits
<1> QED BY <1>2, <1>3, <1>4, HandlerMoves

LEMMA LookupStep ==
    ASSUME HandlersInv, NEW r \in Request, Views!UpdateItem(r) \/ Views!RemoveItem(r)
    PROVE  HandlersInv'
<1>1. PICK kind \in {"update", "remove"} : \E w \in Handler :
          /\ placed # None /\ used' = used /\ w.new = Views!NoItems
          /\ kind = "update" => w.quantity \in Quantities
          /\ Views!Begin(r, "find", kind, placed.items, {}, w)
  <2>1. ASSUME NEW n \in Quantities, Views!CanEdit, used' = used,
               Views!Begin(r, "find", "update", placed.items, {}, [Views!Idle EXCEPT !.quantity = n])
        PROVE  \E w \in Handler :
                  /\ placed # None /\ used' = used /\ w.new = Views!NoItems /\ w.quantity \in Quantities
                  /\ Views!Begin(r, "find", "update", placed.items, {}, w)
    <3> DEFINE w == [Views!Idle EXCEPT !.quantity = n]
    <3>1. w \in Handler /\ w.new = Views!NoItems /\ w.quantity = n
      BY AskedFits
    <3>2. Views!Begin(r, "find", "update", placed.items, {}, w)
      BY <2>1
    <3> HIDE DEF w
    <3> QED BY <2>1, <3>1, <3>2 DEF Views!CanEdit
  <2>2. Views!Idle.new = Views!NoItems
    BY DEF Views!Idle
  <2>3. Views!RemoveItem(r) => placed # None /\ Views!Begin(r, "find", "remove", placed.items,
        {}, Views!Idle) /\ used' = used
    BY DEF Views!RemoveItem, Views!CanEdit
  <2>4. CASE Views!RemoveItem(r)
    BY <2>2, <2>3, <2>4, IdleHandler
  <2>5. CASE Views!UpdateItem(r)
    BY <2>1, <2>5 DEF Views!UpdateItem
  <2> QED BY <2>4, <2>5
<1>2. PICK w \in Handler :
          /\ placed # None /\ used' = used /\ w.new = Views!NoItems
          /\ kind = "update" => w.quantity \in Quantities
          /\ Views!Begin(r, "find", kind, placed.items, {}, w)
  BY <1>1
<1>3. PICK q \in Handler :
          /\ q.pc = "find" /\ q.kind = kind /\ q.new = Views!NoItems /\ q.quantity = w.quantity
          /\ q.loaded = placed.items
          /\ req' = [req EXCEPT ![r] = q] /\ UNCHANGED <<placed, key, changes>>
  <2> DEFINE q == [w EXCEPT !.pc = "find", !.kind = kind, !.loaded = placed.items,
                            !.delete = {} \cap {key}]
  <2>1. req' = [req EXCEPT ![r] = q] /\ UNCHANGED <<placed, key, changes>>
    BY <1>2 DEF Views!Begin
  <2>2. placed.items \in Views!SomeItems
    BY <1>2, OrderFits
  <2>3. /\ q \in Handler /\ q.pc = "find" /\ q.kind = kind /\ q.loaded = placed.items
        /\ q.new = w.new /\ q.quantity = w.quantity
    BY <2>2 DEF Handler, Kind
  <2> HIDE DEF q
  <2> QED BY <1>2, <2>1, <2>3
<1>4. Knows(q)'
  BY <1>2, <1>3, AskedFits, OrderFits DEF Knows
<1> QED BY <1>2, <1>3, <1>4, HandlerMoves DEF HandlersInv, HandlersTyped

LEMMA UpdateAllItemsStep ==
    ASSUME HandlersInv, NEW r \in Request, Views!UpdateAllItems(r)
    PROVE  HandlersInv'
<1>1. PICK new \in Views!SomeItems :
          /\ placed # None /\ used' = used \cup DOMAIN new
          /\ Views!Begin(r, "commit", "replace", placed.items,
                 Views!KeysOf(DOMAIN new \cup DOMAIN placed.items),
                   [Views!Idle EXCEPT !.new = new])
  BY DEF Views!UpdateAllItems, Views!CanEdit, Views!Takes
<1>2. DOMAIN new \subseteq Line /\ DOMAIN new \cup DOMAIN placed.items \in SUBSET Line
  BY <1>1, ItemsFit, OrderFits
<1>3. PICK q \in Handler :
          /\ q.pc = "commit" /\ q.kind = "replace" /\ q.new = new
          /\ q.loaded = placed.items
                 /\ q.delete = Views!KeysOf(DOMAIN new \cup DOMAIN placed.items) \cap {key}
          /\ req' = [req EXCEPT ![r] = q] /\ UNCHANGED <<placed, key, changes>>
  <2> DEFINE keys == Views!KeysOf(DOMAIN new \cup DOMAIN placed.items)
             w == [Views!Idle EXCEPT !.new = new]
             q == [w EXCEPT !.pc = "commit", !.kind = "replace", !.loaded = placed.items,
                            !.delete = keys \cap {key}]
  <2>1. w \in Handler /\ w.new = new
    BY AskedFits
  <2>2. keys \in SUBSET Views!Key /\ placed.items \in Views!SomeItems
    BY <1>1, <1>2, OrderFits, ListsAreKeys
  <2>3. req' = [req EXCEPT ![r] = q] /\ UNCHANGED <<placed, key, changes>>
    BY <1>1 DEF Views!Begin
  <2> HIDE DEF w, keys
  <2>4. /\ q \in Handler /\ q.pc = "commit" /\ q.kind = "replace" /\ q.loaded = placed.items
        /\ q.new = w.new /\ q.delete = keys \cap {key}
    BY <2>1, <2>2 DEF Handler, Kind
  <2> HIDE DEF q
  <2> QED BY <2>1, <2>3, <2>4 DEF keys
<1>4. Knows(q)'
  BY <1>1, <1>2, <1>3, OrderFits DEF Knows, Computed, Kind
<1>5. used \subseteq used' /\ used' \subseteq Line
  BY <1>1, <1>2, OrderFits
<1> QED BY <1>3, <1>4, <1>5, HandlerMoves

LEMMA FindStep ==
    ASSUME HandlersInv, NEW r \in Request, Views!Find(r)
    PROVE  HandlersInv' /\ placed # None
<1> DEFINE h == req[r]
           items == h.loaded
<1>1. /\ h \in Handler /\ h.pc = "find" /\ placed # None /\ items \in Views!SomeItems
      /\ h.kind \in {"update", "remove"} /\ DOMAIN h.new = {}
      /\ h.kind = "update" => h.quantity \in Quantities
  BY DEF Views!Find, HandlersInv, HandlersTyped, Knows
<1>2. PICK i \in DOMAIN placed.items :
          /\ req' = [req EXCEPT ![r] =
                [h EXCEPT !.pc = "commit", !.item = i,
                          !.was = IF i \in DOMAIN items THEN items[i] ELSE placed.items[i],
                          !.delete = {key} \cap Views!KeysOf(DOMAIN items \cup
                                            IF h.kind = "remove" THEN {i} ELSE {})]]
          /\ UNCHANGED <<placed, used, key, changes>>
  BY DEF Views!Find
<1>3. DOMAIN items \subseteq Line /\ i \in Line
      /\ items \in [DOMAIN items -> Quantities] /\ placed.items \in [DOMAIN placed.items -> Quantities]
  BY <1>1, <1>2, OrderFits, ItemsFit
<1>4. PICK q \in Handler :
          /\ q.pc = "commit" /\ q.kind = h.kind /\ q.new = h.new /\ q.quantity = h.quantity
          /\ q.loaded = items /\ q.item = i
          /\ q.delete = {key} \cap Views!KeysOf(DOMAIN items \cup IF h.kind = "remove" THEN {i} ELSE {})
          /\ req' = [req EXCEPT ![r] = q]
  <2> DEFINE was == IF i \in DOMAIN items THEN items[i] ELSE placed.items[i]
             keys == Views!KeysOf(DOMAIN items \cup IF h.kind = "remove" THEN {i} ELSE {})
             q == [h EXCEPT !.pc = "commit", !.item = i, !.was = was, !.delete = {key} \cap keys]
  <2>1. was \in Quantities
    BY <1>2, <1>3
  <2>2. keys \in SUBSET Views!Key
    <3>1. DOMAIN items \cup (IF h.kind = "remove" THEN {i} ELSE {}) \in SUBSET Line
      BY <1>3
    <3> QED BY <3>1, ListsAreKeys
  <2>3. req' = [req EXCEPT ![r] = q]
    BY <1>2
  <2> HIDE DEF was, keys
  <2>4. /\ q \in Handler /\ q.pc = "commit" /\ q.kind = h.kind /\ q.new = h.new
        /\ q.quantity = h.quantity /\ q.loaded = items /\ q.item = i /\ q.delete = {key} \cap keys
    BY <1>1, <1>3, <2>1, <2>2 DEF Handler
  <2> HIDE DEF q
  <2> QED BY <2>3, <2>4 DEF keys
<1> HIDE DEF h
<1>5. /\ h.kind = "update" => q.delete = Views!KeysOf({} \cup DOMAIN items) \cap {key}
      /\ h.kind = "remove" => q.delete = Views!KeysOf({i} \cup DOMAIN items) \cap {key}
  BY <1>4 DEF Views!KeysOf
<1>6. Knows(q)'
  BY <1>1, <1>2, <1>3, <1>4, <1>5 DEF Knows, Computed, Kind
<1> QED BY <1>1, <1>2, <1>4, <1>6, HandlerMoves DEF HandlersInv, HandlersTyped

LEMMA HandlerEnds ==
    ASSUME HandlersInv, NEW r \in Request, req' = [req EXCEPT ![r] = Views!Idle],
           UNCHANGED <<placed, used, key, changes>>
    PROVE  HandlersInv'
<1>1. Knows(Views!Idle)'
  BY IdleHandler DEF Knows
<1> QED BY <1>1, IdleHandler, HandlerMoves DEF HandlersInv, HandlersTyped

LEMMA DeleteKeysStep ==
    ASSUME HandlersInv, NEW r \in Request, Views!DeleteKeys(r)
    PROVE  HandlersInv'
<1>1. PICK h \in Handler : h = req[r]
  BY DEF HandlersInv, HandlersTyped
<1> DEFINE q == [h EXCEPT !.pc = "lists", !.delete = h.delete \cap Views!Lists]
<1>2. q \in Handler /\ q.pc = "lists"
  BY DEF Handler
<1>3. req' = [req EXCEPT ![r] = q] /\ UNCHANGED <<placed, used, key, changes>>
  BY <1>1 DEF Views!DeleteKeys, HandlersInv, HandlersTyped
<1> HIDE DEF q
<1>4. \A w \in Handler : w.pc = "lists" => Knows(w)'
  BY DEF Knows
<1> QED BY <1>2, <1>3, <1>4, HandlerMoves DEF HandlersInv, HandlersTyped
-----------------------------------------------------------------------------
(* The order a commit leaves.                                              *)
LEMMA AfterFits ==
    ASSUME HandlersInv, NEW r \in Request, req[r].pc = "commit", ~Views!RowGone(req[r])
    PROVE  /\ Views!After(req[r]) \in Views!Order
           /\ DOMAIN Views!After(req[r]).items \subseteq used
<1>1. PICK q \in Handler : q = req[r]
  BY DEF HandlersInv, HandlersTyped
<1>2. /\ q.kind \in Kind /\ DOMAIN q.new \subseteq used /\ q.new \in Views!SomeItems
      /\ q.kind # "create" => placed # None
      /\ q.kind = "status" => q.status \in Views!Status
      /\ q.kind = "add" => q.item \in used /\ q.quantity \in Quantities
      /\ q.kind = "update" => q.item \in Line /\ q.quantity \in Quantities
      /\ q.kind = "remove" => q.item \in Line
  BY <1>1 DEF HandlersInv, Knows, Handler
<1>3. placed # None =>
          /\ placed \in Views!Order /\ DOMAIN placed.items \subseteq used /\ used \subseteq Line
          /\ placed.items \in [DOMAIN placed.items -> Quantities]
  BY OrderFits, ItemsFit
<1>4. \A items \in Views!SomeItems : \A s \in Views!Status :
          [status |-> s, items |-> items] \in Views!Order
  BY DEF Views!Order
<1>5. placed # None => \A items \in Views!SomeItems :
          /\ [placed EXCEPT !.items = items] \in Views!Order
          /\ [placed EXCEPT !.items = items].items = items
  BY <1>3 DEF Views!Order
<1>6. CASE q.kind = "create"
  <2>1. Views!After(q) = [status |-> "created", items |-> q.new] /\ "created" \in Views!Status
    BY <1>6 DEF Views!After, Views!Status
  <2> QED BY <1>1, <1>2, <1>4, <2>1
<1>7. CASE q.kind = "status"
  <2>1. Views!After(q) = [placed EXCEPT !.status = q.status]
    BY <1>7 DEF Views!After
  <2> QED BY <1>1, <1>2, <1>3, <1>7, <2>1 DEF Views!Order
<1>8. CASE q.kind = "add"
  <2>1. Views!With(placed.items, q.item, q.quantity) \in Views!SomeItems
        /\ DOMAIN Views!With(placed.items, q.item, q.quantity) \subseteq used
    BY <1>2, <1>3, <1>8, ItemsFit DEF Views!With
  <2>2. Views!After(q) = [placed EXCEPT !.items = Views!With(placed.items, q.item, q.quantity)]
    BY <1>2, <1>3, <1>8 DEF Views!After, Views!Order
  <2> QED BY <1>1, <1>2, <1>5, <1>8, <2>1, <2>2
<1>9. CASE q.kind = "update"
  <2>1. CASE q.was = q.quantity
    <3>1. Views!After(q) = placed
      BY <1>9, <2>1 DEF Views!After
    <3> QED BY <1>1, <1>2, <1>3, <1>9, <3>1
  <2>2. CASE q.was # q.quantity
    <3>1. q.item \in DOMAIN placed.items
      BY <1>1, <1>9, <2>2 DEF Views!RowGone
    <3> DEFINE items == [placed.items EXCEPT ![q.item] = q.quantity]
    <3>2. DOMAIN items = DOMAIN placed.items /\ items \in [DOMAIN placed.items -> Quantities]
      BY <1>2, <1>3, <1>9, <3>1
    <3>3. Views!After(q) = [placed EXCEPT !.items = items]
      BY <1>2, <1>3, <1>9, <2>2 DEF Views!After, Views!Order
    <3> HIDE DEF items
    <3>4. items \in Views!SomeItems
      BY <1>2, <1>3, <1>9, <3>2, ItemsFit
    <3> QED BY <1>1, <1>2, <1>3, <1>5, <1>9, <3>2, <3>3, <3>4
  <2> QED BY <2>1, <2>2
<1>10. CASE q.kind = "remove"
  <2>1. Views!Without(placed.items, q.item) \in Views!SomeItems
        /\ DOMAIN Views!Without(placed.items, q.item) \subseteq used
    BY <1>2, <1>3, <1>10, ItemsFit DEF Views!Without
  <2>2. Views!After(q) = [placed EXCEPT !.items = Views!Without(placed.items, q.item)]
    BY <1>2, <1>3, <1>10 DEF Views!After, Views!Order
  <2> QED BY <1>1, <1>2, <1>5, <1>10, <2>1, <2>2
<1>11. CASE q.kind = "replace"
  <2>1. Views!After(q) = [placed EXCEPT !.items = q.new]
    BY <1>11 DEF Views!After
  <2> QED BY <1>1, <1>2, <1>5, <1>11, <2>1
<1> QED BY <1>2, <1>6, <1>7, <1>8, <1>9, <1>10, <1>11 DEF Kind

LEMMA CommitStep ==
    ASSUME HandlersInv, NEW r \in Request, Views!Commit(r)
    PROVE  HandlersInv' /\ placed' # None
<1>1. PICK h \in Handler : h = req[r]
  BY DEF HandlersInv, HandlersTyped
<1>2. placed' \in Views!Order /\ DOMAIN placed'.items \subseteq used
  BY AfterFits DEF Views!Commit
<1>3. placed' # None
  BY <1>2 DEF HandlersInv
<1>4. PICK q \in Handler : q.pc \in {"lists", "delete"} /\ req' = [req EXCEPT ![r] = q]
  <2> DEFINE pc == IF h.kind = "create" THEN "lists" ELSE "delete"
             keys == h.delete
             q == [Views!Idle EXCEPT !.pc = pc, !.delete = keys]
  <2>1. pc \in {"lists", "delete"} /\ keys \in SUBSET Views!Key
    BY DEF Handler
  <2>2. req' = [req EXCEPT ![r] = q]
    BY <1>1 DEF Views!Commit
  <2> HIDE DEF pc, keys
  <2>3. q \in Handler /\ q.pc = pc
    BY <2>1, IdleHandler DEF Handler, Views!Idle
  <2> HIDE DEF q
  <2> QED BY <2>1, <2>2, <2>3
<1>5. req'[r] = q /\ \A s \in Request : s # r => req'[s] = req[s]
  BY <1>4 DEF HandlersInv, HandlersTyped
<1>6. used' = used /\ key' = key /\ changes' \in 0..MaxChanges
  BY DEF Views!Commit, HandlersInv, HandlersTyped
<1>7. HandlersTyped'
  BY <1>2, <1>4, <1>6 DEF HandlersInv, HandlersTyped
<1>8. ASSUME NEW s \in Request PROVE Knows(req[s])'
  <2>1. CASE s = r
    BY <1>4, <1>5, <2>1 DEF Knows
  <2>2. CASE s # r
    <3>1. req'[s] = req[s] /\ Knows(req[s]) /\ ~(Creating(s) /\ Creating(r))
      BY <1>5, <2>2 DEF HandlersInv, OneCreates
    <3>2. Knows(req[r]) /\ req[r].pc = "commit"
      BY DEF HandlersInv, Views!Commit
    <3>3. Creating(s) => placed = None
      BY <3>1 DEF Knows, Creating
    <3>4. ~Creating(r) => placed # None
      BY <3>2 DEF Knows, Creating
    <3>5. ~Creating(s)
      BY <3>1, <3>3, <3>4
    <3> QED BY <1>3, <1>6, <3>1, <3>5 DEF Knows, Computed, Creating
  <2> QED BY <2>1, <2>2
<1>9. OneCreates'
  BY <1>4, <1>5 DEF HandlersInv, OneCreates, Creating
<1> QED BY <1>3, <1>7, <1>8, <1>9 DEF HandlersInv

LEMMA NextHandlers == HandlersInv /\ [Views!Next]_Views!vars => HandlersInv'
<1> SUFFICES ASSUME HandlersInv, [Views!Next]_Views!vars PROVE HandlersInv'
  OBVIOUS
<1>1. ASSUME NEW r \in Request,
             Views!CreateOrder(r) \/ Views!SetStatus(r) \/ Views!AddItem(r)
             \/ Views!UpdateItem(r) \/ Views!RemoveItem(r)
             \/ Views!UpdateAllItems(r) \/ Views!Find(r) \/ Views!Commit(r) \/ Views!DeleteKeys(r)
      PROVE  HandlersInv'
  BY <1>1, CreateStep, SetStatusStep, AddItemStep, LookupStep, UpdateAllItemsStep, FindStep,
     CommitStep, DeleteKeysStep
<1>2. ASSUME NEW r \in Request, Views!DeleteLists(r) \/ Views!Die(r) PROVE HandlersInv'
  BY <1>2, HandlerEnds DEF Views!DeleteLists, Views!Die
<1>3. ASSUME UNCHANGED <<placed, used, req, key, changes>> PROVE HandlersInv'
  BY <1>3 DEF HandlersInv, HandlersTyped, Knows, Computed, OneCreates, Creating
<1>4. ASSUME NEW r \in Reader, Views!Load(r) \/ Views!Fill(r) \/ Views!NoFill(r) PROVE HandlersInv'
  BY <1>3, <1>4 DEF Views!Load, Views!Fill, Views!NoFill
<1>5. CASE Views!Expire
  BY <1>3, <1>5 DEF Views!Expire
<1>6. CASE UNCHANGED Views!vars
  BY <1>3, <1>6 DEF Views!vars
<1> QED BY <1>1, <1>2, <1>4, <1>5, <1>6 DEF Views!Next
-----------------------------------------------------------------------------
(* The cache.  A reader that is about to fill it knows the value, or knows *)
(* it late; and before there is an order nobody finds one.                 *)
Now == Views!View(key, placed)
Deletes == \E r \in Request : Views!Deleting(r)

Values == {Views!View(k, o) : k \in Views!Key, o \in Views!Order \cup {None}} \cup {None}
CacheTyped == reader \in [Reader -> [pc : {"idle", "fill"}, value : Values, late : BOOLEAN]]
FillsKnown ==
    \A r \in Reader : reader[r].pc = "fill" => reader[r].late \/ reader[r].value = Now
NotYet ==
    placed = None => /\ entry # None => entry.value = None
                    /\ \A r \in Reader : reader[r].pc = "fill" => reader[r].value = None
EntryKept == entry # None => Views!Stores(entry.value)
CacheInv == CacheTyped /\ FillsKnown /\ NotYet /\ EntryKept /\ Views!CachedViewStaleOnlyIfLate

LEMMA NowFits == HandlersInv => Now \in Values /\ (placed = None => Now = None)
<1> SUFFICES ASSUME HandlersInv PROVE Now \in Values /\ (placed = None => Now = None)
  OBVIOUS
<1>1. key \in Views!Key /\ placed \in Views!Order \cup {None}
  BY DEF HandlersInv, HandlersTyped
<1>2. placed = None => Now = None
  BY DEF Now, Views!View
<1> QED BY <1>1, <1>2 DEF Now, Values

(* What an edit of the items in S changes is under the keys of those.      *)
LEMMA ShowsItems ==
    ASSUME Views!OrderCacheAssumption, NEW o \in Views!Order, NEW p \in Views!Order, NEW S,
           NEW k \in Views!Key,
           p.status = o.status, DOMAIN p.items \ S = DOMAIN o.items \ S,
           \A i \in DOMAIN o.items \ S : p.items[i] = o.items[i],
           Views!View(k, p) # Views!View(k, o)
    PROVE  k \in Views!KeysOf(S)
<1>0. o # None /\ p # None
  BY Views!OrderCacheAssumption
<1>1. CASE k \in {"order", "user", "items"}
  BY <1>1 DEF Views!KeysOf
<1>2. CASE k \in Line
  <2>1. Views!View(k, o) = Views!ItemOfOrder(o, k) /\ Views!View(k, p) = Views!ItemOfOrder(p, k)
    BY <1>0, <1>2, Views!OrderCacheAssumption DEF Views!View
  <2>2. k \notin S => Views!ItemOfOrder(p, k) = Views!ItemOfOrder(o, k)
    BY DEF Views!ItemOfOrder
  <2> QED BY <2>1, <2>2 DEF Views!KeysOf
<1>3. CASE k \in Seller
  <2>1. Views!View(k, o) = Views!OrdersOfSeller(o, k) /\ Views!View(k, p) = Views!OrdersOfSeller(p, k)
    BY <1>0, <1>3, Views!OrderCacheAssumption DEF Views!View
  <2>2. ASSUME \A i \in S : SellerOf[i] # k PROVE Views!OrdersOfSeller(p, k) = Views!OrdersOfSeller(o, k)
    <3> DEFINE own == {i \in DOMAIN o.items : SellerOf[i] = k}
               owp == {i \in DOMAIN p.items : SellerOf[i] = k}
    <3>1. owp = own /\ \A i \in own : p.items[i] = o.items[i]
      BY <2>2
    <3>2. [i \in owp |-> p.items[i]] = [i \in own |-> o.items[i]]
      BY <3>1
    <3> HIDE DEF own, owp
    <3>3. Views!OrdersOfSeller(o, k) = IF own = {} THEN None
                                 ELSE [status |-> o.status, items |-> [i \in own |-> o.items[i]]]
      BY DEF Views!OrdersOfSeller, own
    <3>4. Views!OrdersOfSeller(p, k) = IF owp = {} THEN None
                                 ELSE [status |-> p.status, items |-> [i \in owp |-> p.items[i]]]
      BY DEF Views!OrdersOfSeller, owp
    <3> QED BY <3>1, <3>2, <3>3, <3>4
  <2> QED BY <2>1, <2>2 DEF Views!KeysOf
<1> QED BY <1>1, <1>2, <1>3 DEF Views!Key

(* A new status is seen wherever the order is, but not under its items.    *)
LEMMA ShowsStatus ==
    ASSUME Views!OrderCacheAssumption, NEW o \in Views!Order, NEW p \in Views!Order,
           NEW k \in Views!Key, p.items = o.items, Views!View(k, p) # Views!View(k, o)
    PROVE  k \in Views!KeysOf(DOMAIN o.items)
<1>0. o # None /\ p # None
  BY Views!OrderCacheAssumption
<1>1. CASE k \in {"order", "user", "items"}
  BY <1>1 DEF Views!KeysOf
<1>2. CASE k \in Line
  BY <1>0, <1>2, Views!OrderCacheAssumption DEF Views!View, Views!ItemOfOrder
<1>3. CASE k \in Seller
  <2>1. Views!View(k, o) = Views!OrdersOfSeller(o, k) /\ Views!View(k, p) = Views!OrdersOfSeller(p, k)
    BY <1>0, <1>3, Views!OrderCacheAssumption DEF Views!View
  <2> QED BY <2>1 DEF Views!OrdersOfSeller, Views!KeysOf
<1> QED BY <1>1, <1>2, <1>3 DEF Views!Key

(* A request that knows every item of its key deletes the key.             *)
LEMMA NamesKey ==
    ASSUME Views!OrderCacheAssumption, NEW r \in Request, NEW E, NEW S,
           S \subseteq E \cup DOMAIN placed.items,
           req[r].loaded \in Views!SomeItems, Computed(req[r], E), ~Views!CameSince(req[r]),
           key \in Views!KeysOf(S)
    PROVE  key \in req[r].delete
<1> DEFINE old == DOMAIN req[r].loaded
<1>1. req[r].loaded # None
  BY Views!OrderCacheAssumption
<1>2. \A i \in S : key = i \/ key = SellerOf[i] => i \in E \cup old
  BY <1>1 DEF Views!CameSince
<1>3. key \in Views!KeysOf(E \cup old)
  BY <1>2 DEF Views!KeysOf
<1> QED BY <1>3 DEF Computed

LEMMA CommitDeletes ==
    ASSUME HandlersInv, NEW r \in Request, Views!Commit(r), placed # None, Views!View(key,
           placed') # Views!View(key, placed),
           ~Views!CameSince(req[r])
    PROVE  key \in req[r].delete
<1>1. PICK q \in Handler : q = req[r]
  BY DEF HandlersInv, HandlersTyped
<1>2. PICK o \in Views!Order : o = placed
  BY OrderFits
<1>3. /\ q.kind \in Kind /\ q.kind # "create" /\ q.loaded \in Views!SomeItems /\ q.pc = "commit"
      /\ q.kind = "status" => Computed(q, {})
      /\ q.kind = "add" => Computed(q, {q.item})
      /\ q.kind = "update" => Computed(q, {})
      /\ q.kind = "remove" => Computed(q, {q.item})
      /\ q.kind = "replace" => Computed(q, DOMAIN q.new)
  BY <1>1 DEF HandlersInv, Knows, Views!Commit
<1>4. PICK p \in Views!Order : p = placed'
  BY AfterFits DEF Views!Commit
<1>5. p = Views!After(q) /\ key \in Views!Key /\ Views!View(key, p) # Views!View(key, o)
      /\ ~Views!RowGone(q) /\ ~Views!CameSince(q)
  BY <1>1, <1>2, <1>4 DEF Views!Commit, HandlersInv, HandlersTyped
<1>6. \A E, S : S \subseteq E \cup DOMAIN o.items /\ Computed(q, E) /\ key \in Views!KeysOf(S)
               => key \in q.delete
  BY <1>1, <1>2, <1>3, <1>5, NamesKey DEF HandlersInv
<1>7. ASSUME NEW S, p.status = o.status, DOMAIN p.items \ S = DOMAIN o.items \ S,
             \A i \in DOMAIN o.items \ S : p.items[i] = o.items[i]
      PROVE  key \in Views!KeysOf(S)
  BY <1>5, <1>7, ShowsItems DEF HandlersInv
<1>8. CASE q.kind = "status"
  <2>1. p.items = o.items
    BY <1>2, <1>5, <1>8 DEF Views!After, Views!Order
  <2> QED BY <1>1, <1>3, <1>5, <1>6, <1>8, <2>1, ShowsStatus DEF HandlersInv
<1>9. CASE q.kind = "add"
  <2>1. p.status = o.status /\ p.items = Views!With(o.items, q.item, q.quantity)
    BY <1>2, <1>5, <1>9 DEF Views!After, Views!Order
  <2>2. key \in Views!KeysOf({q.item})
    BY <1>7, <2>1 DEF Views!With
  <2> QED BY <1>1, <1>3, <1>6, <1>9, <2>2
<1>10. CASE q.kind = "update"
  <2>1. q.was # q.quantity
    BY <1>2, <1>5, <1>10 DEF Views!After
  <2>2. q.item \in DOMAIN o.items /\ p = [o EXCEPT !.items[q.item] = q.quantity]
    BY <1>2, <1>5, <1>10, <2>1 DEF Views!After, Views!RowGone
  <2>3. p.status = o.status /\ p.items = [o.items EXCEPT ![q.item] = q.quantity]
    BY <2>2 DEF Views!Order
  <2>4. DOMAIN p.items \ {q.item} = DOMAIN o.items \ {q.item}
        /\ \A i \in DOMAIN o.items \ {q.item} : p.items[i] = o.items[i]
    BY <2>3
  <2>5. key \in Views!KeysOf({q.item})
    BY <1>7, <2>3, <2>4
  <2> QED BY <1>1, <1>3, <1>6, <1>10, <2>2, <2>5
<1>11. CASE q.kind = "remove"
  <2>1. p.status = o.status /\ p.items = Views!Without(o.items, q.item)
    BY <1>2, <1>5, <1>11 DEF Views!After, Views!Order
  <2>2. key \in Views!KeysOf({q.item})
    BY <1>7, <2>1 DEF Views!Without
  <2> QED BY <1>1, <1>3, <1>6, <1>11, <2>2
<1>12. CASE q.kind = "replace"
  <2>1. p.status = o.status /\ p.items = q.new
    BY <1>2, <1>5, <1>12 DEF Views!After, Views!Order
  <2> DEFINE S == DOMAIN q.new \cup DOMAIN o.items
  <2>2. key \in Views!KeysOf(S)
    BY <1>7, <2>1
  <2>3. S \subseteq DOMAIN q.new \cup DOMAIN o.items
    OBVIOUS
  <2> QED BY <1>1, <1>3, <1>6, <1>12, <2>2, <2>3
<1> QED BY <1>1, <1>3, <1>8, <1>9, <1>10, <1>11, <1>12 DEF Kind

(* The first commit of an order: only lists were cached, and were empty.   *)
LEMMA CreateDeletes ==
    ASSUME HandlersInv, NotYet, EntryKept, NEW r \in Request, Views!Commit(r), placed = None,
           Views!View(key, placed') # Views!View(key, placed), entry # None
    PROVE  key \in req[r].delete
<1>1. /\ req[r].kind = "create" /\ req[r].pc = "commit"
      /\ req[r].delete = Views!Lists \cap Views!KeysOf(DOMAIN req[r].new) \cap {key}
  BY DEF HandlersInv, Knows, Views!Commit
<1>2. key \in Views!Lists
  BY DEF NotYet, EntryKept, Views!Stores
<1>3. /\ placed' = [status |-> "created", items |-> req[r].new] /\ placed' \in Views!Order
      /\ Views!View(key, placed') # None
  <2>1. placed' \in Views!Order
    BY AfterFits DEF Views!Commit
  <2> QED BY <1>1, <2>1 DEF Views!Commit, Views!After, Views!View
<1>4. key \in Views!KeysOf(DOMAIN req[r].new)
  <2>1. CASE key = "user"
    BY <2>1 DEF Views!KeysOf
  <2>2. CASE key \in Seller
    <3>1. placed' # None /\ placed'.items = req[r].new
      BY <1>3 DEF HandlersInv
    <3>2. Views!OrdersOfSeller(placed', key) # None
      BY <1>3, <2>2, <3>1 DEF HandlersInv, Views!View
    <3>3. {i \in DOMAIN req[r].new : SellerOf[i] = key} # {}
      BY <3>1, <3>2 DEF Views!OrdersOfSeller
    <3> QED BY <3>3 DEF Views!KeysOf
  <2> QED BY <1>2, <2>1, <2>2 DEF Views!Lists
<1> QED BY <1>1, <1>2, <1>4
-----------------------------------------------------------------------------
LEMMA InitCacheInv == Views!Init => CacheInv
<1> SUFFICES ASSUME Views!Init PROVE CacheInv
  OBVIOUS
<1>1. entry = None /\ reader = [r \in Reader |-> [pc |-> "idle", value |-> None, late |-> FALSE]]
  BY DEF Views!Init, Views!Cache!CacheInit, Views!Cache!At
<1>2. CacheTyped /\ FillsKnown /\ NotYet /\ EntryKept
  BY <1>1 DEF CacheTyped, FillsKnown, NotYet, EntryKept, Values
<1>3. Views!CachedViewStaleOnlyIfLate
  BY <1>1 DEF Views!CachedViewStaleOnlyIfLate, Views!Cache!StaleOnlyIfLate
<1> QED BY <1>2, <1>3 DEF CacheInv

(* The cache and what the key shows stay; a handler moves that had nothing *)
(* to delete, or still has it.                                             *)
LEMMA CacheKept ==
    ASSUME HandlersInv, CacheInv, NEW r \in Request, NEW q, req' = [req EXCEPT ![r] = q], key' = key,
           UNCHANGED Views!cached, Now' = Now, placed' = None => placed = None,
           Views!Deleting(r) => Views!Deleting(r)'
    PROVE  CacheInv'
<1>1. UNCHANGED <<entry, reader, kept>>
  BY DEF Views!cached
<1>2. \A s \in Request : s # r => req'[s] = req[s]
  BY DEF HandlersInv, HandlersTyped
<1>3. Deletes => Deletes'
  BY <1>2 DEF Deletes, Views!Deleting
<1>4. CacheTyped' /\ FillsKnown' /\ NotYet' /\ EntryKept'
  BY <1>1 DEF CacheInv, CacheTyped, FillsKnown, NotYet, EntryKept, Views!Stores, Now
<1>5. Views!CachedViewStaleOnlyIfLate'
  BY <1>1, <1>3 DEF CacheInv, Views!CachedViewStaleOnlyIfLate, Views!Cache!StaleOnlyIfLate, Now, Deletes
<1> QED BY <1>4, <1>5 DEF CacheInv

(* Readers forget what they loaded or stay; a delete is made, given up     *)
(* with its mark, or still to come.                                        *)
LEMMA CacheForgets ==
    ASSUME CacheInv, UNCHANGED <<placed, key>>, CacheTyped',
           \A r \in Reader : reader'[r].pc = "fill" => reader'[r] = reader[r],
           \/ entry' = None
           \/ entry' = entry /\ (entry # None => kept')
           \/ entry' = entry /\ kept' = kept /\ req' = req
    PROVE  CacheInv'
<1>1. Now' = Now
  BY DEF Now
<1>2. FillsKnown' /\ NotYet' /\ EntryKept'
  BY <1>1 DEF CacheInv, FillsKnown, NotYet, EntryKept, Views!Stores
<1>3. Views!CachedViewStaleOnlyIfLate'
  BY <1>1 DEF CacheInv, Views!CachedViewStaleOnlyIfLate, Views!Cache!StaleOnlyIfLate, Now, Views!Deleting
<1> QED BY <1>2, <1>3 DEF CacheInv

(* What the key shows changes, and its delete is to come or never will.    *)
LEMMA CacheLate ==
    ASSUME CacheInv, entry' = entry, key' = key, placed' # None,
           reader' = [r \in Reader |-> [reader[r] EXCEPT !.late = reader[r].pc = "fill"]],
           entry # None => Deletes' \/ kept'
    PROVE  CacheInv'
<1>1. \A r \in Reader :
          /\ reader'[r] \in [pc : {"idle", "fill"}, value : Values, late : BOOLEAN]
          /\ reader'[r].pc = reader[r].pc /\ (reader[r].pc = "fill" => reader'[r].late)
  BY DEF CacheInv, CacheTyped
<1>2. CacheTyped' /\ FillsKnown' /\ NotYet' /\ EntryKept'
  BY <1>1 DEF CacheInv, CacheTyped, FillsKnown, NotYet, EntryKept, Views!Stores
<1>3. Views!CachedViewStaleOnlyIfLate'
  BY DEF Views!CachedViewStaleOnlyIfLate, Views!Cache!StaleOnlyIfLate, Deletes
<1> QED BY <1>2, <1>3 DEF CacheInv

LEMMA CommitCached ==
    ASSUME HandlersInv, CacheInv, NEW r \in Request, Views!Commit(r)
    PROVE  CacheInv'
<1>1. key' = key /\ placed' # None
  BY CommitStep DEF Views!Commit
<1>2. PICK q : /\ req' = [req EXCEPT ![r] = q] /\ q.pc \in {"lists", "delete"}
               /\ q.delete = req[r].delete
  <2> DEFINE pc == IF req[r].kind = "create" THEN "lists" ELSE "delete"
             keys == req[r].delete
             q == [Views!Idle EXCEPT !.pc = pc, !.delete = keys]
  <2>1. pc \in {"lists", "delete"}
    OBVIOUS
  <2>2. req' = [req EXCEPT ![r] = q]
    BY DEF Views!Commit
  <2> HIDE DEF pc, keys
  <2>3. q.pc = pc /\ q.delete = keys
    BY DEF Views!Idle
  <2> HIDE DEF q
  <2> QED BY <2>1, <2>2, <2>3 DEF keys
<1>3. req'[r] = q
  BY <1>2 DEF HandlersInv, HandlersTyped
<1>4. CASE Views!View(key, placed') = Views!View(key, placed)
  <2>1. UNCHANGED Views!cached
    BY <1>4 DEF Views!Commit
  <2>2. Now' = Now /\ ~Views!Deleting(r)
    BY <1>1, <1>4 DEF Now, Views!Deleting, Views!Commit
  <2> QED BY <1>1, <1>2, <2>1, <2>2, CacheKept
<1>5. CASE Views!View(key, placed') # Views!View(key, placed) /\ Views!CameSince(req[r])
  <2>1. Views!Cache!ChangeKept
    BY <1>5 DEF Views!Commit
  <2> QED BY <1>1, <2>1, CacheLate DEF Views!Cache!ChangeKept
<1>6. CASE Views!View(key, placed') # Views!View(key, placed) /\ ~Views!CameSince(req[r])
  <2>1. Views!Cache!Change
    BY <1>6 DEF Views!Commit
  <2>2. entry # None => key \in req[r].delete
    BY <1>6, CommitDeletes, CreateDeletes DEF CacheInv
  <2>3. entry # None => Deletes'
    BY <1>1, <1>2, <1>3, <2>2 DEF Deletes, Views!Deleting
  <2> QED BY <1>1, <2>1, <2>3, CacheLate DEF Views!Cache!Change
<1> QED BY <1>4, <1>5, <1>6

(* A handler that deletes, or is to delete and dies.                       *)
LEMMA DeleteCached ==
    ASSUME CacheInv, UNCHANGED <<placed, key>>, Views!Cache!Delete \/ Views!Cache!LoseDelete
    PROVE  CacheInv'
<1>1. reader' = reader /\ (entry' = None \/ (entry' = entry /\ (entry # None => kept')))
  BY DEF Views!Cache!Delete, Views!Cache!LoseDelete
<1>2. CacheTyped' /\ \A r \in Reader : reader'[r].pc = "fill" => reader'[r] = reader[r]
  BY <1>1 DEF CacheInv, CacheTyped
<1>3. CASE entry' = None
  BY <1>2, <1>3, CacheForgets
<1>4. CASE entry' = entry /\ (entry # None => kept')
  BY <1>2, <1>4, CacheForgets
<1> QED BY <1>1, <1>3, <1>4

LEMMA HandlerCached ==
    ASSUME HandlersInv, CacheInv, NEW r \in Request, Views!DeleteKeys(r)
           \/ Views!DeleteLists(r) \/ Views!Die(r)
    PROVE  CacheInv'
<1>1. UNCHANGED <<placed, key>> /\ Now' = Now
  BY DEF Views!DeleteKeys, Views!DeleteLists, Views!Die, Now
<1>2. PICK h \in Handler : h = req[r]
  BY DEF HandlersInv, HandlersTyped
<1>3. CASE Views!DeleteKeys(r)
  <2>1. CASE key \in h.delete \ Views!Lists
    BY <1>1, <1>2, <1>3, <2>1, DeleteCached DEF Views!DeleteKeys, Views!Delete
  <2>2. CASE key \notin h.delete \ Views!Lists
    <3> DEFINE q == [h EXCEPT !.pc = "lists", !.delete = h.delete \cap Views!Lists]
    <3>1. q.pc = "lists" /\ q.delete = h.delete \cap Views!Lists
      BY DEF Handler
    <3>2. req' = [req EXCEPT ![r] = q] /\ UNCHANGED Views!cached
      BY <1>2, <1>3, <2>2 DEF Views!DeleteKeys, Views!Delete, HandlersInv, HandlersTyped
    <3> HIDE DEF q
    <3>3. req'[r] = q
      BY <3>2 DEF HandlersInv, HandlersTyped
    <3>4. Views!Deleting(r) => Views!Deleting(r)'
      BY <1>1, <1>2, <2>2, <3>1, <3>3 DEF Views!Deleting
    <3> QED BY <1>1, <3>2, <3>4, CacheKept
  <2> QED BY <2>1, <2>2
<1>4. CASE Views!DeleteLists(r)
  <2>1. CASE key \in h.delete
    BY <1>1, <1>2, <1>4, <2>1, DeleteCached DEF Views!DeleteLists, Views!Delete
  <2>2. CASE key \notin h.delete
    <3>1. ~Views!Deleting(r) /\ UNCHANGED Views!cached /\ req' = [req EXCEPT ![r] = Views!Idle]
      BY <1>2, <1>4, <2>2 DEF Views!DeleteLists, Views!Delete, Views!Deleting
    <3> QED BY <1>1, <3>1, CacheKept
  <2> QED BY <2>1, <2>2
<1>5. CASE Views!Die(r)
  <2>1. CASE Views!Deleting(r)
    BY <1>1, <1>5, <2>1, DeleteCached DEF Views!Die
  <2>2. CASE ~Views!Deleting(r)
    BY <1>1, <1>5, <2>2, CacheKept DEF Views!Die
  <2> QED BY <2>1, <2>2
<1> QED BY <1>3, <1>4, <1>5

(* One reader is idle again.                                               *)
LEMMA ReaderIdles ==
    ASSUME CacheTyped, NEW r \in Reader, reader' = [reader EXCEPT ![r] = Views!Cache!At("idle", None)]
    PROVE  CacheTyped' /\ \A q \in Reader : reader'[q].pc = "fill" => reader'[q] = reader[q]
BY DEF CacheTyped, Views!Cache!At, Values

LEMMA LoadCached ==
    ASSUME HandlersInv, CacheInv, NEW r \in Reader, Views!Load(r)
    PROVE  CacheInv'
<1> DEFINE w == [pc |-> "fill", value |-> Now, late |-> FALSE]
<1>1. /\ reader' = [reader EXCEPT ![r] = w] /\ UNCHANGED <<entry, kept, placed, req, key>>
      /\ Now' = Now
  BY DEF Views!Load, Views!Cache!Load, Views!Cache!At, Now
<1>2. w \in [pc : {"idle", "fill"}, value : Values, late : BOOLEAN] /\ w.value = Now
      /\ (placed = None => w.value = None)
  BY NowFits
<1> HIDE DEF w
<1>3. CacheTyped' /\ reader'[r] = w /\ \A q \in Reader : q # r => reader'[q] = reader[q]
  BY <1>1, <1>2 DEF CacheInv, CacheTyped
<1>4. FillsKnown' /\ NotYet' /\ EntryKept'
  BY <1>1, <1>2, <1>3 DEF CacheInv, FillsKnown, NotYet, EntryKept, Views!Stores
<1>5. Views!CachedViewStaleOnlyIfLate'
  BY <1>1 DEF CacheInv, Views!CachedViewStaleOnlyIfLate, Views!Cache!StaleOnlyIfLate, Now, Views!Deleting
<1> QED BY <1>3, <1>4, <1>5 DEF CacheInv

LEMMA FillCached ==
    ASSUME HandlersInv, CacheInv, NEW r \in Reader, Views!Fill(r)
    PROVE  CacheInv'
<1>1. /\ reader[r].pc = "fill" /\ Views!Stores(reader[r].value)
      /\ entry' = [value |-> reader[r].value, late |-> reader[r].late]
      /\ UNCHANGED <<placed, req, key>> /\ Now' = Now
  BY DEF Views!Fill, Views!Cache!Fill, Now
<1>2. CacheTyped' /\ \A q \in Reader : reader'[q].pc = "fill" => reader'[q] = reader[q]
  BY ReaderIdles DEF Views!Fill, Views!Cache!Fill, CacheInv
<1>3. entry'.value = reader[r].value /\ entry'.late = reader[r].late
  BY <1>1
<1>4. FillsKnown' /\ NotYet' /\ EntryKept'
  BY <1>1, <1>2, <1>3 DEF CacheInv, FillsKnown, NotYet, EntryKept, Views!Stores
<1>5. Views!CachedViewStaleOnlyIfLate'
  <2>1. entry'.value # Now => entry'.late
    BY <1>1, <1>3 DEF CacheInv, FillsKnown
  <2> QED BY <1>1, <2>1 DEF Views!CachedViewStaleOnlyIfLate, Views!Cache!StaleOnlyIfLate, Now
<1> QED BY <1>2, <1>4, <1>5 DEF CacheInv

LEMMA NextCacheInv == HandlersInv /\ CacheInv /\ [Views!Next]_Views!vars => CacheInv'
<1> SUFFICES ASSUME HandlersInv, CacheInv, [Views!Next]_Views!vars PROVE CacheInv'
  OBVIOUS
<1>1. ASSUME NEW r \in Request, NEW step, NEW kind, NEW items, NEW keys, NEW asked,
             Views!Begin(r, step, kind, items, keys, asked)
      PROVE  CacheInv'
  <2> DEFINE q == [asked EXCEPT !.pc = step, !.kind = kind, !.loaded = items,
                                !.delete = keys \cap {key}]
  <2>1. /\ req[r] = Views!Idle /\ req' = [req EXCEPT ![r] = q] /\ UNCHANGED <<placed, key, Views!cached>>
        /\ Now' = Now
    BY <1>1 DEF Views!Begin, Now
  <2> HIDE DEF q
  <2>2. ~Views!Deleting(r)
    BY <2>1, IdleHandler DEF Views!Deleting
  <2> QED BY <2>1, <2>2, CacheKept
<1>2. ASSUME NEW r \in Request,
             Views!CreateOrder(r) \/ Views!SetStatus(r) \/ Views!AddItem(r)
             \/ Views!UpdateItem(r) \/ Views!RemoveItem(r)
             \/ Views!UpdateAllItems(r)
      PROVE  CacheInv'
  <2>1. CASE Views!CreateOrder(r)
    BY <1>1, <2>1 DEF Views!CreateOrder
  <2>2. CASE Views!SetStatus(r)
    BY <1>1, <2>2 DEF Views!SetStatus
  <2>3. CASE Views!AddItem(r)
    BY <1>1, <2>3 DEF Views!AddItem
  <2>4. CASE Views!UpdateItem(r)
    BY <1>1, <2>4 DEF Views!UpdateItem
  <2>5. CASE Views!RemoveItem(r)
    BY <1>1, <2>5 DEF Views!RemoveItem
  <2>6. CASE Views!UpdateAllItems(r)
    BY <1>1, <2>6 DEF Views!UpdateAllItems
  <2> QED BY <1>2, <2>1, <2>2, <2>3, <2>4, <2>5, <2>6
<1>3. ASSUME NEW r \in Request, Views!Find(r) PROVE CacheInv'
  <2>1. PICK q : req' = [req EXCEPT ![r] = q]
    BY <1>3 DEF Views!Find
  <2>2. UNCHANGED <<placed, key, Views!cached>> /\ Now' = Now /\ ~Views!Deleting(r)
    BY <1>3 DEF Views!Find, Now, Views!Deleting
  <2> QED BY <2>1, <2>2, CacheKept
<1>4. ASSUME NEW r \in Reader, Views!Load(r) \/ Views!Fill(r) PROVE CacheInv'
  BY <1>4, LoadCached, FillCached
<1>5. ASSUME NEW r \in Reader, Views!NoFill(r) PROVE CacheInv'
  <2>1. CacheTyped' /\ \A q \in Reader : reader'[q].pc = "fill" => reader'[q] = reader[q]
    BY <1>5, ReaderIdles DEF Views!NoFill, Views!Cache!NoFill, CacheInv
  <2>2. UNCHANGED <<placed, key>> /\ (entry' = entry /\ kept' = kept /\ req' = req)
    BY <1>5 DEF Views!NoFill, Views!Cache!NoFill
  <2> QED BY <2>1, <2>2, CacheForgets
<1>6. CASE Views!Expire
  <2>1. UNCHANGED <<placed, key>> /\ reader' = reader /\ entry' = None
    BY <1>6 DEF Views!Expire, Views!Cache!Expire
  <2>2. CacheTyped' /\ \A r \in Reader : reader'[r].pc = "fill" => reader'[r] = reader[r]
    BY <2>1 DEF CacheInv, CacheTyped
  <2> QED BY <2>1, <2>2, CacheForgets
<1>7. CASE UNCHANGED Views!vars
  <2>1. UNCHANGED <<placed, key, entry, reader, kept, req>>
    BY <1>7 DEF Views!vars, Views!cached
  <2>2. CacheTyped' /\ \A r \in Reader : reader'[r].pc = "fill" => reader'[r] = reader[r]
    BY <2>1 DEF CacheInv, CacheTyped
  <2>3. UNCHANGED <<placed, key>> /\ (entry' = entry /\ kept' = kept /\ req' = req)
    BY <2>1
  <2> QED BY <2>2, <2>3, CacheForgets
<1> QED BY <1>2, <1>3, <1>4, <1>5, <1>6, <1>7, CommitCached, HandlerCached DEF Views!Next

LEMMA ViewsInvariance == Views!OrderCacheAssumption /\ Views!Spec => [](HandlersInv /\ CacheInv)
BY InitHandlers, NextHandlers, InitCacheInv, NextCacheInv, PTL DEF Views!Spec
-----------------------------------------------------------------------------
(* For any items, sellers and requests the rows, the handlers and the      *)
(* cached entry keep their types, and items their identifiers.             *)
THEOREM OrderCacheTyped == Views!OrderCacheAssumption /\ Views!Spec => []Views!TypeOK
<1>1. HandlersInv /\ CacheInv => Views!TypeOK
  <2> SUFFICES ASSUME HandlersInv, CacheInv PROVE Views!TypeOK
    OBVIOUS
  <2>1. \A r \in Request : req[r] \in Handler
    BY DEF HandlersInv, HandlersTyped
  <2>2. \A r \in Request : req[r].pc \in {"idle", "find", "commit", "delete", "lists"}
                           /\ req[r].delete \subseteq Views!Key
    BY <2>1 DEF Handler
  <2> QED BY <2>2 DEF HandlersInv, HandlersTyped, CacheInv, EntryKept, Views!TypeOK
<1> QED BY ViewsInvariance, <1>1, PTL

(* For any orders, changes and readers, a cached view of an order - by id, *)
(* in the list of its buyer or of a seller, its items, one item - differs  *)
(* from the rows only when it was filled late, its delete is to come or    *)
(* was lost, or it is of an item that came after the change had loaded the *)
(* order (the cache keys of OrderService).                                 *)
THEOREM CachedViewsStaleOnlyIfLate ==
    Views!OrderCacheAssumption /\ Views!Spec => []Views!CachedViewStaleOnlyIfLate
<1>1. CacheInv => Views!CachedViewStaleOnlyIfLate
  BY DEF CacheInv
<1> QED BY ViewsInvariance, <1>1, PTL
=============================================================================
