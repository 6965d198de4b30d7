--------------------------- MODULE ControllerProofs ---------------------------
(***************************************************************************)
(* The accounting of ServerController and Monitoring, for any number of    *)
(* threads, requests and readers of the statistics: what is counted adds   *)
(* up, and what is copied of it meanwhile is off by no more than it may.   *)
(***************************************************************************)
EXTENDS Controller, SessionStoreProofs, SequenceTheorems, WellFoundedInduction

-------------------------------------------------------------------------------
(* Sums.                                                                    *)

\* Induction over the naturals, for a set of them.
LEMMA NatUpwards ==
    ASSUME NEW S, 0 \in S, \A n \in Nat : n \in S => n + 1 \in S
    PROVE  Nat \subseteq S
<1> DEFINE T == Nat \ S
           R == OpToRel(<, Nat)
<1> SUFFICES ASSUME T # {} PROVE FALSE
  OBVIOUS
<1>1. \A x, y \in Nat : <<x, y>> \in R <=> x < y
  BY DEF OpToRel
<1>2. IsWellFoundedOn(R, Nat)
  BY NatLessThanWellFounded, Zenon
<1>3. T \subseteq Nat
  OBVIOUS
<1> HIDE DEF R, T
<1>4. PICK n \in T : \A m \in T : <<m, n>> \notin R
  BY <1>2, <1>3, WFMin
<1>5. n \in Nat /\ n # 0 /\ n \notin S
  BY <1>3, <1>4 DEF T
<1>6. n - 1 \in Nat /\ n - 1 < n
  BY <1>5
<1>7. n - 1 \notin T
  BY <1>1, <1>4, <1>5, <1>6
<1>8. n - 1 \in S
  BY <1>6, <1>7 DEF T
<1> QED
  BY <1>5, <1>6, <1>8

\* g sums up the first numbers of x, up to the n-th.
SumsUp(g, x, n) ==
    /\ g \in [0 .. n -> Nat]
    /\ g[0] = 0
    /\ \A i \in 1 .. n : g[i] = g[i - 1] + x[i]

Numbers(x) == x \in [1 .. Len(x) -> Nat] /\ Len(x) \in Nat

\* The recursion is well defined.
LEMMA SumsExist ==
    ASSUME NEW x, Numbers(x)
    PROVE  \E g : SumsUp(g, x, Len(x))
<1> DEFINE S == {n \in Nat : n <= Len(x) => \E g : SumsUp(g, x, n)}
<1>1. 0 \in S
  <2>1. SumsUp([i \in 0 .. 0 |-> 0], x, 0)
    BY DEF SumsUp
  <2> QED
    BY <2>1
<1>2. ASSUME NEW n \in Nat, n \in S
      PROVE  n + 1 \in S
  <2> SUFFICES ASSUME n + 1 <= Len(x) PROVE \E g : SumsUp(g, x, n + 1)
    OBVIOUS
  <2>1. PICK g : SumsUp(g, x, n)
    BY <1>2 DEF Numbers
  <2> DEFINE h == [i \in 0 .. n + 1 |-> IF i = n + 1 THEN g[n] + x[n + 1] ELSE g[i]]
  <2>2. g[n] \in Nat /\ x[n + 1] \in Nat
    BY <2>1 DEF SumsUp, Numbers
  <2>3. h \in [0 .. n + 1 -> Nat]
    BY <2>1, <2>2 DEF SumsUp
  <2>4. h[0] = 0
    BY <2>1 DEF SumsUp
  <2>5. ASSUME NEW i \in 1 .. n + 1
        PROVE  h[i] = h[i - 1] + x[i]
    BY <2>1 DEF SumsUp
  <2>6. SumsUp(h, x, n + 1)
    BY <2>3, <2>4, <2>5 DEF SumsUp
  <2> QED
    BY <2>6
<1> HIDE DEF S
<1>3. Nat \subseteq S
  BY <1>1, <1>2, NatUpwards
<1>4. Len(x) \in S
  BY <1>3 DEF Numbers
<1> QED
  BY <1>4 DEF S

\* The sum of a sequence is the last of its partial sums.
LEMMA SumOfLast ==
    ASSUME NEW x, Numbers(x)
    PROVE  \E g : SumsUp(g, x, Len(x)) /\ SumOf(x) = g[Len(x)]
<1> DEFINE n == Len(x)
           Is(f) == f = [i \in 0 .. n |-> IF i = 0 THEN 0 ELSE f[i - 1] + x[i]]
           upTo == CHOOSE f : Is(f)
<1>0. n \in Nat
  BY DEF Numbers
<1>1. PICK g : SumsUp(g, x, n)
  BY SumsExist
<1>2. Is(g)
  <2>1. g = [i \in 0 .. n |-> g[i]]
    BY <1>1 DEF SumsUp
  <2>2. \A i \in 0 .. n : g[i] = IF i = 0 THEN 0 ELSE g[i - 1] + x[i]
    BY <1>0, <1>1 DEF SumsUp
  <2> QED
    BY <2>1, <2>2
<1>3. Is(upTo)
  <2> HIDE DEF Is
  <2> QED
    BY <1>2
<1>4. SumOf(x) = upTo[n]
  BY DEF SumOf
<1> HIDE DEF upTo
<1> DEFINE S == {i \in Nat : i <= n => upTo[i] = g[i]}
<1>5. 0 \in S
  BY <1>0, <1>1, <1>3 DEF SumsUp
<1>6. ASSUME NEW i \in Nat, i \in S
      PROVE  i + 1 \in S
  BY <1>0, <1>1, <1>3, <1>6 DEF SumsUp
<1> HIDE DEF S
<1>7. n \in S
  BY <1>0, <1>5, <1>6, NatUpwards
<1>8. upTo[n] = g[n]
  BY <1>0, <1>7 DEF S
<1> QED
  BY <1>1, <1>4, <1>8

LEMMA SumType ==
    ASSUME NEW x, Numbers(x)
    PROVE  SumOf(x) \in Nat
BY SumOfLast DEF SumsUp, Numbers

\* Of two sequences the one that is nowhere less has no lesser sum.
LEMMA SumBelow ==
    ASSUME NEW x, NEW y, Numbers(x), Numbers(y), Len(x) = Len(y),
           \A i \in 1 .. Len(x) : x[i] <= y[i]
    PROVE  SumOf(x) <= SumOf(y)
<1> DEFINE n == Len(x)
<1>1. PICK g : SumsUp(g, x, n) /\ SumOf(x) = g[n]
  BY SumOfLast
<1>2. PICK h : SumsUp(h, y, n) /\ SumOf(y) = h[n]
  BY SumOfLast
<1>3. n \in Nat /\ \A i \in 1 .. n : x[i] \in Nat /\ y[i] \in Nat
  BY DEF Numbers
<1> DEFINE S == {i \in Nat : i <= n => g[i] <= h[i]}
<1>4. 0 \in S
  BY <1>1, <1>2 DEF SumsUp
<1>5. ASSUME NEW i \in Nat, i \in S
      PROVE  i + 1 \in S
  <2> SUFFICES ASSUME i + 1 <= n PROVE g[i + 1] <= h[i + 1]
    OBVIOUS
  <2>1. g[i + 1] = g[i] + x[i + 1] /\ h[i + 1] = h[i] + y[i + 1]
    BY <1>1, <1>2, <1>3 DEF SumsUp
  <2>2. g[i] \in Nat /\ h[i] \in Nat /\ g[i] <= h[i]
    BY <1>1, <1>2, <1>3, <1>5 DEF SumsUp
  <2> QED
    BY <1>3, <2>1, <2>2
<1> HIDE DEF S
<1>6. n \in S
  BY <1>3, <1>4, <1>5, NatUpwards
<1> QED
  BY <1>1, <1>2, <1>3, <1>6 DEF S

\* One more in one place is one more in all.
LEMMA SumUp ==
    ASSUME NEW x, NEW y, Numbers(x), Numbers(y), Len(x) = Len(y),
           NEW j \in 1 .. Len(x), y[j] = x[j] + 1,
           \A i \in 1 .. Len(x) : i # j => y[i] = x[i]
    PROVE  SumOf(y) = SumOf(x) + 1
<1> DEFINE n == Len(x)
<1>1. PICK g : SumsUp(g, x, n) /\ SumOf(x) = g[n]
  BY SumOfLast
<1>2. PICK h : SumsUp(h, y, n) /\ SumOf(y) = h[n]
  BY SumOfLast
<1>3. n \in Nat /\ \A i \in 1 .. n : x[i] \in Nat /\ y[i] \in Nat
  BY DEF Numbers
<1> DEFINE S == {i \in Nat : i <= n => h[i] = IF i < j THEN g[i] ELSE g[i] + 1}
<1>4. 0 \in S
  BY <1>1, <1>2 DEF SumsUp
<1>5. ASSUME NEW i \in Nat, i \in S
      PROVE  i + 1 \in S
  <2> SUFFICES ASSUME i + 1 <= n
               PROVE  h[i + 1] = IF i + 1 < j THEN g[i + 1] ELSE g[i + 1] + 1
    OBVIOUS
  <2>1. g[i + 1] = g[i] + x[i + 1] /\ h[i + 1] = h[i] + y[i + 1]
    BY <1>1, <1>2, <1>3 DEF SumsUp
  <2>2. g[i] \in Nat /\ h[i] = IF i < j THEN g[i] ELSE g[i] + 1
    BY <1>1, <1>3, <1>5 DEF SumsUp
  <2> QED
    BY <1>3, <2>1, <2>2
<1> HIDE DEF S
<1>6. n \in S
  BY <1>3, <1>4, <1>5, NatUpwards
<1> QED
  BY <1>1, <1>2, <1>3, <1>6 DEF S

\* What is 0 but for a part of the sequence sums up to that part's sum.
LEMMA SumPart ==
    ASSUME NEW x, NEW y, Numbers(x), Numbers(y), NEW a \in Nat,
           a + Len(y) <= Len(x),
           \A i \in 1 .. Len(y) : x[a + i] = y[i],
           \A i \in 1 .. Len(x) : i <= a \/ i > a + Len(y) => x[i] = 0
    PROVE  SumOf(x) = SumOf(y)
<1> DEFINE n == Len(x)
           m == Len(y)
<1>1. PICK g : SumsUp(g, x, n) /\ SumOf(x) = g[n]
  BY SumOfLast
<1>2. PICK h : SumsUp(h, y, m) /\ SumOf(y) = h[m]
  BY SumOfLast
<1>3. n \in Nat /\ m \in Nat
  BY DEF Numbers
<1> DEFINE from(i) == IF i <= a THEN 0 ELSE IF i <= a + m THEN i - a ELSE m
           S == {i \in Nat : i <= n => g[i] = h[from(i)]}
<1>4. 0 \in S
  BY <1>1, <1>2, <1>3 DEF SumsUp
<1>5. ASSUME NEW i \in Nat, i \in S
      PROVE  i + 1 \in S
  <2> SUFFICES ASSUME i + 1 <= n PROVE g[i + 1] = h[from(i + 1)]
    OBVIOUS
  <2>1. g[i + 1] = g[i] + x[i + 1] /\ g[i] \in Nat /\ g[i] = h[from(i)]
    BY <1>1, <1>3, <1>5 DEF SumsUp
  <2>2. CASE i < a \/ i >= a + m
    <3>1. x[i + 1] = 0 /\ from(i + 1) = from(i)
      BY <1>3, <2>2
    <3> QED
      BY <2>1, <3>1
  <2>3. CASE a <= i /\ i < a + m
    <3> DEFINE b == i - a
    <3>1. b \in Nat /\ b + 1 \in 1 .. m /\ from(i) = b /\ from(i + 1) = b + 1
      BY <1>3, <2>3
    <3>2. x[a + (b + 1)] = y[b + 1] /\ a + (b + 1) = i + 1
      BY <3>1
    <3>3. h[b + 1] = h[b] + y[b + 1]
      BY <1>2, <3>1 DEF SumsUp
    <3> HIDE DEF b, from
    <3> QED
      BY <2>1, <3>1, <3>2, <3>3
  <2> QED
    BY <1>3, <2>2, <2>3
<1> HIDE DEF S
<1>6. n \in S
  BY <1>3, <1>4, <1>5, NatUpwards
<1> QED
  BY <1>1, <1>2, <1>3, <1>6 DEF S

LEMMA SumSame ==
    ASSUME NEW x, NEW y, Numbers(x), Numbers(y), Len(x) = Len(y),
           \A i \in 1 .. Len(x) : x[i] = y[i]
    PROVE  SumOf(x) = SumOf(y)
<1>1. x = y
  BY DEF Numbers
<1> QED
  BY <1>1

LEMMA SumZero ==
    ASSUME NEW x, Numbers(x), \A i \in 1 .. Len(x) : x[i] = 0
    PROVE  SumOf(x) = 0
<1>1. PICK g : SumsUp(g, x, Len(x)) /\ SumOf(x) = g[Len(x)]
  BY SumOfLast
<1> DEFINE S == {i \in Nat : i <= Len(x) => g[i] = 0}
<1>2. 0 \in S
  BY <1>1 DEF SumsUp
<1>3. ASSUME NEW i \in Nat, i \in S
      PROVE  i + 1 \in S
  BY <1>1, <1>3 DEF SumsUp, Numbers
<1> HIDE DEF S
<1>4. Len(x) \in S
  BY <1>2, <1>3, NatUpwards DEF Numbers
<1> QED
  BY <1>1, <1>4 DEF S, Numbers

-------------------------------------------------------------------------------
(* The counters, and the order in which they are copied.                    *)

SeqOf(S, n, x) == x \in Seq(S) /\ Len(x) = n

Joins(z, m, x, n, y) ==
    /\ \A i \in 1 .. m : z[i] = x[i]
    /\ \A i \in 1 .. n : z[m + i] = y[i]

LEMMA ConcatOf ==
    ASSUME NEW S, NEW x, NEW y, NEW m \in Nat, NEW n \in Nat,
           SeqOf(S, m, x), SeqOf(S, n, y)
    PROVE  /\ SeqOf(S, m + n, x \o y)
           /\ Joins(x \o y, m, x, n, y)
<1>1. x \in Seq(S) /\ y \in Seq(S)
  BY DEF SeqOf
<1>2. x \o y \in Seq(S) /\ Len(x \o y) = Len(x) + Len(y)
  BY <1>1, ConcatProperties
<1>3. \A i \in 1 .. Len(x) + Len(y) :
          (x \o y)[i] = IF i <= Len(x) THEN x[i] ELSE y[i - Len(x)]
  BY <1>1, ConcatProperties
<1> QED
  BY <1>2, <1>3 DEF SeqOf, Joins

LEMMA NamesDiffer ==
    /\ Len(Methods) = 14 /\ DOMAIN Methods = 1 .. 14
    /\ Len(Errors) = 10 /\ DOMAIN Errors = 1 .. 10
    /\ \A i, j \in 1 .. 14 : Methods[i] = Methods[j] => i = j
    /\ \A i, j \in 1 .. 10 : Errors[i] = Errors[j] => i = j
<1>1. Len(Methods) = 14 /\ DOMAIN Methods = 1 .. 14
  BY DEF Methods
<1>2. Len(Errors) = 10 /\ DOMAIN Errors = 1 .. 10
  BY DEF Errors
<1>3. \A i, j \in 1 .. 14 : Methods[i] = Methods[j] => i = j
  BY DEF Methods
<1>4. \A i, j \in 1 .. 10 : Errors[i] = Errors[j] => i = j
  BY DEF Errors
<1> QED
  BY <1>1, <1>2, <1>3, <1>4

LEMMA FieldsInOrder ==
    /\ Len(Fields) = 38 /\ DOMAIN Fields = 1 .. 38
    /\ \A i \in 1 .. 14 : /\ Fields[i] = <<"passed", Methods[i]>>
                          /\ Fields[14 + i] = <<"failed", Methods[i]>>
    /\ \A i \in 1 .. 10 : Fields[28 + i] = <<"error", Errors[i]>>
<1> DEFINE P == InOrder("passed", Methods)
           F == InOrder("failed", Methods)
           E == InOrder("error", Errors)
<1>1. /\ P = [i \in 1 .. 14 |-> <<"passed", Methods[i]>>]
      /\ F = [i \in 1 .. 14 |-> <<"failed", Methods[i]>>]
      /\ E = [i \in 1 .. 10 |-> <<"error", Errors[i]>>]
  BY NamesDiffer, Zenon DEF InOrder
<1> DEFINE S == {"passed", "failed", "error"} \X (Named(Methods) \cup Named(Errors))
<1>2. SeqOf(S, 14, P) /\ SeqOf(S, 14, F) /\ SeqOf(S, 10, E)
  <2>1. \A i \in 1 .. 14 : Methods[i] \in Named(Methods)
    BY NamesDiffer DEF Named
  <2>2. \A i \in 1 .. 10 : Errors[i] \in Named(Errors)
    BY NamesDiffer DEF Named
  <2> HIDE DEF P, F, E
  <2>3. P \in [1 .. 14 -> S] /\ F \in [1 .. 14 -> S] /\ E \in [1 .. 10 -> S]
    BY <1>1, <2>1, <2>2
  <2> HIDE DEF S
  <2>4. \A n \in Nat : \A f \in [1 .. n -> S] : SeqOf(S, n, f)
    BY DEF SeqOf
  <2> QED
    BY <2>3, <2>4
<1> HIDE DEF P, F, E, S
<1> DEFINE Q == P \o F
<1>4. Fields = Q \o E
  BY DEF Fields, P, F, E, Q
<1> HIDE DEF Q
<1>3. 14 \in Nat /\ 28 \in Nat /\ 10 \in Nat
  OBVIOUS
<1>5. /\ SeqOf(S, 28, Q)
      /\ \A i \in 1 .. 14 : Q[i] = P[i]
      /\ \A i \in 1 .. 14 : Q[14 + i] = F[i]
  <2>1. SeqOf(S, 14 + 14, Q) /\ Joins(Q, 14, P, 14, F)
    BY <1>2, <1>3, ConcatOf, Zenon DEF Q
  <2> QED
    BY <2>1 DEF Joins
<1>6. SeqOf(S, 28 + 10, Q \o E) /\ Joins(Q \o E, 28, Q, 10, E)
  BY <1>2, <1>3, <1>5, ConcatOf, Zenon
<1>7. /\ \A i \in 1 .. 28 : (Q \o E)[i] = Q[i]
      /\ \A i \in 1 .. 10 : (Q \o E)[28 + i] = E[i]
  BY <1>6 DEF Joins
<1>9. ASSUME NEW i \in 1 .. 14
      PROVE  /\ Fields[i] = <<"passed", Methods[i]>>
             /\ Fields[14 + i] = <<"failed", Methods[i]>>
  <2>1. i \in 1 .. 28 /\ 14 + i \in 1 .. 28
    OBVIOUS
  <2>2. Fields[i] = Q[i] /\ Fields[14 + i] = Q[14 + i]
    BY <1>4, <1>7, <2>1
  <2>3. Q[i] = P[i] /\ Q[14 + i] = F[i]
    BY <1>5
  <2> QED
    BY <1>1, <2>2, <2>3
<1>10. \A i \in 1 .. 10 : Fields[28 + i] = <<"error", Errors[i]>>
  BY <1>1, <1>4, <1>7
<1>11. Len(Fields) = 38 /\ DOMAIN Fields = 1 .. 38
  <2> DEFINE x == Q \o E
  <2> HIDE DEF x
  <2>1. x \in Seq(S) /\ Len(x) = 38
    BY <1>6 DEF SeqOf, x
  <2>2. Fields = x
    BY <1>4 DEF x
  <2> QED
    BY <2>1, <2>2
<1> QED
  BY <1>9, <1>10, <1>11

Kinds == {"passed", "failed", "error"}

NamesOf(kind) == IF kind = "error" THEN Errors ELSE Methods

Counters(m) ==
    m \in [passed : [Named(Methods) -> Nat], failed : [Named(Methods) -> Nat],
           error : [Named(Errors) -> Nat]]

\* The counters of a kind in the order in which they are copied.
Row(m, kind) == [i \in DOMAIN NamesOf(kind) |-> m[kind][NamesOf(kind)[i]]]

LEMMA NamesOfKind ==
    ASSUME NEW kind \in Kinds
    PROVE  /\ DOMAIN NamesOf(kind) = 1 .. Len(NamesOf(kind))
           /\ Len(NamesOf(kind)) \in Nat
           /\ \A i, j \in DOMAIN NamesOf(kind) :
                 NamesOf(kind)[i] = NamesOf(kind)[j] => i = j
<1>1. CASE kind = "error"
  <2>1. NamesOf(kind) = Errors
    BY <1>1 DEF NamesOf
  <2> QED
    BY <2>1, NamesDiffer
<1>2. CASE kind # "error"
  <2>1. NamesOf(kind) = Methods
    BY <1>2 DEF NamesOf
  <2> QED
    BY <2>1, NamesDiffer
<1> QED
  BY <1>1, <1>2

LEMMA CounterType ==
    ASSUME NEW m, Counters(m), NEW kind \in Kinds, NEW name \in Named(NamesOf(kind))
    PROVE  m[kind][name] \in Nat
<1>1. CASE kind = "error"
  BY <1>1 DEF NamesOf, Counters
<1>2. CASE kind = "passed"
  BY <1>2 DEF NamesOf, Counters
<1>3. CASE kind = "failed"
  BY <1>3 DEF NamesOf, Counters
<1> QED
  BY <1>1, <1>2, <1>3 DEF Kinds

LEMMA RowOfKind ==
    ASSUME NEW m, Counters(m), NEW kind \in Kinds
    PROVE  /\ Numbers(Row(m, kind)) /\ Len(Row(m, kind)) = Len(NamesOf(kind))
           /\ \A i \in 1 .. Len(NamesOf(kind)) :
                 Row(m, kind)[i] = m[kind][NamesOf(kind)[i]]
           /\ Total(m, kind) = SumOf(Row(m, kind))
<1> DEFINE names == NamesOf(kind)
           n == Len(names)
<1>1. DOMAIN names = 1 .. n /\ n \in Nat
  BY NamesOfKind
<1>2. \A i \in 1 .. n : m[kind][names[i]] \in Nat
  BY <1>1, CounterType DEF Named
<1>3. Total(m, kind) = SumOf(Row(m, kind))
  BY DEF Total, Row, NamesOf
<1> HIDE DEF n, names
<1>4. Row(m, kind) = [i \in 1 .. n |-> m[kind][names[i]]]
  BY <1>1, Zenon DEF Row, names
<1> DEFINE row == Row(m, kind)
<1> HIDE DEF row
<1>5. row = [i \in 1 .. n |-> m[kind][names[i]]]
  BY <1>4 DEF row
<1>6. row \in [1 .. n -> Nat]
  BY <1>2, <1>5
<1>7. Len(row) = n
  BY <1>1, <1>6
<1>8. \A i \in 1 .. n : row[i] = m[kind][names[i]]
  BY <1>5
<1> QED
  BY <1>1, <1>3, <1>6, <1>7, <1>8 DEF row, names, n, Numbers

LEMMA TotalType ==
    ASSUME NEW m, Counters(m), NEW kind \in Kinds
    PROVE  Total(m, kind) \in Nat
BY RowOfKind, SumType

\* After is before, with one more under that name.
CountsOne(before, after, kind, name) ==
    /\ Counters(after)
    /\ after[kind][name] = before[kind][name] + 1
    /\ \A k \in Kinds : \A x \in Named(NamesOf(k)) :
          <<k, x>> # <<kind, name>> => after[k][x] = before[k][x]

LEMMA CountingOne ==
    ASSUME NEW m, Counters(m), NEW kind \in Kinds, NEW name \in Named(NamesOf(kind))
    PROVE  CountsOne(m, Counting(m, kind, name), kind, name)
<1> DEFINE n == Counting(m, kind, name)
<1>1. m[kind][name] \in Nat
  BY CounterType
<1>2. CASE kind = "error"
  <2> DEFINE row == [m.error EXCEPT ![name] = @ + 1]
  <2>1. n = [m EXCEPT !.error = row]
    BY <1>2 DEF Counting
  <2>2. /\ row \in [Named(Errors) -> Nat] /\ row[name] = m.error[name] + 1
        /\ \A x \in Named(Errors) : x # name => row[x] = m.error[x]
    BY <1>1, <1>2 DEF Counters, NamesOf
  <2> HIDE DEF row, n
  <2>3. Counters(n) /\ n.error = row /\ n.passed = m.passed /\ n.failed = m.failed
    BY <2>1, <2>2 DEF Counters
  <2> QED
    BY <1>2, <2>2, <2>3 DEF CountsOne, Kinds, NamesOf, n
<1>3. CASE kind = "passed"
  <2> DEFINE row == [m.passed EXCEPT ![name] = @ + 1]
  <2>1. n = [m EXCEPT !.passed = row]
    BY <1>3 DEF Counting
  <2>2. /\ row \in [Named(Methods) -> Nat] /\ row[name] = m.passed[name] + 1
        /\ \A x \in Named(Methods) : x # name => row[x] = m.passed[x]
    BY <1>1, <1>3 DEF Counters, NamesOf
  <2> HIDE DEF row, n
  <2>3. Counters(n) /\ n.passed = row /\ n.error = m.error /\ n.failed = m.failed
    BY <2>1, <2>2 DEF Counters
  <2> QED
    BY <1>3, <2>2, <2>3 DEF CountsOne, Kinds, NamesOf, n
<1>4. CASE kind = "failed"
  <2> DEFINE row == [m.failed EXCEPT ![name] = @ + 1]
  <2>1. n = [m EXCEPT !.failed = row]
    BY <1>4 DEF Counting
  <2>2. /\ row \in [Named(Methods) -> Nat] /\ row[name] = m.failed[name] + 1
        /\ \A x \in Named(Methods) : x # name => row[x] = m.failed[x]
    BY <1>1, <1>4 DEF Counters, NamesOf
  <2> HIDE DEF row, n
  <2>3. Counters(n) /\ n.failed = row /\ n.error = m.error /\ n.passed = m.passed
    BY <2>1, <2>2 DEF Counters
  <2> QED
    BY <1>4, <2>2, <2>3 DEF CountsOne, Kinds, NamesOf, n
<1> QED
  BY <1>2, <1>3, <1>4 DEF Kinds

LEMMA CountedInTotal ==
    ASSUME NEW before, NEW after, Counters(before),
           NEW kind \in Kinds, NEW name \in Named(NamesOf(kind)),
           CountsOne(before, after, kind, name)
    PROVE  /\ Total(after, kind) = Total(before, kind) + 1
           /\ \A k \in Kinds : k # kind => Total(after, k) = Total(before, k)
<1>1. Counters(after)
  BY DEF CountsOne
<1>2. Total(after, kind) = Total(before, kind) + 1
  <2> DEFINE x == Row(before, kind)
             y == Row(after, kind)
             names == NamesOf(kind)
  <2>1. PICK j \in DOMAIN names : names[j] = name
    BY DEF Named
  <2>2. DOMAIN names = 1 .. Len(names)
    BY NamesOfKind
  <2>3. \A i \in 1 .. Len(names) : names[i] \in Named(names) /\ (names[i] = name => i = j)
    BY <2>1, <2>2, NamesOfKind DEF Named
  <2>4. /\ Numbers(x) /\ Len(x) = Len(names)
        /\ \A i \in 1 .. Len(names) : x[i] = before[kind][names[i]]
        /\ Total(before, kind) = SumOf(x)
    BY RowOfKind
  <2>5. /\ Numbers(y) /\ Len(y) = Len(names)
        /\ \A i \in 1 .. Len(names) : y[i] = after[kind][names[i]]
        /\ Total(after, kind) = SumOf(y)
    BY <1>1, RowOfKind
  <2> HIDE DEF x, y
  <2>6. y[j] = x[j] + 1
    BY <2>1, <2>2, <2>4, <2>5 DEF CountsOne
  <2>7. \A i \in 1 .. Len(names) : i # j => y[i] = x[i]
    BY <2>1, <2>3, <2>4, <2>5 DEF CountsOne
  <2>8. j \in 1 .. Len(x)
    BY <2>1, <2>2, <2>4
  <2> HIDE DEF names
  <2>9. SumOf(y) = SumOf(x) + 1
    BY <2>4, <2>5, <2>6, <2>7, <2>8, SumUp
  <2> QED
    BY <2>4, <2>5, <2>9
<1>3. ASSUME NEW k \in Kinds, k # kind
      PROVE  Total(after, k) = Total(before, k)
  <2> DEFINE x == Row(before, k)
             y == Row(after, k)
             names == NamesOf(k)
  <2>1. \A i \in 1 .. Len(names) : names[i] \in Named(names)
    BY NamesOfKind DEF Named
  <2>2. /\ Numbers(x) /\ Len(x) = Len(names)
        /\ \A i \in 1 .. Len(names) : x[i] = before[k][names[i]]
        /\ Total(before, k) = SumOf(x)
    BY RowOfKind
  <2>3. /\ Numbers(y) /\ Len(y) = Len(names)
        /\ \A i \in 1 .. Len(names) : y[i] = after[k][names[i]]
        /\ Total(after, k) = SumOf(y)
    BY <1>1, RowOfKind
  <2> HIDE DEF x, y
  <2>4. \A i \in 1 .. Len(names) : y[i] = x[i]
    BY <1>3, <2>1, <2>2, <2>3 DEF CountsOne
  <2> HIDE DEF names
  <2>5. SumOf(y) = SumOf(x)
    BY <2>2, <2>3, <2>4, SumSame
  <2> QED
    BY <2>2, <2>3, <2>5
<1> QED
  BY <1>2, <1>3

-------------------------------------------------------------------------------
(* Copying the counters while others move them.                             *)

LEMMA KindOfField ==
    ASSUME NEW i \in 1 .. 38
    PROVE  /\ Fields[i][1] \in Kinds
           /\ Fields[i][2] \in Named(NamesOf(Fields[i][1]))
           /\ Fields[i][1] = "passed" <=> i <= 14
           /\ Fields[i][1] = "error" <=> i > 28
<1>1. CASE i \in 1 .. 14
  <2>1. Fields[i] = <<"passed", Methods[i]>>
    BY <1>1, FieldsInOrder
  <2>2. Methods[i] \in Named(Methods)
    BY <1>1, NamesDiffer DEF Named
  <2> QED
    BY <1>1, <2>1, <2>2 DEF Kinds, NamesOf
<1>2. CASE i \in 15 .. 28
  <2> DEFINE j == i - 14
  <2>1. j \in 1 .. 14 /\ i = 14 + j
    BY <1>2
  <2> HIDE DEF j
  <2>2. Fields[i] = <<"failed", Methods[j]>>
    BY <2>1, FieldsInOrder
  <2>3. Methods[j] \in Named(Methods)
    BY <2>1, NamesDiffer DEF Named
  <2> QED
    BY <1>2, <2>2, <2>3 DEF Kinds, NamesOf
<1>3. CASE i \in 29 .. 38
  <2> DEFINE j == i - 28
  <2>1. j \in 1 .. 10 /\ i = 28 + j
    BY <1>3
  <2> HIDE DEF j
  <2>2. Fields[i] = <<"error", Errors[j]>>
    BY <2>1, FieldsInOrder
  <2>3. Errors[j] \in Named(Errors)
    BY <2>1, NamesDiffer DEF Named
  <2> QED
    BY <1>3, <2>2, <2>3 DEF Kinds, NamesOf
<1> QED
  BY <1>1, <1>2, <1>3

\* One number for each counter.
Copy(c) == Numbers(c) /\ Len(c) = 38

\* The counters in the order in which they are copied, as they are now.
CurrentOf(m) == [i \in 1 .. 38 |-> m[Fields[i][1]][Fields[i][2]]]

\* The copy that would result if nobody moved a counter any more.
SeenOf(c, m) == [i \in 1 .. 38 |-> IF i <= Len(c) THEN c[i] ELSE CurrentOf(m)[i]]

PartOf(c, kind) == [i \in DOMAIN c |-> IF Fields[i][1] = kind THEN c[i] ELSE 0]

LEMMA FullIsCopy ==
    ASSUME NEW c, c \in [1 .. 38 -> Nat]
    PROVE  Copy(c)
<1>1. Len(c) = 38
  OBVIOUS
<1> QED
  BY <1>1 DEF Copy, Numbers

LEMMA CopyIsFunction ==
    ASSUME NEW c, Copy(c)
    PROVE  c \in [1 .. 38 -> Nat]
BY DEF Copy, Numbers

LEMMA SameCopy ==
    ASSUME NEW x \in [1 .. 38 -> Nat], NEW y \in [1 .. 38 -> Nat],
           \A i \in 1 .. 38 : y[i] = x[i]
    PROVE  y = x
OBVIOUS

LEMMA CurrentIsCopy ==
    ASSUME NEW m, Counters(m)
    PROVE  /\ Copy(CurrentOf(m))
           /\ \A i \in 1 .. 38 : CurrentOf(m)[i] = m[Fields[i][1]][Fields[i][2]]
<1>1. \A i \in 1 .. 38 : m[Fields[i][1]][Fields[i][2]] \in Nat
  BY KindOfField, CounterType
<1>2. CurrentOf(m) \in [1 .. 38 -> Nat]
  BY <1>1 DEF CurrentOf
<1> QED
  BY <1>2, FullIsCopy DEF CurrentOf

LEMMA PartOfCopy ==
    ASSUME NEW c, Copy(c), NEW kind
    PROVE  /\ Copy(PartOf(c, kind))
           /\ \A i \in 1 .. 38 :
                 PartOf(c, kind)[i] = IF Fields[i][1] = kind THEN c[i] ELSE 0
           /\ TotalOfCopies(c, kind) = SumOf(PartOf(c, kind))
<1>1. c \in [1 .. 38 -> Nat]
  BY DEF Copy, Numbers
<1>2. PartOf(c, kind) = [i \in 1 .. 38 |-> IF Fields[i][1] = kind THEN c[i] ELSE 0]
  BY <1>1 DEF PartOf
<1>3. PartOf(c, kind) \in [1 .. 38 -> Nat]
  BY <1>1, <1>2
<1>4. TotalOfCopies(c, kind) = SumOf(PartOf(c, kind))
  BY DEF TotalOfCopies, PartOf
<1> QED
  BY <1>2, <1>3, <1>4, FullIsCopy

LEMMA CopiesType ==
    ASSUME NEW c, Copy(c), NEW kind
    PROVE  TotalOfCopies(c, kind) \in Nat
BY PartOfCopy, SumType DEF Copy

LEMMA CopiesBelow ==
    ASSUME NEW x, NEW y, Copy(x), Copy(y), NEW kind,
           \A i \in 1 .. 38 : Fields[i][1] = kind => x[i] <= y[i]
    PROVE  TotalOfCopies(x, kind) <= TotalOfCopies(y, kind)
<1> DEFINE a == PartOf(x, kind)
           b == PartOf(y, kind)
<1>1. /\ Copy(a) /\ TotalOfCopies(x, kind) = SumOf(a)
      /\ \A i \in 1 .. 38 : a[i] = IF Fields[i][1] = kind THEN x[i] ELSE 0
  BY PartOfCopy
<1>2. /\ Copy(b) /\ TotalOfCopies(y, kind) = SumOf(b)
      /\ \A i \in 1 .. 38 : b[i] = IF Fields[i][1] = kind THEN y[i] ELSE 0
  BY PartOfCopy
<1> HIDE DEF a, b
<1>3. \A i \in 1 .. 38 : a[i] <= b[i]
  BY <1>1, <1>2
<1>4. SumOf(a) <= SumOf(b)
  BY <1>1, <1>2, <1>3, SumBelow DEF Copy
<1> QED
  BY <1>1, <1>2, <1>4

\* What getData() copies when nobody interferes has the counters' own totals.
LEMMA CurrentTotals ==
    ASSUME NEW m, Counters(m), NEW kind \in Kinds
    PROVE  TotalOfCopies(CurrentOf(m), kind) = Total(m, kind)
<1> DEFINE x == PartOf(CurrentOf(m), kind)
           y == Row(m, kind)
           names == NamesOf(kind)
           a == IF kind = "passed" THEN 0 ELSE IF kind = "failed" THEN 14 ELSE 28
<1>1. /\ Copy(x) /\ TotalOfCopies(CurrentOf(m), kind) = SumOf(x)
      /\ \A i \in 1 .. 38 : x[i] = IF Fields[i][1] = kind
                                    THEN m[Fields[i][1]][Fields[i][2]] ELSE 0
  <2> DEFINE current == CurrentOf(m)
  <2>1. /\ Copy(current)
        /\ \A i \in 1 .. 38 : current[i] = m[Fields[i][1]][Fields[i][2]]
    BY CurrentIsCopy
  <2> HIDE DEF current
  <2>2. /\ Copy(PartOf(current, kind))
        /\ \A i \in 1 .. 38 :
              PartOf(current, kind)[i] = IF Fields[i][1] = kind THEN current[i] ELSE 0
        /\ TotalOfCopies(current, kind) = SumOf(PartOf(current, kind))
    BY <2>1, PartOfCopy
  <2>3. x = PartOf(current, kind) /\ CurrentOf(m) = current
    BY DEF current
  <2> HIDE DEF x
  <2> QED
    BY <2>1, <2>2, <2>3
<1>2. /\ Numbers(y) /\ Len(y) = Len(names)
      /\ \A i \in 1 .. Len(names) : y[i] = m[kind][names[i]]
      /\ Total(m, kind) = SumOf(y)
  BY RowOfKind
<1>3. /\ a \in Nat
      /\ a + Len(names) <= 38
      /\ \A i \in 1 .. Len(names) : Fields[a + i] = <<kind, names[i]>>
      /\ \A i \in 1 .. 38 : i <= a \/ i > a + Len(names) => Fields[i][1] # kind
  <2>1. CASE kind = "passed"
    <3>1. a = 0 /\ names = Methods /\ Len(names) = 14
      BY <2>1, NamesDiffer DEF NamesOf
    <3> HIDE DEF a, names
    <3> QED
      BY <2>1, <3>1, FieldsInOrder, KindOfField
  <2>2. CASE kind = "failed"
    <3>1. a = 14 /\ names = Methods /\ Len(names) = 14
      BY <2>2, NamesDiffer DEF NamesOf
    <3> HIDE DEF a, names
    <3> QED
      BY <2>2, <3>1, FieldsInOrder, KindOfField
  <2>3. CASE kind = "error"
    <3>1. a = 28 /\ names = Errors /\ Len(names) = 10
      BY <2>3, NamesDiffer DEF NamesOf
    <3> HIDE DEF a, names
    <3> QED
      BY <2>3, <3>1, FieldsInOrder, KindOfField
  <2> QED
    BY <2>1, <2>2, <2>3 DEF Kinds
<1> HIDE DEF x, y, a, names
<1>4. Numbers(x) /\ Len(x) = 38
  BY <1>1 DEF Copy
<1>5. Len(names) \in Nat
  BY <1>2 DEF Numbers
<1>6. ASSUME NEW i \in 1 .. Len(y)
      PROVE  x[a + i] = y[i]
  <2>1. a + i \in 1 .. 38 /\ i \in 1 .. Len(names)
    BY <1>2, <1>3, <1>5
  <2>2. Fields[a + i] = <<kind, names[i]>>
    BY <1>3, <2>1
  <2>3. x[a + i] = m[kind][names[i]]
    <3>1. Fields[a + i][1] = kind /\ Fields[a + i][2] = names[i]
      BY <2>2
    <3> QED
      BY <1>1, <2>1, <3>1, Zenon
  <2> QED
    BY <1>2, <2>1, <2>3
<1>7. \A i \in 1 .. Len(x) : i <= a \/ i > a + Len(y) => x[i] = 0
  BY <1>1, <1>2, <1>3, <1>4
<1>8. SumOf(x) = SumOf(y)
  <2>1. a + Len(y) <= Len(x)
    BY <1>2, <1>3, <1>4
  <2> QED
    BY <1>2, <1>3, <1>4, <1>6, <1>7, <2>1, SumPart, Zenon
<1> QED
  BY <1>1, <1>2, <1>8

\* A copy under way: what has been copied is not ahead of the counters; with
\* what is still to be copied it has all that had been counted when it was asked
\* for; and once the errors' turn has come, the failures in it, which stay, are
\* outnumbered by the errors, which do not, but for the slack.
Reading(c, m, asked, slack) ==
    /\ Numbers(c) /\ Len(c) <= 38
    /\ \A i \in 1 .. Len(c) : c[i] <= CurrentOf(m)[i]
    /\ asked <= TotalOfCopies(SeenOf(c, m), "passed") + TotalOfCopies(SeenOf(c, m), "failed")
    /\ Len(c) >= 28 =>
          TotalOfCopies(SeenOf(c, m), "failed")
              <= TotalOfCopies(SeenOf(c, m), "error") + slack

LEMMA SeenIsCopy ==
    ASSUME NEW c, Numbers(c), Len(c) <= 38, NEW m, Counters(m)
    PROVE  /\ Copy(SeenOf(c, m))
           /\ \A i \in 1 .. 38 :
                 SeenOf(c, m)[i] = IF i <= Len(c) THEN c[i] ELSE CurrentOf(m)[i]
<1>1. CurrentOf(m) \in [1 .. 38 -> Nat]
  BY CurrentIsCopy DEF Copy, Numbers
<1>2. \A i \in 1 .. 38 : (IF i <= Len(c) THEN c[i] ELSE CurrentOf(m)[i]) \in Nat
  <2>1. \A i \in 1 .. 38 : CurrentOf(m)[i] \in Nat
    BY <1>1
  <2>2. \A i \in 1 .. Len(c) : c[i] \in Nat
    BY DEF Numbers
  <2>3. Len(c) \in Nat
    BY DEF Numbers
  <2> SUFFICES ASSUME NEW i \in 1 .. 38
               PROVE  (IF i <= Len(c) THEN c[i] ELSE CurrentOf(m)[i]) \in Nat
    OBVIOUS
  <2>4. CASE i <= Len(c)
    <3>1. i \in 1 .. Len(c)
      BY <2>3, <2>4
    <3> QED
      BY <2>2, <2>4, <3>1
  <2>5. CASE ~(i <= Len(c))
    BY <2>1, <2>5
  <2> QED
    BY <2>4, <2>5
<1>3. SeenOf(c, m) \in [1 .. 38 -> Nat]
  BY <1>2 DEF SeenOf
<1> QED
  BY <1>3, FullIsCopy DEF SeenOf

LEMMA ReadingBegins ==
    ASSUME NEW m, Counters(m), NEW asked \in Nat, NEW slack \in Nat,
           asked <= Total(m, "passed") + Total(m, "failed")
    PROVE  Reading(<<>>, m, asked, slack)
<1> DEFINE c == <<>>
           seen == SeenOf(c, m)
           cur == CurrentOf(m)
<1>1. Numbers(c) /\ Len(c) = 0
  BY DEF Numbers
<1> HIDE DEF c
<1>2. Copy(seen) /\ \A i \in 1 .. 38 : seen[i] = cur[i]
  <2>1. /\ Copy(seen)
        /\ \A i \in 1 .. 38 : seen[i] = IF i <= Len(c) THEN c[i] ELSE cur[i]
    <3>1. Len(c) <= 38
      BY <1>1
    <3> QED
      BY <1>1, <3>1, SeenIsCopy, Zenon
  <2> HIDE DEF seen, cur
  <2> QED
    BY <1>1, <2>1
<1>3. Copy(cur)
  BY CurrentIsCopy
<1>4. "passed" \in Kinds /\ "failed" \in Kinds
  BY DEF Kinds
<1>5. ASSUME NEW kind \in Kinds
      PROVE  TotalOfCopies(seen, kind) = Total(m, kind)
  <2>1. TotalOfCopies(cur, kind) = Total(m, kind)
    BY CurrentTotals
  <2> HIDE DEF cur, seen
  <2>2. seen = cur
    BY <1>2, <1>3 DEF Copy, Numbers
  <2> QED
    BY <2>1, <2>2
<1>6. asked <= TotalOfCopies(seen, "passed") + TotalOfCopies(seen, "failed")
  BY <1>4, <1>5
<1>7. Reading(c, m, asked, slack)
  BY <1>1, <1>6 DEF Reading
<1> QED
  BY <1>7 DEF c

\* No counter of after is behind that of before.
Grows(before, after) ==
    /\ Counters(after)
    /\ \A kind \in Kinds : \A name \in Named(NamesOf(kind)) :
          before[kind][name] <= after[kind][name]

LEMMA CountingGrows ==
    ASSUME NEW before, NEW after, Counters(before),
           NEW kind \in Kinds, NEW name \in Named(NamesOf(kind)),
           CountsOne(before, after, kind, name)
    PROVE  Grows(before, after)
<1>1. ASSUME NEW k \in Kinds, NEW x \in Named(NamesOf(k))
      PROVE  before[k][x] <= after[k][x]
  <2>1. before[k][x] \in Nat
    BY CounterType
  <2>2. CASE <<k, x>> = <<kind, name>>
    BY <2>1, <2>2 DEF CountsOne
  <2>3. CASE <<k, x>> # <<kind, name>>
    BY <2>1, <2>3 DEF CountsOne
  <2> QED
    BY <2>2, <2>3
<1> QED
  BY <1>1 DEF Grows, CountsOne

LEMMA CurrentGrows ==
    ASSUME NEW before, NEW after, Counters(before), Grows(before, after),
           NEW i \in 1 .. 38
    PROVE  CurrentOf(before)[i] <= CurrentOf(after)[i]
<1>1. Fields[i][1] \in Kinds /\ Fields[i][2] \in Named(NamesOf(Fields[i][1]))
  BY KindOfField
<1>2. /\ CurrentOf(before)[i] = before[Fields[i][1]][Fields[i][2]]
      /\ CurrentOf(after)[i] = after[Fields[i][1]][Fields[i][2]]
  BY CurrentIsCopy DEF Grows
<1> QED
  BY <1>1, <1>2 DEF Grows

\* Others count meanwhile.
LEMMA ReadingGoesOn ==
    ASSUME NEW c, NEW before, NEW after, NEW asked \in Nat, NEW slack \in Nat,
           Counters(before), Grows(before, after),
           Reading(c, before, asked, slack)
    PROVE  Reading(c, after, asked, slack)
<1> DEFINE x == SeenOf(c, before)
           y == SeenOf(c, after)
           n == Len(c)
<1>0. Counters(after)
  BY DEF Grows
<1>1. /\ Numbers(c) /\ n <= 38 /\ n \in Nat
      /\ \A i \in 1 .. n : c[i] \in Nat /\ c[i] <= CurrentOf(before)[i]
      /\ asked <= TotalOfCopies(x, "passed") + TotalOfCopies(x, "failed")
      /\ n >= 28 => TotalOfCopies(x, "failed") <= TotalOfCopies(x, "error") + slack
  BY DEF Reading, Numbers
<1>2. /\ Copy(x)
      /\ \A i \in 1 .. 38 : x[i] = IF i <= n THEN c[i] ELSE CurrentOf(before)[i]
  BY <1>1, SeenIsCopy
<1>3. /\ Copy(y)
      /\ \A i \in 1 .. 38 : y[i] = IF i <= n THEN c[i] ELSE CurrentOf(after)[i]
  BY <1>0, <1>1, SeenIsCopy
<1>4. /\ \A i \in 1 .. 38 : CurrentOf(before)[i] \in Nat /\ CurrentOf(after)[i] \in Nat
      /\ \A i \in 1 .. 38 : CurrentOf(before)[i] <= CurrentOf(after)[i]
  BY <1>0, CurrentIsCopy, CurrentGrows DEF Copy, Numbers
<1> HIDE DEF x, y, n
<1>5. \A i \in 1 .. 38 : x[i] <= y[i]
  BY <1>1, <1>2, <1>3, <1>4
<1>6. \A kind : /\ TotalOfCopies(x, kind) <= TotalOfCopies(y, kind)
                /\ TotalOfCopies(x, kind) \in Nat /\ TotalOfCopies(y, kind) \in Nat
  BY <1>2, <1>3, <1>5, CopiesBelow, CopiesType
<1>7. asked <= TotalOfCopies(y, "passed") + TotalOfCopies(y, "failed")
  BY <1>1, <1>6
<1>8. ASSUME n >= 28
      PROVE  TotalOfCopies(y, "failed") <= TotalOfCopies(y, "error") + slack
  <2>1. \A i \in 1 .. 38 : Fields[i][1] = "failed" => i <= 28
    BY KindOfField
  <2>2. \A i \in 1 .. 38 : Fields[i][1] = "failed" => y[i] <= x[i]
    BY <1>1, <1>2, <1>3, <1>8, <2>1
  <2>3. TotalOfCopies(y, "failed") <= TotalOfCopies(x, "failed")
    BY <1>2, <1>3, <2>2, CopiesBelow
  <2> QED
    BY <1>1, <1>6, <1>8, <2>3
<1>9. \A i \in 1 .. n : c[i] <= CurrentOf(after)[i]
  BY <1>1, <1>4
<1> QED
  BY <1>1, <1>7, <1>8, <1>9 DEF Reading, n, y

LEMMA AppendNumber ==
    ASSUME NEW c, Numbers(c), NEW v \in Nat
    PROVE  /\ Numbers(Append(c, v)) /\ Len(Append(c, v)) = Len(c) + 1
           /\ Append(c, v)[Len(c) + 1] = v
           /\ \A i \in 1 .. Len(c) : Append(c, v)[i] = c[i]
<1>1. c \in Seq(Nat)
  BY DEF Numbers
<1>2. Append(c, v) \in Seq(Nat) /\ Len(Append(c, v)) = Len(c) + 1
  BY <1>1
<1>3. Append(c, v)[Len(c) + 1] = v /\ \A i \in 1 .. Len(c) : Append(c, v)[i] = c[i]
  BY <1>1
<1>4. \A d \in Seq(Nat) : Numbers(d)
  BY DEF Numbers
<1> QED
  BY <1>2, <1>3, <1>4

CopiesField(c, m, v) == v = CurrentOf(m)[Len(c) + 1]

\* The next counter is copied.  When it is the first of the errors, the failures
\* in the copy are no more than have been counted.
LEMMA ReadingAppends ==
    ASSUME NEW c, NEW m, NEW asked \in Nat, NEW slack \in Nat,
           Counters(m), Reading(c, m, asked, slack), Len(c) < 38,
           Total(m, "failed") <= Total(m, "error") + slack,
           NEW v, CopiesField(c, m, v)
    PROVE  Reading(Append(c, v), m, asked, slack)
<1> DEFINE d == Append(c, v)
           x == SeenOf(c, m)
           y == SeenOf(d, m)
           cur == CurrentOf(m)
           n == Len(c)
<1>1. /\ Numbers(c) /\ n < 38 /\ n \in Nat
      /\ \A i \in 1 .. n : c[i] <= cur[i]
      /\ asked <= TotalOfCopies(x, "passed") + TotalOfCopies(x, "failed")
      /\ n >= 28 => TotalOfCopies(x, "failed") <= TotalOfCopies(x, "error") + slack
  BY DEF Reading, Numbers
<1>2. Copy(cur) /\ cur \in [1 .. 38 -> Nat]
  BY CurrentIsCopy DEF Copy, Numbers
<1>8. v = cur[n + 1]
  BY DEF CopiesField
<1>3. v \in Nat
  <2> HIDE DEF cur, n
  <2>1. n + 1 \in 1 .. 38
    BY <1>1
  <2> QED
    BY <1>2, <1>8, <2>1
<1>4. /\ Numbers(d) /\ Len(d) = n + 1
      /\ d[n + 1] = v /\ \A i \in 1 .. n : d[i] = c[i]
  BY <1>1, <1>3, AppendNumber
<1>5. /\ Copy(x)
      /\ \A i \in 1 .. 38 : x[i] = IF i <= n THEN c[i] ELSE cur[i]
  BY <1>1, SeenIsCopy
<1>6. /\ Copy(y)
      /\ \A i \in 1 .. 38 : y[i] = IF i <= Len(d) THEN d[i] ELSE cur[i]
  <2>1. Len(d) <= 38
    BY <1>1, <1>4
  <2> HIDE DEF d
  <2> QED
    BY <1>4, <2>1, SeenIsCopy
<1>7. TotalOfCopies(cur, "failed") <= TotalOfCopies(cur, "error") + slack
  BY CurrentTotals DEF Kinds
<1> HIDE DEF n, d, x, y, cur
<1>9. \A i \in 1 .. 38 : y[i] = x[i]
  <2> SUFFICES ASSUME NEW i \in 1 .. 38 PROVE y[i] = x[i]
    OBVIOUS
  <2>1. CASE i <= n
    <3>1. i \in 1 .. n /\ i <= n + 1
      BY <1>1, <2>1
    <3> QED
      BY <1>4, <1>5, <1>6, <2>1, <3>1
  <2>2. CASE i = n + 1
    <3>1. y[i] = v
      <4>1. i <= Len(d)
        BY <1>1, <1>4, <2>2
      <4>2. y[i] = d[i]
        BY <1>6, <4>1, Zenon
      <4> QED
        BY <1>4, <2>2, <4>2, Zenon
    <3>2. x[i] = cur[i]
      <4>1. ~(i <= n)
        BY <1>1, <2>2
      <4> QED
        BY <1>5, <4>1, Zenon
    <3> QED
      BY <1>8, <2>2, <3>1, <3>2
  <2>3. CASE i > n + 1
    <3>1. ~(i <= n) /\ ~(i <= n + 1)
      BY <1>1, <2>3
    <3> QED
      BY <1>4, <1>5, <1>6, <3>1
  <2> QED
    BY <1>1, <2>1, <2>2, <2>3
<1>10. y = x
  <2>1. x \in [1 .. 38 -> Nat] /\ y \in [1 .. 38 -> Nat]
    BY <1>5, <1>6, CopyIsFunction, Zenon
  <2> QED
    BY <1>9, <2>1, SameCopy
<1>11. \A i \in 1 .. n + 1 : d[i] <= cur[i]
  <2> SUFFICES ASSUME NEW i \in 1 .. n + 1 PROVE d[i] <= cur[i]
    OBVIOUS
  <2>1. CASE i \in 1 .. n
    BY <1>1, <1>4, <2>1
  <2>2. CASE i = n + 1
    <3>1. v <= v
      BY <1>3
    <3> QED
      BY <1>4, <1>8, <2>2, <3>1, Zenon
  <2> QED
    BY <1>1, <2>1, <2>2
<1>12. ASSUME n + 1 >= 28
       PROVE  TotalOfCopies(x, "failed") <= TotalOfCopies(x, "error") + slack
  <2>1. CASE n >= 28
    BY <1>1, <2>1
  <2>2. CASE n = 27
    <3>1. \A i \in 1 .. 38 : x[i] <= cur[i] /\ (i > 28 => x[i] = cur[i])
      <4> SUFFICES ASSUME NEW i \in 1 .. 38
                   PROVE  x[i] <= cur[i] /\ (i > 28 => x[i] = cur[i])
        OBVIOUS
      <4>1. cur[i] \in Nat
        BY <1>2
      <4>2. CASE i \in 1 .. n
        <5>1. i <= n /\ i <= 28 /\ ~(i > 28)
          BY <2>2, <4>2
        <5>2. x[i] = c[i]
          BY <1>5, <5>1, Zenon
        <5>3. c[i] <= cur[i]
          BY <1>1, <4>2, Zenon
        <5> QED
          BY <5>1, <5>2, <5>3, Zenon
      <4>3. CASE i > n
        <5>1. ~(i <= n)
          BY <1>1, <4>3
        <5> QED
          <6>1. x[i] = cur[i]
            BY <1>5, <5>1, Zenon
          <6>2. cur[i] <= cur[i]
            BY <4>1
          <6> QED
            BY <6>1, <6>2, Zenon
      <4> QED
        BY <1>1, <4>2, <4>3
    <3>2. TotalOfCopies(x, "failed") <= TotalOfCopies(cur, "failed")
      BY <1>2, <1>5, <3>1, CopiesBelow
    <3>3. \A i \in 1 .. 38 : Fields[i][1] = "error" => i > 28
      BY KindOfField
    <3>4. \A i \in 1 .. 38 : Fields[i][1] = "error" => cur[i] <= x[i]
      BY <1>2, <3>1, <3>3
    <3>5. TotalOfCopies(cur, "error") <= TotalOfCopies(x, "error")
      BY <1>2, <1>5, <3>4, CopiesBelow
    <3>6. /\ TotalOfCopies(x, "failed") \in Nat /\ TotalOfCopies(x, "error") \in Nat
          /\ TotalOfCopies(cur, "failed") \in Nat /\ TotalOfCopies(cur, "error") \in Nat
      BY <1>2, <1>5, CopiesType
    <3> QED
      BY <1>7, <3>2, <3>5, <3>6
  <2> QED
    BY <1>1, <1>12, <2>1, <2>2
<1>13. Numbers(d) /\ Len(d) = n + 1 /\ Len(d) <= 38
  BY <1>1, <1>4
<1>14. Reading(d, m, asked, slack)
  BY <1>1, <1>10, <1>11, <1>12, <1>13 DEF Reading, cur, y
<1> QED
  BY <1>14 DEF d

\* The copy is complete.
LEMMA ReadingEnds ==
    ASSUME NEW c, NEW m, NEW asked \in Nat, NEW slack \in Nat,
           Counters(m), Reading(c, m, asked, slack), Len(c) = 38
    PROVE  /\ asked <= TotalOfCopies(c, "passed") + TotalOfCopies(c, "failed")
           /\ TotalOfCopies(c, "failed") <= TotalOfCopies(c, "error") + slack
<1> DEFINE x == SeenOf(c, m)
<1>1. Copy(c)
  BY DEF Reading, Copy
<1>2. /\ Copy(x)
      /\ \A i \in 1 .. 38 : x[i] = IF i <= Len(c) THEN c[i] ELSE CurrentOf(m)[i]
  <2>1. Numbers(c) /\ Len(c) <= 38
    BY DEF Reading
  <2> QED
    BY <2>1, SeenIsCopy, Zenon
<1>3. /\ asked <= TotalOfCopies(x, "passed") + TotalOfCopies(x, "failed")
      /\ TotalOfCopies(x, "failed") <= TotalOfCopies(x, "error") + slack
  <2>1. Len(c) >= 28
    OBVIOUS
  <2> QED
    BY <2>1 DEF Reading
<1> HIDE DEF x
<1>4. \A i \in 1 .. 38 : x[i] = c[i]
  BY <1>2
<1>5. x = c
  <2>1. x \in [1 .. 38 -> Nat] /\ c \in [1 .. 38 -> Nat]
    BY <1>1, <1>2, CopyIsFunction
  <2> QED
    BY <1>4, <2>1
<1> QED
  BY <1>3, <1>5

-------------------------------------------------------------------------------
(* The invariant.                                                           *)

Places == {"idle", "store", "copy", "count", "error"}

Ledger == [made : Nat, statistics : Nat, counted : Nat,
           since : [Thread -> Nat]]

\* The threads at a place, and how many they are.
At(a, place) == {t \in Thread : a[t] = place}
Crowd(a, place) == Cardinality(At(a, place))

\* The counters, and the requests under way, account for every request.
Books(a, m, l) ==
    /\ Total(m, "passed") + Total(m, "failed") = l.counted + Crowd(a, "error")
    /\ Total(m, "failed") <= Total(m, "error") + Crowd(a, "error")

\* What a thread that counts relies on: it can tell the method, and the error.
Countable(place, r, o) ==
    /\ place \in {"count", "error"} => r.cmd \in DOMAIN MethodOf
    /\ place = "error" => convertStoreError(o.res) # "OK"

\* A thread has copies while it copies, and not otherwise.
Page(place, c, m, since) ==
    /\ place # "copy" => c = <<>>
    /\ place = "copy" => Reading(c, m, since, Cardinality(Thread) - 1)

OverThreads(f) == f = [t \in Thread |-> f[t]]

CInv ==
    /\ at \in [Thread -> Places] /\ Counters(monitoring) /\ log \in Ledger
    /\ OverThreads(request) /\ OverThreads(outcome) /\ OverThreads(copies)
    /\ Books(at, monitoring, log)
    /\ \A t \in Thread : Countable(at[t], request[t], outcome[t])
    /\ \A t \in Thread : Page(at[t], copies[t], monitoring, log.since[t])

-------------------------------------------------------------------------------
(* The steps.                                                               *)

LEMMA CrowdType ==
    ASSUME NEW a, NEW place
    PROVE  /\ IsFiniteSet(At(a, place))
           /\ Crowd(a, place) \in Nat /\ Crowd(a, place) <= Cardinality(Thread)
           /\ \A t \in Thread : a[t] # place => Crowd(a, place) <= Cardinality(Thread) - 1
<1>1. At(a, place) \in SUBSET Thread
  BY DEF At
<1>2. IsFiniteSet(At(a, place)) /\ Crowd(a, place) <= Cardinality(Thread)
  BY <1>1, FiniteAssumption, FS_Subset DEF Crowd
<1>3. Crowd(a, place) \in Nat /\ Cardinality(Thread) \in Nat
  BY <1>2, FiniteAssumption, FS_CardinalityType DEF Crowd
<1>4. ASSUME NEW t \in Thread, a[t] # place
      PROVE  Crowd(a, place) <= Cardinality(Thread) - 1
  <2>1. t \notin At(a, place)
    BY <1>4 DEF At
  <2>2. At(a, place) # Thread
    BY <2>1
  <2>3. Crowd(a, place) # Cardinality(Thread)
    BY <1>1, <2>2, FiniteAssumption, FS_Subset DEF Crowd
  <2> QED
    BY <1>2, <1>3, <2>3
<1> QED
  BY <1>2, <1>3, <1>4

\* A thread goes from here to there.
Walks(a, b, t, here, there) ==
    /\ a[t] = here /\ b[t] = there /\ b \in [Thread -> Places]
    /\ \A u \in Thread : u # t => b[u] = a[u]
    /\ Crowd(b, here) = Crowd(a, here) - 1
    /\ Crowd(b, there) = Crowd(a, there) + 1
    /\ \A place \in Places \ {here, there} : Crowd(b, place) = Crowd(a, place)

LEMMA StepWalks ==
    ASSUME at \in [Thread -> Places], NEW t \in Thread,
           NEW here, NEW there \in Places, here # there,
           Step(t, here, there)
    PROVE  Walks(at, at', t, here, there)
<1> DEFINE a == at
           b == at'
<1>1. /\ a[t] = here /\ b[t] = there /\ b \in [Thread -> Places]
      /\ \A u \in Thread : u # t => b[u] = a[u]
  BY DEF Step
<1> HIDE DEF a, b
<1>2. Crowd(b, here) = Crowd(a, here) - 1
  <2>1. \A u : u \in At(b, here) <=> u \in At(a, here) \ {t}
    BY <1>1 DEF At
  <2>2. At(b, here) = At(a, here) \ {t}
    BY <2>1
  <2>3. t \in At(a, here)
    BY <1>1 DEF At
  <2> QED
    BY <2>2, <2>3, CrowdType, FS_RemoveElement DEF Crowd
<1>3. Crowd(b, there) = Crowd(a, there) + 1
  <2>1. \A u : u \in At(b, there) <=> u \in At(a, there) \cup {t}
    BY <1>1 DEF At
  <2>2. At(b, there) = At(a, there) \cup {t}
    BY <2>1
  <2>3. t \notin At(a, there)
    BY <1>1 DEF At
  <2> QED
    BY <2>2, <2>3, CrowdType, FS_AddElement DEF Crowd
<1>4. ASSUME NEW place \in Places \ {here, there}
      PROVE  Crowd(b, place) = Crowd(a, place)
  <2>1. \A u : u \in At(b, place) <=> u \in At(a, place)
    BY <1>1 DEF At
  <2>2. At(b, place) = At(a, place)
    BY <2>1
  <2> QED
    BY <2>2 DEF Crowd
<1>5. Walks(a, b, t, here, there)
  BY <1>1, <1>2, <1>3, <1>4 DEF Walks
<1> QED
  BY <1>5 DEF a, b

\* The numbers of the log that matter, after a step.
Entered(l, counted, since) ==
    l \in Ledger /\ l.counted = counted /\ l.since = since

LEMMA LogEntries ==
    ASSUME NEW l \in Ledger
    PROVE  /\ l.counted \in Nat /\ l.since \in [Thread -> Nat]
           /\ Entered([l EXCEPT !.made = @ + 1], l.counted, l.since)
           /\ Entered([l EXCEPT !.counted = @ + 1], l.counted + 1, l.since)
<1>1. /\ l.made \in Nat /\ l.statistics \in Nat
      /\ l.counted \in Nat /\ l.since \in [Thread -> Nat]
  BY DEF Ledger
<1>2. Entered([l EXCEPT !.made = @ + 1], l.counted, l.since)
  BY <1>1 DEF Entered, Ledger
<1>3. Entered([l EXCEPT !.counted = @ + 1], l.counted + 1, l.since)
  BY <1>1 DEF Entered, Ledger
<1> QED
  BY <1>1, <1>2, <1>3

LEMMA LogSince ==
    ASSUME NEW l \in Ledger, NEW t \in Thread, NEW n \in Nat
    PROVE  /\ [l.since EXCEPT ![t] = n] \in [Thread -> Nat]
           /\ Entered([l EXCEPT !.statistics = @ + 1, !.since[t] = n],
                      l.counted, [l.since EXCEPT ![t] = n])
           /\ Entered([l EXCEPT !.since[t] = n],
                      l.counted, [l.since EXCEPT ![t] = n])
<1> DEFINE since == [l.since EXCEPT ![t] = n]
<1>1. /\ l.made \in Nat /\ l.statistics \in Nat
      /\ l.counted \in Nat /\ l.since \in [Thread -> Nat]
  BY DEF Ledger
<1>2. since \in [Thread -> Nat]
  BY <1>1
<1>3. /\ [l EXCEPT !.statistics = @ + 1, !.since[t] = n]
           = [l EXCEPT !.statistics = @ + 1, !.since = since]
      /\ [l EXCEPT !.since[t] = n] = [l EXCEPT !.since = since]
  BY DEF Ledger
<1> HIDE DEF since
<1>4. Entered([l EXCEPT !.statistics = @ + 1, !.since = since],
              l.counted, since)
  <2> DEFINE k == [l EXCEPT !.statistics = @ + 1]
  <2>1. k \in Ledger /\ k.counted = l.counted
    BY <1>1 DEF Ledger
  <2>2. [l EXCEPT !.statistics = @ + 1, !.since = since] = [k EXCEPT !.since = since]
    BY DEF Ledger
  <2> HIDE DEF k
  <2>3. Entered([k EXCEPT !.since = since], l.counted, since)
    BY <1>2, <2>1 DEF Entered, Ledger
  <2> QED
    BY <2>2, <2>3
<1>5. Entered([l EXCEPT !.since = since], l.counted, since)
  BY <1>1, <1>2 DEF Entered, Ledger
<1>6. /\ Entered([l EXCEPT !.statistics = @ + 1, !.since[t] = n],
                 l.counted, since)
      /\ Entered([l EXCEPT !.since[t] = n], l.counted, since)
  BY <1>3, <1>4, <1>5
<1> QED
  BY <1>2, <1>6 DEF since

\* A step of one thread disturbs no other thread's part of the invariant, as
\* long as the counters do not fall.
StepOf(t) ==
    /\ \A u \in Thread : u # t =>
          /\ at'[u] = at[u] /\ request'[u] = request[u] /\ outcome'[u] = outcome[u]
          /\ copies'[u] = copies[u] /\ log'.since[u] = log.since[u]
    /\ monitoring' = monitoring \/ Grows(monitoring, monitoring')

\* The parts that are the thread's own, afterwards.
OwnPart(t) ==
    /\ Countable(at'[t], request'[t], outcome'[t])
    /\ Page(at'[t], copies'[t], monitoring', log'.since[t])

LEMMA PageGoesOn ==
    ASSUME NEW place, NEW c, NEW before, NEW after, NEW since \in Nat,
           Thread # {}, Counters(before), before = after \/ Grows(before, after),
           Page(place, c, before, since)
    PROVE  Page(place, c, after, since)
<1>1. CASE before = after
  BY <1>1
<1>2. CASE Grows(before, after) /\ place = "copy"
  <2>1. Cardinality(Thread) - 1 \in Nat
    BY FiniteAssumption, FS_CardinalityType, FS_EmptySet
  <2>2. Reading(c, before, since, Cardinality(Thread) - 1)
    BY <1>2 DEF Page
  <2>3. Reading(c, after, since, Cardinality(Thread) - 1)
    BY <1>2, <2>1, <2>2, ReadingGoesOn
  <2> QED
    BY <1>2, <2>3 DEF Page
<1>3. CASE place # "copy"
  BY <1>3 DEF Page
<1> QED
  BY <1>1, <1>2, <1>3

LEMMA OthersUndisturbed ==
    ASSUME CInv, NEW t \in Thread, StepOf(t), OwnPart(t)
    PROVE  \A u \in Thread : /\ Countable(at'[u], request'[u], outcome'[u])
                             /\ Page(at'[u], copies'[u], monitoring', log'.since[u])
<1> SUFFICES ASSUME NEW u \in Thread
             PROVE  /\ Countable(at'[u], request'[u], outcome'[u])
                    /\ Page(at'[u], copies'[u], monitoring', log'.since[u])
  OBVIOUS
<1>1. CASE u = t
  BY <1>1 DEF OwnPart
<1>2. CASE u # t
  <2>1. /\ at'[u] = at[u] /\ request'[u] = request[u] /\ outcome'[u] = outcome[u]
        /\ copies'[u] = copies[u] /\ log'.since[u] = log.since[u]
    BY <1>2 DEF StepOf
  <2>2. Countable(at[u], request[u], outcome[u])
    BY DEF CInv
  <2>3. /\ Page(at[u], copies[u], monitoring, log.since[u]) /\ Counters(monitoring)
        /\ log.since[u] \in Nat
    BY LogEntries DEF CInv
  <2>4. monitoring = monitoring' \/ Grows(monitoring, monitoring')
    BY DEF StepOf
  <2>5. Page(at[u], copies[u], monitoring', log.since[u])
    BY <2>3, <2>4, PageGoesOn
  <2> QED
    BY <2>1, <2>2, <2>5
<1> QED
  BY <1>1, <1>2

\* A table over the threads, g, is f but for one entry.
Updated(f, g, t, v) ==
    /\ OverThreads(g) /\ g[t] = v
    /\ \A u \in Thread : u # t => g[u] = f[u]

LEMMA UpdateOver ==
    ASSUME NEW f, OverThreads(f), NEW t \in Thread, NEW v, NEW g, g = [f EXCEPT ![t] = v]
    PROVE  Updated(f, g, t, v)
BY DEF OverThreads, Updated

LEMMA RefuseFrameStep ==
    ASSUME CInv, NEW t \in Thread, NEW arrival, RefuseFrame(t, arrival)
    PROVE  CInv'
<1>1. /\ at' = at /\ request' = request /\ outcome' = outcome
      /\ monitoring' = monitoring /\ copies' = copies
      /\ log' = [log EXCEPT !.made = @ + 1]
  BY DEF RefuseFrame
<1>2. Entered(log', log.counted, log.since)
  BY <1>1, LogEntries DEF CInv
<1>3. Books(at', monitoring', log')
  BY <1>1, <1>2 DEF CInv, Books, Entered
<1>4. \A u \in Thread : /\ Countable(at'[u], request'[u], outcome'[u])
                        /\ Page(at'[u], copies'[u], monitoring', log'.since[u])
  BY <1>1, <1>2 DEF CInv, Entered
<1>5. /\ at' \in [Thread -> Places] /\ Counters(monitoring') /\ log' \in Ledger
      /\ OverThreads(request') /\ OverThreads(outcome') /\ OverThreads(copies')
  BY <1>1, <1>2 DEF CInv, Entered
<1> QED
  BY <1>3, <1>4, <1>5 DEF CInv

LEMMA TakeFrameStep ==
    ASSUME CInv, NEW t \in Thread, NEW arrival, TakeFrame(t, arrival)
    PROVE  CInv'
<1>1. PICK r : /\ request' = [request EXCEPT ![t] = r]
               /\ \/ /\ Step(t, "idle", "store")
                     /\ log' = [log EXCEPT !.made = @ + 1]
                  \/ /\ Step(t, "idle", "copy")
                     /\ log' = [log EXCEPT !.statistics = @ + 1, !.since[t] = log.counted]
  BY DEF TakeFrame
<1>2. outcome' = outcome /\ monitoring' = monitoring /\ copies' = copies
  BY DEF TakeFrame
<1>3. at \in [Thread -> Places] /\ Counters(monitoring) /\ log \in Ledger
  BY DEF CInv
<1>4. /\ OverThreads(request')
      /\ \A u \in Thread : u # t => request'[u] = request[u]
  <2>1. OverThreads(request)
    BY DEF CInv
  <2>2. Updated(request, request', t, r)
    BY <1>1, <2>1, UpdateOver
  <2> QED
    BY <2>2 DEF Updated
<1>5. "passed" \in Kinds /\ "failed" \in Kinds /\ "error" \in Kinds
  BY DEF Kinds
<1>6. /\ Total(monitoring, "passed") \in Nat /\ Total(monitoring, "failed") \in Nat
      /\ Total(monitoring, "error") \in Nat
  BY <1>3, <1>5, TotalType
<1>7. \A place : Crowd(at, place) \in Nat
  BY CrowdType
<1>8. CASE /\ Step(t, "idle", "store")
           /\ log' = [log EXCEPT !.made = @ + 1]
  <2>1. Walks(at, at', t, "idle", "store")
    BY <1>3, <1>8, StepWalks DEF Places
  <2>2. Entered(log', log.counted, log.since)
    BY <1>3, <1>8, LogEntries
  <2>3. Crowd(at', "count") = Crowd(at, "count") /\ Crowd(at', "error") = Crowd(at, "error")
    BY <2>1 DEF Walks, Places
  <2>4. Books(at', monitoring', log')
    BY <1>2, <2>2, <2>3 DEF CInv, Books, Entered
  <2>5. StepOf(t)
    BY <1>2, <1>4, <2>1, <2>2 DEF StepOf, Walks, Entered
  <2>6. OwnPart(t)
    <3>1. at[t] = "idle" /\ at'[t] = "store"
      BY <2>1 DEF Walks
    <3>2. copies[t] = <<>>
      BY <3>1 DEF CInv, Page
    <3> QED
      BY <1>2, <3>1, <3>2 DEF OwnPart, Countable, Page
  <2> QED
    BY <1>2, <1>3, <1>4, <2>1, <2>2, <2>4, <2>5, <2>6, OthersUndisturbed
       DEF CInv, Walks, Entered
<1>9. CASE /\ Step(t, "idle", "copy")
           /\ log' = [log EXCEPT !.statistics = @ + 1, !.since[t] = log.counted]
  <2>1. Walks(at, at', t, "idle", "copy")
    BY <1>3, <1>9, StepWalks DEF Places
  <2>2. log.counted \in Nat /\ log.since \in [Thread -> Nat]
    BY <1>3, LogEntries
  <2>3. Entered(log', log.counted, [log.since EXCEPT ![t] = log.counted])
    BY <1>3, <1>9, <2>2, LogSince
  <2>4. /\ log'.since[t] = log.counted
        /\ \A u \in Thread : u # t => log'.since[u] = log.since[u]
    BY <2>2, <2>3 DEF Entered
  <2>5. Crowd(at', "count") = Crowd(at, "count") /\ Crowd(at', "error") = Crowd(at, "error")
    BY <2>1 DEF Walks, Places
  <2>6. Books(at', monitoring', log')
    BY <1>2, <2>3, <2>5 DEF CInv, Books, Entered
  <2>7. StepOf(t)
    BY <1>2, <1>4, <2>1, <2>4 DEF StepOf, Walks
  <2>8. OwnPart(t)
    <3>1. at[t] = "idle" /\ at'[t] = "copy"
      BY <2>1 DEF Walks
    <3>2. copies[t] = <<>>
      BY <3>1 DEF CInv, Page
    <3>3. log.counted <= Total(monitoring, "passed") + Total(monitoring, "failed")
      BY <1>6, <1>7, <2>2 DEF CInv, Books
    <3>4. Cardinality(Thread) - 1 \in Nat
      BY FiniteAssumption, FS_CardinalityType, FS_EmptySet
    <3>5. Reading(<<>>, monitoring, log.counted, Cardinality(Thread) - 1)
      BY <1>3, <2>2, <3>3, <3>4, ReadingBegins
    <3> QED
      BY <1>2, <2>4, <3>1, <3>2, <3>5 DEF OwnPart, Countable, Page
  <2> QED
    BY <1>2, <1>3, <1>4, <2>1, <2>3, <2>6, <2>7, <2>8, OthersUndisturbed
       DEF CInv, Walks, Entered
<1> QED
  BY <1>1, <1>8, <1>9

LEMMA CallStoreStep ==
    ASSUME CInv, NEW t \in Thread, CallStore(t)
    PROVE  CInv'
<1>1. /\ Step(t, "store", "count") /\ Call(request[t])
      /\ request' = request /\ monitoring' = monitoring /\ copies' = copies
      /\ log' = log
  BY DEF CallStore
<1>2. /\ OverThreads(outcome')
      /\ \A u \in Thread : u # t => outcome'[u] = outcome[u]
  <2>1. OverThreads(outcome)
    BY DEF CInv
  <2>2. PICK v : outcome' = [outcome EXCEPT ![t] = v]
    BY DEF CallStore
  <2>3. Updated(outcome, outcome', t, v)
    BY <2>1, <2>2, UpdateOver
  <2> QED
    BY <2>3 DEF Updated
<1>3. at \in [Thread -> Places] /\ Counters(monitoring) /\ log \in Ledger
  BY DEF CInv
<1>4. Walks(at, at', t, "store", "count")
  BY <1>1, <1>3, StepWalks DEF Places
<1>5. Entered(log', log.counted, log.since)
  BY <1>1, <1>3 DEF Entered
<1>6. /\ Crowd(at', "count") = Crowd(at, "count") + 1
      /\ Crowd(at', "error") = Crowd(at, "error")
  BY <1>4 DEF Walks, Places
<1>7. Books(at', monitoring', log')
  <2>1. "passed" \in Kinds /\ "failed" \in Kinds
    BY DEF Kinds
  <2>2. /\ Total(monitoring, "passed") \in Nat /\ Total(monitoring, "failed") \in Nat
        /\ Crowd(at, "count") \in Nat
    BY <1>3, <2>1, TotalType, CrowdType, LogEntries
  <2> QED
    BY <1>1, <1>5, <1>6, <2>2 DEF CInv, Books, Entered
<1>8. StepOf(t)
  BY <1>1, <1>2, <1>4, <1>5 DEF StepOf, Walks, Entered
<1>9. OwnPart(t)
  <2>1. at[t] = "store" /\ at'[t] = "count"
    BY <1>4 DEF Walks
  <2>2. request[t].cmd \in DOMAIN MethodOf
    <3>1. request[t].cmd \in {"GENERATE", "EXIST", "REMOVE", "PROLONG", "ADD_SESSION",
             "ADD_KEY", "ALL_ADD_KEY", "GET_KEY", "REMOVE_KEY", "ALL_REMOVE_KEY",
             "EXIST_KEY", "SET_KEY", "SET_FORCE_KEY", "PROLONG_KEY"}
      BY <1>1 DEF Call
    <3> QED
      BY <3>1 DEF MethodOf
  <2>3. copies[t] = <<>>
    BY <2>1 DEF CInv, Page
  <2> QED
    BY <1>1, <2>1, <2>2, <2>3 DEF OwnPart, Countable, Page
<1> QED
  BY <1>1, <1>2, <1>3, <1>4, <1>5, <1>7, <1>8, <1>9, OthersUndisturbed
     DEF CInv, Walks, Entered

LEMMA CopyCounterStep ==
    ASSUME CInv, NEW t \in Thread, CopyCounter(t)
    PROVE  CInv'
<1> DEFINE i == Len(copies[t]) + 1
           v == monitoring[Fields[i][1]][Fields[i][2]]
<1>1. /\ at[t] = "copy" /\ Len(copies[t]) < Len(Fields)
      /\ copies' = [copies EXCEPT ![t] = Append(copies[t], v)]
      /\ at' = at /\ request' = request /\ outcome' = outcome
      /\ monitoring' = monitoring /\ log' = log
  BY DEF CopyCounter
<1>2. /\ OverThreads(copies')
      /\ copies'[t] = Append(copies[t], v)
      /\ \A u \in Thread : u # t => copies'[u] = copies[u]
  <2>1. OverThreads(copies)
    BY DEF CInv
  <2>2. Updated(copies, copies', t, Append(copies[t], v))
    BY <1>1, <2>1, UpdateOver
  <2> QED
    BY <2>2 DEF Updated
<1>3. StepOf(t)
  BY <1>1, <1>2 DEF StepOf
<1>4. /\ at[t] = "copy" /\ Counters(monitoring) /\ log \in Ledger
      /\ Books(at, monitoring, log) /\ Page(at[t], copies[t], monitoring, log.since[t])
  BY <1>1 DEF CInv
<1>5. Reading(copies[t], monitoring, log.since[t], Cardinality(Thread) - 1)
  BY <1>4 DEF Page
<1>6. log.since[t] \in Nat
  BY <1>4, LogEntries
<1>7. Cardinality(Thread) - 1 \in Nat
  BY FiniteAssumption, FS_CardinalityType, FS_EmptySet
<1>8. Total(monitoring, "failed") <= Total(monitoring, "error") + (Cardinality(Thread) - 1)
  <2>1. "failed" \in Kinds /\ "error" \in Kinds /\ at[t] # "error"
    BY <1>1 DEF Kinds
  <2>2. /\ Total(monitoring, "failed") \in Nat /\ Total(monitoring, "error") \in Nat
        /\ Crowd(at, "error") \in Nat /\ Crowd(at, "error") <= Cardinality(Thread) - 1
    BY <1>4, <2>1, TotalType, CrowdType
  <2> QED
    BY <1>4, <1>7, <2>2 DEF Books
<1>9. Len(copies[t]) < 38 /\ i \in 1 .. 38
  <2>1. Len(copies[t]) < 38
    BY <1>1, FieldsInOrder
  <2>2. Len(copies[t]) \in Nat
    BY <1>5 DEF Reading, Numbers
  <2>3. \A n \in Nat : n < 38 => n + 1 \in 1 .. 38
    OBVIOUS
  <2> QED
    BY <2>1, <2>2, <2>3, Zenon
<1>10. v = CurrentOf(monitoring)[i]
  BY <1>4, <1>9, CurrentIsCopy, Zenon
<1>11. v \in Nat /\ CopiesField(copies[t], monitoring, v)
  <2>1. v \in Nat
    BY <1>4, <1>9, KindOfField, CounterType
  <2>2. CopiesField(copies[t], monitoring, v)
    BY <1>10 DEF CopiesField
  <2> QED
    BY <2>1, <2>2
<1> HIDE DEF v, i
<1>12. Reading(Append(copies[t], v), monitoring, log.since[t], Cardinality(Thread) - 1)
  BY <1>4, <1>5, <1>6, <1>7, <1>8, <1>9, <1>11, ReadingAppends, Zenon
<1>13. OwnPart(t)
  BY <1>1, <1>2, <1>12 DEF OwnPart, Countable, Page
<1> QED
  BY <1>1, <1>2, <1>3, <1>13, OthersUndisturbed DEF CInv

LEMMA TellStatisticsStep ==
    ASSUME CInv, NEW t \in Thread, TellStatistics(t)
    PROVE  CInv'
<1>1. /\ Step(t, "copy", "idle")
      /\ request' = [request EXCEPT ![t] = NoRequest]
      /\ copies' = [copies EXCEPT ![t] = <<>>]
      /\ log' = [log EXCEPT !.since[t] = 0]
      /\ outcome' = outcome /\ monitoring' = monitoring
  BY DEF TellStatistics
<1>2. /\ OverThreads(copies') /\ OverThreads(request')
      /\ copies'[t] = <<>>
      /\ \A u \in Thread : u # t => copies'[u] = copies[u] /\ request'[u] = request[u]
  <2>1. OverThreads(copies) /\ OverThreads(request)
    BY DEF CInv
  <2>2. Updated(copies, copies', t, <<>>)
    BY <1>1, <2>1, UpdateOver
  <2>3. Updated(request, request', t, NoRequest)
    BY <1>1, <2>1, UpdateOver
  <2> QED
    BY <2>2, <2>3 DEF Updated
<1>3. at \in [Thread -> Places] /\ Counters(monitoring) /\ log \in Ledger
  BY DEF CInv
<1>4. Walks(at, at', t, "copy", "idle")
  BY <1>1, <1>3, StepWalks DEF Places
<1>5. Entered(log', log.counted, [log.since EXCEPT ![t] = 0])
  BY <1>1, <1>3, LogSince
<1>6. \A u \in Thread : u # t => log'.since[u] = log.since[u]
  BY <1>3, <1>5, LogEntries DEF Entered
<1>7. Crowd(at', "count") = Crowd(at, "count") /\ Crowd(at', "error") = Crowd(at, "error")
  BY <1>4 DEF Walks, Places
<1>8. Books(at', monitoring', log')
  BY <1>1, <1>5, <1>7 DEF CInv, Books, Entered
<1>9. StepOf(t)
  BY <1>1, <1>2, <1>4, <1>6 DEF StepOf, Walks
<1>10. OwnPart(t)
  <2>1. at'[t] = "idle"
    BY <1>4 DEF Walks
  <2> QED
    BY <1>2, <2>1 DEF OwnPart, Countable, Page
<1> QED
  BY <1>1, <1>2, <1>3, <1>4, <1>5, <1>8, <1>9, <1>10, OthersUndisturbed
     DEF CInv, Walks, Entered

LEMMA MethodIsNamed ==
    ASSUME NEW cmd \in DOMAIN MethodOf
    PROVE  MethodOf[cmd] \in Named(Methods)
<1>1. \A i \in 1 .. 14 : Methods[i] \in Named(Methods)
  BY NamesDiffer DEF Named
<1>2. \E i \in 1 .. 14 : Methods[i] = MethodOf[cmd]
  BY DEF Methods, MethodOf
<1> QED
  BY <1>1, <1>2

\* Every failure of the store has an error of its own to be counted under.
LEMMA FailureHasError ==
    ASSUME NEW res, convertStoreError(res) # "OK"
    PROVE  /\ convertStoreError(res) \in DOMAIN ErrorOf
           /\ ErrorOf[convertStoreError(res)] \in Named(Errors)
<1> DEFINE code == convertStoreError(res)
<1>1. \A i \in 1 .. 10 : Errors[i] \in Named(Errors)
  BY NamesDiffer DEF Named
<1>2. res \in DOMAIN Codes /\ code = Codes[res]
  BY DEF convertStoreError
<1>3. code \in DOMAIN ErrorOf
  BY <1>2 DEF Codes, ErrorOf
<1> HIDE DEF code
<1>4. \E i \in 1 .. 10 : Errors[i] = ErrorOf[code]
  BY <1>3 DEF Errors, ErrorOf
<1>5. code \in DOMAIN ErrorOf /\ ErrorOf[code] \in Named(Errors)
  BY <1>1, <1>3, <1>4
<1> QED
  BY <1>5 DEF code

LEMMA CountRequestStep ==
    ASSUME CInv, NEW t \in Thread, CountRequest(t)
    PROVE  CInv'
<1> DEFINE code == convertStoreError(outcome[t].res)
           cmd == request[t].cmd
           kind == IF CountsAsPassed(cmd, code) THEN "passed" ELSE "failed"
           name == MethodOf[cmd]
<1>1. at \in [Thread -> Places] /\ Counters(monitoring) /\ log \in Ledger
  BY DEF CInv
<1>2. at[t] = "count" /\ copies' = copies
  BY DEF CountRequest, Step
<1>3. cmd \in DOMAIN MethodOf /\ copies[t] = <<>>
  BY <1>2 DEF CInv, Countable, Page
<1>4. monitoring' = Counting(monitoring, kind, name)
  BY <1>3 DEF CountRequest
<1>5. kind \in Kinds /\ name \in Named(NamesOf(kind))
  BY <1>3, MethodIsNamed DEF Kinds, NamesOf
<1>6. "passed" \in Kinds /\ "failed" \in Kinds /\ "error" \in Kinds
  BY DEF Kinds
<1>7. (kind = "passed" \/ kind = "failed") /\ (code = "OK" => kind = "passed")
  BY DEF CountsAsPassed
<1>8. \/ /\ code = "OK" /\ Step(t, "count", "idle")
         /\ request' = [request EXCEPT ![t] = NoRequest]
         /\ outcome' = [outcome EXCEPT ![t] = NoOutcome]
         /\ log' = [log EXCEPT !.counted = @ + 1]
      \/ /\ code # "OK" /\ Step(t, "count", "error")
         /\ request' = request /\ outcome' = outcome /\ log' = log
  BY DEF CountRequest, Finish
<1>9. convertStoreError(outcome[t].res) = code
  OBVIOUS
<1> HIDE DEF code, cmd, kind, name
<1>10. CountsOne(monitoring, monitoring', kind, name)
  BY <1>1, <1>4, <1>5, CountingOne
<1>11. /\ Total(monitoring', kind) = Total(monitoring, kind) + 1
       /\ \A k \in Kinds : k # kind => Total(monitoring', k) = Total(monitoring, k)
  BY <1>1, <1>5, <1>10, CountedInTotal
<1>12. Counters(monitoring') /\ Grows(monitoring, monitoring')
  BY <1>1, <1>5, <1>10, CountingGrows DEF CountsOne
<1>13. /\ Total(monitoring, "passed") \in Nat /\ Total(monitoring, "failed") \in Nat
       /\ Total(monitoring, "error") \in Nat
       /\ Crowd(at, "count") \in Nat /\ Crowd(at, "error") \in Nat
       /\ log.counted \in Nat
  BY <1>1, <1>6, TotalType, CrowdType, LogEntries
<1>14. /\ Total(monitoring', "passed") + Total(monitoring', "failed")
             = Total(monitoring, "passed") + Total(monitoring, "failed") + 1
       /\ Total(monitoring', "error") = Total(monitoring, "error")
       /\ Total(monitoring', "failed") <= Total(monitoring, "failed") + 1
       /\ code = "OK" => Total(monitoring', "failed") = Total(monitoring, "failed")
  <2>1. CASE kind = "passed"
    BY <1>6, <1>11, <1>13, <2>1
  <2>2. CASE kind = "failed"
    BY <1>6, <1>7, <1>11, <1>13, <2>2
  <2> QED
    BY <1>7, <2>1, <2>2
<1>15. /\ Total(monitoring', "passed") \in Nat /\ Total(monitoring', "failed") \in Nat
  BY <1>6, <1>12, TotalType
<1>16. Books(at, monitoring, log)
  BY DEF CInv
<1>17. CASE /\ code = "OK" /\ Step(t, "count", "idle")
            /\ request' = [request EXCEPT ![t] = NoRequest]
            /\ outcome' = [outcome EXCEPT ![t] = NoOutcome]
            /\ log' = [log EXCEPT !.counted = @ + 1]
  <2>1. Walks(at, at', t, "count", "idle")
    BY <1>1, <1>17, StepWalks DEF Places
  <2>2. /\ Crowd(at', "count") = Crowd(at, "count") - 1
        /\ Crowd(at', "error") = Crowd(at, "error")
    BY <2>1 DEF Walks, Places
  <2>3. Entered(log', log.counted + 1, log.since)
    BY <1>1, <1>17, LogEntries
  <2>4. Books(at', monitoring', log')
    BY <1>13, <1>14, <1>15, <1>16, <1>17, <2>2, <2>3 DEF Books, Entered
  <2>5. OverThreads(request) /\ OverThreads(outcome)
    BY DEF CInv
  <2>6. Updated(request, request', t, NoRequest)
    BY <1>17, <2>5, UpdateOver
  <2>7. Updated(outcome, outcome', t, NoOutcome)
    BY <1>17, <2>5, UpdateOver
  <2>8. StepOf(t)
    BY <1>2, <1>12, <2>1, <2>3, <2>6, <2>7 DEF StepOf, Walks, Entered, Updated
  <2>9. OwnPart(t)
    <3>1. at'[t] = "idle"
      BY <2>1 DEF Walks
    <3> QED
      BY <1>2, <1>3, <3>1 DEF OwnPart, Countable, Page
  <2> QED
    BY <1>2, <1>12, <2>1, <2>3, <2>4, <2>6, <2>7, <2>8, <2>9, OthersUndisturbed
       DEF CInv, Walks, Entered, Updated
<1>18. CASE /\ code # "OK" /\ Step(t, "count", "error")
            /\ request' = request /\ outcome' = outcome /\ log' = log
  <2>1. Walks(at, at', t, "count", "error")
    BY <1>1, <1>18, StepWalks DEF Places
  <2>2. /\ Crowd(at', "count") = Crowd(at, "count") - 1
        /\ Crowd(at', "error") = Crowd(at, "error") + 1
    BY <2>1 DEF Walks, Places
  <2>3. Books(at', monitoring', log')
    BY <1>13, <1>14, <1>15, <1>16, <1>18, <2>2 DEF Books
  <2>4. StepOf(t)
    BY <1>2, <1>12, <1>18, <2>1 DEF StepOf, Walks
  <2>5. OwnPart(t)
    <3>1. at'[t] = "error"
      BY <2>1 DEF Walks
    <3>2. request'[t].cmd \in DOMAIN MethodOf
      BY <1>3, <1>18 DEF cmd
    <3>3. convertStoreError(outcome'[t].res) # "OK"
      BY <1>9, <1>18
    <3> QED
      BY <1>2, <1>3, <3>1, <3>2, <3>3 DEF OwnPart, Countable, Page
  <2> QED
    BY <1>1, <1>2, <1>12, <1>18, <2>1, <2>3, <2>4, <2>5, OthersUndisturbed
       DEF CInv, Walks
<1> QED
  BY <1>8, <1>17, <1>18

LEMMA CountErrorStep ==
    ASSUME CInv, NEW t \in Thread, CountError(t)
    PROVE  CInv'
<1> DEFINE code == convertStoreError(outcome[t].res)
           name == ErrorOf[code]
<1>1. at \in [Thread -> Places] /\ Counters(monitoring) /\ log \in Ledger
  BY DEF CInv
<1>2. /\ at[t] = "error" /\ Step(t, "error", "idle") /\ copies' = copies
      /\ request' = [request EXCEPT ![t] = NoRequest]
      /\ outcome' = [outcome EXCEPT ![t] = NoOutcome]
      /\ log' = [log EXCEPT !.counted = @ + 1]
  BY DEF CountError, Step, Finish
<1>3. code # "OK" /\ copies[t] = <<>>
  BY <1>2 DEF CInv, Countable, Page
<1>4. code \in DOMAIN ErrorOf /\ name \in Named(Errors)
  BY <1>3, FailureHasError
<1>5. monitoring' = Counting(monitoring, "error", name)
  BY <1>4 DEF CountError
<1>6. /\ "passed" \in Kinds /\ "failed" \in Kinds /\ "error" \in Kinds
      /\ name \in Named(NamesOf("error"))
  BY <1>4 DEF Kinds, NamesOf
<1> HIDE DEF code, name
<1>7. CountsOne(monitoring, monitoring', "error", name)
  BY <1>1, <1>5, <1>6, CountingOne
<1>8. /\ Total(monitoring', "error") = Total(monitoring, "error") + 1
      /\ Total(monitoring', "passed") = Total(monitoring, "passed")
      /\ Total(monitoring', "failed") = Total(monitoring, "failed")
  BY <1>1, <1>6, <1>7, CountedInTotal
<1>9. Counters(monitoring') /\ Grows(monitoring, monitoring')
  BY <1>1, <1>6, <1>7, CountingGrows DEF CountsOne
<1>10. /\ Total(monitoring, "passed") \in Nat /\ Total(monitoring, "failed") \in Nat
       /\ Total(monitoring, "error") \in Nat
       /\ Crowd(at, "count") \in Nat /\ Crowd(at, "error") \in Nat
       /\ log.counted \in Nat
  BY <1>1, <1>6, TotalType, CrowdType, LogEntries
<1>11. Books(at, monitoring, log)
  BY DEF CInv
<1>12. Walks(at, at', t, "error", "idle")
  BY <1>1, <1>2, StepWalks DEF Places
<1>13. /\ Crowd(at', "count") = Crowd(at, "count")
       /\ Crowd(at', "error") = Crowd(at, "error") - 1
  BY <1>12 DEF Walks, Places
<1>14. Entered(log', log.counted + 1, log.since)
  BY <1>1, <1>2, LogEntries
<1>15. Books(at', monitoring', log')
  BY <1>8, <1>10, <1>11, <1>13, <1>14 DEF Books, Entered
<1>16. OverThreads(request) /\ OverThreads(outcome)
  BY DEF CInv
<1>17. Updated(request, request', t, NoRequest)
  BY <1>2, <1>16, UpdateOver
<1>18. Updated(outcome, outcome', t, NoOutcome)
  BY <1>2, <1>16, UpdateOver
<1>19. StepOf(t)
  BY <1>2, <1>9, <1>12, <1>14, <1>17, <1>18 DEF StepOf, Walks, Entered, Updated
<1>20. OwnPart(t)
  <2>1. at'[t] = "idle"
    BY <1>12 DEF Walks
  <2> QED
    BY <1>2, <1>3, <2>1 DEF OwnPart, Countable, Page
<1> QED
  BY <1>2, <1>9, <1>12, <1>14, <1>15, <1>17, <1>18, <1>19, <1>20, OthersUndisturbed
     DEF CInv, Walks, Entered, Updated

LEMMA ZeroTotals ==
    /\ Counters(AllZero)
    /\ \A kind \in Kinds : Total(AllZero, kind) = 0
<1>1. Counters(AllZero)
  BY DEF Counters, AllZero
<1>2. ASSUME NEW kind \in Kinds
      PROVE  Total(AllZero, kind) = 0
  <2> DEFINE row == Row(AllZero, kind)
             names == NamesOf(kind)
  <2>1. /\ Numbers(row) /\ Len(row) = Len(names)
        /\ \A i \in 1 .. Len(names) : row[i] = AllZero[kind][names[i]]
        /\ Total(AllZero, kind) = SumOf(row)
    BY <1>1, RowOfKind
  <2>2. \A i \in 1 .. Len(names) : names[i] \in Named(names)
    BY NamesOfKind DEF Named
  <2>3. \A name \in Named(names) : AllZero[kind][name] = 0
    BY DEF AllZero, NamesOf, Kinds
  <2> HIDE DEF row, names
  <2>4. \A i \in 1 .. Len(row) : row[i] = 0
    BY <2>1, <2>2, <2>3
  <2> QED
    BY <2>1, <2>4, SumZero
<1> QED
  BY <1>1, <1>2

LEMMA CInvInit == SystemInit => CInv
<1> SUFFICES ASSUME SystemInit PROVE CInv
  OBVIOUS
<1>1. /\ at = [t \in Thread |-> "idle"]
      /\ request = [t \in Thread |-> NoRequest]
      /\ outcome = [t \in Thread |-> NoOutcome]
      /\ copies = [t \in Thread |-> <<>>]
      /\ monitoring = AllZero
  BY DEF SystemInit
<1>2. /\ log = [made |-> 0, statistics |-> 0, counted |-> 0,
                since |-> [t \in Thread |-> 0]]
  BY DEF SystemInit
<1>3. log \in Ledger /\ log.counted = 0
  BY <1>2 DEF Ledger
<1>4. at \in [Thread -> Places]
  BY <1>1 DEF Places
<1>5. OverThreads(request) /\ OverThreads(outcome) /\ OverThreads(copies)
  BY <1>1 DEF OverThreads
<1>6. ASSUME NEW place, place # "idle"
      PROVE  Crowd(at, place) = 0
  <2>1. At(at, place) = {}
    BY <1>1, <1>6 DEF At
  <2> QED
    BY <2>1, FS_EmptySet DEF Crowd
<1>7. /\ Total(monitoring, "passed") = 0 /\ Total(monitoring, "failed") = 0
      /\ Total(monitoring, "error") = 0 /\ Counters(monitoring)
  BY <1>1, ZeroTotals DEF Kinds
<1>8. Crowd(at, "count") = 0 /\ Crowd(at, "error") = 0
  BY <1>6
<1>9. Books(at, monitoring, log)
  BY <1>3, <1>7, <1>8 DEF Books
<1>10. ASSUME NEW t \in Thread
       PROVE  /\ Countable(at[t], request[t], outcome[t])
              /\ Page(at[t], copies[t], monitoring, log.since[t])
  <2>1. at[t] = "idle" /\ copies[t] = <<>>
    BY <1>1
  <2> QED
    BY <2>1 DEF Countable, Page
<1> QED
  BY <1>3, <1>4, <1>5, <1>7, <1>9, <1>10 DEF CInv

LEMMA CInvStep == CInv /\ [SystemNext]_systemVars => CInv'
<1> SUFFICES ASSUME CInv, [SystemNext]_systemVars
             PROVE  CInv'
  OBVIOUS
<1>1. ASSUME NEW t \in Thread, NEW arrival \in Arrivals, RefuseFrame(t, arrival)
      PROVE  CInv'
  BY <1>1, RefuseFrameStep
<1>2. ASSUME NEW t \in Thread, NEW arrival \in Arrivals, TakeFrame(t, arrival)
      PROVE  CInv'
  BY <1>2, TakeFrameStep
<1>3. ASSUME NEW t \in Thread, CallStore(t)
      PROVE  CInv'
  BY <1>3, CallStoreStep
<1>4. ASSUME NEW t \in Thread, CopyCounter(t)
      PROVE  CInv'
  BY <1>4, CopyCounterStep
<1>5. ASSUME NEW t \in Thread, TellStatistics(t)
      PROVE  CInv'
  BY <1>5, TellStatisticsStep
<1>6. ASSUME NEW t \in Thread, CountRequest(t)
      PROVE  CInv'
  BY <1>6, CountRequestStep
<1>7. ASSUME NEW t \in Thread, CountError(t)
      PROVE  CInv'
  BY <1>7, CountErrorStep
<1>8. CASE UNCHANGED working
  BY <1>8 DEF working, CInv
<1>9. interval => UNCHANGED working
  BY DEF interval
<1>10. Tick /\ Silent /\ UNCHANGED <<working, answer>> => UNCHANGED working
  OBVIOUS
<1>11. UNCHANGED systemVars => UNCHANGED working
  BY DEF systemVars
<1> QED
  BY <1>1, <1>2, <1>3, <1>4, <1>5, <1>6, <1>7, <1>8, <1>9, <1>10, <1>11 DEF SystemNext

LEMMA CInvAlways == SystemSpec => []CInv
BY CInvInit, CInvStep, PTL DEF SystemSpec

LEMMA CInvImplies ==
    ASSUME CInv
    PROVE  StatisticsAgree /\ StatisticsAreCurrent
<1>1. ASSUME NEW t \in Thread, Copied(t)
      PROVE  /\ log.since[t] <= TotalOfCopies(copies[t], "passed")
                                  + TotalOfCopies(copies[t], "failed")
             /\ TotalOfCopies(copies[t], "failed")
                   <= TotalOfCopies(copies[t], "error") + (Cardinality(Thread) - 1)
             /\ TotalOfCopies(copies[t], "passed") \in Nat
             /\ TotalOfCopies(copies[t], "failed") \in Nat
             /\ TotalOfCopies(copies[t], "error") \in Nat
             /\ log.since[t] \in Nat /\ Cardinality(Thread) - 1 \in Nat
  <2>1. Len(copies[t]) = 38
    BY <1>1, FieldsInOrder DEF Copied
  <2>2. Page(at[t], copies[t], monitoring, log.since[t]) /\ Counters(monitoring)
    BY DEF CInv
  <2>3. copies[t] # <<>>
    <3>1. Len(<<>>) = 0
      OBVIOUS
    <3>2. copies[t] = <<>> => Len(copies[t]) = Len(<<>>)
      BY Zenon
    <3>3. 38 # 0
      OBVIOUS
    <3> QED
      BY <2>1, <3>1, <3>2, <3>3, Zenon
  <2>4. Reading(copies[t], monitoring, log.since[t], Cardinality(Thread) - 1)
    BY <2>2, <2>3 DEF Page
  <2>5. log.since[t] \in Nat
    BY LogEntries DEF CInv
  <2>6. Cardinality(Thread) - 1 \in Nat
    BY FiniteAssumption, FS_CardinalityType, FS_EmptySet
  <2>7. /\ log.since[t] <= TotalOfCopies(copies[t], "passed")
                             + TotalOfCopies(copies[t], "failed")
        /\ TotalOfCopies(copies[t], "failed")
              <= TotalOfCopies(copies[t], "error") + (Cardinality(Thread) - 1)
    BY <2>1, <2>2, <2>4, <2>5, <2>6, ReadingEnds, Zenon
  <2>8. Copy(copies[t])
    BY <2>1, <2>4 DEF Copy, Reading
  <2> QED
    BY <2>5, <2>6, <2>7, <2>8, CopiesType
<1>2. StatisticsAgree
  <2> SUFFICES ASSUME NEW t \in Thread, Copied(t)
               PROVE  TotalOfCopies(copies[t], "failed")
                        <= TotalOfCopies(copies[t], "error") + Cardinality(Thread) - 1
    BY DEF StatisticsAgree
  <2>1. Cardinality(Thread) \in Nat
    BY FiniteAssumption, FS_CardinalityType
  <2> QED
    BY <1>1, <2>1
<1>3. StatisticsAreCurrent
  BY <1>1 DEF StatisticsAreCurrent
<1> QED
  BY <1>2, <1>3

\* The statistics show no more failures than errors, save one for each other
\* thread: they are copied in the order in which they can be behind (getData).
THEOREM StatisticsNearlyAgree == SystemSpec => []StatisticsAgree
BY CInvAlways, CInvImplies, PTL

\* The statistics miss no request that was answered before they were asked for.
THEOREM StatisticsMissNothing == SystemSpec => []StatisticsAreCurrent
BY CInvAlways, CInvImplies, PTL

-------------------------------------------------------------------------------
(* Every call, and every failure, under its own name.                       *)

\* The calls of a method still to be counted, and the failures.
Uncounted(a, r, m) == {t \in Thread : a[t] = "count" /\ MethodOf[r[t].cmd] = m}
Unreported(a, o, res) ==
    {t \in Thread : a[t] \in {"count", "error"} /\ o[t].res = res}

CallsTally ==
    /\ called \in [DOMAIN CountedAs -> Nat]
    /\ \A op \in DOMAIN CountedAs :
          monitoring.passed[CountedAs[op]] + monitoring.failed[CountedAs[op]]
              + Cardinality(Uncounted(at, request, CountedAs[op])) = called[op]

ErrorsTally ==
    /\ returned \in [Results -> Nat]
    /\ \A res \in DOMAIN ErrorNamed :
          monitoring.error[ErrorNamed[res]]
              + Cardinality(Unreported(at, outcome, res)) = returned[res]
    /\ monitoring.error["wrongCommand"] = 0 /\ monitoring.error["wrongParams"] = 0

Tally == CallsTally /\ ErrorsTally

\* The command of a request, the operation called for it and the counters that
\* are kept for both go together.
LEMMA CallIsNamed ==
    ASSUME NEW r, Call(r)
    PROVE  /\ reply'.op \in DOMAIN CountedAs /\ reply'.res \in Results
           /\ r.cmd \in DOMAIN MethodOf /\ MethodOf[r.cmd] = CountedAs[reply'.op]
<1> DEFINE Pairs == {<<"GENERATE", "generate">>, <<"EXIST", "exist">>,
              <<"REMOVE", "remove">>, <<"PROLONG", "prolong">>, <<"ADD_SESSION", "add">>,
              <<"ADD_KEY", "addKey">>, <<"ALL_ADD_KEY", "addAllKey">>,
              <<"GET_KEY", "getKey">>, <<"REMOVE_KEY", "removeKey">>,
              <<"ALL_REMOVE_KEY", "removeAllKey">>, <<"EXIST_KEY", "existKey">>,
              <<"SET_KEY", "setKey">>, <<"SET_FORCE_KEY", "setForceKey">>,
              <<"PROLONG_KEY", "prolongKey">>}
<1>1. \E pair \in Pairs : r.cmd = pair[1] /\ Replies(pair[2])
  <2>1. CASE \/ r.cmd = "GENERATE" /\ \E s \in SessionId : Generate(s, r.lifetime)
             \/ r.cmd = "EXIST" /\ Exist(r.uuid)
             \/ r.cmd = "REMOVE" /\ Remove(r.uuid)
             \/ r.cmd = "PROLONG" /\ Prolong(r.uuid, r.lifetime)
             \/ r.cmd = "ADD_SESSION" /\ Add(r.uuid, r.lifetime)
    BY <2>1, SessionReplies
  <2>2. CASE \/ r.cmd = "ADD_KEY" /\ AddKey(r.uuid, r.key, r.data, r.lifetime)
             \/ r.cmd = "ALL_ADD_KEY" /\ AddAllKey(r.key, r.data)
             \/ r.cmd = "GET_KEY" /\ GetKey(r.uuid, r.key, r.limit)
             \/ r.cmd = "REMOVE_KEY" /\ RemoveKey(r.uuid, r.key)
             \/ r.cmd = "ALL_REMOVE_KEY" /\ RemoveAllKey(r.key)
    BY <2>2, KeyReplies
  <2>3. CASE \/ r.cmd = "EXIST_KEY" /\ ExistKey(r.uuid, r.key)
             \/ r.cmd = "SET_KEY" /\ SetKey(r.uuid, r.key, r.data, r.counterKeys,
                                            r.counterRecord, r.limit)
             \/ r.cmd = "SET_FORCE_KEY" /\ SetForceKey(r.uuid, r.key, r.data, r.limit)
             \/ r.cmd = "PROLONG_KEY" /\ ProlongKey(r.uuid, r.key, r.lifetime)
    BY <2>3, KeyReplies
  <2> QED
    BY <2>1, <2>2, <2>3 DEF Call
<1>2. \A pair \in Pairs : /\ pair[1] \in DOMAIN MethodOf /\ pair[2] \in DOMAIN CountedAs
                          /\ MethodOf[pair[1]] = CountedAs[pair[2]]
  BY DEF MethodOf, CountedAs
<1> QED
  BY <1>1, <1>2 DEF Replies

LEMMA NamesOfCounters ==
    /\ \A op \in DOMAIN CountedAs : CountedAs[op] \in Named(Methods)
    /\ \A res \in DOMAIN ErrorNamed :
          /\ ErrorNamed[res] \in Named(Errors) \ {"wrongCommand", "wrongParams"}
          /\ res \in Results /\ convertStoreError(res) # "OK"
          /\ ErrorOf[convertStoreError(res)] = ErrorNamed[res]
    /\ \A res : convertStoreError(res) # "OK" => res \in DOMAIN ErrorNamed
    /\ {"wrongCommand", "wrongParams"} \subseteq Named(Errors)
    /\ \A op, other \in DOMAIN CountedAs :
          CountedAs[op] = CountedAs[other] => op = other
    /\ \A res, other \in DOMAIN ErrorNamed :
          ErrorNamed[res] = ErrorNamed[other] => res = other
<1>1. \A op \in DOMAIN CountedAs : CountedAs[op] \in Named(Methods)
  <2>1. \A i \in 1 .. 14 : Methods[i] \in Named(Methods)
    BY NamesDiffer DEF Named
  <2>2. \A op \in DOMAIN CountedAs : \E i \in 1 .. 14 : Methods[i] = CountedAs[op]
    BY DEF Methods, CountedAs
  <2> QED
    BY <2>1, <2>2
<1>2. \A res \in DOMAIN ErrorNamed :
        /\ res \in Results /\ convertStoreError(res) # "OK"
        /\ ErrorOf[convertStoreError(res)] = ErrorNamed[res]
        /\ ErrorNamed[res] \notin {"wrongCommand", "wrongParams"}
  BY DEF ErrorNamed, Results, convertStoreError, Codes, ErrorOf
<1>3. \A res \in DOMAIN ErrorNamed : ErrorNamed[res] \in Named(Errors)
  BY <1>2, FailureHasError
<1>4. \A res : convertStoreError(res) # "OK" => res \in DOMAIN ErrorNamed
  BY DEF ErrorNamed, convertStoreError, Codes
<1>5. {"wrongCommand", "wrongParams"} \subseteq Named(Errors)
  BY NamesDiffer DEF Named, Errors
<1>6. \A op, other \in DOMAIN CountedAs : CountedAs[op] = CountedAs[other] => op = other
  BY DEF CountedAs
<1>7. \A res, other \in DOMAIN ErrorNamed : ErrorNamed[res] = ErrorNamed[other] => res = other
  BY DEF ErrorNamed
<1> QED
  BY <1>1, <1>2, <1>3, <1>4, <1>5, <1>6, <1>7

\* A step that moves no thread to or from a count leaves the tally as it is.
LEMMA TallyStays ==
    ASSUME Tally, UNCHANGED <<monitoring, tally>>,
           \A u \in Thread :
              /\ at'[u] = "count" <=> at[u] = "count"
              /\ at'[u] = "error" <=> at[u] = "error"
              /\ at[u] \in {"count", "error"} =>
                    request'[u] = request[u] /\ outcome'[u] = outcome[u]
    PROVE  Tally'
<1>1. \A m : Uncounted(at', request', m) = Uncounted(at, request, m)
  BY DEF Uncounted
<1>2. \A res : Unreported(at', outcome', res) = Unreported(at, outcome, res)
  BY DEF Unreported
<1> QED
  BY <1>1, <1>2 DEF Tally, CallsTally, ErrorsTally, tally

\* A thread that joins a set of threads, or leaves it.
LEMMA JoinOrLeave ==
    ASSUME NEW S \in SUBSET Thread, NEW t \in Thread
    PROVE  /\ Cardinality(S) \in Nat
           /\ t \notin S => Cardinality(S \cup {t}) = Cardinality(S) + 1
           /\ t \in S => Cardinality(S \ {t}) = Cardinality(S) - 1
<1>1. IsFiniteSet(S)
  BY FiniteAssumption, FS_Subset
<1> QED
  BY <1>1, FS_CardinalityType, FS_AddElement, FS_RemoveElement

LEMMA CallStoreTally ==
    ASSUME CInv, Tally, NEW t \in Thread, CallStore(t)
    PROVE  Tally'
<1> DEFINE op == reply'.op
           res == reply'.res
<1>1. /\ at[t] = "store" /\ at'[t] = "count" /\ \A u \in Thread \ {t} : at'[u] = at[u]
      /\ Call(request[t]) /\ request' = request /\ monitoring' = monitoring
      /\ called' = [called EXCEPT ![op] = @ + 1]
      /\ returned' = [returned EXCEPT ![res] = @ + 1]
  BY DEF CallStore, Step, CInv
<1>2. /\ outcome'[t].res = res /\ \A u \in Thread \ {t} : outcome'[u] = outcome[u]
  <2>1. OverThreads(outcome)
    BY DEF CInv
  <2>2. PICK v : outcome' = [outcome EXCEPT ![t] = [res |-> res, values |-> v]]
    BY DEF CallStore
  <2>3. Updated(outcome, outcome', t, [res |-> res, values |-> v])
    BY <2>1, <2>2, UpdateOver
  <2> QED
    BY <2>3 DEF Updated
<1>3. /\ op \in DOMAIN CountedAs /\ res \in Results
      /\ MethodOf[request[t].cmd] = CountedAs[op]
  BY <1>1, CallIsNamed
<1> HIDE DEF op, res
<1>4. CallsTally'
  <2>1. called' \in [DOMAIN CountedAs -> Nat]
    BY <1>1, <1>3 DEF Tally, CallsTally
  <2>2. ASSUME NEW x \in DOMAIN CountedAs
        PROVE  monitoring.passed[CountedAs[x]] + monitoring.failed[CountedAs[x]]
                 + Cardinality(Uncounted(at', request', CountedAs[x])) = called'[x]
    <3> DEFINE S == Uncounted(at, request, CountedAs[x])
    <3>1. /\ monitoring.passed[CountedAs[x]] + monitoring.failed[CountedAs[x]]
               + Cardinality(S) = called[x]
          /\ called \in [DOMAIN CountedAs -> Nat]
      BY DEF Tally, CallsTally
    <3>2. /\ monitoring.passed[CountedAs[x]] \in Nat
          /\ monitoring.failed[CountedAs[x]] \in Nat
      BY NamesOfCounters DEF CInv, Counters
    <3>3. S \in SUBSET Thread /\ t \notin S
      BY <1>1 DEF Uncounted
    <3>4. CASE x = op
      <4>1. Uncounted(at', request', CountedAs[x]) = S \cup {t}
        BY <1>1, <1>3, <3>4 DEF Uncounted
      <4>2. called'[x] = called[x] + 1
        BY <1>1, <3>1, <3>4
      <4> HIDE DEF S
      <4> QED
        BY <3>1, <3>2, <3>3, <4>1, <4>2, JoinOrLeave
    <3>5. CASE x # op
      <4>1. CountedAs[x] # CountedAs[op]
        BY <1>3, <3>5, NamesOfCounters
      <4>2. Uncounted(at', request', CountedAs[x]) = S
        BY <1>1, <1>3, <4>1 DEF Uncounted
      <4>3. called'[x] = called[x]
        BY <1>1, <3>1, <3>5
      <4> HIDE DEF S
      <4> QED
        BY <3>1, <4>2, <4>3
    <3> QED
      BY <3>4, <3>5
  <2> QED
    BY <1>1, <2>1, <2>2 DEF CallsTally
<1>5. ErrorsTally'
  <2>1. returned' \in [Results -> Nat]
    BY <1>1, <1>3 DEF Tally, ErrorsTally
  <2>2. ASSUME NEW x \in DOMAIN ErrorNamed
        PROVE  monitoring.error[ErrorNamed[x]]
                 + Cardinality(Unreported(at', outcome', x)) = returned'[x]
    <3> DEFINE S == Unreported(at, outcome, x)
    <3>1. /\ monitoring.error[ErrorNamed[x]] + Cardinality(S) = returned[x]
          /\ returned \in [Results -> Nat] /\ x \in Results
      BY NamesOfCounters DEF Tally, ErrorsTally
    <3>2. monitoring.error[ErrorNamed[x]] \in Nat
      BY NamesOfCounters DEF CInv, Counters
    <3>3. S \in SUBSET Thread /\ t \notin S
      BY <1>1 DEF Unreported
    <3>4. CASE x = res
      <4>1. Unreported(at', outcome', x) = S \cup {t}
        BY <1>1, <1>2, <3>4 DEF Unreported
      <4>2. returned'[x] = returned[x] + 1
        BY <1>1, <3>1, <3>4
      <4> HIDE DEF S
      <4> QED
        BY <3>1, <3>2, <3>3, <4>1, <4>2, JoinOrLeave
    <3>5. CASE x # res
      <4>1. Unreported(at', outcome', x) = S
        BY <1>1, <1>2, <3>5 DEF Unreported
      <4>2. returned'[x] = returned[x]
        BY <1>1, <3>1, <3>5
      <4> HIDE DEF S
      <4> QED
        BY <3>1, <4>1, <4>2
    <3> QED
      BY <3>4, <3>5
  <2> QED
    BY <1>1, <2>1, <2>2 DEF Tally, ErrorsTally
<1> QED
  BY <1>4, <1>5 DEF Tally

LEMMA CountRequestTally ==
    ASSUME CInv, Tally, NEW t \in Thread, CountRequest(t)
    PROVE  Tally'
<1> DEFINE code == convertStoreError(outcome[t].res)
           kind == IF CountsAsPassed(request[t].cmd, code) THEN "passed" ELSE "failed"
           name == MethodOf[request[t].cmd]
<1>1. /\ at[t] = "count" /\ at'[t] # "count" /\ \A u \in Thread \ {t} : at'[u] = at[u]
      /\ UNCHANGED tally
  BY DEF CountRequest, Step, CInv
<1>2. request[t].cmd \in DOMAIN MethodOf
  BY <1>1 DEF CInv, Countable
<1>3. /\ monitoring' = Counting(monitoring, kind, name)
      /\ name \in Named(NamesOf(kind)) /\ kind \in {"passed", "failed"}
  BY <1>2, MethodIsNamed DEF CountRequest, NamesOf
<1>4. /\ \A u \in Thread \ {t} : request'[u] = request[u] /\ outcome'[u] = outcome[u]
      /\ \/ code = "OK" /\ at'[t] = "idle"
         \/ code # "OK" /\ at'[t] = "error" /\ outcome' = outcome
  <2>1. OverThreads(request) /\ OverThreads(outcome)
    BY DEF CInv
  <2>2. CASE code = "OK" /\ Step(t, "count", "idle") /\ Finish(t, code)
    <3>1. Updated(request, request', t, NoRequest)
      BY <2>1, <2>2, UpdateOver DEF Finish
    <3>2. Updated(outcome, outcome', t, NoOutcome)
      BY <2>1, <2>2, UpdateOver DEF Finish
    <3> QED
      BY <2>2, <3>1, <3>2 DEF Updated, Step, CInv
  <2>3. CASE /\ code # "OK" /\ Step(t, "count", "error")
             /\ UNCHANGED <<request, outcome>>
    BY <2>3 DEF Step, CInv
  <2> QED
    BY <2>2, <2>3 DEF CountRequest
<1>5. code # "OK" <=> outcome[t].res \in DOMAIN ErrorNamed
  BY NamesOfCounters
<1> HIDE DEF code, kind
<1>6. CountsOne(monitoring, monitoring', kind, name)
  <2>1. kind \in Kinds /\ Counters(monitoring)
    BY <1>3 DEF Kinds, CInv
  <2> HIDE DEF name
  <2> QED
    BY <1>3, <2>1, CountingOne
<1>7. CallsTally'
  <2>1. ASSUME NEW x \in DOMAIN CountedAs
        PROVE  monitoring'.passed[CountedAs[x]] + monitoring'.failed[CountedAs[x]]
                 + Cardinality(Uncounted(at', request', CountedAs[x])) = called[x]
    <3> DEFINE m == CountedAs[x]
               S == Uncounted(at, request, m)
    <3>1. monitoring.passed[m] + monitoring.failed[m] + Cardinality(S) = called[x]
      BY DEF Tally, CallsTally
    <3>2. m \in Named(Methods)
      BY NamesOfCounters
    <3>3. monitoring.passed[m] \in Nat /\ monitoring.failed[m] \in Nat
      BY <3>2 DEF CInv, Counters
    <3>4. S \in SUBSET Thread /\ (t \in S <=> name = m)
      BY <1>1 DEF Uncounted
    <3>5. Uncounted(at', request', m) = S \ {t}
      BY <1>1, <1>4 DEF Uncounted
    <3> HIDE DEF m, S, name
    <3>6. CASE name = m
      <4>1. monitoring'.passed[m] + monitoring'.failed[m]
              = monitoring.passed[m] + monitoring.failed[m] + 1
        <5>1. CASE kind = "passed"
          <6>1. monitoring'.passed[m] = monitoring.passed[m] + 1
            BY <1>6, <3>6, <5>1 DEF CountsOne
          <6>2. monitoring'.failed[m] = monitoring.failed[m]
            BY <1>6, <3>2, <5>1 DEF CountsOne, Kinds, NamesOf
          <6> QED
            BY <3>3, <6>1, <6>2
        <5>2. CASE kind = "failed"
          <6>1. monitoring'.failed[m] = monitoring.failed[m] + 1
            BY <1>6, <3>6, <5>2 DEF CountsOne
          <6>2. monitoring'.passed[m] = monitoring.passed[m]
            BY <1>6, <3>2, <5>2 DEF CountsOne, Kinds, NamesOf
          <6> QED
            BY <3>3, <6>1, <6>2
        <5> QED
          BY <1>3, <5>1, <5>2
      <4>2. Cardinality(S \ {t}) = Cardinality(S) - 1 /\ Cardinality(S) \in Nat
        BY <3>4, <3>6, JoinOrLeave
      <4>3. monitoring'.passed[m] \in Nat /\ monitoring'.failed[m] \in Nat
        BY <1>6, <3>2 DEF CountsOne, Counters
      <4>4. monitoring'.passed[m] + monitoring'.failed[m] + Cardinality(S \ {t}) = called[x]
        BY <3>1, <3>3, <4>1, <4>2, <4>3
      <4> QED
        BY <3>5, <4>4 DEF m
    <3>7. CASE name # m
      <4>1. /\ monitoring'.passed[m] = monitoring.passed[m]
            /\ monitoring'.failed[m] = monitoring.failed[m]
        BY <1>6, <3>2, <3>7 DEF CountsOne, Kinds, NamesOf
      <4>2. S \ {t} = S
        BY <3>4, <3>7
      <4>3. monitoring'.passed[m] + monitoring'.failed[m] + Cardinality(S \ {t}) = called[x]
        BY <3>1, <4>1, <4>2
      <4> QED
        BY <3>5, <4>3 DEF m
    <3> QED
      BY <3>6, <3>7
  <2> QED
    BY <1>1, <2>1 DEF Tally, CallsTally, tally
<1>8. ErrorsTally'
  <2>1. \A e \in Named(Errors) : monitoring'.error[e] = monitoring.error[e]
    BY <1>3, <1>6 DEF CountsOne, Kinds, NamesOf
  <2>2. \A res \in DOMAIN ErrorNamed :
          Unreported(at', outcome', res) = Unreported(at, outcome, res)
    <3>1. CASE code = "OK" /\ at'[t] = "idle"
      BY <1>1, <1>4, <1>5, <3>1 DEF Unreported
    <3>2. CASE code # "OK" /\ at'[t] = "error" /\ outcome' = outcome
      BY <1>1, <3>2 DEF Unreported
    <3> QED
      BY <1>4, <3>1, <3>2
  <2> QED
    BY <1>1, <2>1, <2>2, NamesOfCounters DEF Tally, ErrorsTally, tally
<1> QED
  BY <1>7, <1>8 DEF Tally

LEMMA CountErrorTally ==
    ASSUME CInv, Tally, NEW t \in Thread, CountError(t)
    PROVE  Tally'
<1> DEFINE res == outcome[t].res
<1>1. /\ at[t] = "error" /\ at'[t] = "idle" /\ \A u \in Thread \ {t} : at'[u] = at[u]
      /\ UNCHANGED tally
  BY DEF CountError, Step, CInv
<1>2. res \in DOMAIN ErrorNamed
  BY <1>1, NamesOfCounters DEF CInv, Countable
<1>3. ErrorOf[convertStoreError(res)] = ErrorNamed[res]
  BY <1>2, NamesOfCounters
<1>4. monitoring' = Counting(monitoring, "error", ErrorNamed[res])
  BY <1>2, <1>3, NamesOfCounters, FailureHasError DEF CountError
<1>5. \A u \in Thread \ {t} : request'[u] = request[u] /\ outcome'[u] = outcome[u]
  <2>1. OverThreads(request) /\ OverThreads(outcome)
    BY DEF CInv
  <2>2. /\ request' = [request EXCEPT ![t] = NoRequest]
        /\ outcome' = [outcome EXCEPT ![t] = NoOutcome]
    BY DEF CountError, Finish
  <2>3. /\ Updated(request, request', t, NoRequest)
        /\ Updated(outcome, outcome', t, NoOutcome)
    BY <2>1, <2>2, UpdateOver
  <2> QED
    BY <2>3 DEF Updated
<1>6. CountsOne(monitoring, monitoring', "error", ErrorNamed[res])
  <2>1. "error" \in Kinds /\ Counters(monitoring)
    BY DEF Kinds, CInv
  <2>2. ErrorNamed[res] \in Named(NamesOf("error"))
    BY <1>2, NamesOfCounters DEF NamesOf
  <2> QED
    BY <1>4, <2>1, <2>2, CountingOne
<1>7. CallsTally'
  <2>1. \A m \in Named(Methods) : /\ monitoring'.passed[m] = monitoring.passed[m]
                                  /\ monitoring'.failed[m] = monitoring.failed[m]
    BY <1>6 DEF CountsOne, Kinds, NamesOf
  <2>2. \A m : Uncounted(at', request', m) = Uncounted(at, request, m)
    BY <1>1, <1>5 DEF Uncounted
  <2> QED
    BY <1>1, <2>1, <2>2, NamesOfCounters DEF Tally, CallsTally, tally
<1> HIDE DEF res
<1>8. ErrorsTally'
  <2>1. ASSUME NEW x \in DOMAIN ErrorNamed
        PROVE  monitoring'.error[ErrorNamed[x]]
                 + Cardinality(Unreported(at', outcome', x)) = returned[x]
    <3> DEFINE S == Unreported(at, outcome, x)
    <3>1. monitoring.error[ErrorNamed[x]] + Cardinality(S) = returned[x]
      BY DEF Tally, ErrorsTally
    <3>2. monitoring.error[ErrorNamed[x]] \in Nat /\ ErrorNamed[x] \in Named(Errors)
      BY NamesOfCounters DEF CInv, Counters
    <3>3. S \in SUBSET Thread /\ (t \in S <=> x = res)
      BY <1>1 DEF Unreported, res
    <3>4. Unreported(at', outcome', x) = S \ {t}
      BY <1>1, <1>5 DEF Unreported
    <3> HIDE DEF S
    <3>5. CASE x = res
      <4>1. monitoring'.error[ErrorNamed[x]] = monitoring.error[ErrorNamed[x]] + 1
        BY <1>6, <3>5 DEF CountsOne
      <4>2. Cardinality(S \ {t}) = Cardinality(S) - 1 /\ Cardinality(S) \in Nat
        BY <3>3, <3>5, JoinOrLeave
      <4>3. monitoring'.error[ErrorNamed[x]] + Cardinality(S \ {t}) = returned[x]
        BY <3>1, <3>2, <4>1, <4>2
      <4> QED
        BY <3>4, <4>3
    <3>6. CASE x # res
      <4>1. ErrorNamed[x] # ErrorNamed[res]
        BY <1>2, <3>6, NamesOfCounters
      <4>2. monitoring'.error[ErrorNamed[x]] = monitoring.error[ErrorNamed[x]]
        BY <1>6, <3>2, <4>1 DEF CountsOne, Kinds, NamesOf
      <4>3. S \ {t} = S
        BY <3>3, <3>6
      <4> QED
        BY <3>1, <3>4, <4>2, <4>3
    <3> QED
      BY <3>5, <3>6
  <2>2. /\ monitoring'.error["wrongCommand"] = monitoring.error["wrongCommand"]
        /\ monitoring'.error["wrongParams"] = monitoring.error["wrongParams"]
    <3>1. /\ ErrorNamed[res] \notin {"wrongCommand", "wrongParams"}
          /\ {"wrongCommand", "wrongParams"} \subseteq Named(Errors)
      BY <1>2, NamesOfCounters
    <3> QED
      BY <1>6, <3>1 DEF CountsOne, Kinds, NamesOf
  <2> QED
    BY <1>1, <2>1, <2>2 DEF Tally, ErrorsTally, tally
<1> QED
  BY <1>7, <1>8 DEF Tally

LEMMA TallyInit == SystemInit => Tally
<1> SUFFICES ASSUME SystemInit PROVE Tally
  OBVIOUS
<1>1. /\ at = [t \in Thread |-> "idle"] /\ monitoring = AllZero
      /\ called = [op \in DOMAIN CountedAs |-> 0]
      /\ returned = [res \in Results |-> 0]
  BY DEF SystemInit
<1>2. \A m : Uncounted(at, request, m) = {}
  BY <1>1 DEF Uncounted
<1>3. \A res : Unreported(at, outcome, res) = {}
  BY <1>1 DEF Unreported
<1>4. Cardinality({}) = 0
  BY FS_EmptySet
<1>5. /\ \A m \in Named(Methods) : monitoring.passed[m] = 0 /\ monitoring.failed[m] = 0
      /\ \A e \in Named(Errors) : monitoring.error[e] = 0
  BY <1>1 DEF AllZero
<1>6. CallsTally
  BY <1>1, <1>2, <1>4, <1>5, NamesOfCounters DEF CallsTally
<1>7. ErrorsTally
  BY <1>1, <1>3, <1>4, <1>5, NamesOfCounters DEF ErrorsTally
<1> QED
  BY <1>6, <1>7 DEF Tally

LEMMA TallyStep == CInv /\ Tally /\ [SystemNext]_systemVars => Tally'
<1> SUFFICES ASSUME CInv, Tally, [SystemNext]_systemVars PROVE Tally'
  OBVIOUS
<1>1. at \in [Thread -> Places] /\ OverThreads(request) /\ OverThreads(outcome)
  BY DEF CInv
<1>2. ASSUME NEW t \in Thread, NEW arrival, RefuseFrame(t, arrival)
      PROVE  Tally'
  BY <1>2, TallyStays DEF RefuseFrame
<1>3. ASSUME NEW t \in Thread, NEW arrival, TakeFrame(t, arrival)
      PROVE  Tally'
  <2>1. /\ at[t] = "idle" /\ at'[t] \in {"store", "copy"}
        /\ \A u \in Thread \ {t} : at'[u] = at[u]
        /\ UNCHANGED <<outcome, monitoring, tally>>
    BY <1>1, <1>3 DEF TakeFrame, Step
  <2>2. \A u \in Thread \ {t} : request'[u] = request[u]
    <3>1. PICK r : request' = [request EXCEPT ![t] = r]
      BY <1>3 DEF TakeFrame
    <3>2. Updated(request, request', t, r)
      BY <1>1, <3>1, UpdateOver
    <3> QED
      BY <3>2 DEF Updated
  <2> QED
    BY <2>1, <2>2, TallyStays
<1>4. ASSUME NEW t \in Thread, CopyCounter(t)
      PROVE  Tally'
  BY <1>4, TallyStays DEF CopyCounter
<1>5. ASSUME NEW t \in Thread, TellStatistics(t)
      PROVE  Tally'
  <2>1. /\ at[t] = "copy" /\ at'[t] = "idle"
        /\ \A u \in Thread \ {t} : at'[u] = at[u]
        /\ UNCHANGED <<outcome, monitoring, tally>>
    BY <1>1, <1>5 DEF TellStatistics, Step
  <2>2. \A u \in Thread \ {t} : request'[u] = request[u]
    <3>1. Updated(request, request', t, NoRequest)
      BY <1>1, <1>5, UpdateOver DEF TellStatistics
    <3> QED
      BY <3>1 DEF Updated
  <2> QED
    BY <2>1, <2>2, TallyStays
<1>6. CASE UNCHANGED working
  BY <1>6, TallyStays DEF working
<1>7. interval => UNCHANGED working
  BY DEF interval
<1>8. UNCHANGED systemVars => UNCHANGED working
  BY DEF systemVars
<1> QED
  BY <1>2, <1>3, <1>4, <1>5, <1>6, <1>7, <1>8,
     CallStoreTally, CountRequestTally, CountErrorTally DEF SystemNext

LEMMA TallyAlways == SystemSpec => []Tally
BY CInvAlways, TallyInit, TallyStep, PTL DEF SystemSpec

LEMMA TallyImplies ==
    ASSUME Tally
    PROVE  RequestsAreCounted /\ ErrorsAreCounted
<1>1. RequestsAreCounted
  <2>1. \A m : {t \in Where("count") : MethodOf[request[t].cmd] = m}
                 = Uncounted(at, request, m)
    BY DEF Where, Uncounted
  <2> QED
    BY <2>1 DEF RequestsAreCounted, Tally, CallsTally
<1>2. ErrorsAreCounted
  <2>1. \A res : {t \in Where("count") \cup Where("error") : outcome[t].res = res}
                   = Unreported(at, outcome, res)
    BY DEF Where, Unreported
  <2> QED
    BY <2>1 DEF ErrorsAreCounted, Tally, ErrorsTally
<1> QED
  BY <1>1, <1>2

\* Every call of the store is counted once, and under its own operation, by
\* whatever number of threads (parse and updateMonitoringRequests).
THEOREM RequestsAreCountedOnce == SystemSpec => []RequestsAreCounted
BY TallyAlways, TallyImplies, PTL

\* Every failure of the store is counted once, and as itself; the counters for
\* requests that never get there stay 0 (updateMonitoringErrors).
THEOREM ErrorsAreCountedOnce == SystemSpec => []ErrorsAreCounted
BY TallyAlways, TallyImplies, PTL

-------------------------------------------------------------------------------
(* The store under the threads.                                             *)

StoreOperation == SessionOperation \/ KeyOperation \/ AllKeyOperation

\* A request is carried out by the operation its command names.
LEMMA CallIsOperation ==
    ASSUME NEW r \in Request, Call(r)
    PROVE  StoreOperation
<1> USE DEF StoreOperation
<1>1. CASE r.cmd = "GENERATE" /\ \E s \in SessionId : Generate(s, r.lifetime)
  <2>1. r.lifetime \in Lifetime
    BY <1>1 DEF Request
  <2> QED
    BY <1>1, <2>1 DEF SessionOperation
<1>2. CASE r.cmd = "EXIST" /\ Exist(r.uuid)
  <2>1. r.uuid \in SessionId
    BY <1>2 DEF Request
  <2> QED
    BY <1>2, <2>1 DEF SessionOperation
<1>3. CASE r.cmd = "REMOVE" /\ Remove(r.uuid)
  <2>1. r.uuid \in SessionId
    BY <1>3 DEF Request
  <2> QED
    BY <1>3, <2>1 DEF SessionOperation
<1>4. CASE r.cmd = "PROLONG" /\ Prolong(r.uuid, r.lifetime)
  <2>1. r.uuid \in SessionId /\ r.lifetime \in Lifetime
    BY <1>4 DEF Request
  <2> QED
    BY <1>4, <2>1 DEF SessionOperation
<1>5. CASE r.cmd = "ADD_SESSION" /\ Add(r.uuid, r.lifetime)
  <2>1. r.uuid \in SessionId /\ r.lifetime \in Lifetime
    BY <1>5 DEF Request
  <2> QED
    BY <1>5, <2>1 DEF SessionOperation
<1>6. CASE r.cmd = "ADD_KEY" /\ AddKey(r.uuid, r.key, r.data, r.lifetime)
  <2>1. r.uuid \in SessionId /\ r.key \in Key /\ r.data \in Data /\ r.lifetime \in Lifetime
    BY <1>6 DEF Request
  <2> QED
    BY <1>6, <2>1 DEF KeyOperation
<1>7. CASE r.cmd = "ALL_ADD_KEY" /\ AddAllKey(r.key, r.data)
  <2>1. r.key \in Key /\ r.data \in Data
    BY <1>7 DEF Request
  <2> QED
    BY <1>7, <2>1 DEF AllKeyOperation
<1>8. CASE r.cmd = "GET_KEY" /\ GetKey(r.uuid, r.key, r.limit)
  <2>1. r.uuid \in SessionId /\ r.key \in Key /\ r.limit \in RateLimit
    BY <1>8 DEF Request
  <2> QED
    BY <1>8, <2>1 DEF KeyOperation
<1>9. CASE r.cmd = "REMOVE_KEY" /\ RemoveKey(r.uuid, r.key)
  <2>1. r.uuid \in SessionId /\ r.key \in Key
    BY <1>9 DEF Request
  <2> QED
    BY <1>9, <2>1 DEF KeyOperation
<1>10. CASE r.cmd = "ALL_REMOVE_KEY" /\ RemoveAllKey(r.key)
  <2>1. r.key \in Key
    BY <1>10 DEF Request
  <2> QED
    BY <1>10, <2>1 DEF AllKeyOperation
<1>11. CASE r.cmd = "EXIST_KEY" /\ ExistKey(r.uuid, r.key)
  <2>1. r.uuid \in SessionId /\ r.key \in Key
    BY <1>11 DEF Request
  <2> QED
    BY <1>11, <2>1 DEF KeyOperation
<1>12. CASE /\ r.cmd = "SET_KEY"
            /\ SetKey(r.uuid, r.key, r.data, r.counterKeys, r.counterRecord, r.limit)
  <2>1. /\ r.uuid \in SessionId /\ r.key \in Key /\ r.data \in Data
        /\ r.counterKeys \in 0 .. MaxCounter /\ r.counterRecord \in 0 .. MaxCounter
        /\ r.limit \in RateLimit
    BY <1>12 DEF Request
  <2> QED
    BY <1>12, <2>1 DEF KeyOperation
<1>13. CASE r.cmd = "SET_FORCE_KEY" /\ SetForceKey(r.uuid, r.key, r.data, r.limit)
  <2>1. r.uuid \in SessionId /\ r.key \in Key /\ r.data \in Data /\ r.limit \in RateLimit
    BY <1>13 DEF Request
  <2> QED
    BY <1>13, <2>1 DEF KeyOperation
<1>14. CASE r.cmd = "PROLONG_KEY" /\ ProlongKey(r.uuid, r.key, r.lifetime)
  <2>1. r.uuid \in SessionId /\ r.key \in Key /\ r.lifetime \in Lifetime
    BY <1>14 DEF Request
  <2> QED
    BY <1>14, <2>1 DEF KeyOperation
<1> QED
  BY <1>1, <1>2, <1>3, <1>4, <1>5, <1>6, <1>7, <1>8, <1>9, <1>10, <1>11, <1>12,
     <1>13, <1>14 DEF Call

\* No operation moves the limit.
LEMMA OperationKeepsLimit ==
    ASSUME StoreOperation \/ ClearInactive
    PROVE  limit' = limit
<1>1. \A op, res : Refuse(op, res) => limit' = limit
  BY DEF Refuse, table
<1>2. ASSUME NEW op, NEW newList, Update(op, newList)
      PROVE  limit' = limit
  BY <1>2 DEF Update
<1>3. ASSUME NEW op, NEW s, NEW lifetime, Insert(op, s, lifetime)
      PROVE  limit' = limit
  BY <1>3 DEF Insert
<1>4. ClearInactive => limit' = limit
  BY DEF ClearInactive
<1>5. SessionOperation => limit' = limit
  BY <1>1, <1>2, <1>3 DEF SessionOperation, Exist, Remove, Add, Generate, Prolong
<1>6. ASSUME NEW op, NEW s, NEW k
      PROVE  NoKey(op, s, k) => limit' = limit
  BY <1>1 DEF NoKey
<1>7. ASSUME NEW op, NEW s, NEW k, NEW d, NEW cap
      PROVE  Write(op, s, k, d, cap) => limit' = limit
  BY <1>1, <1>2 DEF Write
<1>8. KeyOperation => limit' = limit
  <2>1. ASSUME NEW s, NEW k
        PROVE  ExistKey(s, k) \/ RemoveKey(s, k) => limit' = limit
    BY <1>1, <1>2, <1>6 DEF ExistKey, RemoveKey
  <2>2. ASSUME NEW s, NEW k, NEW lifetime
        PROVE  ProlongKey(s, k, lifetime) => limit' = limit
    BY <1>1, <1>2 DEF ProlongKey
  <2>3. ASSUME NEW s, NEW k, NEW d, NEW lifetime
        PROVE  AddKey(s, k, d, lifetime) => limit' = limit
    BY <1>1, <1>2 DEF AddKey
  <2>4. ASSUME NEW s, NEW k, NEW cap
        PROVE  GetKey(s, k, cap) => limit' = limit
    BY <1>1, <1>2, <1>6 DEF GetKey
  <2>5. ASSUME NEW s, NEW k, NEW d, NEW cap
        PROVE  SetForceKey(s, k, d, cap) => limit' = limit
    BY <1>6, <1>7 DEF SetForceKey
  <2>6. ASSUME NEW s, NEW k, NEW d, NEW keys, NEW record, NEW cap
        PROVE  SetKey(s, k, d, keys, record, cap) => limit' = limit
    BY <1>1, <1>6, <1>7 DEF SetKey
  <2> QED
    BY <2>1, <2>2, <2>3, <2>4, <2>5, <2>6, Zenon DEF KeyOperation
<1>9. AllKeyOperation => limit' = limit
  BY <1>2 DEF AllKeyOperation, AddAllKey, RemoveAllKey
<1> QED
  BY <1>4, <1>5, <1>8, <1>9 DEF StoreOperation

\* A store some requests have been made to is one the store's invariant holds of.
LEMMA LoadedType ==
    ASSUME now \in Nat, NEW lifetime \in Lifetime, NEW K \in SUBSET Key, NEW d \in Data
    PROVE  Loaded(lifetime, K, d) \in Items
<1> DEFINE item == NewItem(lifetime)
           n == Cardinality(K) % UIntMod
           v == [k \in Key |-> IF k \in K THEN NewValue(d, 0) ELSE NoValue]
<1>1. IsFiniteSet(K)
  BY FiniteAssumption, FS_Subset
<1>2. n \in UInt
  BY <1>1, FS_CardinalityType, UIntMod_
<1>3. item \in Items
  BY NewItemType
<1>4. v \in [Key -> Values \cup {NoValue}]
  <2>1. NewValue(d, 0) \in Values
    BY NewValueType, StoreAssumption
  <2> QED
    BY <2>1
<1>5. Loaded(lifetime, K, d) = [item EXCEPT !.counterKeys = n, !.values = v]
  BY DEF Loaded
<1> HIDE DEF item, n, v
<1>6. [item EXCEPT !.counterKeys = n, !.values = v] \in Items
  BY <1>2, <1>3, <1>4 DEF Items
<1> QED
  BY <1>5, <1>6

\* The requests under way are ones the store can be asked for, and it is set up.
SInv ==
    /\ FramesHoldRequests
    /\ IInv /\ limit \in Limits
    /\ CInv
    /\ request \in [Thread -> Request \cup {NoRequest}]
    /\ \A t \in Thread : at[t] = "store" => request[t] \in Request
    /\ \A t \in Thread : outcome[t].res \in Results

LEMMA SInvInit == SystemInit /\ FramesHoldRequests => SInv
<1> SUFFICES ASSUME SystemInit, FramesHoldRequests PROVE SInv
  OBVIOUS
<1>1. CInv
  BY CInvInit
<1>2. /\ now = StartTime /\ limit \in Limits
      /\ list \in [SessionId -> {NoItem} \cup
             {Loaded(lifetime, K, d) :
                  lifetime \in Lifetime \ {0}, K \in SUBSET Key, d \in Data}]
      /\ count = Cardinality(Stored) /\ count <= limit
      /\ totalFree = limit - count
      /\ reply = [op |-> "start", res |-> "OK"]
  BY DEF SystemInit
<1>3. now \in Nat /\ limit \in UInt /\ limit # Unset
  BY <1>2, StoreAssumption
<1>4. list \in [SessionId -> Items \cup {NoItem}]
  <2>1. \A lifetime \in Lifetime, K \in SUBSET Key, d \in Data :
            Loaded(lifetime, K, d) \in Items
    BY <1>3, LoadedType
  <2>2. ASSUME NEW s \in SessionId
        PROVE  list[s] \in Items \cup {NoItem}
    BY <1>2, <2>1
  <2> QED
    BY <1>2, <2>2
<1>5. count \in UInt /\ totalFree \in UInt
  <2>1. count \in Nat
    BY <1>2, StoredFinite
  <2> QED
    BY <1>2, <1>3, <2>1, StoreAssumption DEF UInt
<1>6. reply \in [op : Operations, res : Results]
  BY <1>2 DEF Operations, Results
<1>7. IInv
  <2>1. TypeOK
    BY <1>2, <1>3, <1>4, <1>5, <1>6 DEF TypeOK
  <2>2. count \in Nat
    BY <1>5, StoreAssumption DEF UInt
  <2>3. CountSound /\ FreeSessionsReported
    BY <1>2, <1>3, <2>2 DEF CountSound, FreeSessionsReported
  <2> QED
    BY <2>1, <2>3 DEF IInv
<1>8. /\ request \in [Thread -> Request \cup {NoRequest}]
      /\ \A t \in Thread : at[t] = "idle"
  BY DEF SystemInit
<1>9. \A t \in Thread : outcome[t].res \in Results
  BY DEF SystemInit, NoOutcome, Results
<1> QED
  BY <1>1, <1>2, <1>7, <1>8, <1>9 DEF SInv

\* What a step of the threads does to the store is a step of the store.
LEMMA SystemStepOfStore ==
    ASSUME SInv, [SystemNext]_systemVars
    PROVE  [Next]_vars /\ limit' = limit
<1>1. limit # Unset
  BY StoreAssumption DEF SInv, UInt
<1>2. CASE StoreOperation \/ ClearInactive
  BY <1>1, <1>2, OperationKeepsLimit DEF Next, StoreOperation
<1>3. CASE Tick
  BY <1>3 DEF Next, Tick, table
<1>4. CASE UNCHANGED vars
  BY <1>4 DEF vars
<1>5. ASSUME NEW t \in Thread, CallStore(t)
      PROVE  StoreOperation
  <2>1. at[t] = "store" /\ Call(request[t])
    BY <1>5 DEF CallStore, Step
  <2>2. request[t] \in Request
    BY <2>1 DEF SInv
  <2> QED
    BY <2>1, <2>2, CallIsOperation
<1>6. ASSUME NEW t \in Thread,
             \/ \E arrival \in Arrivals : RefuseFrame(t, arrival) \/ TakeFrame(t, arrival)
             \/ CopyCounter(t) \/ TellStatistics(t) \/ CountRequest(t) \/ CountError(t)
      PROVE  UNCHANGED vars
  <2>1. Quiet => UNCHANGED vars
    BY DEF Quiet
  <2>2. \A arrival : RefuseFrame(t, arrival) => Quiet
    BY DEF RefuseFrame
  <2>3. \A arrival : TakeFrame(t, arrival) => Quiet
    BY DEF TakeFrame
  <2>4. CopyCounter(t) \/ TellStatistics(t) \/ CountRequest(t) \/ CountError(t) => Quiet
    BY DEF CopyCounter, TellStatistics, CountRequest, CountError
  <2> QED
    BY <1>6, <2>1, <2>2, <2>3, <2>4
<1>7. interval => ClearInactive
  BY DEF interval
<1>8. UNCHANGED systemVars => UNCHANGED vars
  BY DEF systemVars
<1> QED
  BY <1>2, <1>3, <1>4, <1>5, <1>6, <1>7, <1>8 DEF SystemNext

\* The requests and the outcomes of the threads after a step.
Kept ==
    /\ request' \in [Thread -> Request \cup {NoRequest}]
    /\ \A t \in Thread : at'[t] = "store" => request'[t] \in Request
    /\ \A t \in Thread : outcome'[t].res \in Results

LEMMA TakeFrameKeeps ==
    ASSUME SInv, NEW t \in Thread, NEW arrival \in Arrivals, TakeFrame(t, arrival)
    PROVE  Kept
<1>1. PICK r \in arrival.holds :
          /\ request' = [request EXCEPT ![t] = r]
          /\ Step(t, "idle", "store") \/ Step(t, "idle", "copy")
  BY DEF TakeFrame
<1>2. r \in Request
  BY DEF SInv, FramesHoldRequests
<1>3. /\ at \in [Thread -> Places]
      /\ request \in [Thread -> Request \cup {NoRequest}]
      /\ \A u \in Thread : at[u] = "store" => request[u] \in Request
      /\ \A u \in Thread : outcome[u].res \in Results
  BY DEF SInv, CInv
<1>4. \A u \in Thread : u # t => at'[u] = at[u]
  BY <1>1, <1>3 DEF Step
<1>5. /\ request' \in [Thread -> Request \cup {NoRequest}] /\ request'[t] = r
      /\ \A u \in Thread : u # t => request'[u] = request[u]
  BY <1>1, <1>2, <1>3
<1>6. outcome' = outcome
  BY DEF TakeFrame
<1>7. \A u \in Thread : at'[u] = "store" => request'[u] \in Request
  BY <1>2, <1>3, <1>4, <1>5
<1> QED
  BY <1>3, <1>5, <1>6, <1>7 DEF Kept

LEMMA CallStoreKeeps ==
    ASSUME SInv, reply'.res \in Results, NEW t \in Thread, CallStore(t)
    PROVE  Kept
<1>1. PICK values : outcome' = [outcome EXCEPT ![t] = [res |-> reply'.res, values |-> values]]
  BY DEF CallStore
<1>2. request' = request /\ Step(t, "store", "count")
  BY DEF CallStore
<1>3. /\ at \in [Thread -> Places]
      /\ request \in [Thread -> Request \cup {NoRequest}]
      /\ \A u \in Thread : at[u] = "store" => request[u] \in Request
      /\ \A u \in Thread : outcome[u].res \in Results
      /\ OverThreads(outcome)
  BY DEF SInv, CInv
<1>4. \A u \in Thread : at'[u] = "store" => at[u] = "store"
  BY <1>2, <1>3 DEF Step
<1>5. Updated(outcome, outcome', t, [res |-> reply'.res, values |-> values])
  BY <1>1, <1>3, UpdateOver
<1>6. \A u \in Thread : outcome'[u].res \in Results
  BY <1>3, <1>5 DEF Updated
<1> QED
  BY <1>2, <1>3, <1>4, <1>6 DEF Kept

LEMMA FinishKeeps ==
    ASSUME SInv, NEW t \in Thread, NEW here, Step(t, here, "idle"),
           request' = [request EXCEPT ![t] = NoRequest],
           outcome' = outcome \/ outcome' = [outcome EXCEPT ![t] = NoOutcome]
    PROVE  Kept
<1>1. /\ at \in [Thread -> Places]
      /\ request \in [Thread -> Request \cup {NoRequest}]
      /\ \A u \in Thread : at[u] = "store" => request[u] \in Request
      /\ \A u \in Thread : outcome[u].res \in Results
      /\ OverThreads(outcome)
  BY DEF SInv, CInv
<1>2. at'[t] = "idle" /\ \A u \in Thread : u # t => at'[u] = at[u]
  BY <1>1 DEF Step
<1>3. /\ request' \in [Thread -> Request \cup {NoRequest}]
      /\ \A u \in Thread : u # t => request'[u] = request[u]
  BY <1>1
<1>4. \A u \in Thread : outcome'[u].res \in Results
  <2>1. CASE outcome' = [outcome EXCEPT ![t] = NoOutcome]
    <3>1. Updated(outcome, outcome', t, NoOutcome)
      BY <1>1, <2>1, UpdateOver
    <3>2. NoOutcome.res \in Results
      BY DEF NoOutcome, Results
    <3> QED
      BY <1>1, <3>1, <3>2 DEF Updated
  <2>2. CASE outcome' = outcome
    BY <1>1, <2>2
  <2> QED
    BY <2>1, <2>2
<1> QED
  BY <1>1, <1>2, <1>3, <1>4 DEF Kept

LEMMA OthersKeep ==
    ASSUME SInv, UNCHANGED <<request, outcome>>,
           \A u \in Thread : at'[u] = "store" => at[u] = "store"
    PROVE  Kept
BY DEF SInv, Kept

LEMMA SInvStep == SInv /\ [SystemNext]_systemVars => SInv'
<1> SUFFICES ASSUME SInv, [SystemNext]_systemVars PROVE SInv'
  OBVIOUS
<1>1. [Next]_vars /\ limit' = limit
  BY SystemStepOfStore
<1>2. IInv'
  BY <1>1, NextInv DEF SInv
<1>3. CInv'
  BY CInvStep DEF SInv
<1>4. FramesHoldRequests' /\ limit' \in Limits
  BY <1>1 DEF SInv, FramesHoldRequests, Arrivals, Frames, ProperFrames, Sent
<1>5. reply'.res \in Results
  BY <1>2 DEF IInv, TypeOK
<1>6. at \in [Thread -> Places]
  BY DEF SInv, CInv
<1>7. Kept
  <2>1. ASSUME NEW t \in Thread, NEW arrival, RefuseFrame(t, arrival)
        PROVE  Kept
    BY <2>1, OthersKeep DEF RefuseFrame
  <2>2. ASSUME NEW t \in Thread, NEW arrival \in Arrivals, TakeFrame(t, arrival)
        PROVE  Kept
    BY <2>2, TakeFrameKeeps
  <2>3. ASSUME NEW t \in Thread, CallStore(t)
        PROVE  Kept
    BY <1>5, <2>3, CallStoreKeeps
  <2>4. ASSUME NEW t \in Thread, CopyCounter(t)
        PROVE  Kept
    BY <2>4, OthersKeep DEF CopyCounter
  <2>5. ASSUME NEW t \in Thread, TellStatistics(t)
        PROVE  Kept
    BY <2>5, FinishKeeps DEF TellStatistics
  <2>6. ASSUME NEW t \in Thread, CountRequest(t)
        PROVE  Kept
    <3>1. CASE /\ Step(t, "count", "idle")
               /\ request' = [request EXCEPT ![t] = NoRequest]
               /\ outcome' = [outcome EXCEPT ![t] = NoOutcome]
      BY <3>1, FinishKeeps
    <3>2. CASE Step(t, "count", "error") /\ UNCHANGED <<request, outcome>>
      <4>1. \A u \in Thread : at'[u] = "store" => at[u] = "store"
        BY <1>6, <3>2 DEF Step
      <4> QED
        BY <3>2, <4>1, OthersKeep
    <3> QED
      BY <2>6, <3>1, <3>2 DEF CountRequest, Finish
  <2>7. ASSUME NEW t \in Thread, CountError(t)
        PROVE  Kept
    BY <2>7, FinishKeeps DEF CountError, Finish
  <2>8. CASE UNCHANGED working
    BY <2>8, OthersKeep DEF working
  <2>9. interval => UNCHANGED working
    BY DEF interval
  <2>10. UNCHANGED systemVars => UNCHANGED working
    BY DEF systemVars
  <2> QED
    BY <2>1, <2>2, <2>3, <2>4, <2>5, <2>6, <2>7, <2>8, <2>9, <2>10 DEF SystemNext
<1> QED
  BY <1>2, <1>3, <1>4, <1>7 DEF SInv, Kept

LEMMA SInvAlways == SystemSpec /\ FramesHoldRequests => []SInv
BY SInvInit, SInvStep, PTL DEF SystemSpec

LEMMA SInvType ==
    ASSUME SInv
    PROVE  SystemTypeOK
<1>1. TypeOK /\ CInv
  BY DEF SInv, IInv
<1>2. at \in [Thread -> {"idle", "store", "copy", "count", "error"}]
  BY <1>1 DEF CInv, Places
<1>3. /\ \A kind \in {"passed", "failed"} : monitoring[kind] \in [Named(Methods) -> Nat]
      /\ monitoring.error \in [Named(Errors) -> Nat]
  BY <1>1 DEF CInv, Counters
<1>4. copies \in [Thread -> Seq(Nat)]
  <2>1. ASSUME NEW t \in Thread
        PROVE  copies[t] \in Seq(Nat)
    <3>1. Page(at[t], copies[t], monitoring, log.since[t])
      BY <1>1 DEF CInv
    <3>2. CASE at[t] = "copy"
      <4>1. Numbers(copies[t])
        BY <3>1, <3>2 DEF Page, Reading
      <4>2. \A c : Numbers(c) => c \in Seq(Nat)
        BY DEF Numbers
      <4> QED
        BY <4>1, <4>2
    <3>3. CASE at[t] # "copy"
      <4>1. copies[t] = <<>>
        BY <3>1, <3>3 DEF Page
      <4>2. <<>> \in Seq(Nat)
        OBVIOUS
      <4> QED
        BY <4>1, <4>2, Zenon
    <3> QED
      BY <3>2, <3>3
  <2>2. copies = [t \in Thread |-> copies[t]]
    BY <1>1 DEF CInv, OverThreads
  <2> QED
    BY <2>1, <2>2
<1> QED
  BY <1>1, <1>2, <1>3, <1>4 DEF SInv, SystemTypeOK

\* Every variable of the controller and of the store under it has its type, if
\* no frame is taken for a request the store cannot be asked for.
THEOREM SystemTypeCorrect == SystemSpec /\ FramesHoldRequests => []SystemTypeOK
BY SInvAlways, SInvType, PTL

\* The threads and the timer do to the store what its operations do and nothing
\* else, so that what holds of those holds under any number of threads.
THEOREM ThreadsCallTheStore == SystemSpec /\ FramesHoldRequests => [][Next]_vars
<1>1. SInv /\ [SystemNext]_systemVars => [Next]_vars
  BY SystemStepOfStore
<1> QED
  BY <1>1, SInvAlways, PTL DEF SystemSpec

\* So the store the threads share never holds more sessions than its limit, and
\* reports what it would still accept.
THEOREM LimitHoldsUnderThreads ==
    SystemSpec /\ FramesHoldRequests =>
        [](CountSound /\ FreeSessionsReported /\ LimitRespected)
<1>1. SInv => CountSound /\ FreeSessionsReported /\ LimitRespected
  BY StoredFinite, StoreAssumption
     DEF SInv, IInv, TypeOK, CountSound, LimitRespected, UInt
<1> QED
  BY <1>1, SInvAlways, PTL
===============================================================================
