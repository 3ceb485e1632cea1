----------------------------- MODULE TillProofs -----------------------------
(***************************************************************************)
(* What the roundings of Cents do to every amount, and what the till, the  *)
(* split of a bill and the drawer of Till keep, for every menu, discount,  *)
(* number of shares and length of a bill.                                  *)
(*                                                                         *)
(* The amounts of a bill are sums over its lines.  A sum is a recursive    *)
(* function on the subsets of a finite set, and what holds of it is proved *)
(* of a smallest subset where it would fail: there is one, strict inclusion*)
(* of finite sets being well founded.                                      *)
(***************************************************************************)
EXTENDS Till, WellFoundedInduction, FiniteSetTheorems, SequenceTheorems, TLAPS

-----------------------------------------------------------------------------
(* Arithmetic *)

\* A product grows with its second factor.
LEMMA TimesMonotone ==
  ASSUME NEW k \in Nat, NEW a \in Int, NEW b \in Int, a <= b
  PROVE  k * a <= k * b
<1>1. PICK c \in Nat : b = a + c
  <2>1. b - a \in Nat /\ b = a + (b - a)
    OBVIOUS
  <2> QED  BY <2>1
<1>2. k * b = k * a + k * c
  BY <1>1
<1>3. k * c \in Nat
  BY <1>1
<1> QED  BY <1>2, <1>3

\* A common positive factor of two products is taken away.
LEMMA TimesCancel ==
  ASSUME NEW d \in Nat \ {0}, NEW a \in Int, NEW b \in Int, d * a < d * b
  PROVE  a < b
<1>1. ~(b <= a)
  BY TimesMonotone
<1> QED  BY <1>1

\* The quotient of \div.
LEMMA Quotient ==
  ASSUME NEW a \in Int, NEW d \in Nat \ {0}
  PROVE  /\ a \div d \in Int
         /\ d * (a \div d) <= a
         /\ a < d * (a \div d) + d
  OBVIOUS

-----------------------------------------------------------------------------
(* Roundings *)

\* roundToFiveCents gives the least multiple of five that is not below.
THEOREM FiveCents ==
  ASSUME NEW c \in Int
  PROVE  /\ RoundToFiveCents(c) \in Int
         /\ RoundToFiveCents(c) % 5 = 0
         /\ c <= RoundToFiveCents(c) /\ RoundToFiveCents(c) < c + 5
  BY DEF RoundToFiveCents

\* What is rounded is not rounded again.
LEMMA FiveCentsOnce ==
  ASSUME NEW c \in Int
  PROVE  RoundToFiveCents(RoundToFiveCents(c)) = RoundToFiveCents(c)
  BY FiveCents DEF RoundToFiveCents

\* Rounding to the cent is off by half a cent at most.
LEMMA HalfACent ==
  ASSUME NEW a \in Int, NEW b \in Nat \ {0}
  PROVE  /\ RoundDiv(a, b) \in Int
         /\ 2 * (b * RoundDiv(a, b)) <= 2 * a + b
         /\ 2 * a - b < 2 * (b * RoundDiv(a, b))
<1> DEFINE q == (2 * a + b) \div (2 * b)
<1>1. 2 * b \in Nat \ {0} /\ 2 * a + b \in Int
  OBVIOUS
<1>2. /\ q \in Int /\ (2 * b) * q <= 2 * a + b
      /\ 2 * a + b < (2 * b) * q + 2 * b
  BY <1>1, Quotient
<1>3. (2 * b) * q = 2 * (b * q)
  BY <1>2
<1> QED  BY <1>2, <1>3 DEF RoundDiv

\* A line costs something between nothing and its full price, whatever the
\* discount (calculateLineTotal).
THEOREM DiscountedLine ==
  ASSUME NEW quantity \in Nat, NEW price \in Nat, NEW off \in 0 .. 100
  PROVE  CalculateLineTotal(quantity, price, off) \in 0 .. quantity * price
<1> DEFINE full == quantity * price
           total == CalculateLineTotal(quantity, price, off)
<1>1. full \in Nat /\ 100 - off \in 0 .. 100
  OBVIOUS
<1>2. full * (100 - off) \in Nat /\ full * (100 - off) <= full * 100
  BY <1>1, TimesMonotone
<1>3. /\ total \in Int
      /\ 2 * (100 * total) <= 2 * (full * (100 - off)) + 100
      /\ 2 * (full * (100 - off)) - 100 < 2 * (100 * total)
  BY <1>1, <1>2, HalfACent DEF CalculateLineTotal
<1>4. total >= 0 /\ total <= full
  BY <1>1, <1>2, <1>3
<1> QED  BY <1>1, <1>3, <1>4

\* Net and VAT of an amount are rounded apart: together they are the amount,
\* or a cent more when both are half a cent (calculateNetAmount and
\* calculateVatAmount of vat.ts).
THEOREM NetAndVat ==
  ASSUME NEW gross \in Nat, NEW rate \in Nat
  PROVE  CalculateNetAmount(gross, rate) + CalculateVatAmount(gross, rate)
           \in {gross, gross + 1}
<1> DEFINE d == 100 + rate
           net == CalculateNetAmount(gross, rate)
           vat == CalculateVatAmount(gross, rate)
<1>1. /\ d \in Nat \ {0} /\ gross * 100 \in Int /\ gross * rate \in Int
      /\ gross * 100 + gross * rate = d * gross
  OBVIOUS
<1>2. /\ net \in Int /\ 2 * (d * net) <= 2 * (gross * 100) + d
      /\ 2 * (gross * 100) - d < 2 * (d * net)
  BY <1>1, HalfACent DEF CalculateNetAmount
<1>3. /\ vat \in Int /\ 2 * (d * vat) <= 2 * (gross * rate) + d
      /\ 2 * (gross * rate) - d < 2 * (d * vat)
  BY <1>1, HalfACent DEF CalculateVatAmount
<1> HIDE DEF d, net, vat
<1>4. d * (net + vat) = d * net + d * vat /\ d * (gross - 1) = d * gross - d
      /\ d * (gross + 2) = d * gross + 2 * d
  BY <1>1, <1>2, <1>3
<1>5. d * (gross - 1) < d * (net + vat) /\ d * (net + vat) < d * (gross + 2)
  BY <1>1, <1>2, <1>3, <1>4
<1>6. gross - 1 < net + vat /\ net + vat < gross + 2
  BY <1>1, <1>2, <1>3, <1>5, TimesCancel
<1> QED  BY <1>2, <1>3, <1>6 DEF net, vat

-----------------------------------------------------------------------------
(* The shares of a split: splitRoundedTotal *)

\* All shares but the last are the same, and the last is what is left: they
\* add up to the total.
THEOREM SharesAddUp ==
  ASSUME NEW total \in Int, NEW shares \in Nat \ {0}
  PROVE  /\ \A i \in 1 .. shares - 1 :
              SplitRoundedTotal(total, shares)[i] = EvenShare(total, shares)
         /\ (shares - 1) * EvenShare(total, shares) + SplitRoundedTotal(total, shares)[shares]
              = RoundToFiveCents(total)
<1>1. EvenShare(total, shares) \in Int /\ RoundToFiveCents(total) \in Int
  BY FiveCents, Quotient DEF EvenShare
<1>2. SplitRoundedTotal(total, shares)[shares]
        = RoundToFiveCents(total) - (shares - 1) * EvenShare(total, shares)
  BY DEF SplitRoundedTotal
<1>3. (shares - 1) * EvenShare(total, shares) \in Int
  BY <1>1
<1>4. \A i \in 1 .. shares - 1 :
        SplitRoundedTotal(total, shares)[i] = EvenShare(total, shares)
  BY DEF SplitRoundedTotal
<1> QED  BY <1>1, <1>2, <1>3, <1>4

\* The last share is less than an even one by four cents for each other
\* share at most: with base the exact quotient, it is never below
\* base - 4 * (shares - 1), and can be nothing or negative on a small bill.
THEOREM LastShare ==
  ASSUME NEW total \in Nat, NEW shares \in Nat \ {0}
  PROVE  LET base == RoundToFiveCents(total) \div shares
             last == SplitRoundedTotal(total, shares)[shares]
         IN  last \in base - 4 * (shares - 1) .. base + shares - 1
<1> DEFINE whole == RoundToFiveCents(total)
           base == whole \div shares
           even == EvenShare(total, shares)
           last == SplitRoundedTotal(total, shares)[shares]
           others == shares - 1
<1>1. whole \in Int /\ whole >= 0
  BY FiveCents
<1>2. base \in Int /\ shares * base <= whole /\ whole < shares * base + shares
  BY <1>1, Quotient
<1>3. even \in Int /\ base <= even /\ even <= base + 4
  <2>1. /\ RoundToFiveCents(base) \in Int
        /\ base <= RoundToFiveCents(base) /\ RoundToFiveCents(base) < base + 5
    BY <1>2, FiveCents
  <2> QED  BY <1>2, <2>1 DEF EvenShare
<1>4. last = whole - others * even /\ others \in Nat
  BY DEF SplitRoundedTotal
<1> HIDE DEF whole, base, even, last, others
<1>5. others * base <= others * even /\ others * even <= others * (base + 4)
  BY <1>2, <1>3, <1>4, TimesMonotone
<1>6. /\ others * (base + 4) = others * base + 4 * others
      /\ shares * base = others * base + base /\ others * base \in Int
  BY <1>2, <1>4 DEF others
<1>7. others * even \in Int
  BY <1>3, <1>4
<1>8. last \in Int /\ last >= base - 4 * others /\ last <= base + others
  BY <1>1, <1>2, <1>4, <1>5, <1>6, <1>7 DEF others
<1> QED  BY <1>2, <1>4, <1>8 DEF whole, base, last, others

\* No share is negative when the exact quotient is four cents or more for each
\* other share: with twenty shares, a bill of 15.20 euros.
COROLLARY NoNegativeShare ==
  ASSUME NEW total \in Nat, NEW shares \in Nat \ {0},
         RoundToFiveCents(total) \div shares >= 4 * (shares - 1)
  PROVE  SplitRoundedTotal(total, shares)[shares] >= 0
<1>1. RoundToFiveCents(total) \div shares \in Int
  BY FiveCents, Quotient
<1> QED  BY <1>1, LastShare

-----------------------------------------------------------------------------
(* Sums over finite sets *)

\* A set of subsets of a finite set has a smallest one.
LEMMA SmallestSubset ==
  ASSUME NEW S, IsFiniteSet(S), NEW T, T \subseteq SUBSET S, T # {}
  PROVE  \E u \in T : \A v \in T : v \subseteq u => v = u
<1>1. T \subseteq FiniteSubsetsOf(S)
  BY FS_FiniteSubsetsOfFinite
<1>2. PICK u \in T : \A v \in T : <<v, u>> \notin StrictSubsetOrdering(S)
  BY <1>1, FS_StrictSubsetOrderingWellFounded, WFMin
<1>3. ASSUME NEW v \in T, v \subseteq u PROVE v = u
  BY <1>2, <1>3 DEF StrictSubsetOrdering
<1> QED  BY <1>3

\* The element a fold takes first.
First(s) == CHOOSE x \in s : TRUE

\* A fold takes its first element of the set.
LEMMA FirstIn == ASSUME NEW s, s # {} PROVE First(s) \in s
  BY DEF First

\* g is the recursive function of a sum of f over the subsets of D.
Iter(f, D, g) ==
  g = [s \in SUBSET D |-> IF s = {} THEN 0 ELSE f[First(s)] + g[s \ {First(s)}]]

Value(f, D) == (CHOOSE g : Iter(f, D, g))[D]

\* SumFunction of the community modules is this sum over the domain.
LEMMA SumIs == ASSUME NEW f PROVE SumFunction(f) = Value(f, DOMAIN f)
  BY DEF SumFunction, SumFunctionOnSet, FoldFunctionOnSet, MapThenFoldSet, Value, Iter, First

\* The equation of a recursive sum, at one subset.
LEMMA IterAt ==
  ASSUME NEW f, NEW D, NEW g, Iter(f, D, g), NEW s \in SUBSET D
  PROVE  g[s] = IF s = {} THEN 0 ELSE f[First(s)] + g[s \ {First(s)}]
<1> DEFINE h == [t \in SUBSET D |-> IF t = {} THEN 0 ELSE f[First(t)] + g[t \ {First(t)}]]
<1>1. h[s] = IF s = {} THEN 0 ELSE f[First(s)] + g[s \ {First(s)}]
  OBVIOUS
<1>2. g = h
  BY DEF Iter
<1> HIDE DEF h
<1> QED  BY <1>1, <1>2, Zenon

\* Two recursive functions agree where both are defined and the sums are of the same.
LEMMA IterUnique ==
  ASSUME NEW f, NEW h, NEW D, NEW E, NEW p, NEW q, Iter(f, D, p), Iter(h, E, q),
         NEW s, s \subseteq D, s \subseteq E, IsFiniteSet(s),
         \A x \in s : f[x] = h[x]
  PROVE  p[s] = q[s]
<1> DEFINE T == {u \in SUBSET s : p[u] # q[u]}
<1>1. CASE T = {}
  BY <1>1
<1>2. CASE T # {}
  <2>0. T \subseteq SUBSET s
    OBVIOUS
  <2> HIDE DEF T
  <2>1. PICK u \in T : \A v \in T : v \subseteq u => v = u
    BY <1>2, <2>0, SmallestSubset
  <2>2. u \in SUBSET s /\ u \in SUBSET D /\ u \in SUBSET E
    BY <2>0
  <2>a. \A v \in SUBSET D : p[v] = IF v = {} THEN 0 ELSE f[First(v)] + p[v \ {First(v)}]
    BY IterAt
  <2>b. \A v \in SUBSET E : q[v] = IF v = {} THEN 0 ELSE h[First(v)] + q[v \ {First(v)}]
    BY IterAt
  <2>3. p[u] = (IF u = {} THEN 0 ELSE f[First(u)] + p[u \ {First(u)}])
    BY <2>2, <2>a, Zenon
  <2>4. q[u] = (IF u = {} THEN 0 ELSE h[First(u)] + q[u \ {First(u)}])
    BY <2>2, <2>b, Zenon
  <2>5. u # {}
    BY <2>1, <2>3, <2>4 DEF T
  <2>6. First(u) \in u
    BY <2>5, FirstIn
  <2>7. u \ {First(u)} \notin T
    BY <2>1, <2>6
  <2>8. p[u \ {First(u)}] = q[u \ {First(u)}] /\ f[First(u)] = h[First(u)]
    BY <2>2, <2>6, <2>7 DEF T
  <2> QED  BY <2>1, <2>3, <2>4, <2>5, <2>8 DEF T
<1> QED  BY <1>1, <1>2

\* The recursive sum of a function over a finite set exists: were there a
\* smallest subset without one, those of its parts would make one.
LEMMA IterExists ==
  ASSUME NEW f, NEW D, IsFiniteSet(D)
  PROVE  \E g : Iter(f, D, g)
<1> DEFINE Has(u) == \E g : Iter(f, u, g)
           T == {u \in SUBSET D : ~Has(u)}
<1>1. CASE T = {}
  BY <1>1
<1>2. CASE T # {}
  <2>0. T \subseteq SUBSET D
    OBVIOUS
  <2> HIDE DEF T
  <2>1. PICK u \in T : \A v \in T : v \subseteq u => v = u
    BY <1>2, <2>0, SmallestSubset
  <2> USE DEF T
  <2> DEFINE Of(v) == CHOOSE g : Iter(f, v, g)
             g == [v \in SUBSET u |-> IF v = {} THEN 0
                                      ELSE f[First(v)] + Of(v \ {First(v)})[v \ {First(v)}]]
  <2>2. ASSUME NEW v \in SUBSET u, v # u PROVE Iter(f, v, Of(v))
    <3>1. Has(v)
      BY <2>1, <2>2
    <3> QED  BY <3>1
  <2> HIDE DEF Of
  <2>3. ASSUME NEW w \in SUBSET u, w # u PROVE g[w] = Of(w)[w]
    <3>1. Iter(f, w, Of(w))
      BY <2>2, <2>3
    <3>2. Of(w)[w] = IF w = {} THEN 0 ELSE f[First(w)] + Of(w)[w \ {First(w)}]
      BY <3>1, IterAt
    <3>3. CASE w = {}
      BY <3>2, <3>3
    <3>4. CASE w # {}
      <4> DEFINE z == w \ {First(w)}
      <4>1. First(w) \in w /\ z \in SUBSET u /\ z # u /\ z \subseteq w
        BY <3>4, FirstIn
      <4>2. Iter(f, z, Of(z))
        BY <4>1, <2>2
      <4>3. IsFiniteSet(z)
        BY <4>1, FS_Subset
      <4> HIDE DEF z
      <4>4. Of(w)[z] = Of(z)[z]
        BY <3>1, <4>1, <4>2, <4>3, IterUnique
      <4> QED  BY <3>2, <3>4, <4>4 DEF z
    <3> QED  BY <3>3, <3>4
  <2>4. \A v \in SUBSET u : v # {} => v \ {First(v)} \in SUBSET u /\ v \ {First(v)} # u
    BY FirstIn
  <2>5. Iter(f, u, g)
    <3> DEFINE G(v) == IF v = {} THEN 0 ELSE f[First(v)] + g[v \ {First(v)}]
    <3>1. ASSUME NEW v \in SUBSET u PROVE g[v] = G(v)
      BY <2>3, <2>4
    <3>2. g = [v \in SUBSET u |-> g[v]]
      OBVIOUS
    <3> HIDE DEF g, G
    <3>3. g = [v \in SUBSET u |-> G(v)]
      BY <3>1, <3>2
    <3> QED  BY <3>3 DEF Iter, G
  <2> QED  BY <2>1, <2>5
<1> QED  BY <1>1, <1>2

\* So the value of a sum is that of its recursive function.
LEMMA ValueIter ==
  ASSUME NEW f, NEW D, IsFiniteSet(D)
  PROVE  Iter(f, D, CHOOSE g : Iter(f, D, g))
  BY IterExists

\* The sum over a finite set, an element first.
LEMMA ValueStep ==
  ASSUME NEW f, NEW D, IsFiniteSet(D)
  PROVE  Value(f, D) = IF D = {} THEN 0 ELSE f[First(D)] + Value(f, D \ {First(D)})
<1> DEFINE E == D \ {First(D)}
           p == CHOOSE g : Iter(f, D, g)
           q == CHOOSE g : Iter(f, E, g)
<1>1. IsFiniteSet(E) /\ E \subseteq D
  BY FS_Subset
<1>2. Iter(f, D, p) /\ Iter(f, E, q)
  BY <1>1, ValueIter
<1>3. Value(f, D) = p[D] /\ Value(f, E) = q[E]
  BY DEF Value
<1>4. D \in SUBSET D
  OBVIOUS
<1> HIDE DEF p, q, E
<1>5. p[D] = IF D = {} THEN 0 ELSE f[First(D)] + p[E]
  <2>1. \A v \in SUBSET D : p[v] = IF v = {} THEN 0 ELSE f[First(v)] + p[v \ {First(v)}]
    BY <1>2, IterAt
  <2>2. p[D] = IF D = {} THEN 0 ELSE f[First(D)] + p[D \ {First(D)}]
    BY <2>1, <1>4, Zenon
  <2> QED  BY <2>2 DEF E
<1>6. p[E] = q[E]
  BY <1>1, <1>2, IterUnique
<1> QED  BY <1>3, <1>5, <1>6 DEF E

\* Functions that agree on a set have the same sum over it.
LEMMA ValueSame ==
  ASSUME NEW f, NEW h, NEW D, IsFiniteSet(D), \A x \in D : f[x] = h[x]
  PROVE  Value(f, D) = Value(h, D)
<1> DEFINE p == CHOOSE g : Iter(f, D, g)
           q == CHOOSE g : Iter(h, D, g)
<1>1. Iter(f, D, p) /\ Iter(h, D, q)
  BY ValueIter
<1>2. Value(f, D) = p[D] /\ Value(h, D) = q[D]
  BY DEF Value
<1> HIDE DEF p, q
<1> QED  BY <1>1, <1>2, IterUnique

\* A sum of integers is an integer.
LEMMA ValueInt ==
  ASSUME NEW D, IsFiniteSet(D), NEW f, \A x \in D : f[x] \in Int
  PROVE  Value(f, D) \in Int
<1> DEFINE T == {u \in SUBSET D : Value(f, u) \notin Int}
<1>1. CASE T = {}
  BY <1>1
<1>2. CASE T # {}
  <2>0. T \subseteq SUBSET D
    OBVIOUS
  <2> HIDE DEF T
  <2>1. PICK u \in T : \A v \in T : v \subseteq u => v = u
    BY <1>2, <2>0, SmallestSubset
  <2>2. u \subseteq D /\ IsFiniteSet(u)
    BY <2>0, FS_Subset
  <2>3. Value(f, u) = IF u = {} THEN 0 ELSE f[First(u)] + Value(f, u \ {First(u)})
    BY <2>2, ValueStep
  <2>4. u # {} /\ First(u) \in u
    BY <2>1, <2>3, FirstIn DEF T
  <2>5. Value(f, u \ {First(u)}) \in Int
    BY <2>1, <2>2, <2>4 DEF T
  <2> QED  BY <2>1, <2>2, <2>3, <2>4, <2>5 DEF T
<1> QED  BY <1>1, <1>2

\* Any element can be taken first.
LEMMA ValueOf ==
  ASSUME NEW D, IsFiniteSet(D), NEW f, \A x \in D : f[x] \in Int
  PROVE  /\ Value(f, {}) = 0
         /\ \A x \in D : Value(f, D) = f[x] + Value(f, D \ {x})
<1>0. Value(f, {}) = 0
  BY FS_EmptySet, ValueStep
<1> DEFINE T == {u \in SUBSET D : \E x \in u : Value(f, u) # f[x] + Value(f, u \ {x})}
<1>1. CASE T = {}
  <2>1. D \in SUBSET D /\ D \notin T
    BY <1>1
  <2>2. \A x \in D : Value(f, D) = f[x] + Value(f, D \ {x})
    BY <2>1
  <2> QED  BY <1>0, <2>2
<1>2. CASE T # {}
  <2>0. T \subseteq SUBSET D
    OBVIOUS
  <2> HIDE DEF T
  <2>1. PICK u \in T : \A v \in T : v \subseteq u => v = u
    BY <1>2, <2>0, SmallestSubset
  <2>2. u \subseteq D /\ IsFiniteSet(u)
    BY <2>0, FS_Subset
  <2>3. PICK x \in u : Value(f, u) # f[x] + Value(f, u \ {x})
    BY DEF T
  <2> DEFINE y == First(u)
  <2>4. y \in u
    BY FirstIn
  <2>5. Value(f, u) = f[y] + Value(f, u \ {y})
    BY <2>2, <2>4, ValueStep
  <2> HIDE DEF y
  <2>6. x # y
    BY <2>3, <2>5
  <2>7. u \ {x} \notin T /\ u \ {y} \notin T
    BY <2>1, <2>4
  <2>8. Value(f, u \ {x}) = f[y] + Value(f, (u \ {x}) \ {y})
    BY <2>2, <2>4, <2>6, <2>7 DEF T
  <2>9. Value(f, u \ {y}) = f[x] + Value(f, (u \ {y}) \ {x})
    BY <2>2, <2>4, <2>6, <2>7 DEF T
  <2>10. (u \ {x}) \ {y} = (u \ {y}) \ {x}
    OBVIOUS
  <2>11. Value(f, (u \ {x}) \ {y}) \in Int /\ f[x] \in Int /\ f[y] \in Int
    <3>1. IsFiniteSet((u \ {x}) \ {y}) /\ (u \ {x}) \ {y} \subseteq D
      BY <2>2, FS_Subset
    <3> QED  BY <2>2, <2>4, <3>1, ValueInt
  <2> DEFINE w == Value(f, (u \ {x}) \ {y})
  <2>12. w = Value(f, (u \ {y}) \ {x}) /\ w \in Int
    BY <2>10, <2>11
  <2> HIDE DEF w
  <2>13. Value(f, u \ {x}) = f[y] + w /\ Value(f, u \ {y}) = f[x] + w
    BY <2>8, <2>9, <2>12 DEF w
  <2> QED  BY <2>3, <2>5, <2>11, <2>12, <2>13
<1> QED  BY <1>1, <1>2

\* What holds of each element holds of the sums.
LEMMA ValueLinear ==
  ASSUME NEW D, IsFiniteSet(D), NEW a \in Int, NEW b \in Int, NEW c \in Int,
         NEW f, NEW g, NEW h,
         \A x \in D : /\ f[x] \in Int /\ g[x] \in Int /\ h[x] \in Int
                      /\ a * f[x] <= b * g[x] + c * h[x]
  PROVE  a * Value(f, D) <= b * Value(g, D) + c * Value(h, D)
<1> DEFINE P(u) == a * Value(f, u) <= b * Value(g, u) + c * Value(h, u)
           T == {u \in SUBSET D : ~P(u)}
<1>1. CASE T = {}
  BY <1>1
<1>2. CASE T # {}
  <2>0. T \subseteq SUBSET D
    OBVIOUS
  <2> HIDE DEF T
  <2>1. PICK u \in T : \A v \in T : v \subseteq u => v = u
    BY <1>2, <2>0, SmallestSubset
  <2> DEFINE x == First(u)
             v == u \ {x}
  <2>2. u \subseteq D /\ IsFiniteSet(u) /\ IsFiniteSet(v) /\ v \subseteq D
    BY <2>0, FS_Subset
  <2>3. /\ Value(f, u) = IF u = {} THEN 0 ELSE f[x] + Value(f, v)
        /\ Value(g, u) = IF u = {} THEN 0 ELSE g[x] + Value(g, v)
        /\ Value(h, u) = IF u = {} THEN 0 ELSE h[x] + Value(h, v)
    BY <2>2, ValueStep
  <2>4. u # {} /\ x \in u
    BY <2>1, <2>3, FirstIn DEF T
  <2>5. P(v)
    BY <2>1, <2>2, <2>4 DEF T
  <2>6. Value(f, v) \in Int /\ Value(g, v) \in Int /\ Value(h, v) \in Int
    <3> HIDE DEF v
    <3> QED  BY <2>2, ValueInt
  <2>7. /\ f[x] \in Int /\ g[x] \in Int /\ h[x] \in Int
        /\ a * f[x] <= b * g[x] + c * h[x]
    BY <2>2, <2>4
  <2> HIDE DEF v, x
  <2>8. P(u)
    <3>1. /\ a * (f[x] + Value(f, v)) = a * f[x] + a * Value(f, v)
          /\ b * (g[x] + Value(g, v)) = b * g[x] + b * Value(g, v)
          /\ c * (h[x] + Value(h, v)) = c * h[x] + c * Value(h, v)
      BY <2>6, <2>7
    <3>2. /\ a * f[x] \in Int /\ a * Value(f, v) \in Int
          /\ b * g[x] \in Int /\ b * Value(g, v) \in Int
          /\ c * h[x] \in Int /\ c * Value(h, v) \in Int
      BY <2>6, <2>7
    <3> QED  BY <2>3, <2>4, <2>5, <2>7, <3>1, <3>2
  <2> QED  BY <2>1, <2>8 DEF T
<1> QED  BY <1>1, <1>2

\* The sum over two sets apart.
LEMMA ValueUnion ==
  ASSUME NEW D, IsFiniteSet(D), NEW E, IsFiniteSet(E), D \cap E = {}, NEW f,
         \A x \in D \cup E : f[x] \in Int
  PROVE  Value(f, D \cup E) = Value(f, D) + Value(f, E)
<1> DEFINE T == {u \in SUBSET D : Value(f, u \cup E) # Value(f, u) + Value(f, E)}
<1>1. CASE T = {}
  BY <1>1
<1>2. CASE T # {}
  <2>0. T \subseteq SUBSET D
    OBVIOUS
  <2> HIDE DEF T
  <2>1. PICK u \in T : \A v \in T : v \subseteq u => v = u
    BY <1>2, <2>0, SmallestSubset
  <2> DEFINE x == First(u)
             v == u \ {x}
  <2>2. u \subseteq D /\ IsFiniteSet(u) /\ IsFiniteSet(v) /\ v \subseteq D
    BY <2>0, FS_Subset
  <2>3. Value(f, u) = IF u = {} THEN 0 ELSE f[x] + Value(f, v)
    BY <2>2, ValueStep
  <2>4. Value(f, E) \in Int /\ Value(f, v) \in Int
    <3> HIDE DEF v
    <3> QED  BY <2>2, ValueInt
  <2>5. u # {}
    <3>1. SUFFICES ASSUME u = {} PROVE FALSE
      OBVIOUS
    <3>2. u \cup E = E
      BY <3>1
    <3> QED  BY <2>1, <2>3, <2>4, <3>1, <3>2 DEF T
  <2>6. x \in u
    BY <2>5, FirstIn
  <2>7. IsFiniteSet(u \cup E)
    BY <2>2, FS_Union
  <2>8. (u \cup E) \ {x} = v \cup E /\ x \in u \cup E
    BY <2>2, <2>6
  <2>9. Value(f, u \cup E) = f[x] + Value(f, v \cup E)
    <3> DEFINE w == u \cup E
    <3>1. \A z \in w : f[z] \in Int
      BY <2>2
    <3>2. IsFiniteSet(w) /\ x \in w
      BY <2>7, <2>8
    <3> HIDE DEF w, x
    <3>3. Value(f, w) = f[x] + Value(f, w \ {x})
      BY <3>1, <3>2, ValueOf
    <3> QED  BY <2>8, <3>3 DEF w
  <2>10. Value(f, v \cup E) = Value(f, v) + Value(f, E)
    BY <2>1, <2>2, <2>6 DEF T
  <2>11. f[x] \in Int
    BY <2>2, <2>6
  <2> HIDE DEF v, x
  <2> QED  BY <2>1, <2>2, <2>3, <2>4, <2>5, <2>9, <2>10, <2>11 DEF T
<1> QED  BY <1>1, <1>2

\* A sum of naturals is a natural.
LEMMA ValueNat ==
  ASSUME NEW D, IsFiniteSet(D), NEW f, \A x \in D : f[x] \in Nat
  PROVE  Value(f, D) \in Nat
<1> DEFINE T == {u \in SUBSET D : Value(f, u) \notin Nat}
<1>1. CASE T = {}
  BY <1>1
<1>2. CASE T # {}
  <2>0. T \subseteq SUBSET D
    OBVIOUS
  <2> HIDE DEF T
  <2>1. PICK u \in T : \A v \in T : v \subseteq u => v = u
    BY <1>2, <2>0, SmallestSubset
  <2>2. u \subseteq D /\ IsFiniteSet(u)
    BY <2>0, FS_Subset
  <2>3. Value(f, u) = IF u = {} THEN 0 ELSE f[First(u)] + Value(f, u \ {First(u)})
    BY <2>2, ValueStep
  <2>4. u # {} /\ First(u) \in u
    BY <2>1, <2>3, FirstIn DEF T
  <2>5. Value(f, u \ {First(u)}) \in Nat
    BY <2>1, <2>2, <2>4 DEF T
  <2> QED  BY <2>1, <2>2, <2>3, <2>4, <2>5 DEF T
<1> QED  BY <1>1, <1>2

\* A sum of ones counts.
LEMMA ValueOnes ==
  ASSUME NEW D, IsFiniteSet(D), NEW f, \A x \in D : f[x] = 1
  PROVE  Value(f, D) = Cardinality(D)
<1> DEFINE T == {u \in SUBSET D : Value(f, u) # Cardinality(u)}
<1>1. CASE T = {}
  BY <1>1
<1>2. CASE T # {}
  <2>0. T \subseteq SUBSET D
    OBVIOUS
  <2> HIDE DEF T
  <2>1. PICK u \in T : \A v \in T : v \subseteq u => v = u
    BY <1>2, <2>0, SmallestSubset
  <2> DEFINE x == First(u)
             v == u \ {x}
  <2>2. u \subseteq D /\ IsFiniteSet(u) /\ IsFiniteSet(v) /\ v \subseteq D
    BY <2>0, FS_Subset
  <2>3. Value(f, u) = IF u = {} THEN 0 ELSE f[x] + Value(f, v)
    BY <2>2, ValueStep
  <2>4. u # {}
    <3>1. Cardinality({}) = 0
      BY FS_EmptySet
    <3> QED  BY <2>1, <2>3, <3>1 DEF T
  <2>5. x \in u
    BY <2>4, FirstIn
  <2>6. Value(f, v) = Cardinality(v)
    BY <2>1, <2>2, <2>5 DEF T
  <2>7. Cardinality(v) = Cardinality(u) - 1 /\ Cardinality(u) \in Nat
    BY <2>2, <2>5, FS_RemoveElement, FS_CardinalityType
  <2> HIDE DEF v, x
  <2> QED  BY <2>1, <2>2, <2>3, <2>4, <2>5, <2>6, <2>7 DEF T
<1> QED  BY <1>1, <1>2

\* The sum over a part of a set is no more than the sum over the set.
LEMMA ValueSubset ==
  ASSUME NEW D, IsFiniteSet(D), NEW S, S \subseteq D, NEW f, \A x \in D : f[x] \in Nat
  PROVE  Value(f, S) <= Value(f, D)
<1> DEFINE R == D \ S
<1>1. IsFiniteSet(S) /\ IsFiniteSet(R) /\ S \cap R = {}
  BY FS_Subset
<1>e. S \cup R = D
  OBVIOUS
<1>2. \A x \in S : f[x] \in Nat
  OBVIOUS
<1>3. \A x \in R : f[x] \in Nat
  OBVIOUS
<1> HIDE DEF R
<1>4. Value(f, S) \in Nat /\ Value(f, R) \in Nat
  BY <1>1, <1>2, <1>3, ValueNat
<1>5. Value(f, S \cup R) = Value(f, S) + Value(f, R)
  BY <1>1, <1>2, <1>3, ValueUnion
<1>6. Value(f, D) = Value(f, S) + Value(f, R)
  BY <1>5, <1>e
<1> QED  BY <1>4, <1>6

-----------------------------------------------------------------------------
(* What a bill is, apart from the state *)

Line == [price : Nat, quantity : Nat, voided : Nat, off : 0 .. 100,
         check : Checks \cup {0}]
Bill == {l \in Seq(Line) : \A i \in DOMAIN l : l[i].voided <= l[i].quantity}

Left(l, i) == l[i].quantity - l[i].voided
Served(l) == {i \in DOMAIN l : Left(l, i) > 0}
Cost(l, i) == CalculateLineTotal(Left(l, i), l[i].price, l[i].off)
CostOf(l, S) == SumFunction([i \in S |-> Cost(l, i)])
Assigned(l, c) == {i \in Served(l) : l[i].check = c}
Guests(c) == c.price * c.guests
Owed(l, c) == RoundToFiveCents(RoundToFiveCents(CostOf(l, Served(l))) + Guests(c))
UnitsOf(l, c) == SumFunction([i \in DOMAIN l |-> l[i].quantity]) + c.guests

\* The operators of Till are these of its variables, before a step and after.
LEMMA Views ==
  /\ OnBill = Served(lines) /\ OnBill' = Served(lines')
  /\ CoverTotal = Guests(cover) /\ CoverTotal' = Guests(cover')
  /\ BillTotal = Owed(lines, cover) /\ BillTotal' = Owed(lines', cover')
  /\ Units = UnitsOf(lines, cover) /\ Units' = UnitsOf(lines', cover')
  /\ \A c : LinesOf(c) = Assigned(lines, c)
  /\ \A c : LinesOf(c)' = Assigned(lines', c)
  /\ \A S : Sum(S) = CostOf(lines, S)
<1>1. OnBill = Served(lines) /\ OnBill' = Served(lines')
  BY DEF OnBill, Served, Quantity, Left
<1>2. CoverTotal = Guests(cover) /\ CoverTotal' = Guests(cover')
  BY DEF CoverTotal, Guests
<1>3. BillTotal = Owed(lines, cover)
  BY DEF BillTotal, Owed, OnBill, Served, Quantity, Left, CoverTotal, Guests, Sum, Total,
         CostOf, Cost
<1>4. BillTotal' = Owed(lines', cover')
  BY DEF BillTotal, Owed, OnBill, Served, Quantity, Left, CoverTotal, Guests, Sum, Total,
         CostOf, Cost
<1>5. Units = UnitsOf(lines, cover) /\ Units' = UnitsOf(lines', cover')
  BY DEF Units, UnitsOf
<1>6. \A c : LinesOf(c) = Assigned(lines, c)
  BY DEF LinesOf, Assigned, OnBill, Served, Quantity, Left
<1>7. \A c : LinesOf(c)' = Assigned(lines', c)
  BY DEF LinesOf, Assigned, OnBill, Served, Quantity, Left
<1>8. \A S : Sum(S) = CostOf(lines, S)
  BY DEF Sum, Total, CostOf, Cost, Quantity, Left
<1> QED  BY <1>1, <1>2, <1>3, <1>4, <1>5, <1>6, <1>7, <1>8

\* A common positive factor of two products is taken away, where they may be
\* the same.
LEMMA TimesCancelOrSame ==
  ASSUME NEW d \in Nat \ {0}, NEW a \in Int, NEW b \in Int, d * a <= d * b
  PROVE  a <= b
<1>1. ~(b + 1 <= a)
  <2>1. SUFFICES ASSUME b + 1 <= a PROVE FALSE
    OBVIOUS
  <2>2. d * (b + 1) <= d * a
    BY <2>1, TimesMonotone
  <2>3. d * (b + 1) = d * b + d /\ d * b \in Int /\ d * a \in Int
    OBVIOUS
  <2> QED  BY <2>2, <2>3
<1> QED  BY <1>1

\* What a line of a bill costs.
LEMMA CostIs ==
  ASSUME NEW l \in Bill, NEW i \in DOMAIN l
  PROVE  Left(l, i) \in Nat /\ Cost(l, i) \in Nat /\ l[i] \in Line /\ Left(l, i) <= l[i].quantity
<1>1. l[i] \in Line /\ l[i].voided <= l[i].quantity
  BY DEF Bill
<1>2. Left(l, i) \in Nat /\ Left(l, i) <= l[i].quantity
  BY <1>1 DEF Left, Line
<1>3. Left(l, i) * l[i].price \in Nat
  BY <1>1, <1>2 DEF Line
<1>4. Cost(l, i) \in 0 .. Left(l, i) * l[i].price
  <2>1. l[i].price \in Nat /\ l[i].off \in 0 .. 100
    BY <1>1 DEF Line
  <2> QED  BY <1>2, <2>1, DiscountedLine DEF Cost
<1> QED  BY <1>1, <1>2, <1>3, <1>4

\* A sum is the value of its function on its domain, and of any that agrees there.
LEMMA SumOver ==
  ASSUME NEW S, IsFiniteSet(S), NEW f, DOMAIN f = S, NEW h, \A i \in S : f[i] = h[i]
  PROVE  SumFunction(f) = Value(h, S)
  BY SumIs, ValueSame

\* What some lines of a bill cost is a sum of naturals (billItemsToReceiptLines).
LEMMA CostOfIs ==
  ASSUME NEW l \in Bill, NEW S, S \subseteq DOMAIN l
  PROVE  /\ IsFiniteSet(S)
         /\ CostOf(l, S) \in Nat
         /\ CostOf(l, S) = Value([i \in DOMAIN l |-> Cost(l, i)], S)
<1> DEFINE f == [i \in S |-> Cost(l, i)]
           h == [i \in DOMAIN l |-> Cost(l, i)]
           z == [i \in DOMAIN l |-> 0]
<1>1. IsFiniteSet(S)
  <2>1. DOMAIN l = 1 .. Len(l) /\ Len(l) \in Nat
    BY DEF Bill
  <2>2. IsFiniteSet(1 .. Len(l))
    BY <2>1, FS_Interval
  <2> QED  BY <2>1, <2>2, FS_Subset
<1>2. /\ DOMAIN f = S
      /\ \A i \in S : f[i] = h[i] /\ h[i] \in Nat
      /\ \A i \in S : z[i] = 0
  BY CostIs
<1>3. CostOf(l, S) = SumFunction(f)
  BY DEF CostOf
<1> HIDE DEF f, h, z
<1>4. SumFunction(f) = Value(h, S)
  BY <1>1, <1>2, SumOver
<1>5. Value(h, S) \in Int
  BY <1>1, <1>2, ValueInt
<1>6. Value(h, S) >= 0
  BY <1>1, <1>2, ValueNat
<1> QED  BY <1>1, <1>3, <1>4, <1>5, <1>6 DEF h

Covering == [price : Nat, guests : Nat]

\* A bill is a multiple of five cents, and at most eight more than its lines
\* and its cover.
LEMMA OwedIs ==
  ASSUME NEW l \in Bill, NEW c \in Covering
  PROVE  /\ Guests(c) \in Nat
         /\ Owed(l, c) \in Nat /\ Owed(l, c) % 5 = 0
         /\ CostOf(l, Served(l)) + Guests(c) <= Owed(l, c)
         /\ Owed(l, c) <= CostOf(l, Served(l)) + Guests(c) + 8
<1>1. Guests(c) \in Nat
  BY DEF Guests, Covering
<1>2. CostOf(l, Served(l)) \in Nat
  BY CostOfIs DEF Served
<1> DEFINE a == CostOf(l, Served(l))
           b == RoundToFiveCents(a)
<1>3. b \in Int /\ a <= b /\ b < a + 5
  BY <1>2, FiveCents
<1>4. b + Guests(c) \in Int
  BY <1>1, <1>3
<1> HIDE DEF a, b
<1>5. /\ RoundToFiveCents(b + Guests(c)) \in Int
      /\ RoundToFiveCents(b + Guests(c)) % 5 = 0
      /\ b + Guests(c) <= RoundToFiveCents(b + Guests(c))
      /\ RoundToFiveCents(b + Guests(c)) < b + Guests(c) + 5
  BY <1>4, FiveCents
<1>6. Owed(l, c) = RoundToFiveCents(b + Guests(c))
  BY DEF Owed, a, b
<1> QED  BY <1>1, <1>2, <1>3, <1>5, <1>6 DEF a

\* The lines of a bill are in a check or in none.
LEMMA ChecksAddUp ==
  ASSUME NEW l \in Bill
  PROVE  CostOf(l, Served(l)) = CostOf(l, Assigned(l, 0)) + CostOf(l, Assigned(l, 1))
                                + CostOf(l, Assigned(l, 2))
<1> DEFINE f == [i \in DOMAIN l |-> Cost(l, i)]
           A(c) == Assigned(l, c)
<1>1. \A i \in DOMAIN l : f[i] \in Int
  BY CostIs
<1>2. \A c : A(c) \subseteq DOMAIN l /\ IsFiniteSet(A(c)) /\ CostOf(l, A(c)) = Value(f, A(c))
  BY CostOfIs DEF Assigned, Served
<1>3. Served(l) \subseteq DOMAIN l /\ CostOf(l, Served(l)) = Value(f, Served(l))
  BY CostOfIs DEF Served
<1>4. /\ Served(l) = (A(0) \cup A(1)) \cup A(2)
      /\ A(0) \cap A(1) = {} /\ (A(0) \cup A(1)) \cap A(2) = {}
  <2>1. \A i \in Served(l) : l[i].check \in {0, 1, 2}
    BY CostIs DEF Served, Line, Checks
  <2> QED  BY <2>1 DEF Assigned
<1> DEFINE A0 == A(0)
           A1 == A(1)
           A2 == A(2)
           A01 == A0 \cup A1
<1>5. IsFiniteSet(A01)
  BY <1>2, FS_Union
<1> HIDE DEF f
<1>6. Value(f, A01) = Value(f, A0) + Value(f, A1)
  <2>1. IsFiniteSet(A0) /\ IsFiniteSet(A1) /\ A0 \cap A1 = {} /\ \A i \in A0 \cup A1 : f[i] \in Int
    BY <1>1, <1>2, <1>4
  <2> HIDE DEF A0, A1
  <2> QED  BY <2>1, ValueUnion
<1>7. Value(f, A01 \cup A2) = Value(f, A01) + Value(f, A2)
  <2>1. IsFiniteSet(A2) /\ A01 \cap A2 = {} /\ \A i \in A01 \cup A2 : f[i] \in Int
    BY <1>1, <1>2, <1>4
  <2> HIDE DEF A01, A2
  <2> QED  BY <1>5, <2>1, ValueUnion
<1>8. Served(l) = A01 \cup A2
  BY <1>4
<1> QED  BY <1>2, <1>3, <1>6, <1>7, <1>8

\* The units a receipt may have bound those of its lines.
LEMMA UnitsIs ==
  ASSUME NEW l \in Bill, NEW c \in Covering
  PROVE  /\ UnitsOf(l, c) \in Nat
         /\ UnitsOf(l, c) = Value([i \in DOMAIN l |-> l[i].quantity], DOMAIN l) + c.guests
         /\ \A S \in SUBSET DOMAIN l :
              Value([i \in DOMAIN l |-> Left(l, i)], S) + c.guests <= UnitsOf(l, c)
<1> DEFINE f == [i \in DOMAIN l |-> l[i].quantity]
           g == [i \in DOMAIN l |-> Left(l, i)]
           D == DOMAIN l
<1>1. IsFiniteSet(D)
  BY CostOfIs
<1>2. \A i \in D : f[i] \in Nat /\ g[i] \in Nat /\ g[i] <= f[i]
  BY CostIs DEF Line
<1>3. DOMAIN f = D
  OBVIOUS
<1>4. UnitsOf(l, c) = SumFunction(f) + c.guests /\ c.guests \in Nat
  BY DEF UnitsOf, Covering
<1> HIDE DEF f, g, D
<1>5. SumFunction(f) = Value(f, D)
  BY <1>3, SumIs
<1>6. Value(f, D) \in Nat
  BY <1>1, <1>2, ValueNat
<1>7. ASSUME NEW S \in SUBSET D
      PROVE  Value(g, S) + c.guests <= UnitsOf(l, c)
  <2>1. IsFiniteSet(S)
    BY <1>1, FS_Subset
  <2>2. Value(f, S) <= Value(f, D)
    BY <1>1, <1>2, ValueSubset
  <2>3. Value(f, S) \in Int /\ Value(g, S) \in Int
    BY <1>2, <2>1, ValueInt
  <2>4. \A i \in S : f[i] \in Int /\ g[i] \in Int /\ 1 * g[i] <= 1 * f[i] + 0 * f[i]
    BY <1>2
  <2>5. 1 * Value(g, S) <= 1 * Value(f, S) + 0 * Value(f, S)
    BY <2>1, <2>4, ValueLinear
  <2> QED  BY <1>4, <1>5, <1>6, <2>2, <2>3, <2>5
<1> QED  BY <1>4, <1>5, <1>6, <1>7 DEF f, g, D

\* More lines are more units.
LEMMA UnitsGrow ==
  ASSUME NEW l \in Bill, NEW m \in Bill, NEW c \in Covering, DOMAIN l \subseteq DOMAIN m,
         \A i \in DOMAIN l : m[i].quantity = l[i].quantity
  PROVE  UnitsOf(l, c) <= UnitsOf(m, c)
<1> DEFINE f == [i \in DOMAIN l |-> l[i].quantity]
           g == [i \in DOMAIN m |-> m[i].quantity]
           D == DOMAIN l
           E == DOMAIN m
<1>1. IsFiniteSet(D) /\ IsFiniteSet(E) /\ D \subseteq E
  BY CostOfIs
<1>2. (\A i \in E : g[i] \in Nat) /\ (\A i \in D : f[i] = g[i])
  BY CostIs DEF Line
<1>3. UnitsOf(l, c) = Value(f, D) + c.guests /\ UnitsOf(m, c) = Value(g, E) + c.guests
  BY UnitsIs
<1>4. c.guests \in Nat
  BY DEF Covering
<1> HIDE DEF f, g, D, E
<1>5. Value(f, D) = Value(g, D)
  BY <1>1, <1>2, ValueSame
<1>6. Value(g, D) <= Value(g, E)
  BY <1>1, <1>2, ValueSubset
<1>7. Value(g, D) \in Nat /\ Value(g, E) \in Nat
  BY <1>1, <1>2, ValueNat
<1> QED  BY <1>3, <1>4, <1>5, <1>6, <1>7

-----------------------------------------------------------------------------
(* A receipt and its sale lines *)

\* A line scaled to an amount is off by half a cent a unit.
LEMMA ScaledIs ==
  ASSUME NEW total \in Int, NEW quantity \in Nat, NEW target \in Int,
         NEW source \in Nat \ {0}, quantity = 0 => total = 0
  PROVE  /\ Scaled(total, quantity, target, source) \in Int
         /\ (2 * source) * Scaled(total, quantity, target, source)
              <= (2 * target) * total + source * quantity
         /\ (-(2 * source)) * Scaled(total, quantity, target, source)
              <= (-(2 * target)) * total + source * quantity
<1>1. CASE quantity = 0
  <2>1. Scaled(total, quantity, target, source) = 0 /\ total = 0
    BY <1>1 DEF Scaled
  <2> QED  BY <1>1, <2>1
<1>2. CASE quantity # 0
  <2> DEFINE r == RoundDiv(total * target, source * quantity)
             z == quantity * r
  <2>1. source * quantity \in Nat \ {0} /\ total * target \in Int
    BY <1>2
  <2>2. /\ r \in Int
        /\ 2 * ((source * quantity) * r) <= 2 * (total * target) + source * quantity
        /\ 2 * (total * target) - source * quantity < 2 * ((source * quantity) * r)
    BY <2>1, HalfACent
  <2>3. Scaled(total, quantity, target, source) = z
    BY <1>2 DEF Scaled
  <2> HIDE DEF r
  <2>4. z \in Int /\ (source * quantity) * r = source * z
    BY <2>2
  <2> HIDE DEF z
  <2>5. /\ source * z \in Int /\ total * target \in Int /\ source * quantity \in Int
        /\ (2 * source) * z = 2 * (source * z)
        /\ (-(2 * source)) * z = -(2 * (source * z))
        /\ (2 * target) * total = 2 * (total * target)
        /\ (-(2 * target)) * total = -(2 * (total * target))
    BY <2>1, <2>4
  <2> QED  BY <2>2, <2>3, <2>4, <2>5
<1> QED  BY <1>1, <1>2

\* What the lines of a receipt, and the cover, cost before they are scaled.
LEMMA SourceIs ==
  ASSUME lines \in Bill, cover \in Covering, NEW S, S \subseteq Served(lines),
         NEW withCover \in BOOLEAN
  PROVE  /\ SourceTotal(S, withCover) \in Nat
         /\ SourceTotal(S, withCover) = CostOf(lines, S) + (IF withCover THEN Guests(cover) ELSE 0)
<1>1. CostOf(lines, S) \in Nat
  BY CostOfIs DEF Served
<1>2. Guests(cover) \in Nat
  BY OwedIs
<1>3. Sum(S) = CostOf(lines, S) /\ CoverTotal = Guests(cover)
  BY Views
<1> QED  BY <1>1, <1>2, <1>3 DEF SourceTotal

\* A receipt is off from its amount by half a cent a unit.
LEMMA ReceiptIs ==
  ASSUME lines \in Bill, cover \in Covering, NEW S, S \subseteq Served(lines),
         NEW withCover \in BOOLEAN, NEW target \in Int, NEW whole \in BOOLEAN,
         SourceTotal(S, withCover) = 0 /\ split.kind # "roman" => target = 0
  PROVE  /\ ReceiptTotal(S, withCover, target, whole) \in Int
         /\ Near(ReceiptTotal(S, withCover, target, whole), target, Units)
<1> DEFINE source == SourceTotal(S, withCover)
           total == ReceiptTotal(S, withCover, target, whole)
           T(i) == Total(i)
           f == [i \in DOMAIN lines |-> Cost(lines, i)]
           g == [i \in DOMAIN lines |-> Left(lines, i)]
           h == [i \in DOMAIN lines |-> Scaled(Cost(lines, i), Left(lines, i), target, source)]
           k == [i \in S |-> Scaled(Total(i), Quantity(i), target, source)]
           ct == IF withCover THEN Guests(cover) ELSE 0
           cq == IF withCover THEN cover.guests ELSE 0
           cs == IF withCover THEN Scaled(CoverTotal, cover.guests, target, source) ELSE 0
<1>1. source \in Nat /\ source = CostOf(lines, S) + ct
  BY SourceIs
<1>2. Units \in Nat
  BY UnitsIs, Views
<1>3. CASE total = target
  BY <1>2, <1>3 DEF Near
<1>4. CASE source = 0
  <2>1. total = IF split.kind = "roman" THEN target ELSE 0
    BY <1>4 DEF ReceiptTotal
  <2>2. total = target
    BY <1>4, <2>1
  <2> QED  BY <1>3, <2>2
<1>5. CASE source # 0 /\ whole
  <2>1. total = target
    BY <1>1, <1>5 DEF ReceiptTotal
  <2> QED  BY <1>3, <2>1
<1>6. CASE source # 0 /\ ~whole
  <2>0. source \in Nat \ {0} /\ ~(source <= 0)
    BY <1>1, <1>6
  <2>1. total = SumFunction(k) + cs
    BY <1>6, <2>0 DEF ReceiptTotal
  <2>2. IsFiniteSet(S) /\ S \subseteq DOMAIN lines
    BY CostOfIs DEF Served
  <2>3. /\ CostOf(lines, S) = Value(f, S)
        /\ Value(g, S) + cover.guests <= Units
    BY <2>2, CostOfIs, UnitsIs, Views
  <2>4. \A i \in S : /\ f[i] \in Nat /\ g[i] \in Nat \ {0} /\ k[i] = h[i]
                     /\ h[i] = Scaled(f[i], g[i], target, source)
    <3>1. \A i \in S : i \in DOMAIN lines /\ Left(lines, i) > 0
      BY DEF Served
    <3>2. \A i \in S : Cost(lines, i) \in Nat /\ Left(lines, i) \in Nat
      BY <3>1, CostIs
    <3>3. \A i : Total(i) = Cost(lines, i) /\ Quantity(i) = Left(lines, i)
      BY DEF Total, Cost, Quantity, Left
    <3> QED  BY <3>1, <3>2, <3>3
  <2>5. DOMAIN k = S
    OBVIOUS
  <2>6. /\ cs \in Int
        /\ (2 * source) * cs <= (2 * target) * ct + source * cq
        /\ (-(2 * source)) * cs <= (-(2 * target)) * ct + source * cq
        /\ ct \in Nat /\ cq \in Nat /\ cq <= cover.guests /\ cover.guests \in Nat
    <3>1. /\ cover.guests \in Nat /\ Guests(cover) \in Nat
          /\ cover.guests = 0 => Guests(cover) = 0
      BY OwedIs DEF Guests, Covering
    <3>2. CoverTotal = Guests(cover)
      BY Views
    <3>3. CASE withCover
      <4>1. /\ cs = Scaled(Guests(cover), cover.guests, target, source)
            /\ ct = Guests(cover) /\ cq = cover.guests
        BY <3>2, <3>3
      <4> HIDE DEF source, cs, ct, cq
      <4> DEFINE tc == Guests(cover)
                 qc == cover.guests
      <4>3. tc \in Int /\ qc \in Nat /\ (qc = 0 => tc = 0)
        BY <3>1
      <4>2. /\ Scaled(Guests(cover), cover.guests, target, source) \in Int
            /\ (2 * source) * Scaled(Guests(cover), cover.guests, target, source)
                 <= (2 * target) * Guests(cover) + source * cover.guests
            /\ (-(2 * source)) * Scaled(Guests(cover), cover.guests, target, source)
                 <= (-(2 * target)) * Guests(cover) + source * cover.guests
        <5> HIDE DEF tc, qc
        <5>1. /\ Scaled(tc, qc, target, source) \in Int
              /\ (2 * source) * Scaled(tc, qc, target, source) <= (2 * target) * tc + source * qc
              /\ (-(2 * source)) * Scaled(tc, qc, target, source)
                   <= (-(2 * target)) * tc + source * qc
          BY <2>0, <4>3, ScaledIs
        <5> QED  BY <5>1 DEF tc, qc
      <4> QED  BY <3>1, <4>1, <4>2
    <3>4. CASE ~withCover
      BY <2>0, <3>1, <3>4
    <3> QED  BY <3>3, <3>4
  <2> HIDE DEF f, g, h, k, cs, ct, cq, source, total
  <2>7. SumFunction(k) = Value(h, S)
    BY <2>2, <2>4, <2>5, SumOver
  <2>8. \A i \in S :
          /\ h[i] \in Int /\ f[i] \in Int /\ g[i] \in Int
          /\ (2 * source) * h[i] <= (2 * target) * f[i] + source * g[i]
          /\ (-(2 * source)) * h[i] <= (-(2 * target)) * f[i] + source * g[i]
    <3> TAKE i \in S
    <3>1. f[i] \in Int /\ g[i] \in Nat /\ (g[i] = 0 => f[i] = 0)
      BY <2>4
    <3>2. h[i] = Scaled(f[i], g[i], target, source)
      BY <2>4
    <3>3. /\ Scaled(f[i], g[i], target, source) \in Int
          /\ (2 * source) * Scaled(f[i], g[i], target, source)
               <= (2 * target) * f[i] + source * g[i]
          /\ (-(2 * source)) * Scaled(f[i], g[i], target, source)
               <= (-(2 * target)) * f[i] + source * g[i]
      BY <2>0, <3>1, ScaledIs
    <3> QED  BY <3>1, <3>2, <3>3
  <2> DEFINE F == Value(f, S)
             G == Value(g, S)
             H == Value(h, S)
  <2>9. F \in Int /\ G \in Int /\ H \in Int
    BY <2>2, <2>8, ValueInt
  <2>10. 2 * source \in Int /\ 2 * target \in Int /\ -(2 * source) \in Int /\ -(2 * target) \in Int
    BY <2>0
  <2>11. (2 * source) * H <= (2 * target) * F + source * G
    <3>1. source \in Int
      BY <2>0
    <3> QED  BY <2>2, <2>8, <2>10, <3>1, ValueLinear
  <2>12. (-(2 * source)) * H <= (-(2 * target)) * F + source * G
    <3>1. source \in Int
      BY <2>0
    <3> QED  BY <2>2, <2>8, <2>10, <3>1, ValueLinear
  <2>13. source = F + ct /\ total = H + cs /\ G + cover.guests <= Units
    BY <1>1, <2>1, <2>3, <2>7
  <2> HIDE DEF F, G, H
  <2> DEFINE e == total - target
             n == G + cq
  <2>14. source * (2 * e) <= source * n /\ source * (-(2 * e)) <= source * n
    <3>0. total \in Int /\ e \in Int /\ n \in Int
      BY <2>6, <2>9, <2>13
    <3>1. (2 * source) * H + (2 * source) * cs
            <= ((2 * target) * F + (2 * target) * ct) + (source * G + source * cq)
      <4>1. /\ (2 * source) * H \in Int /\ (2 * source) * cs \in Int /\ (2 * target) * F \in Int
            /\ (2 * target) * ct \in Int /\ source * G \in Int /\ source * cq \in Int
        BY <2>0, <2>6, <2>9
      <4> QED  BY <2>6, <2>11, <4>1
    <3>2. (-(2 * source)) * H + (-(2 * source)) * cs
             <= ((-(2 * target)) * F + (-(2 * target)) * ct) + (source * G + source * cq)
      <4>1. /\ (-(2 * source)) * H \in Int /\ (-(2 * source)) * cs \in Int /\ (-(2 * target)) * F \in Int
            /\ (-(2 * target)) * ct \in Int /\ source * G \in Int /\ source * cq \in Int
        BY <2>0, <2>6, <2>9
      <4> QED  BY <2>6, <2>12, <4>1
    <3>3. /\ (2 * source) * H + (2 * source) * cs = (2 * source) * total
          /\ (2 * target) * F + (2 * target) * ct = (2 * source) * target
          /\ source * G + source * cq = source * n
      BY <2>0, <2>6, <2>9, <2>13
    <3>4. /\ (-(2 * source)) * H + (-(2 * source)) * cs = -((2 * source) * total)
          /\ (-(2 * target)) * F + (-(2 * target)) * ct = -((2 * source) * target)
      BY <2>0, <2>6, <2>9, <2>13
    <3>5. /\ source * (2 * e) = (2 * source) * total - (2 * source) * target
          /\ source * (-(2 * e)) = (2 * source) * target - (2 * source) * total
          /\ (2 * source) * total \in Int /\ (2 * source) * target \in Int /\ source * n \in Int
      BY <2>0, <3>0
    <3> HIDE DEF e, n
    <3> QED  BY <3>1, <3>2, <3>3, <3>4, <3>5
  <2>15. 2 * e <= n /\ -(2 * e) <= n /\ n <= Units /\ n \in Int /\ total \in Int
    <3>0. total \in Int /\ e \in Int /\ n \in Int
      BY <2>6, <2>9, <2>13
    <3>1. ~(n < 2 * e) /\ ~(n < -(2 * e))
      <4> HIDE DEF e, n
      <4>1. 2 * e \in Int /\ -(2 * e) \in Int
        BY <3>0
      <4>2. 2 * e <= n /\ -(2 * e) <= n
        BY <2>0, <2>14, <3>0, <4>1, TimesCancelOrSame
      <4> QED  BY <3>0, <4>1, <4>2
    <3> QED  BY <3>0, <3>1, <2>6, <2>9, <2>13, <1>2
  <2> QED  BY <2>15, <1>2 DEF Near, total
<1> QED  BY <1>1, <1>4, <1>5, <1>6

\* Twice b times the sale lines, but for b times n, is twice the source times
\* the amounts.
Spread(b, source, sold, taken, n) ==
  /\ (2 * b) * sold <= (2 * source) * taken + b * n
  /\ -((2 * b) * sold) <= -((2 * source) * taken) + b * n

\* Two documents of the same bill, each off by its roundings, are off by the
\* sum of them.
LEMMA SpreadAdds ==
  ASSUME NEW b \in Nat, NEW source \in Nat, NEW s \in Int, NEW p \in Int, NEW n \in Int,
         NEW x \in Int, NEW y \in Int, NEW m \in Int,
         Spread(b, source, s, p, n), Spread(b, source, x, y, m)
  PROVE  Spread(b, source, s + x, p + y, n + m)
<1>1. /\ (2 * b) * (s + x) = (2 * b) * s + (2 * b) * x
      /\ (2 * source) * (p + y) = (2 * source) * p + (2 * source) * y
      /\ b * (n + m) = b * n + b * m
  OBVIOUS
<1>2. /\ (2 * b) * s \in Int /\ (2 * b) * x \in Int
      /\ (2 * source) * p \in Int /\ (2 * source) * y \in Int
      /\ b * n \in Int /\ b * m \in Int
  OBVIOUS
<1> QED  BY <1>1, <1>2 DEF Spread

\* When all of the bill is taken, the sale lines are near it.
LEMMA SpreadEnds ==
  ASSUME NEW b \in Nat \ {0}, NEW source \in Nat, source <= b, b <= source + 8,
         NEW s \in Int, NEW n \in Nat, Spread(b, source, s, b, n)
  PROVE  Near(s, b, 16 + n)
<1>1. /\ (2 * b) * s = b * (2 * s) /\ -((2 * b) * s) = b * (-(2 * s))
      /\ (2 * source) * b + b * n = b * (2 * source + n)
      /\ -((2 * source) * b) + b * n = b * (n - 2 * source)
  OBVIOUS
<1>2. b * (2 * s) <= b * (2 * source + n) /\ b * (-(2 * s)) <= b * (n - 2 * source)
  BY <1>1 DEF Spread
<1>3. 2 * s <= 2 * source + n /\ -(2 * s) <= n - 2 * source
  BY <1>2, TimesCancelOrSame
<1> QED  BY <1>3 DEF Near

\* The sale lines of a share are scaled to it.
LEMMA ShareSales ==
  ASSUME lines \in Bill, cover \in Covering, NEW target \in Int, split.kind = "roman"
  PROVE  /\ SaleLines(Served(lines), TRUE, target) \in Int
         /\ BillTotal > 0 =>
              Spread(BillTotal, CostOf(lines, Served(lines)) + Guests(cover),
                     SaleLines(Served(lines), TRUE, target), target, Len(lines) + 1)
         /\ BillTotal = 0 => SaleLines(Served(lines), TRUE, target) = 0
<1> DEFINE S == Served(lines)
           b == BillTotal
           cv == Guests(cover)
           sold == SaleLines(S, TRUE, target)
           f == [i \in DOMAIN lines |-> Cost(lines, i)]
           h == [i \in DOMAIN lines |-> RoundDiv(Cost(lines, i) * target, b)]
           k == [i \in S |-> RoundDiv(Total(i) * target, BillTotal)]
           w == [i \in DOMAIN lines |-> 1]
           cs == RoundDiv(CoverTotal * target, BillTotal)
<1>1. /\ b \in Nat /\ cv \in Nat /\ CoverTotal = cv
      /\ CostOf(lines, S) + cv <= b
  BY OwedIs, Views
<1>2. IsFiniteSet(S) /\ S \subseteq DOMAIN lines /\ CostOf(lines, S) \in Nat
      /\ CostOf(lines, S) = Value(f, S)
  BY CostOfIs DEF Served
<1>3. CASE b = 0
  <2>1. sold = SourceTotal(S, TRUE)
    BY <1>3 DEF SaleLines
  <2>2. SourceTotal(S, TRUE) = CostOf(lines, S) + cv
    BY SourceIs
  <2> HIDE DEF sold, S, cv, b, f
  <2>3. CostOf(lines, S) \in Nat /\ cv \in Nat /\ CostOf(lines, S) + cv <= 0
    BY <1>1, <1>2, <1>3
  <2>6. sold = CostOf(lines, S) + cv
    BY <2>1, <2>2, Zenon
  <2>4. sold = 0
    BY <2>3, <2>6
  <2>5. ~(b > 0) /\ sold \in Int
    BY <1>3, <2>4
  <2> QED  BY <2>4, <2>5 DEF b, S, cv, sold
<1>4. CASE b # 0
  <2>0. BillTotal > 0
    BY <1>1, <1>4
  <2>1. sold = SumFunction(k) + cs
    BY <2>0, Zenon DEF SaleLines
  <2>2. /\ \A i \in S : f[i] \in Nat /\ k[i] = h[i] /\ h[i] = RoundDiv(f[i] * target, b)
        /\ \A i \in S : w[i] = 1
    <3>1. \A i \in S : Cost(lines, i) \in Nat
      BY <1>2, CostIs
    <3>2. \A i : Total(i) = Cost(lines, i)
      BY DEF Total, Cost, Quantity, Left
    <3> QED  BY <1>2, <3>1, <3>2
  <2>3. DOMAIN k = S
    OBVIOUS
  <2>4. cs = RoundDiv(cv * target, b)
    BY <1>1
  <2>5. Cardinality(S) <= Len(lines) /\ Cardinality(S) \in Nat /\ Len(lines) \in Nat
    <3>1. DOMAIN lines = 1 .. Len(lines) /\ Len(lines) \in Nat
      BY DEF Bill
    <3> DEFINE n == Len(lines)
    <3> HIDE DEF n
    <3>2. IsFiniteSet(1 .. n) /\ Cardinality(1 .. n) = n
      <4>1. n \in Nat /\ 1 \in Int
        BY <3>1 DEF n
      <4>2. Cardinality(1 .. n) = IF 1 > n THEN 0 ELSE n - 1 + 1
        BY <4>1, FS_Interval
      <4>3. IsFiniteSet(1 .. n)
        BY <4>1, FS_Interval
      <4> QED  BY <4>1, <4>2, <4>3
    <3>3. S \subseteq 1 .. n
      BY <1>2, <3>1 DEF n
    <3>4. Cardinality(S) <= Cardinality(1 .. n) /\ Cardinality(S) \in Nat
      <4> HIDE DEF S
      <4> QED  BY <1>2, <3>2, <3>3, FS_Subset, FS_CardinalityType
    <3> QED  BY <3>1, <3>2, <3>4 DEF n
  <2> HIDE DEF S, b, cv, sold, f, h, k, w, cs
  <2>6. SumFunction(k) = Value(h, S)
    BY <1>2, <2>2, <2>3, SumOver
  <2>7. ASSUME NEW a \in Int
        PROVE  /\ RoundDiv(a * target, b) \in Int
               /\ (2 * b) * RoundDiv(a * target, b) <= (2 * target) * a + b * 1
               /\ (-(2 * b)) * RoundDiv(a * target, b) <= (-(2 * target)) * a + b * 1
    <3> DEFINE r == RoundDiv(a * target, b)
    <3>1. b \in Nat \ {0} /\ a * target \in Int
      BY <1>1, <1>4
    <3>2. /\ r \in Int /\ 2 * (b * r) <= 2 * (a * target) + b
          /\ 2 * (a * target) - b < 2 * (b * r)
      BY <3>1, HalfACent
    <3> HIDE DEF r
    <3>3. /\ (2 * b) * r = 2 * (b * r) /\ (-(2 * b)) * r = -(2 * (b * r))
          /\ (2 * target) * a = 2 * (a * target) /\ (-(2 * target)) * a = -(2 * (a * target))
          /\ b * r \in Int
      BY <3>1, <3>2
    <3> QED  BY <3>1, <3>2, <3>3 DEF r
  <2>8. \A i \in S :
          /\ h[i] \in Int /\ f[i] \in Int /\ w[i] \in Int
          /\ (2 * b) * h[i] <= (2 * target) * f[i] + b * w[i]
          /\ (-(2 * b)) * h[i] <= (-(2 * target)) * f[i] + b * w[i]
    <3> TAKE i \in S
    <3>1. f[i] \in Int /\ w[i] = 1 /\ h[i] = RoundDiv(f[i] * target, b)
      BY <2>2
    <3> DEFINE r == RoundDiv(f[i] * target, b)
    <3>2. /\ r \in Int /\ (2 * b) * r <= (2 * target) * f[i] + b * 1
          /\ (-(2 * b)) * r <= (-(2 * target)) * f[i] + b * 1
      BY <2>7, <3>1
    <3>3. h[i] = r
      BY <3>1
    <3> HIDE DEF r
    <3> QED  BY <3>1, <3>2, <3>3
  <2> DEFINE F == Value(f, S)
             H == Value(h, S)
             W == Value(w, S)
  <2>9. F \in Int /\ H \in Int /\ W = Cardinality(S)
    BY <1>2, <2>2, <2>8, ValueInt, ValueOnes
  <2>10. /\ 2 * b \in Int /\ 2 * target \in Int /\ -(2 * b) \in Int /\ -(2 * target) \in Int
         /\ b \in Int
    BY <1>1
  <2>11. (2 * b) * H <= (2 * target) * F + b * W
    BY <1>2, <2>8, <2>10, ValueLinear
  <2>12. (-(2 * b)) * H <= (-(2 * target)) * F + b * W
    BY <1>2, <2>8, <2>10, ValueLinear
  <2>13. /\ cs \in Int
         /\ (2 * b) * cs <= (2 * target) * cv + b * 1
         /\ (-(2 * b)) * cs <= (-(2 * target)) * cv + b * 1
    BY <1>1, <2>4, <2>7
  <2>14. CostOf(lines, S) = F /\ sold = H + cs
    BY <1>2, <2>1, <2>6
  <2> HIDE DEF F, H, W
  <2>15. Spread(b, F + cv, sold, target, Len(lines) + 1)
    <3> DEFINE hb == (2 * b) * H
               cb == (2 * b) * cs
               ft == (2 * target) * F
               ct == (2 * target) * cv
               bw == b * W
               bl == b * Len(lines)
    <3>1. /\ (2 * b) * (H + cs) = hb + cb
          /\ (-(2 * b)) * H = -hb /\ (-(2 * b)) * cs = -cb
          /\ (2 * (F + cv)) * target = ft + ct
          /\ (-(2 * target)) * F = -ft /\ (-(2 * target)) * cv = -ct
          /\ b * (Len(lines) + 1) = bl + b
      BY <1>1, <2>5, <2>9, <2>13
    <3>2. bw <= bl
      BY <1>1, <2>5, <2>9, TimesMonotone
    <3>3. /\ hb \in Int /\ cb \in Int /\ ft \in Int /\ ct \in Int /\ bw \in Int /\ bl \in Int
      BY <1>1, <2>5, <2>9, <2>13
    <3>4. /\ hb <= ft + bw /\ -hb <= -ft + bw
          /\ cb <= ct + b /\ -cb <= -ct + b
      BY <1>1, <2>11, <2>12, <2>13, <3>1
    <3> HIDE DEF hb, cb, ft, ct, bw, bl
    <3>5. /\ hb + cb <= ft + ct + (bl + b)
          /\ -(hb + cb) <= -(ft + ct) + (bl + b)
      BY <1>1, <3>2, <3>3, <3>4
    <3> QED  BY <2>14, <3>1, <3>5 DEF Spread
  <2>16. sold \in Int
    BY <2>9, <2>13, <2>14
  <2> QED  BY <1>4, <2>14, <2>15, <2>16 DEF S, b, cv, sold
<1> QED  BY <1>3, <1>4

-----------------------------------------------------------------------------
(* The inductive invariant *)

Screen == [total : Int, checks : [Checks -> Nat]]

Types ==
  /\ lines \in Bill /\ Len(lines) <= MaxLines
  /\ cover \in Covers
  /\ screen \in Screen
  /\ {paid, shown, sales, drawer, short} \subseteq Int
  /\ parts \in [Methods -> Int]
  /\ freed \in BOOLEAN /\ moved \in BOOLEAN

CheckSplit(P) == [kind |-> "checks", total |-> 0, shares |-> <<>>, paid |-> P]
RomanSplit(t, n, k) == [kind |-> "roman", total |-> t, shares |-> SplitRoundedTotal(t, n),
                        paid |-> 1 .. k]

\* Shares are paid in order, and the bill is settled with the last; so with the
\* last check.
SplitInv ==
  \/ split = NoSplit
  \/ \E P \in SUBSET Checks : split = CheckSplit(P) /\ (freed <=> P = Checks)
  \/ \E n \in ShareCounts : \E k \in 0 .. n :
       /\ split.total \in Nat /\ split.total % 5 = 0
       /\ split = RomanSplit(split.total, n, k) /\ (freed <=> k = n)
       /\ paid = IF k < n THEN k * EvenShare(split.total, n) ELSE split.total

\* Before the first payment the books are empty.
NothingBooked ==
  /\ paid = 0 /\ shown = 0 /\ sales = 0 /\ drawer = 0 /\ short = 0
  /\ \A m \in Methods : parts[m] = 0

FreshInv == split.paid = {} /\ ~freed => NothingBooked

\* A check paid is paid to five cents.
CheckDue(l, c, P) == IF c \in P THEN RoundToFiveCents(CostOf(l, Assigned(l, c))) ELSE 0

ChecksInv ==
  split.kind = "checks" /\ ~moved =>
    paid = CheckDue(lines, 1, split.paid) + CheckDue(lines, 2, split.paid)

\* The sale lines of what is paid so far.
SalesInv ==
  CASE split.kind = "roman" ->
         ~moved /\ BillTotal = split.total =>
           /\ BillTotal > 0 => Spread(BillTotal, CostOf(lines, Served(lines)) + Guests(cover),
                                      sales, paid, Documents * (Len(lines) + 1))
           /\ BillTotal = 0 => sales = 0
    [] split.kind = "checks" -> paid - sales \in 0 .. 4 * Documents
    [] OTHER -> paid - sales \in 0 .. 8

IInv ==
  /\ Types
  /\ SplitInv
  /\ FreshInv
  /\ ChecksInv
  /\ SalesInv
  /\ ReceiptsNearAmounts
  /\ PartsAddUp
  /\ DrawerNearBooks

LoadedOf(l, c, s) == [total |-> IF s.kind = "roman" THEN s.shares[Cardinality(s.paid) + 1]
                                ELSE Owed(l, c),
                      checks |-> [x \in Checks |-> CostOf(l, Assigned(l, x))]]
DocumentsOf(s, f) == IF s.kind = "none" THEN (IF f THEN 1 ELSE 0) ELSE Cardinality(s.paid)

\* So are these.
LEMMA MoreViews ==
  /\ Loaded = LoadedOf(lines, cover, split) /\ Loaded' = LoadedOf(lines', cover', split')
  /\ Documents = DocumentsOf(split, freed) /\ Documents' = DocumentsOf(split', freed')
<1>1. Loaded = LoadedOf(lines, cover, split)
  BY DEF Loaded, LoadedOf, BillTotal, Owed, OnBill, Served, Quantity, Left, CoverTotal, Guests,
         Sum, Total, CostOf, Cost, LinesOf, Assigned
<1>2. Loaded' = LoadedOf(lines', cover', split')
  BY DEF Loaded, LoadedOf, BillTotal, Owed, OnBill, Served, Quantity, Left, CoverTotal, Guests,
         Sum, Total, CostOf, Cost, LinesOf, Assigned
<1>3. Documents = DocumentsOf(split, freed) /\ Documents' = DocumentsOf(split', freed')
  BY DEF Documents, DocumentsOf
<1> QED  BY <1>1, <1>2, <1>3

\* The cover of a bill.
LEMMA CoverIs == ASSUME NEW c \in Covers PROVE c \in Covering
  BY TillAssumption DEF Covering

\* The fields of an analytic split.
LEMMA CheckSplitIs ==
  ASSUME NEW P \in SUBSET Checks
  PROVE  /\ CheckSplit(P).kind = "checks" /\ CheckSplit(P).paid = P
         /\ CheckSplit(P).total = 0 /\ CheckSplit(P).shares = <<>>
         /\ IsFiniteSet(P) /\ Cardinality(P) \in Nat
<1>1. IsFiniteSet(Checks)
  <2>1. Checks = {1} \cup {2}
    BY DEF Checks
  <2> QED  BY <2>1, FS_Singleton, FS_Union
<1> QED  BY <1>1, FS_Subset, FS_CardinalityType DEF CheckSplit

\* The fields of a roman split, whose shares are integers.
LEMMA RomanSplitIs ==
  ASSUME NEW t \in Int, NEW n \in ShareCounts, NEW k \in 0 .. n
  PROVE  /\ n \in Nat \ {0} /\ k \in Nat
         /\ RomanSplit(t, n, k).kind = "roman" /\ RomanSplit(t, n, k).paid = 1 .. k
         /\ RomanSplit(t, n, k).total = t
         /\ RomanSplit(t, n, k).shares = SplitRoundedTotal(t, n)
         /\ Cardinality(1 .. k) = k
         /\ Len(SplitRoundedTotal(t, n)) = n /\ DOMAIN SplitRoundedTotal(t, n) = 1 .. n
         /\ SplitRoundedTotal(t, n) \in [1 .. n -> Int]
         /\ EvenShare(t, n) \in Int
<1>1. n \in Nat \ {0} /\ k \in Nat
  BY TillAssumption
<1>2. Cardinality(1 .. k) = k
  <2>1. Cardinality(1 .. k) = IF 1 > k THEN 0 ELSE k - 1 + 1
    BY <1>1, FS_Interval
  <2> QED  BY <1>1, <2>1
<1>3. EvenShare(t, n) \in Int /\ RoundToFiveCents(t) \in Int
  BY <1>1, FiveCents, Quotient DEF EvenShare
<1>4. \A i \in 1 .. n : SplitRoundedTotal(t, n)[i] \in Int
  <2>1. (n - 1) * EvenShare(t, n) \in Int
    BY <1>1, <1>3
  <2> QED  BY <1>3, <2>1 DEF SplitRoundedTotal
<1>5. DOMAIN SplitRoundedTotal(t, n) = 1 .. n
  BY DEF SplitRoundedTotal
<1>6. SplitRoundedTotal(t, n) \in [1 .. n -> Int]
  BY <1>4 DEF SplitRoundedTotal
<1>7. Len(SplitRoundedTotal(t, n)) = n
  BY <1>1, <1>6, LenProperties
<1> QED  BY <1>1, <1>2, <1>3, <1>5, <1>6, <1>7 DEF RomanSplit

\* What there is of documents, whatever the split.
LEMMA DocumentsIs ==
  ASSUME SplitInv, freed \in BOOLEAN
  PROVE  Documents \in Nat /\ (split.paid = {} /\ ~freed => Documents = 0)
<1>1. CASE split = NoSplit
  BY <1>1 DEF Documents, NoSplit
<1>2. ASSUME NEW P \in SUBSET Checks, split = CheckSplit(P)
      PROVE  Documents \in Nat /\ (split.paid = {} => Documents = 0)
  BY <1>2, CheckSplitIs, FS_EmptySet DEF Documents
<1>3. ASSUME NEW n \in ShareCounts, NEW k \in 0 .. n, split.total \in Nat,
             split = RomanSplit(split.total, n, k)
      PROVE  Documents \in Nat /\ (split.paid = {} => Documents = 0)
  <2> DEFINE t == split.total
  <2>0. t \in Int /\ split = RomanSplit(t, n, k)
    BY <1>3
  <2> HIDE DEF t
  <2>1. /\ n \in Nat \ {0} /\ k \in Nat
        /\ RomanSplit(t, n, k).kind = "roman" /\ RomanSplit(t, n, k).paid = 1 .. k
        /\ RomanSplit(t, n, k).total = t
        /\ RomanSplit(t, n, k).shares = SplitRoundedTotal(t, n)
        /\ Cardinality(1 .. k) = k
        /\ Len(SplitRoundedTotal(t, n)) = n /\ DOMAIN SplitRoundedTotal(t, n) = 1 .. n
        /\ SplitRoundedTotal(t, n) \in [1 .. n -> Int]
        /\ EvenShare(t, n) \in Int
    BY <2>0, RomanSplitIs
  <2>2. Documents = k
    BY <2>0, <2>1 DEF Documents
  <2>3. k # 0 => 1 \in 1 .. k
    BY <2>1
  <2> QED  BY <2>0, <2>1, <2>2, <2>3
<1> QED  BY <1>1, <1>2, <1>3 DEF SplitInv

-----------------------------------------------------------------------------
(* Amounts that are near *)

\* Nearness with more units.
LEMMA NearGrows ==
  ASSUME NEW a \in Int, NEW b \in Int, NEW d \in Nat, NEW u \in Nat, NEW v \in Nat,
         u <= v, Near(a, b, d * u)
  PROVE  Near(a, b, d * v)
<1>1. d * u <= d * v /\ d * u \in Nat /\ d * v \in Nat
  BY TimesMonotone
<1> QED  BY <1>1 DEF Near

\* Nearness of two sums.
LEMMA NearAdds ==
  ASSUME NEW a \in Int, NEW b \in Int, NEW d \in Nat, NEW u \in Nat,
         NEW x \in Int, NEW y \in Int, Near(a, b, d * u), Near(x, y, u)
  PROVE  Near(a + x, b + y, (d + 1) * u)
<1>1. (d + 1) * u = d * u + u /\ d * u \in Nat
  OBVIOUS
<1> QED  BY <1>1 DEF Near

\* An amount is near itself.
LEMMA NearSame ==
  ASSUME NEW a \in Int, NEW u \in Nat
  PROVE  Near(a, a, u)
  BY DEF Near

-----------------------------------------------------------------------------
(* The steps that are no payment *)

\* What a screen loads of a bill that is not settled.
LEMMA LoadedIs ==
  ASSUME NEW l \in Bill, NEW c \in Covering, NEW s,
         s.kind = "roman" => \E n \in ShareCounts : \E k \in 0 .. n :
                               s.total \in Nat /\ k < n /\ s = RomanSplit(s.total, n, k)
  PROVE  LoadedOf(l, c, s) \in Screen
<1> DEFINE first == IF s.kind = "roman" THEN s.shares[Cardinality(s.paid) + 1] ELSE Owed(l, c)
<1>1. \A x \in Checks : CostOf(l, Assigned(l, x)) \in Nat
  BY CostOfIs DEF Assigned, Served
<1>2. CASE s.kind = "roman"
  <2>0. PICK n \in ShareCounts : \E k \in 0 .. n :
          s.total \in Nat /\ k < n /\ s = RomanSplit(s.total, n, k)
    BY <1>2
  <2>1. PICK k \in 0 .. n : s.total \in Nat /\ k < n /\ s = RomanSplit(s.total, n, k)
    BY <2>0
  <2> DEFINE t == s.total
  <2>2. t \in Int /\ k < n /\ s = RomanSplit(t, n, k)
    BY <2>1
  <2> HIDE DEF t
  <2>3. /\ n \in Nat \ {0} /\ k \in Nat
        /\ RomanSplit(t, n, k).kind = "roman" /\ RomanSplit(t, n, k).paid = 1 .. k
        /\ RomanSplit(t, n, k).total = t
        /\ RomanSplit(t, n, k).shares = SplitRoundedTotal(t, n)
        /\ Cardinality(1 .. k) = k
        /\ Len(SplitRoundedTotal(t, n)) = n /\ DOMAIN SplitRoundedTotal(t, n) = 1 .. n
        /\ SplitRoundedTotal(t, n) \in [1 .. n -> Int]
        /\ EvenShare(t, n) \in Int
    BY <2>2, RomanSplitIs
  <2>4. first = SplitRoundedTotal(t, n)[k + 1] /\ k + 1 \in 1 .. n
    BY <1>2, <2>2, <2>3
  <2>5. first \in Int
    BY <2>3, <2>4
  <2> HIDE DEF first
  <2>6. LoadedOf(l, c, s) = [total |-> first, checks |-> [x \in Checks |-> CostOf(l, Assigned(l, x))]]
    BY DEF LoadedOf, first
  <2> QED  BY <1>1, <2>5, <2>6 DEF Screen
<1>3. CASE s.kind # "roman"
  <2>1. Owed(l, c) \in Int
    BY OwedIs
  <2>2. LoadedOf(l, c, s) = [total |-> Owed(l, c), checks |-> [x \in Checks |-> CostOf(l, Assigned(l, x))]]
    BY <1>3 DEF LoadedOf
  <2> QED  BY <1>1, <2>1, <2>2 DEF Screen
<1> QED  BY <1>2, <1>3

\* A bill edited: its split stays, or its lines are assigned to checks.
LEMMA Edited ==
  ASSUME IInv, ~freed, lines' \in Bill, Len(lines') <= MaxLines, Units <= Units',
         cover' = cover, freed' = freed, UNCHANGED bookVars, screen' \in Screen,
         moved' \in BOOLEAN, ~moved' => ~moved /\ (lines' = lines \/ split.paid = {}),
         split' = split \/ (split.kind # "roman" /\ split' = CheckSplit(split.paid))
  PROVE  IInv'
<1> USE DEF IInv
<1>0. /\ paid' = paid /\ shown' = shown /\ sales' = sales /\ parts' = parts
      /\ drawer' = drawer /\ short' = short
  BY DEF bookVars
<1>1. Types'
  BY <1>0 DEF Types
<1>2. Documents \in Nat /\ (split.paid = {} => Documents = 0)
  BY DocumentsIs DEF Types
<1>3. /\ split.kind = "roman" => split' = split
      /\ split.kind # "roman" => split.paid \subseteq Checks /\ split'.kind # "roman"
      /\ split'.paid = split.paid /\ split.kind \in {"none", "roman", "checks"}
      /\ Documents' = Documents
      /\ split.kind = "none" => split.paid = {}
  <2>1. CASE split = NoSplit
    <3>1. split.kind = "none" /\ split.paid = {}
      BY <2>1 DEF NoSplit
    <3>2. CheckSplit(split.paid).kind = "checks" /\ CheckSplit(split.paid).paid = {}
      BY <3>1, CheckSplitIs
    <3>3. Documents = 0 /\ Documents' = 0
      <4>1. CASE split' = split
        BY <3>1, <4>1 DEF Documents
      <4>2. CASE split' = CheckSplit(split.paid)
        BY <3>1, <3>2, <4>2, FS_EmptySet DEF Documents
      <4> QED  BY <4>1, <4>2
    <3> QED  BY <3>1, <3>2, <3>3
  <2>2. ASSUME NEW P \in SUBSET Checks, split = CheckSplit(P)
        PROVE  split' = split /\ split.kind = "checks" /\ split.paid \subseteq Checks
    BY <2>2, CheckSplitIs
  <2>3. ASSUME NEW n \in ShareCounts, NEW k \in 0 .. n, split = RomanSplit(split.total, n, k)
        PROVE  split' = split /\ split.kind = "roman"
    BY <2>3 DEF RomanSplit
  <2>4. split' = split => Documents' = Documents
    BY DEF Documents
  <2> QED  BY <2>1, <2>2, <2>3, <2>4 DEF SplitInv
<1>4. SplitInv'
  <2>1. CASE split = NoSplit
    <3>1. CASE split' = split
      BY <2>1, <3>1 DEF SplitInv
    <3>2. CASE split' = CheckSplit(split.paid)
      <4>1. split.paid = {} /\ {} # Checks
        BY <2>1 DEF NoSplit, Checks
      <4> QED  BY <3>2, <4>1 DEF SplitInv
    <3> QED  BY <3>1, <3>2
  <2>2. ASSUME NEW P \in SUBSET Checks, split = CheckSplit(P), freed <=> P = Checks
        PROVE  SplitInv'
    <3>1. split' = CheckSplit(P)
      BY <2>2, CheckSplitIs
    <3> QED  BY <2>2, <3>1 DEF SplitInv
  <2>3. ASSUME NEW n \in ShareCounts, NEW k \in 0 .. n,
               split.total \in Nat, split.total % 5 = 0,
               split = RomanSplit(split.total, n, k), freed <=> k = n,
               paid = IF k < n THEN k * EvenShare(split.total, n) ELSE split.total
        PROVE  SplitInv'
    <3>1. split' = split
      BY <2>3, <1>3 DEF RomanSplit
    <3> QED  BY <1>0, <2>3, <3>1 DEF SplitInv
  <2> QED  BY <2>1, <2>2, <2>3 DEF SplitInv
<1>5. FreshInv'
  BY <1>0, <1>3 DEF FreshInv, NothingBooked
<1>6. split.paid = {} => NothingBooked
  BY DEF FreshInv
<1>7. ChecksInv'
  <2> SUFFICES ASSUME split'.kind = "checks", ~moved'
               PROVE  (paid = CheckDue(lines, 1, split.paid) + CheckDue(lines, 2, split.paid))'
    BY DEF ChecksInv
  <2>1. CASE split.paid = {}
    <3>1. paid' = 0 /\ split'.paid = {}
      BY <1>0, <1>3, <1>6, <2>1 DEF NothingBooked
    <3> QED  BY <3>1 DEF CheckDue
  <2>2. CASE split.paid # {}
    <3>1. lines' = lines /\ ~moved /\ split' = split
      <4>1. lines' = lines /\ ~moved /\ split.kind = "checks"
        BY <1>3, <2>2
      <4>2. PICK P \in SUBSET Checks : split = CheckSplit(P)
        BY <4>1 DEF SplitInv, NoSplit, RomanSplit
      <4>3. CheckSplit(split.paid) = split
        BY <4>2, CheckSplitIs
      <4> QED  BY <4>1, <4>3
    <3> QED  BY <1>0, <3>1 DEF ChecksInv
  <2> QED  BY <2>1, <2>2
<1>8. SalesInv'
  <2>1. CASE split'.kind = "roman"
    <3>1. split' = split /\ split.kind = "roman"
      BY <1>3, <2>1
    <3> SUFFICES ASSUME ~moved', BillTotal' = split'.total
                 PROVE  /\ BillTotal' > 0 =>
                             Spread(BillTotal', CostOf(lines', Served(lines')) + Guests(cover'),
                                    sales', paid', Documents' * (Len(lines') + 1))
                        /\ BillTotal' = 0 => sales' = 0
      BY <2>1 DEF SalesInv
    <3>2. CASE split.paid = {}
      <4>1. sales' = 0 /\ paid' = 0 /\ Documents' = 0
        BY <1>0, <1>2, <1>3, <1>6, <3>2 DEF NothingBooked
      <4>2. /\ BillTotal' \in Nat /\ CostOf(lines', Served(lines')) + Guests(cover') \in Nat
            /\ Len(lines') + 1 \in Nat
        <5>1. cover' \in Covering
          BY CoverIs DEF Types
        <5>2. Owed(lines', cover') \in Nat /\ Guests(cover') \in Nat
          BY <5>1, OwedIs
        <5>3. CostOf(lines', Served(lines')) \in Nat
          BY CostOfIs DEF Served
        <5>4. Len(lines') \in Nat
          BY DEF Bill
        <5> QED  BY <5>2, <5>3, <5>4, Views
      <4> QED  BY <4>1, <4>2 DEF Spread
    <3>3. CASE split.paid # {}
      <4>1. lines' = lines /\ ~moved
        BY <3>3
      <4>2. BillTotal' = BillTotal
        BY <4>1, Views
      <4> QED  BY <1>0, <1>3, <2>1, <3>1, <4>1, <4>2 DEF SalesInv
    <3> QED  BY <3>2, <3>3
  <2>2. CASE split'.kind = "checks"
    <3>1. CASE split.kind = "checks"
      BY <1>0, <1>3, <2>2, <3>1 DEF SalesInv
    <3>2. CASE split.kind = "none"
      <4>1. paid' = 0 /\ sales' = 0 /\ Documents' = 0
        BY <1>0, <1>2, <1>3, <1>6, <3>2 DEF NothingBooked
      <4> QED  BY <2>2, <4>1 DEF SalesInv
    <3> QED  BY <1>3, <2>2, <3>1, <3>2
  <2>3. CASE split'.kind = "none"
    <3>1. split.kind = "none"
      BY <1>3, <2>3, CheckSplitIs
    <3> QED  BY <1>0, <2>3, <3>1 DEF SalesInv
  <2>4. split'.kind \in {"none", "roman", "checks"}
    BY <1>3, CheckSplitIs
  <2> QED  BY <2>1, <2>2, <2>3, <2>4
<1>9. Units \in Nat /\ Units' \in Nat
  <2>1. cover \in Covering /\ cover' \in Covering
    BY CoverIs DEF Types
  <2> QED  BY <2>1, UnitsIs, Views DEF Types
<1>10. /\ shown \in Int /\ paid \in Int /\ drawer + short \in Int /\ parts["CASH"] \in Int
  BY DEF Types, Methods
<1>11. ReceiptsNearAmounts' /\ DrawerNearBooks'
  <2>1. Near(shown, paid, Documents * Units')
    BY <1>2, <1>9, <1>10, NearGrows DEF ReceiptsNearAmounts
  <2>2. Near(drawer + short, parts["CASH"], Documents * Units')
    BY <1>2, <1>9, <1>10, NearGrows DEF DrawerNearBooks
  <2> QED  BY <1>0, <1>3, <2>1, <2>2 DEF ReceiptsNearAmounts, DrawerNearBooks
<1>12. PartsAddUp'
  <2>1. CASE split'.kind = "none"
    <3>1. split.kind = "none"
      BY <1>3, <2>1, CheckSplitIs
    <3>2. NothingBooked
      BY <1>3, <1>6, <3>1
    <3> QED  BY <1>0, <1>9, <2>1, <3>2 DEF PartsAddUp, NothingBooked, Near, Methods
  <2>2. CASE split'.kind # "none" /\ split.kind # "none"
    BY <1>0, <2>2 DEF PartsAddUp
  <2>3. CASE split'.kind # "none" /\ split.kind = "none"
    <3>2. NothingBooked
      BY <1>3, <1>6, <2>3
    <3> QED  BY <1>0, <2>3, <3>2 DEF PartsAddUp, NothingBooked, Methods
  <2> QED  BY <2>1, <2>2, <2>3
<1> QED  BY <1>1, <1>4, <1>5, <1>7, <1>8, <1>11, <1>12

\* A split that starts or is cancelled: nothing is booked yet.
LEMMA Restarted ==
  ASSUME IInv, ~freed, split.paid = {}, lines' \in Bill, Len(lines') <= MaxLines,
         cover' = cover, freed' = freed, moved' = moved, UNCHANGED bookVars, screen' \in Screen,
         \/ split' = NoSplit
         \/ \E n \in ShareCounts : \E t \in Nat : t % 5 = 0 /\ split' = RomanSplit(t, n, 0)
  PROVE  IInv'
<1> USE DEF IInv
<1>0. /\ paid' = paid /\ shown' = shown /\ sales' = sales /\ parts' = parts
      /\ drawer' = drawer /\ short' = short
  BY DEF bookVars
<1>1. NothingBooked
  BY DEF FreshInv
<1>2. Types'
  BY <1>0 DEF Types
<1>3. /\ split'.paid = {} /\ split'.kind \in {"none", "roman"} /\ Documents' = 0
      /\ SplitInv'
  <2>1. CASE split' = NoSplit
    <3>1. split'.paid = {} /\ split'.kind = "none" /\ Documents' = 0
      BY <2>1 DEF NoSplit, Documents
    <3> QED  BY <2>1, <3>1 DEF SplitInv
  <2>2. ASSUME NEW n \in ShareCounts, NEW t \in Nat, t % 5 = 0, split' = RomanSplit(t, n, 0)
        PROVE  /\ split'.paid = {} /\ split'.kind \in {"none", "roman"} /\ Documents' = 0
               /\ SplitInv'
    <3>0. n \in Nat \ {0}
      BY TillAssumption
    <3>1. /\ RomanSplit(t, n, 0).paid = 1 .. 0 /\ RomanSplit(t, n, 0).kind = "roman"
          /\ RomanSplit(t, n, 0).total = t
          /\ Cardinality(1 .. 0) = 0 /\ EvenShare(t, n) \in Int /\ 1 .. 0 = {}
      <4>1. 0 \in 0 .. n /\ t \in Int /\ 1 .. 0 = {}
        BY <3>0
      <4>2. Cardinality({}) = 0
        BY <4>1, FS_EmptySet
      <4>3. EvenShare(t, n) \in Int
        BY <4>1, RomanSplitIs
      <4> QED  BY <4>1, <4>2, <4>3 DEF RomanSplit
    <3>2. split'.paid = {} /\ split'.kind \in {"none", "roman"} /\ Documents' = 0
      BY <2>2, <3>1 DEF Documents
    <3>3. 0 \in 0 .. n /\ 0 < n /\ 0 * EvenShare(t, n) = 0
      BY <3>0, <3>1
    <3>4. split'.total = t /\ paid' = 0
      BY <1>0, <1>1, <2>2, <3>1 DEF NothingBooked
    <3>5. SplitInv'
      BY <2>2, <3>3, <3>4 DEF SplitInv
    <3> QED  BY <3>2, <3>5
  <2> QED  BY <2>1, <2>2
<1>4. NothingBooked'
  BY <1>0, <1>1 DEF NothingBooked
<1>5. FreshInv' /\ ChecksInv'
  BY <1>3, <1>4 DEF FreshInv, ChecksInv
<1>6. /\ BillTotal' \in Nat /\ CostOf(lines', Served(lines')) + Guests(cover') \in Nat
      /\ Len(lines') + 1 \in Nat /\ Units' \in Nat
  <2>1. cover' \in Covering
    BY CoverIs DEF Types
  <2>2. Owed(lines', cover') \in Nat /\ Guests(cover') \in Nat /\ UnitsOf(lines', cover') \in Nat
    BY <2>1, OwedIs, UnitsIs
  <2>3. CostOf(lines', Served(lines')) \in Nat
    BY CostOfIs DEF Served
  <2>4. Len(lines') \in Nat
    BY DEF Bill
  <2> QED  BY <2>2, <2>3, <2>4, Views
<1>7. /\ paid' = 0 /\ shown' = 0 /\ sales' = 0 /\ drawer' = 0 /\ short' = 0
      /\ parts'["CASH"] = 0 /\ parts'["POS"] = 0 /\ parts'["MEAL_VOUCHER"] = 0
  BY <1>4 DEF NothingBooked, Methods
<1>8. SalesInv'
  <2>1. CASE split'.kind = "roman"
    <3>1. Spread(BillTotal', CostOf(lines', Served(lines')) + Guests(cover'), 0, 0,
                 0 * (Len(lines') + 1))
      BY <1>6 DEF Spread
    <3> QED  BY <1>3, <1>7, <2>1, <3>1 DEF SalesInv
  <2>2. CASE split'.kind = "none"
    BY <1>7, <2>2 DEF SalesInv
  <2> QED  BY <1>3, <2>1, <2>2
<1>9. ReceiptsNearAmounts' /\ DrawerNearBooks' /\ PartsAddUp'
  <2>0. Documents' = 0 /\ Units' \in Nat /\ \A u \in Nat : 0 * u = 0
    BY <1>3, <1>6
  <2>1. Documents' * Units' = 0
    BY <2>0, Zenon
  <2>2. Near(0, 0, 0) /\ Near(0 + 0 + 0, 0, 2 + Units')
    <3>1. \A u \in Nat : Near(0, 0, 0) /\ Near(0 + 0 + 0, 0, 2 + u)
      BY NearSame
    <3> QED  BY <2>0, <3>1, Zenon
  <2>3. Near(shown', paid', Documents' * Units') /\ Near(drawer' + short', parts'["CASH"], Documents' * Units')
    BY <1>7, <2>1, <2>2
  <2>4. PartsAddUp'
    BY <1>7, <2>2 DEF PartsAddUp
  <2> QED  BY <2>3, <2>4 DEF ReceiptsNearAmounts, DrawerNearBooks
<1> QED  BY <1>2, <1>3, <1>5, <1>8, <1>9

-----------------------------------------------------------------------------
(* The steps that are payments *)

\* What a payment all in cash or by card books.
LEMMA SingleIs ==
  ASSUME Types, NEW S, NEW withCover \in BOOLEAN, NEW target \in Int, NEW read \in Int,
         NEW whole \in BOOLEAN, PaySingle(S, withCover, target, read, whole),
         NEW total, total = ReceiptTotal(S, withCover, target, whole), total \in Int
  PROVE  /\ paid' = paid + target /\ shown' = shown + total
         /\ sales' = sales + SaleLines(S, withCover, target)
         /\ parts' \in [Methods -> Int]
         /\ parts'["CASH"] + parts'["POS"] + parts'["MEAL_VOUCHER"]
              = parts["CASH"] + parts["POS"] + parts["MEAL_VOUCHER"] + total
         /\ drawer' \in Int /\ short' \in Int
         /\ \/ drawer' = drawer /\ short' = short /\ parts'["CASH"] = parts["CASH"]
            \/ /\ drawer' + short' = drawer + short + target
               /\ parts'["CASH"] = parts["CASH"] + total
         /\ short' <= short \/ (target > read /\ short' - short <= target - read)
<1>1. PICK m \in {"CASH", "POS"} :
        Book(S, withCover, target, whole, [x \in {m} |-> target], AtLeast(read, 1))
  BY DEF PaySingle
<1> DEFINE in == [x \in {m} |-> target]
           got == AtLeast(read, 1)
<1>2. DOMAIN in = {m} /\ Cardinality({m}) = 1 /\ in[m] = target
  BY FS_Singleton
<1>3. got \in Int /\ got >= read
  BY DEF AtLeast
<1>4. Book(S, withCover, target, whole, in, got)
  BY <1>1
<1> HIDE DEF in, got
<1>5. ~(Cardinality(DOMAIN in) > 1)
  BY <1>2
<1>6. /\ paid' = paid + target /\ shown' = shown + total
      /\ sales' = sales + SaleLines(S, withCover, target)
      /\ parts' = [x \in Methods |-> parts[x] + (IF x \notin {m} THEN 0 ELSE total)]
      /\ IF "CASH" \in {m}
         THEN /\ drawer' = drawer + got - Change(got, in["CASH"], target)
              /\ short' = short + AtLeast(in["CASH"] - got, 0)
         ELSE UNCHANGED <<drawer, short>>
  BY <1>2, <1>4, <1>5 DEF Book
<1>7. /\ parts["CASH"] \in Int /\ parts["POS"] \in Int /\ parts["MEAL_VOUCHER"] \in Int
      /\ drawer \in Int /\ short \in Int /\ parts \in [Methods -> Int]
  BY DEF Types, Methods
<1>8. parts' \in [Methods -> Int]
  BY <1>6, <1>7
<1>9. /\ parts'["CASH"] = parts["CASH"] + (IF m = "CASH" THEN total ELSE 0)
      /\ parts'["POS"] = parts["POS"] + (IF m = "POS" THEN total ELSE 0)
      /\ parts'["MEAL_VOUCHER"] = parts["MEAL_VOUCHER"]
  BY <1>6, <1>7 DEF Methods
<1>10. CASE m = "CASH"
  <2>1. /\ drawer' = drawer + got - AtLeast(got - target, 0)
        /\ short' = short + AtLeast(target - got, 0)
    BY <1>2, <1>6, <1>10 DEF Change
  <2>2. /\ drawer' \in Int /\ short' \in Int /\ drawer' + short' = drawer + short + target
        /\ short' <= short \/ (target > got /\ short' - short = target - got)
    BY <1>3, <1>7, <2>1 DEF AtLeast
  <2> QED  BY <1>3, <1>6, <1>7, <1>8, <1>9, <1>10, <2>2
<1>11. CASE m = "POS"
  <2>1. drawer' = drawer /\ short' = short
    BY <1>6, <1>11
  <2> QED  BY <1>6, <1>7, <1>8, <1>9, <1>11, <2>1
<1> QED  BY <1>10, <1>11

\* What a mixed payment books: the parts are those of the screen.
LEMMA MixedIs ==
  ASSUME Types, NEW target \in Int, PayMixed(target),
         NEW total, total = ReceiptTotal(OnBill, TRUE, target, FALSE), total \in Int
  PROVE  /\ paid' = paid + target /\ shown' = shown + total
         /\ sales' = sales + SaleLines(OnBill, TRUE, target)
         /\ parts' \in [Methods -> Int]
         /\ parts'["CASH"] + parts'["POS"] + parts'["MEAL_VOUCHER"]
              = parts["CASH"] + parts["POS"] + parts["MEAL_VOUCHER"] + screen.total
         /\ screen.total \in Int /\ screen.total - target \in -1 .. 1
         /\ drawer' \in Int /\ short' = short
         /\ \E c \in Int : drawer' = drawer + c /\ parts'["CASH"] = parts["CASH"] + c
<1> DEFINE voucher == screen.total \div 2
           cash == screen.total - voucher
           in == [x \in {"CASH", "MEAL_VOUCHER"} |-> IF x = "CASH" THEN cash ELSE voucher]
           got == cash + 100
<1>1. screen.total \in Int /\ voucher \in Int
  BY DEF Types, Screen
<1>2. /\ screen.total - target \in -1 .. 1
      /\ Book(OnBill, TRUE, target, FALSE, in, got)
  BY DEF PayMixed, PartsMatch
<1>3. /\ DOMAIN in = {"CASH", "MEAL_VOUCHER"} /\ in["CASH"] = cash /\ in["MEAL_VOUCHER"] = voucher
      /\ cash \in Int /\ got \in Int /\ cash + voucher = screen.total /\ got = cash + 100
  <2> HIDE DEF voucher
  <2>1. cash \in Int /\ got \in Int /\ cash + voucher = screen.total /\ got = cash + 100
    BY <1>1
  <2>2. DOMAIN in = {"CASH", "MEAL_VOUCHER"} /\ in["CASH"] = cash /\ in["MEAL_VOUCHER"] = voucher
    BY DEF in
  <2> QED  BY <2>1, <2>2
<1>4. Cardinality(DOMAIN in) = 2
  <2>1. {"CASH", "MEAL_VOUCHER"} = {"CASH"} \cup {"MEAL_VOUCHER"} /\ "MEAL_VOUCHER" \notin {"CASH"}
    OBVIOUS
  <2>2. IsFiniteSet({"CASH"}) /\ Cardinality({"CASH"}) = 1
    BY FS_Singleton
  <2>3. Cardinality({"CASH"} \cup {"MEAL_VOUCHER"}) = Cardinality({"CASH"}) + 1
    BY <2>1, <2>2, FS_AddElement
  <2> QED  BY <1>3, <2>1, <2>2, <2>3
<1> HIDE DEF in, got, cash, voucher
<1>5. /\ paid' = paid + target /\ shown' = shown + total
      /\ sales' = sales + SaleLines(OnBill, TRUE, target)
      /\ parts' = [m \in Methods |->
                     parts[m] + (IF m \notin {"CASH", "MEAL_VOUCHER"} THEN 0 ELSE in[m])]
      /\ drawer' = drawer + got - Change(got, in["CASH"], target)
      /\ short' = short + AtLeast(in["CASH"] - got, 0)
  BY <1>2, <1>3, <1>4 DEF Book
<1>6. /\ parts["CASH"] \in Int /\ parts["POS"] \in Int /\ parts["MEAL_VOUCHER"] \in Int
      /\ drawer \in Int /\ short \in Int /\ parts \in [Methods -> Int]
  BY DEF Types, Methods
<1>7. /\ parts'["CASH"] = parts["CASH"] + cash /\ parts'["POS"] = parts["POS"]
      /\ parts'["MEAL_VOUCHER"] = parts["MEAL_VOUCHER"] + voucher
      /\ parts' \in [Methods -> Int]
  BY <1>1, <1>3, <1>5, <1>6 DEF Methods
<1>8. Change(got, cash, target) = 100 /\ AtLeast(cash - got, 0) = 0
  BY <1>3 DEF Change, AtLeast
<1>9. drawer' = drawer + cash /\ short' = short
  BY <1>3, <1>5, <1>6, <1>8
<1>10. parts'["CASH"] + parts'["POS"] + parts'["MEAL_VOUCHER"]
         = parts["CASH"] + parts["POS"] + parts["MEAL_VOUCHER"] + screen.total
  BY <1>1, <1>3, <1>6, <1>7
<1>11. drawer' \in Int
  BY <1>3, <1>6, <1>9
<1>12. \E c \in Int : drawer' = drawer + c /\ parts'["CASH"] = parts["CASH"] + c
  BY <1>3, <1>7, <1>9
<1> QED  BY <1>1, <1>2, <1>5, <1>7, <1>9, <1>10, <1>11, <1>12

\* The books are integers.
LEMMA BooksAreInt ==
  ASSUME Types
  PROVE  /\ shown \in Int /\ paid \in Int /\ sales \in Int /\ drawer \in Int /\ short \in Int
         /\ drawer + short \in Int
         /\ parts["CASH"] \in Int /\ parts["POS"] \in Int /\ parts["MEAL_VOUCHER"] \in Int
  BY DEF Types, Methods

\* What a step adds to the receipts and to the drawer, a document more.
LEMMA DocumentAdds ==
  ASSUME IInv, Documents \in Nat, Documents' = Documents + 1, Units \in Nat, Units' = Units,
         NEW target \in Int, NEW total \in Int, Near(total, target, Units),
         paid' = paid + target, shown' = shown + total,
         drawer' \in Int, short' \in Int,
         \E c \in Int, d \in Int :
            /\ drawer' + short' = drawer + short + c /\ parts'["CASH"] = parts["CASH"] + d
            /\ Near(c, d, Units)
  PROVE  ReceiptsNearAmounts' /\ DrawerNearBooks'
<1>0. Types
  BY DEF IInv
<1>1. /\ shown \in Int /\ paid \in Int /\ drawer + short \in Int /\ parts["CASH"] \in Int
  BY <1>0, BooksAreInt
<1>2. Near(shown, paid, Documents * Units) /\ Near(drawer + short, parts["CASH"], Documents * Units)
  BY DEF IInv, ReceiptsNearAmounts, DrawerNearBooks
<1>3. Near(shown + total, paid + target, (Documents + 1) * Units)
  BY <1>1, <1>2, NearAdds
<1>4. PICK c \in Int, d \in Int :
            /\ drawer' + short' = drawer + short + c /\ parts'["CASH"] = parts["CASH"] + d
            /\ Near(c, d, Units)
  OBVIOUS
<1>5. Near(drawer + short + c, parts["CASH"] + d, (Documents + 1) * Units)
  <2> DEFINE a == drawer + short
  <2>1. a \in Int
    BY <1>1
  <2> HIDE DEF a
  <2>2. Near(a, parts["CASH"], Documents * Units)
    BY <1>2 DEF a
  <2>3. Near(a + c, parts["CASH"] + d, (Documents + 1) * Units)
    BY <1>1, <1>4, <2>1, <2>2, NearAdds
  <2> QED  BY <2>3 DEF a
<1> QED  BY <1>3, <1>4, <1>5, Zenon DEF ReceiptsNearAmounts, DrawerNearBooks

\* The cash a payment all in one way leaves in the drawer.
LEMMA SingleNear ==
  ASSUME Types, NEW target \in Int, NEW total \in Int, NEW u \in Nat, Near(total, target, u),
         \/ drawer' = drawer /\ short' = short /\ parts'["CASH"] = parts["CASH"]
         \/ /\ drawer' + short' = drawer + short + target
            /\ parts'["CASH"] = parts["CASH"] + total
  PROVE  \E c \in Int, d \in Int :
            /\ drawer' + short' = drawer + short + c /\ parts'["CASH"] = parts["CASH"] + d
            /\ Near(c, d, u)
<1>0. drawer \in Int /\ short \in Int /\ parts["CASH"] \in Int
  BY DEF Types, Methods
<1>1. CASE drawer' = drawer /\ short' = short /\ parts'["CASH"] = parts["CASH"]
  <2>1. Near(0, 0, u) /\ 0 \in Int
    BY NearSame
  <2>2. drawer' + short' = drawer + short + 0 /\ parts'["CASH"] = parts["CASH"] + 0
    BY <1>0, <1>1
  <2> QED  BY <2>1, <2>2
<1>2. CASE /\ drawer' + short' = drawer + short + target
           /\ parts'["CASH"] = parts["CASH"] + total
  <2>1. Near(target, total, u)
    BY DEF Near
  <2> QED  BY <1>2, <2>1
<1> QED  BY <1>1, <1>2

\* A bill that does not change costs the same.
LEMMA SameBill ==
  ASSUME lines' = lines, cover' = cover, Types
  PROVE  /\ BillTotal' = BillTotal /\ Units' = Units /\ Units \in Nat
         /\ lines' \in Bill /\ Len(lines') <= MaxLines /\ cover' \in Covers /\ cover \in Covering
         /\ Served(lines) \subseteq DOMAIN lines /\ OnBill = Served(lines)
<1>1. lines \in Bill /\ cover \in Covering /\ cover \in Covers /\ Len(lines) <= MaxLines
  BY CoverIs DEF Types
<1>2. BillTotal' = BillTotal /\ Units' = Units /\ Units \in Nat
  BY <1>1, UnitsIs, Views
<1> QED  BY <1>1, <1>2, Views DEF Served

\* The types hold after a payment that leaves the bill alone.
LEMMA TypesAfterPayment ==
  ASSUME Types, lines' = lines, cover' = cover, screen' \in Screen,
         paid' \in Int, shown' \in Int, sales' \in Int, drawer' \in Int, short' \in Int,
         parts' \in [Methods -> Int], freed' \in BOOLEAN, moved' = moved
  PROVE  Types'
  BY DEF Types

\* The whole bill.
LEMMA PayFullStep ==
  ASSUME IInv, PayFull PROVE IInv'
<1>1. /\ ~freed /\ split.kind = "none" /\ freed' = TRUE
      /\ lines' = lines /\ cover' = cover /\ split' = split /\ screen' = screen /\ moved' = moved
  BY DEF PayFull
<1>2. Types /\ FreshInv
  BY DEF IInv
<1>3. split = NoSplit /\ split.paid = {} /\ NothingBooked /\ Documents = 0 /\ Documents' = 1
  <2>1. split = NoSplit
    BY <1>1, CheckSplitIs DEF IInv, SplitInv, RomanSplit
  <2>2. split.paid = {}
    BY <2>1 DEF NoSplit
  <2> QED  BY <1>1, <1>2, <2>1, <2>2 DEF FreshInv, Documents
<1>4. /\ BillTotal' = BillTotal /\ Units' = Units /\ Units \in Nat /\ lines \in Bill
      /\ cover \in Covering /\ OnBill = Served(lines)
  BY <1>1, <1>2, SameBill DEF Types
<1> DEFINE target == BillTotal
           yes == TRUE
           no == FALSE
           source == SourceTotal(OnBill, yes)
<1>b. yes \in BOOLEAN /\ no \in BOOLEAN
  OBVIOUS
<1>5. /\ target \in Nat /\ source \in Nat
      /\ source <= target /\ target <= source + 8 /\ (source = 0 => target = 0)
  <2>1. /\ Guests(cover) \in Nat /\ Owed(lines, cover) \in Nat
        /\ CostOf(lines, Served(lines)) + Guests(cover) <= Owed(lines, cover)
        /\ Owed(lines, cover) <= CostOf(lines, Served(lines)) + Guests(cover) + 8
    BY <1>4, OwedIs
  <2>2. CostOf(lines, Served(lines)) \in Nat
    BY <1>4, CostOfIs DEF Served
  <2>3. target = Owed(lines, cover)
    BY Views
  <2>5. source = CostOf(lines, Served(lines)) + Guests(cover)
    BY <1>4, SourceIs, Zenon
  <2>6. CostOf(lines, Served(lines)) = 0 /\ Guests(cover) = 0 => Owed(lines, cover) = 0
    <3>1. RoundToFiveCents(0) = 0
      BY DEF RoundToFiveCents
    <3> QED  BY <3>1 DEF Owed
  <2> HIDE DEF source, target
  <2> QED  BY <2>1, <2>2, <2>3, <2>5, <2>6
<1>6. \A whole \in BOOLEAN :
        /\ ReceiptTotal(OnBill, yes, target, whole) \in Int
        /\ Near(ReceiptTotal(OnBill, yes, target, whole), target, Units)
  <2> HIDE DEF yes, target
  <2> QED  BY <1>4, <1>5, <1>b, ReceiptIs
<1>7. SaleLines(OnBill, yes, target) = source
  <2> HIDE DEF target
  <2> QED  BY <1>1, Zenon DEF SaleLines
<1>12. \/ \E whole \in BOOLEAN : PaySingle(OnBill, yes, target, screen.total, whole)
       \/ PayMixed(target)
  BY Zenon DEF PayFull, target, yes
<1>13. ReceiptTotal(OnBill, TRUE, target, FALSE) = ReceiptTotal(OnBill, yes, target, no)
  OBVIOUS
<1>14. SaleLines(OnBill, TRUE, target) = source
  BY <1>7
<1> HIDE DEF target, source, yes, no
<1>8. ASSUME NEW total \in Int, Near(total, target, Units),
             paid' = paid + target, shown' = shown + total,
             sales' = sales + source,
             drawer' \in Int, short' \in Int, parts' \in [Methods -> Int],
             NEW sum \in Int,
             parts'["CASH"] + parts'["POS"] + parts'["MEAL_VOUCHER"]
               = parts["CASH"] + parts["POS"] + parts["MEAL_VOUCHER"] + sum,
             Near(sum, total, 2 + Units),
             \E c \in Int, d \in Int :
                /\ drawer' + short' = drawer + short + c /\ parts'["CASH"] = parts["CASH"] + d
                /\ Near(c, d, Units)
      PROVE  IInv'
  <2>1. ReceiptsNearAmounts' /\ DrawerNearBooks'
    BY <1>3, <1>4, <1>5, <1>8, DocumentAdds
  <2>2. /\ paid = 0 /\ shown = 0 /\ sales = 0
        /\ parts["CASH"] = 0 /\ parts["POS"] = 0 /\ parts["MEAL_VOUCHER"] = 0
    BY <1>3 DEF NothingBooked, Methods
  <2>3. /\ paid' = target /\ shown' = total /\ sales' = source
        /\ parts'["CASH"] + parts'["POS"] + parts'["MEAL_VOUCHER"] = sum
    BY <1>5, <1>8, <2>2
  <2>4. Types'
    <3>1. paid' \in Int /\ shown' \in Int /\ sales' \in Int
      BY <1>5, <1>8, <2>3
    <3>2. screen' \in Screen /\ freed' \in BOOLEAN
      BY <1>1, <1>2 DEF Types
    <3> QED  BY <1>1, <1>2, <1>8, <3>1, <3>2, TypesAfterPayment
  <2>5. split'.kind = "none"
    BY <1>1
  <2>6. PartsAddUp'
    BY <1>4, <1>8, <2>3, <2>5 DEF PartsAddUp
  <2>7. SalesInv'
    BY <1>5, <2>3, <2>5 DEF SalesInv
  <2>8. SplitInv' /\ FreshInv' /\ ChecksInv'
    BY <1>1, <1>3, <2>5 DEF SplitInv, FreshInv, ChecksInv
  <2> QED  BY <2>1, <2>4, <2>6, <2>7, <2>8 DEF IInv
<1>9. ASSUME NEW whole \in BOOLEAN, PaySingle(OnBill, yes, target, screen.total, whole)
      PROVE  IInv'
  <2> DEFINE total == ReceiptTotal(OnBill, yes, target, whole)
  <2>1. total \in Int /\ Near(total, target, Units)
    BY <1>6, Zenon
  <2>2. screen.total \in Int /\ target \in Int
    BY <1>2, <1>5 DEF Types, Screen
  <2>3. total = ReceiptTotal(OnBill, yes, target, whole)
    OBVIOUS
  <2> HIDE DEF total
  <2>4. /\ paid' = paid + target /\ shown' = shown + total
        /\ sales' = sales + SaleLines(OnBill, yes, target)
        /\ parts' \in [Methods -> Int]
        /\ parts'["CASH"] + parts'["POS"] + parts'["MEAL_VOUCHER"]
             = parts["CASH"] + parts["POS"] + parts["MEAL_VOUCHER"] + total
        /\ drawer' \in Int /\ short' \in Int
        /\ \/ drawer' = drawer /\ short' = short /\ parts'["CASH"] = parts["CASH"]
           \/ /\ drawer' + short' = drawer + short + target
              /\ parts'["CASH"] = parts["CASH"] + total
    BY <1>2, <1>9, <1>b, <2>1, <2>2, <2>3, SingleIs
  <2>5. \E c \in Int, d \in Int :
           /\ drawer' + short' = drawer + short + c /\ parts'["CASH"] = parts["CASH"] + d
           /\ Near(c, d, Units)
    BY <1>2, <1>4, <2>1, <2>2, <2>4, SingleNear
  <2>6. Near(total, total, 2 + Units)
    <3>1. 2 + Units \in Nat
      BY <1>4
    <3> QED  BY <2>1, <3>1, NearSame
  <2>7. sales' = sales + source
    BY <1>7, <2>4
  <2> QED  BY <1>8, <2>1, <2>2, <2>4, <2>5, <2>6, <2>7
<1>10. ASSUME PayMixed(target)
       PROVE  IInv'
  <2> DEFINE total == ReceiptTotal(OnBill, yes, target, no)
  <2>1. total \in Int /\ Near(total, target, Units)
    BY <1>6, <1>b, Zenon
  <2>2. target \in Int
    BY <1>5
  <2>3. total = ReceiptTotal(OnBill, TRUE, target, FALSE)
    BY <1>13
  <2> HIDE DEF total
  <2>4. /\ paid' = paid + target /\ shown' = shown + total
        /\ sales' = sales + SaleLines(OnBill, TRUE, target)
        /\ parts' \in [Methods -> Int]
        /\ parts'["CASH"] + parts'["POS"] + parts'["MEAL_VOUCHER"]
             = parts["CASH"] + parts["POS"] + parts["MEAL_VOUCHER"] + screen.total
        /\ screen.total \in Int /\ screen.total - target \in -1 .. 1
        /\ drawer' \in Int /\ short' = short
        /\ \E c \in Int : drawer' = drawer + c /\ parts'["CASH"] = parts["CASH"] + c
    BY <1>2, <1>10, <2>1, <2>2, <2>3, MixedIs
  <2>5. /\ short' \in Int
        /\ \E c \in Int, d \in Int :
              /\ drawer' + short' = drawer + short + c /\ parts'["CASH"] = parts["CASH"] + d
              /\ Near(c, d, Units)
    <3>1. PICK c \in Int : drawer' = drawer + c /\ parts'["CASH"] = parts["CASH"] + c
      BY <2>4
    <3>2. drawer' + short' = drawer + short + c /\ short' \in Int
      BY <1>2, <2>4, <3>1, BooksAreInt
    <3>3. Near(c, c, Units)
      BY <1>4, NearSame
    <3> QED  BY <3>1, <3>2, <3>3
  <2>6. Near(screen.total, total, 2 + Units)
    BY <1>4, <2>1, <2>2, <2>4 DEF Near
  <2>7. sales' = sales + source
    BY <1>14, <2>4
  <2> QED  BY <1>8, <2>1, <2>2, <2>4, <2>5, <2>6, <2>7
<1> QED  BY <1>9, <1>10, <1>12

\* A share of a roman split.
LEMMA PayShareStep ==
  ASSUME IInv, PayShare PROVE IInv'
<1>1. /\ ~freed /\ split.kind = "roman"
      /\ lines' = lines /\ cover' = cover /\ moved' = moved /\ Refreshed
  BY DEF PayShare
<1>2. Types
  BY DEF IInv
<1>3. PICK n \in ShareCounts : \E k \in 0 .. n :
        /\ split.total \in Nat /\ split.total % 5 = 0
        /\ split = RomanSplit(split.total, n, k) /\ (freed <=> k = n)
        /\ paid = IF k < n THEN k * EvenShare(split.total, n) ELSE split.total
  BY <1>1, CheckSplitIs DEF IInv, SplitInv, NoSplit
<1>4. PICK k \in 0 .. n :
        /\ split.total \in Nat /\ split.total % 5 = 0
        /\ split = RomanSplit(split.total, n, k) /\ (freed <=> k = n)
        /\ paid = IF k < n THEN k * EvenShare(split.total, n) ELSE split.total
  BY <1>3
<1> DEFINE t == split.total
           even == EvenShare(t, n)
           shares == SplitRoundedTotal(t, n)
           target == shares[k + 1]
           yes == TRUE
           no == FALSE
<1>5. t \in Nat /\ t % 5 = 0 /\ split = RomanSplit(t, n, k) /\ n \in Nat \ {0} /\ k \in Nat /\ k < n
      /\ paid = k * even
  BY <1>1, <1>4, TillAssumption
<1> HIDE DEF t
<1>6. /\ split.kind = "roman" /\ split.paid = 1 .. k /\ split.shares = shares /\ split.total = t
      /\ Cardinality(1 .. k) = k
      /\ Len(shares) = n /\ shares \in [1 .. n -> Int] /\ even \in Int
  <2>1. /\ RomanSplit(t, n, k).kind = "roman" /\ RomanSplit(t, n, k).paid = 1 .. k
        /\ RomanSplit(t, n, k).total = t
        /\ RomanSplit(t, n, k).shares = SplitRoundedTotal(t, n)
        /\ Cardinality(1 .. k) = k
        /\ Len(SplitRoundedTotal(t, n)) = n
        /\ SplitRoundedTotal(t, n) \in [1 .. n -> Int]
        /\ EvenShare(t, n) \in Int
    <3>1. t \in Int
      BY <1>5
    <3> HIDE DEF shares, even, target
    <3> QED  BY <3>1, RomanSplitIs
  <2> QED  BY <1>5, <2>1
<1>7. target \in Int
  BY <1>5, <1>6
<1>8. /\ k + 1 < n => target = even
      /\ k + 1 = n => paid + target = t
  <2>1. t \in Int /\ RoundToFiveCents(t) = t
    BY <1>5 DEF RoundToFiveCents
  <2>2. /\ \A i \in 1 .. n - 1 : shares[i] = even
        /\ (n - 1) * even + shares[n] = RoundToFiveCents(t)
    BY <1>5, <2>1, SharesAddUp
  <2> HIDE DEF shares, even
  <2>3. k + 1 < n => k + 1 \in 1 .. n - 1
    BY <1>5
  <2>4. k + 1 = n => k = n - 1
    BY <1>5
  <2> QED  BY <1>5, <2>1, <2>2, <2>3, <2>4
<1> HIDE DEF shares, even, target
<1>9. /\ PaySingle(OnBill, yes, target, screen.total, no)
      /\ split' = [split EXCEPT !.paid = @ \cup {k + 1}] /\ freed' = (k + 1 >= n)
  <2>1. Cardinality(split.paid) + 1 = k + 1 /\ ShareDue(k + 1) = target /\ Len(split.shares) = n
    BY <1>6 DEF ShareDue, target
  <2> HIDE DEF yes, no
  <2>2. /\ PaySingle(OnBill, TRUE, ShareDue(Cardinality(split.paid) + 1), screen.total, FALSE)
        /\ split' = [split EXCEPT !.paid = @ \cup {Cardinality(split.paid) + 1}]
        /\ freed' = (Cardinality(split.paid) + 1 >= Len(split.shares))
    BY DEF PayShare
  <2> QED  BY <2>1, <2>2, Zenon DEF yes, no
<1>10. split' = RomanSplit(t, n, k + 1) /\ k + 1 \in 0 .. n /\ (freed' <=> k + 1 = n) /\ freed' \in BOOLEAN
  <2>1. (1 .. k) \cup {k + 1} = 1 .. k + 1
    BY <1>5
  <2>2. split' = RomanSplit(t, n, k + 1)
    BY <1>5, <1>9, <2>1 DEF RomanSplit
  <2>3. /\ k + 1 \in 0 .. n /\ ((k + 1 >= n) <=> k + 1 = n)
        /\ (k + 1 >= n) \in BOOLEAN
    BY <1>5
  <2> QED  BY <1>9, <2>2, <2>3, Zenon
<1>11. /\ split'.kind = "roman" /\ split'.paid = 1 .. k + 1 /\ split'.total = t
       /\ Documents = k /\ Documents' = k + 1 /\ (1 .. k + 1) # {}
  <2>1. /\ RomanSplit(t, n, k + 1).kind = "roman" /\ RomanSplit(t, n, k + 1).paid = 1 .. k + 1
        /\ RomanSplit(t, n, k + 1).total = t
        /\ Cardinality(1 .. k + 1) = k + 1
    <3> DEFINE j == k + 1
    <3>1. t \in Int /\ j \in 0 .. n
      BY <1>5, <1>10
    <3> HIDE DEF j
    <3>2. /\ RomanSplit(t, n, j).kind = "roman" /\ RomanSplit(t, n, j).paid = 1 .. j
          /\ RomanSplit(t, n, j).total = t
          /\ RomanSplit(t, n, j).shares = SplitRoundedTotal(t, n)
          /\ Cardinality(1 .. j) = j
      BY <3>1, RomanSplitIs
    <3> QED  BY <3>2 DEF j
  <2>2. 1 \in 1 .. k + 1
    BY <1>5
  <2> QED  BY <1>6, <1>10, <2>1, <2>2 DEF Documents
<1>12. /\ BillTotal' = BillTotal /\ Units' = Units /\ Units \in Nat /\ lines \in Bill
       /\ cover \in Covering /\ OnBill = Served(lines) /\ lines' \in Bill /\ cover' \in Covering
  BY <1>1, <1>2, SameBill DEF Types
<1> DEFINE total == ReceiptTotal(OnBill, yes, target, no)
           sold == SaleLines(OnBill, yes, target)
<1>b. yes \in BOOLEAN /\ no \in BOOLEAN
  OBVIOUS
<1>13. sold \in Int /\ (BillTotal = 0 => sold = 0)
       /\ (BillTotal > 0 => Spread(BillTotal, CostOf(lines, Served(lines)) + Guests(cover),
                                   sold, target, Len(lines) + 1))
  BY <1>6, <1>7, <1>12, ShareSales
<1> HIDE DEF yes, no
<1>14. total \in Int /\ Near(total, target, Units)
  BY <1>6, <1>7, <1>12, <1>b, ReceiptIs
<1>15. total = ReceiptTotal(OnBill, yes, target, no) /\ screen.total \in Int
  BY <1>2 DEF Types, Screen
<1> HIDE DEF total
<1>16. /\ paid' = paid + target /\ shown' = shown + total
       /\ sales' = sales + sold
       /\ parts' \in [Methods -> Int]
       /\ parts'["CASH"] + parts'["POS"] + parts'["MEAL_VOUCHER"]
            = parts["CASH"] + parts["POS"] + parts["MEAL_VOUCHER"] + total
       /\ drawer' \in Int /\ short' \in Int
       /\ \/ drawer' = drawer /\ short' = short /\ parts'["CASH"] = parts["CASH"]
          \/ /\ drawer' + short' = drawer + short + target
             /\ parts'["CASH"] = parts["CASH"] + total
  BY <1>2, <1>7, <1>9, <1>b, <1>14, <1>15, SingleIs
<1> HIDE DEF sold
<1>17. \E c \in Int, d \in Int :
          /\ drawer' + short' = drawer + short + c /\ parts'["CASH"] = parts["CASH"] + d
          /\ Near(c, d, Units)
  BY <1>2, <1>7, <1>12, <1>14, <1>16, SingleNear
<1>18. ReceiptsNearAmounts' /\ DrawerNearBooks'
  BY <1>5, <1>7, <1>11, <1>12, <1>14, <1>16, <1>17, DocumentAdds
<1>19. /\ shown \in Int /\ paid \in Int /\ sales \in Int
       /\ paid' \in Int /\ shown' \in Int /\ sales' \in Int
  <2>1. shown \in Int /\ paid \in Int /\ sales \in Int
    BY <1>2, BooksAreInt
  <2> QED  BY <1>7, <1>13, <1>14, <1>16, <2>1
<1>20. PartsAddUp'
  <2>1. parts["CASH"] + parts["POS"] + parts["MEAL_VOUCHER"] = shown
    BY <1>6 DEF IInv, PartsAddUp
  <2> QED  BY <1>11, <1>16, <2>1 DEF PartsAddUp
<1>21. SplitInv'
  <2>1. paid' = IF k + 1 < n THEN (k + 1) * even ELSE t
    <3>1. (k + 1) * even = k * even + even
      BY <1>5, <1>6
    <3> QED  BY <1>5, <1>8, <1>16, <3>1
  <2> QED  BY <1>5, <1>10, <1>11, <2>1 DEF SplitInv, even
<1>22. screen' \in Screen
  <2>1. CASE freed'
    BY <1>1, <1>2, <2>1 DEF Refreshed, Types
  <2>2. CASE ~freed'
    <3>1. screen' = LoadedOf(lines', cover', split')
      BY <1>1, <2>2, MoreViews DEF Refreshed
    <3>2. split'.total \in Nat /\ k + 1 < n /\ split' = RomanSplit(split'.total, n, k + 1)
      BY <1>5, <1>10, <1>11, <2>2
    <3>3. LoadedOf(lines', cover', split') \in Screen
      BY <1>10, <1>12, <3>2, LoadedIs
    <3> QED  BY <3>1, <3>3
  <2> QED  BY <2>1, <2>2
<1>23. Types'
  BY <1>1, <1>2, <1>10, <1>16, <1>19, <1>22, TypesAfterPayment
<1>24. FreshInv' /\ ChecksInv'
  BY <1>11 DEF FreshInv, ChecksInv
<1>25. SalesInv'
  <2> DEFINE b == BillTotal
             source == CostOf(lines, Served(lines)) + Guests(cover)
  <2>1. b \in Nat /\ source \in Nat /\ Len(lines) \in Nat
    <3>1. CostOf(lines, Served(lines)) \in Nat
      BY <1>12, CostOfIs DEF Served
    <3>2. Owed(lines, cover) \in Nat /\ Guests(cover) \in Nat
      BY <1>12, OwedIs
    <3>3. Len(lines) \in Nat
      BY <1>12 DEF Bill
    <3> QED  BY <3>1, <3>2, <3>3, Views
  <2>2. SUFFICES ASSUME ~moved', b = t
                 PROVE  /\ b > 0 => Spread(b, source, sales', paid', (k + 1) * (Len(lines) + 1))
                        /\ b = 0 => sales' = 0
    BY <1>1, <1>11, <1>12 DEF SalesInv
  <2>3. /\ b > 0 => Spread(b, source, sales, paid, k * (Len(lines) + 1))
        /\ b = 0 => sales = 0
    BY <1>1, <1>6, <1>11, <2>2 DEF IInv, SalesInv
  <2>4. b > 0 => Spread(b, source, sold, target, Len(lines) + 1)
    BY <1>13
  <2> HIDE DEF b, source
  <2> DEFINE m == Len(lines) + 1
  <2>5. k * m \in Int /\ m \in Int /\ (k + 1) * m = k * m + m
    BY <1>5, <2>1
  <2> HIDE DEF m
  <2>6. CASE b > 0
    <3>1. Spread(b, source, sales, paid, k * m) /\ Spread(b, source, sold, target, m)
      BY <2>3, <2>4, <2>6 DEF m
    <3>2. Spread(b, source, sales + sold, paid + target, k * m + m)
      BY <1>7, <1>13, <1>19, <2>1, <2>5, <3>1, SpreadAdds
    <3>3. Spread(b, source, sales', paid', (k + 1) * m)
      BY <1>16, <2>5, <3>2, Zenon
    <3> QED  BY <2>6, <3>3 DEF m
  <2>7. CASE b = 0
    BY <1>13, <1>16, <2>3, <2>7 DEF b
  <2> QED  BY <2>1, <2>6, <2>7
<1> QED  BY <1>18, <1>20, <1>21, <1>23, <1>24, <1>25 DEF IInv

\* A check.
LEMMA PayCheckStep ==
  ASSUME IInv, NEW c \in Checks, PayCheck(c) PROVE IInv'
<1>1. /\ ~freed /\ split.kind = "checks" /\ c \notin split.paid
      /\ lines' = lines /\ cover' = cover /\ moved' = moved /\ Refreshed
      /\ split' = [split EXCEPT !.paid = @ \cup {c}] /\ freed' = AllPaid(split')
  BY DEF PayCheck
<1>2. Types
  BY DEF IInv
<1>3. PICK P \in SUBSET Checks : split = CheckSplit(P) /\ (freed <=> P = Checks)
  BY <1>1 DEF IInv, SplitInv, NoSplit, RomanSplit
<1> DEFINE Q == P \cup {c}
           S == Assigned(lines, c)
           due == CostOf(lines, S)
           target == RoundToFiveCents(due)
           no == FALSE
<1>4. /\ P \in SUBSET Checks /\ Q \in SUBSET Checks /\ Q # {} /\ split.paid = P /\ c \notin P
      /\ split' = CheckSplit(Q) /\ split'.paid = Q /\ split'.kind = "checks"
      /\ Documents \in Nat /\ Documents = Cardinality(P) /\ Documents' = Documents + 1
  <2>1. split.paid = P /\ IsFiniteSet(P) /\ Cardinality(P) \in Nat
    BY <1>3, CheckSplitIs
  <2>2. split' = CheckSplit(Q)
    BY <1>1, <1>3, <2>1 DEF CheckSplit
  <2>3. split'.paid = Q /\ split'.kind = "checks"
    BY <2>2, CheckSplitIs
  <2>4. Cardinality(Q) = Cardinality(P) + 1
    BY <1>1, <2>1, FS_AddElement
  <2>5. Documents = Cardinality(P) /\ Documents' = Cardinality(Q)
    BY <1>1, <2>1, <2>3 DEF Documents
  <2> QED  BY <1>1, <2>1, <2>2, <2>3, <2>4, <2>5
<1>5. freed' \in BOOLEAN /\ (freed' <=> Q = Checks)
  BY <1>1, <1>4 DEF AllPaid
<1>6. /\ BillTotal' = BillTotal /\ Units' = Units /\ Units \in Nat /\ lines \in Bill
      /\ cover \in Covering /\ OnBill = Served(lines) /\ lines' \in Bill /\ cover' \in Covering
  BY <1>1, <1>2, SameBill DEF Types
<1>7. /\ S \subseteq Served(lines) /\ LinesOf(c) = S /\ Sum(LinesOf(c)) = due
      /\ due \in Nat /\ target \in Int /\ target - due \in 0 .. 4
      /\ due = 0 => target = 0
  <2>1. S \subseteq Served(lines) /\ S \subseteq DOMAIN lines
    BY DEF Assigned, Served
  <2>2. LinesOf(c) = S /\ Sum(LinesOf(c)) = due
    BY Views
  <2>3. due \in Nat
    BY <1>6, <2>1, CostOfIs
  <2>4. target \in Int /\ due <= target /\ target < due + 5
    BY <2>3, FiveCents
  <2>5. due = 0 => target = 0
    BY DEF RoundToFiveCents
  <2> HIDE DEF due, target
  <2> QED  BY <2>1, <2>2, <2>3, <2>4, <2>5
<1>8. PaySingle(S, no, target, screen.checks[c], no)
  <2>1. PaySingle(LinesOf(c), FALSE, RoundToFiveCents(Sum(LinesOf(c))), screen.checks[c], FALSE)
    BY DEF PayCheck
  <2> QED  BY <1>7, <2>1, Zenon
<1>9. no \in BOOLEAN /\ SourceTotal(S, no) = due /\ SaleLines(S, no, target) = due
  <2>1. SourceTotal(S, no) = due + 0
    BY <1>7, Zenon DEF SourceTotal
  <2>2. due + 0 = due
    BY <1>7
  <2>3. SaleLines(S, no, target) = SourceTotal(S, no)
    BY <1>1, Zenon DEF SaleLines
  <2> QED  BY <2>1, <2>2, <2>3, Zenon
<1> DEFINE total == ReceiptTotal(S, no, target, no)
<1>10. total \in Int /\ Near(total, target, Units) /\ screen.checks[c] \in Int
  <2> HIDE DEF no, S, target
  <2>1. screen.checks[c] \in Int
    BY <1>2 DEF Types, Screen
  <2>2. SourceTotal(S, no) = 0 => target = 0
    BY <1>7, <1>9
  <2> QED  BY <1>6, <1>7, <1>9, <2>1, <2>2, ReceiptIs
<1>11. total = ReceiptTotal(S, no, target, no)
  OBVIOUS
<1> HIDE DEF total, no, target, due, S, Q
<1>12. /\ paid' = paid + target /\ shown' = shown + total
       /\ sales' = sales + SaleLines(S, no, target)
       /\ parts' \in [Methods -> Int]
       /\ parts'["CASH"] + parts'["POS"] + parts'["MEAL_VOUCHER"]
            = parts["CASH"] + parts["POS"] + parts["MEAL_VOUCHER"] + total
       /\ drawer' \in Int /\ short' \in Int
       /\ \/ drawer' = drawer /\ short' = short /\ parts'["CASH"] = parts["CASH"]
          \/ /\ drawer' + short' = drawer + short + target
             /\ parts'["CASH"] = parts["CASH"] + total
  BY <1>2, <1>7, <1>8, <1>9, <1>10, <1>11, SingleIs
<1>13. sales' = sales + due
  BY <1>9, <1>12
<1>14. \E x \in Int, d \in Int :
          /\ drawer' + short' = drawer + short + x /\ parts'["CASH"] = parts["CASH"] + d
          /\ Near(x, d, Units)
  BY <1>2, <1>6, <1>7, <1>10, <1>12, SingleNear
<1>15. ReceiptsNearAmounts' /\ DrawerNearBooks'
  BY <1>4, <1>6, <1>7, <1>10, <1>12, <1>14, DocumentAdds
<1>16. /\ shown \in Int /\ paid \in Int /\ sales \in Int
       /\ paid' \in Int /\ shown' \in Int /\ sales' \in Int
  <2>1. shown \in Int /\ paid \in Int /\ sales \in Int
    BY <1>2, BooksAreInt
  <2> QED  BY <1>7, <1>10, <1>12, <1>13, <2>1
<1>17. PartsAddUp'
  <2>1. parts["CASH"] + parts["POS"] + parts["MEAL_VOUCHER"] = shown
    BY <1>1 DEF IInv, PartsAddUp
  <2> QED  BY <1>4, <1>12, <2>1 DEF PartsAddUp
<1>18. SplitInv'
  BY <1>4, <1>5 DEF SplitInv
<1>19. screen' \in Screen
  <2>1. CASE freed'
    BY <1>1, <1>2, <2>1 DEF Refreshed, Types
  <2>2. CASE ~freed'
    <3>1. screen' = LoadedOf(lines', cover', split')
      BY <1>1, <2>2, MoreViews DEF Refreshed
    <3>2. LoadedOf(lines', cover', split') \in Screen
      BY <1>4, <1>6, LoadedIs
    <3> QED  BY <3>1, <3>2
  <2> QED  BY <2>1, <2>2
<1>20. Types'
  BY <1>1, <1>2, <1>5, <1>12, <1>16, <1>19, TypesAfterPayment
<1>21. FreshInv'
  BY <1>4 DEF FreshInv
<1>22. SalesInv'
  <2>1. paid - sales \in 0 .. 4 * Documents
    BY <1>1 DEF IInv, SalesInv
  <2>2. paid' - sales' \in 0 .. 4 * Documents'
    BY <1>4, <1>7, <1>12, <1>13, <1>16, <2>1
  <2> QED  BY <1>4, <2>2 DEF SalesInv
<1>23. ChecksInv'
  <2> SUFFICES ASSUME ~moved'
               PROVE  paid' = CheckDue(lines', 1, split'.paid) + CheckDue(lines', 2, split'.paid)
    BY DEF ChecksInv
  <2>1. paid = CheckDue(lines, 1, P) + CheckDue(lines, 2, P)
    BY <1>1, <1>4 DEF IInv, ChecksInv
  <2>2. /\ CheckDue(lines, c, P) = 0 /\ CheckDue(lines, c, Q) = target
        /\ \A x \in Checks \ {c} : CheckDue(lines, x, Q) = CheckDue(lines, x, P)
    BY <1>4 DEF CheckDue, Q, target, due, S
  <2>3. \A x \in Checks : CheckDue(lines, x, P) \in Int
    <3> TAKE x \in Checks
    <3> DEFINE A == Assigned(lines, x)
    <3>0. A \subseteq DOMAIN lines
      BY DEF Assigned, Served
    <3> HIDE DEF A
    <3>1. CostOf(lines, A) \in Nat
      BY <1>6, <3>0, CostOfIs
    <3>2. RoundToFiveCents(CostOf(lines, A)) \in Int
      BY <3>1, FiveCents
    <3> QED  BY <3>2 DEF CheckDue, A
  <2>4. CheckDue(lines, 1, Q) + CheckDue(lines, 2, Q)
          = CheckDue(lines, 1, P) + CheckDue(lines, 2, P) + target
    <3>1. CASE c = 1
      BY <1>7, <2>2, <2>3, <3>1 DEF Checks
    <3>2. CASE c = 2
      BY <1>7, <2>2, <2>3, <3>2 DEF Checks
    <3> QED  BY <3>1, <3>2 DEF Checks
  <2> QED  BY <1>1, <1>4, <1>12, <2>1, <2>4
<1> QED  BY <1>15, <1>17, <1>18, <1>20, <1>21, <1>22, <1>23 DEF IInv

-----------------------------------------------------------------------------
(* The invariant holds *)

\* Lines of a bill changed one by one.
LEMMA LinesChanged ==
  ASSUME NEW l \in Bill, NEW m, DOMAIN m = DOMAIN l, m = [i \in DOMAIN l |-> m[i]],
         \A i \in DOMAIN l : /\ m[i] \in Line /\ m[i].voided <= m[i].quantity
                             /\ m[i].quantity = l[i].quantity,
         NEW c \in Covering
  PROVE  m \in Bill /\ Len(m) = Len(l) /\ UnitsOf(l, c) <= UnitsOf(m, c)
<1>1. DOMAIN l = 1 .. Len(l) /\ Len(l) \in Nat
  BY DEF Bill
<1>2. m \in [1 .. Len(l) -> Line]
  BY <1>1
<1>3. m \in Seq(Line) /\ Len(m) = Len(l)
  BY <1>1, <1>2, LenProperties, SeqDef
<1>4. m \in Bill
  BY <1>3 DEF Bill
<1> QED  BY <1>3, <1>4, UnitsGrow

\* An empty bill, with nothing booked.
LEMMA InitIs == Init => IInv
<1> SUFFICES ASSUME Init PROVE IInv
  OBVIOUS
<1>1. /\ lines = <<>> /\ cover \in Covers /\ split = NoSplit /\ paid = 0 /\ shown = 0 /\ sales = 0
      /\ parts = [m \in Methods |-> 0] /\ drawer = 0 /\ short = 0 /\ freed = FALSE /\ moved = FALSE
      /\ screen = [total |-> 0, checks |-> [x \in Checks |-> 0]]
  BY DEF Init
<1>2. lines \in Bill /\ Len(lines) = 0
  BY <1>1 DEF Bill
<1>3. Types
  <2>1. screen \in Screen
    BY <1>1 DEF Screen
  <2>2. Len(lines) <= MaxLines
    BY <1>2, TillAssumption
  <2>3. parts \in [Methods -> Int] /\ {paid, shown, sales, drawer, short} \subseteq Int
    BY <1>1
  <2>4. freed \in BOOLEAN /\ moved \in BOOLEAN /\ cover \in Covers
    BY <1>1
  <2> QED  BY <1>2, <2>1, <2>2, <2>3, <2>4 DEF Types
<1>4. split.kind = "none" /\ split.paid = {} /\ Documents = 0
  BY <1>1 DEF NoSplit, Documents
<1>5. SplitInv /\ FreshInv /\ ChecksInv /\ SalesInv
  BY <1>1, <1>4 DEF SplitInv, FreshInv, NothingBooked, ChecksInv, SalesInv
<1>6. Units \in Nat
  BY <1>1, <1>2, CoverIs, UnitsIs, Views
<1>7. ReceiptsNearAmounts /\ DrawerNearBooks /\ PartsAddUp
  <2>0. \A u \in Nat : 0 * u = 0 /\ Near(0, 0, 0) /\ Near(0, 0, 2 + u)
    BY NearSame
  <2>1. Documents * Units = 0 /\ Near(0, 0, 0) /\ Near(0, 0, 2 + Units)
    BY <1>4, <1>6, <2>0, Zenon
  <2>2. /\ paid = 0 /\ shown = 0 /\ drawer + short = 0 /\ parts["CASH"] = 0
        /\ parts["CASH"] + parts["POS"] + parts["MEAL_VOUCHER"] = 0
    BY <1>1 DEF Methods
  <2> QED  BY <1>4, <2>1, <2>2, Zenon DEF ReceiptsNearAmounts, DrawerNearBooks, PartsAddUp
<1> QED  BY <1>3, <1>5, <1>7 DEF IInv

\* What the steps that are no payment leave alone.
LEMMA EditIs ==
  ASSUME IInv, ~freed, cover' = cover, freed' = freed, UNCHANGED bookVars,
         Changed \/ (moved' = moved /\ lines' = lines),
         lines' \in Bill, Len(lines') <= MaxLines, UnitsOf(lines, cover) <= UnitsOf(lines', cover),
         split' = split \/ (split.kind # "roman" /\ split' = CheckSplit(split.paid)),
         screen' = screen \/ screen' = Loaded'
  PROVE  IInv'
<1>1. Types /\ SplitInv
  BY DEF IInv
<1>2. Units <= Units'
  BY Views
<1>3. moved' \in BOOLEAN /\ (~moved' => ~moved /\ (lines' = lines \/ split.paid = {}))
  BY <1>1 DEF Changed, Types
<1>4. split'.kind = "roman" => split' = split /\ split.kind = "roman"
  BY DEF CheckSplit
<1>5. screen' \in Screen
  <2>1. CASE screen' = screen
    BY <1>1, <2>1 DEF Types
  <2>2. CASE screen' = Loaded'
    <3>1. screen' = LoadedOf(lines', cover', split')
      BY <2>2, MoreViews
    <3>2. split'.kind = "roman" =>
            \E n \in ShareCounts : \E k \in 0 .. n :
              split'.total \in Nat /\ k < n /\ split' = RomanSplit(split'.total, n, k)
      <4>1. SUFFICES ASSUME split.kind = "roman"
                     PROVE  \E n \in ShareCounts : \E k \in 0 .. n :
                       split.total \in Nat /\ k < n /\ split = RomanSplit(split.total, n, k)
        BY <1>4
      <4>2. PICK n \in ShareCounts : \E k \in 0 .. n :
              split.total \in Nat /\ split = RomanSplit(split.total, n, k) /\ (freed <=> k = n)
        BY <1>1, <4>1 DEF SplitInv, NoSplit, CheckSplit
      <4>3. PICK k \in 0 .. n :
              split.total \in Nat /\ split = RomanSplit(split.total, n, k) /\ (freed <=> k = n)
        BY <4>2
      <4>4. k < n
        BY <4>3, TillAssumption
      <4> QED  BY <4>3, <4>4
    <3>3. cover' \in Covering
      BY <1>1, CoverIs DEF Types
    <3> QED  BY <3>1, <3>2, <3>3, LoadedIs
  <2> QED  BY <2>1, <2>2
<1> QED  BY <1>2, <1>3, <1>5, Edited

\* A line added (addOrderItem).
LEMMA AddLineStep ==
  ASSUME IInv, NEW dish \in Dishes, AddLine(dish) PROVE IInv'
<1>1. Types
  BY DEF IInv
<1> DEFINE new == [price |-> dish.price, quantity |-> dish.quantity,
                   voided |-> 0, off |-> 0, check |-> 0]
<1>2. /\ ~freed /\ Len(lines) < MaxLines /\ lines' = Append(lines, new) /\ Changed
      /\ cover' = cover /\ split' = split /\ screen' = screen /\ freed' = freed
      /\ UNCHANGED bookVars
  BY DEF AddLine
<1>3. new \in Line /\ new.voided <= new.quantity
  <2>1. dish \in [price : Nat \ {0}, quantity : Nat \ {0}]
    BY TillAssumption
  <2> QED  BY <2>1 DEF Line
<1> HIDE DEF new
<1>4. /\ lines \in Seq(Line) /\ lines \in Bill /\ Len(lines) \in Nat /\ MaxLines \in Nat
      /\ cover \in Covering
  BY <1>1, TillAssumption, CoverIs DEF Types, Bill
<1>5. /\ lines' \in Seq(Line) /\ Len(lines') = Len(lines) + 1
      /\ DOMAIN lines = 1 .. Len(lines) /\ DOMAIN lines' = 1 .. Len(lines) + 1
      /\ \A i \in DOMAIN lines : lines'[i] = lines[i]
      /\ lines'[Len(lines) + 1] = new
  BY <1>2, <1>3, <1>4, AppendProperties
<1>6. lines' \in Bill
  <2>1. \A i \in DOMAIN lines' : i \in DOMAIN lines \/ i = Len(lines) + 1
    BY <1>4, <1>5
  <2>2. \A i \in DOMAIN lines : lines[i].voided <= lines[i].quantity
    BY <1>4 DEF Bill
  <2> QED  BY <1>3, <1>5, <2>1, <2>2 DEF Bill
<1>7. UnitsOf(lines, cover) <= UnitsOf(lines', cover)
  <2>1. DOMAIN lines \subseteq DOMAIN lines'
    BY <1>4, <1>5
  <2> QED  BY <1>4, <1>5, <1>6, <2>1, UnitsGrow
<1>8. Len(lines') <= MaxLines
  BY <1>2, <1>4, <1>5
<1> QED  BY <1>2, <1>6, <1>7, <1>8, EditIs

\* Portions of a line voided.
LEMMA StornoStep ==
  ASSUME IInv, NEW i \in DOMAIN lines, NEW n \in Portions, Storno(i, n) PROVE IInv'
<1>1. Types
  BY DEF IInv
<1>2. /\ ~freed /\ n <= Quantity(i) /\ lines' = [lines EXCEPT ![i].voided = @ + n] /\ Changed
      /\ cover' = cover /\ split' = split /\ screen' = screen /\ freed' = freed
      /\ UNCHANGED bookVars
  BY DEF Storno
<1>3. /\ lines \in Bill /\ cover \in Covering /\ Len(lines) <= MaxLines /\ n \in Nat
      /\ \A j \in DOMAIN lines : lines[j] \in Line /\ lines[j].voided <= lines[j].quantity
  BY <1>1, TillAssumption, CoverIs DEF Types, Bill
<1>4. /\ DOMAIN lines' = DOMAIN lines /\ lines' = [j \in DOMAIN lines |-> lines'[j]]
      /\ \A j \in DOMAIN lines \ {i} : lines'[j] = lines[j]
      /\ lines'[i] = [lines[i] EXCEPT !.voided = @ + n]
  BY <1>2
<1>5. /\ lines'[i] \in Line /\ lines'[i].voided <= lines'[i].quantity
      /\ lines'[i].quantity = lines[i].quantity
  <2> DEFINE x == lines[i]
  <2>1. x \in Line /\ n \in Nat /\ n <= x.quantity - x.voided
    BY <1>2, <1>3 DEF Quantity
  <2>2. lines'[i] = [x EXCEPT !.voided = @ + n]
    BY <1>4
  <2> HIDE DEF x
  <2>3. /\ [x EXCEPT !.voided = @ + n] \in Line
        /\ [x EXCEPT !.voided = @ + n].voided = x.voided + n
        /\ [x EXCEPT !.voided = @ + n].quantity = x.quantity
    BY <2>1 DEF Line
  <2>4. x.voided + n <= x.quantity
    BY <2>1 DEF Line
  <2> QED  BY <2>2, <2>3, <2>4 DEF x
<1>6. \A j \in DOMAIN lines : /\ lines'[j] \in Line /\ lines'[j].voided <= lines'[j].quantity
                              /\ lines'[j].quantity = lines[j].quantity
  BY <1>3, <1>4, <1>5
<1>7. lines' \in Bill /\ Len(lines') = Len(lines) /\ UnitsOf(lines, cover) <= UnitsOf(lines', cover)
  BY <1>3, <1>4, <1>6, LinesChanged
<1> QED  BY <1>2, <1>3, <1>7, EditIs

\* A discount on every line of the table.
LEMMA TableDiscountStep ==
  ASSUME IInv, NEW off \in Discounts, TableDiscount(off) PROVE IInv'
<1>1. Types
  BY DEF IInv
<1>2. /\ ~freed /\ Changed
      /\ lines' = [i \in DOMAIN lines |->
                     IF off = 0 \/ i \in OnBill THEN [lines[i] EXCEPT !.off = off]
                     ELSE lines[i]]
      /\ cover' = cover /\ split' = split /\ freed' = freed /\ Refreshed
      /\ UNCHANGED bookVars
  BY DEF TableDiscount
<1>3. /\ lines \in Bill /\ cover \in Covering /\ Len(lines) <= MaxLines /\ off \in 0 .. 100
      /\ \A j \in DOMAIN lines : lines[j] \in Line /\ lines[j].voided <= lines[j].quantity
  BY <1>1, TillAssumption, CoverIs DEF Types, Bill
<1>4. /\ DOMAIN lines' = DOMAIN lines /\ lines' = [j \in DOMAIN lines |-> lines'[j]]
      /\ \A j \in DOMAIN lines : lines'[j] \in {lines[j], [lines[j] EXCEPT !.off = off]}
  BY <1>2
<1>5. \A x \in Line : /\ [x EXCEPT !.off = off] \in Line
                      /\ [x EXCEPT !.off = off].voided = x.voided
                      /\ [x EXCEPT !.off = off].quantity = x.quantity
  BY <1>3 DEF Line
<1>6. \A j \in DOMAIN lines : /\ lines'[j] \in Line /\ lines'[j].voided <= lines'[j].quantity
                              /\ lines'[j].quantity = lines[j].quantity
  <2> TAKE j \in DOMAIN lines
  <2> DEFINE x == lines[j]
             z == lines'[j]
  <2>1. x \in Line /\ x.voided <= x.quantity
    BY <1>3
  <2>2. z = x \/ z = [x EXCEPT !.off = off]
    BY <1>4
  <2> HIDE DEF x, z
  <2>3. z \in Line /\ z.voided = x.voided /\ z.quantity = x.quantity
    BY <1>5, <2>1, <2>2
  <2>4. z \in Line /\ z.voided <= z.quantity /\ z.quantity = x.quantity
    BY <2>1, <2>3
  <2> QED  BY <2>4 DEF x, z
<1>7. lines' \in Bill /\ Len(lines') = Len(lines) /\ UnitsOf(lines, cover) <= UnitsOf(lines', cover)
  BY <1>3, <1>4, <1>6, LinesChanged
<1>8. screen' = screen \/ screen' = Loaded'
  BY <1>2 DEF Refreshed
<1> QED  BY <1>2, <1>3, <1>7, <1>8, EditIs

\* Lines that change the check they are in.
LEMMA Reassigned ==
  ASSUME Types, NEW check, \A i \in DOMAIN lines : check[i] \in Checks \cup {0},
         lines' = [i \in DOMAIN lines |-> [lines[i] EXCEPT !.check = check[i]]]
  PROVE  lines' \in Bill /\ Len(lines') <= MaxLines /\ UnitsOf(lines, cover) <= UnitsOf(lines', cover)
<1>3. /\ lines \in Bill /\ cover \in Covering /\ Len(lines) <= MaxLines
      /\ \A j \in DOMAIN lines : lines[j] \in Line /\ lines[j].voided <= lines[j].quantity
  BY CoverIs DEF Types, Bill
<1>4. /\ DOMAIN lines' = DOMAIN lines /\ lines' = [j \in DOMAIN lines |-> lines'[j]]
      /\ \A j \in DOMAIN lines : lines'[j] = [lines[j] EXCEPT !.check = check[j]]
  OBVIOUS
<1>5. \A x \in Line : \A y \in Checks \cup {0} :
        /\ [x EXCEPT !.check = y] \in Line
        /\ [x EXCEPT !.check = y].voided = x.voided
        /\ [x EXCEPT !.check = y].quantity = x.quantity
  BY DEF Line
<1>6. \A j \in DOMAIN lines : /\ lines'[j] \in Line /\ lines'[j].voided <= lines'[j].quantity
                              /\ lines'[j].quantity = lines[j].quantity
  <2> TAKE j \in DOMAIN lines
  <2> DEFINE x == lines[j]
             z == lines'[j]
  <2>1. x \in Line /\ x.voided <= x.quantity
    BY <1>3
  <2>2. z = [x EXCEPT !.check = check[j]] /\ check[j] \in Checks \cup {0}
    BY <1>4
  <2> HIDE DEF x, z
  <2>3. z \in Line /\ z.voided = x.voided /\ z.quantity = x.quantity
    BY <1>5, <2>1, <2>2
  <2>4. z \in Line /\ z.voided <= z.quantity /\ z.quantity = x.quantity
    BY <2>1, <2>3
  <2> QED  BY <2>4 DEF x, z
<1>7. lines' \in Bill /\ Len(lines') = Len(lines) /\ UnitsOf(lines, cover) <= UnitsOf(lines', cover)
  BY <1>3, <1>4, <1>6, LinesChanged
<1> QED  BY <1>3, <1>7

\* A roman split starts.
LEMMA StartRomanSplitStep ==
  ASSUME IInv, NEW n \in ShareCounts, StartRomanSplit(n) PROVE IInv'
<1>1. Types /\ SplitInv
  BY DEF IInv
<1>2. /\ ~freed /\ split.kind = "none"
      /\ split' = [kind |-> "roman", total |-> BillTotal, paid |-> {},
                   shares |-> SplitRoundedTotal(BillTotal, n)]
      /\ lines' = lines /\ cover' = cover /\ freed' = freed /\ moved' = moved /\ Refreshed
      /\ UNCHANGED bookVars
  BY DEF StartRomanSplit
<1>3. split.paid = {}
  BY <1>1, <1>2 DEF SplitInv, NoSplit, CheckSplit, RomanSplit
<1>4. BillTotal \in Nat /\ BillTotal % 5 = 0
  BY <1>1, OwedIs, CoverIs, Views DEF Types
<1>5. split' = RomanSplit(BillTotal, n, 0)
  <2>1. 1 .. 0 = {}
    OBVIOUS
  <2> QED  BY <1>2, <2>1 DEF RomanSplit
<1>6. lines' \in Bill /\ Len(lines') <= MaxLines /\ cover' \in Covering
  BY <1>1, <1>2, CoverIs DEF Types
<1>7. screen' \in Screen
  <2> DEFINE t == BillTotal
  <2>1. screen' = LoadedOf(lines', cover', split')
    BY <1>2, MoreViews DEF Refreshed
  <2>2. split'.total = t /\ t \in Nat
    BY <1>2, <1>4
  <2>3. split' = RomanSplit(t, n, 0)
    BY <1>5
  <2> HIDE DEF t
  <2>4. 0 \in 0 .. n /\ 0 < n
    BY TillAssumption
  <2>5. split'.total \in Nat /\ split' = RomanSplit(split'.total, n, 0)
    BY <2>2, <2>3
  <2>6. LoadedOf(lines', cover', split') \in Screen
    BY <1>6, <2>4, <2>5, LoadedIs
  <2> QED  BY <2>1, <2>6
<1> QED  BY <1>2, <1>3, <1>4, <1>5, <1>6, <1>7, Restarted

\* Lines are assigned to checks.
LEMMA UpdateAnalyticSplitStep ==
  ASSUME IInv, NEW assign \in [DOMAIN lines -> Checks \cup {0}], UpdateAnalyticSplit(assign)
  PROVE  IInv'
<1>1. Types /\ SplitInv
  BY DEF IInv
<1> DEFINE check == [i \in DOMAIN lines |-> IF i \in OnBill THEN assign[i] ELSE 0]
<1>2. /\ ~freed /\ split.kind # "roman" /\ split' = [split EXCEPT !.kind = "checks"]
      /\ lines' = [i \in DOMAIN lines |->
                     [lines[i] EXCEPT !.check = IF i \in OnBill THEN assign[i] ELSE 0]]
      /\ Changed /\ cover' = cover /\ freed' = freed /\ Refreshed
      /\ UNCHANGED bookVars
  BY DEF UpdateAnalyticSplit
<1>3. split' = CheckSplit(split.paid)
  <2>1. CASE split = NoSplit
    BY <1>2, <2>1 DEF NoSplit, CheckSplit
  <2>2. ASSUME NEW P \in SUBSET Checks, split = CheckSplit(P)
        PROVE  split' = CheckSplit(split.paid)
    BY <1>2, <2>2 DEF CheckSplit
  <2> QED  BY <1>1, <1>2, <2>1, <2>2 DEF SplitInv, RomanSplit
<1>4. \A i \in DOMAIN lines : check[i] \in Checks \cup {0}
  OBVIOUS
<1>5. lines' = [i \in DOMAIN lines |-> [lines[i] EXCEPT !.check = check[i]]]
  BY <1>2
<1> HIDE DEF check
<1>6. lines' \in Bill /\ Len(lines') <= MaxLines /\ UnitsOf(lines, cover) <= UnitsOf(lines', cover)
  BY <1>1, <1>4, <1>5, Reassigned
<1>7. screen' = screen \/ screen' = Loaded'
  BY <1>2 DEF Refreshed
<1> QED  BY <1>2, <1>3, <1>6, <1>7, EditIs

\* A split without payments is cancelled.
LEMMA CancelSplitStep ==
  ASSUME IInv, CancelSplit PROVE IInv'
<1>1. Types
  BY DEF IInv
<1> DEFINE check == [i \in DOMAIN lines |-> 0]
<1>2. /\ ~freed /\ split.paid = {} /\ split' = NoSplit
      /\ lines' = [i \in DOMAIN lines |-> [lines[i] EXCEPT !.check = 0]]
      /\ cover' = cover /\ freed' = freed /\ moved' = moved /\ Refreshed
      /\ UNCHANGED bookVars
  BY DEF CancelSplit
<1>3. \A i \in DOMAIN lines : check[i] \in Checks \cup {0}
  OBVIOUS
<1>4. lines' = [i \in DOMAIN lines |-> [lines[i] EXCEPT !.check = check[i]]]
  BY <1>2
<1> HIDE DEF check
<1>5. lines' \in Bill /\ Len(lines') <= MaxLines /\ cover' \in Covering
  BY <1>1, <1>2, <1>3, <1>4, Reassigned, CoverIs DEF Types
<1>6. screen' \in Screen
  <2>1. screen' = LoadedOf(lines', cover', split')
    BY <1>2, MoreViews DEF Refreshed
  <2>2. split'.kind # "roman"
    BY <1>2 DEF NoSplit
  <2>3. LoadedOf(lines', cover', split') \in Screen
    BY <1>5, <2>2, LoadedIs
  <2> QED  BY <2>1, <2>3
<1> QED  BY <1>2, <1>5, <1>6, Restarted

\* The till reads the bill again.
LEMMA LookStep ==
  ASSUME IInv, Look PROVE IInv'
<1>1. /\ ~freed /\ screen' = Loaded /\ lines' = lines /\ cover' = cover /\ split' = split
      /\ freed' = freed /\ moved' = moved /\ UNCHANGED bookVars
  BY DEF Look
<1>2. screen' = Loaded'
  BY <1>1, MoreViews
<1>3. Types
  BY DEF IInv
<1>4. lines' \in Bill /\ Len(lines') <= MaxLines /\ UnitsOf(lines, cover) <= UnitsOf(lines', cover)
  <2>1. UnitsOf(lines, cover) \in Nat
    BY <1>3, UnitsIs, CoverIs DEF Types
  <2> QED  BY <1>1, <1>3, <2>1 DEF Types
<1> QED  BY <1>1, <1>2, <1>4, EditIs

\* Nothing happens.
LEMMA Stutters ==
  ASSUME IInv, UNCHANGED vars PROVE IInv'
<1>1. /\ lines' = lines /\ cover' = cover /\ split' = split /\ screen' = screen /\ paid' = paid
      /\ shown' = shown /\ sales' = sales /\ parts' = parts /\ drawer' = drawer
      /\ freed' = freed /\ short' = short /\ moved' = moved
  BY DEF vars
<1>2. BillTotal' = BillTotal /\ Units' = Units
  BY <1>1, Views
<1>3. Documents' = Documents
  BY <1>1, MoreViews
<1>4. Types' /\ SplitInv' /\ FreshInv' /\ ChecksInv'
  BY <1>1 DEF IInv, Types, SplitInv, FreshInv, NothingBooked, ChecksInv
<1>5. SalesInv'
  BY <1>1, <1>2, <1>3 DEF IInv, SalesInv
<1>6. ReceiptsNearAmounts' /\ PartsAddUp' /\ DrawerNearBooks'
  BY <1>1, <1>2, <1>3 DEF IInv, ReceiptsNearAmounts, PartsAddUp, DrawerNearBooks
<1> QED  BY <1>4, <1>5, <1>6 DEF IInv

\* The invariant holds in every state: each edit of the bill, split, look and
\* payment keeps it.
THEOREM Invariance == Spec => []IInv
<1>1. Init => IInv
  BY InitIs
<1>2. IInv /\ [Next]_vars => IInv'
  <2> SUFFICES ASSUME IInv, [Next]_vars PROVE IInv'
    OBVIOUS
  <2>1. ASSUME NEW dish \in Dishes, AddLine(dish) PROVE IInv'
    BY <2>1, AddLineStep
  <2>2. ASSUME NEW i \in DOMAIN lines, NEW n \in Portions, Storno(i, n) PROVE IInv'
    BY <2>2, StornoStep
  <2>3. ASSUME NEW off \in Discounts, TableDiscount(off) PROVE IInv'
    BY <2>3, TableDiscountStep
  <2>4. ASSUME NEW n \in ShareCounts, StartRomanSplit(n) PROVE IInv'
    BY <2>4, StartRomanSplitStep
  <2>5. ASSUME NEW assign \in [DOMAIN lines -> Checks \cup {0}], UpdateAnalyticSplit(assign)
        PROVE  IInv'
    BY <2>5, UpdateAnalyticSplitStep
  <2>6. CASE CancelSplit
    BY <2>6, CancelSplitStep
  <2>7. CASE Look
    BY <2>7, LookStep
  <2>8. CASE PayFull
    BY <2>8, PayFullStep
  <2>9. CASE PayShare
    BY <2>9, PayShareStep
  <2>10. ASSUME NEW c \in Checks, PayCheck(c) PROVE IInv'
    BY <2>10, PayCheckStep
  <2>11. CASE UNCHANGED vars
    BY <2>11, Stutters
  <2> QED  BY <2>1, <2>2, <2>3, <2>4, <2>5, <2>6, <2>7, <2>8, <2>9, <2>10, <2>11 DEF Next
<1> QED  BY <1>1, <1>2, PTL DEF Spec

-----------------------------------------------------------------------------
(* What follows *)

\* In every state of a roman split.
LEMMA RomanOf ==
  ASSUME IInv, split.kind = "roman"
  PROVE  \E n \in ShareCounts : \E k \in 0 .. n :
           /\ split.total \in Nat /\ n \in Nat /\ (freed <=> k = n) /\ Documents = k
           /\ split.paid = 1 .. k /\ split.shares = SplitRoundedTotal(split.total, n)
           /\ Cardinality(split.paid) = k
           /\ DOMAIN split.shares = 1 .. n /\ (freed => paid = split.total)
<1>1. PICK n \in ShareCounts : \E k \in 0 .. n :
        /\ split.total \in Nat /\ split = RomanSplit(split.total, n, k) /\ (freed <=> k = n)
        /\ paid = IF k < n THEN k * EvenShare(split.total, n) ELSE split.total
  BY DEF IInv, SplitInv, NoSplit, CheckSplit
<1>2. PICK k \in 0 .. n :
        /\ split.total \in Nat /\ split = RomanSplit(split.total, n, k) /\ (freed <=> k = n)
        /\ paid = IF k < n THEN k * EvenShare(split.total, n) ELSE split.total
  BY <1>1
<1> DEFINE t == split.total
<1>3. t \in Int /\ split = RomanSplit(t, n, k)
  BY <1>2
<1> HIDE DEF t
<1>4. /\ RomanSplit(t, n, k).kind = "roman" /\ RomanSplit(t, n, k).paid = 1 .. k
      /\ RomanSplit(t, n, k).total = t
      /\ RomanSplit(t, n, k).shares = SplitRoundedTotal(t, n)
      /\ Cardinality(1 .. k) = k /\ n \in Nat \ {0} /\ k \in Nat
      /\ DOMAIN SplitRoundedTotal(t, n) = 1 .. n
  BY <1>3, RomanSplitIs
<1>5. /\ split.paid = 1 .. k /\ split.shares = SplitRoundedTotal(t, n) /\ Documents = k
      /\ Cardinality(split.paid) = k
  BY <1>3, <1>4 DEF Documents
<1>6. freed => paid = split.total
  <2>1. k = n => ~(k < n)
    BY <1>4
  <2> QED  BY <1>2, <2>1
<1> QED  BY <1>2, <1>4, <1>5, <1>6 DEF t

\* The types follow from the invariant.
LEMMA TypesFollow == IInv => TypeOK
<1> SUFFICES ASSUME IInv PROVE TypeOK
  OBVIOUS
<1>1. Types /\ SplitInv
  BY DEF IInv
<1>2. /\ lines \in Seq([price : Nat, quantity : Nat, voided : Nat, off : 0 .. 100,
                        check : Checks \cup {0}])
      /\ \A i \in DOMAIN lines : lines[i].voided <= lines[i].quantity
  BY <1>1 DEF Types, Bill, Line
<1>3. /\ split.kind \in {"none", "roman", "checks"}
      /\ split.paid \subseteq (IF split.kind = "roman" THEN DOMAIN split.shares ELSE Checks)
  <2>1. CASE split.kind = "roman"
    <3>1. PICK n \in ShareCounts : \E k \in 0 .. n :
            n \in Nat /\ split.paid = 1 .. k /\ DOMAIN split.shares = 1 .. n
      BY <2>1, RomanOf
    <3>2. PICK k \in 0 .. n : split.paid = 1 .. k
      BY <3>1
    <3>3. 1 .. k \subseteq 1 .. n
      BY <3>1
    <3> QED  BY <2>1, <3>1, <3>2, <3>3
  <2>2. CASE split.kind # "roman"
    BY <1>1, <2>2, CheckSplitIs DEF SplitInv, NoSplit, RomanSplit
  <2> QED  BY <2>1, <2>2
<1>4. screen.total \in Int /\ screen.checks \in [Checks -> Nat]
  BY <1>1 DEF Types, Screen
<1> QED  BY <1>1, <1>2, <1>3, <1>4 DEF Types, TypeOK

\* The variables have their types, and no line is voided more than it was
\* ordered.
THEOREM TypeCorrect == Spec => []TypeOK
  BY Invariance, TypesFollow, PTL

\* A roman split paid in all took its total.
LEMMA RomanFollows == IInv => RomanTakesItsTotal
  BY RomanOf DEF RomanTakesItsTotal

\* However the bill changes between two shares, they take its total at the
\* start.
THEOREM SharesTakeTheTotal == Spec => []RomanTakesItsTotal
  BY Invariance, RomanFollows, PTL

\* Checks paid in all took their lines.
LEMMA ChecksFollow == IInv => ChecksLeaveTheCover
<1> SUFFICES ASSUME IInv, split.kind = "checks", freed, ~moved
             PROVE  LET owed == BillTotal - CoverTotal - Sum({i \in OnBill : lines[i].check = 0})
                    IN  paid - owed \in -8 .. 8
  BY DEF ChecksLeaveTheCover
<1>1. lines \in Bill /\ cover \in Covering
  BY CoverIs DEF IInv, Types
<1>2. split.paid = Checks
  <2>1. PICK P \in SUBSET Checks : split = CheckSplit(P) /\ (freed <=> P = Checks)
    BY DEF IInv, SplitInv, NoSplit, RomanSplit
  <2> QED  BY <2>1, CheckSplitIs
<1> DEFINE a == CostOf(lines, Assigned(lines, 0))
           b == CostOf(lines, Assigned(lines, 1))
           c == CostOf(lines, Assigned(lines, 2))
           all == CostOf(lines, Served(lines))
<1>3. a \in Nat /\ b \in Nat /\ c \in Nat
  <2>1. \A x : Assigned(lines, x) \subseteq DOMAIN lines
    BY DEF Assigned, Served
  <2> QED  BY <1>1, <2>1, CostOfIs
<1>4. all = a + b + c
  BY <1>1, ChecksAddUp
<1>5. paid = RoundToFiveCents(b) + RoundToFiveCents(c)
  BY <1>2 DEF IInv, ChecksInv, CheckDue, Checks
<1>6. /\ BillTotal \in Nat /\ CoverTotal \in Nat
      /\ all + CoverTotal <= BillTotal /\ BillTotal <= all + CoverTotal + 8
  BY <1>1, OwedIs, Views
<1>7. Sum({i \in OnBill : lines[i].check = 0}) = a
  <2>1. {i \in OnBill : lines[i].check = 0} = Assigned(lines, 0)
    BY Views DEF Assigned
  <2> QED  BY <2>1, Views
<1> HIDE DEF a, b, c, all
<1>8. /\ RoundToFiveCents(b) \in Int /\ b <= RoundToFiveCents(b) /\ RoundToFiveCents(b) < b + 5
      /\ RoundToFiveCents(c) \in Int /\ c <= RoundToFiveCents(c) /\ RoundToFiveCents(c) < c + 5
  BY <1>3, FiveCents
<1>9. paid - (BillTotal - CoverTotal - a) \in -8 .. 8
  BY <1>3, <1>4, <1>5, <1>6, <1>8
<1> QED  BY <1>7, <1>9

\* Checks take what the bill has but the cover and the lines in no check, to
\* four cents a check.
THEOREM ChecksTakeTheirLines == Spec => []ChecksLeaveTheCover
  BY Invariance, ChecksFollow, PTL

\* The receipts add up to the amounts taken but for half a cent a unit of each
\* document (billToReceiptLines).
THEOREM ReceiptsAddUp == Spec => []ReceiptsNearAmounts
<1>1. IInv => ReceiptsNearAmounts
  BY DEF IInv
<1> QED  BY <1>1, Invariance, PTL

\* A drawer counted right, and what cashiers asked too little, is near the cash
\* the session expects (closeCashSession).
THEOREM DrawerAddsUp == Spec => []DrawerNearBooks
<1>1. IInv => DrawerNearBooks
  BY DEF IInv
<1> QED  BY <1>1, Invariance, PTL

\* The parts by method of the session add up to its receipts, but for the
\* roundings of a mixed payment (computeCashSessionTheoretical).
THEOREM PartsAreReceipts == Spec => []PartsAddUp
<1>1. IInv => PartsAddUp
  BY DEF IInv
<1> QED  BY <1>1, Invariance, PTL

\* The sale lines follow the amounts.
LEMMA SalesFollow == IInv => SalesBelowAmounts
<1> SUFFICES ASSUME IInv PROVE SalesBelowAmounts
  OBVIOUS
<1>1. CASE split.kind = "roman"
  <2> SUFFICES ASSUME freed, ~moved, BillTotal = split.total
               PROVE  Near(sales, paid, 16 + Documents * (Len(lines) + 1))
    BY <1>1 DEF SalesBelowAmounts
  <2> DEFINE b == BillTotal
             source == CostOf(lines, Served(lines)) + Guests(cover)
             n == Documents * (Len(lines) + 1)
  <2>1. lines \in Bill /\ cover \in Covering /\ sales \in Int
    BY CoverIs, BooksAreInt DEF IInv, Types
  <2>2. /\ b \in Nat /\ source \in Nat /\ source <= b /\ b <= source + 8
    <3>1. CostOf(lines, Served(lines)) \in Nat
      BY <2>1, CostOfIs DEF Served
    <3>2. /\ Owed(lines, cover) \in Nat /\ Guests(cover) \in Nat
          /\ CostOf(lines, Served(lines)) + Guests(cover) <= Owed(lines, cover)
          /\ Owed(lines, cover) <= CostOf(lines, Served(lines)) + Guests(cover) + 8
      BY <2>1, OwedIs
    <3>3. b = Owed(lines, cover)
      BY Views
    <3> HIDE DEF b
    <3> QED  BY <3>1, <3>2, <3>3
  <2>3. n \in Nat
    <3>1. Documents \in Nat
      BY DocumentsIs DEF IInv, Types
    <3>2. Len(lines) + 1 \in Nat
      BY <2>1 DEF Bill
    <3> QED  BY <3>1, <3>2
  <2>4. paid = b
    BY <1>1, RomanOf
  <2>5. /\ b > 0 => Spread(b, source, sales, paid, n)
        /\ b = 0 => sales = 0
    BY <1>1 DEF IInv, SalesInv
  <2> HIDE DEF b, source, n
  <2>6. CASE b > 0
    <3>1. b \in Nat \ {0} /\ Spread(b, source, sales, b, n)
      BY <2>2, <2>4, <2>5, <2>6
    <3>2. Near(sales, b, 16 + n)
      BY <2>1, <2>2, <2>3, <3>1, SpreadEnds
    <3> QED  BY <2>4, <3>2 DEF n
  <2>7. CASE b = 0
    <3>1. 16 + n \in Nat /\ sales = 0 /\ paid = 0
      BY <2>3, <2>4, <2>5, <2>7
    <3>2. Near(0, 0, 16 + n)
      BY <3>1, NearSame
    <3> QED  BY <3>1, <3>2 DEF n
  <2> QED  BY <2>2, <2>6, <2>7
<1>2. CASE split.kind # "roman"
  BY <1>2 DEF IInv, SalesInv, SalesBelowAmounts
<1> QED  BY <1>1, <1>2

\* The sale lines of the reports are the amounts taken but for the roundings.
THEOREM SalesAddUp == Spec => []SalesBelowAmounts
  BY Invariance, SalesFollow, PTL

-----------------------------------------------------------------------------
(* Who asks for too little *)

\* What is added to a shortage is within the bound of the step that adds it.
LEMMA Shortfall ==
  ASSUME NEW a \in Int, NEW b \in Int, NEW x \in Int, NEW y \in Int, b > a,
         b <= a \/ (x > y /\ b - a <= x - y)
  PROVE  x > y /\ b - a <= x - y
  OBVIOUS

\* A check is rounded up by four cents at most.
LEMMA ShortfallBelowFive ==
  ASSUME NEW d \in Int, NEW x \in Int, NEW y \in Int, d <= x - y, x < y + 5
  PROVE  d <= 4
  OBVIOUS

\* A payment in one method may fall short of its amount only by what the screen
\* asked for too little.
LEMMA SingleShort ==
  ASSUME Types, NEW S, NEW withCover \in BOOLEAN, NEW target \in Int, NEW read \in Int,
         NEW whole \in BOOLEAN, PaySingle(S, withCover, target, read, whole)
  PROVE  short' \in Int /\ (short' <= short \/ (target > read /\ short' - short <= target - read))
<1>1. PICK m \in {"CASH", "POS"} :
        Book(S, withCover, target, whole, [x \in {m} |-> target], AtLeast(read, 1))
  BY DEF PaySingle
<1> DEFINE in == [x \in {m} |-> target]
           got == AtLeast(read, 1)
<1>2. DOMAIN in = {m} /\ (m = "CASH" => in["CASH"] = target)
  OBVIOUS
<1>3. got \in Int /\ got >= read /\ short \in Int
  BY DEF AtLeast, Types
<1>4. Book(S, withCover, target, whole, in, got)
  BY <1>1
<1> HIDE DEF in, got
<1>5. IF "CASH" \in {m} THEN short' = short + AtLeast(in["CASH"] - got, 0)
                         ELSE short' = short
  BY <1>2, <1>4 DEF Book
<1>6. CASE m = "CASH"
  <2>1. short' = short + AtLeast(target - got, 0)
    BY <1>2, <1>5, <1>6
  <2> QED  BY <1>3, <2>1 DEF AtLeast
<1>7. CASE m = "POS"
  <2>1. short' = short
    BY <1>5, <1>7
  <2> QED  BY <1>3, <2>1
<1> QED  BY <1>6, <1>7

\* A step that adds to the shortage is a payment, by a screen out of date or of
\* a check.
LEMMA PaymentsAreSeen ==
  ASSUME IInv, Next, short' > short
  PROVE  screen # Loaded \/ (split.kind = "checks" /\ short' - short <= 4)
<1> SUFFICES ASSUME screen = Loaded
             PROVE  split.kind = "checks" /\ short' - short <= 4
  OBVIOUS
<1>1. Types /\ short \in Int /\ ~(short' = short)
  BY BooksAreInt DEF IInv
<1>2. lines \in Bill /\ cover \in Covering /\ OnBill = Served(lines) /\ screen \in Screen
  BY <1>1, CoverIs, Views DEF Types
<1>3. /\ screen.total = IF split.kind = "roman" THEN split.shares[Cardinality(split.paid) + 1]
                        ELSE BillTotal
      /\ \A c \in Checks : screen.checks[c] = Sum(LinesOf(c))
      /\ screen.total \in Int
  BY <1>2 DEF Loaded, Screen
<1>4. PayFull \/ PayShare \/ \E c \in Checks : PayCheck(c)
  BY <1>1 DEF Next, AddLine, Storno, TableDiscount, StartRomanSplit, UpdateAnalyticSplit,
              CancelSplit, Look, bookVars
<1>5. CASE PayFull
  <2>1. split.kind = "none"
    BY <1>5 DEF PayFull
  <2> DEFINE target == BillTotal
             yes == TRUE
             no == FALSE
  <2>2. screen.total = target /\ target \in Int
    BY <1>3, <2>1
  <2>3. \A whole \in BOOLEAN :
          SourceTotal(Served(lines), yes) = 0 => target = 0
    <3>1. SourceTotal(Served(lines), yes) = CostOf(lines, Served(lines)) + Guests(cover)
      BY <1>2, SourceIs, Zenon
    <3>2. CostOf(lines, Served(lines)) \in Nat /\ Guests(cover) \in Nat
      BY <1>2, CostOfIs, OwedIs DEF Served
    <3>3. CostOf(lines, Served(lines)) = 0 /\ Guests(cover) = 0 => Owed(lines, cover) = 0
      <4>1. RoundToFiveCents(0) = 0
        BY DEF RoundToFiveCents
      <4> QED  BY <4>1 DEF Owed
    <3>4. target = Owed(lines, cover)
      BY Views
    <3> HIDE DEF yes, target
    <3> QED  BY <3>1, <3>2, <3>3, <3>4
  <2>4. yes \in BOOLEAN /\ no \in BOOLEAN
    OBVIOUS
  <2>5. \/ \E whole \in BOOLEAN : PaySingle(OnBill, yes, target, screen.total, whole)
        \/ PayMixed(target)
    BY <1>5, Zenon DEF PayFull, target, yes
  <2>6. ReceiptTotal(OnBill, TRUE, target, FALSE) = ReceiptTotal(OnBill, yes, target, no)
    OBVIOUS
  <2> HIDE DEF yes, no, target
  <2>7. \A whole \in BOOLEAN : ReceiptTotal(OnBill, yes, target, whole) \in Int
    BY <1>2, <2>2, <2>3, <2>4, ReceiptIs
  <2>8. CASE PayMixed(target)
    <3> DEFINE total == ReceiptTotal(OnBill, yes, target, no)
    <3>1. total \in Int /\ total = ReceiptTotal(OnBill, TRUE, target, FALSE)
      BY <2>4, <2>6, <2>7, Zenon
    <3> HIDE DEF total
    <3>2. short' = short
      BY <1>1, <2>2, <2>8, <3>1, MixedIs
    <3> QED  BY <1>1, <3>2
  <2>9. ASSUME NEW whole \in BOOLEAN, PaySingle(OnBill, yes, target, screen.total, whole)
        PROVE  FALSE
    <3>1. ReceiptTotal(OnBill, yes, target, whole) \in Int /\ screen.total \in Int
      BY <1>3, <2>7, Zenon
    <3>2. short' \in Int /\ (short' <= short \/ (target > screen.total
                                               /\ short' - short <= target - screen.total))
      BY <1>1, <2>2, <2>4, <2>9, <3>1, SingleShort
    <3>3. short \in Int /\ short' \in Int /\ target \in Int /\ screen.total \in Int /\ short' > short
      BY <1>1, <2>2, <3>1, <3>2
    <3>4. target > screen.total /\ short' - short <= target - screen.total
      BY <3>2, <3>3, Shortfall
    <3> QED  BY <2>2, <3>3, <3>4
  <2> QED  BY <2>5, <2>8, <2>9
<1>6. CASE PayShare
  <2>1. split.kind = "roman"
    BY <1>6 DEF PayShare
  <2> DEFINE target == split.shares[Cardinality(split.paid) + 1]
             yes == TRUE
             no == FALSE
  <2>2. screen.total = target /\ target \in Int
    BY <1>3, <2>1
  <2>3. yes \in BOOLEAN /\ no \in BOOLEAN
    OBVIOUS
  <2>4. PaySingle(OnBill, yes, target, screen.total, no)
    BY <1>6, Zenon DEF PayShare, ShareDue, target, yes, no
  <2> HIDE DEF yes, no, target
  <2>5. screen.total \in Int
    BY <1>3
  <2>6. short' \in Int /\ (short' <= short \/ (target > screen.total
                                             /\ short' - short <= target - screen.total))
    BY <1>1, <2>2, <2>3, <2>4, <2>5, SingleShort
  <2>7. short \in Int /\ short' \in Int /\ short' > short
    BY <1>1, <2>6
  <2>8. target > screen.total /\ short' - short <= target - screen.total
    BY <2>2, <2>5, <2>6, <2>7, Shortfall
  <2> QED  BY <2>2, <2>8
<1>7. ASSUME NEW c \in Checks, PayCheck(c)
      PROVE  split.kind = "checks" /\ short' - short <= 4
  <2>1. split.kind = "checks"
    BY <1>7 DEF PayCheck
  <2> DEFINE S == LinesOf(c)
             due == Sum(S)
             target == RoundToFiveCents(due)
             no == FALSE
  <2>2. screen.checks[c] = due /\ S \subseteq Served(lines) /\ due = CostOf(lines, S) /\ due \in Nat
    <3>1. S \subseteq Served(lines)
      BY Views DEF Assigned
    <3>2. due = CostOf(lines, S)
      BY Views
    <3>3. CostOf(lines, S) \in Nat
      BY <1>2, <3>1, CostOfIs DEF Served
    <3> QED  BY <1>3, <3>1, <3>2, <3>3
  <2>3. PaySingle(S, no, target, due, no)
    <3>1. PaySingle(S, FALSE, target, screen.checks[c], FALSE)
      BY <1>7 DEF PayCheck
    <3> QED  BY <2>2, <3>1, Zenon
  <2>4. no \in BOOLEAN
    OBVIOUS
  <2>5. target \in Int /\ target < due + 5
    BY <2>2, FiveCents
  <2> HIDE DEF no, target, due, S
  <2>6. due \in Int
    BY <2>2
  <2>7. short' \in Int /\ (short' <= short \/ (target > due /\ short' - short <= target - due))
    BY <1>1, <2>3, <2>4, <2>5, <2>6, SingleShort
  <2>8. short \in Int /\ short' \in Int /\ short' > short
    BY <1>1, <2>7
  <2>9. target > due /\ short' - short <= target - due
    BY <2>5, <2>6, <2>7, <2>8, Shortfall
  <2>10. short' - short <= 4
    <3> DEFINE d == short' - short
    <3>1. d \in Int /\ d <= target - due
      BY <2>8, <2>9
    <3> HIDE DEF d
    <3>2. d <= 4
      BY <2>5, <2>6, <3>1, ShortfallBelowFive
    <3> QED  BY <3>2 DEF d
  <2> QED  BY <2>1, <2>10
<1> QED  BY <1>4, <1>5, <1>6, <1>7

\* A cashier who has the bill as it is asks for what is booked, but for the
\* rounding of a check.
THEOREM OnlyStaleScreensAskTooLittle == Spec => ShortOnlyIfStale
<1>1. IInv /\ [Next]_vars =>
        [short' > short =>
           screen # Loaded \/ (split.kind = "checks" /\ short' - short <= 4)]_vars
  BY PaymentsAreSeen
<1> QED  BY <1>1, Invariance, PTL DEF Spec, ShortOnlyIfStale
=============================================================================
