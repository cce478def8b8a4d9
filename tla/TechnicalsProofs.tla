--------------------------- MODULE TechnicalsProofs ---------------------------
(***************************************************************************)
(* Lemmas about Technicals, for columns of every length and every period:  *)
(* the arithmetic of exact fractions, with the recursion of the greatest   *)
(* common divisor it rests on; the parts of a candle; and what an          *)
(* indicator reads: no later row, and no other indicator's numbers.        *)
(***************************************************************************)
EXTENDS Technicals, FiniteSetTheorems, WellFoundedInduction, TLAPS

-----------------------------------------------------------------------------
(***************************************************************************)
(* Induction, division and the greatest common divisor                     *)
(***************************************************************************)
\* Every set of natural numbers has a least one.
LEMMA LeastOf ==
    ASSUME NEW T \in SUBSET Nat, T # {}
    PROVE  \E m \in T : \A k \in T : m <= k
<1>1. PICK m \in T : \A k \in T : ~ (<<k, m>> \in OpToRel(<, Nat))
  BY NatLessThanWellFounded, WFMin
<1>2. \A k \in T : ~ (k < m)
  BY <1>1 DEF OpToRel
<1>3. \A k \in T : m <= k
  BY <1>2
<1> QED
  BY <1>3

\* Induction, with the set of the numbers that have the property.
LEMMA AllNumbers ==
    ASSUME NEW T, 0 \in T, \A n \in Nat : n \in T => n + 1 \in T
    PROVE  Nat \subseteq T
<1> SUFFICES ASSUME Nat \ T # {} PROVE FALSE
  OBVIOUS
<1>1. PICK m \in Nat \ T : \A k \in Nat \ T : m <= k
  BY LeastOf
<1>2. m # 0 /\ m - 1 \in Nat
  BY <1>1
<1>3. m - 1 \in T
  BY <1>1, <1>2
<1> QED
  BY <1>1, <1>2, <1>3

LEMMA Division ==
    ASSUME NEW a \in Nat, NEW b \in Nat \ {0}
    PROVE  /\ a \div b \in Nat /\ a % b \in 0 .. b - 1
           /\ a = (b * (a \div b)) + (a % b)
  OBVIOUS

LEMMA DivisionIs ==
    ASSUME NEW b \in Nat \ {0}, NEW q \in Int, NEW r \in 0 .. b - 1
    PROVE  (b * q + r) % b = r /\ (b * q + r) \div b = q
  OBVIOUS

LEMMA ExactDivision ==
    ASSUME NEW g \in Nat \ {0}, NEW p \in Int
    PROVE  (g * p) \div g = p
  OBVIOUS
LEMMA PairIsThere == ASSUME NEW p, NEW q PROVE <<p, q>> # NaN
  BY DEF NaN

\* The recursion of gcd ends: its second argument shrinks.
EuclidOn(n, f) ==
    \A b \in 0 .. n, a \in Nat : f[b][a] = IF b = 0 THEN a ELSE f[a % b][b]

LEMMA EuclidBelow == \A n \in Nat : \E f : EuclidOn(n, f)
<1> DEFINE T == {n \in Nat : \E f : EuclidOn(n, f)}
<1>1. 0 \in T
  <2>1. EuclidOn(0, [b \in 0 .. 0 |-> [a \in Nat |-> a]])
    BY DEF EuclidOn
  <2> QED
    BY <2>1
<1>2. ASSUME NEW n \in Nat, n \in T PROVE n + 1 \in T
  <2>1. PICK f : EuclidOn(n, f)
    BY <1>2
  <2> DEFINE g == [b \in 0 .. n + 1 |-> [a \in Nat |-> IF b = 0 THEN a ELSE f[a % b][b]]]
  <2>2. \A a \in Nat, b \in 0 .. n : g[b][a] = f[b][a]
    BY <2>1 DEF EuclidOn
  <2>3. \A a \in Nat, b \in 0 .. n + 1 : b # 0 => b \in Nat \ {0} /\ a % b \in 0 .. n
    BY Division
  <2>4. \A a \in Nat, b \in 0 .. n + 1 : g[b][a] = IF b = 0 THEN a ELSE g[a % b][b]
    <3> SUFFICES ASSUME NEW a \in Nat, NEW b \in 0 .. n + 1, b # 0
                 PROVE  g[b][a] = g[a % b][b]
      OBVIOUS
    <3>1. g[b][a] = f[a % b][b]
      OBVIOUS
    <3>2. g[a % b][b] = f[a % b][b]
      BY <2>2, <2>3
    <3> QED
      BY <3>1, <3>2
  <2>5. EuclidOn(n + 1, g)
    BY <2>4 DEF EuclidOn
  <2> QED
    BY <2>5
<1> HIDE DEF T
<1>3. Nat \subseteq T
  BY <1>1, <1>2, AllNumbers
<1> QED
  BY <1>3 DEF T

LEMMA EuclidIsOne ==
    ASSUME NEW n \in Nat, NEW m \in Nat, NEW f, NEW g, EuclidOn(n, f), EuclidOn(m, g),
           NEW a \in Nat, NEW b \in Nat, b <= n, b <= m
    PROVE  f[b][a] = g[b][a]
<1> DEFINE T == {c \in Nat : c <= n /\ c <= m /\ \E d \in Nat : f[c][d] # g[c][d]}
<1> SUFFICES ASSUME T # {} PROVE FALSE
  OBVIOUS
<1>1. PICK c \in T : \A k \in T : c <= k
  BY LeastOf
<1>2. PICK d \in Nat : f[c][d] # g[c][d]
  BY <1>1
<1>3. c \in Nat /\ c <= n /\ c <= m
  BY <1>1
<1>4. c # 0
  BY <1>2, <1>3 DEF EuclidOn
<1>5. f[c][d] = f[d % c][c] /\ g[c][d] = g[d % c][c]
  BY <1>2, <1>3, <1>4 DEF EuclidOn
<1>6. d % c \in 0 .. c - 1
  BY <1>3, <1>4, Division
<1>7. d % c \in T
  BY <1>2, <1>3, <1>5, <1>6
<1> QED
  BY <1>1, <1>3, <1>6, <1>7

LEMMA GcdStep ==
    \A a, b \in Nat : gcd[b][a] = IF b = 0 THEN a ELSE gcd[a % b][b]
<1> DEFINE Below(n) == CHOOSE f : EuclidOn(n, f)
           F == [b \in Nat |-> [a \in Nat |-> Below(b)[b][a]]]
<1>1. \A n \in Nat : EuclidOn(n, Below(n))
  BY EuclidBelow
<1>2. \A a \in Nat, b \in Nat : F[b][a] = IF b = 0 THEN a ELSE F[a % b][b]
  <2> SUFFICES ASSUME NEW a \in Nat, NEW b \in Nat
               PROVE  F[b][a] = IF b = 0 THEN a ELSE F[a % b][b]
    OBVIOUS
  <2>1. F[b][a] = Below(b)[b][a]
    OBVIOUS
  <2> HIDE DEF Below
  <2>2. CASE b = 0
    BY <1>1, <2>1, <2>2 DEF EuclidOn
  <2>3. CASE b # 0
    <3>1. a % b \in 0 .. b - 1
      BY <2>3, Division
    <3>2. Below(b)[b][a] = Below(b)[a % b][b]
      <4>1. EuclidOn(b, Below(b)) /\ b \in 0 .. b
        BY <1>1
      <4> QED
        BY <2>3, <4>1 DEF EuclidOn
    <3>3. Below(b)[a % b][b] = Below(a % b)[a % b][b]
      BY <1>1, <3>1, EuclidIsOne
    <3> QED
      BY <2>1, <2>3, <3>1, <3>2, <3>3
  <2> QED
    BY <2>2, <2>3
<1> HIDE DEF F
<1>3. F = [b \in Nat |-> [a \in Nat |-> IF b = 0 THEN a ELSE F[a % b][b]]]
  <2>1. F = [b \in Nat |-> [a \in Nat |-> F[b][a]]]
    BY DEF F
  <2>2. \A b \in Nat : [a \in Nat |-> F[b][a]] =
                          [a \in Nat |-> IF b = 0 THEN a ELSE F[a % b][b]]
    BY <1>2
  <2> QED
    BY <2>1, <2>2
<1>4. gcd = [b \in Nat |-> [a \in Nat |-> IF b = 0 THEN a ELSE gcd[a % b][b]]]
  BY <1>3 DEF gcd
<1> QED
  BY <1>4

Common(g, a, b) == \E p, q \in Nat : a = g * p /\ b = g * q

LEMMA GcdDivides ==
    \A b \in Nat : \A a \in Nat :
        /\ gcd[b][a] \in Nat /\ Common(gcd[b][a], a, b)
        /\ a # 0 \/ b # 0 => gcd[b][a] # 0
<1> DEFINE Good(b, a) == /\ gcd[b][a] \in Nat /\ Common(gcd[b][a], a, b)
                         /\ a # 0 \/ b # 0 => gcd[b][a] # 0
           T == {b \in Nat : \E a \in Nat : ~ Good(b, a)}
<1> SUFFICES ASSUME T # {} PROVE FALSE
  OBVIOUS
<1>1. PICK b \in T : \A k \in T : b <= k
  BY LeastOf
<1>2. PICK a \in Nat : ~ Good(b, a)
  BY <1>1
<1>3. b \in Nat
  BY <1>1
<1>4. b # 0
  <2> SUFFICES ASSUME b = 0 PROVE FALSE
    OBVIOUS
  <2>1. gcd[b][a] = a
    BY <1>3, GcdStep
  <2>2. a = a * 1 /\ b = a * 0
    OBVIOUS
  <2>3. Common(a, a, b)
    BY <2>2 DEF Common
  <2> QED
    BY <1>2, <2>1, <2>3
<1>5. gcd[b][a] = gcd[a % b][b] /\ a % b \in 0 .. b - 1
  BY <1>3, <1>4, GcdStep, Division
<1>6. Good(a % b, b)
  BY <1>1, <1>3, <1>5
<1>7. PICK g \in Nat : g = gcd[b][a] /\ g # 0
  BY <1>3, <1>4, <1>5, <1>6
<1>8. PICK p, q \in Nat : b = g * p /\ a % b = g * q
  BY <1>5, <1>6, <1>7 DEF Common
<1>9. PICK k \in Nat : a = (b * k) + (a % b)
  BY <1>3, <1>4, Division
<1>10. a = g * (p * k + q)
  BY <1>8, <1>9
<1>11. Common(g, a, b)
  <2>1. p * k + q \in Nat
    BY <1>8, <1>9
  <2> QED
    BY <1>8, <1>10, <2>1 DEF Common
<1> QED
  BY <1>2, <1>7, <1>11

LEMMA GcdScales ==
    \A b \in Nat : \A a \in Nat, k \in Nat \ {0} : gcd[k * b][k * a] = k * gcd[b][a]
<1> DEFINE T == {b \in Nat : \E a \in Nat, k \in Nat \ {0} : gcd[k * b][k * a] # k * gcd[b][a]}
<1> SUFFICES ASSUME T # {} PROVE FALSE
  OBVIOUS
<1>1. PICK b \in T : \A m \in T : b <= m
  BY LeastOf
<1>2. PICK a \in Nat, k \in Nat \ {0} : gcd[k * b][k * a] # k * gcd[b][a]
  BY <1>1
<1>3. b \in Nat /\ k * a \in Nat /\ k * b \in Nat
  BY <1>1
<1>4. b # 0
  <2> SUFFICES ASSUME b = 0 PROVE FALSE
    OBVIOUS
  <2>1. gcd[0][a] = a /\ gcd[0][k * a] = k * a
    BY <1>3, GcdStep
  <2>2. k * b = 0
    OBVIOUS
  <2> QED
    BY <1>2, <2>1, <2>2
<1>5. k * b # 0
  BY <1>3, <1>4
<1>6. gcd[b][a] = gcd[a % b][b] /\ gcd[k * b][k * a] = gcd[(k * a) % (k * b)][k * b]
  BY <1>3, <1>4, <1>5, GcdStep
<1>7. PICK q, r \in Nat : r = a % b /\ r \in 0 .. b - 1 /\ a = (b * q) + r
  <2>1. /\ a \div b \in Nat /\ a % b \in 0 .. b - 1
        /\ a = (b * (a \div b)) + (a % b)
    BY <1>3, <1>4, Division
  <2>2. PICK q, r : q = a \div b /\ r = a % b
    OBVIOUS
  <2>3. q \in Nat /\ r \in Nat /\ r = a % b /\ r \in 0 .. b - 1 /\ a = (b * q) + r
    BY <1>3, <1>4, <2>1, <2>2
  <2> QED
    BY <2>3
<1>8. (k * a) % (k * b) = k * r
  <2>1. k * a = ((k * b) * q) + (k * r)
    BY <1>3, <1>7
  <2>2. k * r \in 0 .. (k * b) - 1
    BY <1>3, <1>7
  <2>3. k * b \in Nat \ {0} /\ q \in Int
    BY <1>3, <1>5, <1>7
  <2>4. (((k * b) * q) + (k * r)) % (k * b) = k * r
    BY <2>2, <2>3, DivisionIs
  <2> QED
    BY <2>1, <2>4
<1>9. gcd[k * r][k * b] = k * gcd[r][b]
  <2>1. r \in Nat /\ r < b
    BY <1>3, <1>7
  <2>2. r \notin T
    BY <1>1, <1>3, <2>1
  <2> QED
    BY <1>3, <2>1, <2>2
<1> QED
  BY <1>2, <1>6, <1>7, <1>8, <1>9

-----------------------------------------------------------------------------
(***************************************************************************)
(* Exact fractions: on whole numbers, and on the fractions they make, the  *)
(* operations on cells are the arithmetic of fractions.                    *)
(***************************************************************************)
\* Of a fraction: the factor it is reduced by, and what is left.
Reduced(n, d, g, p, q) ==
    /\ g \in Nat \ {0} /\ p \in Int /\ q \in Nat \ {0}
    /\ n = g * p /\ d = g * q /\ g = gcd[d][Magnitude(n)]
    /\ Rational(n, d) = <<p, q>>

LEMMA Reduction ==
    ASSUME NEW n \in Int, NEW d \in Nat \ {0}
    PROVE  \E g, p, q : Reduced(n, d, g, p, q)
<1>1. PICK m \in Nat : m = Magnitude(n)
  BY DEF Magnitude
<1>2. PICK g \in Nat \ {0} : g = gcd[d][m]
  BY GcdDivides
<1>3. PICK u, q \in Nat : m = g * u /\ d = g * q
  BY <1>2, GcdDivides DEF Common
<1>4. q # 0
  BY <1>3
<1>5. PICK p \in Int : n = g * p
  <2>1. n = m \/ n = - m
    BY <1>1 DEF Magnitude
  <2>2. n = g * u \/ n = g * (- u)
    BY <1>3, <2>1
  <2> QED
    BY <2>2
<1>6. n \div g = p /\ d \div g = q
  <2>1. g \in Nat \ {0} /\ p \in Int /\ q \in Int
    BY <1>2, <1>3, <1>5
  <2>2. (g * p) \div g = p /\ (g * q) \div g = q
    BY <2>1, ExactDivision
  <2> QED
    BY <1>3, <1>5, <2>2
<1>7. Rational(n, d) = <<p, q>>
  <2>1. gcd[Magnitude(d)][Magnitude(n)] = g
    BY <1>1, <1>2 DEF Magnitude
  <2>2. Rational(n, d) = <<1 * (n \div g), 1 * (d \div g)>>
    BY <2>1 DEF Rational
  <2> QED
    BY <1>3, <1>5, <1>6, <2>2
<1>8. g = gcd[d][Magnitude(n)]
  BY <1>1, <1>2
<1>9. Reduced(n, d, g, p, q)
  BY <1>2, <1>3, <1>4, <1>5, <1>7, <1>8 DEF Reduced
<1> QED
  BY <1>9

LEMMA Scaling ==
    ASSUME NEW n \in Int, NEW d \in Nat \ {0}, NEW k \in Nat \ {0}
    PROVE  Rational(k * n, k * d) = Rational(n, d)
<1>1. PICK g, p, q : Reduced(n, d, g, p, q)
  BY Reduction
<1>2. k * n \in Int /\ k * d \in Nat \ {0}
  OBVIOUS
<1>3. PICK h, u, v : Reduced(k * n, k * d, h, u, v)
  BY <1>2, Reduction
<1>4. Magnitude(k * n) = k * Magnitude(n) /\ Magnitude(n) \in Nat
  BY DEF Magnitude
<1>5. h = k * g
  <2>1. h = gcd[k * d][k * Magnitude(n)] /\ g = gcd[d][Magnitude(n)]
    BY <1>1, <1>3, <1>4 DEF Reduced
  <2> QED
    BY <1>4, <2>1, GcdScales
<1>6. /\ g \in Nat \ {0} /\ p \in Int /\ q \in Int /\ u \in Int /\ v \in Int
      /\ n = g * p /\ d = g * q /\ k * n = h * u /\ k * d = h * v
  BY <1>1, <1>3 DEF Reduced
<1>7. h \in Nat \ {0} /\ h * u = h * p /\ h * v = h * q
  BY <1>5, <1>6
<1>8. u = p /\ v = q
  <2>1. (h * u) \div h = u /\ (h * p) \div h = p /\ (h * v) \div h = v /\ (h * q) \div h = q
    BY <1>6, <1>7, ExactDivision
  <2> QED
    BY <1>7, <2>1
<1> QED
  BY <1>1, <1>3, <1>8 DEF Reduced

LEMMA Rescaled ==
    ASSUME NEW n, NEW d, NEW m \in Int, NEW e \in Nat \ {0}, NEW k \in Nat \ {0},
           n = k * m, d = k * e
    PROVE  Rational(n, d) = Rational(m, e)
  BY Scaling

LEMMA WholeNumber ==
    ASSUME NEW n \in Int
    PROVE  Rational(n, 1) = Cell(n)
<1>1. PICK g, p, q : Reduced(n, 1, g, p, q)
  BY Reduction
<1>2. g \in Nat \ {0} /\ q \in Nat \ {0} /\ p \in Int /\ n = g * p /\ 1 = g * q
  BY <1>1 DEF Reduced
<1>3. g = 1 /\ q = 1
  BY <1>2
<1> QED
  BY <1>1, <1>2, <1>3 DEF Reduced, Cell

LEMMA NotMissing ==
    ASSUME NEW n \in Int, NEW d \in Nat \ {0}
    PROVE  Rational(n, d) # NaN
<1>1. PICK g, p, q : Reduced(n, d, g, p, q)
  BY Reduction
<1>2. Rational(n, d) = <<p, q>>
  BY <1>1 DEF Reduced
<1> QED
  BY <1>2, PairIsThere

LEMMA SameFraction ==
    ASSUME NEW n \in Int, NEW d \in Nat \ {0}, NEW m \in Int, NEW e \in Nat \ {0},
           n * e = m * d
    PROVE  Rational(n, d) = Rational(m, e)
<1>1. Rational(e * n, e * d) = Rational(n, d)
  BY Scaling
<1>2. Rational(d * m, d * e) = Rational(m, e)
  BY Scaling
<1>3. e * n = d * m /\ e * d = d * e
  OBVIOUS
<1> QED
  BY <1>1, <1>2, <1>3

LEMMA SumOf ==
    ASSUME NEW n \in Int, NEW d \in Nat \ {0}, NEW m \in Int, NEW e \in Nat \ {0}
    PROVE  Plus(Rational(n, d), Rational(m, e)) = Rational(n * e + m * d, d * e)
<1>1. PICK g, p, q : Reduced(n, d, g, p, q)
  BY Reduction
<1>2. PICK h, u, v : Reduced(m, e, h, u, v)
  BY Reduction
<1>3. Plus(Rational(n, d), Rational(m, e)) = Rational(p * v + u * q, q * v)
  <2>1. Rational(n, d) = <<p, q>> /\ Rational(m, e) = <<u, v>>
    BY <1>1, <1>2 DEF Reduced
  <2>2. ~ Missing(<<p, q>>, <<u, v>>)
    BY PairIsThere DEF Missing
  <2> QED
    BY <2>1, <2>2 DEF Plus
<1>4. /\ g \in Nat \ {0} /\ p \in Int /\ q \in Nat \ {0} /\ n = g * p /\ d = g * q
      /\ h \in Nat \ {0} /\ u \in Int /\ v \in Nat \ {0} /\ m = h * u /\ e = h * v
  BY <1>1, <1>2 DEF Reduced
<1>5. g * h \in Nat \ {0} /\ p * v + u * q \in Int /\ q * v \in Nat \ {0}
  BY <1>4
<1>6. n * e + m * d = (g * h) * (p * v + u * q) /\ d * e = (g * h) * (q * v)
  BY <1>4
<1> QED
  BY <1>3, <1>5, <1>6, Rescaled

LEMMA ProductOf ==
    ASSUME NEW n \in Int, NEW d \in Nat \ {0}, NEW m \in Int, NEW e \in Nat \ {0}
    PROVE  Times(Rational(n, d), Rational(m, e)) = Rational(n * m, d * e)
<1>1. PICK g, p, q : Reduced(n, d, g, p, q)
  BY Reduction
<1>2. PICK h, u, v : Reduced(m, e, h, u, v)
  BY Reduction
<1>3. Times(Rational(n, d), Rational(m, e)) = Rational(p * u, q * v)
  <2>1. Rational(n, d) = <<p, q>> /\ Rational(m, e) = <<u, v>>
    BY <1>1, <1>2 DEF Reduced
  <2>2. ~ Missing(<<p, q>>, <<u, v>>)
    BY PairIsThere DEF Missing
  <2> QED
    BY <2>1, <2>2 DEF Times
<1>4. /\ g \in Nat \ {0} /\ p \in Int /\ q \in Nat \ {0} /\ n = g * p /\ d = g * q
      /\ h \in Nat \ {0} /\ u \in Int /\ v \in Nat \ {0} /\ m = h * u /\ e = h * v
  BY <1>1, <1>2 DEF Reduced
<1>5. g * h \in Nat \ {0} /\ p * u \in Int /\ q * v \in Nat \ {0}
  BY <1>4
<1>6. n * m = (g * h) * (p * u) /\ d * e = (g * h) * (q * v)
  BY <1>4
<1> QED
  BY <1>3, <1>5, <1>6, Rescaled

LEMMA QuotientOf ==
    ASSUME NEW n \in Int, NEW d \in Nat \ {0}, NEW m \in Nat \ {0}, NEW e \in Nat \ {0}
    PROVE  Over(Rational(n, d), Rational(m, e)) = Rational(n * e, d * m)
<1>1. PICK g, p, q : Reduced(n, d, g, p, q)
  BY Reduction
<1>2. PICK h, u, v : Reduced(m, e, h, u, v)
  BY Reduction
<1>3. Over(Rational(n, d), Rational(m, e)) = Rational(p * v, q * u)
  <2>1. Rational(n, d) = <<p, q>> /\ Rational(m, e) = <<u, v>>
    BY <1>1, <1>2 DEF Reduced
  <2>2. ~ Missing(<<p, q>>, <<u, v>>)
    BY PairIsThere DEF Missing
  <2> QED
    BY <2>1, <2>2 DEF Over
<1>4. /\ g \in Nat \ {0} /\ p \in Int /\ q \in Nat \ {0} /\ n = g * p /\ d = g * q
      /\ h \in Nat \ {0} /\ u \in Int /\ v \in Nat \ {0} /\ m = h * u /\ e = h * v
  BY <1>1, <1>2 DEF Reduced
<1>5. u \in Nat \ {0}
  BY <1>4
<1>6. g * h \in Nat \ {0} /\ p * v \in Int /\ q * u \in Nat \ {0}
  BY <1>4, <1>5
<1>7. n * e = (g * h) * (p * v) /\ d * m = (g * h) * (q * u)
  BY <1>4
<1> QED
  BY <1>3, <1>6, <1>7, Rescaled

LEMMA DifferenceOf ==
    ASSUME NEW n \in Int, NEW d \in Nat \ {0}, NEW m \in Int, NEW e \in Nat \ {0}
    PROVE  Minus(Rational(n, d), Rational(m, e)) = Rational(n * e - m * d, d * e)
<1>1. Times(Cell(-1), Rational(m, e)) = Rational((-1) * m, 1 * e)
  <2>1. Cell(-1) = Rational(-1, 1)
    BY WholeNumber
  <2> QED
    BY <2>1, ProductOf
<1>2. (-1) * m = - m /\ 1 * e = e /\ - m \in Int
  OBVIOUS
<1>3. PICK w \in Int : w = - m
  OBVIOUS
<1>4. Plus(Rational(n, d), Rational(w, e)) = Rational(n * e + w * d, d * e)
  BY SumOf
<1>5. n * e + w * d = n * e - m * d
  BY <1>3
<1> QED
  BY <1>1, <1>2, <1>3, <1>4, <1>5 DEF Minus

LEMMA Comparison ==
    ASSUME NEW n \in Int, NEW d \in Nat \ {0}, NEW m \in Int, NEW e \in Nat \ {0}
    PROVE  /\ Less(Rational(n, d), Rational(m, e)) <=> n * e < m * d
           /\ AtMost(Rational(n, d), Rational(m, e)) <=> n * e <= m * d
<1>1. PICK g, p, q : Reduced(n, d, g, p, q)
  BY Reduction
<1>2. PICK h, u, v : Reduced(m, e, h, u, v)
  BY Reduction
<1>3. /\ Less(Rational(n, d), Rational(m, e)) <=> p * v < u * q
      /\ AtMost(Rational(n, d), Rational(m, e)) <=> p * v <= u * q
  <2>1. Rational(n, d) = <<p, q>> /\ Rational(m, e) = <<u, v>>
    BY <1>1, <1>2 DEF Reduced
  <2>2. ~ Missing(<<p, q>>, <<u, v>>)
    BY PairIsThere DEF Missing
  <2>3. /\ Less(<<p, q>>, <<u, v>>) <=> p * v < u * q
        /\ AtMost(<<p, q>>, <<u, v>>) <=> p * v <= u * q
    BY <2>2 DEF Less, AtMost
  <2> QED
    BY <2>1, <2>3
<1>4. /\ g \in Nat \ {0} /\ p \in Int /\ q \in Nat \ {0} /\ n = g * p /\ d = g * q
      /\ h \in Nat \ {0} /\ u \in Int /\ v \in Nat \ {0} /\ m = h * u /\ e = h * v
  BY <1>1, <1>2 DEF Reduced
<1>5. n * e = (g * h) * (p * v) /\ m * d = (g * h) * (u * q)
  BY <1>4
<1>6. PICK k, x, y : k = g * h /\ x = p * v /\ y = u * q
  OBVIOUS
<1>7. k \in Nat \ {0} /\ x \in Int /\ y \in Int
  BY <1>4, <1>6
<1>8. (k * x < k * y <=> x < y) /\ (k * x <= k * y <=> x <= y)
  BY <1>7
<1> QED
  BY <1>3, <1>5, <1>6, <1>8

-----------------------------------------------------------------------------
(***************************************************************************)
(* Rounding to hundredths                                                  *)
(***************************************************************************)
LEMMA NearestInteger ==
    ASSUME NEW n \in Int, NEW d \in Nat \ {0}
    PROVE  /\ HalfEven(n, d) \in Int
           /\ 2 * (d * HalfEven(n, d) - n) <= d /\ 2 * (n - d * HalfEven(n, d)) <= d
<1>1. PICK q \in Int, r \in 0 .. d - 1 : n \div d = q /\ n % d = r /\ n = d * q + r
  OBVIOUS
<1>2. CASE HalfEven(n, d) = q
  <2>1. 2 * r <= d
    BY <1>1, <1>2 DEF HalfEven
  <2>2. d * HalfEven(n, d) = d * q
    BY <1>2
  <2>3. d * q \in Int
    BY <1>1
  <2> QED
    BY <1>1, <1>2, <2>1, <2>2, <2>3
<1>3. CASE HalfEven(n, d) = q + 1
  <2>1. 2 * r >= d
    BY <1>1, <1>3 DEF HalfEven
  <2>2. d * HalfEven(n, d) = d * q + d
    BY <1>1, <1>3
  <2>3. d * q \in Int
    BY <1>1
  <2> QED
    BY <1>1, <1>3, <2>1, <2>2, <2>3
<1> QED
  BY <1>1, <1>2, <1>3 DEF HalfEven

\* What rounding makes of a number: hundredths, at most half of one away.
Hundredths(n, d, k) ==
    /\ k \in Int /\ Rounded(Rational(n, d)) = Rational(k, 100)
    /\ 2 * (d * k - 100 * n) <= d /\ 2 * (100 * n - d * k) <= d

LEMMA RoundedIs ==
    ASSUME NEW n \in Int, NEW d \in Nat \ {0}
    PROVE  \E k : Hundredths(n, d, k)
<1>1. PICK g, p, q : Reduced(n, d, g, p, q)
  BY Reduction
<1>2. /\ g \in Nat \ {0} /\ p \in Int /\ q \in Nat \ {0} /\ n = g * p /\ d = g * q
      /\ Rational(n, d) = <<p, q>>
  BY <1>1 DEF Reduced
<1>3. PICK k : k = HalfEven(100 * p, q)
  OBVIOUS
<1>4. k \in Int /\ 2 * (q * k - 100 * p) <= q /\ 2 * (100 * p - q * k) <= q
  <2>1. 100 * p \in Int
    BY <1>2
  <2> QED
    BY <1>2, <1>3, <2>1, NearestInteger
<1>5. Rounded(Rational(n, d)) = Rational(k, 100)
  <2>1. <<p, q>> # NaN /\ <<p, q>>[2] # 0 /\ <<p, q>>[1] = p /\ <<p, q>>[2] = q
    BY <1>2, PairIsThere
  <2> QED
    BY <1>2, <1>3, <2>1 DEF Rounded
<1>6. PICK e \in Int, f \in Int : e = 2 * (q * k - 100 * p) /\ f = 2 * (100 * p - q * k)
  BY <1>2, <1>4
<1>7. g * e <= g * q /\ g * f <= g * q
  BY <1>2, <1>4, <1>6
<1>8. g * e = 2 * (d * k - 100 * n) /\ g * f = 2 * (100 * n - d * k)
  BY <1>2, <1>4, <1>6
<1>9. Hundredths(n, d, k)
  BY <1>2, <1>4, <1>5, <1>7, <1>8 DEF Hundredths
<1> QED
  BY <1>9

-----------------------------------------------------------------------------
(***************************************************************************)
(* The parts of a candle                                                   *)
(***************************************************************************)
\* A row of prices.
BarOf(b) ==
    /\ b.open \in Nat /\ b.high \in Nat /\ b.low \in Nat /\ b.close \in Nat
    /\ b.low <= b.open /\ b.open <= b.high /\ b.low <= b.close /\ b.close <= b.high

LEMMA CellIs ==
    ASSUME NEW n \in Int
    PROVE  Cell(n) = Rational(n, 1) /\ Cell(n) # NaN
  BY WholeNumber, NotMissing

LEMMA PercentOf ==
    ASSUME NEW n \in Int, NEW r \in Nat \ {0}
    PROVE  Percent(Cell(n), Cell(r)) = Rational(100 * n, r)
<1>1. Over(Cell(n), Cell(r)) = Rational(n * 1, 1 * r)
  BY CellIs, QuotientOf
<1>2. Over(Cell(n), Cell(r)) = Rational(n, r)
  BY <1>1
<1>3. Fill(Over(Cell(n), Cell(r)), Cell(0)) = Rational(n, r)
  BY <1>2, NotMissing DEF Fill
<1>4. Times(Rational(n, r), Rational(100, 1)) = Rational(n * 100, r * 1)
  BY ProductOf
<1>5. n * 100 = 100 * n /\ r * 1 = r
  OBVIOUS
<1> QED
  BY <1>3, <1>4, <1>5, CellIs DEF Percent

LEMMA PercentOfNothing ==
    ASSUME NEW n \in Int
    PROVE  Percent(Cell(n), NaN) = Rational(0, 1)
<1>1. Fill(Over(Cell(n), NaN), Cell(0)) = Rational(0, 1)
  BY CellIs DEF Fill, Over, Missing
<1>2. Times(Rational(0, 1), Rational(100, 1)) = Rational(0 * 100, 1 * 1)
  BY ProductOf
<1> QED
  BY <1>1, <1>2, CellIs DEF Percent

\* The body and the shadows of a candle.
Body(b) == IF b.close < b.open THEN b.open - b.close ELSE b.close - b.open
Below(b) == (IF b.close < b.open THEN b.close ELSE b.open) - b.low
Above(b) == b.high - (IF b.close < b.open THEN b.open ELSE b.close)
Height(b) == b.high - b.low

LEMMA CandleParts ==
    ASSUME NEW b, BarOf(b)
    PROVE  /\ Body(b) \in Nat /\ Below(b) \in Nat /\ Above(b) \in Nat /\ Height(b) \in Nat
           /\ Height(b) = Body(b) + Below(b) + Above(b)
  BY DEF BarOf, Body, Below, Above, Height

LEMMA CandleOf ==
    ASSUME NEW b, BarOf(b)
    PROVE  LET p == CandleProps(b)
               safe == IF Height(b) = 0 THEN NaN ELSE Cell(Height(b))
           IN  /\ p.direction = IF b.close >= b.open THEN 1 ELSE -1
               /\ p.body_size = Cell(Body(b))
               /\ p.body_perc = Rounded(Percent(Cell(Body(b)), safe))
               /\ p.body_bottom_perc = Percent(Cell(Below(b)), safe)
               /\ p.body_top_perc = Minus(Cell(100), Percent(Cell(Above(b)), safe))
  BY DEF CandleProps, BarOf, Body, Below, Above, Height

LEMMA TallCandle ==
    ASSUME NEW b, BarOf(b), Height(b) # 0, NEW p, p = CandleProps(b)
    PROVE  /\ p.body_perc = Rounded(Rational(100 * Body(b), Height(b)))
           /\ p.body_bottom_perc = Rational(100 * Below(b), Height(b))
           /\ p.body_top_perc = Rational(100 * (Body(b) + Below(b)), Height(b))
<1>1. /\ p.body_perc = Rounded(Percent(Cell(Body(b)), Cell(Height(b))))
      /\ p.body_bottom_perc = Percent(Cell(Below(b)), Cell(Height(b)))
      /\ p.body_top_perc = Minus(Cell(100), Percent(Cell(Above(b)), Cell(Height(b))))
  BY CandleOf
<1>2. PICK r, x, y, z : r = Height(b) /\ x = Body(b) /\ y = Below(b) /\ z = Above(b)
  OBVIOUS
<1>3. r \in Nat \ {0} /\ x \in Nat /\ y \in Nat /\ z \in Nat /\ r = x + y + z
  BY <1>2, CandleParts
<1>4. /\ p.body_perc = Rounded(Rational(100 * x, r))
      /\ p.body_bottom_perc = Rational(100 * y, r)
      /\ p.body_top_perc = Minus(Cell(100), Rational(100 * z, r))
  <2>1. x \in Int /\ y \in Int /\ z \in Int /\ r \in Nat \ {0}
    BY <1>3
  <2>2. /\ Percent(Cell(x), Cell(r)) = Rational(100 * x, r)
        /\ Percent(Cell(y), Cell(r)) = Rational(100 * y, r)
        /\ Percent(Cell(z), Cell(r)) = Rational(100 * z, r)
    BY <2>1, PercentOf
  <2> QED
    BY <1>1, <1>2, <2>2
<1>5. Minus(Rational(100, 1), Rational(100 * z, r)) = Rational(100 * r - (100 * z) * 1, 1 * r)
  BY <1>3, DifferenceOf
<1>6. 100 * r - (100 * z) * 1 = 100 * (x + y) /\ 1 * r = r
  BY <1>3
<1> QED
  BY <1>2, <1>4, <1>5, <1>6, CellIs

LEMMA FlatCandle ==
    ASSUME NEW b, BarOf(b), Height(b) = 0, NEW p, p = CandleProps(b)
    PROVE  /\ p.body_perc = Rational(0, 1)
           /\ p.body_bottom_perc = Rational(0, 1)
           /\ p.body_top_perc = Rational(100, 1)
<1>1. /\ p.body_perc = Rounded(Percent(Cell(Body(b)), NaN))
      /\ p.body_bottom_perc = Percent(Cell(Below(b)), NaN)
      /\ p.body_top_perc = Minus(Cell(100), Percent(Cell(Above(b)), NaN))
  BY CandleOf
<1>2. Body(b) \in Int /\ Below(b) \in Int /\ Above(b) \in Int
  BY CandleParts
<1>3. Minus(Rational(100, 1), Rational(0, 1)) = Rational(100 * 1 - 0 * 1, 1 * 1)
  BY DifferenceOf
<1>4. Rounded(Rational(0, 1)) = Rational(0, 1)
  <2>1. PICK k : Hundredths(0, 1, k)
    BY RoundedIs
  <2>2. k = 0
    BY <2>1 DEF Hundredths
  <2>3. Rational(0, 100) = Rational(0, 1)
    BY SameFraction
  <2> QED
    BY <2>1, <2>2, <2>3 DEF Hundredths
<1> QED
  BY <1>1, <1>2, <1>3, <1>4, PercentOfNothing, CellIs

Sound(b) ==
    LET p == CandleProps(b)
        length == Minus(p.body_top_perc, p.body_bottom_perc)
        exact == [p EXCEPT !.body_perc = length]
        flat == b.high = b.low
    IN  /\ AtMost(Cell(0), p.body_bottom_perc)
        /\ AtMost(p.body_bottom_perc, p.body_top_perc)
        /\ AtMost(p.body_top_perc, Cell(100))
        /\ ~ flat => AtMost(Distance(length, p.body_perc), Rational(1, 200))
        /\ apply_marubozu(p) => ~ flat /\ apply_marubozu(exact)
        /\ apply_hanging_man(p) => ~ flat /\ apply_hanging_man(exact)
        /\ apply_shooting_star(p) => ~ flat /\ apply_shooting_star(exact)
        /\ apply_spinning_top(p) => ~ flat /\ apply_spinning_top(exact)
        /\ ~ (apply_hanging_man(p) /\ apply_shooting_star(p))
        /\ ~ (apply_spinning_top(p) /\ (apply_hanging_man(p) \/ apply_shooting_star(p)))

\* A rounded number is close, and on the far side of a whole limit only if the
\* number is.
LEMMA RoundedIsClose ==
    ASSUME NEW n \in Int, NEW d \in Nat \ {0}, NEW x, NEW y,
           x = Rational(n, d), y = Rounded(x)
    PROVE  /\ AtMost(Distance(x, y), Rational(1, 200))
           /\ Less(Cell(98), y) => Less(Cell(98), x)
           /\ Less(y, Cell(15)) => Less(x, Cell(15))
<1>1. PICK k : Hundredths(n, d, k)
  BY RoundedIs
<1>2. /\ k \in Int /\ y = Rational(k, 100)
      /\ 2 * (d * k - 100 * n) <= d /\ 2 * (100 * n - d * k) <= d
  BY <1>1 DEF Hundredths
<1>3. PICK m \in Int, e \in Nat \ {0} : m = d * k /\ e = d * 100
  BY <1>2
<1>4. PICK u \in Int, v \in Int : u = n * 100 - k * d /\ v = k * d - n * 100
  <2>1. n * 100 - k * d \in Int /\ k * d - n * 100 \in Int
    BY <1>2
  <2> QED
    BY <2>1
<1>5. u * 200 <= 1 * e /\ v * 200 <= 1 * e
  BY <1>2, <1>3, <1>4
<1>6. AtMost(Distance(x, y), Rational(1, 200))
  <2>1. Minus(x, y) = Rational(u, e)
    BY <1>2, <1>3, <1>4, DifferenceOf
  <2>2. Minus(y, x) = Rational(v, e)
    <3>1. Minus(y, x) = Rational(v, 100 * d)
      BY <1>2, <1>4, DifferenceOf
    <3> QED
      BY <1>3, <3>1
  <2>3. AtMost(Rational(u, e), Rational(1, 200)) /\ AtMost(Rational(v, e), Rational(1, 200))
    BY <1>5, Comparison
  <2> QED
    BY <2>1, <2>2, <2>3 DEF Distance, Greatest
<1>7. ASSUME Less(Cell(98), y) PROVE Less(Cell(98), x)
  <2>1. 98 * 100 < k * 1
    BY <1>2, <1>7, CellIs, Comparison
  <2>2. 9801 <= k
    BY <1>2, <2>1
  <2>3. d * 9801 <= d * k
    BY <1>2, <2>2
  <2>4. 98 * d < n * 1
    BY <1>2, <1>3, <2>3
  <2> QED
    BY <2>4, CellIs, Comparison
<1>8. ASSUME Less(y, Cell(15)) PROVE Less(x, Cell(15))
  <2>1. k * 1 < 15 * 100
    BY <1>2, <1>8, CellIs, Comparison
  <2>2. k <= 1499
    BY <1>2, <2>1
  <2>3. d * k <= d * 1499
    BY <1>2, <2>2
  <2>4. n * 1 < 15 * d
    BY <1>2, <1>3, <2>3
  <2> QED
    BY <2>4, CellIs, Comparison
<1> QED
  BY <1>6, <1>7, <1>8

LEMMA CandleIsSound == ASSUME NEW b, BarOf(b) PROVE Sound(b)
<1>1. PICK p : p = CandleProps(b)
  OBVIOUS
<1>2. PICK r, x, y, z : r = Height(b) /\ x = Body(b) /\ y = Below(b) /\ z = Above(b)
  OBVIOUS
<1>3. r \in Nat /\ x \in Nat /\ y \in Nat /\ z \in Nat /\ r = x + y + z
  BY <1>2, CandleParts
<1>4. b.high = b.low <=> r = 0
  BY <1>2 DEF Height, BarOf
<1>5. /\ Cell(0) = Rational(0, 1) /\ Cell(100) = Rational(100, 1) /\ Cell(75) = Rational(75, 1)
      /\ Cell(25) = Rational(25, 1) /\ Cell(98) = Rational(98, 1) /\ Cell(40) = Rational(40, 1)
      /\ Cell(60) = Rational(60, 1)
  BY CellIs
<1>6. CASE r = 0
  <2>1. /\ p.body_perc = Rational(0, 1)
        /\ p.body_bottom_perc = Rational(0, 1)
        /\ p.body_top_perc = Rational(100, 1)
    BY <1>1, <1>2, <1>6, FlatCandle
  <2>2. /\ AtMost(Rational(0, 1), Rational(0, 1)) /\ AtMost(Rational(100, 1), Rational(100, 1))
        /\ AtMost(Rational(0, 1), Rational(100, 1))
    BY Comparison
  <2>3. /\ ~ Less(Rational(75, 1), Rational(0, 1)) /\ ~ Less(Rational(100, 1), Rational(25, 1))
        /\ ~ Less(Rational(40, 1), Rational(0, 1)) /\ ~ Less(Rational(98, 1), Rational(0, 1))
    BY Comparison
  <2>4. /\ ~ apply_marubozu(p) /\ ~ apply_hanging_man(p)
        /\ ~ apply_shooting_star(p) /\ ~ apply_spinning_top(p)
    BY <1>5, <2>1, <2>3
    DEF apply_hanging_man, apply_shooting_star, apply_spinning_top, apply_marubozu
  <2> QED
    BY <1>1, <1>4, <1>5, <1>6, <2>1, <2>2, <2>4 DEF Sound
<1>7. CASE r # 0
  <2>1. PICK u, v, w : u = 100 * x /\ v = 100 * y /\ w = 100 * (x + y)
    OBVIOUS
  <2>2. u \in Nat /\ v \in Nat /\ w \in Nat /\ w = u + v /\ w <= 100 * r /\ r \in Nat \ {0}
    BY <1>3, <1>7, <2>1
  <2>3. /\ p.body_perc = Rounded(Rational(u, r)) /\ p.body_bottom_perc = Rational(v, r)
        /\ p.body_top_perc = Rational(w, r)
    <3>1. /\ p.body_perc = Rounded(Rational(100 * x, r))
          /\ p.body_bottom_perc = Rational(100 * y, r)
          /\ p.body_top_perc = Rational(100 * (x + y), r)
      BY <1>1, <1>2, <1>7, TallCandle
    <3> QED
      BY <2>1, <3>1
  <2>4. /\ AtMost(Rational(0, 1), Rational(v, r)) /\ AtMost(Rational(v, r), Rational(w, r))
        /\ AtMost(Rational(w, r), Rational(100, 1))
    <3>1. AtMost(Rational(0, 1), Rational(v, r)) <=> 0 * r <= v * 1
      BY <2>2, Comparison
    <3>2. AtMost(Rational(w, r), Rational(100, 1)) <=> w * 1 <= 100 * r
      BY <2>2, Comparison
    <3>3. AtMost(Rational(v, r), Rational(w, r)) <=> v * r <= w * r
      BY <2>2, Comparison
    <3>4. w * r = v * r + u * r /\ u * r \in Nat /\ v * r \in Nat
      BY <2>2
    <3> QED
      BY <2>2, <3>1, <3>2, <3>3, <3>4
  <2>5. PICK length : length = Minus(p.body_top_perc, p.body_bottom_perc)
    OBVIOUS
  <2>6. length = Rational(u, r)
    <3>1. Minus(Rational(w, r), Rational(v, r)) = Rational(w * r - v * r, r * r)
      BY <2>2, DifferenceOf
    <3>2. w * r - v * r = r * u
      BY <2>2
    <3>3. Rational(r * u, r * r) = Rational(u, r)
      BY <2>2, Scaling
    <3> QED
      BY <2>3, <2>5, <3>1, <3>2, <3>3
  <2>7. /\ AtMost(Distance(length, p.body_perc), Rational(1, 200))
        /\ Less(Cell(98), p.body_perc) => Less(Cell(98), length)
        /\ Less(p.body_perc, Cell(15)) => Less(length, Cell(15))
    <3>1. u \in Int /\ r \in Nat \ {0}
      BY <2>2
    <3> QED
      BY <2>3, <2>6, <3>1, RoundedIsClose
  <2>8. PICK exact : exact = [p EXCEPT !.body_perc = length]
    OBVIOUS
  <2>9. /\ exact.body_perc = length
        /\ exact.body_bottom_perc = p.body_bottom_perc /\ exact.body_top_perc = p.body_top_perc
    BY <1>1, <2>8 DEF CandleProps
  <2>10. /\ apply_marubozu(p) => apply_marubozu(exact)
         /\ apply_hanging_man(p) => apply_hanging_man(exact)
         /\ apply_shooting_star(p) => apply_shooting_star(exact)
         /\ apply_spinning_top(p) => apply_spinning_top(exact)
    BY <2>7, <2>9
    DEF apply_hanging_man, apply_shooting_star, apply_spinning_top, apply_marubozu
  <2>11. /\ Less(Cell(75), p.body_bottom_perc) <=> 75 * r < v
         /\ Less(Cell(40), p.body_bottom_perc) <=> 40 * r < v
         /\ Less(p.body_top_perc, Cell(25)) <=> w < 25 * r
         /\ Less(p.body_top_perc, Cell(60)) <=> w < 60 * r
    <3>1. /\ Less(Rational(75, 1), Rational(v, r)) <=> 75 * r < v * 1
          /\ Less(Rational(40, 1), Rational(v, r)) <=> 40 * r < v * 1
      BY <2>2, Comparison
    <3>2. /\ Less(Rational(w, r), Rational(25, 1)) <=> w * 1 < 25 * r
          /\ Less(Rational(w, r), Rational(60, 1)) <=> w * 1 < 60 * r
      BY <2>2, Comparison
    <3> QED
      BY <1>5, <2>2, <2>3, <3>1, <3>2
  <2>12. /\ ~ (apply_hanging_man(p) /\ apply_shooting_star(p))
         /\ ~ (apply_spinning_top(p) /\ (apply_hanging_man(p) \/ apply_shooting_star(p)))
    BY <2>2, <2>11 DEF apply_hanging_man, apply_shooting_star, apply_spinning_top
  <2> QED
    BY <1>1, <1>4, <1>5, <1>7, <2>3, <2>4, <2>5, <2>7, <2>8, <2>10, <2>12 DEF Sound
<1> QED
  BY <1>6, <1>7

LEMMA WholeDifference ==
    ASSUME NEW a \in Int, NEW b \in Int
    PROVE  Minus(Cell(a), Cell(b)) = Cell(a - b)
<1>1. Minus(Rational(a, 1), Rational(b, 1)) = Rational(a * 1 - b * 1, 1 * 1)
  BY DifferenceOf
<1>2. a * 1 - b * 1 = a - b /\ 1 * 1 = 1 /\ a - b \in Int
  OBVIOUS
<1> QED
  BY <1>1, <1>2, CellIs

LEMMA WholeComparison ==
    ASSUME NEW a \in Int, NEW b \in Int
    PROVE  (Less(Cell(a), Cell(b)) <=> a < b) /\ (AtMost(Cell(a), Cell(b)) <=> a <= b)
<1>1. /\ Less(Rational(a, 1), Rational(b, 1)) <=> a * 1 < b * 1
      /\ AtMost(Rational(a, 1), Rational(b, 1)) <=> a * 1 <= b * 1
  BY Comparison
<1> QED
  BY <1>1, CellIs

LEMMA WholeDistance ==
    ASSUME NEW b, BarOf(b)
    PROVE  Distance(Cell(b.close), Cell(b.open)) = Cell(Body(b))
<1>1. PICK c \in Int, o \in Int : c = b.close /\ o = b.open
  BY DEF BarOf
<1>2. Distance(Cell(c), Cell(o)) = Greatest(Cell(c - o), Cell(o - c))
  BY WholeDifference DEF Distance
<1>3. Less(Cell(c - o), Cell(o - c)) <=> c < o
  <2>1. PICK x \in Int, y \in Int : x = c - o /\ y = o - c
    OBVIOUS
  <2>2. Less(Cell(x), Cell(y)) <=> x < y
    BY WholeComparison
  <2> QED
    BY <2>1, <2>2
<1> QED
  BY <1>1, <1>2, <1>3 DEF Greatest, Body

-----------------------------------------------------------------------------
(***************************************************************************)
(* What comes later does not change an earlier row                         *)
(***************************************************************************)
\* A column of k cells, and two columns that agree on their first m cells.
Col(c, k) == c = [t \in 1 .. k |-> c[t]]
Twin(c, d, k, l, m) == Col(c, k) /\ Col(d, l) /\ \A t \in 1 .. m : c[t] = d[t]

LEMMA ColumnLength ==
    ASSUME NEW k \in Nat, NEW c, Col(c, k)
    PROVE  Len(c) = k /\ DOMAIN c = 1 .. k
  BY DEF Col

LEMMA WindowOf ==
    ASSUME NEW k \in Nat, NEW c, Col(c, k), NEW a \in 1 .. k, NEW b \in 1 .. k
    PROVE  SubSeq(c, a, b) = [i \in 1 .. (b - a + 1) |-> c[a + i - 1]]
  BY DEF Col

SameWindow(c, d, a, t) == SubSeq(c, a, t) = SubSeq(d, a, t)

LEMMA WindowsOfTwins ==
    ASSUME NEW k \in Nat, NEW l \in Nat, NEW m \in Nat, m <= k, m <= l, NEW c, NEW d,
           Twin(c, d, k, l, m), NEW t \in 1 .. m, NEW a \in 1 .. t + 1
    PROVE  SameWindow(c, d, a, t)
<1> USE DEF SameWindow
<1>1. Len(c) = k /\ Len(d) = l /\ DOMAIN c = 1 .. k /\ DOMAIN d = 1 .. l
  BY ColumnLength DEF Twin
<1>2. CASE a = t + 1
  BY <1>1, <1>2 DEF Twin, Col
<1>3. CASE a # t + 1
  <2>1. /\ SubSeq(c, a, t) = [i \in 1 .. (t - a + 1) |-> c[a + i - 1]]
        /\ SubSeq(d, a, t) = [i \in 1 .. (t - a + 1) |-> d[a + i - 1]]
    BY <1>3, WindowOf DEF Twin
  <2>2. \A i \in 1 .. (t - a + 1) : a + i - 1 \in 1 .. m
    BY <1>3
  <2> QED
    BY <2>1, <2>2 DEF Twin
<1> QED
  BY <1>2, <1>3

LEMMA MeansOfTwins ==
    ASSUME NEW k \in Nat, NEW l \in Nat, NEW m \in Nat, m <= k, m <= l, NEW c, NEW d,
           Twin(c, d, k, l, m), NEW n \in Nat
    PROVE  Twin(RollingMean(c, n), RollingMean(d, n), k, l, m)
<1>1. DOMAIN c = 1 .. k /\ DOMAIN d = 1 .. l
  BY ColumnLength DEF Twin
<1>2. Col(RollingMean(c, n), k) /\ Col(RollingMean(d, n), l)
  BY <1>1 DEF Col, RollingMean
<1>3. ASSUME NEW t \in 1 .. m PROVE RollingMean(c, n)[t] = RollingMean(d, n)[t]
  <2>1. t \in DOMAIN c /\ t \in DOMAIN d
    BY <1>1
  <2>2. CASE t < n
    BY <2>1, <2>2 DEF RollingMean
  <2>3. CASE n <= t
    <3>1. SubSeq(c, t - n + 1, t) = SubSeq(d, t - n + 1, t)
      <4>1. PICK a \in 1 .. t + 1 : a = t - n + 1
        BY <2>3
      <4>2. SameWindow(c, d, a, t)
        BY WindowsOfTwins
      <4> QED
        BY <4>1, <4>2 DEF SameWindow
    <3>2. Over(Total(SubSeq(c, t - n + 1, t)), Cell(n)) = Over(Total(SubSeq(d, t - n + 1, t)), Cell(n))
      BY <3>1
    <3> QED
      BY <2>1, <2>3, <3>2 DEF RollingMean
  <2> QED
    BY <2>2, <2>3
<1> QED
  BY <1>2, <1>3 DEF Twin

LEMMA VariancesOfTwins ==
    ASSUME NEW k \in Nat, NEW l \in Nat, NEW m \in Nat, m <= k, m <= l, NEW c, NEW d,
           Twin(c, d, k, l, m), NEW n \in Nat
    PROVE  Twin(RollingVariance(c, n), RollingVariance(d, n), k, l, m)
<1>1. DOMAIN c = 1 .. k /\ DOMAIN d = 1 .. l
  BY ColumnLength DEF Twin
<1> DEFINE Squares(x, t) ==
              [i \in 1 .. n |-> Times(Minus(x[t - n + i], RollingMean(x, n)[t]),
                                      Minus(x[t - n + i], RollingMean(x, n)[t]))]
           Variance(x) == [t \in DOMAIN x |-> IF t < n THEN NaN ELSE Over(Total(Squares(x, t)), Cell(n - 1))]
<1>2. RollingVariance(c, n) = Variance(c) /\ RollingVariance(d, n) = Variance(d)
  BY DEF RollingVariance
<1>3. Col(Variance(c), k) /\ Col(Variance(d), l)
  BY <1>1 DEF Col
<1>4. ASSUME NEW t \in 1 .. m PROVE Variance(c)[t] = Variance(d)[t]
  <2>1. t \in DOMAIN c /\ t \in DOMAIN d
    BY <1>1
  <2>2. RollingMean(c, n)[t] = RollingMean(d, n)[t]
    BY MeansOfTwins DEF Twin
  <2>3. n <= t => \A i \in 1 .. n : c[t - n + i] = d[t - n + i]
    BY DEF Twin
  <2>4. n <= t => Squares(c, t) = Squares(d, t)
    BY <2>2, <2>3
  <2> HIDE DEF Squares
  <2> QED
    BY <2>1, <2>4
<1> QED
  BY <1>2, <1>3, <1>4 DEF Twin

LEMMA SeenByTwins ==
    ASSUME NEW k \in Nat, NEW l \in Nat, NEW m \in Nat, m <= k, m <= l, NEW c, NEW d,
           Twin(c, d, k, l, m), NEW t \in 1 .. m
    PROVE  Seen(c, t) = Seen(d, t)
<1>1. {i \in 1 .. t : c[i] # NaN} = {i \in 1 .. t : d[i] # NaN}
  BY DEF Twin
<1> QED
  BY <1>1 DEF Seen

\* The recursion over the cells of a column: there is such a function.
DecayedBy(decay, c, n, f) ==
    \A t \in 0 .. n : f[t] = IF t = 0 THEN Cell(0) ELSE Plus(Times(decay, f[t - 1]), c[t])

LEMMA DecayedStep ==
    ASSUME NEW k \in Nat, NEW c, Col(c, k), NEW decay
    PROVE  DecayedBy(decay, c, k, Decayed(decay, c))
<1> DEFINE T == {n \in Nat : \E f : DecayedBy(decay, c, n, f)}
<1>1. 0 \in T
  <2>1. DecayedBy(decay, c, 0, [t \in 0 .. 0 |-> Cell(0)])
    BY DEF DecayedBy
  <2> QED
    BY <2>1
<1>2. ASSUME NEW n \in Nat, n \in T PROVE n + 1 \in T
  <2>1. PICK f : DecayedBy(decay, c, n, f)
    BY <1>2
  <2> DEFINE g == [t \in 0 .. n + 1 |->
                      IF t = n + 1 THEN Plus(Times(decay, f[n]), c[n + 1]) ELSE f[t]]
  <2>2. DecayedBy(decay, c, n + 1, g)
    BY <2>1 DEF DecayedBy
  <2> QED
    BY <2>2
<1> HIDE DEF T
<1>3. k \in T
  BY <1>1, <1>2, AllNumbers
<1>4. PICK f : DecayedBy(decay, c, k, f)
  BY <1>3 DEF T
<1> DEFINE g == [t \in 0 .. k |-> f[t]]
<1>5. g = [t \in 0 .. k |-> IF t = 0 THEN Cell(0) ELSE Plus(Times(decay, g[t - 1]), c[t])]
  BY <1>4 DEF DecayedBy
<1> HIDE DEF g
<1>6. Decayed(decay, c) =
         [t \in 0 .. k |-> IF t = 0 THEN Cell(0)
                           ELSE Plus(Times(decay, Decayed(decay, c)[t - 1]), c[t])]
  <2>1. Len(c) = k
    BY ColumnLength
  <2> QED
    BY <1>5, <2>1 DEF Decayed
<1> QED
  BY <1>6 DEF DecayedBy

LEMMA DecayedTwins ==
    ASSUME NEW k \in Nat, NEW l \in Nat, NEW m \in Nat, m <= k, m <= l, NEW c, NEW d,
           Twin(c, d, k, l, m), NEW decay, NEW t \in 1 .. m
    PROVE  Decayed(decay, c)[t] = Decayed(decay, d)[t]
<1>1. PICK f, g : f = Decayed(decay, c) /\ g = Decayed(decay, d)
  OBVIOUS
<1>2. DecayedBy(decay, c, k, f) /\ DecayedBy(decay, d, l, g)
  BY <1>1, DecayedStep DEF Twin
<1> DEFINE T == {n \in Nat : n <= m => f[n] = g[n]}
<1>3. 0 \in T
  BY <1>2 DEF DecayedBy
<1>4. ASSUME NEW n \in Nat, n \in T PROVE n + 1 \in T
  <2> SUFFICES ASSUME n + 1 <= m PROVE f[n + 1] = g[n + 1]
    OBVIOUS
  <2>1. f[n] = g[n] /\ c[n + 1] = d[n + 1]
    BY <1>4 DEF Twin
  <2>2. f[n + 1] = Plus(Times(decay, f[n]), c[n + 1]) /\ g[n + 1] = Plus(Times(decay, g[n]), d[n + 1])
    BY <1>2 DEF DecayedBy
  <2> QED
    BY <2>1, <2>2
<1> HIDE DEF T
<1>5. t \in T
  BY <1>3, <1>4, AllNumbers
<1> QED
  BY <1>1, <1>5 DEF T

LEMMA ExponentialTwins ==
    ASSUME NEW k \in Nat, NEW l \in Nat, NEW m \in Nat, m <= k, m <= l, NEW c, NEW d,
           Twin(c, d, k, l, m), NEW n
    PROVE  Twin(ExponentialMean(c, n), ExponentialMean(d, n), k, l, m)
<1>1. DOMAIN c = 1 .. k /\ DOMAIN d = 1 .. l
  BY ColumnLength DEF Twin
<1> DEFINE decay == Rational(n - 1, n + 1)
           Filled(x) == [t \in DOMAIN x |-> Fill(x[t], Cell(0))]
           Weights(x) == [t \in DOMAIN x |-> IF x[t] = NaN THEN Cell(0) ELSE Cell(1)]
           Mean(x) == [t \in DOMAIN x |->
                          IF Seen(x, t) < n THEN NaN
                          ELSE Over(Decayed(decay, Filled(x))[t], Decayed(decay, Weights(x))[t])]
<1>2. ExponentialMean(c, n) = Mean(c) /\ ExponentialMean(d, n) = Mean(d)
  BY DEF ExponentialMean
<1>3. Col(Mean(c), k) /\ Col(Mean(d), l)
  BY <1>1 DEF Col
<1>4. Twin(Filled(c), Filled(d), k, l, m) /\ Twin(Weights(c), Weights(d), k, l, m)
  <2>1. Col(Filled(c), k) /\ Col(Filled(d), l) /\ Col(Weights(c), k) /\ Col(Weights(d), l)
    BY <1>1 DEF Col
  <2>2. \A t \in 1 .. m : t \in DOMAIN c /\ t \in DOMAIN d /\ c[t] = d[t]
    BY <1>1 DEF Twin
  <2>3. \A t \in 1 .. m : Filled(c)[t] = Filled(d)[t]
    BY <2>2
  <2>4. \A t \in 1 .. m : Weights(c)[t] = Weights(d)[t]
    BY <2>2
  <2> HIDE DEF Filled, Weights
  <2> QED
    BY <2>1, <2>3, <2>4 DEF Twin
<1>5. ASSUME NEW t \in 1 .. m PROVE Mean(c)[t] = Mean(d)[t]
  <2>1. t \in DOMAIN c /\ t \in DOMAIN d
    BY <1>1
  <2>2. Seen(c, t) = Seen(d, t)
    BY SeenByTwins
  <2> HIDE DEF Filled, Weights, decay
  <2>3. /\ Decayed(decay, Filled(c))[t] = Decayed(decay, Filled(d))[t]
        /\ Decayed(decay, Weights(c))[t] = Decayed(decay, Weights(d))[t]
    BY <1>4, DecayedTwins
  <2> QED
    BY <2>1, <2>2, <2>3
<1> QED
  BY <1>2, <1>3, <1>5 DEF Twin

SmoothedBy(c, n, k, f) ==
    \A t \in 0 .. k : f[t] = IF t = 0 THEN NaN
                             ELSE IF f[t - 1] = NaN THEN c[t]
                             ELSE Over(Plus(Times(Cell(n - 1), f[t - 1]), c[t]), Cell(n))

LEMMA SmoothedStep ==
    ASSUME NEW k \in Nat, NEW c, Col(c, k), NEW n
    PROVE  SmoothedBy(c, n, k, Smoothed(c, n))
<1> DEFINE T == {i \in Nat : \E f : SmoothedBy(c, n, i, f)}
<1>1. 0 \in T
  <2>1. SmoothedBy(c, n, 0, [t \in 0 .. 0 |-> NaN])
    BY DEF SmoothedBy
  <2> QED
    BY <2>1
<1>2. ASSUME NEW i \in Nat, i \in T PROVE i + 1 \in T
  <2>1. PICK f : SmoothedBy(c, n, i, f)
    BY <1>2
  <2> DEFINE g == [t \in 0 .. i + 1 |->
                      IF t # i + 1 THEN f[t]
                      ELSE IF f[i] = NaN THEN c[i + 1]
                      ELSE Over(Plus(Times(Cell(n - 1), f[i]), c[i + 1]), Cell(n))]
  <2>2. SmoothedBy(c, n, i + 1, g)
    BY <2>1 DEF SmoothedBy
  <2> QED
    BY <2>2
<1> HIDE DEF T
<1>3. k \in T
  BY <1>1, <1>2, AllNumbers
<1>4. PICK f : SmoothedBy(c, n, k, f)
  BY <1>3 DEF T
<1> DEFINE g == [t \in 0 .. k |-> f[t]]
<1>5. g = [t \in 0 .. k |->
              IF t = 0 THEN NaN
              ELSE IF g[t - 1] = NaN THEN c[t]
              ELSE Over(Plus(Times(Cell(n - 1), g[t - 1]), c[t]), Cell(n))]
  BY <1>4 DEF SmoothedBy
<1> HIDE DEF g
<1>6. Smoothed(c, n) =
         [t \in 0 .. k |->
              IF t = 0 THEN NaN
              ELSE IF Smoothed(c, n)[t - 1] = NaN THEN c[t]
              ELSE Over(Plus(Times(Cell(n - 1), Smoothed(c, n)[t - 1]), c[t]), Cell(n))]
  <2>1. Len(c) = k
    BY ColumnLength
  <2> QED
    BY <1>5, <2>1 DEF Smoothed
<1> QED
  BY <1>6 DEF SmoothedBy

LEMMA SmoothedTwins ==
    ASSUME NEW k \in Nat, NEW l \in Nat, NEW m \in Nat, m <= k, m <= l, NEW c, NEW d,
           Twin(c, d, k, l, m), NEW n, NEW t \in 1 .. m
    PROVE  Smoothed(c, n)[t] = Smoothed(d, n)[t]
<1>1. PICK f, g : f = Smoothed(c, n) /\ g = Smoothed(d, n)
  OBVIOUS
<1>2. SmoothedBy(c, n, k, f) /\ SmoothedBy(d, n, l, g)
  BY <1>1, SmoothedStep DEF Twin
<1> DEFINE T == {i \in Nat : i <= m => f[i] = g[i]}
<1>3. 0 \in T
  BY <1>2 DEF SmoothedBy
<1>4. ASSUME NEW i \in Nat, i \in T PROVE i + 1 \in T
  <2> SUFFICES ASSUME i + 1 <= m PROVE f[i + 1] = g[i + 1]
    OBVIOUS
  <2>1. f[i] = g[i] /\ c[i + 1] = d[i + 1]
    BY <1>4 DEF Twin
  <2> DEFINE Next2(x, y) == IF x = NaN THEN y ELSE Over(Plus(Times(Cell(n - 1), x), y), Cell(n))
  <2>2. f[i + 1] = Next2(f[i], c[i + 1]) /\ g[i + 1] = Next2(g[i], d[i + 1])
    BY <1>2 DEF SmoothedBy
  <2> HIDE DEF Next2
  <2> QED
    BY <2>1, <2>2
<1> HIDE DEF T
<1>5. t \in T
  BY <1>3, <1>4, AllNumbers
<1> QED
  BY <1>1, <1>5 DEF T

LEMMA WilderTwins ==
    ASSUME NEW k \in Nat, NEW l \in Nat, NEW m \in Nat, m <= k, m <= l, NEW c, NEW d,
           Twin(c, d, k, l, m), NEW n
    PROVE  Twin(WilderMean(c, n), WilderMean(d, n), k, l, m)
<1>1. DOMAIN c = 1 .. k /\ DOMAIN d = 1 .. l
  BY ColumnLength DEF Twin
<1>2. Col(WilderMean(c, n), k) /\ Col(WilderMean(d, n), l)
  BY <1>1 DEF Col, WilderMean
<1>3. ASSUME NEW t \in 1 .. m PROVE WilderMean(c, n)[t] = WilderMean(d, n)[t]
  <2>1. t \in DOMAIN c /\ t \in DOMAIN d
    BY <1>1
  <2>2. Seen(c, t) = Seen(d, t) /\ Smoothed(c, n)[t] = Smoothed(d, n)[t]
    BY SeenByTwins, SmoothedTwins
  <2> QED
    BY <2>1, <2>2 DEF WilderMean
<1> QED
  BY <1>2, <1>3 DEF Twin

LEMMA ShiftedTwins ==
    ASSUME NEW k \in Nat, NEW l \in Nat, NEW m \in Nat, m <= k, m <= l, NEW c, NEW d,
           Twin(c, d, k, l, m)
    PROVE  /\ Twin(Shift(c, 1), Shift(d, 1), k, l, m)
           /\ \A t \in 1 .. m + 1 : t <= k /\ t <= l => Shift(c, 1)[t] = Shift(d, 1)[t]
<1>1. DOMAIN c = 1 .. k /\ DOMAIN d = 1 .. l
  BY ColumnLength DEF Twin
<1>2. Col(Shift(c, 1), k) /\ Col(Shift(d, 1), l)
  BY <1>1 DEF Col, Shift
<1>3. ASSUME NEW t \in 1 .. m + 1, t <= k, t <= l
      PROVE  Shift(c, 1)[t] = Shift(d, 1)[t]
  <2>1. /\ Shift(c, 1)[t] = IF t - 1 \in 1 .. k THEN c[t - 1] ELSE NaN
        /\ Shift(d, 1)[t] = IF t - 1 \in 1 .. l THEN d[t - 1] ELSE NaN
    BY <1>1, <1>3 DEF Shift
  <2>2. t - 1 \in 1 .. k => t - 1 \in 1 .. m /\ t - 1 \in 1 .. l
    BY <1>3
  <2>3. t - 1 \in 1 .. l => t - 1 \in 1 .. k
    BY <1>3
  <2> QED
    BY <2>1, <2>2, <2>3 DEF Twin
<1> QED
  BY <1>2, <1>3 DEF Twin

-----------------------------------------------------------------------------
(***************************************************************************)
(* ... nor does any indicator look at it                                   *)
(***************************************************************************)
\* The columns of the price table.
Prices == {Name("open"), Name("high"), Name("low"), Name("close")}

\* Two frames with the same columns.
Alike(df, eg, k, l, m) ==
    /\ DOMAIN df = DOMAIN eg /\ Prices \subseteq DOMAIN df
    /\ \A x \in DOMAIN df : Twin(df[x], eg[x], k, l, m)

LEMMA AlikePrices ==
    ASSUME NEW k, NEW l, NEW m, NEW df, NEW eg, Alike(df, eg, k, l, m)
    PROVE  /\ Twin(Open(df), Open(eg), k, l, m) /\ Twin(High(df), High(eg), k, l, m)
           /\ Twin(Low(df), Low(eg), k, l, m) /\ Twin(Close(df), Close(eg), k, l, m)
  BY DEF Alike, Prices, Open, High, Low, Close

LEMMA AssignAlike ==
    ASSUME NEW k, NEW l, NEW m, NEW df, NEW eg, Alike(df, eg, k, l, m),
           NEW c, NEW d, Twin(c, d, k, l, m), NEW x
    PROVE  Alike(Assign(df, x, c), Assign(eg, x, d), k, l, m)
  BY DEF Alike, Assign

LEMMA AssignKeeps ==
    ASSUME NEW df, NEW x, NEW c
    PROVE  DOMAIN Assign(df, x, c) = DOMAIN df \cup {x}
  BY DEF Assign

LEMMA AlikeEMA ==
    ASSUME NEW k \in Nat, NEW l \in Nat, NEW m \in Nat, m <= k, m <= l, NEW df, NEW eg,
           Alike(df, eg, k, l, m), NEW n \in Nat
    PROVE  Alike(EMA(df, n), EMA(eg, n), k, l, m)
<1>1. Twin(ExponentialMean(Close(df), n), ExponentialMean(Close(eg), n), k, l, m)
  BY AlikePrices, ExponentialTwins
<1> QED
  BY <1>1, AssignAlike DEF EMA

LEMMA AlikeMA ==
    ASSUME NEW k \in Nat, NEW l \in Nat, NEW m \in Nat, m <= k, m <= l, NEW df, NEW eg,
           Alike(df, eg, k, l, m), NEW n \in Nat
    PROVE  Alike(MA(df, n), MA(eg, n), k, l, m)
<1>1. Twin(RollingMean(Close(df), n), RollingMean(Close(eg), n), k, l, m)
  BY AlikePrices, MeansOfTwins
<1> QED
  BY <1>1, AssignAlike DEF MA

LEMMA AlikeATR ==
    ASSUME NEW k \in Nat, NEW l \in Nat, NEW m \in Nat, m <= k, m <= l, NEW df, NEW eg,
           Alike(df, eg, k, l, m), NEW n \in Nat
    PROVE  Alike(ATR(df, n), ATR(eg, n), k, l, m)
<1> DEFINE Prev(x) == Shift(Close(x), 1)
           True(h, o, p) == IF p = NaN THEN Minus(h, o)
                            ELSE Greatest(Minus(h, o), Greatest(Distance(h, p), Distance(p, o)))
           Ranges(x) == [t \in DOMAIN Prev(x) |-> True(High(x)[t], Low(x)[t], Prev(x)[t])]
<1>1. Twin(Prev(df), Prev(eg), k, l, m)
  BY AlikePrices, ShiftedTwins
<1>2. Twin(High(df), High(eg), k, l, m) /\ Twin(Low(df), Low(eg), k, l, m)
  BY AlikePrices
<1>3. /\ ATR(df, n) = Assign(df, <<"ATR", n>>, RollingMean(Ranges(df), n))
      /\ ATR(eg, n) = Assign(eg, <<"ATR", n>>, RollingMean(Ranges(eg), n))
  BY DEF ATR
<1>4. Twin(Ranges(df), Ranges(eg), k, l, m)
  <2> HIDE DEF Prev, True
  <2>1. DOMAIN Prev(df) = 1 .. k /\ DOMAIN Prev(eg) = 1 .. l
    BY <1>1, ColumnLength DEF Twin
  <2>2. Col(Ranges(df), k) /\ Col(Ranges(eg), l)
    BY <2>1 DEF Col
  <2>3. \A t \in 1 .. m : Ranges(df)[t] = Ranges(eg)[t]
    BY <1>1, <1>2, <2>1 DEF Twin
  <2> QED
    BY <2>2, <2>3 DEF Twin
<1> HIDE DEF Ranges
<1>5. Twin(RollingMean(Ranges(df), n), RollingMean(Ranges(eg), n), k, l, m)
  BY <1>4, MeansOfTwins
<1> QED
  BY <1>3, <1>5, AssignAlike

LEMMA CombinedTwins ==
    ASSUME NEW k \in Nat, NEW l \in Nat, NEW m \in Nat, m <= k, m <= l, NEW c, NEW d,
           Twin(c, d, k, l, m), NEW x, NEW y, Twin(x, y, k, l, m)
    PROVE  /\ Twin(Combine(Plus, c, x), Combine(Plus, d, y), k, l, m)
           /\ Twin(Combine(Minus, c, x), Combine(Minus, d, y), k, l, m)
           /\ Twin(Combine(Distance, c, x), Combine(Distance, d, y), k, l, m)
<1>1. DOMAIN c = 1 .. k /\ DOMAIN d = 1 .. l
  BY ColumnLength DEF Twin
<1>5. \A t \in 1 .. m : t \in 1 .. k /\ t \in 1 .. l /\ c[t] = d[t] /\ x[t] = y[t]
  BY DEF Twin
<1>2. Twin(Combine(Plus, c, x), Combine(Plus, d, y), k, l, m)
  <2>1. /\ Combine(Plus, c, x) = [t \in 1 .. k |-> Plus(c[t], x[t])]
        /\ Combine(Plus, d, y) = [t \in 1 .. l |-> Plus(d[t], y[t])]
    BY <1>1 DEF Combine
  <2>2. Col(Combine(Plus, c, x), k) /\ Col(Combine(Plus, d, y), l)
    BY <2>1 DEF Col
  <2>3. \A t \in 1 .. m : Combine(Plus, c, x)[t] = Combine(Plus, d, y)[t]
    BY <1>5, <2>1
  <2> QED
    BY <2>2, <2>3 DEF Twin
<1>3. Twin(Combine(Minus, c, x), Combine(Minus, d, y), k, l, m)
  <2>1. /\ Combine(Minus, c, x) = [t \in 1 .. k |-> Minus(c[t], x[t])]
        /\ Combine(Minus, d, y) = [t \in 1 .. l |-> Minus(d[t], y[t])]
    BY <1>1 DEF Combine
  <2>2. Col(Combine(Minus, c, x), k) /\ Col(Combine(Minus, d, y), l)
    BY <2>1 DEF Col
  <2>3. \A t \in 1 .. m : Combine(Minus, c, x)[t] = Combine(Minus, d, y)[t]
    BY <1>5, <2>1
  <2> QED
    BY <2>2, <2>3 DEF Twin
<1>4. Twin(Combine(Distance, c, x), Combine(Distance, d, y), k, l, m)
  <2>1. /\ Combine(Distance, c, x) = [t \in 1 .. k |-> Distance(c[t], x[t])]
        /\ Combine(Distance, d, y) = [t \in 1 .. l |-> Distance(d[t], y[t])]
    BY <1>1 DEF Combine
  <2>2. Col(Combine(Distance, c, x), k) /\ Col(Combine(Distance, d, y), l)
    BY <2>1 DEF Col
  <2>3. \A t \in 1 .. m : Combine(Distance, c, x)[t] = Combine(Distance, d, y)[t]
    BY <1>5, <2>1
  <2> QED
    BY <2>2, <2>3 DEF Twin
<1> QED
  BY <1>2, <1>3, <1>4

LEMMA AlikeKeltner ==
    ASSUME NEW k \in Nat, NEW l \in Nat, NEW m \in Nat, m <= k, m <= l, NEW df, NEW eg,
           Alike(df, eg, k, l, m), NEW n \in Nat
    PROVE  Alike(KeltnerChannels(df, n, n), KeltnerChannels(eg, n, n), k, l, m)
<1> DEFINE Ana(x) == ATR(EMA(x, n), n)
           Twice(x) == Combine(Plus, Ana(x)[<<"ATR", n>>], Ana(x)[<<"ATR", n>>])
           Up(x) == Combine(Plus, Twice(x), Ana(x)[<<"EMA", n>>])
           Lo(x) == Combine(Minus, Ana(x)[<<"EMA", n>>], Twice(x))
<1>1. /\ KeltnerChannels(df, n, n) = Assign(Assign(Ana(df), Name("KeUp"), Up(df)), Name("KeLo"), Lo(df))
      /\ KeltnerChannels(eg, n, n) = Assign(Assign(Ana(eg), Name("KeUp"), Up(eg)), Name("KeLo"), Lo(eg))
  BY DEF KeltnerChannels
<1>2. Alike(Ana(df), Ana(eg), k, l, m)
  BY AlikeEMA, AlikeATR
<1>3. <<"EMA", n>> \in DOMAIN Ana(df) /\ <<"ATR", n>> \in DOMAIN Ana(df)
  BY DEF EMA, ATR, Assign
<1> HIDE DEF Ana
<1>4. /\ Twin(Ana(df)[<<"EMA", n>>], Ana(eg)[<<"EMA", n>>], k, l, m)
      /\ Twin(Ana(df)[<<"ATR", n>>], Ana(eg)[<<"ATR", n>>], k, l, m)
  BY <1>2, <1>3 DEF Alike
<1>5. Twin(Twice(df), Twice(eg), k, l, m)
  BY <1>4, CombinedTwins
<1> HIDE DEF Twice
<1>6. Twin(Up(df), Up(eg), k, l, m) /\ Twin(Lo(df), Lo(eg), k, l, m)
  BY <1>4, <1>5, CombinedTwins
<1> HIDE DEF Up, Lo
<1> QED
  BY <1>1, <1>2, <1>6, AssignAlike

LEMMA AlikeBollinger ==
    ASSUME NEW k \in Nat, NEW l \in Nat, NEW m \in Nat, m <= k, m <= l, NEW df, NEW eg,
           Alike(df, eg, k, l, m), NEW n \in Nat
    PROVE  Alike(BollingerBands(df, n), BollingerBands(eg, n), k, l, m)
<1> DEFINE Typical(x) == [t \in DOMAIN Close(x) |->
                             Over(Plus(Close(x)[t], Plus(High(x)[t], Low(x)[t])), Cell(3))]
<1>1. /\ BollingerBands(df, n) = Assign(Assign(df, Name("BB_MA"), RollingMean(Typical(df), n)),
                                        Name("BB_VAR"), RollingVariance(Typical(df), n))
      /\ BollingerBands(eg, n) = Assign(Assign(eg, Name("BB_MA"), RollingMean(Typical(eg), n)),
                                        Name("BB_VAR"), RollingVariance(Typical(eg), n))
  BY DEF BollingerBands
<1>2. Twin(Typical(df), Typical(eg), k, l, m)
  <2>1. /\ Twin(High(df), High(eg), k, l, m) /\ Twin(Low(df), Low(eg), k, l, m)
        /\ Twin(Close(df), Close(eg), k, l, m)
    BY AlikePrices
  <2>2. DOMAIN Close(df) = 1 .. k /\ DOMAIN Close(eg) = 1 .. l
    BY <2>1, ColumnLength DEF Twin
  <2>3. Col(Typical(df), k) /\ Col(Typical(eg), l)
    BY <2>2 DEF Col
  <2>4. \A t \in 1 .. m : Typical(df)[t] = Typical(eg)[t]
    BY <2>1, <2>2 DEF Twin
  <2> QED
    BY <2>3, <2>4 DEF Twin
<1> HIDE DEF Typical
<1>3. /\ Twin(RollingMean(Typical(df), n), RollingMean(Typical(eg), n), k, l, m)
      /\ Twin(RollingVariance(Typical(df), n), RollingVariance(Typical(eg), n), k, l, m)
  BY <1>2, MeansOfTwins, VariancesOfTwins
<1> QED
  BY <1>1, <1>3, AssignAlike

LEMMA AlikeRSI ==
    ASSUME NEW k \in Nat, NEW l \in Nat, NEW m \in Nat, m <= k, m <= l, NEW df, NEW eg,
           Alike(df, eg, k, l, m), NEW n \in Nat
    PROVE  Alike(RSI(df, n), RSI(eg, n), k, l, m)
<1> DEFINE Gains(x) == Combine(Minus, Close(x), Shift(Close(x), 1))
           Rises(x) == [t \in DOMAIN Gains(x) |->
                           IF Gains(x)[t] = NaN THEN NaN ELSE Greatest(Gains(x)[t], Cell(0))]
           Falls(x) == [t \in DOMAIN Gains(x) |->
                           IF Gains(x)[t] = NaN THEN NaN ELSE Least(Gains(x)[t], Cell(0))]
           Zeros(x) == [t \in DOMAIN Gains(x) |-> Cell(0)]
           Win(x) == WilderMean(Rises(x), n)
           Loss(x) == WilderMean(Combine(Minus, Zeros(x), Falls(x)), n)
           Strength(rs) == Rounded(Minus(Cell(100), Over(Cell(100), Plus(Cell(1), rs))))
           Column1(x) == [t \in DOMAIN Gains(x) |-> Strength(Over(Win(x)[t], Loss(x)[t]))]
<1>1. /\ RSI(df, n) = Assign(df, <<"RSI", n>>, Column1(df))
      /\ RSI(eg, n) = Assign(eg, <<"RSI", n>>, Column1(eg))
  BY DEF RSI
<1>2. Twin(Gains(df), Gains(eg), k, l, m)
  <2>1. Twin(Close(df), Close(eg), k, l, m)
    BY AlikePrices
  <2>2. Twin(Shift(Close(df), 1), Shift(Close(eg), 1), k, l, m)
    BY <2>1, ShiftedTwins
  <2> QED
    BY <2>1, <2>2, CombinedTwins
<1> HIDE DEF Gains
<1>3. DOMAIN Gains(df) = 1 .. k /\ DOMAIN Gains(eg) = 1 .. l
  BY <1>2, ColumnLength DEF Twin
<1>4. Twin(Rises(df), Rises(eg), k, l, m)
  <2>1. Col(Rises(df), k) /\ Col(Rises(eg), l)
    BY <1>3 DEF Col
  <2>2. \A t \in 1 .. m : Rises(df)[t] = Rises(eg)[t]
    BY <1>2, <1>3 DEF Twin
  <2> QED
    BY <2>1, <2>2 DEF Twin
<1>5. Twin(Falls(df), Falls(eg), k, l, m)
  <2>1. Col(Falls(df), k) /\ Col(Falls(eg), l)
    BY <1>3 DEF Col
  <2>2. \A t \in 1 .. m : Falls(df)[t] = Falls(eg)[t]
    BY <1>2, <1>3 DEF Twin
  <2> QED
    BY <2>1, <2>2 DEF Twin
<1>6. Twin(Zeros(df), Zeros(eg), k, l, m)
  BY <1>3 DEF Twin, Col
<1> HIDE DEF Rises, Falls, Zeros
<1>7. Twin(Combine(Minus, Zeros(df), Falls(df)), Combine(Minus, Zeros(eg), Falls(eg)), k, l, m)
  BY <1>5, <1>6, CombinedTwins
<1>8. Twin(Win(df), Win(eg), k, l, m) /\ Twin(Loss(df), Loss(eg), k, l, m)
  BY <1>4, <1>7, WilderTwins
<1> HIDE DEF Win, Loss, Strength
<1>9. Twin(Column1(df), Column1(eg), k, l, m)
  <2>1. Col(Column1(df), k) /\ Col(Column1(eg), l)
    BY <1>3 DEF Col
  <2>2. \A t \in 1 .. m : Column1(df)[t] = Column1(eg)[t]
    BY <1>3, <1>8 DEF Twin
  <2> QED
    BY <2>1, <2>2 DEF Twin
<1> HIDE DEF Column1
<1> QED
  BY <1>1, <1>9, AssignAlike

LEMMA AlikeMACD ==
    ASSUME NEW k \in Nat, NEW l \in Nat, NEW m \in Nat, m <= k, m <= l, NEW df, NEW eg,
           Alike(df, eg, k, l, m), NEW n \in Nat, NEW fast, NEW signal
    PROVE  Alike(MACD(df, n, fast, signal), MACD(eg, n, fast, signal), k, l, m)
<1> DEFINE Macd(x) == Combine(Minus, ExponentialMean(Close(x), fast), ExponentialMean(Close(x), n))
           Signal(x) == ExponentialMean(Macd(x), signal)
           Hist(x) == Combine(Minus, Macd(x), Signal(x))
<1>1. /\ MACD(df, n, fast, signal) =
            Assign(Assign(Assign(df, Name("MACD"), Macd(df)), Name("MACD_SIGNAL"), Signal(df)),
                   Name("HIST"), Hist(df))
      /\ MACD(eg, n, fast, signal) =
            Assign(Assign(Assign(eg, Name("MACD"), Macd(eg)), Name("MACD_SIGNAL"), Signal(eg)),
                   Name("HIST"), Hist(eg))
  BY DEF MACD
<1>2. /\ Twin(ExponentialMean(Close(df), fast), ExponentialMean(Close(eg), fast), k, l, m)
      /\ Twin(ExponentialMean(Close(df), n), ExponentialMean(Close(eg), n), k, l, m)
  BY AlikePrices, ExponentialTwins
<1>3. Twin(Macd(df), Macd(eg), k, l, m)
  BY <1>2, CombinedTwins
<1> HIDE DEF Macd
<1>4. Twin(Signal(df), Signal(eg), k, l, m)
  BY <1>3, ExponentialTwins
<1> HIDE DEF Signal
<1>5. Twin(Hist(df), Hist(eg), k, l, m)
  BY <1>3, <1>4, CombinedTwins
<1> HIDE DEF Hist
<1>6. Alike(Assign(df, Name("MACD"), Macd(df)), Assign(eg, Name("MACD"), Macd(eg)), k, l, m)
  BY <1>3, AssignAlike
<1> QED
  BY <1>1, <1>4, <1>5, <1>6, AssignAlike

LEMMA AlikeBIAS ==
    ASSUME NEW k \in Nat, NEW l \in Nat, NEW m \in Nat, m <= k, m <= l, NEW df, NEW eg,
           Alike(df, eg, k, l, m), NEW n \in Nat
    PROVE  Alike(BIAS(df, n), BIAS(eg, n), k, l, m)
<1> DEFINE Ana(x) == IF <<"EMA", n>> \in DOMAIN x THEN x ELSE EMA(x, n)
           Bias(x) == [t \in DOMAIN Close(x) |->
                          Times(Over(Minus(Close(x)[t], Ana(x)[<<"EMA", n>>][t]), Ana(x)[<<"EMA", n>>][t]),
                                Cell(100))]
<1>1. /\ BIAS(df, n) = Assign(Ana(df), <<"BIAS", n>>, Bias(df))
      /\ BIAS(eg, n) = Assign(Ana(eg), <<"BIAS", n>>, Bias(eg))
  BY DEF BIAS, Combine
<1>2. Alike(Ana(df), Ana(eg), k, l, m)
  <2>1. DOMAIN df = DOMAIN eg
    BY DEF Alike
  <2>2. Alike(EMA(df, n), EMA(eg, n), k, l, m)
    BY AlikeEMA
  <2> QED
    BY <2>1, <2>2
<1>3. <<"EMA", n>> \in DOMAIN Ana(df)
  <2>1. <<"EMA", n>> \in DOMAIN EMA(df, n)
    BY DEF EMA, Assign
  <2> QED
    BY <2>1
<1> HIDE DEF Ana
<1>4. Twin(Ana(df)[<<"EMA", n>>], Ana(eg)[<<"EMA", n>>], k, l, m)
  BY <1>2, <1>3 DEF Alike
<1>5. Twin(Bias(df), Bias(eg), k, l, m)
  <2>1. Twin(Close(df), Close(eg), k, l, m)
    BY AlikePrices
  <2>2. DOMAIN Close(df) = 1 .. k /\ DOMAIN Close(eg) = 1 .. l
    BY <2>1, ColumnLength DEF Twin
  <2>3. Col(Bias(df), k) /\ Col(Bias(eg), l)
    BY <2>2 DEF Col
  <2>4. \A t \in 1 .. m : Bias(df)[t] = Bias(eg)[t]
    <3> SUFFICES ASSUME NEW t \in 1 .. m PROVE Bias(df)[t] = Bias(eg)[t]
      OBVIOUS
    <3>1. /\ t \in DOMAIN Close(df) /\ t \in DOMAIN Close(eg) /\ Close(df)[t] = Close(eg)[t]
          /\ Ana(df)[<<"EMA", n>>][t] = Ana(eg)[<<"EMA", n>>][t]
      BY <1>4, <2>1, <2>2 DEF Twin
    <3> QED
      BY <3>1
  <2> QED
    BY <2>3, <2>4 DEF Twin
<1> HIDE DEF Bias
<1> QED
  BY <1>1, <1>2, <1>5, AssignAlike

LEMMA AlikeEngulfing ==
    ASSUME NEW k \in Nat, NEW l \in Nat, NEW m \in Nat, m <= k, m <= l, NEW df, NEW eg,
           Alike(df, eg, k, l, m), NEW factor
    PROVE  Alike(Engulfing(df, factor), Engulfing(eg, factor), k, l, m)
<1> DEFINE Diff(x) == Combine(Minus, Close(x), Open(x))
           Size(x) == Combine(Distance, Close(x), Open(x))
           Way(x) == [t \in DOMAIN Diff(x) |-> IF Less(Diff(x)[t], Cell(0)) THEN Cell(-1) ELSE Cell(1)]
           Found(x) == [t \in DOMAIN Diff(x) |->
                           IF /\ Shift(Way(x), 1)[t] \notin {Way(x)[t], NaN}
                              /\ Less(Times(Shift(Size(x), 1)[t], factor), Size(x)[t])
                           THEN Cell(1) ELSE Cell(0)]
<1>1. /\ Engulfing(df, factor) = Assign(df, Name("ENGULFING"), Found(df))
      /\ Engulfing(eg, factor) = Assign(eg, Name("ENGULFING"), Found(eg))
  BY DEF Engulfing
<1>2. Twin(Diff(df), Diff(eg), k, l, m) /\ Twin(Size(df), Size(eg), k, l, m)
  BY AlikePrices, CombinedTwins
<1> HIDE DEF Diff, Size
<1>3. DOMAIN Diff(df) = 1 .. k /\ DOMAIN Diff(eg) = 1 .. l
  BY <1>2, ColumnLength DEF Twin
<1>4. Twin(Way(df), Way(eg), k, l, m)
  <2>1. Col(Way(df), k) /\ Col(Way(eg), l)
    BY <1>3 DEF Col
  <2>2. \A t \in 1 .. m : Way(df)[t] = Way(eg)[t]
    BY <1>2, <1>3 DEF Twin
  <2> QED
    BY <2>1, <2>2 DEF Twin
<1> HIDE DEF Way
<1>5. /\ Twin(Shift(Way(df), 1), Shift(Way(eg), 1), k, l, m)
      /\ Twin(Shift(Size(df), 1), Shift(Size(eg), 1), k, l, m)
  BY <1>2, <1>4, ShiftedTwins
<1>6. Twin(Found(df), Found(eg), k, l, m)
  <2>1. Col(Found(df), k) /\ Col(Found(eg), l)
    BY <1>3 DEF Col
  <2>2. \A t \in 1 .. m : Found(df)[t] = Found(eg)[t]
    BY <1>2, <1>3, <1>4, <1>5 DEF Twin
  <2> QED
    BY <2>1, <2>2 DEF Twin
<1> HIDE DEF Found
<1> QED
  BY <1>1, <1>6, AssignAlike

-----------------------------------------------------------------------------
(***************************************************************************)
(* Indicators that share columns                                           *)
(***************************************************************************)
LEMMA NamesDiffer ==
    ASSUME NEW a, NEW b, NEW m, NEW n, <<a, m>> = <<b, n>>
    PROVE  a = b /\ m = n
  OBVIOUS

\* The prices a frame shows, and the average range they give.
SamePrices(df, s) == /\ Open(df) = Open(s) /\ High(df) = High(s)
                     /\ Low(df) = Low(s) /\ Close(df) = Close(s)

LEMMA RangeOfPrices ==
    ASSUME NEW df, NEW s, SamePrices(df, s), NEW n
    PROVE  ATR(df, n)[<<"ATR", n>>] = ATR(s, n)[<<"ATR", n>>]
  BY DEF SamePrices, ATR, Assign

LEMMA AverageKeepsPrices ==
    ASSUME NEW df, Prices \subseteq DOMAIN df, NEW n
    PROVE  SamePrices(EMA(df, n), df) /\ EMA(df, n)[<<"EMA", n>>] = ExponentialMean(Close(df), n)
<1>1. /\ <<"EMA", n>> # Name("open") /\ <<"EMA", n>> # Name("high")
      /\ <<"EMA", n>> # Name("low") /\ <<"EMA", n>> # Name("close")
  BY NamesDiffer DEF Name
<1>2. \A c \in Prices : c # <<"EMA", n>> => EMA(df, n)[c] = df[c]
  BY DEF EMA, Assign
<1>3. EMA(df, n)[<<"EMA", n>>] = ExponentialMean(Close(df), n)
  BY DEF EMA, Assign
<1> QED
  BY <1>1, <1>2, <1>3 DEF SamePrices, Open, High, Low, Close, Prices

\* The channels are computed from the range and the average of the prices.
LEMMA KeltnerColumns ==
    ASSUME NEW df, NEW s, SamePrices(df, s), Prices \subseteq DOMAIN df, NEW n \in Nat \ {0},
           NEW atr, atr = ATR(s, n)[<<"ATR", n>>], NEW ema, ema = ExponentialMean(Close(s), n)
    PROVE  /\ KeltnerChannels(df, n, n)[Name("KeUp")] = Combine(Plus, Combine(Plus, atr, atr), ema)
           /\ KeltnerChannels(df, n, n)[Name("KeLo")] = Combine(Minus, ema, Combine(Plus, atr, atr))
           /\ KeltnerChannels(df, n, n)[<<"ATR", n>>] = atr
           /\ KeltnerChannels(df, n, n)[<<"EMA", n>>] = ema
<1> DEFINE ana == ATR(EMA(df, n), n)
           Twice(b) == Combine(Plus, b, b)
           Up(a, e) == Combine(Plus, Twice(a), e)
           Lo(a, e) == Combine(Minus, e, Twice(a))
           own(a, e) == Assign(Assign(ana, Name("KeUp"), Up(a, e)), Name("KeLo"), Lo(a, e))
<1>1. KeltnerChannels(df, n, n) = own(ana[<<"ATR", n>>], ana[<<"EMA", n>>])
  BY DEF KeltnerChannels
<1>2. /\ SamePrices(EMA(df, n), df) /\ EMA(df, n)[<<"EMA", n>>] = ExponentialMean(Close(df), n)
      /\ <<"EMA", n>> \in DOMAIN EMA(df, n)
  BY AverageKeepsPrices DEF EMA, Assign
<1>3. SamePrices(EMA(df, n), s) /\ Close(df) = Close(s)
  BY <1>2 DEF SamePrices
<1>4. ana[<<"ATR", n>>] = atr
  BY <1>3, RangeOfPrices
<1>5. <<"EMA", n>> # <<"ATR", n>>
  BY NamesDiffer
<1>6. /\ ana[<<"EMA", n>>] = EMA(df, n)[<<"EMA", n>>]
      /\ <<"ATR", n>> \in DOMAIN ana /\ <<"EMA", n>> \in DOMAIN ana
  BY <1>2, <1>5 DEF ATR, Assign
<1> HIDE DEF ana, Up, Lo
<1>7. Name("KeUp") # Name("KeLo")
  BY NamesDiffer DEF Name
<1>8. /\ <<"EMA", n>> \notin {Name("KeUp"), Name("KeLo")}
      /\ <<"ATR", n>> \notin {Name("KeUp"), Name("KeLo")}
  BY NamesDiffer DEF Name
<1>9. \A a, e : /\ own(a, e)[Name("KeUp")] = Up(a, e) /\ own(a, e)[Name("KeLo")] = Lo(a, e)
                /\ own(a, e)[<<"EMA", n>>] = ana[<<"EMA", n>>]
                /\ own(a, e)[<<"ATR", n>>] = ana[<<"ATR", n>>]
  BY <1>6, <1>7, <1>8 DEF Assign
<1> HIDE DEF own
<1> QED
  BY <1>1, <1>2, <1>3, <1>4, <1>6, <1>9 DEF Up, Lo

LEMMA KeltnerIsOwn ==
    ASSUME NEW df, NEW s, SamePrices(df, s), Prices \subseteq DOMAIN df, Prices \subseteq DOMAIN s,
           NEW n \in Nat \ {0},
           NEW c \in {Name("KeUp"), Name("KeLo"), <<"EMA", n>>, <<"ATR", n>>}
    PROVE  KeltnerChannels(df, n, n)[c] = KeltnerChannels(s, n, n)[c]
<1>1. SamePrices(s, s)
  BY DEF SamePrices
<1>2. PICK atr, ema : atr = ATR(s, n)[<<"ATR", n>>] /\ ema = ExponentialMean(Close(s), n)
  OBVIOUS
<1>3. \A x \in {df, s} :
         /\ KeltnerChannels(x, n, n)[Name("KeUp")] = Combine(Plus, Combine(Plus, atr, atr), ema)
         /\ KeltnerChannels(x, n, n)[Name("KeLo")] = Combine(Minus, ema, Combine(Plus, atr, atr))
         /\ KeltnerChannels(x, n, n)[<<"ATR", n>>] = atr
         /\ KeltnerChannels(x, n, n)[<<"EMA", n>>] = ema
  BY <1>1, <1>2, KeltnerColumns
<1> QED
  BY <1>2, <1>3

LEMMA KeltnerAverage ==
    ASSUME NEW df, NEW s, SamePrices(df, s), Prices \subseteq DOMAIN df, NEW n \in Nat \ {0}
    PROVE  KeltnerChannels(df, n, n)[<<"EMA", n>>] = ExponentialMean(Close(s), n)
<1>1. PICK atr, ema : atr = ATR(s, n)[<<"ATR", n>>] /\ ema = ExponentialMean(Close(s), n)
  OBVIOUS
<1>2. /\ KeltnerChannels(df, n, n)[Name("KeUp")] = Combine(Plus, Combine(Plus, atr, atr), ema)
      /\ KeltnerChannels(df, n, n)[Name("KeLo")] = Combine(Minus, ema, Combine(Plus, atr, atr))
      /\ KeltnerChannels(df, n, n)[<<"ATR", n>>] = atr
      /\ KeltnerChannels(df, n, n)[<<"EMA", n>>] = ema
  BY <1>1, KeltnerColumns
<1> QED
  BY <1>1, <1>2

LEMMA KeltnerRange ==
    ASSUME NEW df, NEW s, SamePrices(df, s), Prices \subseteq DOMAIN df, NEW n \in Nat \ {0}
    PROVE  KeltnerChannels(df, n, n)[<<"ATR", n>>] = ATR(s, n)[<<"ATR", n>>]
<1>1. PICK atr, ema : atr = ATR(s, n)[<<"ATR", n>>] /\ ema = ExponentialMean(Close(s), n)
  OBVIOUS
<1>2. /\ KeltnerChannels(df, n, n)[Name("KeUp")] = Combine(Plus, Combine(Plus, atr, atr), ema)
      /\ KeltnerChannels(df, n, n)[Name("KeLo")] = Combine(Minus, ema, Combine(Plus, atr, atr))
      /\ KeltnerChannels(df, n, n)[<<"ATR", n>>] = atr
      /\ KeltnerChannels(df, n, n)[<<"EMA", n>>] = ema
  BY <1>1, KeltnerColumns
<1> QED
  BY <1>1, <1>2

\* What the indicators read of a frame is that of the source: the prices, and
\* the averages that are shared by name.
Shared(df, s) ==
    /\ Prices \subseteq DOMAIN df
    /\ Open(df) = Open(s) /\ High(df) = High(s) /\ Low(df) = Low(s) /\ Close(df) = Close(s)
    /\ \A n \in Nat \ {0} : <<"EMA", n>> \in DOMAIN df =>
          df[<<"EMA", n>>] = ExponentialMean(Close(s), n)

Bare(s) == Prices \subseteq DOMAIN s /\ \A n \in Nat \ {0} : <<"EMA", n>> \notin DOMAIN s

LEMMA BiasIsOwn ==
    ASSUME NEW df, NEW s, Shared(df, s), Bare(s), NEW n \in Nat \ {0},
           NEW c \in {<<"BIAS", n>>, <<"EMA", n>>}
    PROVE  /\ BIAS(df, n)[c] = BIAS(s, n)[c]
           /\ c = <<"EMA", n>> => BIAS(df, n)[c] = ExponentialMean(Close(s), n)
<1> DEFINE ana(x) == IF <<"EMA", n>> \in DOMAIN x THEN x ELSE EMA(x, n)
           off(b, e) == Combine(LAMBDA u, v : Times(Over(Minus(u, v), v), Cell(100)), b, e)
<1>1. \A x : BIAS(x, n) = Assign(ana(x), <<"BIAS", n>>, off(Close(x), ana(x)[<<"EMA", n>>]))
  BY DEF BIAS
<1>2. Close(df) = Close(s)
  BY DEF Shared
<1>3. \A x : EMA(x, n)[<<"EMA", n>>] = ExponentialMean(Close(x), n) /\ <<"EMA", n>> \in DOMAIN EMA(x, n)
  BY DEF EMA, Assign
<1>4. /\ ana(df)[<<"EMA", n>>] = ExponentialMean(Close(s), n) /\ <<"EMA", n>> \in DOMAIN ana(df)
      /\ ana(s)[<<"EMA", n>>] = ExponentialMean(Close(s), n) /\ <<"EMA", n>> \in DOMAIN ana(s)
  BY <1>2, <1>3 DEF Shared, Bare
<1> HIDE DEF ana, off
<1>5. \A x, b : /\ Assign(x, <<"BIAS", n>>, b)[<<"BIAS", n>>] = b
                /\ <<"EMA", n>> \in DOMAIN x =>
                      Assign(x, <<"BIAS", n>>, b)[<<"EMA", n>>] = x[<<"EMA", n>>]
  BY NamesDiffer DEF Assign
<1>6. c = <<"EMA", n>> => c # <<"BIAS", n>>
  BY NamesDiffer
<1> QED
  BY <1>1, <1>2, <1>4, <1>5, <1>6

-----------------------------------------------------------------------------
(***************************************************************************)
(* Where a column begins, and that it has no hole then                     *)
(***************************************************************************)
\* A number that is neither missing nor infinite.
IsFraction(x) == \E n \in Int, d \in Nat \ {0} : x = Rational(n, d)

Positive(x) == \E n \in Nat \ {0}, d \in Nat \ {0} : x = Rational(n, d)
NotNegative(x) == \E n \in Nat, d \in Nat \ {0} : x = Rational(n, d)

LEMMA NumberIsThere ==
    ASSUME NEW x, IsFraction(x)
    PROVE  x # NaN
  BY NotMissing DEF IsFraction

\* Rounding neither makes nor loses a number.
LEMMA RoundedIsThere ==
    ASSUME NEW x, IsFraction(x)
    PROVE  Rounded(x) # NaN
<1>1. PICK n \in Int, d \in Nat \ {0} : x = Rational(n, d)
  BY DEF IsFraction
<1>2. PICK k : Hundredths(n, d, k)
  BY RoundedIs
<1> QED
  BY <1>1, <1>2, NotMissing DEF Hundredths

LEMMA RoundedNothing == Rounded(NaN) = NaN
  BY DEF Rounded

LEMMA WholeIsNumber ==
    ASSUME NEW n \in Int
    PROVE  /\ IsFraction(Cell(n)) /\ (n >= 0 => NotNegative(Cell(n))) /\ (n > 0 => Positive(Cell(n)))
  BY CellIs DEF IsFraction, NotNegative, Positive

LEMMA SignsAreNumbers ==
    ASSUME NEW x
    PROVE  /\ Positive(x) => NotNegative(x)
           /\ NotNegative(x) => IsFraction(x)
  BY DEF Positive, NotNegative, IsFraction

LEMMA FractionIs ==
    ASSUME NEW n \in Int, NEW d \in Nat \ {0}
    PROVE  /\ IsFraction(Rational(n, d))
           /\ n \in Nat => NotNegative(Rational(n, d))
           /\ n \in Nat \ {0} => Positive(Rational(n, d))
  BY DEF IsFraction, NotNegative, Positive

LEMMA ProductsArePositive ==
    ASSUME NEW a \in Nat, NEW b \in Nat
    PROVE  /\ a * b \in Nat /\ (a # 0 /\ b # 0 => a * b # 0)
  OBVIOUS

LEMMA NumberSum ==
    ASSUME NEW x, NEW y, IsFraction(x), IsFraction(y)
    PROVE  IsFraction(Plus(x, y)) /\ IsFraction(Times(x, y)) /\ IsFraction(Minus(x, y))
<1>1. PICK n \in Int, d \in Nat \ {0} : x = Rational(n, d)
  BY DEF IsFraction
<1>2. PICK m \in Int, e \in Nat \ {0} : y = Rational(m, e)
  BY DEF IsFraction
<1>3. d * e \in Nat \ {0}
  BY ProductsArePositive
<1>4. PICK b \in Nat \ {0}, u \in Int, v \in Int, w \in Int :
         b = d * e /\ u = n * e + m * d /\ v = n * m /\ w = n * e - m * d
  BY <1>3
<1>5. Plus(x, y) = Rational(u, b) /\ Times(x, y) = Rational(v, b) /\ Minus(x, y) = Rational(w, b)
  <2>1. Plus(x, y) = Rational(u, b)
    BY <1>1, <1>2, <1>4, SumOf
  <2>2. Times(x, y) = Rational(v, b)
    BY <1>1, <1>2, <1>4, ProductOf
  <2>3. Minus(x, y) = Rational(w, b)
    BY <1>1, <1>2, <1>4, DifferenceOf
  <2> QED
    BY <2>1, <2>2, <2>3
<1> QED
  BY <1>5, FractionIs

LEMMA NumberQuotient ==
    ASSUME NEW x, NEW y, IsFraction(x), Positive(y)
    PROVE  IsFraction(Over(x, y))
<1>1. PICK n \in Int, d \in Nat \ {0} : x = Rational(n, d)
  BY DEF IsFraction
<1>2. PICK m \in Nat \ {0}, e \in Nat \ {0} : y = Rational(m, e)
  BY DEF Positive
<1>3. PICK b \in Nat \ {0}, u \in Int : b = d * m /\ u = n * e
  BY ProductsArePositive
<1>4. Over(x, y) = Rational(u, b)
  BY <1>1, <1>2, <1>3, QuotientOf
<1> QED
  BY <1>4, FractionIs

LEMMA SignOfSum ==
    ASSUME NEW x, NEW y, NotNegative(x), NotNegative(y)
    PROVE  /\ NotNegative(Plus(x, y)) /\ NotNegative(Times(x, y))
           /\ Positive(x) \/ Positive(y) => Positive(Plus(x, y))
           /\ Positive(x) /\ Positive(y) => Positive(Times(x, y))
<1>1. ASSUME NEW n \in Nat, NEW d \in Nat \ {0}, NEW m \in Nat, NEW e \in Nat \ {0}
      PROVE  /\ NotNegative(Plus(Rational(n, d), Rational(m, e)))
             /\ NotNegative(Times(Rational(n, d), Rational(m, e)))
             /\ n # 0 \/ m # 0 => Positive(Plus(Rational(n, d), Rational(m, e)))
             /\ n # 0 /\ m # 0 => Positive(Times(Rational(n, d), Rational(m, e)))
  <2>1. d * e \in Nat \ {0} /\ n * m \in Nat /\ (n # 0 /\ m # 0 => n * m # 0)
    BY ProductsArePositive
  <2>2. /\ n * e \in Nat /\ m * d \in Nat
        /\ (n # 0 => n * e # 0) /\ (m # 0 => m * d # 0)
    BY ProductsArePositive
  <2>3. n * e + m * d \in Nat /\ (n # 0 \/ m # 0 => n * e + m * d # 0)
    BY <2>2
  <2>4. PICK b \in Nat \ {0}, u \in Nat, v \in Nat :
           /\ b = d * e /\ u = n * e + m * d /\ v = n * m
           /\ (n # 0 \/ m # 0 => u # 0) /\ (n # 0 /\ m # 0 => v # 0)
    BY <2>1, <2>3
  <2>5. /\ Plus(Rational(n, d), Rational(m, e)) = Rational(u, b)
        /\ Times(Rational(n, d), Rational(m, e)) = Rational(v, b)
    BY <2>4, SumOf, ProductOf
  <2> QED
    BY <2>4, <2>5, FractionIs
<1>2. PICK n \in Nat, d \in Nat \ {0} : x = Rational(n, d) /\ (Positive(x) => n # 0)
  BY DEF NotNegative, Positive
<1>3. PICK m \in Nat, e \in Nat \ {0} : y = Rational(m, e) /\ (Positive(y) => m # 0)
  BY DEF NotNegative, Positive
<1> QED
  BY <1>1, <1>2, <1>3

LEMMA SignOfQuotient ==
    ASSUME NEW x, NEW y, NotNegative(x), Positive(y)
    PROVE  NotNegative(Over(x, y)) /\ (Positive(x) => Positive(Over(x, y)))
<1>1. PICK n \in Nat, d \in Nat \ {0} : x = Rational(n, d) /\ (Positive(x) => n # 0)
  BY DEF NotNegative, Positive
<1>2. PICK m \in Nat \ {0}, e \in Nat \ {0} : y = Rational(m, e)
  BY DEF Positive
<1>3. PICK b \in Nat \ {0}, u \in Nat : b = d * m /\ u = n * e /\ (n # 0 => u # 0)
  BY ProductsArePositive
<1>4. Over(x, y) = Rational(u, b)
  BY <1>1, <1>2, <1>3, QuotientOf
<1> QED
  BY <1>1, <1>3, <1>4, FractionIs

LEMMA ZeroOrPositive ==
    ASSUME NEW x, NotNegative(x)
    PROVE  x = Cell(0) \/ Positive(x)
<1>1. PICK n \in Nat, d \in Nat \ {0} : x = Rational(n, d)
  BY DEF NotNegative
<1>2. CASE n = 0
  <2>1. Rational(n, d) = Rational(0, 1)
    <3>1. n = d * 0 /\ d = d * 1
      BY <1>2
    <3> QED
      BY <3>1, Rescaled
  <2> QED
    BY <1>1, <2>1, CellIs
<1>3. CASE n # 0
  BY <1>1, <1>3 DEF Positive
<1> QED
  BY <1>2, <1>3

\* A column of k cells that has numbers from its f-th cell on, and none before.
Begins(c, k, f) ==
    Col(c, k) /\ \A t \in 1 .. k : IF t < f THEN c[t] = NaN ELSE IsFraction(c[t])

LEMMA DecayedIsNumber ==
    ASSUME NEW k \in Nat, NEW c, Begins(c, k, 1), NEW decay, IsFraction(decay), NEW t \in 0 .. k
    PROVE  IsFraction(Decayed(decay, c)[t])
<1>1. PICK sum : sum = Decayed(decay, c)
  OBVIOUS
<1>2. DecayedBy(decay, c, k, sum)
  BY <1>1, DecayedStep DEF Begins
<1> DEFINE T == {n \in Nat : n <= k => IsFraction(sum[n])}
<1>3. 0 \in T
  BY <1>2, WholeIsNumber DEF DecayedBy
<1>4. ASSUME NEW n \in Nat, n \in T PROVE n + 1 \in T
  <2> SUFFICES ASSUME n + 1 <= k PROVE IsFraction(sum[n + 1])
    OBVIOUS
  <2>1. sum[n + 1] = Plus(Times(decay, sum[n]), c[n + 1])
    BY <1>2 DEF DecayedBy
  <2>2. IsFraction(sum[n]) /\ IsFraction(c[n + 1])
    BY <1>4 DEF Begins
  <2> QED
    BY <2>1, <2>2, NumberSum
<1> HIDE DEF T
<1>5. t \in T
  BY <1>3, <1>4, AllNumbers
<1> QED
  BY <1>1, <1>5 DEF T

\* With weights, and of values, that are not negative.
LEMMA DecayedSign ==
    ASSUME NEW k \in Nat, NEW c, Col(c, k), \A i \in 1 .. k : NotNegative(c[i]),
           NEW decay, NotNegative(decay), NEW t \in 0 .. k
    PROVE  /\ NotNegative(Decayed(decay, c)[t])
           /\ t # 0 /\ Positive(c[t]) => Positive(Decayed(decay, c)[t])
<1>1. PICK sum : sum = Decayed(decay, c)
  OBVIOUS
<1>2. DecayedBy(decay, c, k, sum)
  BY <1>1, DecayedStep
<1> DEFINE T == {n \in Nat : n <= k => NotNegative(sum[n])}
<1>3. 0 \in T
  BY <1>2, WholeIsNumber DEF DecayedBy
<1>4. ASSUME NEW n \in Nat, n \in T, n + 1 <= k
      PROVE  /\ NotNegative(sum[n + 1])
             /\ Positive(c[n + 1]) => Positive(sum[n + 1])
  <2>1. sum[n + 1] = Plus(Times(decay, sum[n]), c[n + 1])
    BY <1>2, <1>4 DEF DecayedBy
  <2>2. NotNegative(sum[n]) /\ NotNegative(c[n + 1])
    BY <1>4
  <2>3. NotNegative(Times(decay, sum[n]))
    BY <2>2, SignOfSum
  <2> QED
    BY <2>1, <2>2, <2>3, SignOfSum
<1>5. \A n \in Nat : n \in T => n + 1 \in T
  BY <1>4
<1> HIDE DEF T
<1>6. Nat \subseteq T
  BY <1>3, <1>5, AllNumbers
<1>7. NotNegative(sum[t])
  BY <1>6 DEF T
<1>8. t # 0 /\ Positive(c[t]) => Positive(sum[t])
  <2> SUFFICES ASSUME t # 0, Positive(c[t]) PROVE Positive(sum[t])
    OBVIOUS
  <2>1. t - 1 \in T /\ t - 1 \in Nat /\ t - 1 + 1 = t
    BY <1>6
  <2> QED
    BY <1>4, <2>1
<1> QED
  BY <1>1, <1>7, <1>8

LEMMA TotalIsNumber ==
    ASSUME NEW k \in Nat, NEW c, Begins(c, k, 1)
    PROVE  IsFraction(Total(c))
<1>1. Len(c) = k
  BY ColumnLength DEF Begins
<1>2. IsFraction(Cell(1)) /\ k \in 0 .. k
  BY WholeIsNumber
<1> QED
  BY <1>1, <1>2, DecayedIsNumber DEF Total

LEMMA RollingBegins ==
    ASSUME NEW k \in Nat, NEW c, Begins(c, k, 1), NEW n \in Nat \ {0}
    PROVE  Begins(RollingMean(c, n), k, n)
<1>1. DOMAIN c = 1 .. k /\ Col(c, k)
  BY ColumnLength DEF Begins
<1> DEFINE mean(t) == Over(Total(SubSeq(c, t - n + 1, t)), Cell(n))
<1>2. RollingMean(c, n) = [t \in 1 .. k |-> IF t < n THEN NaN ELSE mean(t)]
  BY <1>1 DEF RollingMean
<1>3. ASSUME NEW t \in 1 .. k, ~ t < n PROVE IsFraction(mean(t))
  <2>1. PICK a \in 1 .. k : a = t - n + 1 /\ t - a + 1 = n
    BY <1>3
  <2>2. SubSeq(c, a, t) = [i \in 1 .. n |-> c[a + i - 1]]
    BY <1>1, <2>1, WindowOf
  <2>3. \A i \in 1 .. n : a + i - 1 \in 1 .. k /\ ~ (a + i - 1 < 1)
    BY <2>1
  <2>4. Begins(SubSeq(c, a, t), n, 1)
    <3>1. PICK window : window = SubSeq(c, a, t)
      OBVIOUS
    <3>2. \A i \in 1 .. n : window[i] = c[a + i - 1] /\ IsFraction(c[a + i - 1])
      BY <2>2, <2>3, <3>1 DEF Begins
    <3>3. Col(window, n)
      BY <2>2, <3>1 DEF Col
    <3>4. \A i \in 1 .. n : ~ i < 1
      OBVIOUS
    <3>5. Begins(window, n, 1)
      BY <3>2, <3>3, <3>4 DEF Begins
    <3> QED
      BY <3>1, <3>5
  <2>5. IsFraction(Total(SubSeq(c, a, t)))
    BY <2>4, TotalIsNumber
  <2>6. Positive(Cell(n))
    BY WholeIsNumber
  <2> QED
    BY <2>1, <2>5, <2>6, NumberQuotient
<1> HIDE DEF mean
<1> QED
  BY <1>2, <1>3 DEF Begins, Col

LEMMA VarianceBegins ==
    ASSUME NEW k \in Nat, NEW c, Begins(c, k, 1), NEW n \in Nat, n > 1
    PROVE  Begins(RollingVariance(c, n), k, n)
<1>1. DOMAIN c = 1 .. k /\ Col(c, k)
  BY ColumnLength DEF Begins
<1>2. PICK mean : mean = RollingMean(c, n)
  OBVIOUS
<1>3. Begins(mean, k, n)
  BY <1>2, RollingBegins
<1> DEFINE off(t, i) == Minus(c[t - n + i], mean[t])
           squares(t) == [i \in 1 .. n |-> Times(off(t, i), off(t, i))]
           variance(t) == Over(Total(squares(t)), Cell(n - 1))
<1>4. RollingVariance(c, n) = [t \in 1 .. k |-> IF t < n THEN NaN ELSE variance(t)]
  BY <1>1, <1>2 DEF RollingVariance
<1>5. ASSUME NEW t \in 1 .. k, ~ t < n PROVE IsFraction(variance(t))
  <2>1. ASSUME NEW i \in 1 .. n PROVE IsFraction(Times(off(t, i), off(t, i)))
    <3>1. t - n + i \in 1 .. k
      BY <1>5
    <3>2. IsFraction(c[t - n + i]) /\ IsFraction(mean[t])
      BY <1>3, <1>5, <3>1 DEF Begins
    <3>3. IsFraction(off(t, i))
      BY <3>2, NumberSum
    <3> HIDE DEF off
    <3> QED
      BY <3>3, NumberSum
  <2> HIDE DEF off
  <2>2. Begins(squares(t), n, 1)
    BY <2>1 DEF Begins, Col
  <2> HIDE DEF squares
  <2>3. IsFraction(Total(squares(t)))
    BY <2>2, TotalIsNumber
  <2>4. Positive(Cell(n - 1))
    BY WholeIsNumber
  <2> QED
    BY <2>3, <2>4, NumberQuotient
<1> HIDE DEF variance
<1> QED
  BY <1>4, <1>5 DEF Begins, Col

LEMMA SeenFrom ==
    ASSUME NEW k \in Nat, NEW c, NEW f \in Nat \ {0}, Begins(c, k, f), NEW t \in 1 .. k
    PROVE  Seen(c, t) = IF t < f THEN 0 ELSE t - f + 1
<1>1. \A i \in 1 .. t : c[i] # NaN <=> i >= f
  BY NumberIsThere DEF Begins
<1>2. {i \in 1 .. t : c[i] # NaN} = f .. t
  BY <1>1
<1>3. Cardinality(f .. t) = IF f > t THEN 0 ELSE t - f + 1
  BY FS_Interval
<1> QED
  BY <1>2, <1>3 DEF Seen

LEMMA ShrinksIsNumber ==
    ASSUME NEW n \in Nat \ {0}
    PROVE  IsFraction(Rational(n - 1, n + 1)) /\ NotNegative(Rational(n - 1, n + 1))
<1>1. PICK a \in Nat, b \in Nat \ {0} : a = n - 1 /\ b = n + 1
  OBVIOUS
<1> QED
  BY <1>1, FractionIs

\* The weighted mean of a column begins n - 1 rows after it.
LEMMA ExponentialBegins ==
    ASSUME NEW k \in Nat, NEW c, NEW f \in Nat \ {0}, Begins(c, k, f), NEW n \in Nat \ {0}
    PROVE  Begins(ExponentialMean(c, n), k, f + n - 1)
<1> DEFINE decay == Rational(n - 1, n + 1)
           values == [t \in 1 .. k |-> Fill(c[t], Cell(0))]
           ones == [t \in 1 .. k |-> IF c[t] = NaN THEN Cell(0) ELSE Cell(1)]
           sum == Decayed(decay, values)
           weights == Decayed(decay, ones)
<1>1. DOMAIN c = 1 .. k
  BY ColumnLength DEF Begins
<1>2. ExponentialMean(c, n) =
         [t \in 1 .. k |-> IF Seen(c, t) < n THEN NaN ELSE Over(sum[t], weights[t])]
  BY <1>1 DEF ExponentialMean
<1>3. IsFraction(decay) /\ NotNegative(decay)
  BY ShrinksIsNumber
<1>4. IsFraction(Cell(0)) /\ NotNegative(Cell(0)) /\ NotNegative(Cell(1)) /\ Positive(Cell(1))
  BY WholeIsNumber
<1>5. Begins(values, k, 1)
  BY <1>4, NumberIsThere DEF Begins, Col, Fill
<1>6. Col(ones, k) /\ \A i \in 1 .. k : NotNegative(ones[i])
  BY <1>4 DEF Col
<1> HIDE DEF decay, values
<1>7. ASSUME NEW t \in 1 .. k, ~ t < f + n - 1
      PROVE  IsFraction(Over(sum[t], weights[t]))
  <2>1. IsFraction(sum[t])
    BY <1>3, <1>5, DecayedIsNumber
  <2>2. ones[t] = Cell(1)
    <3>1. ~ t < f
      BY <1>7
    <3> QED
      BY <3>1, NumberIsThere DEF Begins
  <2> HIDE DEF ones
  <2>3. Positive(weights[t])
    BY <1>3, <1>4, <1>6, <2>2, DecayedSign
  <2> QED
    BY <2>1, <2>3, NumberQuotient
<1> HIDE DEF sum, weights
<1>8. \A t \in 1 .. k : Seen(c, t) < n <=> t < f + n - 1
  BY SeenFrom
<1> QED
  BY <1>2, <1>7, <1>8 DEF Begins, Col

\* The weighted mean of positive numbers is positive.
LEMMA ExponentialIsPositive ==
    ASSUME NEW k \in Nat, NEW c, Col(c, k), \A t \in 1 .. k : Positive(c[t]),
           NEW n \in Nat \ {0}, NEW t \in 1 .. k, t >= n
    PROVE  Positive(ExponentialMean(c, n)[t])
<1> DEFINE decay == Rational(n - 1, n + 1)
           values == [i \in 1 .. k |-> Fill(c[i], Cell(0))]
           ones == [i \in 1 .. k |-> IF c[i] = NaN THEN Cell(0) ELSE Cell(1)]
           sum == Decayed(decay, values)
           weights == Decayed(decay, ones)
<1>1. DOMAIN c = 1 .. k
  BY ColumnLength
<1>2. ExponentialMean(c, n) =
         [i \in 1 .. k |-> IF Seen(c, i) < n THEN NaN ELSE Over(sum[i], weights[i])]
  BY <1>1 DEF ExponentialMean
<1>3. ASSUME NEW i \in 1 .. k PROVE c[i] # NaN /\ NotNegative(c[i]) /\ IsFraction(c[i])
  <2>1. NotNegative(c[i])
    BY SignsAreNumbers
  <2>2. IsFraction(c[i])
    BY <2>1, SignsAreNumbers
  <2> QED
    BY <2>1, <2>2, NumberIsThere
<1>4. Begins(c, k, 1)
  BY <1>3 DEF Begins
<1>5. ~ Seen(c, t) < n
  BY <1>4, SeenFrom
<1>6. NotNegative(decay)
  BY ShrinksIsNumber
<1>7. NotNegative(Cell(1)) /\ Positive(Cell(1))
  BY WholeIsNumber
<1>8. values = c /\ Col(ones, k) /\ \A i \in 1 .. k : ones[i] = Cell(1)
  BY <1>3 DEF Fill, Col
<1> HIDE DEF decay, values, ones
<1>9. Positive(sum[t]) /\ Positive(weights[t])
  <2>1. t \in 0 .. k /\ t # 0
    OBVIOUS
  <2>2. Positive(Decayed(decay, c)[t])
    BY <1>3, <1>6, <2>1, DecayedSign
  <2>3. Positive(Decayed(decay, ones)[t])
    BY <1>6, <1>7, <1>8, <2>1, DecayedSign
  <2> QED
    BY <1>8, <2>2, <2>3
<1> HIDE DEF sum, weights
<1>10. Positive(Over(sum[t], weights[t]))
  <2>1. NotNegative(sum[t])
    BY <1>9, SignsAreNumbers
  <2> QED
    BY <1>9, <2>1, SignOfQuotient
<1> HIDE DEF sum, weights
<1> QED
  BY <1>2, <1>5, <1>10

LEMMA MissingParts ==
    ASSUME NEW x, NEW y, x = NaN \/ y = NaN
    PROVE  Plus(x, y) = NaN /\ Times(x, y) = NaN /\ Over(x, y) = NaN /\ Minus(x, y) = NaN
<1>1. Plus(x, y) = NaN /\ Times(x, y) = NaN /\ Over(x, y) = NaN
  BY DEF Plus, Times, Over, Missing
<1>2. x = NaN \/ Times(Cell(-1), y) = NaN
  BY DEF Times, Missing
<1>3. Minus(x, y) = NaN
  BY <1>2 DEF Minus, Plus, Missing
<1> QED
  BY <1>1, <1>3

\* Cell by cell, a combination of columns begins with the later one.
LEMMA SumBegins ==
    ASSUME NEW k \in Nat, NEW c, NEW d, NEW f \in Nat, NEW h \in Nat,
           Begins(c, k, f), Begins(d, k, h), NEW l, l = IF f < h THEN h ELSE f
    PROVE  Begins(Combine(Plus, c, d), k, l) /\ Begins(Combine(Minus, c, d), k, l)
<1>1. DOMAIN c = 1 .. k
  BY ColumnLength DEF Begins
<1>2. /\ Combine(Plus, c, d) = [t \in 1 .. k |-> Plus(c[t], d[t])]
      /\ Combine(Minus, c, d) = [t \in 1 .. k |-> Minus(c[t], d[t])]
  BY <1>1 DEF Combine
<1>3. ASSUME NEW t \in 1 .. k
      PROVE  IF t < l THEN Plus(c[t], d[t]) = NaN /\ Minus(c[t], d[t]) = NaN
             ELSE IsFraction(Plus(c[t], d[t])) /\ IsFraction(Minus(c[t], d[t]))
  <2>1. CASE t < l
    <3>1. c[t] = NaN \/ d[t] = NaN
      BY <2>1 DEF Begins
    <3> QED
      BY <2>1, <3>1, MissingParts
  <2>2. CASE ~ t < l
    <3>1. IsFraction(c[t]) /\ IsFraction(d[t])
      BY <2>2 DEF Begins
    <3> QED
      BY <2>2, <3>1, NumberSum
  <2> QED
    BY <2>1, <2>2
<1> QED
  BY <1>2, <1>3 DEF Begins, Col

\* A frame of k rows whose prices are numbers.
Priced(s, k) ==
    /\ Begins(Open(s), k, 1) /\ Begins(High(s), k, 1)
    /\ Begins(Low(s), k, 1) /\ Begins(Close(s), k, 1)

LEMMA RangeBegins ==
    ASSUME NEW k \in Nat, NEW s, Priced(s, k), NEW n \in Nat \ {0}
    PROVE  Begins(ATR(s, n)[<<"ATR", n>>], k, n)
<1> DEFINE prev == Shift(Close(s), 1)
           True(h, o, p) == IF p = NaN THEN Minus(h, o)
                            ELSE Greatest(Minus(h, o), Greatest(Distance(h, p), Distance(p, o)))
           ranges == [t \in DOMAIN prev |-> True(High(s)[t], Low(s)[t], prev[t])]
<1>1. DOMAIN Close(s) = 1 .. k
  BY ColumnLength DEF Priced, Begins
<1>2. /\ DOMAIN prev = 1 .. k
      /\ \A t \in 1 .. k : prev[t] = NaN \/ IsFraction(prev[t])
  BY <1>1 DEF Shift, Priced, Begins
<1> HIDE DEF prev
<1>3. ASSUME NEW h, NEW o, NEW p, IsFraction(h), IsFraction(o), p = NaN \/ IsFraction(p)
      PROVE  IsFraction(True(h, o, p))
  <2>1. IsFraction(Minus(h, o))
    BY <1>3, NumberSum
  <2>2. CASE p # NaN
    <3>1. /\ IsFraction(Minus(h, p)) /\ IsFraction(Minus(p, h))
          /\ IsFraction(Minus(p, o)) /\ IsFraction(Minus(o, p))
      BY <1>3, <2>2, NumberSum
    <3>2. IsFraction(Distance(h, p)) /\ IsFraction(Distance(p, o))
      BY <3>1 DEF Distance, Greatest
    <3> QED
      BY <2>1, <2>2, <3>2 DEF Greatest
  <2> QED
    BY <2>1, <2>2
<1> HIDE DEF True
<1>4. Begins(ranges, k, 1)
  <2>1. \A t \in 1 .. k : IsFraction(High(s)[t]) /\ IsFraction(Low(s)[t])
    BY DEF Priced, Begins
  <2> QED
    BY <1>2, <1>3, <2>1 DEF Begins, Col
<1>5. ATR(s, n)[<<"ATR", n>>] = RollingMean(ranges, n)
  BY DEF ATR, Assign, prev, True
<1> HIDE DEF ranges
<1> QED
  BY <1>4, <1>5, RollingBegins

LEMMA ChannelsBegin ==
    ASSUME NEW k \in Nat, NEW s, Priced(s, k), Prices \subseteq DOMAIN s, NEW n \in Nat \ {0}
    PROVE  /\ Begins(KeltnerChannels(s, n, n)[Name("KeUp")], k, n)
           /\ Begins(KeltnerChannels(s, n, n)[Name("KeLo")], k, n)
<1>1. SamePrices(s, s)
  BY DEF SamePrices
<1>2. PICK atr, ema : atr = ATR(s, n)[<<"ATR", n>>] /\ ema = ExponentialMean(Close(s), n)
  OBVIOUS
<1>3. Begins(atr, k, n)
  BY <1>2, RangeBegins
<1>4. Begins(ema, k, n)
  <2>1. Begins(ExponentialMean(Close(s), n), k, 1 + n - 1)
    BY ExponentialBegins DEF Priced
  <2>2. 1 + n - 1 = n
    OBVIOUS
  <2> QED
    BY <1>2, <2>1, <2>2
<1>5. Begins(Combine(Plus, atr, atr), k, n)
  BY <1>3, SumBegins
<1>6. /\ Begins(Combine(Plus, Combine(Plus, atr, atr), ema), k, n)
      /\ Begins(Combine(Minus, ema, Combine(Plus, atr, atr)), k, n)
  BY <1>4, <1>5, SumBegins
<1>7. \A x \in {s} :
         /\ KeltnerChannels(x, n, n)[<<"ATR", n>>] = ATR(s, n)[<<"ATR", n>>]
         /\ KeltnerChannels(x, n, n)[<<"EMA", n>>] = ExponentialMean(Close(s), n)
         /\ KeltnerChannels(x, n, n)[Name("KeUp")] =
               Combine(Plus, Combine(Plus, ATR(s, n)[<<"ATR", n>>], ATR(s, n)[<<"ATR", n>>]),
                       ExponentialMean(Close(s), n))
         /\ KeltnerChannels(x, n, n)[Name("KeLo")] =
               Combine(Minus, ExponentialMean(Close(s), n),
                       Combine(Plus, ATR(s, n)[<<"ATR", n>>], ATR(s, n)[<<"ATR", n>>]))
  BY <1>1, KeltnerColumns
<1>8. /\ KeltnerChannels(s, n, n)[Name("KeUp")] = Combine(Plus, Combine(Plus, atr, atr), ema)
      /\ KeltnerChannels(s, n, n)[Name("KeLo")] = Combine(Minus, ema, Combine(Plus, atr, atr))
  BY <1>2, <1>7
<1> QED
  BY <1>6, <1>8

LEMMA BandsBegin ==
    ASSUME NEW k \in Nat, NEW s, Priced(s, k), NEW n \in Nat, n > 1
    PROVE  /\ Begins(BollingerBands(s, n)[Name("BB_MA")], k, n)
           /\ Begins(BollingerBands(s, n)[Name("BB_VAR")], k, n)
<1> DEFINE typical == [t \in DOMAIN Close(s) |->
                          Over(Plus(Close(s)[t], Plus(High(s)[t], Low(s)[t])), Cell(3))]
<1>1. DOMAIN Close(s) = 1 .. k
  BY ColumnLength DEF Priced, Begins
<1>2. ASSUME NEW t \in 1 .. k PROVE IsFraction(typical[t])
  <2>1. IsFraction(Close(s)[t]) /\ IsFraction(High(s)[t]) /\ IsFraction(Low(s)[t])
    BY DEF Priced, Begins
  <2>2. IsFraction(Plus(Close(s)[t], Plus(High(s)[t], Low(s)[t])))
    BY <2>1, NumberSum
  <2>3. Positive(Cell(3))
    BY WholeIsNumber
  <2> QED
    BY <1>1, <2>2, <2>3, NumberQuotient
<1>3. Begins(typical, k, 1)
  BY <1>1, <1>2 DEF Begins, Col
<1>4. BollingerBands(s, n) = Assign(Assign(s, Name("BB_MA"), RollingMean(typical, n)),
                                    Name("BB_VAR"), RollingVariance(typical, n))
  BY DEF BollingerBands
<1>5. Name("BB_MA") # Name("BB_VAR")
  BY NamesDiffer DEF Name
<1> HIDE DEF typical
<1>6. /\ BollingerBands(s, n)[Name("BB_MA")] = RollingMean(typical, n)
      /\ BollingerBands(s, n)[Name("BB_VAR")] = RollingVariance(typical, n)
  BY <1>4, <1>5 DEF Assign
<1> QED
  BY <1>3, <1>6, RollingBegins, VarianceBegins

LEMMA OscillatorBegins ==
    ASSUME NEW k \in Nat, NEW s, Priced(s, k), NEW n \in Nat, n > 1
    PROVE  /\ Begins(MACD(s, n, n - 1, n)[Name("MACD")], k, n)
           /\ Begins(MACD(s, n, n - 1, n)[Name("MACD_SIGNAL")], k, 2 * n - 1)
           /\ Begins(MACD(s, n, n - 1, n)[Name("HIST")], k, 2 * n - 1)
<1> DEFINE macd == Combine(Minus, ExponentialMean(Close(s), n - 1), ExponentialMean(Close(s), n))
           signal == ExponentialMean(macd, n)
<1>1. PICK fast \in Nat \ {0}, late \in Nat : fast = n - 1 /\ late = 2 * n - 1
  OBVIOUS
<1>2. Begins(ExponentialMean(Close(s), fast), k, fast)
  <2>1. Begins(ExponentialMean(Close(s), fast), k, 1 + fast - 1)
    BY ExponentialBegins DEF Priced
  <2>2. 1 + fast - 1 = fast
    OBVIOUS
  <2> QED
    BY <2>1, <2>2
<1>3. Begins(ExponentialMean(Close(s), n), k, n)
  <2>1. Begins(ExponentialMean(Close(s), n), k, 1 + n - 1)
    BY ExponentialBegins DEF Priced
  <2>2. 1 + n - 1 = n
    OBVIOUS
  <2> QED
    BY <2>1, <2>2
<1>4. Begins(macd, k, n)
  <2>1. n = IF fast < n THEN n ELSE fast
    BY <1>1
  <2> QED
    BY <1>1, <1>2, <1>3, <2>1, SumBegins
<1>5. MACD(s, n, n - 1, n) =
         Assign(Assign(Assign(s, Name("MACD"), macd), Name("MACD_SIGNAL"), signal),
                Name("HIST"), Combine(Minus, macd, signal))
  BY DEF MACD
<1> HIDE DEF macd
<1>6. Begins(signal, k, late)
  <2>1. Begins(signal, k, n + n - 1)
    BY <1>4, ExponentialBegins
  <2>2. n + n - 1 = late
    BY <1>1
  <2> QED
    BY <2>1, <2>2
<1> HIDE DEF signal
<1>7. Begins(Combine(Minus, macd, signal), k, late)
  <2>1. late = IF n < late THEN late ELSE n
    BY <1>1
  <2> QED
    BY <1>4, <1>6, <2>1, SumBegins
<1>8. /\ Name("MACD") # Name("MACD_SIGNAL") /\ Name("MACD") # Name("HIST")
      /\ Name("MACD_SIGNAL") # Name("HIST")
  BY NamesDiffer DEF Name
<1>9. /\ MACD(s, n, n - 1, n)[Name("MACD")] = macd
      /\ MACD(s, n, n - 1, n)[Name("MACD_SIGNAL")] = signal
      /\ MACD(s, n, n - 1, n)[Name("HIST")] = Combine(Minus, macd, signal)
  BY <1>5, <1>8 DEF Assign
<1> QED
  BY <1>1, <1>4, <1>6, <1>7, <1>9

LEMMA BiasBegins ==
    ASSUME NEW k \in Nat, NEW s, Priced(s, k), Bare(s), NEW n \in Nat \ {0},
           \A t \in 1 .. k : Positive(Close(s)[t])
    PROVE  Begins(BIAS(s, n)[<<"BIAS", n>>], k, n)
<1> DEFINE off(c, e) == Times(Over(Minus(c, e), e), Cell(100))
<1>1. PICK ema : ema = ExponentialMean(Close(s), n)
  OBVIOUS
<1>2. Begins(ema, k, n)
  <2>1. Begins(ExponentialMean(Close(s), n), k, 1 + n - 1)
    BY ExponentialBegins DEF Priced
  <2>2. 1 + n - 1 = n
    OBVIOUS
  <2> QED
    BY <1>1, <2>1, <2>2
<1>3. DOMAIN Close(s) = 1 .. k /\ Col(Close(s), k)
  BY ColumnLength DEF Priced, Begins
<1>4. BIAS(s, n)[<<"BIAS", n>>] = [t \in 1 .. k |-> off(Close(s)[t], ema[t])]
  <2>1. <<"EMA", n>> \notin DOMAIN s
    BY DEF Bare
  <2>2. EMA(s, n)[<<"EMA", n>>] = ema
    BY <1>1 DEF EMA, Assign
  <2> QED
    BY <1>3, <2>1, <2>2 DEF BIAS, Combine, Assign
<1>5. ASSUME NEW t \in 1 .. k
      PROVE  IF t < n THEN off(Close(s)[t], ema[t]) = NaN ELSE IsFraction(off(Close(s)[t], ema[t]))
  <2>1. CASE t < n
    <3>1. ema[t] = NaN
      BY <1>2, <2>1 DEF Begins
    <3> QED
      BY <2>1, <3>1, MissingParts
  <2>2. CASE ~ t < n
    <3>1. IsFraction(Close(s)[t]) /\ IsFraction(ema[t])
      BY <1>2, <2>2 DEF Begins, Priced
    <3>2. Positive(ema[t])
      BY <1>1, <1>3, <2>2, ExponentialIsPositive
    <3>3. IsFraction(Over(Minus(Close(s)[t], ema[t]), ema[t]))
      BY <3>1, <3>2, NumberSum, NumberQuotient
    <3>4. IsFraction(Cell(100))
      BY WholeIsNumber
    <3> QED
      BY <2>2, <3>3, <3>4, NumberSum
  <2> QED
    BY <2>1, <2>2
<1> HIDE DEF off
<1> QED
  BY <1>4, <1>5 DEF Begins, Col

LEMMA EngulfingBegins ==
    ASSUME NEW k \in Nat, NEW s, Priced(s, k), NEW factor
    PROVE  Begins(Engulfing(s, factor)[Name("ENGULFING")], k, 1)
<1>1. DOMAIN Close(s) = 1 .. k
  BY ColumnLength DEF Priced, Begins
<1>2. IsFraction(Cell(1)) /\ IsFraction(Cell(0))
  BY WholeIsNumber
<1>3. PICK Q : Engulfing(s, factor)[Name("ENGULFING")] =
                  [t \in 1 .. k |-> IF Q[t] THEN Cell(1) ELSE Cell(0)]
  <2> DEFINE diff == Combine(Minus, Close(s), Open(s))
             size == Combine(Distance, Close(s), Open(s))
             direction == [t \in DOMAIN diff |-> IF Less(diff[t], Cell(0)) THEN Cell(-1) ELSE Cell(1)]
             opposite(t) == Shift(direction, 1)[t] \notin {direction[t], NaN}
             larger(t) == Less(Times(Shift(size, 1)[t], factor), size[t])
             both == [t \in 1 .. k |-> opposite(t) /\ larger(t)]
  <2>1. DOMAIN diff = 1 .. k
    BY <1>1 DEF Combine
  <2>2. Engulfing(s, factor)[Name("ENGULFING")] =
           [t \in DOMAIN diff |-> IF opposite(t) /\ larger(t) THEN Cell(1) ELSE Cell(0)]
    BY DEF Engulfing, Assign
  <2> HIDE DEF diff, opposite, larger
  <2>3. Engulfing(s, factor)[Name("ENGULFING")] =
           [t \in 1 .. k |-> IF both[t] THEN Cell(1) ELSE Cell(0)]
    BY <2>1, <2>2
  <2> QED
    BY <2>3
<1> QED
  BY <1>2, <1>3 DEF Begins, Col

\* What rose or fell, day by day: nothing is known of the first day.
Daily(c, k) ==
    /\ Col(c, k)
    /\ (k > 0 => c[1] = NaN)
    /\ \A t \in 2 .. k : NotNegative(c[t])

LEMMA ZeroIsNotPositive == ~ Positive(Cell(0))
<1> SUFFICES ASSUME NEW n \in Nat \ {0}, NEW d \in Nat \ {0}, Cell(0) = Rational(n, d)
             PROVE  FALSE
  BY DEF Positive
<1>1. PICK g, p, q : Reduced(n, d, g, p, q)
  BY Reduction
<1>2. p = 0 /\ n = g * p /\ g \in Nat \ {0}
  BY <1>1 DEF Reduced, Cell
<1> QED
  BY <1>2

LEMMA ZeroMean ==
    ASSUME NEW n \in Nat, n > 1
    PROVE  Over(Plus(Times(Cell(n - 1), Cell(0)), Cell(0)), Cell(n)) = Cell(0)
<1>1. PICK m \in Nat \ {0} : m = n - 1
  OBVIOUS
<1>2. \A i \in Nat : Cell(i) = Rational(i, 1)
  BY CellIs
<1>3. Times(Rational(m, 1), Rational(0, 1)) = Rational(m * 0, 1 * 1)
  BY ProductOf
<1>4. Times(Cell(m), Cell(0)) = Cell(0)
  BY <1>2, <1>3
<1>5. Plus(Rational(0, 1), Rational(0, 1)) = Rational(0 * 1 + 0 * 1, 1 * 1)
  BY SumOf
<1>6. Plus(Cell(0), Cell(0)) = Cell(0)
  BY <1>2, <1>5
<1>7. Over(Rational(0, 1), Rational(n, 1)) = Rational(0 * 1, 1 * n)
  BY QuotientOf
<1>8. Rational(0, n) = Rational(0, 1)
  <2>1. 0 = n * 0 /\ n = n * 1 /\ n \in Nat \ {0}
    OBVIOUS
  <2> QED
    BY <2>1, Rescaled
<1>9. 0 * 1 = 0 /\ 1 * n = n
  OBVIOUS
<1>10. Over(Cell(0), Cell(n)) = Cell(0)
  BY <1>2, <1>7, <1>8, <1>9
<1> QED
  BY <1>1, <1>4, <1>6, <1>10

LEMMA SmoothedSign ==
    ASSUME NEW k \in Nat, NEW c, Daily(c, k), NEW n \in Nat, n > 1, NEW t \in 2 .. k
    PROVE  /\ NotNegative(Smoothed(c, n)[t])
           /\ Positive(Smoothed(c, n)[t]) <=> \E i \in 2 .. t : Positive(c[i])
<1>1. PICK mean : mean = Smoothed(c, n)
  OBVIOUS
<1>2. SmoothedBy(c, n, k, mean)
  BY <1>1, SmoothedStep DEF Daily
<1>3. mean[0] = NaN /\ mean[1] = NaN
  BY <1>2 DEF SmoothedBy, Daily
<1> DEFINE Q(i) == /\ NotNegative(mean[i])
                   /\ Positive(mean[i]) <=> \E j \in 2 .. i : Positive(c[j])
           T == {i \in Nat : i + 2 <= k => Q(i + 2)}
<1>4. 0 \in T
  <2> SUFFICES ASSUME 2 <= k PROVE Q(2)
    OBVIOUS
  <2>1. mean[2] = IF mean[1] = NaN THEN c[2]
                  ELSE Over(Plus(Times(Cell(n - 1), mean[1]), c[2]), Cell(n))
    BY <1>2 DEF SmoothedBy
  <2>2. mean[2] = c[2]
    BY <1>3, <2>1
  <2> QED
    BY <2>2 DEF Daily
<1>5. ASSUME NEW m \in Nat, m \in T PROVE m + 1 \in T
  <2> SUFFICES ASSUME m + 1 + 2 <= k PROVE Q(m + 1 + 2)
    OBVIOUS
  <2>1. PICK i \in 2 .. k, h \in 3 .. k : i = m + 2 /\ h = i + 1 /\ h = m + 1 + 2 /\ h - 1 = i
    OBVIOUS
  <2>2. Q(i)
    BY <1>5, <2>1
  <2>3. mean[i] # NaN
    BY <2>2, SignsAreNumbers, NumberIsThere
  <2>4. mean[h] = IF mean[i] = NaN THEN c[h]
                  ELSE Over(Plus(Times(Cell(n - 1), mean[i]), c[h]), Cell(n))
    BY <1>2, <2>1 DEF SmoothedBy
  <2>5. PICK part, sum : part = Times(Cell(n - 1), mean[i]) /\ sum = Plus(part, c[h])
    OBVIOUS
  <2>6. mean[h] = Over(sum, Cell(n))
    BY <2>3, <2>4, <2>5
  <2>7. /\ Positive(Cell(n - 1)) /\ Positive(Cell(n))
        /\ NotNegative(Cell(n - 1)) /\ NotNegative(c[h])
    BY <2>1, WholeIsNumber DEF Daily
  <2>8. NotNegative(part) /\ (Positive(mean[i]) => Positive(part))
    BY <2>2, <2>5, <2>7, SignOfSum
  <2>9. NotNegative(sum) /\ (Positive(mean[i]) \/ Positive(c[h]) => Positive(sum))
    BY <2>5, <2>7, <2>8, SignOfSum
  <2>10. NotNegative(mean[h]) /\ (Positive(mean[i]) \/ Positive(c[h]) => Positive(mean[h]))
    BY <2>6, <2>7, <2>9, SignOfQuotient
  <2>11. ASSUME ~ Positive(mean[i]), ~ Positive(c[h]) PROVE ~ Positive(mean[h])
    <3>1. mean[i] = Cell(0) /\ c[h] = Cell(0)
      BY <2>2, <2>7, <2>11, ZeroOrPositive
    <3>2. mean[h] = Cell(0)
      BY <2>5, <2>6, <3>1, ZeroMean
    <3> QED
      BY <3>2, ZeroIsNotPositive
  <2>12. \A j \in 2 .. h : j \in 2 .. i \/ j = h
    BY <2>1
  <2>13. 2 .. i \subseteq 2 .. h /\ h \in 2 .. h
    BY <2>1
  <2>14. Positive(mean[h]) <=> Positive(mean[i]) \/ Positive(c[h])
    BY <2>10, <2>11
  <2>15. (\E j \in 2 .. h : Positive(c[j])) <=> (\E j \in 2 .. i : Positive(c[j])) \/ Positive(c[h])
    BY <2>12, <2>13
  <2>16. Q(h)
    BY <2>2, <2>10, <2>14, <2>15
  <2> QED
    BY <2>1, <2>16
<1> HIDE DEF T, Q
<1>6. t - 2 \in T /\ t - 2 + 2 = t
  BY <1>4, <1>5, AllNumbers
<1>7. Q(t)
  BY <1>6 DEF T
<1> QED
  BY <1>1, <1>7 DEF Q

\* A smoothed column begins n rows after the first, and is positive from the
\* first positive number on.
LEMMA WilderBegins ==
    ASSUME NEW k \in Nat, NEW c, Daily(c, k), NEW n \in Nat, n > 1, NEW t \in 1 .. k
    PROVE  IF t < n + 1
           THEN WilderMean(c, n)[t] = NaN
           ELSE /\ NotNegative(WilderMean(c, n)[t])
                /\ Positive(WilderMean(c, n)[t]) <=> \E i \in 2 .. t : Positive(c[i])
<1>1. Begins(c, k, 2)
  <2>1. \A i \in 2 .. k : IsFraction(c[i])
    BY SignsAreNumbers DEF Daily
  <2>2. \A i \in 1 .. k : i < 2 => i = 1 /\ k > 0
    OBVIOUS
  <2>3. \A i \in 1 .. k : ~ i < 2 => i \in 2 .. k
    OBVIOUS
  <2> QED
    BY <2>1, <2>2, <2>3 DEF Begins, Daily
<1>2. Seen(c, t) = IF t < 2 THEN 0 ELSE t - 1
  <2>1. Seen(c, t) = IF t < 2 THEN 0 ELSE t - 2 + 1
    BY <1>1, SeenFrom
  <2>2. t - 2 + 1 = t - 1
    OBVIOUS
  <2> QED
    BY <2>1, <2>2
<1>3. DOMAIN c = 1 .. k
  BY <1>1, ColumnLength DEF Begins
<1>4. PICK mean : mean = Smoothed(c, n)
  OBVIOUS
<1>5. WilderMean(c, n)[t] = IF Seen(c, t) < n THEN NaN ELSE mean[t]
  BY <1>3, <1>4 DEF WilderMean
<1>6. Seen(c, t) < n <=> t < n + 1
  BY <1>2
<1>7. CASE t < n + 1
  BY <1>5, <1>6, <1>7
<1>8. CASE ~ t < n + 1
  <2>1. t \in 2 .. k
    BY <1>8
  <2>2. NotNegative(mean[t]) /\ (Positive(mean[t]) <=> \E i \in 2 .. t : Positive(c[i]))
    BY <1>4, <2>1, SmoothedSign
  <2>3. WilderMean(c, n)[t] = mean[t]
    BY <1>5, <1>6, <1>8
  <2> QED
    BY <1>8, <2>2, <2>3
<1> QED
  BY <1>7, <1>8

\* Something that rose and never fell is infinitely strong: 100.
LEMMA InfiniteStrength ==
    ASSUME NEW w, Positive(w)
    PROVE  Over(Cell(100), Plus(Cell(1), Over(w, Cell(0)))) = Cell(0)
<1>1. PICK a \in Nat \ {0}, d \in Nat \ {0} : w = Rational(a, d)
  BY DEF Positive
<1>2. PICK g, p, q : Reduced(a, d, g, p, q)
  BY Reduction
<1>3. /\ w = <<p, q>> /\ p \in Int /\ q \in Nat \ {0} /\ g \in Nat \ {0} /\ a = g * p
  BY <1>1, <1>2 DEF Reduced
<1>4. p > 0 /\ p \in Nat /\ 0 \in Nat
  BY <1>1, <1>3
<1>5. PICK big : big = Rational(p, 0)
  OBVIOUS
<1>6. big = <<1, 0>>
  <2>1. gcd[0][p] = p
    BY <1>3, <1>4, GcdStep
  <2>2. Magnitude(0) = 0 /\ Magnitude(p) = p
    BY <1>4 DEF Magnitude
  <2>3. p \div p = 1 /\ 0 \div p = 0
    <3>1. (p * 1) \div p = 1 /\ (p * 0) \div p = 0
      BY <1>3, <1>4, ExactDivision
    <3>2. p * 1 = p /\ p * 0 = 0
      BY <1>3
    <3> QED
      BY <3>1, <3>2
  <2> QED
    BY <1>4, <1>5, <2>1, <2>2, <2>3 DEF Rational
<1>7. Over(w, Cell(0)) = big
  <2>1. Over(<<p, q>>, <<0, 1>>) = Rational(p * 1, q * 0)
    BY PairIsThere DEF Over, Missing
  <2>2. p * 1 = p /\ q * 0 = 0
    BY <1>3
  <2> QED
    BY <1>3, <1>5, <2>1, <2>2 DEF Cell
<1>8. Plus(Cell(1), big) = Rational(1, 0)
  <2>1. Plus(<<1, 1>>, <<1, 0>>) = Rational(1 * 0 + 1 * 1, 1 * 0)
    BY PairIsThere DEF Plus, Missing
  <2> QED
    BY <1>6, <2>1 DEF Cell
<1>9. Rational(1, 0) = <<1, 0>>
  <2>1. gcd[0][1] = 1
    BY GcdStep
  <2>2. Magnitude(0) = 0 /\ Magnitude(1) = 1
    BY DEF Magnitude
  <2> QED
    BY <2>1, <2>2 DEF Rational
<1>10. Over(Cell(100), <<1, 0>>) = Rational(0, 1)
  <2>1. Over(<<100, 1>>, <<1, 0>>) = Rational(100 * 0, 1 * 1)
    BY PairIsThere DEF Over, Missing
  <2> QED
    BY <2>1 DEF Cell
<1>11. Rational(0, 1) = Cell(0)
  BY CellIs
<1> QED
  BY <1>7, <1>8, <1>9, <1>10, <1>11

\* Only what neither rose nor fell has no strength: zero divided by zero.
LEMMA StrengthOf ==
    ASSUME NEW w, NEW l, NotNegative(w), NotNegative(l)
    PROVE  Rounded(Minus(Cell(100), Over(Cell(100), Plus(Cell(1), Over(w, l))))) # NaN
              <=> Positive(w) \/ Positive(l)
<1> DEFINE Part == Over(Cell(100), Plus(Cell(1), Over(w, l)))
<1>1. IsFraction(Cell(100)) /\ Positive(Cell(1)) /\ NotNegative(Cell(1)) /\ IsFraction(Cell(0))
  BY WholeIsNumber
<1>2. CASE Positive(l)
  <2>1. NotNegative(Over(w, l))
    BY <1>2, SignOfQuotient
  <2>2. Positive(Plus(Cell(1), Over(w, l)))
    BY <1>1, <2>1, SignOfSum
  <2>3. IsFraction(Part)
    BY <1>1, <2>2, NumberQuotient
  <2>4. Rounded(Minus(Cell(100), Part)) # NaN
    BY <1>1, <2>3, NumberSum, RoundedIsThere
  <2> QED
    BY <1>2, <2>4
<1>3. CASE ~ Positive(l) /\ Positive(w)
  <2>1. l = Cell(0)
    BY <1>3, ZeroOrPositive
  <2>2. Part = Cell(0)
    BY <1>3, <2>1, InfiniteStrength
  <2>3. Rounded(Minus(Cell(100), Part)) # NaN
    BY <1>1, <2>2, NumberSum, RoundedIsThere
  <2> QED
    BY <1>3, <2>3
<1>4. CASE ~ Positive(l) /\ ~ Positive(w)
  <2>1. w = Cell(0) /\ l = Cell(0)
    BY <1>4, ZeroOrPositive
  <2>2. Over(Cell(0), Cell(0)) = NaN
    <3>1. Over(<<0, 1>>, <<0, 1>>) = Rational(0 * 1, 1 * 0)
      BY PairIsThere DEF Over, Missing
    <3> QED
      BY <3>1 DEF Cell, Rational
  <2>3. Plus(Cell(1), NaN) = NaN /\ Over(Cell(100), NaN) = NaN /\ Minus(Cell(100), NaN) = NaN
    BY MissingParts
  <2> QED
    BY <1>4, <2>1, <2>2, <2>3, RoundedNothing
<1> QED
  BY <1>2, <1>3, <1>4

\* What a price has risen or fallen by, of which the other is cut off at 0.
LEMMA ClippedSigns ==
    ASSUME NEW x \in Int
    PROVE  /\ NotNegative(Greatest(Cell(x), Cell(0)))
           /\ Positive(Greatest(Cell(x), Cell(0))) <=> x > 0
           /\ NotNegative(Minus(Cell(0), Least(Cell(x), Cell(0))))
           /\ Positive(Minus(Cell(0), Least(Cell(x), Cell(0)))) <=> x < 0
<1>1. (Less(Cell(x), Cell(0)) <=> x < 0) /\ (Less(Cell(0), Cell(x)) <=> 0 < x)
  BY WholeComparison
<1>2. PICK z \in Int : z = 0
  OBVIOUS
<1>3. PICK y \in Int : y = z - x
  OBVIOUS
<1>4. Minus(Cell(z), Cell(x)) = Cell(y) /\ Minus(Cell(z), Cell(z)) = Cell(z)
  <2>1. z - z = z
    BY <1>2
  <2> QED
    BY <1>3, <2>1, WholeDifference
<1>5. NotNegative(Cell(0)) /\ ~ Positive(Cell(0))
  BY WholeIsNumber, ZeroIsNotPositive
<1>6. CASE x > 0
  <2>1. NotNegative(Cell(x)) /\ Positive(Cell(x))
    BY <1>6, WholeIsNumber
  <2>2. Greatest(Cell(x), Cell(0)) = Cell(x) /\ Least(Cell(x), Cell(0)) = Cell(0)
    BY <1>1, <1>6 DEF Greatest, Least
  <2> QED
    BY <1>2, <1>4, <1>5, <1>6, <2>1, <2>2
<1>7. CASE x < 0
  <2>1. NotNegative(Cell(y)) /\ Positive(Cell(y))
    BY <1>2, <1>3, <1>7, WholeIsNumber
  <2>2. Greatest(Cell(x), Cell(0)) = Cell(0) /\ Least(Cell(x), Cell(0)) = Cell(x)
    BY <1>1, <1>7 DEF Greatest, Least
  <2> QED
    BY <1>2, <1>4, <1>5, <1>7, <2>1, <2>2
<1>8. CASE x = 0
  <2>1. Greatest(Cell(x), Cell(0)) = Cell(0) /\ Least(Cell(x), Cell(0)) = Cell(0)
    BY <1>8 DEF Greatest, Least
  <2> QED
    BY <1>2, <1>4, <1>5, <1>8, <2>1
<1> QED
  BY <1>6, <1>7, <1>8

\* The strength begins n rows after the first, once the price has moved.
LEMMA StrengthBegins ==
    ASSUME NEW k \in Nat, NEW s, NEW p, Col(Close(s), k),
           \A i \in 1 .. k : p[i] \in Int /\ Close(s)[i] = Cell(p[i]),
           NEW n \in Nat, n > 1, NEW t \in 1 .. k
    PROVE  RSI(s, n)[<<"RSI", n>>][t] # NaN
              <=> t >= n + 1 /\ \E i \in 2 .. t : p[i] # p[i - 1]
<1> DEFINE Gains == Combine(Minus, Close(s), Shift(Close(s), 1))
           Rises == [i \in DOMAIN Gains |-> IF Gains[i] = NaN THEN NaN ELSE Greatest(Gains[i], Cell(0))]
           Falls == [i \in DOMAIN Gains |-> IF Gains[i] = NaN THEN NaN ELSE Least(Gains[i], Cell(0))]
           Drops == Combine(Minus, [i \in DOMAIN Gains |-> Cell(0)], Falls)
           Win == WilderMean(Rises, n)
           Loss == WilderMean(Drops, n)
           Strength(rs) == Rounded(Minus(Cell(100), Over(Cell(100), Plus(Cell(1), rs))))
<1>1. RSI(s, n)[<<"RSI", n>>] = [i \in DOMAIN Gains |-> Strength(Over(Win[i], Loss[i]))]
  BY DEF RSI, Assign
<1>2. DOMAIN Close(s) = 1 .. k /\ DOMAIN Gains = 1 .. k
  BY ColumnLength DEF Combine
<1>3. ASSUME NEW i \in 1 .. k
      PROVE  Gains[i] = IF i = 1 THEN NaN ELSE Cell(p[i] - p[i - 1])
  <2>1. Gains[i] = Minus(Cell(p[i]), IF i - 1 \in 1 .. k THEN Cell(p[i - 1]) ELSE NaN)
    BY <1>2 DEF Combine, Shift
  <2>2. CASE i = 1
    <3>1. Gains[i] = Minus(Cell(p[i]), NaN)
      <4>1. ~ i - 1 \in 1 .. k
        BY <2>2
      <4>2. (IF i - 1 \in 1 .. k THEN Cell(p[i - 1]) ELSE NaN) = NaN
        BY <4>1, Zenon
      <4> QED
        BY <2>1, <4>2, Zenon
    <3>2. Minus(Cell(p[i]), NaN) = NaN
      BY MissingParts
    <3> QED
      BY <2>2, <3>1, <3>2
  <2>3. CASE i # 1
    <3>1. i - 1 \in 1 .. k
      BY <2>3
    <3>2. p[i] \in Int /\ p[i - 1] \in Int
      BY <3>1
    <3> QED
      BY <2>1, <2>3, <3>1, <3>2, WholeDifference
  <2> QED
    BY <2>2, <2>3
<1>4. Col(Drops, k) /\ Col(Rises, k) /\ \A i \in 1 .. k : Drops[i] = Minus(Cell(0), Falls[i])
  BY <1>2 DEF Combine, Col
<1> HIDE DEF Gains, Drops
<1>5. ASSUME k > 0 PROVE Rises[1] = NaN /\ Drops[1] = NaN
  <2>1. Gains[1] = NaN
    BY <1>3, <1>5
  <2>2. Rises[1] = NaN /\ Falls[1] = NaN
    BY <1>2, <1>5, <2>1
  <2>3. Drops[1] = Minus(Cell(0), NaN)
    <3>1. 1 \in 1 .. k
      BY <1>5
    <3>2. Drops[1] = Minus(Cell(0), Falls[1])
      BY <1>4, <3>1
    <3> QED
      BY <2>2, <3>2
  <2>4. Minus(Cell(0), NaN) = NaN
    BY MissingParts
  <2> QED
    BY <2>2, <2>3, <2>4
<1>6. ASSUME NEW i \in 2 .. k
      PROVE  /\ NotNegative(Rises[i]) /\ (Positive(Rises[i]) <=> p[i] > p[i - 1])
             /\ NotNegative(Drops[i]) /\ (Positive(Drops[i]) <=> p[i] < p[i - 1])
  <2>1. i \in 1 .. k /\ i - 1 \in 1 .. k /\ i # 1
    OBVIOUS
  <2>2. PICK x \in Int : x = p[i] - p[i - 1] /\ (x > 0 <=> p[i] > p[i - 1]) /\ (x < 0 <=> p[i] < p[i - 1])
    BY <2>1
  <2>3. Gains[i] = Cell(x) /\ Cell(x) # NaN
    BY <1>3, <2>1, <2>2, CellIs
  <2>4. Rises[i] = Greatest(Cell(x), Cell(0)) /\ Falls[i] = Least(Cell(x), Cell(0))
    BY <1>2, <2>1, <2>3
  <2>5. Drops[i] = Minus(Cell(0), Least(Cell(x), Cell(0)))
    BY <1>4, <2>1, <2>4
  <2> QED
    BY <2>2, <2>4, <2>5, ClippedSigns
<1> HIDE DEF Rises, Falls
<1>7. Daily(Rises, k) /\ Daily(Drops, k)
  BY <1>4, <1>5, <1>6 DEF Daily
<1>8. IF t < n + 1
      THEN Win[t] = NaN
      ELSE NotNegative(Win[t]) /\ (Positive(Win[t]) <=> \E i \in 2 .. t : Positive(Rises[i]))
  BY <1>7, WilderBegins
<1>9. IF t < n + 1
      THEN Loss[t] = NaN
      ELSE NotNegative(Loss[t]) /\ (Positive(Loss[t]) <=> \E i \in 2 .. t : Positive(Drops[i]))
  BY <1>7, WilderBegins
<1>10. RSI(s, n)[<<"RSI", n>>][t] = Strength(Over(Win[t], Loss[t]))
  BY <1>1, <1>2
<1> HIDE DEF Win, Loss
<1>11. CASE t < n + 1
  <2>1. Over(Win[t], Loss[t]) = NaN
    BY <1>8, <1>11, MissingParts
  <2>2. Plus(Cell(1), NaN) = NaN /\ Over(Cell(100), NaN) = NaN /\ Minus(Cell(100), NaN) = NaN
    BY MissingParts
  <2>3. RSI(s, n)[<<"RSI", n>>][t] = NaN
    BY <1>10, <2>1, <2>2, RoundedNothing
  <2> QED
    BY <1>11, <2>3
<1>12. CASE ~ t < n + 1
  <2>1. t >= n + 1
    BY <1>12
  <2>2. NotNegative(Win[t]) /\ NotNegative(Loss[t])
    BY <1>8, <1>9, <1>12
  <2>3. RSI(s, n)[<<"RSI", n>>][t] # NaN <=> Positive(Win[t]) \/ Positive(Loss[t])
    BY <1>10, <2>2, StrengthOf
  <2>4. \A i \in 2 .. t : Positive(Rises[i]) \/ Positive(Drops[i]) <=> p[i] # p[i - 1]
    <3> SUFFICES ASSUME NEW i \in 2 .. t
                 PROVE  Positive(Rises[i]) \/ Positive(Drops[i]) <=> p[i] # p[i - 1]
      OBVIOUS
    <3>1. i \in 2 .. k /\ p[i] \in Int /\ p[i - 1] \in Int
      OBVIOUS
    <3> QED
      BY <1>6, <3>1
  <2>5. Positive(Win[t]) \/ Positive(Loss[t]) <=> \E i \in 2 .. t : p[i] # p[i - 1]
    BY <1>8, <1>9, <1>12, <2>4
  <2> QED
    BY <2>1, <2>3, <2>5
<1> QED
  BY <1>11, <1>12

=============================================================================
