-------------------------- MODULE ParsePriceProofs --------------------------
(* Proofs about ParsePrice, for every literal and every size of the u32.     *)
EXTENDS ParsePrice, FiniteSetTheorems, TLAPS

(* Induction over numbers, as facts about sets: the induction theorems of    *)
(* the library take the formula itself as a parameter.                       *)

\* A set of natural numbers that is not empty has a least element.
LEMMA LeastNumber ==
    ASSUME NEW T \in SUBSET Nat, T # {}
    PROVE  \E m \in T : \A k \in T : m <= k
<1> DEFINE F == {0 .. m : m \in T}
<1>1. F \subseteq FiniteSubsetsOf(Nat) /\ F # {}
  <2>1. \A m \in T : IsFiniteSet(0 .. m) /\ 0 .. m \in SUBSET Nat
    BY FS_Interval
  <2> QED
    BY <2>1 DEF FiniteSubsetsOf
<1>2. \E x \in F : \A y \in F : ~ (<<y, x>> \in StrictSubsetOrdering(Nat))
  <2> HIDE DEF F
  <2> QED
    BY <1>1, FS_StrictSubsetOrderingWellFounded, WFMin
<1>3. PICK m \in T : \A k \in T : ~ (<<0 .. k, 0 .. m>> \in StrictSubsetOrdering(Nat))
  BY <1>2
<1>4. ASSUME NEW k \in T, k < m PROVE FALSE
  <2>1. /\ 0 .. k \subseteq 0 .. m /\ 0 .. k # 0 .. m
        /\ 0 .. k \in SUBSET Nat /\ 0 .. m \in SUBSET Nat
    BY <1>4
  <2>2. <<0 .. k, 0 .. m>> \in StrictSubsetOrdering(Nat)
    BY <2>1 DEF StrictSubsetOrdering
  <2> QED
    BY <1>3, <2>2
<1> QED
  BY <1>4

\* A set that holds 0 and, with a number, the next one, holds them all.
LEMMA SetInduction ==
    ASSUME NEW S, 0 \in S, \A n \in Nat : n \in S => n + 1 \in S
    PROVE  Nat \subseteq S
<1> SUFFICES ASSUME Nat \ S # {} PROVE FALSE
  OBVIOUS
<1>1. Nat \ S \in SUBSET Nat
  OBVIOUS
<1>2. PICK m \in Nat \ S : \A k \in Nat \ S : m <= k
  BY <1>1, LeastNumber
<1>3. m # 0 /\ m - 1 \in Nat
  BY <1>2
<1>4. m - 1 \in S
  BY <1>2, <1>3
<1> QED
  BY <1>2, <1>3, <1>4

-----------------------------------------------------------------------------
(* The powers of ten exist, and are what their definition says.              *)

\* g is the table of the first n powers.
IsTable(g, n) ==
    /\ g \in [0 .. n -> Nat]
    /\ g[0] = 1
    /\ \A i \in 0 .. (n - 1) : g[i + 1] = 10 * g[i]

\* Every table can be continued.
LEMMA TableExists == ASSUME NEW n \in Nat PROVE \E g : IsTable(g, n)
<1> DEFINE S == {k \in Nat : \E g : IsTable(g, k)}
<1>1. 0 \in S
  <2>1. IsTable([i \in 0 .. 0 |-> 1], 0)
    BY DEF IsTable
  <2> QED
    BY <2>1
<1>2. ASSUME NEW k \in Nat, k \in S PROVE k + 1 \in S
  <2>1. PICK g : IsTable(g, k)
    BY <1>2
  <2> DEFINE h == [i \in 0 .. (k + 1) |-> IF i = k + 1 THEN 10 * g[k] ELSE g[i]]
  <2>2. g \in [0 .. k -> Nat] /\ g[0] = 1 /\ g[k] \in Nat
    BY <2>1 DEF IsTable
  <2>3. \A i \in 0 .. k : i \in 0 .. (k + 1) /\ i # k + 1
    OBVIOUS
  <2>4. h[k + 1] = 10 * g[k] /\ \A i \in 0 .. k : h[i] = g[i]
    BY <2>3
  <2>5. h \in [0 .. (k + 1) -> Nat]
    <3>1. \A i \in 0 .. (k + 1) : i = k + 1 \/ i \in 0 .. k
      OBVIOUS
    <3> QED
      BY <2>2, <3>1
  <2>6. ASSUME NEW i \in 0 .. ((k + 1) - 1) PROVE h[i + 1] = 10 * h[i]
    <3>1. i \in 0 .. k
      OBVIOUS
    <3>2. CASE i = k
      BY <2>4, <3>2
    <3>3. CASE i # k
      <4>1. i \in 0 .. (k - 1) /\ i + 1 \in 0 .. k
        BY <3>3
      <4>2. g[i + 1] = 10 * g[i]
        BY <2>1, <4>1 DEF IsTable
      <4> HIDE DEF h
      <4> QED
        BY <2>4, <3>1, <4>1, <4>2
    <3> QED
      BY <3>2, <3>3
  <2> HIDE DEF h
  <2>7. IsTable(h, k + 1)
    <3>1. h[0] = 1
      BY <2>2, <2>4
    <3> QED
      BY <2>5, <2>6, <3>1 DEF IsTable
  <2> QED
    BY <2>7
<1>3. n \in S
  <2> HIDE DEF S
  <2> QED
    BY <1>1, <1>2, SetInduction
<1> QED
  BY <1>3

\* Two tables agree where both are defined.
LEMMA TablesAgree ==
    ASSUME NEW n \in Nat, NEW m \in Nat, n <= m, NEW g, NEW h, IsTable(g, n), IsTable(h, m)
    PROVE  \A i \in 0 .. n : g[i] = h[i]
<1> DEFINE S == {i \in Nat : i <= n => g[i] = h[i]}
<1>1. 0 \in S
  BY DEF IsTable
<1>2. ASSUME NEW i \in Nat, i \in S PROVE i + 1 \in S
  <2> SUFFICES ASSUME i + 1 <= n PROVE g[i + 1] = h[i + 1]
    OBVIOUS
  <2>1. i \in 0 .. (n - 1) /\ i \in 0 .. (m - 1) /\ g[i] = h[i]
    BY <1>2
  <2> QED
    BY <2>1 DEF IsTable
<1>3. Nat \subseteq S
  <2> HIDE DEF S
  <2> QED
    BY <1>1, <1>2, SetInduction
<1> QED
  BY <1>3

\* The powers satisfy the equation that defines them.
LEMMA PowersDefined ==
    Pow10 = [n \in Nat |-> IF n = 0 THEN 1 ELSE 10 * Pow10[n - 1]]
<1> DEFINE G(n) == CHOOSE g : IsTable(g, n)
<1>1. \A n \in Nat : IsTable(G(n), n)
  BY TableExists
<1> HIDE DEF G
<1> DEFINE f == [n \in Nat |-> G(n)[n]]
<1>2. ASSUME NEW n \in Nat PROVE f[n] = IF n = 0 THEN 1 ELSE 10 * f[n - 1]
  <2>1. CASE n = 0
    BY <1>1, <2>1 DEF IsTable
  <2>2. CASE n # 0
    <3>1. n - 1 \in Nat /\ n - 1 \in 0 .. (n - 1) /\ n - 1 <= n /\ (n - 1) + 1 = n
      BY <2>2
    <3>2. IsTable(G(n), n) /\ IsTable(G(n - 1), n - 1)
      BY <1>1, <3>1
    <3>3. G(n)[n] = 10 * G(n)[n - 1]
      BY <3>1, <3>2 DEF IsTable
    <3>4. \A i \in 0 .. (n - 1) : G(n - 1)[i] = G(n)[i]
      BY <3>1, <3>2, TablesAgree
    <3> QED
      BY <2>2, <3>1, <3>3, <3>4
  <2> QED
    BY <2>1, <2>2
<1>3. f = [n \in Nat |-> IF n = 0 THEN 1 ELSE 10 * f[n - 1]]
  BY <1>2
<1> HIDE DEF f
<1>4. \E h : h = [n \in Nat |-> IF n = 0 THEN 1 ELSE 10 * h[n - 1]]
  BY <1>3
<1> QED
  BY <1>4 DEF Pow10

\* One more digit is a factor of ten.
LEMMA Powers ==
    /\ Pow10[0] = 1
    /\ \A n \in Nat : Pow10[n + 1] = 10 * Pow10[n]
    /\ \A n \in Nat : Pow10[n] \in Nat /\ Pow10[n] >= 1
<1>1. Pow10[0] = 1
  BY PowersDefined
<1>2. ASSUME NEW n \in Nat PROVE Pow10[n + 1] = 10 * Pow10[n]
  <2>1. n + 1 \in Nat /\ n + 1 # 0 /\ (n + 1) - 1 = n
    OBVIOUS
  <2> QED
    BY <2>1, PowersDefined
<1>3. \A n \in Nat : Pow10[n] \in Nat /\ Pow10[n] >= 1
  <2> DEFINE S == {n \in Nat : Pow10[n] \in Nat /\ Pow10[n] >= 1}
  <2>1. 0 \in S
    BY <1>1
  <2>2. \A n \in Nat : n \in S => n + 1 \in S
    BY <1>2
  <2>3. Nat \subseteq S
    <3> HIDE DEF S
    <3> QED
      BY <2>1, <2>2, SetInduction
  <2> QED
    BY <2>3
<1> QED
  BY <1>1, <1>2, <1>3

-----------------------------------------------------------------------------
(* Quotients and casts. *)

\* What a quotient is.
LEMMA Quotient ==
    ASSUME NEW a \in Nat, NEW n \in Nat, n >= 1
    PROVE  a \div n \in Nat /\ n * (a \div n) <= a /\ a < n * (a \div n) + n
OBVIOUS

\* There is only one.
LEMMA QuotientUnique ==
    ASSUME NEW a \in Nat, NEW n \in Nat, n >= 1, NEW d \in Nat,
           n * d <= a, a < n * d + n
    PROVE  a \div n = d
<1> DEFINE q == a \div n
<1>1. q \in Nat /\ n * q <= a /\ a < n * q + n
  BY Quotient
<1> HIDE DEF q
<1>2. ~ (q + 1 <= d)
  <2> SUFFICES ASSUME q + 1 <= d PROVE FALSE
    OBVIOUS
  <2>1. n * (q + 1) <= n * d /\ n * (q + 1) = n * q + n
    BY <1>1
  <2> QED
    BY <1>1, <2>1
<1>3. ~ (d + 1 <= q)
  <2> SUFFICES ASSUME d + 1 <= q PROVE FALSE
    OBVIOUS
  <2>1. n * (d + 1) <= n * q /\ n * (d + 1) = n * d + n
    BY <1>1
  <2> QED
    BY <1>1, <2>1
<1>4. q = d
  BY <1>1, <1>2, <1>3
<1> QED
  BY <1>4 DEF q

\* Cutting two digits off is the same as counting hundredths.
LEMMA QuotientScaled ==
    ASSUME NEW f \in Nat, NEW q \in Nat, q >= 1
    PROVE  (100 * f) \div (100 * q) = f \div q
<1> DEFINE d == f \div q
<1>1. d \in Nat /\ q * d <= f /\ f < q * d + q
  BY Quotient
<1> HIDE DEF d
<1>2. (100 * q) * d = 100 * (q * d)
  BY <1>1
<1>3. q * d \in Nat
  BY <1>1
<1>4. /\ 100 * q \in Nat /\ 100 * q >= 1 /\ 100 * f \in Nat
      /\ (100 * q) * d <= 100 * f /\ 100 * f < (100 * q) * d + 100 * q
  <2> DEFINE x == q * d
  <2>1. x \in Nat /\ x <= f /\ f < x + q /\ (100 * q) * d = 100 * x
    BY <1>1, <1>2, <1>3
  <2> HIDE DEF x
  <2> QED
    BY <2>1
<1>5. (100 * f) \div (100 * q) = d
  BY <1>1, <1>4, QuotientUnique
<1> QED
  BY <1>5 DEF d

\* A number that fits is not changed by the cast.
LEMMA CastFits == ASSUME NEW x \in Nat, x < U32Size PROVE as_u32(x) = x
BY ParseAssumption DEF as_u32

-----------------------------------------------------------------------------
(* The conversion. *)

\* The parts of a parsed number.
LEMMA NumberType ==
    ASSUME NEW n \in NumberValue
    PROVE  /\ n.integer \in Int /\ n.fraction_length \in Nat
           /\ n.fraction \in Nat /\ n.fraction < Pow10[n.fraction_length]
<1>1. PICK l \in 0 .. MaxDigits :
         n \in [integer : (0 - MaxNegative) .. MaxInteger, fraction : 0 .. (Pow10[l] - 1),
                fraction_length : {l}, exponent : Exponents]
  BY DEF NumberValue
<1>2. l \in Nat /\ MaxInteger \in Nat /\ MaxNegative \in Nat
  BY ParseAssumption
<1>3. Pow10[l] \in Nat
  BY <1>2, Powers
<1>4. /\ n.integer \in (0 - MaxNegative) .. MaxInteger /\ n.fraction \in 0 .. (Pow10[l] - 1)
      /\ n.fraction_length = l
  BY <1>1
<1> QED
  BY <1>2, <1>3, <1>4

\* The cents the code takes from the fraction.
CentsTaken(n) == n.fraction \div Pow10[checked_sub_or_zero(n.fraction_length, 2)]

\* They are the hundredths of the literal if it has no digit or at least two
\* after the point, and never more than those: fewer than a hundred.
LEMMA CentsOfFraction ==
    ASSUME NEW n \in NumberValue
    PROVE  LET c == (100 * n.fraction) \div Pow10[n.fraction_length]
           IN  /\ c \in Nat /\ c < 100
               /\ CentsTaken(n) \in Nat /\ CentsTaken(n) <= c
               /\ n.fraction_length # 1 => CentsTaken(n) = c
<1> DEFINE f == n.fraction
           l == n.fraction_length
           P == Pow10[l]
           c == (100 * f) \div P
<1>1. f \in Nat /\ l \in Nat /\ f < P
  BY NumberType
<1>2. P \in Nat /\ P >= 1
  BY <1>1, Powers
<1>3. c \in Nat /\ P * c <= 100 * f
  <2> HIDE DEF f, P
  <2>1. 100 * f \in Nat
    BY <1>1
  <2> QED
    BY <1>2, <2>1, Quotient
<1>4. c < 100
  <2> HIDE DEF f, P, c
  <2> SUFFICES ASSUME 100 <= c PROVE FALSE
    BY <1>3
  <2>1. P * 100 <= P * c
    BY <1>2, <1>3
  <2> QED
    BY <1>1, <1>2, <1>3, <2>1
<1>5. CASE l = 0
  <2>1. P = 1 /\ f = 0
    BY <1>1, <1>5, Powers
  <2>2. CentsTaken(n) = 0 /\ c = 0
    BY <1>5, <2>1, Powers DEF CentsTaken, checked_sub_or_zero
  <2> QED
    BY <1>3, <1>4, <2>2
<1>6. CASE l = 1
  <2>1. P = 10
    <3>1. Pow10[0 + 1] = 10 * Pow10[0] /\ Pow10[0] = 1
      BY Powers
    <3> QED
      BY <1>6, <3>1
  <2>2. CentsTaken(n) = f
    <3>1. CentsTaken(n) = f \div 1
      BY <1>6, Powers DEF CentsTaken, checked_sub_or_zero
    <3> HIDE DEF f
    <3> QED
      BY <1>1, <3>1
  <2>3. f <= c
    <3> HIDE DEF f, P
    <3> QED
      BY <1>1, <2>1
  <2> QED
    BY <1>1, <1>3, <1>4, <1>6, <2>2, <2>3
<1>7. CASE l >= 2
  <2> DEFINE Q == Pow10[l - 2]
  <2>1. l - 2 \in Nat /\ (l - 2) + 1 = l - 1 /\ (l - 1) + 1 = l /\ l - 1 \in Nat
    BY <1>1, <1>7
  <2>2. Q \in Nat /\ Q >= 1 /\ P = 100 * Q
    <3>1. Q \in Nat /\ Q >= 1
      BY <2>1, Powers
    <3>2. Pow10[l - 1] = 10 * Q /\ P = 10 * Pow10[l - 1]
      <4>1. /\ Pow10[(l - 2) + 1] = 10 * Pow10[l - 2]
            /\ Pow10[(l - 1) + 1] = 10 * Pow10[l - 1]
        BY <2>1, Powers
      <4> QED
        BY <2>1, <4>1
    <3> HIDE DEF Q, P
    <3> QED
      BY <3>1, <3>2
  <2>3. CentsTaken(n) = f \div Q
    BY <1>1, <1>7 DEF CentsTaken, checked_sub_or_zero
  <2>4. c = f \div Q
    <3> HIDE DEF f, P, Q
    <3> QED
      BY <1>1, <2>2, QuotientScaled
  <2> HIDE DEF c, f, l
  <2> QED
    BY <1>3, <1>4, <2>3, <2>4 DEF c, f, l
<1>8. l = 0 \/ l = 1 \/ l >= 2
  BY <1>1
<1> QED
  BY <1>5, <1>6, <1>7, <1>8

\* The conversion of a price that can be represented: no cast and no product
\* wraps.
LEMMA ParsedNumber ==
    ASSUME NEW n \in NumberValue, Representable(n)
    PROVE  /\ parse_number(n) = n.integer * 100 + CentsTaken(n)
           /\ n.integer \in Nat /\ CentsTaken(n) \in 0 .. 99
           /\ n.fraction_length # 1 => parse_number(n) = Cents(n)
<1> DEFINE i == n.integer
           d == CentsTaken(n)
           c == (100 * n.fraction) \div Pow10[n.fraction_length]
<1>1. i \in Nat
  BY NumberType DEF Representable
<1>2. c \in Nat /\ c < 100 /\ d \in Nat /\ d <= c /\ (n.fraction_length # 1 => d = c)
  BY CentsOfFraction
<1>3. i * 100 + c < U32Size /\ Cents(n) = i * 100 + c
  BY DEF Representable, Cents
<1>4. parse_number(n) = as_u32(as_u32(i) * 100 + as_u32(d))
  BY DEF parse_number, CentsTaken
<1> HIDE DEF i, d, c
<1>5. U32Size \in Nat
  BY ParseAssumption
<1>6. i < U32Size /\ d < U32Size /\ i * 100 + d < U32Size /\ i * 100 + d \in Nat
  BY <1>1, <1>2, <1>3, <1>5
<1>7. as_u32(i) = i /\ as_u32(d) = d /\ as_u32(i * 100 + d) = i * 100 + d
  BY <1>1, <1>2, <1>6, CastFits
<1>8. parse_number(n) = i * 100 + d /\ d \in 0 .. 99
  BY <1>1, <1>2, <1>4, <1>7
<1>9. n.fraction_length # 1 => parse_number(n) = Cents(n)
  BY <1>2, <1>3, <1>8
<1> QED
  BY <1>1, <1>8, <1>9 DEF i, d

-----------------------------------------------------------------------------
\* The result, once there is one, is that of the response.
ParseInv ==
    /\ response \in Response
    /\ done \in BOOLEAN
    /\ price = IF done THEN parse_price(response) ELSE NoPrice

\* It is so in every reachable state.
THEOREM ParseInvariance == Spec => []ParseInv
<1>1. Init => ParseInv
  BY DEF Init, ParseInv
<1>2. ParseInv /\ [Next]_vars => ParseInv'
  <2> SUFFICES ASSUME ParseInv, [Next]_vars
               PROVE  ParseInv'
    OBVIOUS
  <2>1. response' = response /\ done' \in BOOLEAN
    BY DEF ParseInv, Next, FetchPrice, vars
  <2>2. price' = IF done' THEN parse_price(response) ELSE NoPrice
    BY DEF ParseInv, Next, FetchPrice, vars
  <2>3. parse_price(response') = parse_price(response)
    BY <2>1
  <2> QED
    BY <2>1, <2>2, <2>3 DEF ParseInv
<1> QED
  BY <1>1, <1>2, PTL DEF Spec

\* A parsed response carries a number, and the result is that number's.
LEMMA ParsedResult ==
    ASSUME ParseInv, Parsed
    PROVE  /\ response.number \in NumberValue
           /\ price = parse_number(response.number)
BY DEF ParseInv, Parsed, Response, Malformed, parse_price

\* Every literal without sign or exponent whose cents fit a u32 and that does not
\* have exactly one digit after the point becomes exactly its cents.
THEOREM CentsAreExact == Spec => []CentsExact
<1>1. ParseInv => CentsExact
  BY ParsedResult, ParsedNumber DEF CentsExact
<1> QED
  BY <1>1, ParseInvariance, PTL

\* With any number of digits after the point the dollars are right.
THEOREM DollarsAreExact == Spec => []DollarsExact
<1>1. ParseInv => DollarsExact
  <2> SUFFICES ASSUME ParseInv, Parsed, Representable(response.number)
               PROVE  price \div 100 = response.number.integer
    BY DEF DollarsExact
  <2> DEFINE i == response.number.integer
             d == CentsTaken(response.number)
  <2>1. i \in Nat /\ d \in 0 .. 99 /\ price = i * 100 + d
    BY ParsedResult, ParsedNumber
  <2> HIDE DEF i, d
  <2>2. price \div 100 = i
    BY <2>1
  <2> QED
    BY <2>2 DEF i
<1> QED
  BY <1>1, ParseInvariance, PTL
=============================================================================
