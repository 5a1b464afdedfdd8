------------------------- MODULE EvictionOrderProofs -------------------------
(* The promises of the replacement policies, for every associativity and     *)
(* every sequence of calls: FIFO replaces in the order of insertion, the     *)
(* walk of pseudo-LRU finds its one victim, and under both no way is         *)
(* replaced again before every other way was.                                *)
EXTENDS EvictionOrderInvariant, FiniteSetTheorems, WellFoundedInduction, TLAPS

-----------------------------------------------------------------------------
(* Induction over an interval, from the least-number principle. *)

LEMMA LeastNumber ==
    ASSUME NEW T, T \subseteq Nat, T # {}
    PROVE  \E x \in T : \A y \in T : x <= y
<1> DEFINE R == OpToRel(<, Nat)
<1>1. IsWellFoundedOn(R, Nat)
    BY NatLessThanWellFounded
<1>2. \A x, y \in Nat : <<y, x>> \in R <=> y < x
    BY DEF OpToRel
<1> HIDE DEF R
<1>3. PICK x \in T : \A y \in T : ~(<<y, x>> \in R)
    BY <1>1, WFMin
<1>4. ASSUME NEW y \in T
      PROVE  x <= y
    <2>1. x \in Nat /\ y \in Nat /\ ~(<<y, x>> \in R)
        BY <1>3
    <2> QED
        BY <2>1, <1>2
<1> QED
    BY <1>4

LEMMA IntervalInduction ==
    ASSUME NEW N \in Nat, NEW S, 0 \in S,
           \A n \in 0 .. (N - 1) : n \in S => n + 1 \in S
    PROVE  \A n \in 0 .. N : n \in S
<1> DEFINE T == {n \in 0 .. N : n \notin S}
<1> SUFFICES ASSUME T # {}
             PROVE  FALSE
    OBVIOUS
<1>1. PICK x \in T : \A y \in T : x <= y
    <2>1. T \subseteq Nat
        OBVIOUS
    <2> HIDE DEF T
    <2> QED
        BY <2>1, LeastNumber
<1>2. x - 1 \in 0 .. (N - 1) /\ x - 1 \notin T
    BY <1>1
<1> QED
    BY <1>1, <1>2

-----------------------------------------------------------------------------
(* Quotients and remainders. *)

LEMMA Division ==
    ASSUME NEW n \in Nat, NEW b \in Nat \ {0}
    PROVE  /\ n \div b \in Nat /\ n % b \in 0 .. (b - 1)
           /\ n = b * (n \div b) + (n % b)
<1>1. n \div b \in Nat
    OBVIOUS
<1>2. n % b \in 0 .. (b - 1)
    OBVIOUS
<1>3. n = b * (n \div b) + (n % b)
    OBVIOUS
<1> QED
    BY <1>1, <1>2, <1>3

LEMMA QuotientUnique ==
    ASSUME NEW a \in Nat, NEW b \in Nat \ {0}, NEW q \in Nat, NEW r \in 0 .. (b - 1),
           a = b * q + r
    PROVE  a \div b = q /\ a % b = r
<1>1. a \div b = q
    OBVIOUS
<1>2. a % b = r
    <2>1. a = b * (a \div b) + (a % b) /\ a % b \in Nat
        BY Division
    <2>2. a = b * q + (a % b)
        BY <1>1, <2>1
    <2> DEFINE x == a % b
               y == b * q
    <2>3. x \in Nat /\ y \in Nat /\ a = y + x /\ a = y + r
        BY <2>1, <2>2
    <2> HIDE DEF x, y
    <2>4. x = r
        BY <2>3
    <2> QED
        BY <2>4 DEF x
<1> QED
    BY <1>1, <1>2

LEMMA Halves ==
    ASSUME NEW x \in Nat
    PROVE  /\ x \div 2 \in Nat
           /\ x % 2 = 0 \/ x % 2 = 1
           /\ x = 2 * (x \div 2) + (x % 2)
           /\ x % 2 = 0 <=> x = 2 * (x \div 2)
           /\ x % 2 = 1 <=> x = 2 * (x \div 2) + 1
OBVIOUS

(* The half of a quotient is the quotient by twice the divisor. *)
LEMMA QuotientHalved ==
    ASSUME NEW x \in Nat, NEW b \in Nat \ {0}
    PROVE  (x \div b) \div 2 = x \div (2 * b)
<1> DEFINE q == x \div b
           r == x % b
           h == q \div 2
           e == q % 2
<1>1. q \in Nat /\ r \in 0 .. (b - 1) /\ x = b * q + r
    BY Division
<1>2. h \in Nat /\ (e = 0 \/ e = 1) /\ q = 2 * h + e
    BY <1>1, Halves
<1> HIDE DEF q, r, h, e
<1>3. b * q = (2 * b) * h + b * e
    BY <1>2
<1>4. b * e = 0 \/ b * e = b
    BY <1>2
<1>5. b * e + r \in 0 .. (2 * b - 1)
    BY <1>1, <1>4
<1>6. x = (2 * b) * h + (b * e + r)
    <2> DEFINE u == b * q
               v == (2 * b) * h
               y == b * e
    <2>1. u \in Nat /\ v \in Nat /\ y \in Nat /\ u = v + y /\ x = u + r
        BY <1>1, <1>2, <1>3, <1>4
    <2> HIDE DEF u, v, y
    <2>2. x = v + (y + r)
        BY <2>1, <1>1
    <2> QED
        BY <2>2 DEF v, y
<1>7. x \div (2 * b) = h
    <2> DEFINE c == 2 * b
               s == b * e + r
    <2>1. c \in Nat \ {0} /\ s \in 0 .. (c - 1) /\ x = c * h + s
        BY <1>5, <1>6
    <2> HIDE DEF c, s
    <2>2. x \div c = h
        BY <1>2, <2>1, QuotientUnique
    <2> QED
        BY <2>2 DEF c
<1> QED
    BY <1>7 DEF h, q

(* A multiple of p is a multiple of 2 * p every other time. *)
LEMMA EveryOther ==
    ASSUME NEW p \in Nat \ {0}, NEW t \in Nat
    PROVE  (p * t) % (2 * p) = 0 <=> t % 2 = 0
<1> DEFINE h == t \div 2
           e == t % 2
           c == 2 * p
           x == p * t
<1>1. h \in Nat /\ (e = 0 \/ e = 1) /\ t = 2 * h + e
    BY Halves
<1> HIDE DEF h, e
<1>2. x = c * h + p * e
    BY <1>1
<1>3. p * e = IF e = 0 THEN 0 ELSE p
    BY <1>1
<1>4. c \in Nat \ {0} /\ x \in Nat /\ p * e \in 0 .. (c - 1)
    BY <1>1, <1>3
<1> HIDE DEF c, x
<1>5. x % c = p * e
    <2> DEFINE r == p * e
    <2>1. r \in 0 .. (c - 1) /\ x = c * h + r
        BY <1>2, <1>4
    <2> HIDE DEF r
    <2>2. x % c = r
        BY <1>1, <1>4, <2>1, QuotientUnique
    <2> QED
        BY <2>2 DEF r
<1>6. x % c = 0 <=> e = 0
    BY <1>3, <1>5, <1>1
<1> QED
    BY <1>6 DEF x, c, e

LEMMA Multiples ==
    ASSUME NEW p \in Nat \ {0}, NEW t \in Nat
    PROVE  (p * t) % p = 0
<1> DEFINE x == p * t
<1>1. x \in Nat /\ x = p * t + 0 /\ 0 \in 0 .. (p - 1)
    OBVIOUS
<1> HIDE DEF x
<1>2. x % p = 0
    BY <1>1, QuotientUnique
<1> QED
    BY <1>2 DEF x

-----------------------------------------------------------------------------
(* The pseudo-LRU tree: Up(w, 0) is the leaf of way w and Up(w, Height) the  *)
(* root, numbered from one.                                                  *)

LEMMA WaysFacts == /\ NumWays \in Nat \ {0} /\ Ways \subseteq Nat
                   /\ \A w \in Ways : w < NumWays
BY EvictionAssumption DEF Ways

LEMMA HeightDef ==
    ASSUME "plru" \in Policies
    PROVE  Height \in 0 .. NumWays /\ NumWays = 2^Height
<1>1. \E k \in 0 .. NumWays : NumWays = 2^k
    BY EvictionAssumption
<1> QED
    BY <1>1 DEF Height

LEMMA PowerMonotone ==
    ASSUME NEW a \in Nat, NEW b \in Nat, a <= b, b <= NumWays
    PROVE  2^a <= 2^b
<1> USE WaysFacts
<1> DEFINE S == {n \in 0 .. (b - a) : 2^a <= 2^(a + n)}
<1>1. 0 \in S
    <2>1. a + 0 = a /\ a \in 0 .. NumWays
        OBVIOUS
    <2> QED
        BY <2>1, PowerAssumption
<1>2. ASSUME NEW n \in 0 .. ((b - a) - 1), n \in S
      PROVE  n + 1 \in S
    <2>1. a + n \in 0 .. NumWays /\ a \in 0 .. NumWays
        OBVIOUS
    <2>2. 2^(a + n) \in Nat /\ 2^((a + n) + 1) = 2 * 2^(a + n) /\ 2^a \in Nat
        BY <2>1, PowerAssumption
    <2>3. (a + n) + 1 = a + (n + 1)
        OBVIOUS
    <2>4. 2^a <= 2^((a + n) + 1)
        BY <1>2, <2>2
    <2> QED
        BY <2>3, <2>4
<1> HIDE DEF S
<1>3. b - a \in S
    <2>1. b - a \in Nat /\ b - a \in 0 .. (b - a)
        OBVIOUS
    <2> QED
        BY <1>1, <1>2, <2>1, IntervalInduction
<1>4. a + (b - a) = b
    OBVIOUS
<1> QED
    BY <1>3, <1>4 DEF S

LEMMA UpStep ==
    ASSUME NEW w \in Ways, NEW k \in 0 .. NumWays
    PROVE  /\ Up(w, k) \in Nat
           /\ Up(w, k + 1) = Up(w, k) \div 2
           /\ Up(w, 0) = w + NumWays
<1>1. w + NumWays \in Nat
    BY WaysFacts
<1>2. 2^k \in Nat \ {0} /\ 2^(k + 1) = 2 * 2^k
    BY PowerAssumption
<1>3. (w + NumWays) \div (2^k) \in Nat
    BY <1>1, <1>2, Division
<1>4. ((w + NumWays) \div (2^k)) \div 2 = (w + NumWays) \div (2 * 2^k)
    BY <1>1, <1>2, QuotientHalved
<1>5. (w + NumWays) \div (2^0) = w + NumWays
    BY <1>1
<1> QED
    BY <1>2, <1>3, <1>4, <1>5 DEF Up

(* The nodes k levels up are numbered from 2^(Height - k) on. *)
LEMMA UpRange ==
    ASSUME "plru" \in Policies, NEW w \in Ways, NEW k \in 0 .. Height
    PROVE  2^(Height - k) <= Up(w, k) /\ Up(w, k) < 2 * 2^(Height - k)
<1> USE WaysFacts, HeightDef
<1> DEFINE S == {n \in 0 .. Height : 2^(Height - n) <= Up(w, n) /\ Up(w, n) < 2 * 2^(Height - n)}
<1>1. 0 \in S
    <2>1. Up(w, 0) = w + NumWays
        BY UpStep
    <2>2. Height - 0 = Height
        OBVIOUS
    <2> QED
        BY <2>1, <2>2
<1>2. ASSUME NEW n \in 0 .. (Height - 1), n \in S
      PROVE  n + 1 \in S
    <2> DEFINE h == Height - (n + 1)
    <2>1. h \in 0 .. NumWays /\ h + 1 = Height - n /\ n \in 0 .. NumWays
        OBVIOUS
    <2>2. 2^h \in Nat \ {0} /\ 2^(Height - n) = 2 * 2^h
        BY <2>1, PowerAssumption
    <2>3. Up(w, n) \in Nat /\ Up(w, n + 1) = Up(w, n) \div 2
        BY <2>1, UpStep
    <2> HIDE DEF h
    <2> DEFINE p == 2^h
               u == Up(w, n)
    <2>4. p \in Nat /\ u \in Nat /\ 2 * p <= u /\ u < 2 * (2 * p)
        BY <1>2, <2>2, <2>3
    <2> HIDE DEF p, u
    <2>5. p <= u \div 2 /\ u \div 2 < 2 * p
        BY <2>4
    <2> QED
        BY <2>3, <2>5 DEF p, u, h
<1> HIDE DEF S
<1>3. k \in S
    <2>1. Height \in Nat
        OBVIOUS
    <2> QED
        BY <1>1, <1>2, <2>1, IntervalInduction
<1> QED
    BY <1>3 DEF S

LEMMA UpIsNode ==
    ASSUME "plru" \in Policies, NEW w \in Ways, NEW k \in 1 .. Height
    PROVE  Up(w, k) \in Nat /\ Up(w, k) \in 1 .. (NumWays - 1)
<1> USE WaysFacts, HeightDef
<1>1. k \in 0 .. NumWays /\ k \in 0 .. Height /\ Height - k \in Nat
      /\ Height - k \in 0 .. NumWays /\ (Height - k) + 1 \in Nat
      /\ (Height - k) + 1 <= Height /\ Height <= NumWays /\ Height \in Nat
    OBVIOUS
<1>2. 2^(Height - k) \in Nat \ {0} /\ 2^((Height - k) + 1) = 2 * 2^(Height - k)
    BY <1>1, PowerAssumption
<1>3. 2^((Height - k) + 1) <= 2^Height
    BY <1>1, PowerMonotone
<1>4. 2^(Height - k) <= Up(w, k) /\ Up(w, k) < 2 * 2^(Height - k)
    BY <1>1, UpRange
<1>5. Up(w, k) \in Nat
    BY <1>1, UpStep
<1> QED
    BY <1>2, <1>3, <1>4, <1>5

LEMMA UpOrdered ==
    ASSUME "plru" \in Policies, NEW w \in Ways, NEW v \in Ways,
           NEW k \in 0 .. Height, NEW l \in 0 .. Height, k < l
    PROVE  Up(v, l) < Up(w, k)
<1> USE WaysFacts, HeightDef
<1>1. Height - l \in 0 .. NumWays /\ (Height - l) + 1 \in Nat /\ Height - k \in Nat
      /\ (Height - l) + 1 <= Height - k /\ Height - k <= NumWays
      /\ Height - k \in 0 .. NumWays /\ k \in 0 .. NumWays /\ l \in 0 .. NumWays
    OBVIOUS
<1>2. 2^((Height - l) + 1) = 2 * 2^(Height - l) /\ 2^(Height - l) \in Nat
      /\ 2^(Height - k) \in Nat
    BY <1>1, PowerAssumption
<1>3. 2^((Height - l) + 1) <= 2^(Height - k)
    BY <1>1, PowerMonotone
<1>4. Up(v, l) < 2 * 2^(Height - l) /\ 2^(Height - k) <= Up(w, k)
    BY UpRange
<1>5. Up(v, l) \in Nat /\ Up(w, k) \in Nat
    BY <1>1, UpStep
<1> QED
    BY <1>2, <1>3, <1>4, <1>5

(* A node lies on one level. *)
LEMMA LevelsApart ==
    ASSUME "plru" \in Policies, NEW w \in Ways, NEW v \in Ways,
           NEW k \in 0 .. Height, NEW l \in 0 .. Height, Up(w, k) = Up(v, l)
    PROVE  k = l
<1> USE WaysFacts, HeightDef
<1>1. k \in 0 .. NumWays /\ l \in 0 .. NumWays
    OBVIOUS
<1>2. Up(w, k) \in Nat /\ Up(v, l) \in Nat
    BY <1>1, UpStep
<1>3. ~(k < l)
    BY <1>2, UpOrdered
<1>4. ~(l < k)
    BY <1>2, UpOrdered
<1> QED
    BY <1>3, <1>4

LEMMA RootIsOne ==
    ASSUME "plru" \in Policies, NEW w \in Ways
    PROVE  Up(w, Height) = 1
<1> USE WaysFacts, HeightDef
<1>1. Height \in 0 .. Height /\ Height - Height = 0 /\ Height \in 0 .. NumWays
    OBVIOUS
<1>2. 2^0 <= Up(w, Height) /\ Up(w, Height) < 2 * 2^0
    BY <1>1, UpRange
<1>3. 2^0 = 1 /\ Up(w, Height) \in Nat
    BY <1>1, UpStep
<1> QED
    BY <1>2, <1>3

(* The ancestors of a leaf are the nodes above it, up to the root. *)
LEMMA BelowIsUp ==
    ASSUME "plru" \in Policies, NEW p, NEW w \in Ways, NEW m \in Nat \ {0}
    PROVE  P(p)!Below(w, m) <=> \E k \in 0 .. Height : Up(w, k) = m
<1> USE WaysFacts, HeightDef
<1>1. P(p)!Below(w, m) <=> \E k \in 0 .. NumWays : Up(w, k) = m
    BY DEF P!Below, Up
<1>2. ASSUME NEW k \in 0 .. NumWays, Up(w, k) = m
      PROVE  k <= Height
    <2> SUFFICES ASSUME Height < k
                 PROVE  FALSE
        OBVIOUS
    <2>1. Height + 1 \in Nat /\ k \in Nat /\ Height + 1 <= k /\ k <= NumWays
          /\ Height \in 0 .. NumWays /\ k \in 0 .. NumWays
        OBVIOUS
    <2>2. 2^(Height + 1) = 2 * NumWays /\ 2^k \in Nat \ {0}
        BY <2>1, PowerAssumption
    <2>3. 2^(Height + 1) <= 2^k
        BY <2>1, PowerMonotone
    <2> DEFINE x == w + NumWays
               b == 2^k
    <2>4. x \in Nat /\ b \in Nat \ {0} /\ x < b
        BY <2>2, <2>3
    <2>5. x \div b = m
        BY <1>2 DEF Up
    <2> HIDE DEF x, b
    <2>6. 0 \in Nat /\ x \in 0 .. (b - 1) /\ x = b * 0 + x
        BY <2>4
    <2>7. x \div b = 0
        BY <2>4, <2>6, QuotientUnique
    <2> QED
        BY <2>5, <2>7
<1> QED
    BY <1>1, <1>2

LEMMA UnderIsUp ==
    ASSUME "plru" \in Policies, NEW p, NEW w \in Ways, NEW n \in P(p)!Nodes
    PROVE  /\ P(p)!UnderLeft(n, w) <=>
                \E k \in 1 .. Height : Up(w, k) = n + 1 /\ Up(w, k - 1) % 2 = 0
           /\ P(p)!UnderRight(n, w) <=>
                \E k \in 1 .. Height : Up(w, k) = n + 1 /\ Up(w, k - 1) % 2 = 1
<1> USE WaysFacts, HeightDef
<1>1. n \in Nat /\ n <= NumWays - 2
    BY DEF P!Nodes
<1>2. ASSUME NEW e \in {0, 1}
      PROVE  P(p)!Below(w, 2 * (n + 1) + e) <=>
                \E k \in 1 .. Height : Up(w, k) = n + 1 /\ Up(w, k - 1) % 2 = e
    <2> DEFINE m == 2 * (n + 1) + e
    <2>1. m \in Nat \ {0} /\ m # 1 /\ m \div 2 = n + 1 /\ m % 2 = e
        BY <1>1
    <2> HIDE DEF m
    <2>2. P(p)!Below(w, m) <=> \E k \in 0 .. Height : Up(w, k) = m
        BY <2>1, BelowIsUp
    <2>3. ASSUME NEW k \in 0 .. Height, Up(w, k) = m
          PROVE  \E l \in 1 .. Height : Up(w, l) = n + 1 /\ Up(w, l - 1) % 2 = e
        <3>1. k # Height
            BY <2>1, <2>3, RootIsOne
        <3>2. k + 1 \in 1 .. Height /\ (k + 1) - 1 = k /\ k \in 0 .. NumWays
            BY <3>1
        <3>3. Up(w, k + 1) = m \div 2
            BY <2>3, <3>2, UpStep
        <3> QED
            BY <2>1, <2>3, <3>2, <3>3
    <2>4. ASSUME NEW k \in 1 .. Height, Up(w, k) = n + 1, Up(w, k - 1) % 2 = e
          PROVE  \E l \in 0 .. Height : Up(w, l) = m
        <3>1. k - 1 \in 0 .. Height /\ k - 1 \in 0 .. NumWays /\ (k - 1) + 1 = k
            OBVIOUS
        <3>2. Up(w, k - 1) \in Nat /\ Up(w, k) = Up(w, k - 1) \div 2
            BY <3>1, UpStep
        <3>3. Up(w, k - 1) = 2 * (Up(w, k - 1) \div 2) + (Up(w, k - 1) % 2)
            BY <3>2, Halves
        <3>4. Up(w, k - 1) = m
            BY <3>2, <3>3, <2>4 DEF m
        <3> QED
            BY <3>1, <3>4
    <2> QED
        BY <2>2, <2>3, <2>4 DEF m
<1>3. P(p)!UnderLeft(n, w) <=> P(p)!Below(w, 2 * (n + 1) + 0)
    <2>1. 2 * (n + 1) + 0 = 2 * (n + 1)
        BY <1>1
    <2> QED
        BY <2>1 DEF P!UnderLeft
<1>4. P(p)!UnderRight(n, w) <=> P(p)!Below(w, 2 * (n + 1) + 1)
    BY DEF P!UnderRight
<1> QED
    BY <1>2, <1>3, <1>4

(* The walk of evict ends in w when the bit on every level above w points to *)
(* the level below.                                                          *)
LEMMA PointsAtUp ==
    ASSUME "plru" \in Policies, NEW p, NEW w \in Ways, NEW tree \in [P(p)!Nodes -> BOOLEAN]
    PROVE  P(p)!PointsAt(tree, w) <=>
             \A k \in 1 .. Height : tree[Up(w, k) - 1] <=> Up(w, k - 1) % 2 = 0
<1> USE WaysFacts, HeightDef
<1>1. ASSUME NEW k \in 1 .. Height
      PROVE  /\ Up(w, k) - 1 \in P(p)!Nodes /\ (Up(w, k) - 1) + 1 = Up(w, k)
             /\ Up(w, k - 1) % 2 = 0 \/ Up(w, k - 1) % 2 = 1
    <2>1. Up(w, k) \in 1 .. (NumWays - 1) /\ Up(w, k) \in Nat
        BY UpIsNode
    <2>2. k - 1 \in 0 .. NumWays
        OBVIOUS
    <2>3. Up(w, k - 1) \in Nat
        BY <2>2, UpStep
    <2>4. Up(w, k - 1) % 2 = 0 \/ Up(w, k - 1) % 2 = 1
        BY <2>3, Halves
    <2>5. Up(w, k) - 1 \in P(p)!Nodes /\ (Up(w, k) - 1) + 1 = Up(w, k)
        BY <2>1 DEF P!Nodes
    <2> QED
        BY <2>4, <2>5
<1>2. ASSUME P(p)!PointsAt(tree, w), NEW k \in 1 .. Height
      PROVE  tree[Up(w, k) - 1] <=> Up(w, k - 1) % 2 = 0
    <2> DEFINE n == Up(w, k) - 1
    <2>1. n \in P(p)!Nodes /\ Up(w, k) = n + 1
        BY <1>1
    <2>2. (P(p)!UnderLeft(n, w) => tree[n]) /\ (P(p)!UnderRight(n, w) => ~tree[n])
        BY <1>2, <2>1 DEF P!PointsAt
    <2> HIDE DEF n
    <2>3. Up(w, k - 1) % 2 = 0 => P(p)!UnderLeft(n, w)
        BY <2>1, UnderIsUp
    <2>4. Up(w, k - 1) % 2 = 1 => P(p)!UnderRight(n, w)
        BY <2>1, UnderIsUp
    <2> QED
        BY <1>1, <2>2, <2>3, <2>4 DEF n
<1>3. ASSUME \A k \in 1 .. Height : tree[Up(w, k) - 1] <=> Up(w, k - 1) % 2 = 0,
             NEW n \in P(p)!Nodes
      PROVE  (P(p)!UnderLeft(n, w) => tree[n]) /\ (P(p)!UnderRight(n, w) => ~tree[n])
    <2>1. n \in Nat
        BY DEF P!Nodes
    <2>2. ASSUME NEW k \in 1 .. Height, Up(w, k) = n + 1
          PROVE  tree[n] <=> Up(w, k - 1) % 2 = 0
        <3>1. Up(w, k) - 1 = n
            BY <2>1, <2>2
        <3> QED
            BY <1>3, <3>1
    <2> QED
        BY <2>2, UnderIsUp
<1> QED
    BY <1>2, <1>3 DEF P!PointsAt

(* promote makes the bits above w point away from it and changes no other.   *)
LEMMA PromoteTreeUp ==
    ASSUME "plru" \in Policies, NEW p, NEW w \in Ways, NEW tree \in [P(p)!Nodes -> BOOLEAN]
    PROVE  /\ P(p)!PromoteTree(tree, w) \in [P(p)!Nodes -> BOOLEAN]
           /\ \A k \in 1 .. Height :
                P(p)!PromoteTree(tree, w)[Up(w, k) - 1] <=> Up(w, k - 1) % 2 = 1
           /\ \A n \in P(p)!Nodes :
                (\A k \in 1 .. Height : Up(w, k) # n + 1)
                => P(p)!PromoteTree(tree, w)[n] = tree[n]
<1> USE WaysFacts, HeightDef
<1>1. P(p)!PromoteTree(tree, w) \in [P(p)!Nodes -> BOOLEAN]
    BY DEF P!PromoteTree
<1>2. ASSUME NEW k \in 1 .. Height
      PROVE  P(p)!PromoteTree(tree, w)[Up(w, k) - 1] <=> Up(w, k - 1) % 2 = 1
    <2> DEFINE n == Up(w, k) - 1
    <2>1. Up(w, k) \in 1 .. (NumWays - 1) /\ Up(w, k) \in Nat
        BY UpIsNode
    <2>2. n \in P(p)!Nodes /\ Up(w, k) = n + 1
        BY <2>1 DEF P!Nodes
    <2>3. k - 1 \in 0 .. NumWays /\ k \in 0 .. Height
        OBVIOUS
    <2>4. Up(w, k - 1) \in Nat
        BY <2>3, UpStep
    <2>5. Up(w, k - 1) % 2 = 0 \/ Up(w, k - 1) % 2 = 1
        BY <2>4, Halves
    <2> HIDE DEF n
    <2>6. P(p)!UnderLeft(n, w) <=> Up(w, k - 1) % 2 = 0
        <3>1. ASSUME NEW l \in 1 .. Height, Up(w, l) = n + 1
              PROVE  l = k
            BY <2>2, <2>3, <3>1, LevelsApart
        <3> QED
            BY <2>2, <3>1, UnderIsUp
    <2>7. Up(w, k - 1) % 2 = 1 => P(p)!UnderRight(n, w)
        BY <2>2, UnderIsUp
    <2>8. P(p)!PromoteTree(tree, w)[n] =
            IF P(p)!UnderLeft(n, w) THEN FALSE
            ELSE IF P(p)!UnderRight(n, w) THEN TRUE ELSE tree[n]
        BY <2>2 DEF P!PromoteTree
    <2> QED
        BY <2>5, <2>6, <2>7, <2>8 DEF n
<1>3. ASSUME NEW n \in P(p)!Nodes, \A k \in 1 .. Height : Up(w, k) # n + 1
      PROVE  P(p)!PromoteTree(tree, w)[n] = tree[n]
    <2>1. ~P(p)!UnderLeft(n, w) /\ ~P(p)!UnderRight(n, w)
        BY <1>3, UnderIsUp
    <2> QED
        BY <2>1 DEF P!PromoteTree
<1> QED
    BY <1>1, <1>2, <1>3

(* Two leaves part at some node, whose bit points at one of them only. *)
LEMMA OneVictim ==
    ASSUME "plru" \in Policies, NEW p, NEW tree \in [P(p)!Nodes -> BOOLEAN],
           NEW v \in Ways, NEW w \in Ways,
           P(p)!PointsAt(tree, v), P(p)!PointsAt(tree, w)
    PROVE  v = w
<1> USE WaysFacts, HeightDef
<1> DEFINE S == {d \in 0 .. Height : Up(v, Height - d) = Up(w, Height - d)}
<1>1. 0 \in S
    <2>1. Height - 0 = Height /\ 0 \in 0 .. Height
        OBVIOUS
    <2> QED
        BY <2>1, RootIsOne
<1>2. ASSUME NEW d \in 0 .. (Height - 1), d \in S
      PROVE  d + 1 \in S
    <2> DEFINE k == Height - d
    <2>1. k \in 1 .. Height /\ k - 1 = Height - (d + 1) /\ k - 1 \in 0 .. NumWays
          /\ (k - 1) + 1 = k /\ d + 1 \in 0 .. Height
        OBVIOUS
    <2>2. Up(v, k) = Up(w, k)
        BY <1>2
    <2> HIDE DEF k
    <2>3. Up(v, k - 1) % 2 = 0 <=> Up(w, k - 1) % 2 = 0
        BY <2>1, <2>2, PointsAtUp
    <2>4. /\ Up(v, k - 1) \in Nat /\ Up(v, k) = Up(v, k - 1) \div 2
          /\ Up(w, k - 1) \in Nat /\ Up(w, k) = Up(w, k - 1) \div 2
        BY <2>1, UpStep
    <2>5. /\ Up(v, k - 1) = 2 * Up(v, k) + (Up(v, k - 1) % 2)
          /\ Up(v, k - 1) % 2 = 0 \/ Up(v, k - 1) % 2 = 1
        BY <2>4, Halves
    <2>6. /\ Up(w, k - 1) = 2 * Up(w, k) + (Up(w, k - 1) % 2)
          /\ Up(w, k - 1) % 2 = 0 \/ Up(w, k - 1) % 2 = 1
        BY <2>4, Halves
    <2>7. Up(v, k - 1) = Up(w, k - 1)
        BY <2>2, <2>3, <2>5, <2>6
    <2> QED
        BY <2>1, <2>7
<1> HIDE DEF S
<1>3. Height \in S
    <2>1. Height \in Nat /\ Height \in 0 .. Height
        OBVIOUS
    <2> QED
        BY <1>1, <1>2, <2>1, IntervalInduction
<1>4. Up(v, 0) = Up(w, 0)
    <2>1. Height - Height = 0
        OBVIOUS
    <2> QED
        BY <1>3, <2>1 DEF S
<1>5. Up(v, 0) = v + NumWays /\ Up(w, 0) = w + NumWays
    BY UpStep
<1> QED
    BY <1>4, <1>5

-----------------------------------------------------------------------------
(* The loop of evict, as the recursive function in Walk. *)

WalkStep(tree, f, n) ==
    IF n >= NumWays - 1 THEN n - (NumWays - 1)
    ELSE IF tree[n] THEN f[2 * n + 1] ELSE f[2 * n + 2]

(* Its recursion goes to larger numbers only, so there is such a function.   *)
LEMMA WalkExists ==
    ASSUME NEW tree
    PROVE  \E f : f = [n \in 0 .. (2 * NumWays) |-> WalkStep(tree, f, n)]
<1> USE WaysFacts
<1> DEFINE T == 2 * NumWays
           From(j, f) == f = [n \in (T - j) .. T |-> WalkStep(tree, f, n)]
           S == {j \in 0 .. T : \E f : From(j, f)}
<1>1. T \in Nat /\ NumWays \in Nat /\ NumWays >= 1 /\ T = 2 * NumWays
    OBVIOUS
<1>2. 0 \in S
    <2> DEFINE f == [n \in (T - 0) .. T |-> T - (NumWays - 1)]
    <2>1. ASSUME NEW n \in (T - 0) .. T
          PROVE  WalkStep(tree, f, n) = f[n]
        <3>1. n = T /\ n >= NumWays - 1
            BY <1>1
        <3> QED
            BY <3>1 DEF WalkStep
    <2>2. From(0, f)
        BY <2>1
    <2> QED
        BY <2>2, <1>1
<1>3. ASSUME NEW j \in 0 .. (T - 1), j \in S
      PROVE  j + 1 \in S
    <2>1. PICK g : From(j, g)
        BY <1>3
    <2> DEFINE i == T - (j + 1)
               f == [n \in i .. T |-> IF n = i THEN WalkStep(tree, g, i) ELSE g[n]]
    <2>2. i \in Nat /\ i + 1 = T - j /\ i <= T /\ j + 1 \in 0 .. T
        BY <1>1
    <2>3. ASSUME NEW n \in i .. T
          PROVE  WalkStep(tree, f, n) = f[n]
        <3>1. ASSUME n < NumWays - 1
              PROVE  f[2 * n + 1] = g[2 * n + 1] /\ f[2 * n + 2] = g[2 * n + 2]
            <4>1. 2 * n + 1 \in i .. T /\ 2 * n + 1 # i /\ 2 * n + 2 \in i .. T /\ 2 * n + 2 # i
                BY <1>1, <2>2, <3>1
            <4> QED
                BY <4>1
        <3>2. WalkStep(tree, f, n) = WalkStep(tree, g, n)
            BY <1>1, <2>2, <3>1 DEF WalkStep
        <3>3. CASE n = i
            BY <3>2, <3>3
        <3>4. CASE n # i
            <4>1. n \in (T - j) .. T
                BY <2>2, <3>4
            <4>2. g[n] = WalkStep(tree, g, n)
                BY <2>1, <4>1
            <4> QED
                BY <3>2, <3>4, <4>2
        <3> QED
            BY <3>3, <3>4
    <2>4. f = [n \in i .. T |-> WalkStep(tree, f, n)]
        BY <2>3
    <2>5. From(j + 1, f)
        BY <2>4
    <2> QED
        BY <2>2, <2>5
<1>4. T \in S
    <2>1. T \in 0 .. T
        BY <1>1
    <2> HIDE DEF S
    <2> QED
        BY <1>1, <1>2, <1>3, <2>1, IntervalInduction
<1>5. T - T = 0
    BY <1>1
<1> QED
    BY <1>4, <1>5

LEMMA WalkEquation ==
    ASSUME NEW tree
    PROVE  \E f : /\ \A n \in 0 .. (2 * NumWays) : f[n] = WalkStep(tree, f, n)
                  /\ Walk(tree) = f[0]
<1> DEFINE F == CHOOSE f : f = [n \in 0 .. (2 * NumWays) |-> WalkStep(tree, f, n)]
<1>1. F = [n \in 0 .. (2 * NumWays) |-> WalkStep(tree, F, n)]
    BY WalkExists
<1>2. Walk(tree) = F[0]
    BY DEF Walk, WalkStep
<1> HIDE DEF F
<1>3. \A n \in 0 .. (2 * NumWays) : F[n] = WalkStep(tree, F, n)
    BY <1>1
<1> QED
    BY <1>2, <1>3

(* From every node the walk reaches a leaf below it that all the bits between*)
(* point at.                                                                 *)
LEMMA WalkReaches ==
    ASSUME "plru" \in Policies, NEW p, NEW tree \in [P(p)!Nodes -> BOOLEAN],
           NEW f, \A n \in 0 .. (2 * NumWays) : f[n] = WalkStep(tree, f, n),
           NEW n \in 0 .. (2 * NumWays - 2)
    PROVE  /\ f[n] \in Ways
           /\ \E k \in 0 .. Height :
                /\ Up(f[n], k) = n + 1
                /\ \A l \in 1 .. k : tree[Up(f[n], l) - 1] <=> Up(f[n], l - 1) % 2 = 0
<1> USE WaysFacts, HeightDef
<1> DEFINE Reached(w, m) ==
             \E k \in 0 .. Height :
                /\ Up(w, k) = m + 1
                /\ \A l \in 1 .. k : tree[Up(w, l) - 1] <=> Up(w, l - 1) % 2 = 0
           T == 2 * NumWays - 2
           S == {j \in 0 .. T : \A m \in (T - j) .. T : f[m] \in Ways /\ Reached(f[m], m)}
<1>1. T \in Nat /\ T = 2 * NumWays - 2 /\ NumWays \in Nat /\ NumWays >= 1
    OBVIOUS
<1>2. ASSUME NEW m \in Nat, m <= T
      PROVE  f[m] = WalkStep(tree, f, m)
    BY <1>1, <1>2
<1>3. ASSUME NEW m \in Nat, NumWays - 1 <= m, m <= T
      PROVE  f[m] \in Ways /\ Reached(f[m], m)
    <2> DEFINE w == m - (NumWays - 1)
    <2>1. f[m] = w
        BY <1>2, <1>3 DEF WalkStep
    <2>2. w \in Ways
        BY <1>1, <1>3 DEF Ways
    <2>3. w + NumWays = m + 1
        BY <1>1
    <2> HIDE DEF w
    <2>4. Up(w, 0) = m + 1
        BY <2>2, <2>3, UpStep
    <2>5. 0 \in 0 .. Height /\ 1 .. 0 = {}
        OBVIOUS
    <2>6. Reached(w, m)
        BY <2>4, <2>5
    <2> QED
        BY <2>1, <2>2, <2>6
<1>4. 0 \in S
    <2>1. ASSUME NEW m \in (T - 0) .. T
          PROVE  f[m] \in Ways /\ Reached(f[m], m)
        <3>1. m \in Nat /\ NumWays - 1 <= m /\ m <= T
            BY <1>1
        <3> HIDE DEF Reached, T
        <3> QED
            BY <3>1, <1>3
    <2> QED
        BY <1>1, <2>1
<1>5. ASSUME NEW j \in 0 .. (T - 1), j \in S
      PROVE  j + 1 \in S
    <2> DEFINE m == T - (j + 1)
    <2>1. m \in Nat /\ m + 1 = T - j /\ m <= T /\ j + 1 \in 0 .. T
        BY <1>1
    <2>2. CASE m >= NumWays - 1
        <3> HIDE DEF m, Reached, T
        <3>1. f[m] \in Ways /\ Reached(f[m], m)
            BY <1>3, <2>1, <2>2
        <3>2. \A i \in m .. T : i = m \/ i \in (T - j) .. T
            BY <1>1, <2>1
        <3>3. \A i \in m .. T : f[i] \in Ways /\ Reached(f[i], i)
            BY <1>5, <3>1, <3>2
        <3> QED
            BY <2>1, <3>3 DEF m
    <2>3. CASE m < NumWays - 1
        <3> DEFINE c == IF tree[m] THEN 2 * m + 1 ELSE 2 * m + 2
                   w == f[c]
        <3> HIDE DEF m, T, Reached
        <3>1. f[m] = w
            <4>1. f[m] = WalkStep(tree, f, m)
                BY <1>2, <2>1
            <4>2. ~(m >= NumWays - 1)
                BY <1>1, <2>1, <2>3
            <4> QED
                BY <4>1, <4>2 DEF WalkStep
        <3>2. c \in (T - j) .. T /\ c \in Nat /\ c + 1 # 1 /\ (c + 1) \div 2 = m + 1
              /\ ((c + 1) % 2 = 0 <=> tree[m])
            <4>1. CASE tree[m]
                BY <1>1, <2>1, <2>3, <4>1
            <4>2. CASE ~tree[m]
                BY <1>1, <2>1, <2>3, <4>2
            <4> QED
                BY <4>1, <4>2
        <3>3. w \in Ways /\ Reached(w, c)
            BY <1>5, <3>2
        <3> HIDE DEF c, w
        <3> USE DEF Reached
        <3>4. PICK k \in 0 .. Height :
                /\ Up(w, k) = c + 1
                /\ \A l \in 1 .. k : tree[Up(w, l) - 1] <=> Up(w, l - 1) % 2 = 0
            BY <3>3
        <3>5. k # Height
            BY <3>2, <3>3, <3>4, RootIsOne
        <3>6. k + 1 \in 0 .. Height /\ k \in 0 .. NumWays /\ (k + 1) - 1 = k
              /\ \A l \in 1 .. (k + 1) : l = k + 1 \/ l \in 1 .. k
            BY <3>5
        <3>7. Up(w, k + 1) = m + 1
            BY <3>2, <3>3, <3>4, <3>6, UpStep
        <3>8. tree[Up(w, k + 1) - 1] <=> Up(w, (k + 1) - 1) % 2 = 0
            <4>1. (m + 1) - 1 = m
                BY <2>1
            <4> QED
                BY <3>2, <3>4, <3>6, <3>7, <4>1
        <3>9. Reached(w, m)
            BY <3>4, <3>6, <3>7, <3>8
        <3> HIDE DEF Reached
        <3>10. \A i \in m .. T : i = m \/ i \in (T - j) .. T
            BY <1>1, <2>1
        <3>11. \A i \in m .. T : f[i] \in Ways /\ Reached(f[i], i)
            BY <1>5, <3>1, <3>3, <3>9, <3>10
        <3> QED
            BY <2>1, <3>11 DEF m
    <2> QED
        BY <1>1, <2>1, <2>2, <2>3
<1>6. T \in S
    <2>1. T \in 0 .. T
        BY <1>1
    <2> HIDE DEF S, T
    <2> QED
        BY <1>1, <1>4, <1>5, <2>1, IntervalInduction
<1>7. n \in (T - T) .. T
    BY <1>1
<1> QED
    BY <1>6, <1>7

LEMMA WalkIsVictim ==
    ASSUME "plru" \in Policies, NEW p, NEW tree \in [P(p)!Nodes -> BOOLEAN]
    PROVE  Walk(tree) \in Ways /\ P(p)!PointsAt(tree, Walk(tree))
<1> USE WaysFacts, HeightDef
<1>1. PICK f : /\ \A n \in 0 .. (2 * NumWays) : f[n] = WalkStep(tree, f, n)
               /\ Walk(tree) = f[0]
    BY WalkEquation
<1> DEFINE w == f[0]
<1>2. 0 \in 0 .. (2 * NumWays - 2) /\ 0 + 1 = 1 /\ Height \in 0 .. Height
    OBVIOUS
<1>3. /\ w \in Ways
      /\ \E k \in 0 .. Height :
            /\ Up(w, k) = 0 + 1
            /\ \A l \in 1 .. k : tree[Up(w, l) - 1] <=> Up(w, l - 1) % 2 = 0
    BY <1>1, <1>2, WalkReaches
<1> HIDE DEF w
<1>4. PICK k \in 0 .. Height :
        /\ Up(w, k) = 1
        /\ \A l \in 1 .. k : tree[Up(w, l) - 1] <=> Up(w, l - 1) % 2 = 0
    BY <1>2, <1>3
<1>5. k = Height
    BY <1>2, <1>3, <1>4, RootIsOne, LevelsApart
<1>6. P(p)!PointsAt(tree, w)
    BY <1>3, <1>4, <1>5, PointsAtUp
<1> QED
    BY <1>1, <1>3, <1>6 DEF w

-----------------------------------------------------------------------------
(* Without (retain) on a sequence that has w at most once. *)

LEMMA WithoutIsKept ==
    ASSUME NEW p, NEW s, NEW w
    PROVE  LET kept == {i \in 1 .. Len(s) : s[i] # w}
               Nth(n) == CHOOSE i \in kept : Cardinality(kept \cap (1 .. i)) = n
           IN  P(p)!Without(s, w) = [n \in 1 .. Cardinality(kept) |-> s[Nth(n)]]
BY Zenon DEF P!Without, P!Cardinality, Cardinality

LEMMA WithoutAbsent ==
    ASSUME NEW p, NEW s \in Seq(Ways), NEW w, \A n \in 1 .. Len(s) : s[n] # w
    PROVE  P(p)!Without(s, w) = s
<1> DEFINE kept == {i \in 1 .. Len(s) : s[i] # w}
           Nth(n) == CHOOSE i \in kept : Cardinality(kept \cap (1 .. i)) = n
<1>1. Len(s) \in Nat /\ kept = 1 .. Len(s)
    OBVIOUS
<1>2. P(p)!Without(s, w) = [n \in 1 .. Cardinality(kept) |-> s[Nth(n)]]
    BY WithoutIsKept
<1>3. ASSUME NEW i \in 1 .. Len(s)
      PROVE  Cardinality(kept \cap (1 .. i)) = i
    <2>1. kept \cap (1 .. i) = 1 .. i
        BY <1>1
    <2>2. Cardinality(1 .. i) = i
        BY FS_Interval
    <2> QED
        BY <2>1, <2>2
<1>4. Cardinality(kept) = Len(s)
    <2> DEFINE L == Len(s)
    <2>1. L \in Nat /\ kept = 1 .. L
        BY <1>1
    <2> HIDE DEF L, kept
    <2>2. Cardinality(1 .. L) = L
        BY <2>1, FS_Interval
    <2> QED
        BY <2>1, <2>2 DEF L
<1>5. ASSUME NEW n \in 1 .. Len(s)
      PROVE  Nth(n) = n
    <2> HIDE DEF kept
    <2>1. n \in kept /\ Cardinality(kept \cap (1 .. n)) = n
        BY <1>1, <1>3
    <2>2. Nth(n) \in kept /\ Cardinality(kept \cap (1 .. Nth(n))) = n
        BY <2>1
    <2> HIDE DEF Nth
    <2> QED
        BY <1>1, <1>3, <2>2
<1> HIDE DEF kept, Nth
<1>6. P(p)!Without(s, w) = [n \in 1 .. Len(s) |-> s[n]]
    BY <1>2, <1>4, <1>5
<1> QED
    BY <1>6

(* The sequence s without its entry number k. *)
Dropped(s, k) == [n \in 1 .. (Len(s) - 1) |-> IF n < k THEN s[n] ELSE s[n + 1]]

LEMMA DroppedFacts ==
    ASSUME NEW s \in Seq(Ways), NEW k \in 1 .. Len(s)
    PROVE  /\ Dropped(s, k) \in Seq(Ways)
           /\ Len(Dropped(s, k)) = Len(s) - 1
           /\ \A n \in 1 .. (Len(s) - 1) :
                Dropped(s, k)[n] = IF n < k THEN s[n] ELSE s[n + 1]
<1>1. Len(s) \in Nat /\ Len(s) - 1 \in Nat
    OBVIOUS
<1>2. \A n \in 1 .. (Len(s) - 1) : (IF n < k THEN s[n] ELSE s[n + 1]) \in Ways
    BY <1>1
<1> QED
    BY <1>1, <1>2 DEF Dropped

LEMMA WithoutOnce ==
    ASSUME NEW p, NEW s \in Seq(Ways), NEW w, NEW k \in 1 .. Len(s), s[k] = w,
           \A n \in 1 .. Len(s) : s[n] = w => n = k
    PROVE  P(p)!Without(s, w) = Dropped(s, k)
<1> DEFINE kept == {i \in 1 .. Len(s) : s[i] # w}
           Nth(n) == CHOOSE i \in kept : Cardinality(kept \cap (1 .. i)) = n
           L == Len(s)
<1>1. L \in Nat \ {0} /\ kept = (1 .. L) \ {k} /\ k \in Nat /\ k <= L /\ 1 <= k
    OBVIOUS
<1>2. P(p)!Without(s, w) = [n \in 1 .. Cardinality(kept) |-> s[Nth(n)]]
    BY WithoutIsKept
<1>3. ASSUME NEW i \in 1 .. L
      PROVE  Cardinality((1 .. i) \ {k}) = IF i < k THEN i ELSE i - 1
    <2>1. IsFiniteSet(1 .. i) /\ Cardinality(1 .. i) = i
        BY FS_Interval
    <2>2. CASE i < k
        <3>1. (1 .. i) \ {k} = 1 .. i
            BY <1>1, <2>2
        <3> QED
            BY <2>1, <2>2, <3>1
    <2>3. CASE ~(i < k)
        <3>1. k \in 1 .. i
            BY <1>1, <2>3
        <3>2. Cardinality((1 .. i) \ {k}) = Cardinality(1 .. i) - 1
            BY <2>1, <3>1, FS_RemoveElement
        <3> QED
            BY <2>1, <2>3, <3>2
    <2> QED
        BY <2>2, <2>3
<1>4. ASSUME NEW i \in kept
      PROVE  Cardinality(kept \cap (1 .. i)) = IF i < k THEN i ELSE i - 1
    <2>1. i \in 1 .. L /\ kept \cap (1 .. i) = (1 .. i) \ {k}
        BY <1>1
    <2> QED
        BY <1>3, <2>1
<1>5. Cardinality(kept) = L - 1
    <2>1. L \in 1 .. L /\ ~(L < k)
        BY <1>1
    <2>2. Cardinality((1 .. L) \ {k}) = L - 1
        BY <1>3, <2>1
    <2> QED
        BY <1>1, <2>2
<1>6. ASSUME NEW n \in 1 .. (L - 1)
      PROVE  Nth(n) = IF n < k THEN n ELSE n + 1
    <2> HIDE DEF kept, L
    <2> DEFINE m == IF n < k THEN n ELSE n + 1
    <2>1. m \in kept /\ (IF m < k THEN m ELSE m - 1) = n
        BY <1>1
    <2>2. Cardinality(kept \cap (1 .. m)) = n
        BY <1>4, <2>1
    <2>3. Nth(n) \in kept /\ Cardinality(kept \cap (1 .. Nth(n))) = n
        BY <2>1, <2>2
    <2> DEFINE j == Nth(n)
    <2> HIDE DEF Nth
    <2>4. j \in kept /\ (IF j < k THEN j ELSE j - 1) = n
        BY <1>4, <2>3
    <2> HIDE DEF j
    <2>5. j = m
        BY <1>1, <2>4
    <2> QED
        BY <2>5 DEF j
<1> HIDE DEF kept, Nth
<1>7. P(p)!Without(s, w) = [n \in 1 .. (L - 1) |-> IF n < k THEN s[n] ELSE s[n + 1]]
    BY <1>2, <1>5, <1>6
<1> QED
    BY <1>7 DEF Dropped

-----------------------------------------------------------------------------
(* The order of insertion, and FIFO's queue as its mirror image. *)

LEMMA ListLength ==
    ASSUME NEW V, NEW s \in Seq(V), Lists(s, V)
    PROVE  IsFiniteSet(V) /\ Cardinality(V) = Len(s)
<1> DEFINE L == Len(s)
<1>1. L \in Nat /\ s \in [1 .. L -> V]
    OBVIOUS
<1>2. s \in Bijection(1 .. L, V)
    BY <1>1 DEF Lists, Bijection, Injection, Surjection, IsInjective
<1>3. ExistsBijection(1 .. L, V)
    BY <1>2 DEF ExistsBijection
<1> HIDE DEF L
<1>4. IsFiniteSet(1 .. L) /\ Cardinality(1 .. L) = L
    BY <1>1, FS_Interval
<1>5. IsFiniteSet(V) /\ Cardinality(V) = Cardinality(1 .. L)
    BY <1>3, <1>4, FS_Bijection
<1> QED
    BY <1>4, <1>5 DEF L

LEMMA ListWithout ==
    ASSUME NEW p, NEW s \in Seq(Ways), NEW V, Lists(s, V), NEW w
    PROVE  P(p)!Without(s, w) \in Seq(Ways) /\ Lists(P(p)!Without(s, w), V \ {w})
<1> DEFINE t == P(p)!Without(s, w)
           L == Len(s)
<1>1. L \in Nat
    OBVIOUS
<1>2. CASE \A n \in 1 .. L : s[n] # w
    <2>1. t = s
        BY <1>2, WithoutAbsent
    <2>2. V \ {w} = V
        BY <1>2 DEF Lists
    <2> QED
        BY <2>1, <2>2
<1>3. ASSUME NEW k \in 1 .. L, s[k] = w
      PROVE  t \in Seq(Ways) /\ Lists(t, V \ {w})
    <2>1. \A n \in 1 .. L : s[n] = w => n = k
        BY <1>3 DEF Lists
    <2>2. /\ t \in Seq(Ways) /\ Len(t) = L - 1
          /\ \A n \in 1 .. (L - 1) : t[n] = IF n < k THEN s[n] ELSE s[n + 1]
        <3>1. t = Dropped(s, k)
            BY <1>3, <2>1, WithoutOnce
        <3> HIDE DEF t
        <3> QED
            BY <3>1, DroppedFacts
    <2>3. k \in Nat /\ 1 <= k /\ k <= L
        BY <1>1
    <2> HIDE DEF t, L
    <2>4. ASSUME NEW m \in 1 .. (L - 1), NEW n \in 1 .. (L - 1), t[m] = t[n]
          PROVE  m = n
        <3> DEFINE I(i) == IF i < k THEN i ELSE i + 1
        <3>1. I(m) \in 1 .. L /\ I(n) \in 1 .. L /\ t[m] = s[I(m)] /\ t[n] = s[I(n)]
            BY <1>1, <2>2, <2>3
        <3>2. I(m) = I(n)
            BY <2>4, <3>1 DEF Lists, L
        <3> QED
            BY <2>3, <3>2
    <2>5. {t[n] : n \in 1 .. (L - 1)} \subseteq V \ {w}
        <3>1. ASSUME NEW n \in 1 .. (L - 1)
              PROVE  t[n] \in V \ {w}
            <4> DEFINE i == IF n < k THEN n ELSE n + 1
            <4>1. i \in 1 .. L /\ i # k /\ t[n] = s[i]
                BY <1>1, <2>2, <2>3
            <4> HIDE DEF i
            <4> QED
                BY <2>1, <4>1 DEF Lists, L
        <3> QED
            BY <3>1
    <2>6. V \ {w} \subseteq {t[n] : n \in 1 .. (L - 1)}
        <3>1. ASSUME NEW v \in V \ {w}
              PROVE  \E n \in 1 .. (L - 1) : t[n] = v
            <4>1. PICK i \in 1 .. L : s[i] = v
                BY DEF Lists, L
            <4>2. i # k
                BY <1>3, <4>1
            <4> DEFINE n == IF i < k THEN i ELSE i - 1
            <4>3. n \in 1 .. (L - 1) /\ (IF n < k THEN n ELSE n + 1) = i
                BY <1>1, <2>3, <4>2
            <4> HIDE DEF n
            <4>4. t[n] = s[i]
                BY <2>2, <4>3
            <4> QED
                BY <4>1, <4>3, <4>4
        <3> QED
            BY <3>1
    <2>7. Lists(t, V \ {w})
        BY <2>2, <2>4, <2>5, <2>6 DEF Lists
    <2> QED
        BY <2>2, <2>7
<1> QED
    BY <1>2, <1>3

LEMMA ListAppend ==
    ASSUME NEW s \in Seq(Ways), NEW V, Lists(s, V), NEW w \in Ways, w \notin V
    PROVE  Append(s, w) \in Seq(Ways) /\ Lists(Append(s, w), V \cup {w})
<1> DEFINE t == Append(s, w)
           L == Len(s)
<1>1. /\ L \in Nat /\ t \in Seq(Ways) /\ Len(t) = L + 1
      /\ t[L + 1] = w
      /\ \A n \in 1 .. L : t[n] = s[n]
    OBVIOUS
<1> HIDE DEF t, L
<1>2. \A n \in 1 .. (L + 1) : n \in 1 .. L \/ n = L + 1
    BY <1>1
<1>3. \A n \in 1 .. L : n \in 1 .. (L + 1) /\ s[n] \in V
    BY <1>1 DEF Lists, L
<1>4. L + 1 \in 1 .. (L + 1)
    BY <1>1
<1>5. {t[n] : n \in 1 .. (L + 1)} = V \cup {w}
    <2>1. \A n \in 1 .. (L + 1) : t[n] \in V \cup {w}
        BY <1>1, <1>2, <1>3
    <2>2. \A v \in V : \E n \in 1 .. L : s[n] = v
        BY DEF Lists, L
    <2>3. \A v \in V \cup {w} : \E n \in 1 .. (L + 1) : t[n] = v
        BY <1>1, <1>3, <1>4, <2>2
    <2> QED
        BY <2>1, <2>3
<1>6. ASSUME NEW m \in 1 .. (L + 1), NEW n \in 1 .. (L + 1), t[m] = t[n]
      PROVE  m = n
    <2>1. \A i, j \in 1 .. L : s[i] = s[j] => i = j
        BY DEF Lists, L
    <2> QED
        BY <1>1, <1>2, <1>3, <1>6, <2>1
<1>7. Lists(t, V \cup {w})
    BY <1>1, <1>5, <1>6 DEF Lists
<1> QED
    BY <1>1, <1>7 DEF t

LEMMA MirrorPush ==
    ASSUME NEW q \in Seq(Ways), NEW s \in Seq(Ways), Mirrors(q, s), NEW w \in Ways
    PROVE  Mirrors(<<w>> \o q, Append(s, w))
<1> DEFINE a == <<w>> \o q
           t == Append(s, w)
           L == Len(s)
<1>1. /\ L \in Nat /\ Len(t) = L + 1 /\ t[L + 1] = w
      /\ \A n \in 1 .. L : t[n] = s[n]
    OBVIOUS
<1>2. /\ Len(a) = L + 1 /\ a[1] = w
      /\ \A n \in 1 .. (L + 1) : n # 1 => a[n] = q[n - 1]
    BY <1>1 DEF Mirrors
<1>3. \A n \in 1 .. L : q[n] = s[L + 1 - n]
    BY DEF Mirrors
<1> HIDE DEF a, t, L
<1>4. ASSUME NEW n \in 1 .. (L + 1)
      PROVE  a[n] = t[(L + 1) + 1 - n]
    <2>1. CASE n = 1
        <3>1. (L + 1) + 1 - n = L + 1
            BY <1>1, <2>1
        <3> QED
            BY <1>1, <1>2, <2>1, <3>1
    <2>2. CASE n # 1
        <3>1. n - 1 \in 1 .. L /\ L + 1 - (n - 1) = (L + 1) + 1 - n
              /\ (L + 1) + 1 - n \in 1 .. L
            BY <1>1, <2>2
        <3> QED
            BY <1>1, <1>2, <1>3, <2>2, <3>1
    <2> QED
        BY <2>1, <2>2
<1>5. Mirrors(a, t)
    BY <1>1, <1>2, <1>4 DEF Mirrors
<1> QED
    BY <1>5 DEF a, t

LEMMA MirrorWithout ==
    ASSUME NEW p, NEW q \in Seq(Ways), NEW s \in Seq(Ways), Mirrors(q, s),
           NEW V, Lists(s, V), NEW w
    PROVE  /\ P(p)!Without(q, w) \in Seq(Ways)
           /\ Mirrors(P(p)!Without(q, w), P(p)!Without(s, w))
<1> DEFINE L == Len(s)
<1>1. /\ L \in Nat /\ Len(q) = L
      /\ \A n \in 1 .. L : q[n] = s[L + 1 - n]
    BY DEF Mirrors
<1>2. CASE \A n \in 1 .. L : s[n] # w
    <2> HIDE DEF L
    <2>1. \A n \in 1 .. L : L + 1 - n \in 1 .. L
        BY <1>1
    <2>2. \A n \in 1 .. L : q[n] # w
        BY <1>1, <1>2, <2>1
    <2>3. P(p)!Without(q, w) = q
        BY <1>1, <2>2, WithoutAbsent
    <2>4. P(p)!Without(s, w) = s
        BY <1>2, WithoutAbsent DEF L
    <2> QED
        BY <2>3, <2>4
<1>3. ASSUME NEW k \in 1 .. L, s[k] = w
      PROVE  /\ P(p)!Without(q, w) \in Seq(Ways)
             /\ Mirrors(P(p)!Without(q, w), P(p)!Without(s, w))
    <2> DEFINE h == L + 1 - k
               a == P(p)!Without(q, w)
               t == P(p)!Without(s, w)
    <2>1. \A n \in 1 .. L : s[n] = w => n = k
        BY <1>3 DEF Lists
    <2>2. /\ Len(t) = L - 1
          /\ \A n \in 1 .. (L - 1) : t[n] = IF n < k THEN s[n] ELSE s[n + 1]
        <3>1. t = Dropped(s, k)
            BY <1>3, <2>1, WithoutOnce
        <3> HIDE DEF t
        <3> QED
            BY <3>1, DroppedFacts
    <2>3. k \in Nat /\ 1 <= k /\ k <= L
        BY <1>1
    <2> HIDE DEF L
    <2>4. h \in 1 .. L /\ L + 1 - h = k /\ \A n \in 1 .. L : L + 1 - n \in 1 .. L
        <3>1. L \in Nat
            BY <1>1
        <3>2. h \in 1 .. L /\ L + 1 - h = k
            BY <2>3, <3>1
        <3>3. \A n \in 1 .. L : L + 1 - n \in 1 .. L
            BY <3>1
        <3> QED
            BY <3>2, <3>3
    <2>5. q[h] = w
        <3> HIDE DEF h
        <3>1. q[h] = s[L + 1 - h]
            BY <1>1, <2>4
        <3> QED
            BY <1>3, <2>4, <3>1
    <2>6. \A n \in 1 .. L : q[n] = w => n = h
        <3>1. ASSUME NEW n \in 1 .. L, q[n] = w
              PROVE  n = h
            <4>1. L + 1 - n = k
                BY <1>1, <2>1, <2>4, <3>1
            <4> QED
                BY <1>1, <2>3, <4>1
        <3> QED
            BY <3>1
    <2>7. /\ a \in Seq(Ways) /\ Len(a) = L - 1
          /\ \A n \in 1 .. (L - 1) : a[n] = IF n < h THEN q[n] ELSE q[n + 1]
        <3> HIDE DEF h
        <3>1. h \in 1 .. Len(q) /\ \A n \in 1 .. Len(q) : q[n] = w => n = h
            BY <1>1, <2>4, <2>6
        <3>2. /\ a \in Seq(Ways) /\ Len(a) = Len(q) - 1
              /\ \A n \in 1 .. (Len(q) - 1) : a[n] = IF n < h THEN q[n] ELSE q[n + 1]
            <4>1. a = Dropped(q, h)
                BY <2>5, <3>1, WithoutOnce
            <4> HIDE DEF a
            <4> QED
                BY <3>1, <4>1, DroppedFacts
        <3> HIDE DEF a
        <3> QED
            BY <1>1, <3>2
    <2> HIDE DEF a, t
    <2>8. ASSUME NEW n \in 1 .. (L - 1)
          PROVE  a[n] = t[(L - 1) + 1 - n]
        <3> DEFINE m == (L - 1) + 1 - n
        <3>1. m \in 1 .. (L - 1)
            BY <1>1
        <3>2. CASE n < h
            <4>1. ~(m < k) /\ n \in 1 .. L /\ L + 1 - n = m + 1
                BY <1>1, <2>3, <3>2
            <4> HIDE DEF m, h
            <4>2. a[n] = s[m + 1] /\ t[m] = s[m + 1]
                BY <1>1, <2>2, <2>7, <3>1, <3>2, <4>1
            <4> QED
                BY <4>2 DEF m
        <3>3. CASE ~(n < h)
            <4>1. m < k /\ n + 1 \in 1 .. L /\ L + 1 - (n + 1) = m
                BY <1>1, <2>3, <3>3
            <4> HIDE DEF m, h
            <4>2. a[n] = s[m] /\ t[m] = s[m]
                BY <1>1, <2>2, <2>7, <3>1, <3>3, <4>1
            <4> QED
                BY <4>2 DEF m
        <3> QED
            BY <3>2, <3>3
    <2>9. Mirrors(a, t)
        BY <2>2, <2>7, <2>8 DEF Mirrors
    <2> QED
        BY <2>7, <2>9 DEF a, t
<1> QED
    BY <1>2, <1>3

-----------------------------------------------------------------------------
(* What the operations of a policy do to each part of its state. *)

Kinds == {"fifo", "random", "plru"}

LEMMA SameWays == ASSUME NEW p PROVE P(p)!Ways = Ways
BY DEF P!Ways, Ways

LEMMA StateFacts ==
    ASSUME NEW p, NEW r \in P(p)!RPStates
    PROVE  /\ r.valid \in [Ways -> BOOLEAN] /\ r.queue \in Seq(Ways)
           /\ r.tree \in [P(p)!Nodes -> BOOLEAN]
           /\ r = [valid |-> r.valid, queue |-> r.queue, tree |-> r.tree]
BY SameWays DEF P!RPStates

LEMMA StateMade ==
    ASSUME NEW p, NEW v \in [Ways -> BOOLEAN], NEW q \in Seq(Ways),
           NEW t \in [P(p)!Nodes -> BOOLEAN]
    PROVE  [valid |-> v, queue |-> q, tree |-> t] \in P(p)!RPStates
BY SameWays DEF P!RPStates

LEMMA PromoteFacts ==
    ASSUME NEW p, NEW r \in P(p)!RPStates, NEW w \in Ways
    PROVE  P(p)!Promote(r, w) =
             [valid |-> r.valid, queue |-> r.queue,
              tree |-> IF p = "plru" THEN P(p)!PromoteTree(r.tree, w) ELSE r.tree]
<1>1. r = [valid |-> r.valid, queue |-> r.queue, tree |-> r.tree]
    BY StateFacts
<1> QED
    BY <1>1 DEF P!Promote

LEMMA InsertFacts ==
    ASSUME NEW p \in Kinds, NEW r \in P(p)!RPStates, NEW w \in Ways
    PROVE  P(p)!Insert(r, w) =
             [valid |-> [r.valid EXCEPT ![w] = TRUE],
              queue |-> IF p = "fifo" THEN <<w>> \o r.queue ELSE r.queue,
              tree |-> IF p = "plru" THEN P(p)!PromoteTree(r.tree, w) ELSE r.tree]
<1>1. r = [valid |-> r.valid, queue |-> r.queue, tree |-> r.tree]
    BY StateFacts
<1>2. CASE p = "fifo"
    BY <1>1, <1>2 DEF P!Insert
<1>3. CASE p = "random"
    BY <1>1, <1>3 DEF P!Insert
<1>4. CASE p = "plru"
    BY <1>1, <1>4 DEF P!Insert
<1> QED
    BY <1>2, <1>3, <1>4 DEF Kinds

LEMMA InvalidateFacts ==
    ASSUME NEW p, NEW r \in P(p)!RPStates, NEW w \in Ways
    PROVE  P(p)!Invalidate(r, w) =
             [valid |-> [r.valid EXCEPT ![w] = FALSE],
              queue |-> IF p = "fifo" THEN P(p)!Without(r.queue, w) ELSE r.queue,
              tree |-> r.tree]
<1>1. r = [valid |-> r.valid, queue |-> r.queue, tree |-> r.tree]
    BY StateFacts
<1> QED
    BY <1>1 DEF P!Invalidate

LEMMA RemoveVictimFacts ==
    ASSUME NEW p, NEW r \in P(p)!RPStates, NEW w \in Ways
    PROVE  P(p)!RemoveVictim(r, w) =
             [valid |-> [r.valid EXCEPT ![w] = FALSE],
              queue |-> IF p = "fifo" THEN SubSeq(r.queue, 1, Len(r.queue) - 1) ELSE r.queue,
              tree |-> r.tree]
<1>1. r = [valid |-> r.valid, queue |-> r.queue, tree |-> r.tree]
    BY StateFacts
<1> QED
    BY <1>1 DEF P!RemoveVictim

LEMMA EvictFacts ==
    ASSUME NEW p \in Kinds, NEW r \in P(p)!RPStates, NEW e \in P(p)!Evict(r)
    PROVE  /\ e.way \in Ways
           /\ \/ ~e.full /\ ~r.valid[e.way] /\ e.rp = r
              \/ /\ e.full /\ \A w \in Ways : r.valid[w]
                 /\ e.way \in P(p)!Victims(r)
                 /\ e.rp = P(p)!RemoveVictim(r, e.way)
<1> USE SameWays
<1>1. CASE \E w \in Ways : ~r.valid[w]
    <2>1. PICK w \in P(p)!First({v \in Ways : ~r.valid[v]}) :
                e = [full |-> FALSE, way |-> w, rp |-> r]
        BY <1>1 DEF P!Evict
    <2>2. w \in Ways /\ ~r.valid[w]
        BY DEF P!First
    <2> QED
        BY <2>1, <2>2
<1>2. CASE \A w \in Ways : r.valid[w]
    <2>1. PICK w \in P(p)!Victims(r) :
                e = [full |-> TRUE, way |-> w, rp |-> P(p)!RemoveVictim(r, w)]
        BY <1>2 DEF P!Evict
    <2>2. w \in Ways
        <3>1. r.queue \in Seq(Ways)
            BY StateFacts
        <3>2. CASE p = "fifo"
            BY <3>1, <3>2 DEF P!Victims
        <3>3. CASE p = "random"
            BY <3>3 DEF P!Victims
        <3>4. CASE p = "plru"
            BY <3>4 DEF P!Victims
        <3> QED
            BY <3>2, <3>3, <3>4 DEF Kinds
    <2> QED
        BY <1>2, <2>1, <2>2
<1> QED
    BY <1>1, <1>2

(* The way that FIFO takes from the back of its queue is the oldest one, and *)
(* the rest of the queue is what retain would leave.                         *)
LEMMA MirrorPop ==
    ASSUME NEW p, NEW q \in Seq(Ways), NEW s \in Seq(Ways), Mirrors(q, s),
           NEW V, Lists(s, V), Len(q) # 0
    PROVE  /\ 1 \in 1 .. Len(s) /\ q[Len(q)] = s[1]
           /\ SubSeq(q, 1, Len(q) - 1) = P(p)!Without(q, s[1])
<1> DEFINE L == Len(s)
<1>1. /\ L \in Nat \ {0} /\ Len(q) = L
      /\ \A n \in 1 .. L : q[n] = s[L + 1 - n]
    BY DEF Mirrors
<1>2. \A m, n \in 1 .. L : s[m] = s[n] => m = n
    BY DEF Lists
<1> HIDE DEF L
<1>3. 1 \in 1 .. L /\ L \in 1 .. L /\ L + 1 - L = 1 /\ \A n \in 1 .. L : L + 1 - n \in 1 .. L
    BY <1>1
<1>4. q[L] = s[1]
    BY <1>1, <1>3
<1>5. ASSUME NEW n \in 1 .. L, q[n] = s[1]
      PROVE  n = L
    <2>1. L + 1 - n = 1
        BY <1>1, <1>2, <1>3, <1>5
    <2> QED
        BY <1>1, <2>1
<1>6. P(p)!Without(q, s[1]) = Dropped(q, L)
    <2> DEFINE w == s[1]
    <2>1. L \in 1 .. Len(q) /\ \A n \in 1 .. Len(q) : q[n] = w => n = L
        BY <1>1, <1>3, <1>5
    <2>2. q[L] = w
        BY <1>4
    <2> HIDE DEF w
    <2>3. P(p)!Without(q, w) = Dropped(q, L)
        BY <2>1, <2>2, WithoutOnce
    <2> QED
        BY <2>3 DEF w
<1>7. Dropped(q, L) = [n \in 1 .. (L - 1) |-> q[n]]
    <2>1. \A n \in 1 .. (L - 1) : n < L
        BY <1>1
    <2> QED
        BY <1>1, <2>1 DEF Dropped
<1>8. SubSeq(q, 1, L - 1) = [n \in 1 .. (L - 1) |-> q[n]]
    BY <1>1
<1> QED
    BY <1>1, <1>3, <1>4, <1>6, <1>7, <1>8 DEF L

-----------------------------------------------------------------------------
(* The valid bits, the order of insertion and FIFO's queue stay together. *)

ValidOf(r) == {w \in Ways : r.valid[w]}

Ordered(p, r, s) ==
    /\ Lists(s, ValidOf(r))
    /\ p = "fifo" => Mirrors(r.queue, s)

LEMMA PromoteTreeType ==
    ASSUME NEW p, NEW t \in [P(p)!Nodes -> BOOLEAN], NEW w
    PROVE  P(p)!PromoteTree(t, w) \in [P(p)!Nodes -> BOOLEAN]
BY DEF P!PromoteTree

LEMMA InsertKeeps ==
    ASSUME NEW p \in Kinds, NEW r \in P(p)!RPStates, NEW s \in Seq(Ways), Ordered(p, r, s),
           NEW w \in Ways, ~r.valid[w]
    PROVE  /\ P(p)!Insert(r, w) \in P(p)!RPStates
           /\ Append(s, w) \in Seq(Ways)
           /\ ValidOf(P(p)!Insert(r, w)) = ValidOf(r) \cup {w}
           /\ Ordered(p, P(p)!Insert(r, w), Append(s, w))
<1> DEFINE i == P(p)!Insert(r, w)
<1>1. i = [valid |-> [r.valid EXCEPT ![w] = TRUE],
           queue |-> IF p = "fifo" THEN <<w>> \o r.queue ELSE r.queue,
           tree |-> IF p = "plru" THEN P(p)!PromoteTree(r.tree, w) ELSE r.tree]
    BY InsertFacts
<1>2. /\ r.valid \in [Ways -> BOOLEAN] /\ r.queue \in Seq(Ways)
      /\ r.tree \in [P(p)!Nodes -> BOOLEAN]
    BY StateFacts
<1> HIDE DEF i
<1>3. i \in P(p)!RPStates
    <2>1. i.valid \in [Ways -> BOOLEAN] /\ i.queue \in Seq(Ways)
        BY <1>1, <1>2
    <2>2. i.tree \in [P(p)!Nodes -> BOOLEAN]
        BY <1>1, <1>2, PromoteTreeType
    <2>3. i = [valid |-> i.valid, queue |-> i.queue, tree |-> i.tree]
        BY <1>1
    <2> QED
        BY <2>1, <2>2, <2>3, StateMade
<1>4. ValidOf(i) = ValidOf(r) \cup {w}
    BY <1>1, <1>2 DEF ValidOf
<1>5. w \notin ValidOf(r)
    BY DEF ValidOf
<1>6. Append(s, w) \in Seq(Ways) /\ Lists(Append(s, w), ValidOf(r) \cup {w})
    BY <1>5, ListAppend DEF Ordered
<1>7. ASSUME p = "fifo"
      PROVE  Mirrors(i.queue, Append(s, w))
    <2>1. i.queue = <<w>> \o r.queue
        BY <1>1, <1>7
    <2>2. Mirrors(<<w>> \o r.queue, Append(s, w))
        BY <1>2, <1>7, MirrorPush DEF Ordered
    <2> QED
        BY <2>1, <2>2
<1> QED
    BY <1>3, <1>4, <1>6, <1>7 DEF Ordered, i

LEMMA InvalidateKeeps ==
    ASSUME NEW p \in Kinds, NEW r \in P(p)!RPStates, NEW s \in Seq(Ways), Ordered(p, r, s),
           NEW w \in Ways
    PROVE  /\ P(p)!Invalidate(r, w) \in P(p)!RPStates
           /\ P(p)!Without(s, w) \in Seq(Ways)
           /\ ValidOf(P(p)!Invalidate(r, w)) = ValidOf(r) \ {w}
           /\ Ordered(p, P(p)!Invalidate(r, w), P(p)!Without(s, w))
<1> DEFINE i == P(p)!Invalidate(r, w)
           t == P(p)!Without(s, w)
<1>1. i = [valid |-> [r.valid EXCEPT ![w] = FALSE],
           queue |-> IF p = "fifo" THEN P(p)!Without(r.queue, w) ELSE r.queue,
           tree |-> r.tree]
    BY InvalidateFacts
<1>2. /\ r.valid \in [Ways -> BOOLEAN] /\ r.queue \in Seq(Ways)
      /\ r.tree \in [P(p)!Nodes -> BOOLEAN]
    BY StateFacts
<1>3. t \in Seq(Ways) /\ Lists(t, ValidOf(r) \ {w})
    BY ListWithout DEF Ordered
<1>4. p = "fifo" => P(p)!Without(r.queue, w) \in Seq(Ways) /\ Mirrors(P(p)!Without(r.queue, w), t)
    BY <1>2, MirrorWithout DEF Ordered
<1> HIDE DEF i, t
<1>5. i \in P(p)!RPStates
    <2>1. i.valid \in [Ways -> BOOLEAN] /\ i.queue \in Seq(Ways)
        BY <1>1, <1>2, <1>4
    <2>2. i.tree \in [P(p)!Nodes -> BOOLEAN]
        BY <1>1, <1>2
    <2>3. i = [valid |-> i.valid, queue |-> i.queue, tree |-> i.tree]
        BY <1>1
    <2> QED
        BY <2>1, <2>2, <2>3, StateMade
<1>6. ValidOf(i) = ValidOf(r) \ {w}
    BY <1>1, <1>2 DEF ValidOf
<1>7. p = "fifo" => Mirrors(i.queue, t)
    BY <1>1, <1>4
<1> QED
    BY <1>3, <1>5, <1>6, <1>7 DEF Ordered, i, t

(* evict takes its victim out like invalidate does: FIFO's back of the queue *)
(* is the only entry of that way.                                            *)
LEMMA EvictKeeps ==
    ASSUME NEW p \in Kinds, NEW r \in P(p)!RPStates, NEW s \in Seq(Ways), Ordered(p, r, s),
           NEW e \in P(p)!Evict(r)
    PROVE  /\ e.way \in Ways
           /\ e.rp \in P(p)!RPStates
           /\ P(p)!Without(s, e.way) \in Seq(Ways)
           /\ e.rp.tree = r.tree
           /\ ~e.rp.valid[e.way]
           /\ ValidOf(e.rp) = ValidOf(r) \ {e.way}
           /\ Ordered(p, e.rp, P(p)!Without(s, e.way))
           /\ e.full => ValidOf(r) = Ways /\ e.way \in P(p)!Victims(r)
<1> DEFINE w == e.way
<1>1. /\ w \in Ways
      /\ \/ ~e.full /\ ~r.valid[w] /\ e.rp = r
         \/ /\ e.full /\ \A v \in Ways : r.valid[v]
            /\ w \in P(p)!Victims(r)
            /\ e.rp = P(p)!RemoveVictim(r, w)
    BY EvictFacts
<1>2. /\ r.valid \in [Ways -> BOOLEAN] /\ r.queue \in Seq(Ways)
      /\ r.tree \in [P(p)!Nodes -> BOOLEAN]
    BY StateFacts
<1> HIDE DEF w
<1>3. CASE ~e.full /\ ~r.valid[w] /\ e.rp = r
    <2>1. w \notin ValidOf(r)
        BY <1>3 DEF ValidOf
    <2>2. \A n \in 1 .. Len(s) : s[n] # w
        BY <2>1 DEF Ordered, Lists
    <2>3. P(p)!Without(s, w) = s
        BY <2>2, WithoutAbsent
    <2>4. ValidOf(e.rp) = ValidOf(r) \ {w}
        BY <1>3, <2>1
    <2> QED
        BY <1>1, <1>3, <2>3, <2>4 DEF w
<1>4. CASE /\ e.full /\ \A v \in Ways : r.valid[v]
           /\ w \in P(p)!Victims(r)
           /\ e.rp = P(p)!RemoveVictim(r, w)
    <2>1. e.rp = P(p)!Invalidate(r, w)
        <3>1. e.rp = [valid |-> [r.valid EXCEPT ![w] = FALSE],
                      queue |-> IF p = "fifo" THEN SubSeq(r.queue, 1, Len(r.queue) - 1)
                                ELSE r.queue,
                      tree |-> r.tree]
            BY <1>1, <1>4, RemoveVictimFacts
        <3>2. P(p)!Invalidate(r, w) =
                [valid |-> [r.valid EXCEPT ![w] = FALSE],
                 queue |-> IF p = "fifo" THEN P(p)!Without(r.queue, w) ELSE r.queue,
                 tree |-> r.tree]
            BY <1>1, InvalidateFacts
        <3>3. ASSUME p = "fifo"
              PROVE  SubSeq(r.queue, 1, Len(r.queue) - 1) = P(p)!Without(r.queue, w)
            <4> DEFINE q == r.queue
            <4>1. Len(q) # 0 /\ w = q[Len(q)]
                BY <1>4, <3>3 DEF P!Victims
            <4>2. Mirrors(q, s) /\ Lists(s, ValidOf(r))
                BY <3>3 DEF Ordered
            <4>3. q \in Seq(Ways)
                BY <1>2
            <4> HIDE DEF q
            <4>4. w = s[1] /\ SubSeq(q, 1, Len(q) - 1) = P(p)!Without(q, s[1])
                BY <4>1, <4>2, <4>3, MirrorPop
            <4> QED
                BY <4>4 DEF q
        <3>4. CASE p = "fifo"
            <4> DEFINE a == SubSeq(r.queue, 1, Len(r.queue) - 1)
                       b == P(p)!Without(r.queue, w)
                       i == P(p)!Invalidate(r, w)
            <4>1. /\ e.rp = [valid |-> [r.valid EXCEPT ![w] = FALSE], queue |-> a, tree |-> r.tree]
                BY <3>1, <3>4
            <4>2. i = [valid |-> [r.valid EXCEPT ![w] = FALSE], queue |-> b, tree |-> r.tree]
                BY <3>2, <3>4
            <4>3. a = b
                BY <3>3, <3>4
            <4> HIDE DEF a, b, i
            <4>4. e.rp = i
                BY <4>1, <4>2, <4>3
            <4> QED
                BY <4>4 DEF i
        <3>5. CASE p # "fifo"
            BY <3>1, <3>2, <3>5
        <3> QED
            BY <3>4, <3>5
    <2>2. e.rp.tree = r.tree /\ ~e.rp.valid[w]
        <3>1. e.rp = [valid |-> [r.valid EXCEPT ![w] = FALSE],
                      queue |-> IF p = "fifo" THEN SubSeq(r.queue, 1, Len(r.queue) - 1)
                                ELSE r.queue,
                      tree |-> r.tree]
            BY <1>1, <1>4, RemoveVictimFacts
        <3> QED
            BY <1>1, <1>2, <3>1
    <2>3. ValidOf(r) = Ways
        BY <1>4 DEF ValidOf
    <2>4. /\ P(p)!Invalidate(r, w) \in P(p)!RPStates
          /\ P(p)!Without(s, w) \in Seq(Ways)
          /\ ValidOf(P(p)!Invalidate(r, w)) = ValidOf(r) \ {w}
          /\ Ordered(p, P(p)!Invalidate(r, w), P(p)!Without(s, w))
        BY <1>1, InvalidateKeeps
    <2> QED
        BY <1>1, <1>4, <2>1, <2>2, <2>3, <2>4 DEF w
<1> QED
    BY <1>1, <1>3, <1>4

-----------------------------------------------------------------------------
(* Pseudo-LRU on a full set that only misses: the next victim continues the  *)
(* turns of the victims before it.                                           *)

LEMMA EvenMultiple ==
    ASSUME NEW p \in Nat \ {0}, NEW n \in Nat, n % (2 * p) = 0
    PROVE  n % p = 0
<1> DEFINE q == n \div (2 * p)
           h == 2 * q
<1>1. 2 * p \in Nat \ {0}
    OBVIOUS
<1>2. q \in Nat /\ n = (2 * p) * q + (n % (2 * p))
    BY <1>1, Division
<1> HIDE DEF q
<1>3. h \in Nat /\ n = p * h
    BY <1>2
<1> HIDE DEF h
<1>4. (p * h) % p = 0
    BY <1>3, Multiples
<1> QED
    BY <1>3, <1>4

(* One more step of p changes whether a multiple of p is one of 2 * p. *)
LEMMA StepOver ==
    ASSUME NEW p \in Nat \ {0}, NEW n \in Nat \ {0}, n % p = 0
    PROVE  /\ p <= n
           /\ (n - p) % (2 * p) = 0 <=> n % (2 * p) # 0
<1> DEFINE t == n \div p
           u == t - 1
<1>1. t \in Nat /\ n = p * t + (n % p)
    BY Division
<1> HIDE DEF t
<1>2. n = p * t
    BY <1>1
<1>3. t # 0
    BY <1>2
<1>4. u \in Nat /\ t = u + 1
    BY <1>1, <1>3
<1> HIDE DEF u
<1>5. n - p = p * u
    <2>1. p * (u + 1) = p * u + p
        BY <1>4
    <2>2. p * u \in Nat
        BY <1>4
    <2> DEFINE x == p * u
    <2>3. n = x + p /\ x \in Nat
        BY <1>2, <1>4, <2>1, <2>2
    <2> HIDE DEF x
    <2>4. n - p = x
        BY <2>3
    <2> QED
        BY <2>4 DEF x
<1>6. p <= n
    <2>1. p * u \in Nat
        BY <1>4
    <2> DEFINE x == p * u
    <2>2. x \in Nat /\ n - p = x
        BY <1>5, <2>1
    <2> HIDE DEF x
    <2> QED
        BY <2>2
<1>7. (p * u) % (2 * p) = 0 <=> u % 2 = 0
    BY <1>4, EveryOther
<1>8. (p * t) % (2 * p) = 0 <=> t % 2 = 0
    BY <1>1, EveryOther
<1>9. u % 2 = 0 <=> t % 2 # 0
    BY <1>4
<1> QED
    BY <1>2, <1>5, <1>6, <1>7, <1>8, <1>9

(* Two nodes with the same parent are the same or differ in parity. *)
LEMMA Siblings ==
    ASSUME NEW a \in Nat, NEW b \in Nat, a \div 2 = b \div 2
    PROVE  /\ a = b <=> (a % 2 = 0 <=> b % 2 = 0)
           /\ a % 2 = 1 <=> ~(a % 2 = 0)
BY Halves

LEMMA ParentIsHalf ==
    ASSUME "plru" \in Policies, NEW w \in Ways, NEW k \in 1 .. Height
    PROVE  Up(w, k - 1) \in Nat /\ Up(w, k) = Up(w, k - 1) \div 2
<1>1. k - 1 \in 0 .. NumWays /\ (k - 1) + 1 = k
    BY WaysFacts, HeightDef
<1> QED
    BY <1>1, UpStep

(* The victim the bits name after the victims s goes through the nodes of    *)
(* every depth when it is their turn.                                        *)
LEMMA NextTurn ==
    ASSUME "plru" \in Policies, NEW p, NEW tree \in [P(p)!Nodes -> BOOLEAN],
           NEW s \in Seq(Ways), PointsAway(tree, s), Alternates(s),
           NEW v \in Ways, P(p)!PointsAt(tree, v)
    PROVE  \A d \in 0 .. Height : \A i \in 1 .. Len(s) :
             Up(s[i], Height - d) = Up(v, Height - d) <=> ((Len(s) + 1) - i) % (2^d) = 0
<1> USE WaysFacts, HeightDef
<1> DEFINE L == Len(s)
           Turn(d) == \A i \in 1 .. L :
             Up(s[i], Height - d) = Up(v, Height - d) <=> ((L + 1) - i) % (2^d) = 0
           S == {d \in 0 .. Height : Turn(d)}
<1>1. L \in Nat /\ \A i \in 1 .. L : s[i] \in Ways /\ (L + 1) - i \in Nat \ {0}
    OBVIOUS
<1>2. 0 \in S
    <2>1. ASSUME NEW i \in 1 .. L
          PROVE  Up(s[i], Height) = Up(v, Height) /\ ((L + 1) - i) % (2^0) = 0
        <3>1. Up(s[i], Height) = 1 /\ Up(v, Height) = 1
            BY <1>1, RootIsOne
        <3>2. 2^0 = 1 /\ (L + 1) - i \in Nat
            BY <1>1
        <3> QED
            BY <3>1, <3>2
    <2>2. Height - 0 = Height /\ 0 \in 0 .. Height
        OBVIOUS
    <2> QED
        BY <2>1, <2>2
<1>3. ASSUME NEW d \in 0 .. (Height - 1), d \in S
      PROVE  d + 1 \in S
    <2> DEFINE k == Height - d
               b == 2^d
               U(i) == Up(s[i], k)
               C(i) == Up(s[i], k - 1)
               u == Up(v, k)
               c == Up(v, k - 1)
    <2>1. /\ k \in 1 .. Height /\ k - 1 = Height - (d + 1) /\ d + 1 \in 0 .. Height
          /\ d \in 0 .. NumWays
        OBVIOUS
    <2>2. b \in Nat \ {0} /\ 2^(d + 1) = 2 * b
        BY <2>1, PowerAssumption
    <2>3. \A i \in 1 .. L : U(i) = u <=> ((L + 1) - i) % b = 0
        BY <1>3
    <2>4. \A i \in 1 .. L : C(i) \in Nat /\ U(i) = C(i) \div 2
        BY <1>1, <2>1, ParentIsHalf
    <2>5. c \in Nat /\ u = c \div 2
        BY <2>1, ParentIsHalf
    <2>6. \A i, j \in 1 .. L : i <= j => (C(i) = C(j) <=> (j - i) % (2 * b) = 0)
        <3> DEFINE f == d + 1
        <3>1. f \in 0 .. Height /\ Height - f = k - 1
            BY <2>1
        <3>2. 2^f = 2 * b
            BY <2>2
        <3> HIDE DEF f, k, b
        <3>3. \A i, j \in 1 .. L :
                i <= j => (Up(s[i], Height - f) = Up(s[j], Height - f) <=> (j - i) % (2^f) = 0)
            BY <3>1 DEF Alternates
        <3> QED
            BY <3>1, <3>2, <3>3
    <2>7. \A i \in 1 .. L : (\A j \in (i + 1) .. L : U(j) # U(i))
                            => (tree[U(i) - 1] <=> C(i) % 2 = 1)
        BY <2>1 DEF PointsAway
    <2>8. tree[u - 1] <=> c % 2 = 0
        BY <2>1, PointsAtUp
    <2>9. ASSUME NEW i \in 1 .. L
          PROVE  C(i) = c <=> ((L + 1) - i) % (2 * b) = 0
        <3> DEFINE n == (L + 1) - i
        <3>1. n \in Nat \ {0}
            BY <1>1
        <3> HIDE DEF L, k, b, U, C, u, c
        <3>2. CASE n % b # 0
            <4>1. U(i) # u
                BY <2>3, <3>2
            <4>2. C(i) # c
                BY <2>4, <2>5, <4>1
            <4> HIDE DEF n
            <4>3. n % (2 * b) # 0
                BY <2>2, <3>1, <3>2, EvenMultiple
            <4> QED
                BY <4>2, <4>3 DEF n
        <3>3. CASE n % b = 0
            <4> DEFINE m == (L + 1) - b
            <4>1. b <= n /\ ((n - b) % (2 * b) = 0 <=> n % (2 * b) # 0)
                <5> HIDE DEF n
                <5> QED
                    BY <2>2, <3>1, <3>3, StepOver
            <4>2. m \in 1 .. L /\ (L + 1) - m = b /\ i <= m /\ m - i = n - b
                BY <1>1, <2>2, <4>1
            <4>3. U(i) = u
                BY <2>3, <3>3
            <4>4. U(m) = u
                <5>1. b % b = 0
                    BY <2>2
                <5> HIDE DEF m
                <5> QED
                    BY <2>3, <4>2, <5>1
            <4>5. ASSUME NEW j \in (m + 1) .. L
                  PROVE  U(j) # u
                <5> DEFINE z == (L + 1) - j
                <5>1. j \in 1 .. L /\ z \in 1 .. (b - 1)
                    BY <1>1, <2>2, <4>2
                <5> HIDE DEF z
                <5>2. z \in Nat /\ z = b * 0 + z /\ z \in 0 .. (b - 1) /\ z # 0
                    BY <2>2, <5>1
                <5>3. z % b = z
                    BY <2>2, <5>2, QuotientUnique
                <5>4. ((L + 1) - j) % b # 0
                    BY <5>2, <5>3 DEF z
                <5> QED
                    BY <2>3, <5>1, <5>4
            <4> HIDE DEF m, n
            <4>6. tree[U(m) - 1] <=> C(m) % 2 = 1
                BY <2>7, <4>2, <4>4, <4>5
            <4>7. C(m) % 2 = 1 <=> c % 2 = 0
                BY <2>8, <4>4, <4>6
            <4>8. C(i) = C(m) <=> n % (2 * b) # 0
                BY <2>6, <4>1, <4>2
            <4>9. C(i) \in Nat /\ C(m) \in Nat /\ C(i) \div 2 = u /\ C(m) \div 2 = u
                BY <2>4, <4>2, <4>3, <4>4
            <4>10. C(i) = C(m) <=> (C(i) % 2 = 0 <=> C(m) % 2 = 0)
                BY <4>9, Siblings
            <4>11. C(i) = c <=> (C(i) % 2 = 0 <=> c % 2 = 0)
                BY <2>5, <4>9, Siblings
            <4>12. C(m) % 2 = 1 <=> ~(C(m) % 2 = 0)
                BY <4>9, Siblings
            <4> QED
                BY <4>7, <4>8, <4>10, <4>11, <4>12 DEF n
        <3> QED
            BY <3>2, <3>3
    <2>10. Turn(d + 1)
        BY <2>1, <2>2, <2>9
    <2> QED
        BY <2>1, <2>10
<1>4. Height \in Nat
    OBVIOUS
<1>5. \A d \in 0 .. Height : d \in S
    <2> HIDE DEF S
    <2> QED
        BY <1>2, <1>3, <1>4, IntervalInduction
<1> QED
    BY <1>5

LEMMA TurnsShift ==
    ASSUME NEW tree, NEW s \in Seq(Ways), s # <<>>, PointsAway(tree, s), Alternates(s)
    PROVE  /\ Tail(s) \in Seq(Ways) /\ Len(Tail(s)) = Len(s) - 1
           /\ PointsAway(tree, Tail(s)) /\ Alternates(Tail(s))
<1> DEFINE t == Tail(s)
           L == Len(s)
           M == L - 1
<1>1. /\ L \in Nat \ {0} /\ M \in Nat /\ t \in Seq(Ways) /\ Len(t) = M
      /\ \A n \in 1 .. M : t[n] = s[n + 1] /\ n + 1 \in 1 .. L
    OBVIOUS
<1> HIDE DEF t
<1>2. PointsAway(tree, t)
    <2> SUFFICES ASSUME NEW i \in 1 .. M, NEW k \in 1 .. Height,
                        \A j \in (i + 1) .. M : Up(t[j], k) # Up(t[i], k)
                 PROVE  tree[Up(t[i], k) - 1] <=> Up(t[i], k - 1) % 2 = 1
        BY <1>1 DEF PointsAway
    <2> DEFINE e == i + 1
    <2>1. e \in 1 .. L /\ s[e] = t[i]
        BY <1>1
    <2>2. ASSUME NEW j \in (e + 1) .. L
          PROVE  Up(s[j], k) # Up(s[e], k)
        <3>1. j - 1 \in (i + 1) .. M /\ j - 1 \in 1 .. M /\ (j - 1) + 1 = j
            BY <1>1
        <3>2. t[j - 1] = s[j]
            BY <1>1, <3>1
        <3> QED
            BY <2>1, <3>1, <3>2
    <2> HIDE DEF e
    <2>3. tree[Up(s[e], k) - 1] <=> Up(s[e], k - 1) % 2 = 1
        BY <2>1, <2>2 DEF PointsAway
    <2> QED
        BY <2>1, <2>3
<1>3. Alternates(t)
    <2> SUFFICES ASSUME NEW d \in 0 .. Height, NEW i \in 1 .. M, NEW j \in 1 .. M, i <= j
                 PROVE  Up(t[i], Height - d) = Up(t[j], Height - d) <=> (j - i) % (2^d) = 0
        BY <1>1 DEF Alternates
    <2> DEFINE e == i + 1
               f == j + 1
    <2>1. e \in 1 .. L /\ s[e] = t[i] /\ f \in 1 .. L /\ s[f] = t[j] /\ e <= f /\ f - e = j - i
        BY <1>1
    <2> HIDE DEF e, f
    <2>2. Up(s[e], Height - d) = Up(s[f], Height - d) <=> (f - e) % (2^d) = 0
        BY <2>1 DEF Alternates
    <2> QED
        BY <2>1, <2>2
<1> QED
    BY <1>1, <1>2, <1>3 DEF t

LEMMA TurnsContinue ==
    ASSUME "plru" \in Policies, NEW p, NEW tree \in [P(p)!Nodes -> BOOLEAN],
           NEW s \in Seq(Ways), PointsAway(tree, s), Alternates(s),
           NEW v \in Ways, P(p)!PointsAt(tree, v)
    PROVE  Alternates(Append(s, v))
<1> DEFINE t == Append(s, v)
           L == Len(s)
<1>1. /\ L \in Nat /\ Len(t) = L + 1 /\ t[L + 1] = v
      /\ \A n \in 1 .. L : t[n] = s[n]
    OBVIOUS
<1>2. \A d \in 0 .. Height : \A i \in 1 .. L :
             Up(s[i], Height - d) = Up(v, Height - d) <=> ((L + 1) - i) % (2^d) = 0
    BY NextTurn
<1> HIDE DEF t
<1> SUFFICES ASSUME NEW d \in 0 .. Height, NEW i \in 1 .. (L + 1), NEW j \in 1 .. (L + 1), i <= j
             PROVE  Up(t[i], Height - d) = Up(t[j], Height - d) <=> (j - i) % (2^d) = 0
    BY <1>1 DEF Alternates, t
<1>3. CASE i = j
    <2>1. d \in 0 .. NumWays
        BY WaysFacts, HeightDef
    <2>2. 2^d \in Nat \ {0}
        BY <2>1, PowerAssumption
    <2>3. j - i = 0
        BY <1>1, <1>3
    <2>4. 0 % (2^d) = 0
        BY <2>2
    <2> QED
        BY <1>3, <2>3, <2>4
<1>4. CASE i # j /\ j = L + 1
    <2>1. i \in 1 .. L
        BY <1>1, <1>4
    <2> HIDE DEF L
    <2> QED
        BY <1>1, <1>2, <1>4, <2>1
<1>5. CASE j # L + 1
    <2>1. i \in 1 .. L /\ j \in 1 .. L
        BY <1>1, <1>5
    <2>2. Up(s[i], Height - d) = Up(s[j], Height - d) <=> (j - i) % (2^d) = 0
        BY <2>1 DEF Alternates
    <2> QED
        BY <1>1, <2>1, <2>2
<1> QED
    BY <1>3, <1>4, <1>5

LEMMA BitsContinue ==
    ASSUME "plru" \in Policies, NEW p, NEW tree \in [P(p)!Nodes -> BOOLEAN],
           NEW s \in Seq(Ways), PointsAway(tree, s), NEW v \in Ways
    PROVE  PointsAway(P(p)!PromoteTree(tree, v), Append(s, v))
<1> DEFINE t == Append(s, v)
           L == Len(s)
           a == P(p)!PromoteTree(tree, v)
<1>1. /\ L \in Nat /\ Len(t) = L + 1 /\ t[L + 1] = v
      /\ \A n \in 1 .. L : t[n] = s[n] /\ s[n] \in Ways
    OBVIOUS
<1>2. /\ \A k \in 1 .. Height : a[Up(v, k) - 1] <=> Up(v, k - 1) % 2 = 1
      /\ \A n \in P(p)!Nodes : (\A k \in 1 .. Height : Up(v, k) # n + 1) => a[n] = tree[n]
    BY PromoteTreeUp
<1> HIDE DEF t, a
<1> SUFFICES ASSUME NEW i \in 1 .. (L + 1), NEW k \in 1 .. Height,
                    \A j \in (i + 1) .. (L + 1) : Up(t[j], k) # Up(t[i], k)
             PROVE  a[Up(t[i], k) - 1] <=> Up(t[i], k - 1) % 2 = 1
    <2>1. PointsAway(a, t)
        BY <1>1 DEF PointsAway
    <2> QED
        BY <2>1 DEF t, a
<1>3. CASE i = L + 1
    BY <1>1, <1>2, <1>3
<1>4. CASE i # L + 1
    <2> DEFINE w == s[i]
               n == Up(w, k) - 1
    <2>1. i \in 1 .. L /\ t[i] = w /\ w \in Ways /\ L + 1 \in (i + 1) .. (L + 1)
        BY <1>1, <1>4
    <2>2. Up(v, k) # Up(w, k)
        BY <1>1, <2>1
    <2>3. ASSUME NEW j \in (i + 1) .. L
          PROVE  Up(s[j], k) # Up(w, k)
        <3>1. j \in (i + 1) .. (L + 1) /\ j \in 1 .. L
            BY <1>1, <2>1
        <3> QED
            BY <1>1, <2>1, <3>1
    <2>4. tree[Up(w, k) - 1] <=> Up(w, k - 1) % 2 = 1
        BY <2>1, <2>3 DEF PointsAway
    <2> HIDE DEF w, L
    <2>5. Up(w, k) \in Nat /\ Up(w, k) \in 1 .. (NumWays - 1)
        BY <2>1, UpIsNode
    <2>6. n \in P(p)!Nodes /\ n + 1 = Up(w, k)
        BY <2>5, WaysFacts DEF P!Nodes
    <2>7. ASSUME NEW l \in 1 .. Height, Up(v, l) = Up(w, k)
          PROVE  FALSE
        <3>1. l \in 0 .. Height /\ k \in 0 .. Height
            BY HeightDef, WaysFacts
        <3>2. l = k
            BY <2>1, <2>7, <3>1, LevelsApart
        <3> QED
            BY <2>2, <2>7, <3>2
    <2> HIDE DEF n
    <2>8. a[n] = tree[n]
        BY <1>2, <2>6, <2>7
    <2> QED
        BY <2>1, <2>4, <2>8 DEF n
<1> QED
    BY <1>3, <1>4

-----------------------------------------------------------------------------
(* FIFO on a full set that only misses: the oldest way is the victim and     *)
(* becomes the youngest, so the last victims stay the youngest ways.         *)

LEMMA FullLength ==
    ASSUME NEW s \in Seq(Ways), Lists(s, Ways)
    PROVE  Len(s) = NumWays
<1>1. Cardinality(Ways) = Len(s)
    BY ListLength
<1>2. Cardinality(0 .. (NumWays - 1)) = NumWays
    BY WaysFacts, FS_Interval
<1> QED
    BY <1>1, <1>2 DEF Ways

LEMMA FifoContinues ==
    ASSUME NEW p, NEW s \in Seq(Ways), Lists(s, Ways),
           NEW t \in Seq(Ways), Len(t) <= NumWays, Ends(t, s)
    PROVE  LET x == IF Len(t) < NumWays THEN t ELSE Tail(t)
           IN  Ends(Append(x, s[1]), Append(P(p)!Without(s, s[1]), s[1]))
<1> DEFINE L == Len(s)
           K == Len(t)
           w == s[1]
           x == IF K < NumWays THEN t ELSE Tail(t)
           M == Len(x)
           y == P(p)!Without(s, w)
           a == Append(x, w)
           b == Append(y, w)
<1>1. L = NumWays /\ L \in Nat \ {0} /\ K \in Nat /\ K <= L
    BY FullLength, WaysFacts
<1>2. \A n \in 1 .. K : t[n] = s[L - K + n]
    BY DEF Ends
<1>3. 1 \in 1 .. L /\ w \in Ways /\ \A n \in 1 .. L : s[n] = w => n = 1
    BY <1>1 DEF Lists
<1>4. y = Dropped(s, 1)
    <2> DEFINE k == 1
    <2>1. \A n \in 1 .. Len(s) : s[n] = w => n = k
        BY <1>3
    <2>2. k \in 1 .. Len(s) /\ s[k] = w
        BY <1>3
    <2> HIDE DEF w, y, L, k
    <2>3. P(p)!Without(s, w) = Dropped(s, k)
        BY <2>1, <2>2, WithoutOnce
    <2> QED
        BY <2>3 DEF y, k
<1>5. y \in Seq(Ways) /\ Len(y) = L - 1 /\ \A n \in 1 .. (L - 1) : y[n] = s[n + 1]
    <2>1. \A n \in 1 .. (L - 1) : ~(n < 1)
        BY <1>1
    <2> QED
        BY <1>3, <1>4, <2>1, DroppedFacts
<1>6. x \in Seq(Ways) /\ M \in Nat /\ M <= L - 1 /\ \A n \in 1 .. M : x[n] = s[L - M + n]
    <2>1. CASE K < NumWays
        BY <1>1, <1>2, <2>1
    <2>2. CASE ~(K < NumWays)
        <3>1. K = L /\ t # <<>> /\ x = Tail(t)
            BY <1>1, <2>2
        <3>2. x \in Seq(Ways) /\ M = L - 1 /\ \A n \in 1 .. (L - 1) : x[n] = t[n + 1]
            BY <1>1, <3>1
        <3>3. \A n \in 1 .. (L - 1) : n + 1 \in 1 .. K /\ L - K + (n + 1) = L - (L - 1) + n
            BY <1>1, <3>1
        <3>4. \A n \in 1 .. (L - 1) : t[n + 1] = s[L - (L - 1) + n]
            <4> HIDE DEF x, M, L, K
            <4> QED
                BY <1>2, <3>3
        <3> HIDE DEF x, M, L
        <3> QED
            BY <1>1, <3>2, <3>4
    <2> QED
        BY <2>1, <2>2
<1> HIDE DEF x, y, w, M
<1>7. Len(a) = M + 1 /\ a[M + 1] = w /\ \A n \in 1 .. M : a[n] = x[n]
    BY <1>3, <1>6 DEF M
<1>8. Len(b) = L /\ b[L] = w /\ \A n \in 1 .. (L - 1) : b[n] = y[n]
    BY <1>1, <1>3, <1>5
<1> HIDE DEF a, b
<1>9. ASSUME NEW n \in 1 .. (M + 1)
      PROVE  a[n] = b[L - (M + 1) + n]
    <2>1. CASE n = M + 1
        <3>1. L - (M + 1) + n = L
            BY <1>1, <1>6, <2>1
        <3> QED
            BY <1>7, <1>8, <2>1, <3>1
    <2>2. CASE n # M + 1
        <3> DEFINE m == L - (M + 1) + n
        <3>1. n \in 1 .. M /\ m \in 1 .. (L - 1) /\ m + 1 = L - M + n
            BY <1>1, <1>6, <2>2
        <3>2. a[n] = s[L - M + n]
            BY <1>6, <1>7, <3>1
        <3>3. b[m] = s[m + 1]
            <4> HIDE DEF m
            <4> QED
                BY <1>5, <1>8, <3>1
        <3> QED
            BY <3>1, <3>2, <3>3
    <2> QED
        BY <2>1, <2>2
<1>10. Ends(a, b)
    BY <1>1, <1>6, <1>7, <1>8, <1>9 DEF Ends
<1> QED
    BY <1>10 DEF a, b, x, y, w

-----------------------------------------------------------------------------
(* evict names a way, and promote points the bits away from its way. *)

LEMMA VictimFound ==
    ASSUME NEW p \in Kinds, p \in Policies, NEW r \in P(p)!RPStates,
           NEW s \in Seq(Ways), Ordered(p, r, s)
    PROVE  P(p)!Evict(r) # {}
<1> USE SameWays
<1>1. /\ r.valid \in [Ways -> BOOLEAN] /\ r.queue \in Seq(Ways)
      /\ r.tree \in [P(p)!Nodes -> BOOLEAN]
    BY StateFacts
<1>2. CASE \E w \in Ways : ~r.valid[w]
    <2> DEFINE T == {w \in Ways : ~r.valid[w]}
    <2>1. T \subseteq Nat /\ T # {}
        BY <1>2, WaysFacts
    <2>2. \E x \in T : \A y \in T : x <= y
        <3> HIDE DEF T
        <3> QED
            BY <2>1, LeastNumber
    <2>3. P(p)!First(T) # {}
        BY <2>2 DEF P!First
    <2>4. P(p)!Evict(r) = {[full |-> FALSE, way |-> w, rp |-> r] : w \in P(p)!First(T)}
        BY <1>2 DEF P!Evict
    <2> QED
        BY <2>3, <2>4
<1>3. CASE ~ \E w \in Ways : ~r.valid[w]
    <2>1. ValidOf(r) = Ways
        BY <1>3 DEF ValidOf
    <2>2. P(p)!Victims(r) # {}
        <3>1. CASE p = "fifo"
            <4>1. Mirrors(r.queue, s) /\ Lists(s, Ways)
                BY <2>1, <3>1 DEF Ordered
            <4>2. Len(s) = NumWays
                BY <4>1, FullLength
            <4>3. Len(r.queue) # 0
                BY <4>1, <4>2, WaysFacts DEF Mirrors
            <4>4. P(p)!Victims(r) = {r.queue[n] : n \in {Len(r.queue)} \ {0}}
                BY <3>1 DEF P!Victims
            <4> QED
                BY <4>3, <4>4
        <3>2. CASE p = "random"
            <4>1. 0 \in Ways
                BY WaysFacts DEF Ways
            <4> QED
                BY <3>2, <4>1 DEF P!Victims
        <3>3. CASE p = "plru"
            <4>1. Walk(r.tree) \in Ways /\ P(p)!PointsAt(r.tree, Walk(r.tree))
                BY <1>1, <3>3, WalkIsVictim
            <4>2. P(p)!Victims(r) = {w \in Ways : P(p)!PointsAt(r.tree, w)}
                BY <3>3 DEF P!Victims
            <4> QED
                BY <4>1, <4>2
        <3> QED
            BY <3>1, <3>2, <3>3 DEF Kinds
    <2>3. P(p)!Evict(r) = {[full |-> TRUE, way |-> w, rp |-> P(p)!RemoveVictim(r, w)] :
                              w \in P(p)!Victims(r)}
        BY <1>3 DEF P!Evict
    <2> QED
        BY <2>2, <2>3
<1> QED
    BY <1>2, <1>3

LEMMA PromoteSpares ==
    ASSUME "plru" \in Policies, NEW p, NEW tree \in [P(p)!Nodes -> BOOLEAN],
           NEW w \in Ways, NumWays > 1
    PROVE  ~P(p)!PointsAt(P(p)!PromoteTree(tree, w), w)
<1> DEFINE a == P(p)!PromoteTree(tree, w)
<1>1. /\ a \in [P(p)!Nodes -> BOOLEAN]
      /\ \A k \in 1 .. Height : a[Up(w, k) - 1] <=> Up(w, k - 1) % 2 = 1
    BY PromoteTreeUp
<1> HIDE DEF a
<1>2. Height # 0
    <2> SUFFICES ASSUME Height = 0
                 PROVE  FALSE
        OBVIOUS
    <2>1. NumWays = 2^Height
        BY HeightDef
    <2>2. NumWays = 2^0
        BY <2>1
    <2>3. 2^0 = 1
        OBVIOUS
    <2> QED
        BY <2>2, <2>3
<1>3. 1 \in 1 .. Height /\ 1 - 1 = 0
    BY <1>2, HeightDef, WaysFacts
<1>4. Up(w, 0) \in Nat
    BY <1>3, ParentIsHalf
<1>5. ~(Up(w, 0) % 2 = 0 /\ Up(w, 0) % 2 = 1) /\ (Up(w, 0) % 2 = 0 \/ Up(w, 0) % 2 = 1)
    BY <1>4, Halves
<1>6. a[Up(w, 1) - 1] <=> Up(w, 0) % 2 = 1
    BY <1>1, <1>3
<1>7. ~P(p)!PointsAt(a, w)
    <2> SUFFICES ASSUME P(p)!PointsAt(a, w)
                 PROVE  FALSE
        OBVIOUS
    <2>1. \A k \in 1 .. Height : a[Up(w, k) - 1] <=> Up(w, k - 1) % 2 = 0
        BY <1>1, PointsAtUp
    <2>2. a[Up(w, 1) - 1] <=> Up(w, 0) % 2 = 0
        BY <1>3, <2>1
    <2> QED
        BY <1>5, <1>6, <2>2
<1> QED
    BY <1>7 DEF a

-----------------------------------------------------------------------------
(* Every step keeps the invariant. *)

LEMMA InvFacts ==
    ASSUME IndInv
    PROVE  /\ policy \in Kinds /\ policy \in Policies
           /\ rp \in P(policy)!RPStates
           /\ order \in Seq(Ways) /\ streak \in Seq(Ways) /\ newest \in Ways \cup {-1}
           /\ Valid = ValidOf(rp)
           /\ Ordered(policy, rp, order)
<1>1. policy \in Policies /\ policy \in Kinds
    BY EvictionAssumption DEF IndInv, TypeOK, Kinds
<1>2. Valid = ValidOf(rp)
    BY DEF Valid, ValidOf
<1>3. Ordered(policy, rp, order)
    BY <1>2 DEF IndInv, OrderInv, Ordered
<1> QED
    BY <1>1, <1>2, <1>3 DEF IndInv, TypeOK

LEMMA OrderPrimed ==
    ASSUME policy' = policy, Ordered(policy, rp', order')
    PROVE  OrderInv' /\ Valid' = ValidOf(rp')
<1>1. Valid' = ValidOf(rp')
    BY DEF Valid, ValidOf, Ways
<1> QED
    BY <1>1 DEF OrderInv, Ordered

LEMMA NoStreak ==
    ASSUME streak' = <<>>, order' \in Seq(Ways)
    PROVE  StreakInv' /\ FifoTurnInv' /\ BitsInv' /\ PlruTurnInv'
<1>1. Len(streak') = 0 /\ Len(order') \in Nat /\ NumWays \in Nat /\ 1 .. Len(streak') = {}
    BY WaysFacts
<1>2. StreakInv'
    BY <1>1 DEF StreakInv
<1>3. FifoTurnInv'
    BY <1>1 DEF FifoTurnInv, Ends
<1>4. BitsInv'
    BY <1>1 DEF BitsInv, PointsAway
<1>5. PlruTurnInv'
    BY <1>1 DEF PlruTurnInv, Alternates
<1> QED
    BY <1>2, <1>3, <1>4, <1>5

LEMMA PlruVictims ==
    ASSUME NEW p, p = "plru", NEW r
    PROVE  P(p)!Victims(r) = {w \in Ways : P(p)!PointsAt(r.tree, w)}
BY SameWays DEF P!Victims

(* promote and insert leave a tree that spares the way, in the next state. *)
LEMMA SparedPrimed ==
    ASSUME policy' = policy, policy \in Policies, NEW w \in Ways, newest' = w,
           NEW tree \in [P(policy)!Nodes -> BOOLEAN],
           policy = "plru" => rp'.tree = P(policy)!PromoteTree(tree, w)
    PROVE  PlruSparesNewest'
<1> SUFFICES ASSUME policy = "plru", NumWays > 1
             PROVE  w \notin P(policy)!Victims(rp')
    BY DEF PlruSparesNewest
<1>1. "plru" \in Policies
    OBVIOUS
<1>2. ~P(policy)!PointsAt(P(policy)!PromoteTree(tree, w), w)
    BY <1>1, PromoteSpares
<1>3. P(policy)!Victims(rp') = {v \in Ways : P(policy)!PointsAt(rp'.tree, v)}
    BY PlruVictims
<1> QED
    BY <1>2, <1>3

(* A step that leaves the tree and the newest way alone spares it as before. *)
LEMMA SparedStill ==
    ASSUME PlruSparesNewest, policy' = policy, newest' = newest, rp'.tree = rp.tree
    PROVE  PlruSparesNewest'
<1> SUFFICES ASSUME policy = "plru", NumWays > 1, newest \in Ways
             PROVE  newest \notin P(policy)!Victims(rp')
    BY DEF PlruSparesNewest, Ways
<1>1. P(policy)!Victims(rp') = {v \in Ways : P(policy)!PointsAt(rp'.tree, v)}
    BY PlruVictims
<1>2. P(policy)!Victims(rp) = {v \in Ways : P(policy)!PointsAt(rp.tree, v)}
    BY PlruVictims
<1> QED
    BY <1>1, <1>2 DEF PlruSparesNewest

LEMMA InitHolds ==
    ASSUME Init
    PROVE  IndInv
<1>1. policy \in Policies
    BY DEF Init
<1> DEFINE r == P(policy)!NewRP
<1>2. r = [valid |-> [w \in Ways |-> FALSE], queue |-> <<>>,
           tree |-> [n \in P(policy)!Nodes |-> FALSE]]
    BY SameWays DEF P!NewRP
<1>3. rp = r
    BY DEF Init
<1> HIDE DEF r
<1>4. rp \in P(policy)!RPStates
    <2>1. /\ [w \in Ways |-> FALSE] \in [Ways -> BOOLEAN] /\ <<>> \in Seq(Ways)
          /\ [n \in P(policy)!Nodes |-> FALSE] \in [P(policy)!Nodes -> BOOLEAN]
        OBVIOUS
    <2> QED
        BY <1>2, <1>3, <2>1, StateMade
<1>5. TypeOK
    BY <1>1, <1>4 DEF Init, TypeOK
<1>6. Valid = {} /\ rp.queue = <<>> /\ order = <<>> /\ streak = <<>> /\ Len(order) = 0
    BY <1>2, <1>3 DEF Init, Valid
<1>7. OrderInv
    <2>1. Lists(order, Valid)
        BY <1>6 DEF Lists
    <2>2. Mirrors(rp.queue, order)
        BY <1>6 DEF Mirrors
    <2> QED
        BY <2>1, <2>2 DEF OrderInv
<1>8. 1 .. Len(streak) = {} /\ Len(streak) = 0 /\ NumWays \in Nat
    BY <1>6, WaysFacts
<1>9. StreakInv /\ FifoTurnInv /\ BitsInv /\ PlruTurnInv
    BY <1>6, <1>8 DEF StreakInv, FifoTurnInv, Ends, BitsInv, PointsAway, PlruTurnInv, Alternates
<1>10. PlruSparesNewest
    BY WaysFacts DEF Init, PlruSparesNewest
<1> QED
    BY <1>5, <1>7, <1>9, <1>10 DEF IndInv

LEMMA StutterHolds ==
    ASSUME IndInv, UNCHANGED vars
    PROVE  IndInv'
BY DEF IndInv, vars, TypeOK, OrderInv, Valid, StreakInv, FifoTurnInv, PlruSparesNewest,
       BitsInv, PlruTurnInv

LEMMA TouchHolds ==
    ASSUME IndInv, NEW w \in Ways, Touch(w)
    PROVE  IndInv'
<1>1. /\ policy \in Kinds /\ policy \in Policies /\ rp \in P(policy)!RPStates
      /\ order \in Seq(Ways) /\ Ordered(policy, rp, order)
    BY InvFacts
<1>2. /\ policy' = policy /\ order' = order /\ streak' = <<>> /\ newest' = w
      /\ rp' = P(policy)!Promote(rp, w)
    BY DEF Touch
<1>3. rp' = [valid |-> rp.valid, queue |-> rp.queue,
             tree |-> IF policy = "plru" THEN P(policy)!PromoteTree(rp.tree, w) ELSE rp.tree]
    BY <1>1, <1>2, PromoteFacts
<1>4. /\ rp.valid \in [Ways -> BOOLEAN] /\ rp.queue \in Seq(Ways)
      /\ rp.tree \in [P(policy)!Nodes -> BOOLEAN]
    BY <1>1, StateFacts
<1>5. rp' \in P(policy)!RPStates
    <2> DEFINE t == IF policy = "plru" THEN P(policy)!PromoteTree(rp.tree, w) ELSE rp.tree
    <2>1. t \in [P(policy)!Nodes -> BOOLEAN]
        BY <1>4, PromoteTreeType
    <2>2. rp' = [valid |-> rp.valid, queue |-> rp.queue, tree |-> t]
        BY <1>3
    <2> HIDE DEF t
    <2> QED
        BY <1>4, <2>1, <2>2, StateMade
<1>6. TypeOK'
    BY <1>1, <1>2, <1>5 DEF TypeOK, Ways
<1>7. Ordered(policy, rp', order')
    <2>1. rp'.valid = rp.valid /\ rp'.queue = rp.queue
        BY <1>3
    <2> QED
        BY <1>1, <1>2, <2>1 DEF Ordered, ValidOf
<1>8. OrderInv'
    BY <1>2, <1>7, OrderPrimed
<1>9. PlruSparesNewest'
    <2>1. policy = "plru" => rp'.tree = P(policy)!PromoteTree(rp.tree, w)
        BY <1>3
    <2> QED
        BY <1>1, <1>2, <1>4, <2>1, SparedPrimed
<1>10. StreakInv' /\ FifoTurnInv' /\ BitsInv' /\ PlruTurnInv'
    BY <1>1, <1>2, NoStreak
<1> QED
    BY <1>6, <1>8, <1>9, <1>10 DEF IndInv

LEMMA InvalidateHolds ==
    ASSUME IndInv, NEW w \in Ways, InvalidateWay(w)
    PROVE  IndInv'
<1>1. /\ policy \in Kinds /\ policy \in Policies /\ rp \in P(policy)!RPStates
      /\ order \in Seq(Ways) /\ Ordered(policy, rp, order) /\ newest \in Ways \cup {-1}
    BY InvFacts
<1>2. /\ policy' = policy /\ order' = P(policy)!Without(order, w) /\ streak' = <<>>
      /\ newest' = newest /\ rp' = P(policy)!Invalidate(rp, w)
    BY DEF InvalidateWay
<1>3. /\ rp' \in P(policy)!RPStates /\ order' \in Seq(Ways) /\ Ordered(policy, rp', order')
    BY <1>1, <1>2, InvalidateKeeps
<1>4. TypeOK'
    BY <1>1, <1>2, <1>3 DEF TypeOK, Ways
<1>5. OrderInv'
    BY <1>2, <1>3, OrderPrimed
<1>6. PlruSparesNewest'
    <2>1. rp' = [valid |-> [rp.valid EXCEPT ![w] = FALSE],
                 queue |-> IF policy = "fifo" THEN P(policy)!Without(rp.queue, w) ELSE rp.queue,
                 tree |-> rp.tree]
        BY <1>1, <1>2, InvalidateFacts
    <2>2. rp'.tree = rp.tree
        BY <2>1
    <2> QED
        BY <1>2, <2>2, SparedStill DEF IndInv
<1>7. StreakInv' /\ FifoTurnInv' /\ BitsInv' /\ PlruTurnInv'
    BY <1>2, <1>3, NoStreak
<1> QED
    BY <1>4, <1>5, <1>6, <1>7 DEF IndInv

LEMMA EvictOnlyHolds ==
    ASSUME IndInv, EvictOnly
    PROVE  IndInv'
<1>1. /\ policy \in Kinds /\ policy \in Policies /\ rp \in P(policy)!RPStates
      /\ order \in Seq(Ways) /\ Ordered(policy, rp, order) /\ newest \in Ways \cup {-1}
    BY InvFacts
<1>2. PICK e \in P(policy)!Evict(rp) :
        /\ policy' = policy /\ order' = P(policy)!Without(order, e.way) /\ streak' = <<>>
        /\ newest' = newest /\ rp' = e.rp
    BY DEF EvictOnly
<1>3. /\ rp' \in P(policy)!RPStates /\ order' \in Seq(Ways) /\ Ordered(policy, rp', order')
      /\ rp'.tree = rp.tree
    BY <1>1, <1>2, EvictKeeps
<1>4. TypeOK'
    BY <1>1, <1>2, <1>3 DEF TypeOK, Ways
<1>5. OrderInv'
    BY <1>2, <1>3, OrderPrimed
<1>6. PlruSparesNewest'
    BY <1>2, <1>3, SparedStill DEF IndInv
<1>7. StreakInv' /\ FifoTurnInv' /\ BitsInv' /\ PlruTurnInv'
    BY <1>2, <1>3, NoStreak
<1> QED
    BY <1>4, <1>5, <1>6, <1>7 DEF IndInv

(* The victims before the next one: the oldest is forgotten when there are   *)
(* NumWays of them.                                                          *)
LEMMA RecentFacts ==
    ASSUME NEW t \in Seq(Ways), Len(t) <= NumWays
    PROVE  LET x == IF Len(t) < NumWays THEN t ELSE Tail(t)
           IN  /\ x \in Seq(Ways) /\ Len(x) < NumWays
               /\ \A tree : PointsAway(tree, t) /\ Alternates(t)
                            => PointsAway(tree, x) /\ Alternates(x)
<1>1. CASE Len(t) < NumWays
    BY <1>1
<1>2. CASE ~(Len(t) < NumWays)
    <2>1. t # <<>> /\ Tail(t) \in Seq(Ways) /\ Len(Tail(t)) = Len(t) - 1
        BY <1>2, WaysFacts
    <2>2. Len(Tail(t)) < NumWays
        BY <2>1, WaysFacts
    <2>3. \A tree : PointsAway(tree, t) /\ Alternates(t)
                    => PointsAway(tree, Tail(t)) /\ Alternates(Tail(t))
        BY <2>1, TurnsShift
    <2> QED
        BY <1>2, <2>1, <2>2, <2>3
<1> QED
    BY <1>1, <1>2

LEMMA FillHolds ==
    ASSUME IndInv, Fill
    PROVE  IndInv'
<1>1. /\ policy \in Kinds /\ policy \in Policies /\ rp \in P(policy)!RPStates
      /\ order \in Seq(Ways) /\ Ordered(policy, rp, order) /\ streak \in Seq(Ways)
    BY InvFacts
<1>2. PICK e \in P(policy)!Evict(rp) :
        /\ policy' = policy
        /\ rp' = P(policy)!Insert(e.rp, e.way)
        /\ order' = Append(P(policy)!Without(order, e.way), e.way)
        /\ newest' = e.way
        /\ streak' = IF e.full THEN Extend(e.way) ELSE <<>>
    BY DEF Fill
<1> DEFINE w == e.way
           r == e.rp
           s == P(policy)!Without(order, w)
<1>3. /\ w \in Ways /\ r \in P(policy)!RPStates /\ s \in Seq(Ways)
      /\ r.tree = rp.tree /\ ~r.valid[w]
      /\ ValidOf(r) = ValidOf(rp) \ {w}
      /\ Ordered(policy, r, s)
      /\ e.full => ValidOf(rp) = Ways /\ w \in P(policy)!Victims(rp)
    BY <1>1, EvictKeeps
<1>4. /\ rp' = P(policy)!Insert(r, w) /\ order' = Append(s, w) /\ newest' = w
      /\ streak' = IF e.full THEN Extend(w) ELSE <<>>
    BY <1>2
<1> HIDE DEF w, r, s
<1>5. /\ rp' \in P(policy)!RPStates /\ order' \in Seq(Ways)
      /\ ValidOf(rp') = ValidOf(r) \cup {w}
      /\ Ordered(policy, rp', order')
    BY <1>1, <1>3, <1>4, InsertKeeps
<1>6. rp.tree \in [P(policy)!Nodes -> BOOLEAN]
    BY <1>1, StateFacts
<1>7. policy = "plru" => rp'.tree = P(policy)!PromoteTree(rp.tree, w)
    <2>1. rp' = [valid |-> [r.valid EXCEPT ![w] = TRUE],
                 queue |-> IF policy = "fifo" THEN <<w>> \o r.queue ELSE r.queue,
                 tree |-> IF policy = "plru" THEN P(policy)!PromoteTree(r.tree, w) ELSE r.tree]
        BY <1>1, <1>3, <1>4, InsertFacts
    <2> QED
        BY <1>3, <2>1
<1>8. OrderInv' /\ Valid' = ValidOf(rp')
    BY <1>2, <1>5, OrderPrimed
<1>9. PlruSparesNewest'
    BY <1>1, <1>2, <1>3, <1>4, <1>6, <1>7, SparedPrimed
<1>10. CASE ~e.full
    <2>1. streak' = <<>>
        BY <1>4, <1>10
    <2>2. StreakInv' /\ FifoTurnInv' /\ BitsInv' /\ PlruTurnInv'
        BY <1>5, <2>1, NoStreak
    <2>3. TypeOK'
        <3>1. streak' \in Seq(Ways)
            BY <2>1
        <3>2. policy' = policy /\ newest' = w
            BY <1>2, <1>4
        <3> QED
            BY <1>1, <1>3, <1>5, <3>1, <3>2 DEF TypeOK, Ways
    <2> QED
        BY <1>8, <1>9, <2>2, <2>3 DEF IndInv
<1>11. CASE e.full
    <2> DEFINE x == IF Len(streak) < NumWays THEN streak ELSE Tail(streak)
    <2>1. Len(streak) <= NumWays
        BY DEF IndInv, StreakInv
    <2>2. /\ x \in Seq(Ways) /\ Len(x) < NumWays
          /\ \A tree : PointsAway(tree, streak) /\ Alternates(streak)
                       => PointsAway(tree, x) /\ Alternates(x)
        BY <1>1, <2>1, RecentFacts
    <2>3. streak' = Append(x, w)
        BY <1>4, <1>11 DEF Extend
    <2>4. FifoTurnInv'
        <3> SUFFICES ASSUME policy = "fifo"
                     PROVE  Ends(streak', order')
            BY <1>2 DEF FifoTurnInv
        <3>1. Lists(order, Ways) /\ Mirrors(rp.queue, order)
            BY <1>1, <1>3, <1>11 DEF Ordered
        <3>2. rp.queue \in Seq(Ways)
            BY <1>1, StateFacts
        <3>3. Len(rp.queue) # 0 /\ w = rp.queue[Len(rp.queue)]
            BY <1>3, <1>11 DEF P!Victims
        <3>4. w = order[1]
            BY <1>1, <3>1, <3>2, <3>3, MirrorPop
        <3>5. Ends(streak, order)
            BY DEF IndInv, FifoTurnInv
        <3>6. Ends(Append(x, order[1]), Append(P(policy)!Without(order, order[1]), order[1]))
            BY <1>1, <2>1, <3>1, <3>5, FifoContinues
        <3> QED
            BY <1>4, <2>3, <3>4, <3>6 DEF s
    <2> HIDE DEF x
    <2>5. streak' \in Seq(Ways) /\ Len(streak') <= NumWays
        BY <1>3, <2>2, <2>3, WaysFacts
    <2>6. StreakInv'
        <3>1. Valid' = Ways
            BY <1>3, <1>5, <1>8, <1>11
        <3> QED
            BY <2>5, <3>1 DEF StreakInv, Ways
    <2>7. BitsInv' /\ PlruTurnInv'
        <3> SUFFICES ASSUME policy = "plru"
                     PROVE  PointsAway(rp'.tree, streak') /\ Alternates(streak')
            BY <1>2 DEF BitsInv, PlruTurnInv
        <3>1. "plru" \in Policies
            BY <1>1
        <3>2. PointsAway(rp.tree, x) /\ Alternates(x)
            BY <2>2 DEF IndInv, BitsInv, PlruTurnInv
        <3>3. P(policy)!PointsAt(rp.tree, w)
            BY <1>3, <1>11, PlruVictims
        <3>4. Alternates(Append(x, w))
            BY <1>3, <1>6, <2>2, <3>1, <3>2, <3>3, TurnsContinue
        <3>5. PointsAway(P(policy)!PromoteTree(rp.tree, w), Append(x, w))
            BY <1>3, <1>6, <2>2, <3>1, <3>2, BitsContinue
        <3> QED
            BY <1>7, <2>3, <3>4, <3>5
    <2>8. TypeOK'
        BY <1>1, <1>2, <1>3, <1>4, <1>5, <2>5 DEF TypeOK, Ways
    <2> QED
        BY <1>8, <1>9, <2>4, <2>6, <2>7, <2>8 DEF IndInv
<1> QED
    BY <1>10, <1>11

-----------------------------------------------------------------------------
(* The theorems. *)

(* The invariant holds in every state of every run of one set's policy.      *)
THEOREM EvictionInvariant == Spec => []IndInv
<1>1. Init => IndInv
    BY InitHolds
<1>2. IndInv /\ [Next]_vars => IndInv'
    <2> SUFFICES ASSUME IndInv, [Next]_vars
                 PROVE  IndInv'
        OBVIOUS
    <2>1. CASE Fill
        BY <2>1, FillHolds
    <2>2. CASE EvictOnly
        BY <2>2, EvictOnlyHolds
    <2>3. ASSUME NEW w \in Ways, Touch(w)
          PROVE  IndInv'
        BY <2>3, TouchHolds
    <2>4. ASSUME NEW w \in Ways, InvalidateWay(w)
          PROVE  IndInv'
        BY <2>4, InvalidateHolds
    <2>5. CASE UNCHANGED vars
        BY <2>5, StutterHolds
    <2> QED
        BY <2>1, <2>2, <2>3, <2>4, <2>5 DEF Next
<1> QED
    BY <1>1, <1>2, PTL DEF Spec

(* The state of every policy keeps its type: evict and invalidate of FIFO,   *)
(* random and pseudo-LRU never leave a way the set does not have.            *)
THEOREM EvictionTypes == Spec => []TypeOK
<1>1. IndInv => TypeOK
    BY DEF IndInv
<1> QED
    BY <1>1, EvictionInvariant, PTL

(* The queue of FifoRP lists exactly the valid ways, once each, youngest     *)
(* first, whatever fills, evictions and invalidations happened.              *)
THEOREM FifoReplacesInOrder == Spec => []FifoQueueIsOrder
<1>1. IndInv => FifoQueueIsOrder
    <2> SUFFICES ASSUME IndInv, policy = "fifo"
                 PROVE  /\ Len(rp.queue) = Len(order)
                        /\ \A n \in 1 .. Len(order) : rp.queue[n] = order[Len(order) + 1 - n]
                        /\ {order[n] : n \in 1 .. Len(order)} = Valid
                        /\ Len(order) = Cardinality(Valid)
        BY DEF FifoQueueIsOrder
    <2>1. Mirrors(rp.queue, order) /\ Lists(order, Valid) /\ order \in Seq(Ways)
        BY DEF IndInv, OrderInv, TypeOK
    <2>2. order \in Seq(Valid)
        BY <2>1 DEF Lists
    <2>3. Len(order) = Cardinality(Valid)
        BY <2>1, <2>2, ListLength
    <2> QED
        BY <2>1, <2>3 DEF Mirrors, Lists
<1> QED
    BY <1>1, EvictionInvariant, PTL

(* Pseudo-LRU never evicts the way that was accessed or filled last, unless  *)
(* the set has only that one.                                                *)
THEOREM NewestIsSpared == Spec => []PlruSparesNewest
<1>1. IndInv => PlruSparesNewest
    BY DEF IndInv
<1> QED
    BY <1>1, EvictionInvariant, PTL

(* The loop of PseudoLruRP::evict, from the root to a leaf, ends in a way of *)
(* the set, the only one that every bit on its path points at.               *)
THEOREM WalkFindsVictim == Spec => []PlruWalk
<1>1. IndInv => PlruWalk
    <2> SUFFICES ASSUME IndInv, policy = "plru"
                 PROVE  P(policy)!Victims(rp) = {Walk(rp.tree)}
        BY DEF PlruWalk
    <2>1. "plru" \in Policies /\ rp \in P(policy)!RPStates
        BY InvFacts
    <2>2. rp.tree \in [P(policy)!Nodes -> BOOLEAN]
        BY <2>1, StateFacts
    <2> DEFINE v == Walk(rp.tree)
    <2>3. v \in Ways /\ P(policy)!PointsAt(rp.tree, v)
        BY <2>1, <2>2, WalkIsVictim
    <2>4. P(policy)!Victims(rp) = {w \in Ways : P(policy)!PointsAt(rp.tree, w)}
        BY PlruVictims
    <2> HIDE DEF v
    <2>5. \A w \in Ways : P(policy)!PointsAt(rp.tree, w) => w = v
        BY <2>1, <2>2, <2>3, OneVictim
    <2> QED
        BY <2>3, <2>4, <2>5 DEF v
<1> QED
    BY <1>1, EvictionInvariant, PTL

(* evict always names a way: the first way that is not valid, or a victim.   *)
(* pop_back of FIFO's queue never finds it empty when the set is full.       *)
THEOREM VictimAlwaysFound == Spec => []AlwaysAVictim
<1>1. IndInv => AlwaysAVictim
    BY InvFacts, VictimFound DEF AlwaysAVictim
<1> QED
    BY <1>1, EvictionInvariant, PTL

(* While a full set only misses, FIFO and pseudo-LRU replace every way before*)
(* any way again, for every associativity and from every state of the tree.  *)
THEOREM EveryWayTakesItsTurn == Spec => []EveryWayInTurn
<1>1. IndInv => EveryWayInTurn
    <2> SUFFICES ASSUME IndInv, policy # "random", NEW m \in 1 .. Len(streak),
                        NEW n \in 1 .. Len(streak), streak[m] = streak[n]
                 PROVE  m = n
        BY DEF EveryWayInTurn
    <2>1. /\ policy \in Kinds /\ policy \in Policies
          /\ order \in Seq(Ways) /\ streak \in Seq(Ways)
        BY InvFacts
    <2>2. CASE policy = "fifo"
        <3> DEFINE o == Len(order) - Len(streak)
        <3>1. /\ Lists(order, Valid) /\ Len(streak) <= Len(order)
              /\ streak[m] = order[o + m] /\ streak[n] = order[o + n]
            BY <2>2 DEF IndInv, OrderInv, FifoTurnInv, Ends
        <3>2. o \in Nat /\ o + m \in 1 .. Len(order) /\ o + n \in 1 .. Len(order)
            BY <2>1, <3>1
        <3> HIDE DEF o
        <3>3. o + m = o + n
            BY <3>1, <3>2 DEF Lists
        <3> QED
            BY <3>2, <3>3
    <2>3. CASE policy = "plru"
        <3>1. Height \in 0 .. Height /\ Height - Height = 0 /\ 2^Height = NumWays
            BY <2>1, <2>3, HeightDef
        <3>2. Alternates(streak) /\ Len(streak) <= NumWays
            BY <2>3 DEF IndInv, PlruTurnInv, StreakInv
        <3>3. ASSUME NEW i \in 1 .. Len(streak), NEW j \in 1 .. Len(streak), i <= j,
                     streak[i] = streak[j]
              PROVE  i = j
            <4>1. Up(streak[i], Height - Height) = Up(streak[j], Height - Height)
                BY <3>3
            <4>2. (j - i) % (2^Height) = 0
                BY <3>1, <3>2, <3>3, <4>1 DEF Alternates
            <4>3. j - i \in 0 .. (NumWays - 1) /\ (j - i) % NumWays = 0
                BY <2>1, <3>1, <3>2, <3>3, <4>2, WaysFacts
            <4>4. j - i = 0
                BY <4>3, WaysFacts
            <4> QED
                BY <4>4
        <3>4. m <= n \/ n <= m
            BY <2>1
        <3> QED
            BY <3>3, <3>4
    <2> QED
        BY <2>1, <2>2, <2>3 DEF Kinds
<1> QED
    BY <1>1, EvictionInvariant, PTL
=============================================================================
