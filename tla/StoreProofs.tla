---------------------------- MODULE StoreProofs ----------------------------
(***************************************************************************)
(* What the pure functions of Store and Validate compute, for every store: *)
(* bisection finds the first index, an id survives its packing, and in a   *)
(* store that validate accepts each lookup finds the one row of its key.   *)
(***************************************************************************)
EXTENDS Validate, FiniteSetTheorems, WellFoundedInduction, TLAPS

-----------------------------------------------------------------------------
(* Least elements.                                                         *)

\* Induction over the naturals takes this form: no least counterexample.
LEMMA LeastNat ==
    ASSUME NEW T \in SUBSET Nat, T # {}
    PROVE  \E m \in T : \A k \in T : m <= k
<1> DEFINE R == OpToRel(<, Nat)
<1>1. IsWellFoundedOn(R, Nat)
  BY NatLessThanWellFounded
<1>2. PICK m \in T : \A k \in T : <<k, m>> \notin R
  BY <1>1, WFMin
<1>3. \A k \in T : ~(k < m)
  BY <1>2 DEF OpToRel
<1> QED
  BY <1>3

LEMMA MinIs ==
    ASSUME NEW T \in SUBSET Nat, T # {}
    PROVE  Min(T) \in T /\ \A k \in T : Min(T) <= k
<1>1. \E m \in T : \A k \in T : m <= k
  BY LeastNat
<1> QED
  BY <1>1 DEF Min

LEMMA MaxIs ==
    ASSUME NEW T \in SUBSET Nat, T # {}, NEW b \in Nat, \A k \in T : k <= b
    PROVE  Max(T) \in T /\ \A k \in T : k <= Max(T)
<1> DEFINE U == {b - k : k \in T}
<1>1. U \in SUBSET Nat /\ U # {}
  <2>1. \A k \in T : b - k \in Nat
    OBVIOUS
  <2> QED
    BY <2>1
<1>2. PICK m \in U : \A k \in U : m <= k
  BY <1>1, LeastNat
<1>3. PICK x \in T : m = b - x
  BY <1>2
<1>4. \A k \in T : k <= x
  BY <1>2, <1>3
<1> QED
  BY <1>3, <1>4 DEF Max

-----------------------------------------------------------------------------
(* sort.Search.                                                            *)

Half(i, j) == (i + j) \div 2

\* One turn of the bisection.
Turn(n, holds, g) ==
    [w \in (0..n) \X (0..n) |->
        IF w[1] >= w[2] THEN w[1]
        ELSE IF holds[Half(w[1], w[2])] THEN g[<<w[1], Half(w[1], w[2])>>]
                                        ELSE g[<<Half(w[1], w[2]) + 1, w[2]>>]]

LEMMA HalfBetween ==
    ASSUME NEW i \in Nat, NEW j \in Nat, i < j
    PROVE  Half(i, j) \in i..j - 1 /\ Half(i, j) \in Nat
  BY DEF Half

LEMMA SearchIs ==
    ASSUME NEW n, NEW holds
    PROVE  Search(n, holds) = (CHOOSE g : g = Turn(n, holds, g))[<<0, n>>]
  BY DEF Search, Turn, Half

\* r, moved into i..j.
Clamp(r, i, j) == IF i >= j \/ r < i THEN i ELSE IF r > j THEN j ELSE r

(* Search over a predicate that is false below r and true from r on is r.  *)
LEMMA SearchFinds ==
    ASSUME NEW n \in Nat, NEW holds, NEW r \in 0..n,
           \A k \in 0..n - 1 : holds[k] <=> k >= r
    PROVE  Search(n, holds) = r
<1> DEFINE W == (0..n) \X (0..n)
           c == [w \in W |-> Clamp(r, w[1], w[2])]
           b == CHOOSE g : g = Turn(n, holds, g)
<1>1. ASSUME NEW i \in 0..n, NEW j \in 0..n, i < j
      PROVE  /\ Half(i, j) \in i..j - 1 /\ Half(i, j) \in 0..n
             /\ Half(i, j) + 1 \in 0..n
             /\ Clamp(r, i, j) = IF holds[Half(i, j)] THEN Clamp(r, i, Half(i, j))
                                                      ELSE Clamp(r, Half(i, j) + 1, j)
  <2> DEFINE h == Half(i, j)
  <2>1. h \in i..j - 1 /\ h \in 0..n - 1 /\ h \in 0..n /\ h + 1 \in 0..n
    BY <1>1, HalfBetween
  <2> HIDE DEF h
  <2>2. holds[h] <=> h >= r
    BY <2>1
  <2>3. Clamp(r, i, j) = IF holds[h] THEN Clamp(r, i, h) ELSE Clamp(r, h + 1, j)
    BY <1>1, <2>1, <2>2 DEF Clamp
  <2> QED
    BY <2>1, <2>3 DEF h
<1>2. c = Turn(n, holds, c)
  <2>1. ASSUME NEW w \in W
        PROVE  c[w] = IF w[1] >= w[2] THEN w[1]
                      ELSE IF holds[Half(w[1], w[2])] THEN c[<<w[1], Half(w[1], w[2])>>]
                                                      ELSE c[<<Half(w[1], w[2]) + 1, w[2]>>]
    <3>1. PICK i \in 0..n, j \in 0..n : w = <<i, j>>
      OBVIOUS
    <3>2. c[w] = Clamp(r, i, j)
      BY <3>1
    <3>3. CASE i >= j
      BY <3>1, <3>2, <3>3 DEF Clamp
    <3>4. CASE i < j
      <4> DEFINE h == Half(i, j)
      <4>1. h \in 0..n /\ h + 1 \in 0..n
        BY <1>1, <3>4
      <4>2. Clamp(r, i, j) = IF holds[h] THEN Clamp(r, i, h) ELSE Clamp(r, h + 1, j)
        BY <1>1, <3>4
      <4> HIDE DEF h
      <4>3. c[<<i, h>>] = Clamp(r, i, h) /\ c[<<h + 1, j>>] = Clamp(r, h + 1, j)
        BY <4>1
      <4> HIDE DEF c
      <4>4. c[w] = IF holds[h] THEN c[<<i, h>>] ELSE c[<<h + 1, j>>]
        BY <3>2, <4>2, <4>3
      <4> QED
        BY <3>1, <3>4, <4>4 DEF h
    <3> QED
      BY <3>3, <3>4
  <2>2. c = [w \in W |-> c[w]]
    OBVIOUS
  <2> HIDE DEF c
  <2> QED
    BY <2>1, <2>2 DEF Turn
<1>3. b = Turn(n, holds, b)
  BY <1>2
<1> HIDE DEF b, c
<1>4. ASSUME NEW i \in 0..n, NEW j \in 0..n
      PROVE  b[<<i, j>>] = IF i >= j THEN i
                           ELSE IF holds[Half(i, j)] THEN b[<<i, Half(i, j)>>]
                                                     ELSE b[<<Half(i, j) + 1, j>>]
  BY <1>3 DEF Turn
<1> DEFINE Wrong(d) == \E i \in 0..n, j \in 0..n :
                          j - i <= d /\ b[<<i, j>>] # Clamp(r, i, j)
           T == {d \in Nat : Wrong(d)}
<1>5. T = {}
  <2>1. SUFFICES ASSUME T # {} PROVE FALSE
    OBVIOUS
  <2>2. PICK d \in T : \A k \in T : d <= k
    BY <2>1, LeastNat
  <2>3. PICK i \in 0..n, j \in 0..n : j - i <= d /\ b[<<i, j>>] # Clamp(r, i, j)
    BY <2>2
  <2>4. i < j
    <3>1. i >= j => b[<<i, j>>] = i
      BY <1>4
    <3> QED
      BY <2>3, <3>1 DEF Clamp
  <2> DEFINE h == Half(i, j)
  <2>5. /\ h \in i..j - 1 /\ h \in 0..n /\ h + 1 \in 0..n
        /\ Clamp(r, i, j) = IF holds[h] THEN Clamp(r, i, h) ELSE Clamp(r, h + 1, j)
    BY <1>1, <2>4
  <2>6. b[<<i, j>>] = IF holds[h] THEN b[<<i, h>>] ELSE b[<<h + 1, j>>]
    BY <1>4, <2>4
  <2> HIDE DEF h
  <2>7. d - 1 \in Nat /\ d - 1 \notin T
    <3>1. d \in Nat /\ d >= 1
      BY <2>3, <2>4
    <3> HIDE DEF T
    <3>2. d - 1 \in T => d <= d - 1
      BY <2>2
    <3> QED
      BY <3>1, <3>2
  <2>8. b[<<i, h>>] = Clamp(r, i, h) /\ b[<<h + 1, j>>] = Clamp(r, h + 1, j)
    <3>1. h - i <= d - 1 /\ j - (h + 1) <= d - 1
      BY <2>2, <2>3, <2>5
    <3> QED
      BY <2>5, <2>7, <3>1
  <2> QED
    BY <2>3, <2>5, <2>6, <2>8
<1>6. b[<<0, n>>] = Clamp(r, 0, n)
  <2>1. n \in Nat /\ n - 0 <= n /\ 0 \in 0..n /\ n \in 0..n
    OBVIOUS
  <2> QED
    BY <1>5, <2>1
<1>7. Clamp(r, 0, n) = r
  BY DEF Clamp
<1> QED
  BY <1>6, <1>7, SearchIs DEF b

-----------------------------------------------------------------------------
(* Packed ids.                                                             *)

LEMMA QuotientIs ==
    ASSUME NEW x \in Nat, NEW d \in Nat \ {0}, NEW q \in Nat, NEW r \in Nat,
           x = d * q + r, r < d
    PROVE  x \div d = q
<1>1. x \div d \in Nat /\ x % d \in 0..d - 1 /\ x = (d * (x \div d)) + (x % d)
  OBVIOUS
<1> DEFINE p == x \div d
           s == x % d
<1>2. p \in Nat /\ s \in Nat /\ s < d /\ d * p + s = d * q + r
  BY <1>1
<1> HIDE DEF p, s
<1>3. ASSUME p < q PROVE FALSE
  <2>1. p + 1 <= q
    BY <1>2, <1>3
  <2>2. d * (p + 1) <= d * q
    BY <1>2, <2>1
  <2>3. d * (p + 1) = d * p + d
    BY <1>2
  <2> QED
    BY <1>2, <2>2, <2>3
<1>4. ASSUME q < p PROVE FALSE
  <2>1. q + 1 <= p
    BY <1>2, <1>4
  <2>2. d * (q + 1) <= d * p
    BY <1>2, <2>1
  <2>3. d * (q + 1) = d * q + d
    OBVIOUS
  <2> QED
    BY <1>2, <2>2, <2>3
<1>5. p = q
  BY <1>2, <1>3, <1>4
<1> QED
  BY <1>5 DEF p

(* A number below g * d has a quotient below g and a remainder below d:    *)
(* the group and the octet of a 32-bit address.                            *)
LEMMA QuotientBelow ==
    ASSUME NEW x \in Nat, NEW d \in Nat \ {0}, NEW g \in Nat, x < g * d
    PROVE  x \div d < g /\ x \div d \in Nat /\ x % d \in 0..d - 1
<1> DEFINE q == x \div d
           r == x % d
<1>1. q \in Nat /\ r \in 0..d - 1 /\ x = d * q + r
  OBVIOUS
<1> HIDE DEF q, r
<1>2. q < g
  <2>1. SUFFICES ASSUME q >= g PROVE FALSE
    BY <1>1
  <2> DEFINE c == q - g
  <2>2. c \in Nat /\ q = g + c
    BY <1>1, <2>1
  <2> HIDE DEF c
  <2>3. d * q = d * g + d * c /\ d * c \in Nat /\ d * g = g * d /\ d * g \in Nat
    BY <2>2
  <2> DEFINE dq == d * q
             dg == d * g
             dc == d * c
             gd == g * d
  <2>4. dq = dg + dc /\ dc \in Nat /\ dg = gd /\ dg \in Nat /\ x = dq + r /\ x < gd
    BY <1>1, <2>3
  <2> HIDE DEF dq, dg, dc, gd
  <2> QED
    BY <1>1, <2>4
<1> QED
  BY <1>1, <1>2 DEF q, r

LEMMA QuotientOfQuotient ==
    ASSUME NEW x \in Nat, NEW p \in Nat \ {0}, NEW b \in Nat \ {0}
    PROVE  x \div (p * b) = (x \div p) \div b
<1> DEFINE q == x \div p
           r == x % p
           s == q \div b
           t == q % b
<1>1. q \in Nat /\ r \in Nat /\ r < p /\ x = p * q + r
  OBVIOUS
<1> HIDE DEF q, r
<1>2. s \in Nat /\ t \in Nat /\ t < b /\ q = b * s + t
  BY <1>1
<1> HIDE DEF s, t
<1> DEFINE u == p * t + r
<1>3. p * t \in Nat /\ p * b \in Nat \ {0}
  BY <1>2
<1>4. u \in Nat
  BY <1>1, <1>3
<1>5. u < p * b
  <2>1. p * (t + 1) <= p * b
    BY <1>2
  <2>2. p * (t + 1) = p * t + p
    BY <1>2
  <2> QED
    BY <1>1, <1>3, <2>1, <2>2
<1>6. x = (p * b) * s + u
  <2>1. p * (b * s + t) = (p * b) * s + p * t
    BY <1>2
  <2>2. p * q = (p * b) * s + p * t
    BY <1>2, <2>1
  <2>3. (p * b) * s \in Nat /\ p * q \in Nat
    BY <1>1, <1>2
  <2> QED
    BY <1>1, <1>3, <2>2, <2>3
<1> HIDE DEF u
<1>7. x \div (p * b) = s
  BY <1>2, <1>3, <1>4, <1>5, <1>6, QuotientIs
<1> QED
  BY <1>7 DEF q, s

LEMMA PowerIs ==
    /\ \A k \in 0..4 : Power[k] \in Nat \ {0}
    /\ Power[0] = 1 /\ \A k \in 0..3 : Power[k + 1] = Power[k] * ByteSize
<1> DEFINE B == ByteSize
<1>1. B \in Nat \ {0}
  BY WidthAssumption
<1>2. B * B \in Nat \ {0}
  BY <1>1
<1>3. B * B * B \in Nat \ {0}
  BY <1>1, <1>2
<1>4. B * B * B * B \in Nat \ {0}
  BY <1>1, <1>3
<1>5. Power[0] = 1 /\ Power[1] = B /\ Power[2] = B * B /\ Power[3] = B * B * B
      /\ Power[4] = B * B * B * B
  BY DEF Power
<1> HIDE DEF B
<1>6. \A k \in 0..4 : k = 0 \/ k = 1 \/ k = 2 \/ k = 3 \/ k = 4
  OBVIOUS
<1>7. \A k \in 0..4 : Power[k] \in Nat \ {0}
  BY <1>1, <1>2, <1>3, <1>4, <1>5, <1>6
<1>8. 1 * B = B
  BY <1>1
<1>9. Power[1] = Power[0] * B /\ Power[2] = Power[1] * B /\ Power[3] = Power[2] * B
      /\ Power[4] = Power[3] * B
  BY <1>5, <1>8
<1>10. \A k \in 0..3 : k = 0 \/ k = 1 \/ k = 2 \/ k = 3
  OBVIOUS
<1>11. \A k \in 0..3 : Power[k + 1] = Power[k] * B
  BY <1>9, <1>10
<1> QED
  BY <1>5, <1>7, <1>11 DEF B

\* One turn of the decoder.
Decode(slot, g) ==
    [b \in 0..Len(slot) |->
        IF b = Len(slot) THEN 0 ELSE g[b + 1] * ByteSize + slot[b + 1]]

LEMMA UnpackIs ==
    ASSUME NEW slot, NEW w \in 0..4, Len(slot) = w
    PROVE  \E g : g = Decode(slot, g) /\ Unpack(slot) = g[0]
<1> DEFINE B == ByteSize
           d1 == 0 * B + slot[w]
           d2 == d1 * B + slot[w - 1]
           d3 == d2 * B + slot[w - 2]
           d4 == d3 * B + slot[w - 3]
           val(b) == IF b = w THEN 0 ELSE IF b + 1 = w THEN d1 ELSE IF b + 2 = w THEN d2
                     ELSE IF b + 3 = w THEN d3 ELSE d4
           c == [b \in 0..w |-> val(b)]
<1>1. ASSUME NEW b \in 0..w
      PROVE  val(b) = IF b = w THEN 0 ELSE c[b + 1] * B + slot[b + 1]
  <2>1. b # w => b + 1 \in 0..w /\ c[b + 1] = val(b + 1)
    OBVIOUS
  <2> HIDE DEF c
  <2>2. CASE b = w
    BY <2>2
  <2>3. CASE b + 1 = w
    <3>1. val(b + 1) = 0
      BY <2>3
    <3>2. val(b) = 0 * B + slot[b + 1]
      BY <2>3
    <3> QED
      BY <2>1, <2>3, <3>1, <3>2
  <2>4. CASE b + 2 = w
    <3>1. val(b + 1) = d1 /\ w - 1 = b + 1
      BY <2>4
    <3>2. val(b) = d2
      BY <2>4
    <3> HIDE DEF val, d1
    <3> QED
      BY <2>1, <2>4, <3>1, <3>2
  <2>5. CASE b + 3 = w
    <3>1. val(b + 1) = d2 /\ w - 2 = b + 1
      BY <2>5
    <3>2. val(b) = d3
      BY <2>5
    <3> HIDE DEF val, d2
    <3> QED
      BY <2>1, <2>5, <3>1, <3>2
  <2>6. CASE b + 4 = w
    <3>1. val(b + 1) = d3 /\ w - 3 = b + 1
      BY <2>6
    <3>2. val(b) = d4
      BY <2>6
    <3> HIDE DEF val, d3
    <3> QED
      BY <2>1, <2>6, <3>1, <3>2
  <2> QED
    BY <2>2, <2>3, <2>4, <2>5, <2>6
<1>2. \A b \in 0..w : c[b] = IF b = w THEN 0 ELSE c[b + 1] * B + slot[b + 1]
  BY <1>1
<1>3. c = [b \in 0..w |-> c[b]]
  OBVIOUS
<1> HIDE DEF c
<1>4. c = Decode(slot, c)
  BY <1>2, <1>3 DEF Decode
<1> DEFINE u == CHOOSE g : g = Decode(slot, g)
<1>5. u = Decode(slot, u)
  BY <1>4
<1>6. Unpack(slot) = u[0]
  BY DEF Unpack, Decode
<1> QED
  BY <1>5, <1>6

-----------------------------------------------------------------------------
(* sort.Search and the offsets of the groups.                              *)

LEMMA SearchLeast ==
    ASSUME NEW n \in Nat, NEW holds,
           \A k, l \in 0..n - 1 : k <= l /\ holds[k] => holds[l]
    PROVE  /\ Search(n, holds) \in 0..n
           /\ \A k \in 0..n - 1 : holds[k] <=> k >= Search(n, holds)
<1> DEFINE T == {k \in 0..n : k < n => holds[k]}
           r == Min(T)
<1>1. T \in SUBSET Nat /\ n \in T
  OBVIOUS
<1>2. r \in T /\ \A k \in T : r <= k
  BY <1>1, MinIs
<1>3. r \in 0..n /\ (r < n => holds[r])
  BY <1>2
<1>4. ASSUME NEW k \in 0..n - 1
      PROVE  holds[k] <=> k >= r
  <2>1. k \in 0..n /\ k < n
    OBVIOUS
  <2>2. holds[k] => k >= r
    BY <1>2, <2>1
  <2>3. k >= r => holds[k]
    <3>1. k >= r => r \in 0..n - 1 /\ r < n
      BY <1>3
    <3> HIDE DEF r
    <3> QED
      BY <1>3, <2>1, <3>1
  <2> QED
    BY <2>2, <2>3
<1> HIDE DEF r, T
<1>5. Search(n, holds) = r
  BY <1>3, <1>4, SearchFinds
<1> QED
  BY <1>3, <1>4, <1>5

\* A sequence that never falls from one index to the next never falls.
LEMMA Climbs ==
    ASSUME NEW s, NEW a \in Nat, NEW b \in Nat, \A i \in a..b : s[i] \in Int,
           \A i \in a..b - 1 : s[i] <= s[i + 1]
    PROVE  \A i, j \in a..b : i <= j => s[i] <= s[j]
<1> DEFINE T == {d \in Nat : \E i, j \in a..b : j = i + d /\ ~(s[i] <= s[j])}
<1>1. T = {}
  <2>1. SUFFICES ASSUME T # {} PROVE FALSE
    OBVIOUS
  <2>2. PICK d \in T : \A k \in T : d <= k
    BY <2>1, LeastNat
  <2>3. PICK i \in a..b, j \in a..b : j = i + d /\ ~(s[i] <= s[j])
    BY <2>2
  <2>4. d # 0
    <3>1. s[i] <= s[i]
      OBVIOUS
    <3>2. d = 0 => j = i
      BY <2>3
    <3> QED
      BY <2>3, <3>1, <3>2
  <2>5. d \in Nat /\ d - 1 \in Nat /\ j - 1 \in a..b - 1 /\ j - 1 \in a..b /\ j - 1 = i + (d - 1)
        /\ (j - 1) + 1 = j
    BY <2>2, <2>3, <2>4
  <2>6. d - 1 \notin T
    <3> HIDE DEF T
    <3>1. d - 1 \in T => d <= d - 1
      BY <2>2
    <3> QED
      BY <2>5, <3>1
  <2>7. s[i] <= s[j - 1]
    BY <2>5, <2>6
  <2>8. s[j - 1] <= s[j]
    BY <2>5
  <2>9. s[i] \in Int /\ s[j - 1] \in Int /\ s[j] \in Int
    BY <2>3, <2>5
  <2> QED
    BY <2>3, <2>7, <2>8, <2>9
<1>2. ASSUME NEW i \in a..b, NEW j \in a..b, i <= j
      PROVE  s[i] <= s[j]
  <2>1. j - i \in Nat /\ j = i + (j - i)
    BY <1>2
  <2> QED
    BY <1>1, <2>1
<1> QED
  BY <1>2

LEMMA ClimbsStrictly ==
    ASSUME NEW s, NEW a \in Nat, NEW b \in Nat, \A i \in a..b : s[i] \in Int,
           \A i \in a..b - 1 : s[i] < s[i + 1]
    PROVE  \A i, j \in a..b : i < j => s[i] < s[j]
<1>1. \A i \in a..b - 1 : i \in a..b /\ i + 1 \in a..b
  OBVIOUS
<1>2. \A i \in a..b - 1 : s[i] <= s[i + 1]
  BY <1>1
<1>3. \A i, j \in a..b : i <= j => s[i] <= s[j]
  BY <1>2, Climbs
<1>4. ASSUME NEW i \in a..b, NEW j \in a..b, i < j
      PROVE  s[i] < s[j]
  <2>1. i \in a..b - 1 /\ i + 1 \in a..b /\ i + 1 <= j
    BY <1>4
  <2>2. s[i] < s[i + 1]
    BY <2>1
  <2>3. s[i + 1] <= s[j]
    BY <1>3, <2>1
  <2>4. s[i] \in Int /\ s[i + 1] \in Int /\ s[j] \in Int
    BY <2>1
  <2> QED
    BY <2>2, <2>3, <2>4
<1> QED
  BY <1>4

\* m groups that divide 0..n-1, the smallest of them of minGroup rows.
Divides(offsets, m, n, minGroup) ==
    /\ \A i \in 1..m + 1 : offsets[i] \in Nat
    /\ offsets[1] = 0 /\ offsets[m + 1] = n
    /\ \A i \in 1..m : offsets[i] + minGroup <= offsets[i + 1]

\* The suffixes of each group ascend.
Ascend(offsets, m, suffix) ==
    \A i \in 1..m : \A j \in offsets[i] + 1 .. offsets[i + 1] - 1 : suffix[j] < suffix[j + 1]

LEMMA OffsetsClimb ==
    ASSUME NEW offsets, NEW m \in Nat, NEW n \in Nat, NEW minGroup \in Nat,
           Divides(offsets, m, n, minGroup)
    PROVE  /\ \A i, j \in 1..m + 1 : i <= j => offsets[i] <= offsets[j]
           /\ \A i \in 1..m + 1 : offsets[i] \in 0..n
<1>1. \A i \in 1..m + 1 : offsets[i] \in Nat
  BY DEF Divides
<1>2. \A i \in 1..(m + 1) - 1 : offsets[i] <= offsets[i + 1]
  <2>1. ASSUME NEW i \in 1..(m + 1) - 1
        PROVE  offsets[i] <= offsets[i + 1]
    <3>1. i \in 1..m /\ i \in 1..m + 1 /\ i + 1 \in 1..m + 1
      OBVIOUS
    <3>2. offsets[i] + minGroup <= offsets[i + 1]
      BY <3>1 DEF Divides
    <3> QED
      BY <1>1, <3>1, <3>2
  <2> QED
    BY <2>1
<1>3. \A i, j \in 1..m + 1 : i <= j => offsets[i] <= offsets[j]
  <2>1. \A i \in 1..m + 1 : offsets[i] \in Int
    BY <1>1
  <2>2. 1 \in Nat /\ m + 1 \in Nat
    OBVIOUS
  <2> QED
    BY <1>2, <2>1, <2>2, Climbs
<1>4. ASSUME NEW i \in 1..m + 1
      PROVE  offsets[i] \in 0..n
  <2>1. m + 1 \in 1..m + 1 /\ i <= m + 1
    OBVIOUS
  <2>2. offsets[i] <= offsets[m + 1]
    BY <1>3, <2>1
  <2> QED
    BY <1>1, <2>2 DEF Divides
<1> QED
  BY <1>3, <1>4

\* Every row lies in exactly one group.
LEMMA RowHasGroup ==
    ASSUME NEW offsets, NEW m \in Nat, NEW n \in Nat, NEW minGroup \in Nat,
           Divides(offsets, m, n, minGroup), NEW p \in 0..n - 1
    PROVE  \E i \in 1..m : /\ p \in offsets[i] .. offsets[i + 1] - 1
                           /\ \A j \in 1..m : p \in offsets[j] .. offsets[j + 1] - 1 => j = i
<1>1. /\ \A i, j \in 1..m + 1 : i <= j => offsets[i] <= offsets[j]
      /\ \A i \in 1..m + 1 : offsets[i] \in 0..n
  BY OffsetsClimb
<1>2. offsets[1] = 0 /\ offsets[m + 1] = n /\ m >= 1
  BY DEF Divides
<1> DEFINE T == {i \in 1..m : offsets[i] <= p}
<1>3. T \in SUBSET Nat /\ 1 \in T /\ \A k \in T : k <= m
  BY <1>2
<1>4. PICK i \in T : \A k \in T : k <= i
  BY <1>3, MaxIs
<1>5. p < offsets[i + 1]
  <2>1. CASE i = m
    BY <1>2, <2>1
  <2>2. CASE i # m
    <3>1. i + 1 \in 1..m /\ i + 1 \in 1..m + 1 /\ ~(i + 1 <= i)
      BY <2>2
    <3>2. i + 1 \notin T
      BY <1>4, <3>1
    <3> QED
      BY <1>1, <3>1, <3>2
  <2> QED
    BY <2>1, <2>2
<1>6. i \in 1..m /\ i \in 1..m + 1 /\ i + 1 \in 1..m + 1 /\ offsets[i] <= p
  BY <1>4
<1>7. p \in offsets[i] .. offsets[i + 1] - 1
  BY <1>1, <1>5, <1>6
<1>8. ASSUME NEW j \in 1..m, p \in offsets[j] .. offsets[j + 1] - 1
      PROVE  j = i
  <2>1. j \in 1..m + 1 /\ j + 1 \in 1..m + 1
    OBVIOUS
  <2>2. offsets[j] \in 0..n /\ offsets[j + 1] \in 0..n /\ offsets[i] \in 0..n
        /\ offsets[i + 1] \in 0..n
    BY <1>1, <1>6, <2>1
  <2>3. j + 1 <= i => offsets[j + 1] <= offsets[i]
    BY <1>1, <1>6, <2>1
  <2>4. i + 1 <= j => offsets[i + 1] <= offsets[j]
    BY <1>1, <1>6, <2>1
  <2> QED
    BY <1>5, <1>6, <1>8, <2>2, <2>3, <2>4
<1> QED
  BY <1>6, <1>7, <1>8

-----------------------------------------------------------------------------
(* The lookups of a store whose offsets divide its rows.                   *)

LEMMA Lookup4Finds ==
    ASSUME NEW s, NEW a, NEW n \in Nat, Len(s.suffix) = n,
           \A j \in 1..n : s.suffix[j] \in Nat,
           Divides(s.idx, Groups4, n, 0), Ascend(s.idx, Groups4, s.suffix),
           a.hi \in 0..Groups4 - 1, a.lo \in Nat, s.idx # <<>>
    PROVE  LET run == s.idx[a.hi + 1] .. s.idx[a.hi + 2] - 1
           IN /\ \A p \in run : s.suffix[p + 1] = a.lo => lookup4(s, a) = get(s.vals, p)
              /\ (\A p \in run : s.suffix[p + 1] # a.lo) => lookup4(s, a) = Miss
<1> DEFINE lo == s.idx[a.hi + 1]
           hi == s.idx[a.hi + 2]
           T == {j \in lo .. hi - 1 : j < Len(s.suffix) => s.suffix[j + 1] >= a.lo}
           f == s.suffix
<1>1. lo \in 0..n /\ hi \in 0..n
  <2>1. Groups4 \in Nat /\ 0 \in Nat
    BY WidthAssumption
  <2>2. \A i \in 1..Groups4 + 1 : s.idx[i] \in 0..n
    BY <2>1, OffsetsClimb
  <2>3. a.hi + 1 \in 1..Groups4 + 1 /\ a.hi + 2 \in 1..Groups4 + 1
    BY <2>1
  <2> QED
    BY <2>2, <2>3
<1>2. \A j \in lo + 1 .. hi - 1 : f[j] < f[j + 1]
  <2>1. a.hi + 1 \in 1..Groups4 /\ (a.hi + 1) + 1 = a.hi + 2
    BY WidthAssumption
  <2> QED
    BY <2>1 DEF Ascend
<1>3. lookup4(s, a) = IF T = {} THEN Miss
                      ELSE IF Min(T) >= Len(f) THEN Fault
                      ELSE IF f[Min(T) + 1] = a.lo THEN get(s.vals, Min(T)) ELSE Miss
  BY DEF lookup4
<1> HIDE DEF lo, hi
<1>4. T = {j \in lo .. hi - 1 : f[j + 1] >= a.lo}
  BY <1>1
<1> HIDE DEF T, f
<1>5. \A j \in lo .. hi - 1 : j + 1 \in 1..n /\ f[j + 1] \in Nat
  BY <1>1 DEF f
<1>6. T \in SUBSET Nat
  BY <1>1, <1>4
<1>7. ASSUME T # {}
      PROVE  /\ Min(T) \in lo .. hi - 1 /\ Min(T) < n /\ f[Min(T) + 1] >= a.lo
             /\ \A k \in lo .. hi - 1 : f[k + 1] >= a.lo => Min(T) <= k
  <2> DEFINE q == Min(T)
  <2>1. q \in T /\ \A k \in T : q <= k
    BY <1>6, <1>7, MinIs
  <2> HIDE DEF q
  <2>2. q \in lo .. hi - 1 /\ f[q + 1] >= a.lo
    BY <1>4, <2>1
  <2>3. q < n
    BY <1>1, <2>2
  <2>4. \A k \in lo .. hi - 1 : f[k + 1] >= a.lo => q <= k
    BY <1>4, <2>1
  <2> QED
    BY <2>2, <2>3, <2>4 DEF q
<1>8. ASSUME NEW p \in lo .. hi - 1, f[p + 1] = a.lo
      PROVE  lookup4(s, a) = get(s.vals, p)
  <2>1. p \in T
    BY <1>4, <1>5, <1>8
  <2> DEFINE q == Min(T)
  <2>2. q \in lo .. hi - 1 /\ q < n /\ f[q + 1] >= a.lo /\ q <= p
    BY <1>5, <1>7, <1>8, <2>1
  <2> HIDE DEF q
  <2>3. q = p
    <3>1. SUFFICES ASSUME q < p PROVE FALSE
      BY <1>1, <2>2
    <3>2. \A i, j \in lo + 1 .. hi : i < j => f[i] < f[j]
      <4>1. lo + 1 \in Nat /\ hi \in Nat
        BY <1>1
      <4>2. \A i \in lo + 1 .. hi : f[i] \in Int
        BY <1>1 DEF f
      <4> QED
        BY <1>2, <4>1, <4>2, ClimbsStrictly
    <3>3. q + 1 \in lo + 1 .. hi /\ p + 1 \in lo + 1 .. hi /\ q + 1 < p + 1
      BY <1>1, <2>2, <3>1
    <3>4. f[q + 1] < f[p + 1]
      BY <3>2, <3>3
    <3> QED
      BY <1>5, <1>8, <2>2, <3>4
  <2>4. lookup4(s, a) = IF q >= Len(f) THEN Fault
                        ELSE IF f[q + 1] = a.lo THEN get(s.vals, q) ELSE Miss
    BY <1>3, <2>1 DEF q
  <2> QED
    BY <1>8, <2>2, <2>3, <2>4 DEF f
<1>9. ASSUME \A p \in lo .. hi - 1 : f[p + 1] # a.lo
      PROVE  lookup4(s, a) = Miss
  <2>1. CASE T = {}
    BY <1>3, <2>1
  <2>2. CASE T # {}
    <3>1. Min(T) \in lo .. hi - 1 /\ Min(T) < n
      BY <1>7, <2>2
    <3>2. ~(Min(T) >= Len(f)) /\ f[Min(T) + 1] # a.lo
      <4>1. Len(f) = n
        BY DEF f
      <4> QED
        BY <1>1, <1>9, <3>1, <4>1
    <3> QED
      BY <1>3, <2>2, <3>2
  <2> QED
    BY <2>1, <2>2
<1> QED
  BY <1>8, <1>9 DEF lo, hi, f

LEMMA Lookup6Finds ==
    ASSUME NEW s, NEW a, NEW n \in Nat, NEW m \in Nat,
           Len(s.suffix) = n, Len(s.prefix) = m,
           \A j \in 1..n : s.suffix[j] \in Nat, \A i \in 1..m : s.prefix[i] \in Nat,
           \A i \in 1..m - 1 : s.prefix[i] < s.prefix[i + 1],
           Divides(s.pidx, m, n, 1), Ascend(s.pidx, m, s.suffix),
           a.hi \in Nat, a.lo \in Nat
    PROVE  /\ \A i \in 1..m : \A p \in s.pidx[i] .. s.pidx[i + 1] - 1 :
                 s.prefix[i] = a.hi /\ s.suffix[p + 1] = a.lo
                    => lookup6(s, a) = get(s.vals, p)
           /\ (\A i \in 1..m : \A p \in s.pidx[i] .. s.pidx[i + 1] - 1 :
                 ~(s.prefix[i] = a.hi /\ s.suffix[p + 1] = a.lo))
                    => lookup6(s, a) = Miss
<1> DEFINE f == s.suffix
           pre == s.prefix
           x == s.pidx
           above == [k \in 0..m - 1 |-> pre[k + 1] >= a.hi]
           g == Search(m, above)
           lo == x[g + 1]
           hi == x[g + 2]
           reach == [k \in 0..hi - lo - 1 |-> f[lo + k + 1] >= a.lo]
           d == Search(hi - lo, reach)
<1>1. \A i, j \in 1..m : i < j => pre[i] < pre[j]
  <2>1. 1 \in Nat /\ \A i \in 1..m : pre[i] \in Int
    OBVIOUS
  <2> QED
    BY <2>1, ClimbsStrictly
<1>2. \A i \in 1..m + 1 : x[i] \in 0..n
  BY OffsetsClimb
<1>3. lookup6(s, a) =
        IF g = m \/ pre[g + 1] # a.hi THEN Miss
        ELSE IF lo > hi \/ hi > n THEN Fault
        ELSE IF d = hi - lo \/ f[lo + d + 1] # a.lo THEN Miss ELSE get(s.vals, lo + d)
  BY DEF lookup6
<1>4. /\ g \in 0..m
      /\ \A k \in 0..m - 1 : pre[k + 1] >= a.hi <=> k >= g
  <2>1. ASSUME NEW k \in 0..m - 1, NEW l \in 0..m - 1, k <= l, above[k]
        PROVE  above[l]
    <3>1. k + 1 \in 1..m /\ l + 1 \in 1..m
      OBVIOUS
    <3>2. k # l => pre[k + 1] < pre[l + 1]
      BY <1>1, <2>1, <3>1
    <3>3. above[k] = (pre[k + 1] >= a.hi) /\ above[l] = (pre[l + 1] >= a.hi)
      OBVIOUS
    <3> HIDE DEF above
    <3>4. pre[k + 1] >= a.hi
      BY <2>1, <3>3
    <3>5. pre[l + 1] >= a.hi
      BY <3>1, <3>2, <3>4
    <3> QED
      BY <3>3, <3>5
  <2> HIDE DEF above
  <2>2. /\ g \in 0..m
        /\ \A k \in 0..m - 1 : above[k] <=> k >= g
    BY <2>1, SearchLeast
  <2> HIDE DEF g
  <2> QED
    BY <2>2 DEF above
<1> HIDE DEF g, above
<1>5. \A i \in 1..m : pre[i] = a.hi => g + 1 = i /\ g # m /\ ~(pre[g + 1] # a.hi)
  <2>1. ASSUME NEW i \in 1..m, pre[i] = a.hi
        PROVE  g + 1 = i
    <3>1. i - 1 \in 0..m - 1 /\ (i - 1) + 1 = i
      OBVIOUS
    <3>2. pre[(i - 1) + 1] >= a.hi
      BY <2>1, <3>1
    <3>3. i - 1 >= g
      BY <1>4, <3>1, <3>2
    <3>4. g \in 0..m - 1 /\ g + 1 \in 1..m /\ pre[g + 1] >= a.hi
      BY <1>4, <3>1, <3>3
    <3>5. g + 1 < i => pre[g + 1] < pre[i]
      BY <1>1, <3>4
    <3>6. pre[g + 1] \in Nat
      BY <3>4
    <3>7. ~(g + 1 < i)
      BY <2>1, <3>4, <3>5, <3>6
    <3> QED
      BY <1>4, <3>3, <3>7
  <2>2. \A i \in 1..m : i - 1 # m
    OBVIOUS
  <2>3. ASSUME NEW i \in 1..m, pre[i] = a.hi
        PROVE  g # m
    BY <1>4, <2>1, <2>3
  <2> QED
    BY <2>1, <2>3
<1>6. CASE g = m \/ pre[g + 1] # a.hi
  <2>1. \A i \in 1..m : pre[i] # a.hi
    BY <1>5, <1>6
  <2>2. lookup6(s, a) = Miss
    BY <1>3, <1>6
  <2> QED
    BY <2>1, <2>2
<1>7. CASE ~(g = m \/ pre[g + 1] # a.hi)
  <2>1. g + 1 \in 1..m /\ pre[g + 1] = a.hi /\ g + 1 \in 1..m + 1 /\ g + 2 \in 1..m + 1
        /\ (g + 1) + 1 = g + 2
    BY <1>4, <1>7
  <2>2. lo \in 0..n /\ hi \in 0..n
    BY <1>2, <2>1
  <2>3. lo + 1 <= hi
    BY <2>1 DEF Divides
  <2>4. \A j \in lo + 1 .. hi - 1 : f[j] < f[j + 1]
    BY <2>1 DEF Ascend
  <2>5. lookup6(s, a) = IF d = hi - lo \/ f[lo + d + 1] # a.lo THEN Miss
                        ELSE get(s.vals, lo + d)
    <3> HIDE DEF lo, hi, d
    <3> QED
      BY <1>3, <1>7, <2>2, <2>3
  <2>6. x[(g + 1) + 1] = hi
    BY <2>1
  <2> HIDE DEF lo, hi
  <2>7. \A i, j \in lo + 1 .. hi : i < j => f[i] < f[j]
    <3>1. lo + 1 \in Nat /\ hi \in Nat
      BY <2>2
    <3>2. \A i \in lo + 1 .. hi : f[i] \in Int
      BY <2>2
    <3> QED
      BY <2>4, <3>1, <3>2, ClimbsStrictly
  <2>8. /\ d \in 0..hi - lo
        /\ \A k \in 0..hi - lo - 1 : f[lo + k + 1] >= a.lo <=> k >= d
    <3> DEFINE w == hi - lo
    <3>1. w \in Nat
      BY <2>2, <2>3
    <3>2. ASSUME NEW k \in 0..w - 1, NEW l \in 0..w - 1, k <= l, reach[k]
          PROVE  reach[l]
      <4>1. lo + k + 1 \in lo + 1 .. hi /\ lo + l + 1 \in lo + 1 .. hi
            /\ lo + k + 1 \in 1..n /\ lo + l + 1 \in 1..n
            /\ k \in 0..hi - lo - 1 /\ l \in 0..hi - lo - 1
        BY <2>2, <2>3
      <4>2. f[lo + k + 1] >= a.lo
        BY <3>2, <4>1
      <4>3. k # l => lo + k + 1 < lo + l + 1
        BY <2>2, <3>2
      <4>4. k # l => f[lo + k + 1] < f[lo + l + 1]
        BY <2>7, <4>1, <4>3
      <4>5. f[lo + k + 1] \in Nat /\ f[lo + l + 1] \in Nat
        BY <4>1
      <4>6. f[lo + l + 1] >= a.lo
        BY <4>2, <4>4, <4>5
      <4> QED
        BY <4>1, <4>6
    <3> HIDE DEF reach
    <3>3. /\ Search(w, reach) \in 0..w
          /\ \A k \in 0..w - 1 : reach[k] <=> k >= Search(w, reach)
      BY <3>1, <3>2, SearchLeast
    <3>4. d \in 0..w /\ \A k \in 0..w - 1 : reach[k] <=> k >= d
      BY <3>3
    <3> HIDE DEF d
    <3> QED
      BY <3>4 DEF reach
  <2> HIDE DEF d
  <2>9. ASSUME NEW p \in lo .. hi - 1, f[p + 1] = a.lo
        PROVE  lookup6(s, a) = get(s.vals, p)
    <3>1. p - lo \in 0..hi - lo - 1 /\ lo + (p - lo) + 1 = p + 1
      BY <2>2
    <3>2. p - lo >= d
      BY <2>8, <2>9, <3>1
    <3>3. d \in 0..hi - lo - 1 /\ d # hi - lo
      BY <2>2, <2>8, <3>1, <3>2
    <3>4. f[lo + d + 1] >= a.lo
      BY <2>8, <3>3
    <3>5. lo + d + 1 \in lo + 1 .. hi /\ p + 1 \in lo + 1 .. hi
          /\ lo + d + 1 \in 1..n
      BY <2>2, <3>3
    <3>6. lo + d + 1 < p + 1 => f[lo + d + 1] < f[p + 1]
      BY <2>7, <3>5
    <3>7. lo + d = p
      BY <2>2, <2>8, <2>9, <3>2, <3>4, <3>5, <3>6
    <3> QED
      BY <2>5, <2>9, <3>3, <3>7
  <2>10. ASSUME \A p \in lo .. hi - 1 : f[p + 1] # a.lo
         PROVE  lookup6(s, a) = Miss
    <3>1. d # hi - lo => lo + d \in lo .. hi - 1
      BY <2>2, <2>8
    <3> QED
      BY <2>5, <2>10, <3>1
  <2>11. ASSUME NEW i \in 1..m, NEW p \in x[i] .. x[i + 1] - 1, pre[i] = a.hi, f[p + 1] = a.lo
         PROVE  lookup6(s, a) = get(s.vals, p)
    <3>1. g + 1 = i
      BY <1>5, <2>11
    <3>2. p \in lo .. hi - 1
      BY <2>6, <3>1 DEF lo
    <3> QED
      BY <2>9, <2>11, <3>2
  <2>12. ASSUME \A i \in 1..m : \A p \in x[i] .. x[i + 1] - 1 : ~(pre[i] = a.hi /\ f[p + 1] = a.lo)
         PROVE  lookup6(s, a) = Miss
    <3>1. \A p \in x[g + 1] .. x[(g + 1) + 1] - 1 : f[p + 1] # a.lo
      BY <2>1, <2>12
    <3>2. \A p \in lo .. hi - 1 : f[p + 1] # a.lo
      BY <2>6, <3>1 DEF lo
    <3> QED
      BY <2>10, <3>2
  <2> QED
    BY <2>11, <2>12
<1> QED
  BY <1>6, <1>7

-----------------------------------------------------------------------------
(* Ids.                                                                    *)

LEMMA UnpackNat ==
    ASSUME NEW slot, NEW w \in 0..4, Len(slot) = w, \A b \in 1..w : slot[b] \in Nat
    PROVE  Unpack(slot) \in Nat
<1> DEFINE B == ByteSize
<1>1. B \in Nat
  BY WidthAssumption
<1>2. PICK g : g = Decode(slot, g) /\ Unpack(slot) = g[0]
  BY UnpackIs
<1>3. \A b \in 0..w : g[b] = IF b = w THEN 0 ELSE g[b + 1] * B + slot[b + 1]
  BY <1>2 DEF Decode
<1> HIDE DEF B
<1> DEFINE T == {d \in Nat : \E b \in 0..w : b + d = w /\ g[b] \notin Nat}
<1>4. T = {}
  <2>1. SUFFICES ASSUME T # {} PROVE FALSE
    OBVIOUS
  <2>2. PICK d \in T : \A k \in T : d <= k
    BY <2>1, LeastNat
  <2>3. PICK b \in 0..w : b + d = w /\ g[b] \notin Nat
    BY <2>2
  <2>4. b # w
    BY <1>3, <2>3
  <2>5. d \in Nat /\ d - 1 \in Nat /\ b + 1 \in 0..w /\ (b + 1) + (d - 1) = w /\ b + 1 \in 1..w
    BY <2>2, <2>3, <2>4
  <2>6. d - 1 \notin T
    <3> HIDE DEF T
    <3>1. d - 1 \in T => d <= d - 1
      BY <2>2
    <3> QED
      BY <2>5, <3>1
  <2>7. g[b + 1] \in Nat /\ slot[b + 1] \in Nat
    BY <2>5, <2>6
  <2>8. g[b] = g[b + 1] * B + slot[b + 1]
    BY <1>3, <2>4
  <2>9. g[b + 1] * B \in Nat
    BY <1>1, <2>7
  <2> QED
    BY <2>3, <2>7, <2>8, <2>9
<1>5. 0 \in 0..w /\ w \in Nat /\ 0 + w = w
  OBVIOUS
<1> QED
  BY <1>2, <1>4, <1>5

\* Whatever fits the slot comes back from it.
LEMMA UnpackPacks ==
    ASSUME NEW w \in 0..4, NEW id \in Nat, id < Power[w]
    PROVE  /\ Unpack(Pack(w, id)) = id
           /\ Len(Pack(w, id)) = w
           /\ \A b \in 1..w : Pack(w, id)[b] \in 0..ByteSize - 1
<1> DEFINE B == ByteSize
           slot == Pack(w, id)
<1>1. B \in Nat \ {0}
  BY WidthAssumption
<1>2. ASSUME NEW k \in 0..4
      PROVE  id \div Power[k] \in Nat
  BY PowerIs
<1>3. Len(slot) = w
  BY DEF Pack
<1>4. ASSUME NEW b \in 1..w
      PROVE  slot[b] = (id \div Power[b - 1]) % B /\ slot[b] \in 0..B - 1
  <2>1. b - 1 \in 0..4
    OBVIOUS
  <2>2. id \div Power[b - 1] \in Nat
    BY <1>2, <2>1
  <2>3. slot[b] = (id \div Power[b - 1]) % B
    BY DEF Pack
  <2> HIDE DEF B, slot
  <2> QED
    BY <1>1, <2>2, <2>3
<1>5. PICK g : g = Decode(slot, g) /\ Unpack(slot) = g[0]
  BY <1>3, UnpackIs
<1> HIDE DEF slot
<1>6. \A b \in 0..w : g[b] = IF b = w THEN 0 ELSE g[b + 1] * B + slot[b + 1]
  BY <1>3, <1>5 DEF Decode
<1> HIDE DEF B
<1> DEFINE T == {d \in Nat : \E b \in 0..w : b + d = w /\ g[b] # id \div Power[b]}
<1>7. T = {}
  <2>1. SUFFICES ASSUME T # {} PROVE FALSE
    OBVIOUS
  <2>2. PICK d \in T : \A k \in T : d <= k
    BY <2>1, LeastNat
  <2>3. PICK b \in 0..w : b + d = w /\ g[b] # id \div Power[b]
    BY <2>2
  <2>4. id \div Power[w] = 0
    <3>1. Power[w] \in Nat \ {0}
      BY PowerIs
    <3> QED
      BY <3>1, QuotientIs
  <2>5. b # w
    BY <1>6, <2>3, <2>4
  <2>6. d \in Nat /\ d - 1 \in Nat /\ b + 1 \in 0..w /\ (b + 1) + (d - 1) = w
        /\ b + 1 \in 1..w /\ (b + 1) - 1 = b /\ b \in 0..3 /\ b \in 0..4 /\ b + 1 \in 0..4
    BY <2>2, <2>3, <2>5
  <2>7. d - 1 \notin T
    <3> HIDE DEF T
    <3>1. d - 1 \in T => d <= d - 1
      BY <2>2
    <3> QED
      BY <2>6, <3>1
  <2>8. g[b + 1] = id \div Power[b + 1]
    BY <2>6, <2>7
  <2>9. slot[b + 1] = (id \div Power[b]) % B
    BY <1>4, <2>6
  <2>10. g[b] = g[b + 1] * B + slot[b + 1]
    BY <1>6, <2>5
  <2> DEFINE q == id \div Power[b]
  <2>11. id \div Power[b + 1] = q \div B
    <3>1. Power[b + 1] = Power[b] * B /\ Power[b] \in Nat \ {0}
      BY <2>6, PowerIs DEF B
    <3> QED
      BY <1>1, <3>1, QuotientOfQuotient
  <2>12. q \in Nat
    BY <1>2, <2>6
  <2> HIDE DEF q
  <2>13. (q \div B) * B + (q % B) = q
    BY <1>1, <2>12
  <2> QED
    BY <2>3, <2>8, <2>9, <2>10, <2>11, <2>13 DEF q
<1>8. 0 \in 0..w /\ w \in Nat /\ 0 + w = w
  OBVIOUS
<1>9. id \div Power[0] = id
  BY PowerIs
<1>10. g[0] = id
  BY <1>7, <1>8, <1>9
<1> QED
  BY <1>3, <1>4, <1>5, <1>10 DEF slot, B

-----------------------------------------------------------------------------
(* The group check of validate.                                            *)

LEMMA U32Is == \A x \in 0..MaxU32 : U32(x) = x
  BY WidthAssumption DEF U32

LEMMA StopsIs ==
    ASSUME NEW suffix, NEW lo \in Nat, NEW hi \in 0..MaxU32, lo < MaxU32
    PROVE  \A j : j \in Stops(suffix, lo, hi) <=>
               /\ j \in lo + 1 .. hi - 1
               /\ \/ j >= Len(suffix) \/ j - 1 >= Len(suffix) \/ suffix[j] >= suffix[j + 1]
<1>1. U32(lo + 1) = lo + 1
  <2>1. lo + 1 \in 0..MaxU32
    BY WidthAssumption
  <2> QED
    BY <2>1, U32Is
<1>2. ASSUME NEW j \in lo + 1 .. hi - 1
      PROVE  U32(j - 1 + MaxU32 + 1) = j - 1
  <2> DEFINE w == MaxU32 + 1
             x == j - 1
  <2>1. w \in Nat \ {0} /\ x \in Nat /\ x < w /\ j - 1 + MaxU32 + 1 = x + w
    BY WidthAssumption
  <2> HIDE DEF w, x
  <2>2. (x + w) % w = x
    BY <2>1
  <2> QED
    BY <2>1, <2>2 DEF U32, w, x
<1> QED
  BY <1>1, <1>2 DEF Stops

\* What the check accepts are groups that divide the rows, each ascending.
LEMMA GroupsAccepted ==
    ASSUME NEW idx, NEW suffix, NEW m \in Nat, NEW n \in 0..MaxU32, NEW minGroup \in Nat,
           Len(idx) = m + 1, \A i \in 1..m + 1 : idx[i] \in 0..MaxU32, Len(suffix) = n,
           \A j \in 1..n : suffix[j] \in Int,
           checkGroups(idx, suffix, n, minGroup) = "ok"
    PROVE  Divides(idx, m, n, minGroup) /\ Ascend(idx, m, suffix)
<1> DEFINE Group(i) == checkGroup(suffix, idx[i], idx[i + 1], minGroup)
           bad == {i \in 1..m : Group(i) # "ok"}
<1>1. (m + 1) - 1 = m
  OBVIOUS
<1>2. checkGroups(idx, suffix, n, minGroup)
        = IF idx[1] # 0 \/ idx[m + 1] # n THEN "corrupt"
          ELSE IF bad = {} THEN "ok" ELSE Group(Min(bad))
  BY <1>1 DEF checkGroups
<1> HIDE DEF bad
<1>3. idx[1] = 0 /\ idx[m + 1] = n
  BY <1>2
<1>4. bad = {}
  <2>1. SUFFICES ASSUME bad # {} PROVE FALSE
    OBVIOUS
  <2>2. bad \in SUBSET Nat
    BY DEF bad
  <2>3. Min(bad) \in bad
    BY <2>1, <2>2, MinIs
  <2>4. Group(Min(bad)) # "ok"
    BY <2>3 DEF bad
  <2> HIDE DEF Group
  <2> QED
    BY <1>2, <1>3, <2>1, <2>4
<1>5. ASSUME NEW i \in 1..m
      PROVE  Group(i) = "ok"
  BY <1>4 DEF bad
<1>6. ASSUME NEW i \in 1..m
      PROVE  /\ idx[i] \in 0..MaxU32 /\ idx[i + 1] \in 0..MaxU32
             /\ ~(idx[i + 1] < idx[i]) /\ ~(idx[i + 1] - idx[i] < minGroup)
             /\ Stops(suffix, idx[i], idx[i + 1]) = {}
  <2>1. i \in 1..m + 1 /\ i + 1 \in 1..m + 1
    OBVIOUS
  <2>2. Group(i) = "ok"
    BY <1>5
  <2>3. InRange(suffix, Min(Stops(suffix, idx[i], idx[i + 1]))) \in BOOLEAN
    BY DEF InRange
  <2> QED
    BY <2>1, <2>2, <2>3 DEF checkGroup
<1>7. Divides(idx, m, n, minGroup)
  <2>1. ASSUME NEW i \in 1..m + 1
        PROVE  idx[i] \in Nat
    OBVIOUS
  <2>2. ASSUME NEW i \in 1..m
        PROVE  idx[i] + minGroup <= idx[i + 1]
    BY <1>6
  <2> QED
    BY <1>3, <2>1, <2>2 DEF Divides
<1>8. ASSUME NEW i \in 1..m, NEW j \in idx[i] + 1 .. idx[i + 1] - 1
      PROVE  suffix[j] < suffix[j + 1]
  <2> DEFINE lo == idx[i]
             hi == idx[i + 1]
  <2>1. lo \in Nat /\ hi \in 0..MaxU32 /\ lo < MaxU32 /\ j \in lo + 1 .. hi - 1
        /\ Stops(suffix, lo, hi) = {}
    <3>1. lo \in 0..MaxU32 /\ hi \in 0..MaxU32 /\ Stops(suffix, lo, hi) = {}
      BY <1>6
    <3>2. j \in lo + 1 .. hi - 1
      BY <1>8
    <3> HIDE DEF lo, hi
    <3> QED
      BY <3>1, <3>2, WidthAssumption
  <2>2. hi <= n
    <3>1. i + 1 \in 1..m + 1 /\ n \in Nat
      OBVIOUS
    <3>2. \A k \in 1..m + 1 : idx[k] \in 0..n
      BY <1>7, <3>1, OffsetsClimb
    <3> QED
      BY <3>1, <3>2
  <2> HIDE DEF lo, hi
  <2>3. ~(suffix[j] >= suffix[j + 1])
    <3>1. j \notin Stops(suffix, lo, hi)
      BY <2>1
    <3> QED
      BY <2>1, <3>1, StopsIs
  <2>4. suffix[j] \in Int /\ suffix[j + 1] \in Int
    BY <2>1, <2>2
  <2> DEFINE y == suffix[j]
             z == suffix[j + 1]
  <2>5. y \in Int /\ z \in Int /\ ~(y >= z)
    BY <2>3, <2>4
  <2> HIDE DEF y, z
  <2>6. y < z
    BY <2>5
  <2> QED
    BY <2>6 DEF y, z
<1> QED
  BY <1>7, <1>8 DEF Ascend

\* The converse: no verdict but "ok" for groups that divide the rows, unless
\* one of them starts at the top of uint32.
LEMMA GroupsAcceptable ==
    ASSUME NEW idx, NEW suffix, NEW m \in Nat, NEW n \in 0..MaxU32, NEW minGroup \in Nat,
           Len(idx) = m + 1, Len(suffix) = n, \A j \in 1..n : suffix[j] \in Int,
           Divides(idx, m, n, minGroup), Ascend(idx, m, suffix),
           \A i \in 1..m : idx[i] < MaxU32
    PROVE  checkGroups(idx, suffix, n, minGroup) = "ok"
<1> DEFINE Group(i) == checkGroup(suffix, idx[i], idx[i + 1], minGroup)
           bad == {i \in 1..m : Group(i) # "ok"}
<1>1. (m + 1) - 1 = m /\ n \in Nat /\ MaxU32 \in Nat
  BY WidthAssumption
<1>2. checkGroups(idx, suffix, n, minGroup)
        = IF idx[1] # 0 \/ idx[m + 1] # n THEN "corrupt"
          ELSE IF bad = {} THEN "ok" ELSE Group(Min(bad))
  BY <1>1 DEF checkGroups
<1>3. \A k \in 1..m + 1 : idx[k] \in 0..n
  BY <1>1, OffsetsClimb
<1>4. ASSUME NEW i \in 1..m
      PROVE  Group(i) = "ok"
  <2> DEFINE lo == idx[i]
             hi == idx[i + 1]
  <2>1. i \in 1..m + 1 /\ i + 1 \in 1..m + 1
    OBVIOUS
  <2>2. lo \in 0..n /\ hi \in 0..n /\ lo < MaxU32 /\ lo + minGroup <= hi
    BY <1>3, <2>1 DEF Divides
  <2>3. \A j \in lo + 1 .. hi - 1 : suffix[j] < suffix[j + 1]
    BY DEF Ascend
  <2> HIDE DEF lo, hi
  <2>4. lo \in Nat /\ hi \in 0..MaxU32
    BY <1>1, <2>2
  <2>5. Stops(suffix, lo, hi) = {}
    <3>1. ASSUME NEW j \in lo + 1 .. hi - 1
          PROVE  ~(j >= Len(suffix) \/ j - 1 >= Len(suffix) \/ suffix[j] >= suffix[j + 1])
      <4>1. j \in 1..n /\ j + 1 \in 1..n
        BY <2>2
      <4>2. suffix[j] \in Int /\ suffix[j + 1] \in Int /\ suffix[j] < suffix[j + 1]
        BY <2>3, <4>1
      <4> QED
        BY <4>1, <4>2
    <3>2. \A j : j \notin Stops(suffix, lo, hi)
      BY <2>2, <2>4, <3>1, StopsIs
    <3> QED
      BY <3>2
  <2>6. ~(hi < lo \/ hi - lo < minGroup)
    BY <2>2
  <2>7. checkGroup(suffix, lo, hi, minGroup) = "ok"
    BY <2>5, <2>6 DEF checkGroup
  <2> QED
    BY <2>7 DEF lo, hi
<1>5. bad = {}
  BY <1>4
<1> HIDE DEF bad
<1> QED
  BY <1>2, <1>5 DEF Divides

=============================================================================
