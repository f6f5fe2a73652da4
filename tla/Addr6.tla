------------------------------- MODULE Addr6 -------------------------------
(***************************************************************************)
(* addr6 (addr.go): a 128-bit address as two words, its order, its         *)
(* successor and its conversion from and to the sixteen bytes of a         *)
(* netip.Addr.  The state is an address that walks the space by next.      *)
(***************************************************************************)
EXTENDS Integers, Sequences

CONSTANTS WordSize,    \* the values of one word (2^64)
          WordBytes,   \* the bytes of one word (8)
          ByteSize     \* the values of one byte (256)

ASSUME WordAssumption ==
    WordSize \in Nat \ {0} /\ WordBytes \in Nat /\ ByteSize \in Nat \ {0}

VARIABLE a

Word  == 0..WordSize - 1
Addrs == [hi : Word, lo : Word]

less(x, y) == x.hi < y.hi \/ (x.hi = y.hi /\ x.lo < y.lo)

\* Mutant: the carry is taken before the low word is incremented.
nextEarlyCarry(x) ==
    LET lo == (x.lo + 1) % WordSize
    IN [hi |-> IF x.lo = 0 THEN (x.hi + 1) % WordSize ELSE x.hi, lo |-> lo]

\* Both increments wrap; the carry is the low word becoming zero.
next(x) ==
    LET lo == (x.lo + 1) % WordSize
    IN [hi |-> IF lo = 0 THEN (x.hi + 1) % WordSize ELSE x.hi, lo |-> lo]

Power(k) == LET p[i \in 0..k] == IF i = 0 THEN 1 ELSE ByteSize * p[i - 1] IN p[k]

\* A word is as wide as its bytes.
ASSUME WordBytesAssumption == WordSize = Power(WordBytes)

\* Mutant: the low word's bytes come first.
addrLowFirst(x) ==
    [k \in 1..2 * WordBytes |->
       IF k <= WordBytes THEN (x.lo \div Power(WordBytes - k)) % ByteSize
       ELSE (x.hi \div Power(2 * WordBytes - k)) % ByteSize]

\* byte(a.hi >> (56 - 8*i)): high word first, most significant byte first.
addr(x) ==
    [k \in 1..2 * WordBytes |->
       IF k <= WordBytes THEN (x.hi \div Power(WordBytes - k)) % ByteSize
       ELSE (x.lo \div Power(2 * WordBytes - k)) % ByteSize]

\* r.hi = r.hi<<8 | b[i] and r.lo = r.lo<<8 | b[8+i], byte after byte.
addr6Of(b) ==
    LET r[k \in 0..WordBytes] ==
          IF k = 0 THEN [hi |-> 0, lo |-> 0]
          ELSE [hi |-> (r[k - 1].hi * ByteSize + b[k]) % WordSize,
                lo |-> (r[k - 1].lo * ByteSize + b[WordBytes + k]) % WordSize]
    IN r[WordBytes]

WalkInit == a \in Addrs /\ a.hi = 0 /\ a.lo = 0
Step == a' = next(a)
Walk == WalkInit /\ [][Step]_a

-----------------------------------------------------------------------------
(* Properties.                                                             *)

Top(x) == \A z \in Addrs : ~less(x, z)

\* y comes directly after x; after the last address comes the first.
Follows(y, x) == IF Top(x) THEN \A z \in Addrs : ~less(z, y)
                 ELSE less(x, y) /\ \A z \in Addrs : ~(less(x, z) /\ less(z, y))

(* next is the successor in the order the store sorts by: it skips no      *)
(* address at the boundary of the two words, and only at the very top does *)
(* it wrap, to the lowest address, which a caller sees as a smaller one.   *)
NextIsSuccessor == [][Follows(a', a) /\ (less(a', a) <=> Top(a) /\ a' # a)]_a

Bytewise(s, t) == \E k \in DOMAIN s : s[k] < t[k] /\ \A j \in 1..k - 1 : s[j] = t[j]

(* Addresses keep their identity and their order through netip's bytes: no *)
(* two become one key of the store, and what the store sorts by the words  *)
(* is sorted by the bytes.                                                 *)
BytesAgree ==
    /\ addr6Of(addr(a)) = a
    /\ \A z \in Addrs : less(a, z) <=> Bytewise(addr(a), addr(z))
=============================================================================
