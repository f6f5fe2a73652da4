------------------------------- MODULE Store -------------------------------
(***************************************************************************)
(* The in-memory shape of a Map (store.go, values.go) and the pure         *)
(* functions that read it.  A Map is built by Builder.tla, and read by     *)
(* Lookup; every array is a sequence, so position p of the code is index   *)
(* p+1 here, and a nil slice is <<>>.                                      *)
(*                                                                         *)
(* The widths of the code are constants: MaxU32 is 2^32-1, Octets is 256   *)
(* (the addresses of one /24), Groups4 is 2^24 and ByteSize is 256 (the    *)
(* values one byte of a packed id takes).  A 32-bit address is the pair    *)
(* (hi, lo) of its /24 group and its last octet; a 128-bit one is the pair *)
(* of its 64-bit words.  Both order as their pairs do.                     *)
(***************************************************************************)
EXTENDS Integers, Sequences, FiniteSets, FiniteSetsExt

CONSTANTS Values,     \* values of exactly ValLen bytes
          Miss,       \* the answer (nil, false)
          Fault,      \* a run-time panic in a lookup
          MaxU32, Octets, Groups4, ByteSize,
          MapBase     \* the low word of ::ffff:0.0.0.0

ASSUME AnswerAssumption == Miss \notin Values /\ Fault \notin Values /\ Miss # Fault
ASSUME WidthAssumption ==
    /\ MaxU32 \in Nat \ {0} /\ Octets \in Nat \ {0}
    /\ Groups4 \in Nat \ {0} /\ ByteSize \in Nat \ {0, 1}
    /\ MapBase \in Nat

\* Conversion to uint32.
U32(x) == x % (MaxU32 + 1)

-----------------------------------------------------------------------------
(* Addresses, as netip.Addr presents them.                                 *)

Mapped(a) == /\ a.kind = "v6" /\ a.hi = 0
             /\ a.lo \in MapBase .. MapBase + Groups4 * Octets - 1

\* netip.Addr.Unmap: ::ffff:a.b.c.d becomes a.b.c.d, anything else is itself.
Unmap(a) ==
    IF Mapped(a)
      THEN [kind |-> "v4", hi |-> (a.lo - MapBase) \div Octets,
            lo |-> (a.lo - MapBase) % Octets, zone |-> FALSE]
      ELSE a

\* The guard Add and Lookup share: a valid address that names no link.
NamesHost(a) == a.kind # "invalid" /\ ~a.zone

-----------------------------------------------------------------------------
(* values.go: direct values, or a table and a fixed-width id per entry.    *)

Power == [k \in 0..4 |->
            <<1, ByteSize, ByteSize * ByteSize, ByteSize * ByteSize * ByteSize,
              ByteSize * ByteSize * ByteSize * ByteSize>>[k + 1]]

\* Mutant: one distinct value too many for each width.
idWidthTooNarrow(n) == IF n <= Power[1] + 1 THEN 1
                       ELSE IF n <= Power[2] + 1 THEN 2
                       ELSE IF n <= Power[3] + 1 THEN 3 ELSE 4

idWidth(n) == IF n <= Power[1] THEN 1
              ELSE IF n <= Power[2] THEN 2
              ELSE IF n <= Power[3] THEN 3 ELSE 4

\* putID panics on an id wider than the slot.
Fits(idW, id) == idW < 4 => id < Power[idW]

\* putID: the bytes of id, least significant first.
Pack(idW, id) == [b \in 1..idW |-> (id \div Power[b - 1]) % ByteSize]

\* id: the one decoder, most significant byte first.
Unpack(slot) ==
    LET acc[b \in 0..Len(slot)] ==
            IF b = Len(slot) THEN 0 ELSE acc[b + 1] * ByteSize + slot[b + 1]
    IN acc[0]

NoVals == [direct |-> <<>>, tab |-> <<>>, ids |-> <<>>, idW |-> 0]

\* get: entry i's value.  An id outside the table is a slice panic.
get(v, i) ==
    IF v.direct # <<>> THEN v.direct[i + 1]
    ELSE LET id == Unpack(v.ids[i + 1])
         IN IF id < Len(v.tab) THEN v.tab[id + 1] ELSE Fault

-----------------------------------------------------------------------------
(* store.go: the two families.                                             *)

Nil4 == [idx |-> <<>>, suffix |-> <<>>, vals |-> NoVals]
Nil6 == [prefix |-> <<>>, pidx |-> <<>>, suffix |-> <<>>, vals |-> NoVals]

\* The scan of a group stops at the first suffix not below the wanted one.
lookup4(s, a) ==
    IF s.idx = <<>> THEN Miss
    ELSE LET run == {j \in s.idx[a.hi + 1] .. s.idx[a.hi + 2] - 1 :
                        j < Len(s.suffix) => s.suffix[j + 1] >= a.lo}
         IN IF run = {} THEN Miss
            ELSE LET j == Min(run)
                 IN IF j >= Len(s.suffix) THEN Fault
                    ELSE IF s.suffix[j + 1] = a.lo THEN get(s.vals, j) ELSE Miss

\* sort.Search over 0..n-1: bisection, whatever the predicate `holds' is.
Search(n, holds) ==
    LET bisect[w \in (0..n) \X (0..n)] ==   \* w is <<i, j>>
            IF w[1] >= w[2] THEN w[1]
            ELSE LET h == (w[1] + w[2]) \div 2
                 IN IF holds[h] THEN bisect[<<w[1], h>>] ELSE bisect[<<h + 1, w[2]>>]
    IN bisect[<<0, n>>]

lookup6(s, a) ==
    LET np == Len(s.prefix)
        i  == Search(np, [k \in 0..np - 1 |-> s.prefix[k + 1] >= a.hi])
    IN IF i = np \/ s.prefix[i + 1] # a.hi THEN Miss
       ELSE LET lo == s.pidx[i + 1]
                hi == s.pidx[i + 2]
            IN IF lo > hi \/ hi > Len(s.suffix) THEN Fault
               ELSE LET j == Search(hi - lo, [k \in 0..hi - lo - 1 |->
                                                 s.suffix[lo + k + 1] >= a.lo])
                    IN IF j = hi - lo \/ s.suffix[lo + j + 1] # a.lo THEN Miss
                       ELSE get(s.vals, lo + j)

\* Map.Lookup
Lookup(s4, s6, a) ==
    IF ~NamesHost(a) THEN Miss
    ELSE LET u == Unmap(a)
         IN IF u.kind = "v4" THEN lookup4(s4, u) ELSE lookup6(s6, u)
=============================================================================
