---------------------------- MODULE WordsProofs ----------------------------
(***************************************************************************)
(* Three parts that read and write words.                                  *)
(*                                                                         *)
(* Bits, for every word width and any widths asked for: until the widths   *)
(* granted pass the top of uint, where the check of a declaration wraps,   *)
(* fields never overlap, so a Put is seen by its own Get and by no other.  *)
(*                                                                         *)
(* Addr6, for every size of word: next stays in the space and is the       *)
(* successor in the order of less; an address is read back from its bytes, *)
(* and the bytes order as the words do.                                    *)
(*                                                                         *)
(* AddrParse, for every radix, digit limit, even number of groups, text:   *)
(* the parsers accept exactly the spellings of an address, and return it.  *)
(* The invariant of the loop of parseAddr6 is Remains: the addresses that  *)
(* the text spells are those that the rest of it completes (Completes),    *)
(* with the groups read so far in front and zeros at the gap (Spread).     *)
(***************************************************************************)
EXTENDS Bits, Addr6, AddrParse, SequenceTheorems, WellFoundedInduction, TLAPS

(* Bit layouts. *)

Inside(f) == /\ f.shift \in 0..WordBits /\ f.width \in 1..WordBits
             /\ f.shift + f.width <= WordBits

\* Fields lie one above the other, below what is allocated.
Stacked == /\ \A m \in DOMAIN fields : /\ Inside(fields[m])
                                       /\ fields[m].shift + fields[m].width <= used
           /\ \A m, j \in DOMAIN fields :
                 m < j => fields[m].shift + fields[m].width <= fields[j].shift

InFull == asked <= WordBits /\ used = asked
Reads == \A m \in DOMAIN fields : Get(fields[m], word) = want[m]
Gaps == \A bit \in Bits : (\A m \in DOMAIN fields : bit \notin Span(fields[m]))
                           => (bit \in word <=> bit \in start)

\* A layout whose total has not wrapped.
Orderly == BitsTypeOK /\ InFull /\ Stacked /\ Reads /\ Gaps

IInv == BitsTypeOK /\ (Unwrapped => Orderly)

-----------------------------------------------------------------------------
(* What the operations of a field do to one bit.                           *)

LEMMA UintSmall == ASSUME NEW x \in 0..UintTop - 1 PROVE Uint(x) = x
  BY WidthsAssumption DEF Uint

LEMMA MaskIs ==
  ASSUME NEW f, Inside(f)
  PROVE  mask(f) = 0..f.width - 1
<1>1. Uint(WordBits - f.width) = WordBits - f.width
  BY UintSmall, WidthsAssumption DEF Inside
<1>2. QED
  BY <1>1, WidthsAssumption DEF mask, Shr, Bits, Inside

LEMMA GetIs ==
  ASSUME NEW f, Inside(f), NEW w
  PROVE  Get(f, w) = {bit \in 0..f.width - 1 : bit + f.shift \in w}
BY MaskIs, WidthsAssumption DEF Get, Shr, Bits, Inside

LEMMA PutBit ==
  ASSUME NEW f, Inside(f), NEW w \in Words, NEW v, NEW bit \in Bits
  PROVE  bit \in Put(f, w, v) <=> IF bit \in Span(f) THEN bit - f.shift \in v ELSE bit \in w
<1>1. mask(f) = 0..f.width - 1
  BY MaskIs
<1>2. bit \in Shl(mask(f), f.shift) <=> bit \in Span(f)
  BY <1>1, WidthsAssumption DEF Shl, Span, Bits, Inside
<1>3. bit \in Shl(v \cap mask(f), f.shift) <=> bit \in Span(f) /\ bit - f.shift \in v
  BY <1>1, WidthsAssumption DEF Shl, Span, Bits, Inside
<1>4. QED
  BY <1>2, <1>3 DEF Put

LEMMA PutIsWord ==
  ASSUME NEW f, NEW w \in Words, NEW v
  PROVE  Put(f, w, v) \in Words
BY DEF Put, Shl, Words

LEMMA GetIsWord ==
  ASSUME NEW f, NEW w PROVE Get(f, w) \in Words
BY DEF Get, Shr, Words, mask

\* A field reads back its own Put, cut to its width.
LEMMA PutOwn ==
  ASSUME NEW f, Inside(f), NEW w \in Words, NEW v
  PROVE  Get(f, Put(f, w, v)) = v \cap mask(f)
<1>1. mask(f) = 0..f.width - 1
  BY MaskIs
<1>2. ASSUME NEW bit \in 0..f.width - 1
      PROVE  bit + f.shift \in Put(f, w, v) <=> bit \in v
  <2>1. bit + f.shift \in Bits /\ bit + f.shift \in Span(f) /\ (bit + f.shift) - f.shift = bit
    BY WidthsAssumption DEF Bits, Span, Inside
  <2>2. QED
    BY <2>1, PutBit
<1>3. QED
  BY <1>1, <1>2, GetIs

\* Another field does not see it.
LEMMA PutOther ==
  ASSUME NEW f, Inside(f), NEW g, Inside(g), NEW w \in Words, NEW v,
         \/ f.shift + f.width <= g.shift
         \/ g.shift + g.width <= f.shift
  PROVE  Get(g, Put(f, w, v)) = Get(g, w)
<1>1. ASSUME NEW bit \in 0..g.width - 1
      PROVE  bit + g.shift \in Put(f, w, v) <=> bit + g.shift \in w
  <2>1. bit + g.shift \in Bits /\ bit + g.shift \notin Span(f)
    BY WidthsAssumption DEF Bits, Span, Inside
  <2>2. QED
    BY <2>1, PutBit
<1>2. /\ Get(g, Put(f, w, v)) = {bit \in 0..g.width - 1 : bit + g.shift \in Put(f, w, v)}
      /\ Get(g, w) = {bit \in 0..g.width - 1 : bit + g.shift \in w}
  BY GetIs
<1>3. QED
  BY <1>1, <1>2

-----------------------------------------------------------------------------
(* The invariant.                                                          *)

LEMMA Starts == BitsInit => Orderly
<1> SUFFICES ASSUME BitsInit PROVE Orderly
  OBVIOUS
<1>1. BitsTypeOK
  <2>1. used \in 0..WordBits /\ asked \in Nat
    <3>1. used = 0 /\ asked = 0
      BY DEF BitsInit
    <3>2. QED
      BY <3>1, WidthsAssumption
  <2>2. fields \in Seq(FieldType) /\ want \in Seq(Words) /\ Len(want) = Len(fields)
    BY DEF BitsInit
  <2>3. QED
    BY <2>1, <2>2 DEF BitsInit, BitsTypeOK
<1>2. InFull /\ Stacked /\ Reads /\ Gaps
  BY WidthsAssumption DEF BitsInit, InFull, Stacked, Reads, Gaps
<1>3. QED
  BY <1>1, <1>2 DEF Orderly

\* Below the top of uint the check of a declaration is the check it looks like.
LEMMA GrantFits ==
  ASSUME Orderly, NEW width \in Widths, asked + width < UintTop, ~Overflows(width)
  PROVE  /\ width \in Nat /\ used + width <= WordBits
         /\ Uint(used + width) = used + width
<1>1. width \in 0..UintTop - 1 /\ used \in 0..WordBits /\ used + width < UintTop
  BY WidthsAssumption DEF Orderly, BitsTypeOK, InFull
<1>2. used + width \in 0..UintTop - 1
  BY <1>1, WidthsAssumption
<1>3. Uint(used + width) = used + width
  BY <1>2, UintSmall
<1>4. QED
  BY <1>1, <1>3, WidthsAssumption DEF Overflows

LEMMA PanicKeeps == Orderly /\ Panic => Orderly'
BY DEF Orderly, BitsTypeOK, InFull, Stacked, Reads, Gaps, Panic, Inside,
       Get, mask, Shr, Span

LEMMA FieldKeeps ==
  ASSUME Orderly, NEW width \in Widths, Field(width), Unwrapped'
  PROVE  Orderly'
<1>1. CASE width = 0 \/ Overflows(width)
  BY <1>1, PanicKeeps DEF Field
<1>2. CASE width # 0 /\ ~Overflows(width)
  <2> DEFINE f == [shift |-> used, width |-> width]
  <2>1. /\ fields' = Append(fields, f) /\ used' = used + width
        /\ want' = Append(want, Get(f, word)) /\ asked' = asked + width
        /\ UNCHANGED <<word, panicked, start>>
    <3>1. asked' = asked + width
      BY <1>2 DEF Field
    <3>2. asked + width < UintTop
      BY <3>1 DEF Unwrapped
    <3>3. width \in Nat /\ used + width <= WordBits /\ Uint(used + width) = used + width
      BY <1>2, <3>2, GrantFits
    <3> QED
      BY <1>2, <3>3 DEF Field
  <2>2. width \in 1..UintTop - 1 /\ used \in Nat /\ used + width <= WordBits
    <3>1. asked + width < UintTop
      BY <2>1 DEF Unwrapped
    <3>2. width \in Nat /\ used + width <= WordBits
      BY <1>2, <3>1, GrantFits
    <3> QED
      BY <1>2, <3>2, WidthsAssumption DEF Orderly, BitsTypeOK
  <2>3. Inside(f) /\ f \in FieldType
    BY <2>2, WidthsAssumption DEF Inside, FieldType
  <2>4. /\ fields \in Seq(FieldType) /\ want \in Seq(Words) /\ Len(want) = Len(fields)
        /\ Get(f, word) \in Words
    BY GetIsWord DEF Orderly, BitsTypeOK
  <2>5. /\ Len(fields') = Len(fields) + 1 /\ fields'[Len(fields) + 1] = f
        /\ \A m \in DOMAIN fields : fields'[m] = fields[m]
        /\ DOMAIN fields' = DOMAIN fields \cup {Len(fields) + 1}
    BY <2>1, <2>3, <2>4
  <2>6. /\ Len(want') = Len(want) + 1 /\ want'[Len(want) + 1] = Get(f, word)
        /\ \A m \in DOMAIN fields : want'[m] = want[m]
    BY <2>1, <2>4
  <2>7. BitsTypeOK'
    <3>1. fields' \in Seq(FieldType) /\ want' \in Seq(Words) /\ Len(want') = Len(fields')
      BY <2>1, <2>3, <2>4
    <3>2. used' \in 0..WordBits /\ asked' \in Nat
      BY <2>1, <2>2 DEF Orderly, BitsTypeOK
    <3>3. QED
      BY <2>1, <3>1, <3>2 DEF Orderly, BitsTypeOK
  <2>8. InFull'
    BY <2>1, <2>2 DEF Orderly, InFull
  <2>9. Stacked'
    <3>1. \A m \in DOMAIN fields : /\ Inside(fields[m])
                                   /\ fields[m].shift + fields[m].width <= used
      BY DEF Orderly, Stacked
    <3>2. \A m \in DOMAIN fields : fields[m].shift + fields[m].width <= used'
      BY <2>1, <2>2, <3>1 DEF Inside
    <3>3. \A m \in DOMAIN fields' : Inside(fields'[m])
                                    /\ fields'[m].shift + fields'[m].width <= used'
      BY <2>1, <2>3, <2>5, <3>1, <3>2
    <3>4. \A m, j \in DOMAIN fields' :
             m < j => fields'[m].shift + fields'[m].width <= fields'[j].shift
      <4> SUFFICES ASSUME NEW m \in DOMAIN fields', NEW j \in DOMAIN fields', m < j
                   PROVE  fields'[m].shift + fields'[m].width <= fields'[j].shift
        OBVIOUS
      <4>1. m \in DOMAIN fields
        BY <2>4, <2>5
      <4>2. CASE j \in DOMAIN fields
        BY <4>1, <4>2, <2>5 DEF Orderly, Stacked
      <4>3. CASE j = Len(fields) + 1
        BY <4>1, <4>3, <2>5, <3>1
      <4>4. QED
        BY <4>2, <4>3, <2>5
    <3>5. QED
      BY <3>3, <3>4 DEF Stacked, Inside
  <2>10. Reads'
    <3>1. \A m \in DOMAIN fields' : Get(fields'[m], word) = want'[m]
      BY <2>4, <2>5, <2>6 DEF Orderly, Reads
    <3>2. QED
      BY <3>1, <2>1 DEF Reads, Get, mask, Shr
  <2>11. Gaps'
    <3> SUFFICES ASSUME NEW bit \in Bits, \A m \in DOMAIN fields' : bit \notin Span(fields'[m])
                 PROVE  bit \in word <=> bit \in start
      BY <2>1 DEF Gaps, Span
    <3>1. \A m \in DOMAIN fields : bit \notin Span(fields[m])
      BY <2>5
    <3>2. QED
      BY <3>1 DEF Orderly, Gaps
  <2>12. QED
    BY <2>7, <2>8, <2>9, <2>10, <2>11 DEF Orderly
<1>3. QED
  BY <1>1, <1>2

LEMMA ReserveKeeps ==
  ASSUME Orderly, NEW width \in Widths, Reserve(width), Unwrapped'
  PROVE  Orderly'
<1>1. CASE Overflows(width)
  BY <1>1, PanicKeeps DEF Reserve
<1>2. CASE ~Overflows(width)
  <2>1. /\ width \in Nat /\ used + width <= WordBits
        /\ used' = used + width /\ asked' = asked + width
        /\ UNCHANGED <<fields, word, panicked, start, want>>
    <3>1. asked' = asked + width
      BY <1>2 DEF Reserve
    <3>2. asked + width < UintTop
      BY <3>1 DEF Unwrapped
    <3>3. width \in Nat /\ used + width <= WordBits /\ Uint(used + width) = used + width
      BY <1>2, <3>2, GrantFits
    <3> QED
      BY <1>2, <3>3 DEF Reserve
  <2>2. BitsTypeOK'
    BY <2>1 DEF Orderly, BitsTypeOK
  <2>3. InFull'
    BY <2>1 DEF Orderly, InFull, BitsTypeOK
  <2>4. Stacked'
    <3>1. \A m \in DOMAIN fields : fields[m].shift + fields[m].width <= used'
      BY <2>1 DEF Orderly, BitsTypeOK, Stacked, Inside
    <3>2. QED
      BY <2>1, <3>1 DEF Orderly, Stacked, Inside
  <2>5. Reads' /\ Gaps'
    BY <2>1 DEF Orderly, Reads, Gaps, Get, mask, Shr, Span
  <2>6. QED
    BY <2>2, <2>3, <2>4, <2>5 DEF Orderly
<1>3. QED
  BY <1>1, <1>2

LEMMA WriteKeeps ==
  ASSUME Orderly, NEW m \in DOMAIN fields, NEW v \in Words, Write(m, v)
  PROVE  Orderly'
<1> DEFINE f == fields[m]
<1>1. /\ word' = Put(f, word, v)
      /\ want' = [want EXCEPT ![m] = v \cap mask(f)]
      /\ UNCHANGED <<used, fields, panicked, asked, start>>
  BY DEF Write
<1>2. /\ word \in Words /\ want \in Seq(Words) /\ DOMAIN want = DOMAIN fields
      /\ \A j \in DOMAIN fields : Inside(fields[j])
  BY DEF Orderly, BitsTypeOK, Stacked
<1>3. word' \in Words /\ v \cap mask(f) \in Words
  BY <1>1, <1>2, PutIsWord DEF Words
<1>4. BitsTypeOK'
  BY <1>1, <1>2, <1>3 DEF Orderly, BitsTypeOK
<1>5. InFull' /\ Stacked'
  BY <1>1 DEF Orderly, InFull, Stacked, Inside
<1>6. Reads'
  <2> SUFFICES ASSUME NEW j \in DOMAIN fields
               PROVE  Get(fields[j], word') = want'[j]
    BY <1>1 DEF Reads, Get, mask, Shr
  <2>1. CASE j = m
    BY <2>1, <1>1, <1>2, PutOwn
  <2>2. CASE j # m
    <3>1. \/ fields[m].shift + fields[m].width <= fields[j].shift
          \/ fields[j].shift + fields[j].width <= fields[m].shift
      <4>1. m \in Nat /\ j \in Nat
        BY DEF Orderly, BitsTypeOK
      <4>2. QED
        BY <2>2, <4>1 DEF Orderly, Stacked
    <3>2. Get(fields[j], word') = Get(fields[j], word)
      BY <1>1, <1>2, <3>1, PutOther
    <3>3. want'[j] = want[j]
      BY <2>2, <1>1, <1>2
    <3>4. QED
      BY <3>2, <3>3 DEF Orderly, Reads
  <2>3. QED
    BY <2>1, <2>2
<1>7. Gaps'
  <2> SUFFICES ASSUME NEW bit \in Bits, \A j \in DOMAIN fields : bit \notin Span(fields[j])
               PROVE  bit \in word' <=> bit \in start
    BY <1>1 DEF Gaps, Span
  <2>1. bit \in word' <=> bit \in word
    BY <1>1, <1>2, PutBit
  <2>2. QED
    BY <2>1 DEF Orderly, Gaps
<1>8. QED
  BY <1>4, <1>5, <1>6, <1>7 DEF Orderly

\* Past a wrap a layout still keeps to the types.
LEMMA TypesKept ==
  ASSUME BitsTypeOK, [BitsNext]_bvars
  PROVE  BitsTypeOK'
<1>1. CASE UNCHANGED bvars
  BY <1>1 DEF BitsTypeOK, bvars
<1>2. ASSUME NEW width \in Widths, ~Overflows(width)
      PROVE  Uint(used + width) \in 0..WordBits /\ asked + width \in Nat
  <2>1. width \in Nat /\ used \in Nat /\ asked \in Nat
    BY WidthsAssumption DEF BitsTypeOK
  <2>2. used + width \in Nat /\ UintTop \in Nat \ {0}
    BY <2>1, WidthsAssumption
  <2>3. (used + width) % UintTop \in Nat
    BY <2>2
  <2>4. Uint(used + width) <= WordBits
    BY <1>2, <2>2, <2>3, WidthsAssumption DEF Overflows, Uint
  <2> QED
    BY <2>1, <2>3, <2>4, WidthsAssumption DEF Uint
<1>3. ASSUME NEW width \in Widths, Field(width) PROVE BitsTypeOK'
  <2>1. CASE width = 0 \/ Overflows(width)
    BY <1>3, <2>1 DEF Field, Panic, BitsTypeOK
  <2>2. CASE width # 0 /\ ~Overflows(width)
    <3> DEFINE f == [shift |-> used, width |-> width]
    <3>1. /\ fields' = Append(fields, f) /\ used' = Uint(used + width)
          /\ want' = Append(want, Get(f, word)) /\ asked' = asked + width
          /\ UNCHANGED <<word, panicked, start>>
      BY <1>3, <2>2 DEF Field
    <3>2. f \in FieldType
      BY <2>2, WidthsAssumption DEF FieldType, BitsTypeOK
    <3>3. Get(f, word) \in Words
      BY GetIsWord
    <3>4. fields' \in Seq(FieldType) /\ want' \in Seq(Words) /\ Len(want') = Len(fields')
      BY <3>1, <3>2, <3>3 DEF BitsTypeOK
    <3>5. used' \in 0..WordBits /\ asked' \in Nat
      BY <3>1, <2>2, <1>2
    <3> QED
      BY <3>1, <3>4, <3>5 DEF BitsTypeOK
  <2> QED
    BY <2>1, <2>2
<1>4. ASSUME NEW width \in Widths, Reserve(width) PROVE BitsTypeOK'
  <2>1. CASE Overflows(width)
    BY <1>4, <2>1 DEF Reserve, Panic, BitsTypeOK
  <2>2. CASE ~Overflows(width)
    <3>1. /\ used' = Uint(used + width) /\ asked' = asked + width
          /\ UNCHANGED <<fields, word, panicked, start, want>>
      BY <1>4, <2>2 DEF Reserve
    <3>2. used' \in 0..WordBits /\ asked' \in Nat
      BY <3>1, <2>2, <1>2
    <3> QED
      BY <3>1, <3>2 DEF BitsTypeOK
  <2> QED
    BY <2>1, <2>2
<1>5. ASSUME NEW m \in DOMAIN fields, NEW v \in Words, Write(m, v) PROVE BitsTypeOK'
  <2> DEFINE f == fields[m]
  <2>1. /\ word' = Put(f, word, v)
        /\ want' = [want EXCEPT ![m] = v \cap mask(f)]
        /\ UNCHANGED <<used, fields, panicked, asked, start>>
    BY <1>5 DEF Write
  <2>2. word' \in Words /\ v \cap mask(f) \in Words
    BY <2>1, PutIsWord DEF Words, BitsTypeOK
  <2> QED
    BY <2>1, <2>2 DEF BitsTypeOK
<1> QED
  BY <1>1, <1>3, <1>4, <1>5 DEF BitsNext

\* What was granted only grows, so a layout that has wrapped stays so.
LEMMA GrantedGrows ==
  ASSUME BitsTypeOK, [BitsNext]_bvars, Unwrapped'
  PROVE  Unwrapped
<1>1. asked' = asked \/ \E width \in Widths : asked' = asked + width
  BY DEF BitsNext, Field, Reserve, Panic, Write, bvars
<1>2. \A width \in Widths : width \in Nat
  BY WidthsAssumption
<1> QED
  BY <1>1, <1>2, WidthsAssumption DEF Unwrapped, BitsTypeOK

\* Every step keeps a layout orderly whose total has not wrapped after it.
LEMMA OrderlyKept ==
  ASSUME Orderly, [BitsNext]_bvars, Unwrapped'
  PROVE  Orderly'
<1>1. CASE UNCHANGED bvars
  BY <1>1 DEF Orderly, BitsTypeOK, InFull, Stacked, Reads, Gaps, bvars,
              Inside, Get, mask, Shr, Span
<1>2. ASSUME NEW width \in Widths, Field(width) PROVE Orderly'
  BY <1>2, FieldKeeps
<1>3. ASSUME NEW width \in Widths, Reserve(width) PROVE Orderly'
  BY <1>3, ReserveKeeps
<1>4. ASSUME NEW m \in DOMAIN fields, NEW v \in Words, Write(m, v) PROVE Orderly'
  BY <1>4, WriteKeeps
<1> QED
  BY <1>1, <1>2, <1>3, <1>4 DEF BitsNext

LEMMA Invariance == BitsSpec => []IInv
<1>1. BitsInit => IInv
  BY Starts DEF IInv, Orderly
<1>2. IInv /\ [BitsNext]_bvars => IInv'
  BY TypesKept, GrantedGrows, OrderlyKept DEF IInv
<1>3. QED
  BY <1>1, <1>2, PTL DEF BitsSpec

-----------------------------------------------------------------------------
(* The results.                                                            *)

(* What passes a layout's check (Layout.Field, Reserve) fits the word, or  *)
(* has taken the total past the top of uint.                               *)
THEOREM LayoutsFit == BitsSpec => []DeclaredFits
<1>1. IInv => DeclaredFits
  BY DEF IInv, Orderly, InFull, DeclaredFits
<1> QED BY <1>1, Invariance, PTL

(* Until the total wraps, a field reads what was last put into it, for     *)
(* every width of word and order of calls (Field.Get, Field.Put).          *)
THEOREM FieldsReadBack == BitsSpec => []ReadsBack
<1>1. IInv => ReadsBack
  BY DEF IInv, Orderly, Reads, ReadsBack
<1> QED BY <1>1, Invariance, PTL

(* Until the total wraps, no Put reaches a bit that no field covers        *)
(* (Field.Put).                                                            *)
THEOREM GapsKeep == BitsSpec => []GapsUntouched
<1>1. IInv => GapsUntouched
  BY DEF IInv, Orderly, Gaps, GapsUntouched
<1> QED BY <1>1, Invariance, PTL

(* The layout and its fields keep to their types, wraps included           *)
(* (Layout.Field, Reserve).                                                *)
THEOREM LayoutTyped == BitsSpec => []BitsTypeOK
<1>1. IInv => BitsTypeOK
  BY DEF IInv
<1> QED BY <1>1, Invariance, PTL

-----------------------------------------------------------------------------
(* The successor of an address. *)

\* Adding one to a word, with the wrap of the machine.
LEMMA Increment ==
    ASSUME NEW w \in Word
    PROVE  /\ w + 1 < WordSize => (w + 1) % WordSize = w + 1
           /\ w + 1 = WordSize => (w + 1) % WordSize = 0
           /\ (w + 1) % WordSize \in Word
           /\ w + 1 < WordSize \/ w + 1 = WordSize
  BY WordAssumption DEF Word

\* The last address of the space, and the first.
LEMMA Ends ==
    ASSUME NEW x \in Addrs
    PROVE  /\ Top(x) <=> x.hi = WordSize - 1 /\ x.lo = WordSize - 1
           /\ (\A z \in Addrs : ~less(z, x)) <=> x.hi = 0 /\ x.lo = 0
<1> DEFINE last  == [hi |-> WordSize - 1, lo |-> WordSize - 1]
           first == [hi |-> 0, lo |-> 0]
<1>1. last \in Addrs /\ first \in Addrs
  BY WordAssumption DEF Addrs, Word
<1>2. x.hi \in 0..WordSize - 1 /\ x.lo \in 0..WordSize - 1
  BY DEF Addrs, Word
<1>3. ~less(x, last) => x.hi = WordSize - 1 /\ x.lo = WordSize - 1
  BY <1>2, WordAssumption DEF less
<1>4. ASSUME x.hi = WordSize - 1, x.lo = WordSize - 1 PROVE Top(x)
  BY <1>4, WordAssumption DEF Top, less, Addrs, Word
<1>5. ~less(first, x) => x.hi = 0 /\ x.lo = 0
  BY <1>2, WordAssumption DEF less
<1>6. ASSUME x.hi = 0, x.lo = 0 PROVE \A z \in Addrs : ~less(z, x)
  BY <1>6, WordAssumption DEF less, Addrs, Word
<1> QED
  BY <1>1, <1>3, <1>4, <1>5, <1>6 DEF Top

\* next stays in the space.
LEMMA NextInSpace ==
    ASSUME NEW x \in Addrs
    PROVE  next(x) \in Addrs
<1>1. x.hi \in Word /\ x.lo \in Word
  BY DEF Addrs
<1>2. (x.hi + 1) % WordSize \in Word /\ (x.lo + 1) % WordSize \in Word
  BY <1>1, Increment
<1> QED
  BY <1>1, <1>2 DEF next, Addrs

\* next is the successor, and is smaller only after the last address.
LEMMA NextFollows ==
    ASSUME NEW x \in Addrs
    PROVE  /\ Follows(next(x), x)
           /\ next(x) # x => (less(next(x), x) <=> Top(x) /\ next(x) # x)
<1> DEFINE y == next(x)
<1>1. x.hi \in Word /\ x.lo \in Word /\ y \in Addrs
  BY NextInSpace DEF Addrs
<1>2. CASE x.lo + 1 < WordSize
  <2>1. y.hi = x.hi /\ y.lo = x.lo + 1
    BY <1>1, <1>2, Increment, WordAssumption DEF next, Word
  <2>2. ~Top(x)
    <3>1. x.lo # WordSize - 1
      BY <1>1, <1>2, WordAssumption DEF Word
    <3> QED
      BY <3>1, Ends
  <2>3. less(x, y) /\ ~less(y, x)
    BY <1>1, <2>1, WordAssumption DEF less, Word
  <2>4. ASSUME NEW z \in Addrs PROVE ~(less(x, z) /\ less(z, y))
    BY <1>1, <2>1, WordAssumption DEF less, Addrs, Word
  <2> QED
    BY <2>2, <2>3, <2>4 DEF Follows
<1>3. CASE x.lo + 1 = WordSize /\ x.hi + 1 < WordSize
  <2>1. y.hi = x.hi + 1 /\ y.lo = 0
    BY <1>1, <1>3, Increment, WordAssumption DEF next, Word
  <2>2. ~Top(x)
    BY <1>1, <1>3, Ends, WordAssumption DEF Word
  <2>3. less(x, y) /\ ~less(y, x)
    BY <1>1, <2>1, WordAssumption DEF less, Word
  <2>4. ASSUME NEW z \in Addrs PROVE ~(less(x, z) /\ less(z, y))
    BY <1>1, <1>3, <2>1, WordAssumption DEF less, Addrs, Word
  <2> QED
    BY <2>2, <2>3, <2>4 DEF Follows
<1>4. CASE x.lo + 1 = WordSize /\ x.hi + 1 = WordSize
  <2>1. y.hi = 0 /\ y.lo = 0
    BY <1>1, <1>4, Increment, WordAssumption DEF next, Word
  <2>2. Top(x)
    BY <1>1, <1>4, Ends, WordAssumption DEF Word
  <2>3. \A z \in Addrs : ~less(z, y)
    BY <1>1, <2>1, Ends
  <2>4. y # x => less(y, x)
    <3> SUFFICES ASSUME y # x PROVE less(y, x)
      OBVIOUS
    <3>1. x.hi # 0 \/ x.lo # 0
      BY <1>1, <2>1 DEF Addrs
    <3> QED
      BY <1>1, <2>1, <3>1, WordAssumption DEF less, Word
  <2> QED
    BY <2>2, <2>3, <2>4 DEF Follows
<1> QED
  BY <1>1, <1>2, <1>3, <1>4, Increment

\* The walk stays among the addresses.
Home == a \in Addrs

LEMMA WalkStays == Walk => []Home
<1>1. WalkInit => Home
  BY DEF WalkInit, Home
<1>2. Home /\ [Step]_a => Home'
  BY NextInSpace DEF Home, Step
<1> QED
  BY <1>1, <1>2, PTL DEF Walk

(* next skips no address and wraps only at the top, in a space of any size: *)
(* 64-bit words are one of them.                                            *)
THEOREM Successor == Walk => NextIsSuccessor
<1>1. Home /\ [Step]_a
        => [Follows(a', a) /\ (less(a', a) <=> Top(a) /\ a' # a)]_a
  <2> SUFFICES ASSUME Home, Step, a' # a
               PROVE  Follows(a', a) /\ (less(a', a) <=> Top(a) /\ a' # a)
    OBVIOUS
  <2> QED
    BY NextFollows DEF Home, Step
<1> QED
  BY <1>1, WalkStays, PTL DEF Walk, NextIsSuccessor

-----------------------------------------------------------------------------
(* The bytes of a word. *)

\* Induction over the naturals takes this form: no least counterexample.
LEMMA LeastNat ==
    ASSUME NEW T \in SUBSET Nat, T # {}
    PROVE  \E m \in T : \A k \in T : m <= k
<1> DEFINE R == OpToRel(<, Nat)
<1>1. IsWellFoundedOn(R, Nat)
  BY NatLessThanWellFounded
<1>2. PICK m \in T : \A k \in T : <<k, m>> \notin R
  BY <1>1, WFMin
<1>3. \A k \in T : ~(k < m)
  BY <1>2 DEF OpToRel
<1> QED
  BY <1>3

LEMMA QuotientIs ==
    ASSUME NEW x \in Nat, NEW d \in Nat \ {0}, NEW q \in Nat, NEW r \in Nat,
           x = d * q + r, r < d
    PROVE  x \div d = q
<1>1. x \div d \in Nat /\ x % d \in 0..d - 1 /\ x = (d * (x \div d)) + (x % d)
  OBVIOUS
<1> DEFINE p == x \div d
           s == x % d
<1>2. p \in Nat /\ s \in Nat /\ s < d /\ d * p + s = d * q + r
  BY <1>1
<1> HIDE DEF p, s
<1>3. ASSUME p < q PROVE FALSE
  <2>1. p + 1 <= q
    BY <1>2, <1>3
  <2>2. d * (p + 1) <= d * q
    BY <1>2, <2>1
  <2>3. d * (p + 1) = d * p + d
    BY <1>2
  <2> QED
    BY <1>2, <2>2, <2>3
<1>4. ASSUME q < p PROVE FALSE
  <2>1. q + 1 <= p
    BY <1>2, <1>4
  <2>2. d * (q + 1) <= d * p
    BY <1>2, <2>1
  <2>3. d * (q + 1) = d * q + d
    OBVIOUS
  <2> QED
    BY <1>2, <2>2, <2>3
<1>5. p = q
  BY <1>2, <1>3, <1>4
<1> QED
  BY <1>5 DEF p

LEMMA QuotientOfQuotient ==
    ASSUME NEW x \in Nat, NEW p \in Nat \ {0}, NEW e \in Nat \ {0}
    PROVE  x \div (p * e) = (x \div p) \div e
<1> DEFINE q == x \div p
           r == x % p
           s == q \div e
           t == q % e
<1>1. q \in Nat /\ r \in Nat /\ r < p /\ x = p * q + r
  OBVIOUS
<1> HIDE DEF q, r
<1>2. s \in Nat /\ t \in Nat /\ t < e /\ q = e * s + t
  BY <1>1
<1> HIDE DEF s, t
<1> DEFINE u == p * t + r
<1>3. p * t \in Nat /\ p * e \in Nat \ {0}
  BY <1>2
<1>4. u \in Nat
  BY <1>1, <1>3
<1>5. u < p * e
  <2>1. p * (t + 1) <= p * e
    BY <1>2
  <2>2. p * (t + 1) = p * t + p
    BY <1>2
  <2> QED
    BY <1>1, <1>3, <2>1, <2>2
<1>6. x = (p * e) * s + u
  <2>1. p * (e * s + t) = (p * e) * s + p * t
    BY <1>2
  <2>2. p * q = (p * e) * s + p * t
    BY <1>2, <2>1
  <2>3. (p * e) * s \in Nat /\ p * q \in Nat
    BY <1>1, <1>2
  <2> QED
    BY <1>1, <1>3, <2>2, <2>3
<1> HIDE DEF u
<1>7. x \div (p * e) = s
  BY <1>2, <1>3, <1>4, <1>5, <1>6, QuotientIs
<1> QED
  BY <1>7 DEF q, s

\* p has the first k powers of the byte.
Powers(k, p) == p = [j \in 0..k |-> IF j = 0 THEN 1 ELSE ByteSize * p[j - 1]]

LEMMA PowersExist == ASSUME NEW k \in Nat PROVE \E p : Powers(k, p)
<1> DEFINE T == {j \in Nat : ~\E p : Powers(j, p)}
<1>1. SUFFICES ASSUME T # {} PROVE FALSE
  OBVIOUS
<1>2. PICK d \in T : \A j \in T : d <= j
  BY <1>1, LeastNat
<1>3. d # 0
  <2> DEFINE q == [j \in 0..0 |-> 1]
  <2>1. q = [j \in 0..0 |-> IF j = 0 THEN 1 ELSE ByteSize * q[j - 1]]
    OBVIOUS
  <2>2. Powers(0, q)
    BY <2>1 DEF Powers
  <2> QED
    BY <2>2
<1>4. d \in Nat /\ d - 1 \in Nat
  BY <1>2, <1>3
<1>5. d - 1 \notin T
  <2> HIDE DEF T
  <2>1. d - 1 \in T => d <= d - 1
    BY <1>2
  <2> QED
    BY <1>4, <2>1
<1>6. PICK p : Powers(d - 1, p)
  BY <1>4, <1>5
<1>7. \A j \in 0..d - 1 : p[j] = IF j = 0 THEN 1 ELSE ByteSize * p[j - 1]
  BY <1>6 DEF Powers
<1> DEFINE q == [j \in 0..d |-> IF j = 0 THEN 1 ELSE ByteSize * p[j - 1]]
<1>8. \A j \in 0..d - 1 : q[j] = p[j]
  BY <1>4, <1>7
<1>9. ASSUME NEW j \in 0..d PROVE q[j] = IF j = 0 THEN 1 ELSE ByteSize * q[j - 1]
  <2>1. j # 0 => j - 1 \in 0..d - 1
    BY <1>4
  <2>2. q[j] = IF j = 0 THEN 1 ELSE ByteSize * p[j - 1]
    OBVIOUS
  <2> QED
    BY <1>8, <2>1, <2>2
<1>10. q = [j \in 0..d |-> q[j]]
  OBVIOUS
<1> HIDE DEF q
<1>11. Powers(d, q)
  BY <1>9, <1>10 DEF Powers
<1> QED
  BY <1>2, <1>11

\* Two lists of powers agree as far as both go.
LEMMA PowersAgree ==
    ASSUME NEW k \in Nat, NEW l \in Nat, k <= l, NEW p, Powers(k, p), NEW q, Powers(l, q)
    PROVE  \A j \in 0..k : p[j] = q[j]
<1> DEFINE T == {j \in 0..k : p[j] # q[j]}
<1>1. SUFFICES ASSUME T # {} PROVE FALSE
  OBVIOUS
<1>2. T \in SUBSET Nat
  OBVIOUS
<1>3. PICK d \in T : \A j \in T : d <= j
  BY <1>1, <1>2, LeastNat
<1>4. /\ \A j \in 0..k : p[j] = IF j = 0 THEN 1 ELSE ByteSize * p[j - 1]
      /\ \A j \in 0..l : q[j] = IF j = 0 THEN 1 ELSE ByteSize * q[j - 1]
  BY DEF Powers
<1>5. d \in 0..k /\ d \in 0..l /\ p[d] # q[d]
  BY <1>3
<1>6. d # 0
  BY <1>4, <1>5
<1>7. d - 1 \in 0..k /\ ~(d <= d - 1)
  BY <1>5, <1>6
<1>8. p[d - 1] = q[d - 1]
  BY <1>3, <1>7
<1> QED
  BY <1>4, <1>5, <1>6, <1>8

LEMMA PowerIs ==
    /\ Power(0) = 1
    /\ \A k \in Nat : Power(k + 1) = ByteSize * Power(k) /\ Power(k) \in Nat \ {0}
<1> DEFINE P(k) == CHOOSE p : Powers(k, p)
<1>1. \A k \in Nat : Powers(k, P(k))
  BY PowersExist
<1>2. \A k : Power(k) = P(k)[k]
  BY DEF Power, Powers
<1> HIDE DEF P
<1>3. Power(0) = 1
  <2>1. P(0)[0] = 1
    BY <1>1 DEF Powers
  <2> QED
    BY <1>2, <2>1
<1>4. ASSUME NEW k \in Nat PROVE Power(k + 1) = ByteSize * Power(k)
  <2>1. k + 1 \in Nat /\ k <= k + 1 /\ k \in 0..k /\ k + 1 \in 0..k + 1 /\ k + 1 # 0 /\ (k + 1) - 1 = k
    OBVIOUS
  <2>2. P(k + 1)[k + 1] = ByteSize * P(k + 1)[k]
    <3> DEFINE p == P(k + 1)
               m == k + 1
    <3>1. m \in 0..m /\ m # 0 /\ m - 1 = k /\ m \in Nat
      BY <2>1
    <3>2. p = [j \in 0..m |-> IF j = 0 THEN 1 ELSE ByteSize * p[j - 1]]
      BY <1>1, <2>1 DEF Powers
    <3> HIDE DEF p, m
    <3>3. p[m] = ByteSize * p[m - 1]
      BY <3>1, <3>2
    <3>4. p[m] = ByteSize * p[k]
      BY <3>1, <3>3
    <3> QED
      BY <3>4 DEF p, m
  <2>3. P(k)[k] = P(k + 1)[k]
    BY <1>1, <2>1, PowersAgree
  <2> QED
    BY <1>2, <2>2, <2>3
<1>5. ASSUME NEW k \in Nat PROVE Power(k) \in Nat \ {0}
  <2> DEFINE T == {j \in Nat : Power(j) \notin Nat \ {0}}
  <2>1. SUFFICES ASSUME T # {} PROVE FALSE
    OBVIOUS
  <2>2. PICK d \in T : \A j \in T : d <= j
    BY <2>1, LeastNat
  <2>3. d # 0
    BY <1>3, <2>2
  <2>4. d \in Nat /\ d - 1 \in Nat /\ (d - 1) + 1 = d
    BY <2>2, <2>3
  <2>5. d - 1 \notin T
    <3> HIDE DEF T
    <3>1. d - 1 \in T => d <= d - 1
      BY <2>2
    <3> QED
      BY <2>4, <3>1
  <2>6. Power(d - 1) \in Nat \ {0}
    BY <2>4, <2>5
  <2>7. Power(d) = ByteSize * Power(d - 1)
    BY <1>4, <2>4
  <2>8. \A x, y \in Nat \ {0} : x * y \in Nat \ {0}
    OBVIOUS
  <2>9. Power(d) \in Nat \ {0}
    BY <2>6, <2>7, <2>8, WordAssumption
  <2> QED
    BY <2>2, <2>9
<1> QED
  BY <1>3, <1>4, <1>5

\* The number the first k bytes of w stand for, and its byte k.
Front(w, k) == w \div Power(WordBytes - k)
Byte(w, k)  == Front(w, k) % ByteSize

LEMMA QuotientMonotone ==
    ASSUME NEW w \in Nat, NEW z \in Nat, w <= z, NEW d \in Nat \ {0}
    PROVE  w \div d <= z \div d /\ w \div d <= w
<1> DEFINE p == w \div d
           q == z \div d
           r == w % d
           s == z % d
<1>1. /\ p \in Nat /\ q \in Nat /\ r \in Nat /\ s \in Nat /\ r < d /\ s < d
      /\ w = d * p + r /\ z = d * q + s
  OBVIOUS
<1> HIDE DEF p, q, r, s
<1>2. p <= q
  <2> SUFFICES ASSUME q + 1 <= p PROVE FALSE
    BY <1>1
  <2>1. d * (q + 1) <= d * p
    BY <1>1
  <2>2. d * (q + 1) = d * q + d
    BY <1>1
  <2>3. d * q \in Nat /\ d * p \in Nat
    BY <1>1
  <2> QED
    BY <1>1, <2>1, <2>2, <2>3
<1>3. p <= w
  <2>1. 1 * p <= d * p /\ d * p \in Nat
    BY <1>1
  <2> QED
    BY <1>1, <2>1
<1> QED
  BY <1>2, <1>3 DEF p, q

\* What the fronts of a word are.
FrontsOf(w) ==
    /\ Front(w, 0) = 0 /\ Front(w, WordBytes) = w
    /\ \A k \in 0..WordBytes : Front(w, k) \in Nat /\ Front(w, k) <= w
    /\ \A k \in 1..WordBytes : /\ Byte(w, k) \in 0..ByteSize - 1
                               /\ Front(w, k) = Front(w, k - 1) * ByteSize + Byte(w, k)

LEMMA FrontIs == ASSUME NEW w \in Word PROVE FrontsOf(w)
<1>1. w \in Nat /\ w < WordSize /\ WordBytes \in Nat /\ ByteSize \in Nat \ {0}
      /\ WordSize = Power(WordBytes)
  BY WordAssumption, WordBytesAssumption DEF Word
<1>2. \A k \in 0..WordBytes : WordBytes - k \in Nat /\ Power(WordBytes - k) \in Nat \ {0}
  BY <1>1, PowerIs
<1>3. Front(w, 0) = 0
  <2> DEFINE d == Power(WordBytes)
  <2>1. WordBytes - 0 = WordBytes /\ d \in Nat \ {0} /\ w < d /\ d = d
    BY <1>1, PowerIs
  <2> HIDE DEF d
  <2>2. d * 0 = 0 /\ w = d * 0 + w
    BY <1>1, <2>1
  <2>3. w \div d = 0
    BY <1>1, <2>1, <2>2, QuotientIs
  <2> QED
    BY <2>1, <2>3 DEF Front, d
<1>4. Front(w, WordBytes) = w
  <2>1. WordBytes - WordBytes = 0
    BY <1>1
  <2>2. w \div 1 = w
    BY <1>1
  <2> QED
    BY <2>1, <2>2, PowerIs DEF Front
<1>5. \A k \in 0..WordBytes : Front(w, k) \in Nat /\ Front(w, k) <= w
  <2> SUFFICES ASSUME NEW k \in 0..WordBytes PROVE Front(w, k) \in Nat /\ Front(w, k) <= w
    OBVIOUS
  <2> DEFINE d == Power(WordBytes - k)
  <2>1. d \in Nat \ {0}
    BY <1>2
  <2> HIDE DEF d
  <2>2. w \div d \in Nat /\ w \div d <= w
    BY <1>1, <2>1, QuotientMonotone
  <2> QED
    BY <2>2 DEF Front, d
<1>6. ASSUME NEW k \in 1..WordBytes
      PROVE  /\ Byte(w, k) \in 0..ByteSize - 1
             /\ Front(w, k) = Front(w, k - 1) * ByteSize + Byte(w, k)
  <2> DEFINE e == WordBytes - k
             d == Power(e)
             q == Front(w, k)
             B == ByteSize
  <2>1. e \in Nat /\ WordBytes - (k - 1) = e + 1 /\ k \in 0..WordBytes
    BY <1>1
  <2>2. d \in Nat \ {0} /\ Power(e + 1) = B * d /\ B \in Nat \ {0} /\ q \in Nat
    BY <1>1, <1>5, <2>1, PowerIs
  <2>3. q = w \div d
    BY DEF Front
  <2>4. Front(w, k - 1) = w \div (d * B)
    <3>1. Front(w, k - 1) = w \div Power(e + 1)
      BY <2>1 DEF Front
    <3>2. B * d = d * B
      BY <2>2
    <3> QED
      BY <2>2, <3>1, <3>2
  <2> HIDE DEF d, e, B
  <2>5. w \div (d * B) = (w \div d) \div B
    BY <1>1, <2>2, QuotientOfQuotient
  <2>6. Front(w, k - 1) = q \div B
    BY <2>3, <2>4, <2>5
  <2>7. Byte(w, k) = q % B
    BY DEF Byte, B
  <2> HIDE DEF q
  <2>8. q % B \in 0..B - 1 /\ q = B * (q \div B) + (q % B) /\ q \div B \in Nat
    BY <2>2
  <2> DEFINE u == q \div B
             v == q % B
  <2>9. u \in Nat /\ v \in 0..B - 1 /\ q = B * u + v
    BY <2>8
  <2> HIDE DEF u, v
  <2>10. B * u = u * B
    BY <2>2, <2>9
  <2>11. q = u * B + v
    BY <2>9, <2>10
  <2> QED
    BY <2>6, <2>7, <2>9, <2>11 DEF u, v, q, B
<1> QED
  BY <1>3, <1>4, <1>5, <1>6 DEF FrontsOf

\* The bytes of an address are those of its two words.
BytesOf(x, s) ==
    /\ DOMAIN s = 1..2 * WordBytes
    /\ \A k \in 1..WordBytes : s[k] = Byte(x.hi, k) /\ s[WordBytes + k] = Byte(x.lo, k)

LEMMA AddrBytes == ASSUME NEW x PROVE BytesOf(x, addr(x))
<1>1. WordBytes \in Nat
  BY WordAssumption
<1>2. \A k \in 1..2 * WordBytes :
         addr(x)[k] = IF k <= WordBytes THEN (x.hi \div Power(WordBytes - k)) % ByteSize
                      ELSE (x.lo \div Power(2 * WordBytes - k)) % ByteSize
  BY DEF addr
<1>3. ASSUME NEW k \in 1..WordBytes
      PROVE  addr(x)[k] = Byte(x.hi, k) /\ addr(x)[WordBytes + k] = Byte(x.lo, k)
  <2>1. /\ k \in 1..2 * WordBytes /\ k <= WordBytes
        /\ WordBytes + k \in 1..2 * WordBytes /\ ~(WordBytes + k <= WordBytes)
        /\ 2 * WordBytes - (WordBytes + k) = WordBytes - k
    BY <1>1
  <2>2. addr(x)[k] = (x.hi \div Power(WordBytes - k)) % ByteSize
    BY <1>2, <2>1
  <2>3. addr(x)[WordBytes + k] = (x.lo \div Power(WordBytes - k)) % ByteSize
    BY <1>2, <2>1
  <2> QED
    BY <2>2, <2>3 DEF Byte, Front
<1>4. DOMAIN addr(x) = 1..2 * WordBytes
  BY DEF addr
<1> QED
  BY <1>3, <1>4 DEF BytesOf

\* The turns of the loop that reads the bytes s.
Turns(s, r) ==
    r = [k \in 0..WordBytes |->
           IF k = 0 THEN [hi |-> 0, lo |-> 0]
           ELSE [hi |-> (r[k - 1].hi * ByteSize + s[k]) % WordSize,
                 lo |-> (r[k - 1].lo * ByteSize + s[WordBytes + k]) % WordSize]]

(* An address is read back from its bytes (addr, addr6Of).                 *)
LEMMA ReadBack == ASSUME NEW x \in Addrs PROVE addr6Of(addr(x)) = x
<1> DEFINE s == addr(x)
           N == WordBytes
           c == [k \in 0..N |-> [hi |-> Front(x.hi, k), lo |-> Front(x.lo, k)]]
           u == CHOOSE r : Turns(s, r)
<1>1. x.hi \in Word /\ x.lo \in Word /\ x = [hi |-> x.hi, lo |-> x.lo] /\ N \in Nat
  BY WordAssumption DEF Addrs
<1>2. FrontsOf(x.hi) /\ FrontsOf(x.lo)
  BY <1>1, FrontIs
<1>3. BytesOf(x, s)
  BY AddrBytes
<1>4. addr6Of(s) = u[N]
  BY DEF addr6Of, Turns
<1> HIDE DEF s, u
<1>5. ASSUME NEW w \in Word, FrontsOf(w), NEW k \in 1..N
      PROVE  (Front(w, k - 1) * ByteSize + Byte(w, k)) % WordSize = Front(w, k)
  <2> DEFINE y == Front(w, k - 1) * ByteSize + Byte(w, k)
  <2>1. y = Front(w, k)
    BY <1>5 DEF FrontsOf
  <2>2. Front(w, k) \in Nat /\ Front(w, k) <= w /\ w < WordSize /\ WordSize \in Nat \ {0} /\ w \in Nat
    <3>1. k \in 0..N
      BY <1>1
    <3> QED
      BY <1>5, <3>1, WordAssumption DEF FrontsOf, Word
  <2> HIDE DEF y
  <2>3. y \in 0..WordSize - 1
    BY <2>1, <2>2
  <2>4. y % WordSize = y
    BY <2>2, <2>3
  <2> QED
    BY <2>1, <2>4 DEF y
<1>6. c = [k \in 0..N |-> c[k]] /\ \A k \in 0..N : c[k] = [hi |-> Front(x.hi, k), lo |-> Front(x.lo, k)]
  OBVIOUS
<1> HIDE DEF c
<1>7. c[0] = [hi |-> 0, lo |-> 0] /\ c[N] = x
  <2>1. 0 \in 0..N /\ N \in 0..N
    BY <1>1
  <2> QED
    BY <1>1, <1>2, <1>6, <2>1 DEF FrontsOf
<1>8. ASSUME NEW k \in 1..N
      PROVE  c[k] = [hi |-> (c[k - 1].hi * ByteSize + s[k]) % WordSize,
                     lo |-> (c[k - 1].lo * ByteSize + s[N + k]) % WordSize]
  <2>1. k \in 0..N /\ k - 1 \in 0..N
    BY <1>1
  <2>2. c[k - 1].hi = Front(x.hi, k - 1) /\ c[k - 1].lo = Front(x.lo, k - 1)
    BY <1>6, <2>1
  <2>3. s[k] = Byte(x.hi, k) /\ s[N + k] = Byte(x.lo, k)
    BY <1>3 DEF BytesOf
  <2>4. /\ (Front(x.hi, k - 1) * ByteSize + Byte(x.hi, k)) % WordSize = Front(x.hi, k)
        /\ (Front(x.lo, k - 1) * ByteSize + Byte(x.lo, k)) % WordSize = Front(x.lo, k)
    BY <1>1, <1>2, <1>5
  <2>5. c[k] = [hi |-> Front(x.hi, k), lo |-> Front(x.lo, k)]
    BY <1>6, <2>1
  <2> QED
    BY <2>2, <2>3, <2>4, <2>5
<1>9. Turns(s, c)
  <2>1. \A k \in 0..N : k # 0 => k \in 1..N
    BY <1>1
  <2> QED
    BY <1>6, <1>7, <1>8, <2>1 DEF Turns
<1>10. Turns(s, u)
  BY <1>9 DEF u
<1>11. u[0] = [hi |-> 0, lo |-> 0] /\ \A k \in 1..N :
          u[k] = [hi |-> (u[k - 1].hi * ByteSize + s[k]) % WordSize,
                  lo |-> (u[k - 1].lo * ByteSize + s[N + k]) % WordSize]
  <2>1. 0 \in 0..N /\ \A k \in 1..N : k \in 0..N /\ k # 0
    BY <1>1
  <2> QED
    BY <1>10, <2>1 DEF Turns
<1>12. \A k \in 0..N : u[k] = c[k]
  <2> DEFINE T == {k \in 0..N : u[k] # c[k]}
  <2>1. SUFFICES ASSUME T # {} PROVE FALSE
    OBVIOUS
  <2>2. T \in SUBSET Nat
    BY <1>1
  <2>3. PICK d \in T : \A j \in T : d <= j
    BY <2>1, <2>2, LeastNat
  <2>4. d # 0
    BY <1>7, <1>11, <2>3
  <2>5. d \in 1..N /\ d - 1 \in 0..N /\ ~(d <= d - 1)
    BY <1>1, <2>3, <2>4
  <2>6. u[d - 1] = c[d - 1]
    BY <2>3, <2>5
  <2>7. u[d] = c[d]
    BY <1>8, <1>11, <2>5, <2>6
  <2> QED
    BY <2>3, <2>7
<1>13. u[N] = x
  BY <1>1, <1>7, <1>12
<1> QED
  BY <1>4, <1>13 DEF s

\* The bytes of w come before those of z.
BytesBefore(w, z) == \E k \in 1..WordBytes : /\ Byte(w, k) < Byte(z, k)
                                             /\ \A j \in 1..k - 1 : Byte(w, j) = Byte(z, j)

LEMMA WordOrder == ASSUME NEW w \in Word, NEW z \in Word, w < z PROVE BytesBefore(w, z)
<1>1. FrontsOf(w) /\ FrontsOf(z) /\ w \in Nat /\ z \in Nat /\ WordBytes \in Nat
      /\ ByteSize \in Nat \ {0}
  BY FrontIs, WordAssumption DEF Word
<1> DEFINE T == {k \in 0..WordBytes : Front(w, k) # Front(z, k)}
<1>2. T \in SUBSET Nat /\ WordBytes \in T
  BY <1>1 DEF FrontsOf
<1>3. PICK k \in T : \A j \in T : k <= j
  BY <1>2, LeastNat
<1>4. k # 0
  BY <1>1, <1>3 DEF FrontsOf
<1>5. k \in 1..WordBytes /\ k - 1 \in 0..WordBytes /\ ~(k <= k - 1) /\ k \in 0..WordBytes
  BY <1>1, <1>3, <1>4
<1>6. Front(w, k - 1) = Front(z, k - 1)
  BY <1>3, <1>5
<1>7. ASSUME NEW j \in 1..k - 1 PROVE Byte(w, j) = Byte(z, j)
  <2>1. j \in 0..WordBytes /\ ~(k <= j)
    <3>1. WordBytes \in Nat /\ k \in 1..WordBytes
      BY <1>1, <1>5
    <3> QED
      BY ONLY <3>1, j \in 1..k - 1
  <2>2. Front(w, j) = Front(z, j)
    BY <1>3, <2>1
  <2> QED
    BY <2>2 DEF Byte
<1>8. Front(w, k) <= Front(z, k) /\ Front(w, k) # Front(z, k)
  <2> DEFINE d == Power(WordBytes - k)
  <2>1. d \in Nat \ {0}
    <3>1. WordBytes - k \in Nat
      BY <1>1, <1>5
    <3> QED
      BY <3>1, PowerIs
  <2> HIDE DEF d
  <2>2. w \div d <= z \div d
    BY <1>1, <2>1, QuotientMonotone
  <2> QED
    BY <1>3, <2>2 DEF Front, d
<1> DEFINE f == Front(w, k - 1) * ByteSize
           x == Byte(w, k)
           y == Byte(z, k)
<1>9. Front(w, k) = f + x /\ Front(z, k) = f + y /\ x \in Nat /\ y \in Nat
  <2>1. /\ Front(w, k) = Front(w, k - 1) * ByteSize + x
        /\ Front(z, k) = Front(z, k - 1) * ByteSize + y
        /\ x \in 0..ByteSize - 1 /\ y \in 0..ByteSize - 1
    BY <1>1, <1>5 DEF FrontsOf
  <2> QED
    BY <1>1, <1>6, <2>1
<1>10. f \in Nat
  <2>1. Front(w, k - 1) \in Nat
    BY <1>1, <1>5 DEF FrontsOf
  <2> QED
    BY <1>1, <2>1
<1> HIDE DEF f, x, y
<1>11. x < y
  BY <1>8, <1>9, <1>10
<1> QED
  BY <1>5, <1>7, <1>11 DEF BytesBefore, x, y

\* The bytes of addresses order as their words.
LEMMA AddrOrder ==
    ASSUME NEW x \in Addrs, NEW z \in Addrs, less(x, z)
    PROVE  Bytewise(addr(x), addr(z))
<1> DEFINE s == addr(x)
           t == addr(z)
           N == WordBytes
<1>1. BytesOf(x, s) /\ BytesOf(z, t) /\ N \in Nat
  BY AddrBytes, WordAssumption
<1>2. x.hi \in Word /\ x.lo \in Word /\ z.hi \in Word /\ z.lo \in Word
  BY DEF Addrs
<1> HIDE DEF s, t
<1>3. CASE x.hi < z.hi
  <2>1. PICK k \in 1..N : /\ Byte(x.hi, k) < Byte(z.hi, k)
                          /\ \A j \in 1..k - 1 : Byte(x.hi, j) = Byte(z.hi, j)
    BY <1>2, <1>3, WordOrder DEF BytesBefore
  <2>2. k \in DOMAIN s /\ \A j \in 1..k - 1 : j \in 1..N
    BY <1>1 DEF BytesOf
  <2>3. s[k] < t[k] /\ \A j \in 1..k - 1 : s[j] = t[j]
    BY <1>1, <2>1, <2>2 DEF BytesOf
  <2> QED
    BY <2>2, <2>3 DEF Bytewise, s, t
<1>4. CASE x.hi = z.hi /\ x.lo < z.lo
  <2>1. PICK k \in 1..N : /\ Byte(x.lo, k) < Byte(z.lo, k)
                          /\ \A j \in 1..k - 1 : Byte(x.lo, j) = Byte(z.lo, j)
    BY <1>2, <1>4, WordOrder DEF BytesBefore
  <2>2. N + k \in DOMAIN s
    BY <1>1 DEF BytesOf
  <2>3. s[N + k] < t[N + k]
    BY <1>1, <2>1 DEF BytesOf
  <2>4. ASSUME NEW j \in 1..(N + k) - 1 PROVE s[j] = t[j]
    <3>1. j \in 1..N \/ (j - N \in 1..k - 1 /\ j - N \in 1..N /\ N + (j - N) = j)
      BY <1>1
    <3>2. CASE j \in 1..N
      BY <1>1, <1>4, <3>2 DEF BytesOf
    <3>3. CASE j - N \in 1..k - 1 /\ j - N \in 1..N /\ N + (j - N) = j
      <4>1. s[N + (j - N)] = Byte(x.lo, j - N) /\ t[N + (j - N)] = Byte(z.lo, j - N)
        BY <1>1, <3>3 DEF BytesOf
      <4>2. Byte(x.lo, j - N) = Byte(z.lo, j - N)
        BY <2>1, <3>3
      <4> QED
        BY <3>3, <4>1, <4>2
    <3> QED
      BY <3>1, <3>2, <3>3
  <2> QED
    BY <2>2, <2>3, <2>4 DEF Bytewise, s, t
<1> QED
  BY <1>3, <1>4 DEF less

\* No two texts of bytes are each before the other.
LEMMA BytewiseOneWay ==
    ASSUME NEW m \in Nat, NEW s, NEW t, DOMAIN s = 1..m, DOMAIN t = 1..m,
           \A k \in 1..m : s[k] \in Nat /\ t[k] \in Nat,
           Bytewise(s, t)
    PROVE  s # t /\ ~Bytewise(t, s)
<1>1. PICK k \in 1..m : s[k] < t[k] /\ \A j \in 1..k - 1 : s[j] = t[j]
  BY DEF Bytewise
<1>2. s # t
  BY <1>1
<1>3. ASSUME NEW l \in 1..m, t[l] < s[l], \A j \in 1..l - 1 : t[j] = s[j] PROVE FALSE
  <2>1. k \in 1..l - 1 \/ k = l \/ l \in 1..k - 1
    OBVIOUS
  <2> QED
    BY <1>1, <1>3, <2>1
<1> QED
  BY <1>2, <1>3 DEF Bytewise

(* The conversions keep every address apart from every other, and their    *)
(* order, whatever the size of a byte and of a word (addr, addr6Of, less). *)
THEOREM SameBytes == Walk => []BytesAgree
<1>1. Home => BytesAgree
  <2> SUFFICES ASSUME a \in Addrs
               PROVE  /\ addr6Of(addr(a)) = a
                      /\ \A z \in Addrs : less(a, z) <=> Bytewise(addr(a), addr(z))
    BY DEF Home, BytesAgree
  <2>1. addr6Of(addr(a)) = a
    BY ReadBack
  <2>2. ASSUME NEW z \in Addrs PROVE less(a, z) <=> Bytewise(addr(a), addr(z))
    <3>1. less(a, z) => Bytewise(addr(a), addr(z))
      BY <2>2, AddrOrder
    <3>2. less(a, z) \/ less(z, a) \/ a = z
      <4>1. a.hi \in Nat /\ a.lo \in Nat /\ z.hi \in Nat /\ z.lo \in Nat
            /\ a = [hi |-> a.hi, lo |-> a.lo] /\ z = [hi |-> z.hi, lo |-> z.lo]
        BY DEF Addrs, Word
      <4> QED
        BY <4>1 DEF less
    <3>3. ASSUME Bytewise(addr(a), addr(z)) PROVE addr(a) # addr(z) /\ ~Bytewise(addr(z), addr(a))
      <4> DEFINE m == 2 * WordBytes
                 s == addr(a)
                 t == addr(z)
      <4>1. m \in Nat /\ DOMAIN s = 1..m /\ DOMAIN t = 1..m
        BY AddrBytes, WordAssumption DEF BytesOf
      <4>2. \A k \in 1..m : s[k] \in Nat /\ t[k] \in Nat
        <5>1. \A x \in Addrs : \A k \in 1..WordBytes : Byte(x.hi, k) \in Nat /\ Byte(x.lo, k) \in Nat
          <6> SUFFICES ASSUME NEW x \in Addrs, NEW k \in 1..WordBytes
                       PROVE  Byte(x.hi, k) \in Nat /\ Byte(x.lo, k) \in Nat
            OBVIOUS
          <6>1. FrontsOf(x.hi) /\ FrontsOf(x.lo)
            BY FrontIs DEF Addrs
          <6> QED
            BY <6>1 DEF FrontsOf
        <5>2. \A k \in 1..m : k \in 1..WordBytes
                 \/ (k - WordBytes \in 1..WordBytes /\ WordBytes + (k - WordBytes) = k)
          BY WordAssumption
        <5>3. BytesOf(a, s) /\ BytesOf(z, t)
          BY AddrBytes
        <5> HIDE DEF s, t, m
        <5> SUFFICES ASSUME NEW k \in 1..m PROVE s[k] \in Nat /\ t[k] \in Nat
          OBVIOUS
        <5>4. CASE k \in 1..WordBytes
          BY <5>1, <5>3, <5>4 DEF BytesOf
        <5>5. CASE k - WordBytes \in 1..WordBytes /\ WordBytes + (k - WordBytes) = k
          <6> DEFINE l == k - WordBytes
          <6>1. l \in 1..WordBytes /\ WordBytes + l = k
            BY <5>5
          <6> HIDE DEF l
          <6>2. s[WordBytes + l] \in Nat /\ t[WordBytes + l] \in Nat
            BY <5>1, <5>3, <6>1 DEF BytesOf
          <6> QED
            BY <6>1, <6>2
        <5> QED
          BY <5>2, <5>4, <5>5
      <4>3. Bytewise(s, t)
        BY <3>3
      <4> HIDE DEF s, t, m
      <4>4. s # t /\ ~Bytewise(t, s)
        BY <4>1, <4>2, <4>3, BytewiseOneWay
      <4> QED
        BY <4>4 DEF s, t
    <3>4. less(z, a) => Bytewise(addr(z), addr(a))
      BY <2>2, AddrOrder
    <3> QED
      BY <3>1, <3>2, <3>3, <3>4
  <2> QED
    BY <2>1, <2>2
<1> QED
  BY <1>1, WalkStays, PTL

-----------------------------------------------------------------------------
(* Texts, runs of characters, and the numbers that digits spell.           *)

Text == Seq(Alphabet)

\* A run of characters of `chars' goes from p to q and no further.
RunTo(s, p, chars, q) == /\ q \in p..Len(s) /\ \A k \in p + 1..q : s[k] \in chars
                         /\ q < Len(s) => s[q + 1] \notin chars

LEMMA RunHas ==
    ASSUME NEW s \in Text, NEW p \in 0..Len(s), NEW chars
    PROVE  RunTo(s, p, chars, RunEnd(s, p, chars))
<1> DEFINE T == {q \in p..Len(s) : q < Len(s) => s[q + 1] \notin chars}
<1>1. Len(s) \in Nat
  BY LenProperties DEF Text
<1>2. T \in SUBSET Nat /\ Len(s) \in T
  BY <1>1
<1>3. PICK q \in T : \A k \in T : q <= k
  BY <1>2, LeastNat
<1>4. ASSUME NEW k \in p + 1..q PROVE s[k] \in chars
  <2>1. k - 1 \in p..Len(s) /\ k - 1 < Len(s) /\ (k - 1) + 1 = k /\ ~(q <= k - 1)
    BY <1>1, <1>3
  <2>2. k - 1 \notin T
    BY <1>3, <2>1
  <2> QED
    BY <2>1, <2>2
<1>5. RunTo(s, p, chars, q)
  BY <1>3, <1>4 DEF RunTo
<1> QED
  BY <1>5 DEF RunEnd, RunTo

LEMMA RunIs ==
    ASSUME NEW s \in Text, NEW p \in 0..Len(s), NEW chars, NEW q, RunTo(s, p, chars, q)
    PROVE  RunEnd(s, p, chars) = q
<1> DEFINE z == RunEnd(s, p, chars)
<1>1. Len(s) \in Nat
  BY LenProperties DEF Text
<1>2. RunTo(s, p, chars, z)
  BY RunHas
<1> HIDE DEF z
<1>3. z \in Nat /\ q \in Nat /\ p \in Nat
  BY <1>1, <1>2 DEF RunTo
<1>4. ASSUME z < q PROVE FALSE
  <2>1. z + 1 \in p + 1..q /\ z < Len(s)
    BY <1>1, <1>2, <1>3, <1>4 DEF RunTo
  <2> QED
    BY <1>2, <2>1 DEF RunTo
<1>5. ASSUME q < z PROVE FALSE
  <2>1. q + 1 \in p + 1..z /\ q < Len(s)
    BY <1>1, <1>2, <1>3, <1>5 DEF RunTo
  <2> QED
    BY <1>2, <2>1 DEF RunTo
<1>6. z = q
  BY <1>3, <1>4, <1>5
<1> QED
  BY <1>6 DEF z

\* f runs through L steps, each of them a function on S.
Steppers(L, S, step)   == step \in [1..L -> [S -> S]]
Runs(f, L, S, base, step) == /\ f \in [0..L -> S] /\ f[0] = base
                             /\ \A k \in 1..L : f[k] = step[k][f[k - 1]]

\* What a recursive function needs to exist.
LEMMA Recursion ==
    ASSUME NEW L, L \in Nat, NEW S, NEW base, base \in S, NEW step, Steppers(L, S, step)
    PROVE  \E f : Runs(f, L, S, base, step)
<1>0. step \in [1..L -> [S -> S]]
  BY DEF Steppers
<1> DEFINE Steps(m, f) == /\ f \in [0..m -> S] /\ f[0] = base
                          /\ \A k \in 1..m : f[k] = step[k][f[k - 1]]
           T == {m \in 0..L : ~\E f : Steps(m, f)}
<1>1. SUFFICES ASSUME T # {} PROVE FALSE
  <2>1. L \notin T
    BY <1>1
  <2>2. PICK f : Steps(L, f)
    BY <2>1
  <2> QED
    BY <2>2 DEF Runs
<1>2. PICK d \in T : \A m \in T : d <= m
  <2>1. T \in SUBSET Nat
    OBVIOUS
  <2> HIDE DEF T
  <2> QED
    BY <1>1, <2>1, LeastNat
<1>3. d # 0
  <2> DEFINE f == [m \in 0..0 |-> base]
  <2>1. Steps(0, f)
    OBVIOUS
  <2> QED
    BY <2>1
<1>4. d \in 1..L /\ d - 1 \in 0..L /\ ~(d <= d - 1)
  BY <1>2, <1>3
<1>5. d - 1 \notin T
  BY <1>2, <1>4
<1>6. PICK f : Steps(d - 1, f)
  BY <1>4, <1>5
<1> DEFINE g == [m \in 0..d |-> IF m = d THEN step[d][f[d - 1]] ELSE f[m]]
<1>7. \A m \in 0..d - 1 : g[m] = f[m] /\ f[m] \in S
  BY <1>4, <1>6
<1>8. g[d] = step[d][f[d - 1]] /\ d - 1 \in 0..d - 1 /\ 0 \in 0..d - 1
  BY <1>4
<1>9. g[d] \in S
  <2>1. step[d] \in [S -> S] /\ f[d - 1] \in S
    BY <1>0, <1>4, <1>7, <1>8
  <2> QED
    BY <1>8, <2>1
<1>10. \A m \in 0..d : m # d => m \in 0..d - 1
  BY <1>4
<1>11. g \in [0..d -> S]
  <2>1. g = [m \in 0..d |-> g[m]]
    OBVIOUS
  <2> HIDE DEF g
  <2>2. \A m \in 0..d : g[m] \in S
    BY <1>7, <1>9, <1>10
  <2> QED
    BY <2>1, <2>2
<1>12. g[0] = base
  BY <1>6, <1>7, <1>8
<1>13. ASSUME NEW k \in 1..d PROVE g[k] = step[k][g[k - 1]]
  <2>1. k - 1 \in 0..d - 1 /\ (k # d => k \in 0..d - 1 /\ k \in 1..d - 1)
    BY <1>4
  <2>2. g[k - 1] = f[k - 1]
    BY <1>7, <2>1
  <2> HIDE DEF g
  <2>3. CASE k = d
    BY <1>8, <2>2, <2>3
  <2>4. CASE k # d
    BY <1>6, <1>7, <2>1, <2>2, <2>4
  <2> QED
    BY <2>3, <2>4
<1> HIDE DEF g
<1>14. Steps(d, g)
  BY <1>11, <1>12, <1>13
<1> QED
  BY <1>2, <1>14

\* The numbers that the first digits of ds spell.
Value(ds, radix, v) == /\ v[0] = 0
                       /\ \A k \in 1..Len(ds) : v[k] = v[k - 1] * radix + ds[k]

LEMMA ValueAgrees ==
    ASSUME NEW ds \in Seq(Nat), NEW radix, NEW v, Value(ds, radix, v), NEW w, Value(ds, radix, w)
    PROVE  \A k \in 0..Len(ds) : v[k] = w[k]
<1> DEFINE T == {k \in 0..Len(ds) : v[k] # w[k]}
<1>1. SUFFICES ASSUME T # {} PROVE FALSE
  OBVIOUS
<1>2. T \in SUBSET Nat
  OBVIOUS
<1>3. PICK d \in T : \A k \in T : d <= k
  BY <1>1, <1>2, LeastNat
<1>4. d # 0
  BY <1>3 DEF Value
<1>5. Len(ds) \in Nat
  BY LenProperties
<1>6. d \in 1..Len(ds) /\ d - 1 \in 0..Len(ds) /\ ~(d <= d - 1)
  BY <1>3, <1>4, <1>5
<1>7. v[d - 1] = w[d - 1]
  BY <1>3, <1>6
<1> QED
  BY <1>3, <1>6, <1>7 DEF Value

LEMMA PositionalIs ==
    ASSUME NEW ds \in Seq(Nat), NEW radix \in Nat
    PROVE  \E v \in [0..Len(ds) -> Nat] : /\ Value(ds, radix, v)
                                          /\ Positional(ds, radix) = v[Len(ds)]
<1> DEFINE L == Len(ds)
           step == [k \in 1..L |-> [x \in Nat |-> x * radix + ds[k]]]
           Eq(u) == u = [k \in 0..L |-> IF k = 0 THEN 0 ELSE u[k - 1] * radix + ds[k]]
           c == CHOOSE u : Eq(u)
<1>1. L \in Nat /\ \A k \in 1..L : ds[k] \in Nat
  BY LenProperties, ElementOfSeq
<1>2. \A k \in 1..L : \A x \in Nat : x * radix + ds[k] \in Nat
  BY <1>1
<1>3. step \in [1..L -> [Nat -> Nat]] /\ \A k \in 1..L : \A x \in Nat : step[k][x] = x * radix + ds[k]
  BY <1>2
<1>4. Positional(ds, radix) = c[L]
  BY Zenon DEF Positional
<1> HIDE DEF step, c, L
<1>5. PICK f \in [0..L -> Nat] : f[0] = 0 /\ \A k \in 1..L : f[k] = step[k][f[k - 1]]
  <2>1. 0 \in Nat /\ L \in Nat /\ Steppers(L, Nat, step)
    BY <1>1, <1>3 DEF Steppers
  <2>2. \E f : Runs(f, L, Nat, 0, step)
    BY <2>1, Recursion
  <2> QED
    BY <2>2 DEF Runs
<1>6. ASSUME NEW k \in 1..L PROVE k \in 0..L /\ k - 1 \in 0..L /\ k # 0
  BY <1>1
<1>7. \A k \in 1..L : f[k] = f[k - 1] * radix + ds[k]
  BY <1>3, <1>5, <1>6
<1>8. \A k \in 0..L : k # 0 => k \in 1..L
  BY <1>1
<1>9. f = [k \in 0..L |-> f[k]]
  BY <1>5
<1>10. \A k \in 0..L : f[k] = IF k = 0 THEN 0 ELSE f[k - 1] * radix + ds[k]
  BY <1>5, <1>7, <1>8
<1>11. Eq(f)
  BY <1>9, <1>10
<1>12. Eq(c)
  BY <1>11 DEF c
<1>13. Value(ds, radix, c)
  <2>1. 0 \in 0..L
    BY <1>1
  <2> QED
    BY <1>6, <1>12, <2>1 DEF Value, L
<1>14. Value(ds, radix, f)
  BY <1>5, <1>7 DEF Value, L
<1>15. c[L] = f[L]
  <2>1. L \in 0..L
    BY <1>1
  <2> QED
    BY <1>13, <1>14, <2>1, ValueAgrees DEF L
<1> QED
  BY <1>4, <1>5, <1>14, <1>15 DEF L

LEMMA PositionalEquals ==
    ASSUME NEW ds \in Seq(Nat), NEW radix \in Nat, NEW v, Value(ds, radix, v)
    PROVE  Positional(ds, radix) = v[Len(ds)] /\ Positional(ds, radix) \in Nat
<1>1. PICK w \in [0..Len(ds) -> Nat] : Value(ds, radix, w) /\ Positional(ds, radix) = w[Len(ds)]
  BY PositionalIs
<1>2. Len(ds) \in 0..Len(ds)
  BY LenProperties
<1>3. v[Len(ds)] = w[Len(ds)]
  BY <1>1, <1>2, ValueAgrees
<1> QED
  BY <1>1, <1>2, <1>3

LEMMA NumberIsNat ==
    ASSUME NEW s \in Seq(isHex), NEW radix \in Nat PROVE Number(s, radix) \in Nat
<1> DEFINE ds == [k \in 1..Len(s) |-> HexVal[s[k]]]
<1>1. Len(s) \in Nat /\ \A k \in 1..Len(s) : s[k] \in isHex
  BY LenProperties, ElementOfSeq
<1>2. \A k \in 1..Len(s) : HexVal[s[k]] \in Nat
  <2>1. HexVal \in [DOMAIN HexVal -> 0..HexRadix - 1] /\ HexRadix \in Nat
    BY ParseAssumption
  <2>2. \A x \in DOMAIN HexVal : HexVal[x] \in 0..HexRadix - 1
    BY <2>1
  <2> QED
    BY <1>1, <2>1, <2>2 DEF isHex
<1>3. ds \in [1..Len(s) -> Nat]
  BY <1>2
<1>4. ds \in Seq(Nat)
  BY <1>1, <1>3, SeqDef
<1> HIDE DEF ds
<1>5. Positional(ds, radix) \in Nat
  <2>1. PICK w \in [0..Len(ds) -> Nat] : Value(ds, radix, w) /\ Positional(ds, radix) = w[Len(ds)]
    BY <1>4, PositionalIs
  <2> QED
    BY <1>4, <2>1, PositionalEquals
<1> QED
  BY <1>5 DEF Number, ds

-----------------------------------------------------------------------------
(* Texts put together.                                                     *)

LEMMA CharsOf ==
    /\ isDigit \subseteq isHex /\ isHex \subseteq Alphabet
    /\ ":" \in Alphabet /\ "." \in Alphabet
    /\ ":" \notin isHex /\ "." \notin isHex /\ "" \notin isHex
    /\ Seq(isDigit) \subseteq Seq(isHex) /\ Seq(isHex) \subseteq Text /\ <<>> \in Text
    /\ <<":">> \in Text /\ <<".">> \in Text
<1>1. /\ isDigit \subseteq isHex /\ isHex \subseteq Alphabet
      /\ ":" \in Alphabet /\ "." \in Alphabet
      /\ ":" \notin isHex /\ "." \notin isHex /\ "" \notin isHex
  BY TextAssumption DEF isDigit, isHex
<1>2. Seq(isDigit) \subseteq Seq(isHex)
  BY <1>1, SeqMonotonic
<1>3. Seq(isHex) \subseteq Text
  BY <1>1, SeqMonotonic DEF Text
<1>4. <<>> \in Text /\ <<":">> \in Text /\ <<".">> \in Text
  <2>1. \A c \in Alphabet : <<c>> \in Text
    BY DEF Text
  <2> QED
    BY <1>1, <2>1, EmptySeq DEF Text
<1> QED
  BY <1>1, <1>2, <1>3, <1>4

LEMMA TextsAre ==
    ASSUME NEW C, NEW max \in Nat, NEW t
    PROVE  t \in TextsOver(C, max) <=> t \in Seq(C) /\ Len(t) \in 1..max
<1>1. ASSUME t \in TextsOver(C, max) PROVE t \in Seq(C) /\ Len(t) \in 1..max
  <2>1. PICK k \in 1..max : t \in [1..k -> C]
    BY <1>1 DEF TextsOver
  <2>2. k \in Nat /\ t \in Seq(C)
    BY <2>1, SeqDef
  <2>3. Len(t) = k
    BY <2>1, <2>2, LenProperties
  <2> QED
    BY <2>1, <2>2, <2>3
<1>2. ASSUME t \in Seq(C), Len(t) \in 1..max PROVE t \in TextsOver(C, max)
  <2>1. t \in [1..Len(t) -> C]
    BY <1>2, LenProperties
  <2> QED
    BY <1>2, <2>1 DEF TextsOver
<1> QED
  BY <1>1, <1>2

LEMMA OctetIs ==
    ASSUME NEW t
    PROVE  t \in OctetTexts <=> t \in Seq(isDigit) /\ octet(t)
<1>1. OctetDigits \in Nat
  BY ParseAssumption
<1>2. t \in TextsOver(isDigit, OctetDigits) <=> t \in Seq(isDigit) /\ Len(t) \in 1..OctetDigits
  BY <1>1, TextsAre
<1>3. \A m \in 1..OctetDigits : m > 1 <=> m # 1
  BY <1>1
<1>4. t \in OctetTexts <=> /\ t \in Seq(isDigit) /\ Len(t) \in 1..OctetDigits
                           /\ Number(t, Radix) <= OctetTop /\ (t[1] = "0" => Len(t) = 1)
  BY <1>2 DEF OctetTexts
<1> QED
  BY <1>3, <1>4 DEF octet

LEMMA GroupIs ==
    ASSUME NEW t
    PROVE  t \in GroupTexts <=> t \in Seq(isHex) /\ Len(t) \in 1..GroupDigits
<1>1. GroupDigits \in Nat
  BY ParseAssumption
<1> QED
  BY <1>1, TextsAre DEF GroupTexts

\* The texts joined from the first of ts.
Joins(c, ts, j) == /\ j[0] = <<>>
                   /\ \A k \in 1..Len(ts) :
                         j[k] = IF k = 1 THEN ts[1] ELSE j[k - 1] \o <<c>> \o ts[k]

LEMMA JoinsAgree ==
    ASSUME NEW ts \in Seq(Text), NEW c, NEW j, Joins(c, ts, j), NEW l, Joins(c, ts, l)
    PROVE  \A k \in 0..Len(ts) : j[k] = l[k]
<1> DEFINE T == {k \in 0..Len(ts) : j[k] # l[k]}
<1>1. SUFFICES ASSUME T # {} PROVE FALSE
  OBVIOUS
<1>2. T \in SUBSET Nat
  OBVIOUS
<1>3. PICK d \in T : \A k \in T : d <= k
  BY <1>1, <1>2, LeastNat
<1>4. d # 0
  BY <1>3 DEF Joins
<1>5. Len(ts) \in Nat
  BY LenProperties
<1>6. d \in 1..Len(ts) /\ d - 1 \in 0..Len(ts) /\ ~(d <= d - 1)
  BY <1>3, <1>4, <1>5
<1>7. j[d - 1] = l[d - 1]
  BY <1>3, <1>6
<1>8. j[d] = l[d]
  BY <1>6, <1>7 DEF Joins
<1> QED
  BY <1>3, <1>8

\* j has the texts that Joined builds on the way.
Joining(c, ts, j) == /\ j \in [0..Len(ts) -> Text] /\ Joins(c, ts, j)
                     /\ Joined(c, ts) = j[Len(ts)]

LEMMA JoinedIs ==
    ASSUME NEW c \in Alphabet, NEW ts \in Seq(Text)
    PROVE  \E j : Joining(c, ts, j)
<1> DEFINE L == Len(ts)
           step == [k \in 1..L |-> [x \in Text |-> IF k = 1 THEN ts[1] ELSE x \o <<c>> \o ts[k]]]
           Eq(u) == u = [k \in 0..L |-> IF k = 0 THEN <<>>
                                        ELSE IF k = 1 THEN ts[1] ELSE u[k - 1] \o <<c>> \o ts[k]]
           d == CHOOSE u : Eq(u)
<1>1. L \in Nat /\ \A k \in 1..L : ts[k] \in Text
  BY LenProperties, ElementOfSeq
<1>2. ASSUME NEW k \in 1..L, NEW x \in Text
      PROVE  (IF k = 1 THEN ts[1] ELSE x \o <<c>> \o ts[k]) \in Text
  <2>1. <<c>> \in Text
    BY DEF Text
  <2>2. x \o <<c>> \in Text
    BY <2>1, ConcatProperties DEF Text
  <2>3. x \o <<c>> \o ts[k] \in Text
    BY <1>1, <2>2, ConcatProperties DEF Text
  <2> QED
    BY <1>1, <2>3
<1>3. /\ step \in [1..L -> [Text -> Text]]
      /\ \A k \in 1..L : \A x \in Text : step[k][x] = IF k = 1 THEN ts[1] ELSE x \o <<c>> \o ts[k]
  BY <1>2
<1>4. Joined(c, ts) = d[L]
  BY Zenon DEF Joined
<1> HIDE DEF step, d, L
<1>5. PICK f \in [0..L -> Text] : f[0] = <<>> /\ \A k \in 1..L : f[k] = step[k][f[k - 1]]
  <2>1. <<>> \in Text /\ L \in Nat /\ Steppers(L, Text, step)
    BY <1>1, <1>3, CharsOf DEF Steppers
  <2>2. \E f : Runs(f, L, Text, <<>>, step)
    BY <2>1, Recursion
  <2> QED
    BY <2>2 DEF Runs
<1>6. ASSUME NEW k \in 1..L PROVE k \in 0..L /\ k - 1 \in 0..L /\ k # 0
  BY <1>1
<1>7. \A k \in 1..L : f[k] = IF k = 1 THEN ts[1] ELSE f[k - 1] \o <<c>> \o ts[k]
  BY <1>3, <1>5, <1>6
<1>8. \A k \in 0..L : k # 0 => k \in 1..L
  BY <1>1
<1>9. f = [k \in 0..L |-> f[k]]
  BY <1>5
<1>10. \A k \in 0..L : f[k] = IF k = 0 THEN <<>>
                              ELSE IF k = 1 THEN ts[1] ELSE f[k - 1] \o <<c>> \o ts[k]
  BY <1>5, <1>7, <1>8
<1>11. Eq(f)
  BY <1>9, <1>10
<1>12. Eq(d)
  BY <1>11 DEF d
<1>13. Joins(c, ts, d)
  <2>1. 0 \in 0..L
    BY <1>1
  <2> QED
    BY <1>6, <1>12, <2>1 DEF Joins, L
<1>14. Joins(c, ts, f)
  BY <1>5, <1>7 DEF Joins, L
<1>15. d[L] = f[L]
  <2>1. L \in 0..L
    BY <1>1
  <2> QED
    BY <1>13, <1>14, <2>1, JoinsAgree DEF L
<1> QED
  BY <1>4, <1>5, <1>14, <1>15 DEF Joining, L

\* What a run in the middle of a text is read as.
Scanned(s, pre, run, chars) ==
    /\ s \in Text /\ Len(s) \in Nat /\ Len(pre) \in 0..Len(s) /\ Len(run) \in Nat
    /\ RunEnd(s, Len(pre), chars) = Len(pre) + Len(run)
    /\ Len(pre \o run) = Len(pre) + Len(run)
    /\ SubSeq(s, Len(pre) + 1, Len(pre) + Len(run)) = run

LEMMA Scan ==
    ASSUME NEW pre \in Text, NEW run \in Text, NEW rest \in Text, NEW chars,
           \A k \in 1..Len(run) : run[k] \in chars, rest = <<>> \/ rest[1] \notin chars
    PROVE  Scanned((pre \o run) \o rest, pre, run, chars)
<1> DEFINE s == (pre \o run) \o rest
           p == Len(pre)
           l == Len(run)
<1>1. pre \o run \in Text /\ Len(pre \o run) = p + l
      /\ \A k \in 1..p + l : (pre \o run)[k] = IF k <= p THEN pre[k] ELSE run[k - p]
  BY ConcatProperties DEF Text
<1>2. p \in Nat /\ l \in Nat /\ Len(rest) \in Nat
  BY LenProperties DEF Text
<1>3. s \in Text /\ Len(s) = p + l + Len(rest)
      /\ \A k \in 1..p + l + Len(rest) :
            s[k] = IF k <= p + l THEN (pre \o run)[k] ELSE rest[k - (p + l)]
  BY <1>1, ConcatProperties DEF Text
<1> HIDE DEF s
<1>4. \A k \in 1..l : s[p + k] = run[k]
  <2> SUFFICES ASSUME NEW k \in 1..l PROVE s[p + k] = run[k]
    OBVIOUS
  <2>1. p + k \in 1..p + l /\ p + k \in 1..p + l + Len(rest) /\ p + k <= p + l /\ ~(p + k <= p)
        /\ (p + k) - p = k
    BY <1>2
  <2> QED
    BY <1>1, <1>3, <2>1
<1>5. RunTo(s, p, chars, p + l)
  <2>1. p + l \in p..Len(s)
    BY <1>2, <1>3
  <2>2. ASSUME NEW k \in p + 1..p + l PROVE s[k] \in chars
    <3>1. k - p \in 1..l /\ p + (k - p) = k
      BY <1>2
    <3> QED
      BY <1>4, <3>1
  <2>3. ASSUME p + l < Len(s) PROVE s[p + l + 1] \notin chars
    <3>1. p + l + 1 \in 1..p + l + Len(rest) /\ ~(p + l + 1 <= p + l) /\ (p + l + 1) - (p + l) = 1
          /\ Len(rest) # 0
      BY <1>2, <1>3, <2>3
    <3>2. rest # <<>>
      BY <3>1
    <3> QED
      BY <1>3, <3>1, <3>2
  <2> QED
    BY <2>1, <2>2, <2>3 DEF RunTo
<1>6. p \in 0..Len(s) /\ Len(s) \in Nat
  BY <1>2, <1>3
<1>7. RunEnd(s, p, chars) = p + l
  BY <1>3, <1>5, <1>6, RunIs
<1>8. SubSeq(s, p + 1, p + l) = run
  <2>1. \A k \in p + 1..p + l : s[k] \in Alphabet
    <3>1. \A k \in p + 1..p + l : k \in 1..Len(s)
      BY <1>2, <1>3
    <3> QED
      BY <1>3, <3>1, ElementOfSeq DEF Text
  <2>2. p + 1 \in Int /\ p + l \in Int /\ (p + l) - (p + 1) + 1 = l
        /\ (IF p + 1 <= p + l THEN (p + l) - (p + 1) + 1 ELSE 0) = l
        /\ \A k \in 1..l : (p + 1) + k - 1 = p + k
    BY <1>2
  <2>3. /\ SubSeq(s, p + 1, p + l) \in Seq(Alphabet) /\ Len(SubSeq(s, p + 1, p + l)) = l
        /\ \A k \in 1..l : SubSeq(s, p + 1, p + l)[k] = s[(p + 1) + k - 1]
    BY <2>1, <2>2, SubSeqProperties
  <2>4. \A k \in 1..l : SubSeq(s, p + 1, p + l)[k] = run[k]
    BY <1>4, <2>2, <2>3
  <2> QED
    BY <2>3, <2>4, SeqEqual DEF Text
<1> QED
  BY <1>1, <1>2, <1>3, <1>6, <1>7, <1>8 DEF Scanned, s

-----------------------------------------------------------------------------
(* Quads.                                                                  *)

Sofar == [ok : BOOLEAN, at : Nat, ip : Nat]

\* The loop of parseAddr4 after the first turns.
T0    == [ok |-> TRUE, at |-> 0, ip |-> 0]
T1(s) == turn(s, TRUE, T0)
T2(s) == turn(s, FALSE, T1(s))
T3(s) == turn(s, FALSE, T2(s))
T4(s) == turn(s, FALSE, T3(s))

LEMMA Unrolled ==
    ASSUME NEW s
    PROVE  parseAddr4(s) = IF T4(s).ok /\ T4(s).at = Len(s) THEN [ok |-> TRUE, ip |-> T4(s).ip]
                           ELSE Refused
<1> DEFINE Eq(u) == u = [k \in 0..4 |-> IF k = 0 THEN [ok |-> TRUE, at |-> 0, ip |-> 0]
                                        ELSE turn(s, k = 1, u[k - 1])]
           c == CHOOSE u : Eq(u)
           f == [k \in 0..4 |-> IF k = 0 THEN T0 ELSE IF k = 1 THEN T1(s)
                                ELSE IF k = 2 THEN T2(s) ELSE IF k = 3 THEN T3(s) ELSE T4(s)]
<1>1. parseAddr4(s) = IF c[4].ok /\ c[4].at = Len(s) THEN [ok |-> TRUE, ip |-> c[4].ip]
                      ELSE Refused
  BY Zenon DEF parseAddr4
<1>2. f[0] = T0 /\ f[1] = T1(s) /\ f[2] = T2(s) /\ f[3] = T3(s) /\ f[4] = T4(s)
  OBVIOUS
<1>3. f = [k \in 0..4 |-> f[k]]
  OBVIOUS
<1> HIDE DEF c, f
<1>4. ASSUME NEW k \in 0..4
      PROVE  f[k] = IF k = 0 THEN [ok |-> TRUE, at |-> 0, ip |-> 0] ELSE turn(s, k = 1, f[k - 1])
  <2>1. CASE k = 0
    BY <1>2, <2>1 DEF T0
  <2>2. CASE k = 1
    <3>1. (k = 1) = TRUE /\ k - 1 = 0 /\ k # 0
      BY <2>2
    <3> QED
      BY <1>2, <2>2, <3>1 DEF T1
  <2>3. CASE k = 2
    <3>1. (k = 1) = FALSE /\ k - 1 = 1 /\ k # 0
      BY <2>3
    <3> QED
      BY <1>2, <2>3, <3>1 DEF T2
  <2>4. CASE k = 3
    <3>1. (k = 1) = FALSE /\ k - 1 = 2 /\ k # 0
      BY <2>4
    <3> QED
      BY <1>2, <2>4, <3>1 DEF T3
  <2>5. CASE k = 4
    <3>1. (k = 1) = FALSE /\ k - 1 = 3 /\ k # 0
      BY <2>5
    <3> QED
      BY <1>2, <2>5, <3>1 DEF T4
  <2> QED
    BY <2>1, <2>2, <2>3, <2>4, <2>5
<1>5. Eq(f)
  BY <1>3, <1>4
<1>6. Eq(c)
  BY <1>5 DEF c
<1>7. c[0] = T0
  BY <1>6 DEF T0
<1>8. ASSUME NEW k \in 1..4 PROVE c[k] = turn(s, k = 1, c[k - 1])
  <2>1. k \in 0..4 /\ k # 0
    OBVIOUS
  <2>2. \A m \in 0..4 : c[m] = IF m = 0 THEN [ok |-> TRUE, at |-> 0, ip |-> 0]
                                ELSE turn(s, m = 1, c[m - 1])
    BY <1>6, Zenon
  <2> QED
    BY <2>1, <2>2
<1>9. c[1] = T1(s)
  <2>1. 1 \in 1..4 /\ 1 - 1 = 0 /\ (1 = 1) = TRUE
    OBVIOUS
  <2>2. c[1] = turn(s, 1 = 1, c[1 - 1])
    BY <1>8, <2>1
  <2> QED
    BY <1>7, <2>1, <2>2 DEF T1
<1>10. c[2] = T2(s)
  <2>1. 2 \in 1..4 /\ 2 - 1 = 1 /\ (2 = 1) = FALSE
    OBVIOUS
  <2>2. c[2] = turn(s, 2 = 1, c[2 - 1])
    BY <1>8, <2>1
  <2> QED
    BY <1>9, <2>1, <2>2 DEF T2
<1>11. c[3] = T3(s)
  <2>1. 3 \in 1..4 /\ 3 - 1 = 2 /\ (3 = 1) = FALSE
    OBVIOUS
  <2>2. c[3] = turn(s, 3 = 1, c[3 - 1])
    BY <1>8, <2>1
  <2> QED
    BY <1>10, <2>1, <2>2 DEF T3
<1>12. c[4] = T4(s)
  <2>1. 4 \in 1..4 /\ 4 - 1 = 3 /\ (4 = 1) = FALSE
    OBVIOUS
  <2>2. c[4] = turn(s, 4 = 1, c[4 - 1])
    BY <1>8, <2>1
  <2> QED
    BY <1>11, <2>1, <2>2 DEF T4
<1> QED
  BY <1>1, <1>12

\* What a turn that goes on has read.
Reads4(s, first, so, t) ==
    /\ so.ok /\ t.at \in 0..Len(s)
    /\ \E run \in OctetTexts :
          /\ t.ip = so.ip * OctetSize + Number(run, Radix)
          /\ SubSeq(s, 1, t.at) = IF first THEN run ELSE SubSeq(s, 1, so.at) \o <<".">> \o run

LEMMA TurnReads ==
    ASSUME NEW s \in Text, NEW first \in BOOLEAN, NEW so, so \in Sofar, first => so.at = 0,
           turn(s, first, so).ok
    PROVE  Reads4(s, first, so, turn(s, first, so))
<1> DEFINE from == IF first THEN so.at ELSE so.at + 1
           to   == RunEnd(s, from, isDigit)
           run  == SubSeq(s, from + 1, to)
           go   == so.ok /\ so.at < Len(s) /\ (first \/ s[so.at + 1] = ".") /\ octet(run)
           t    == turn(s, first, so)
<1>1. t = IF go THEN [ok |-> TRUE, at |-> to, ip |-> so.ip * OctetSize + Number(run, Radix)]
          ELSE [so EXCEPT !.ok = FALSE]
  BY Zenon DEF turn
<1>2. so.at \in Nat /\ Len(s) \in Nat /\ DOMAIN s = 1..Len(s) /\ t.ok
  BY LenProperties DEF Sofar, Text
<1> HIDE DEF t, go
<1>3. go
  BY <1>1, <1>2 DEF Sofar
<1>4. t.at = to /\ t.ip = so.ip * OctetSize + Number(run, Radix)
  BY <1>1, <1>3
<1>5. from \in 0..Len(s)
  BY <1>2, <1>3 DEF go
<1>6. RunTo(s, from, isDigit, to)
  BY <1>5, RunHas
<1> HIDE DEF from, to
<1>7. to \in 0..Len(s) /\ from <= to /\ to \in Nat /\ from \in Nat
  BY <1>2, <1>5, <1>6 DEF RunTo
<1>8. run \in Seq(isDigit)
  <2>1. from + 1 \in Int /\ to \in Int /\ \A k \in from + 1..to : s[k] \in isDigit
    BY <1>6, <1>7 DEF RunTo
  <2> QED
    BY <2>1, SubSeqProperties
<1> HIDE DEF run
<1>9. run \in OctetTexts
  BY <1>3, <1>8, OctetIs DEF go
<1>10. SubSeq(s, 1, to) = IF first THEN run ELSE SubSeq(s, 1, so.at) \o <<".">> \o run
  <2>1. CASE first
    <3>1. from + 1 = 1
      BY <1>2, <2>1 DEF from
    <3> QED
      BY <2>1, <3>1 DEF run
  <2>2. CASE ~first
    <3>1. from = so.at + 1
      BY <2>2 DEF from
    <3>2. SubSeq(s, 1, from) \o SubSeq(s, from + 1, to) = SubSeq(s, 1, to)
      <4>1. 1 \in 1..Len(s) + 1 /\ from \in 1 - 1..Len(s) /\ to \in from..Len(s)
        BY <1>2, <1>7
      <4> QED
        BY <4>1, ConcatAdjacentSubSeq DEF Text
    <3>3. SubSeq(s, 1, from) = SubSeq(s, 1, so.at) \o <<".">>
      <4>1. 1 \in 1..Len(s) /\ from \in 1..Len(s) /\ from - 1 = so.at
        BY <1>2, <1>5, <3>1
      <4>2. SubSeq(s, 1, from) = SubSeq(s, 1, from - 1) \o <<s[from]>>
        BY <4>1, SubSeqRecursiveSecond DEF Text
      <4>3. s[from] = "."
        BY <1>3, <2>2, <3>1 DEF go
      <4> QED
        BY <4>1, <4>2, <4>3
    <3> QED
      BY <2>2, <3>2, <3>3 DEF run
  <2> QED
    BY <2>1, <2>2
<1>11. so.ok
  BY <1>3 DEF go
<1> QED
  BY <1>4, <1>7, <1>9, <1>10, <1>11 DEF Reads4, t

LEMMA TurnTyped ==
    ASSUME NEW s \in Text, NEW first \in BOOLEAN, NEW so, so \in Sofar
    PROVE  turn(s, first, so) \in Sofar
<1> DEFINE from == IF first THEN so.at ELSE so.at + 1
           to   == RunEnd(s, from, isDigit)
           run  == SubSeq(s, from + 1, to)
           go   == so.ok /\ so.at < Len(s) /\ (first \/ s[so.at + 1] = ".") /\ octet(run)
           ip1  == so.ip * OctetSize + Number(run, Radix)
<1>1. turn(s, first, so) = IF go THEN [ok |-> TRUE, at |-> to, ip |-> ip1]
                           ELSE [so EXCEPT !.ok = FALSE]
  BY Zenon DEF turn
<1>2. so.at \in Nat /\ Len(s) \in Nat
  BY LenProperties DEF Sofar, Text
<1>3. CASE ~go
  <2>1. turn(s, first, so) = [so EXCEPT !.ok = FALSE]
    BY <1>1, <1>3
  <2> QED
    BY <2>1 DEF Sofar
<1>4. CASE go
  <2>1. from \in 0..Len(s)
    BY <1>2, <1>4
  <2>2. RunTo(s, from, isDigit, to)
    BY <2>1, RunHas
  <2>3. turn(s, first, so) = [ok |-> TRUE, at |-> to, ip |-> ip1]
    BY <1>1, <1>4
  <2> HIDE DEF from, to
  <2>4. to \in Nat /\ from \in Nat
    BY <1>2, <2>1, <2>2 DEF RunTo
  <2>5. run \in Seq(isDigit)
    <3>1. from + 1 \in Int /\ to \in Int /\ \A k \in from + 1..to : s[k] \in isDigit
      BY <2>2, <2>4 DEF RunTo
    <3> QED
      BY <3>1, SubSeqProperties
  <2> HIDE DEF run
  <2>6. Number(run, Radix) \in Nat
    <3>1. Radix \in Nat /\ run \in Seq(isHex)
      BY <2>5, CharsOf, ParseAssumption
    <3> QED
      BY <3>1, NumberIsNat
  <2>7. ip1 \in Nat
    <3>1. so.ip \in Nat /\ OctetSize \in Nat
      BY ParseAssumption DEF Sofar, OctetSize
    <3>2. so.ip * OctetSize \in Nat
      BY <3>1
    <3> QED
      BY <2>6, <3>2
  <2> HIDE DEF ip1
  <2> QED
    BY <2>3, <2>4, <2>7 DEF Sofar
<1> QED
  BY <1>3, <1>4

\* A turn that goes on.
Goes(s, first, so, at, ip) == turn(s, first, so) = [ok |-> TRUE, at |-> at, ip |-> ip]

\* The text after an octet, and what stands before one.
Opens(rest) == rest = <<>> \/ rest[1] = "."
Stands(first, pre, so) == IF first THEN pre = <<>> /\ so.at = 0
                          ELSE \E q \in Text : pre = q \o <<".">> /\ so.at = Len(q)

\* A turn over an octet in the middle of a text.
LEMMA TurnGoes ==
    ASSUME NEW pre \in Text, NEW run \in OctetTexts, NEW rest \in Text, Opens(rest),
           NEW first \in BOOLEAN, NEW so, so \in Sofar, so.ok, Stands(first, pre, so)
    PROVE  Goes((pre \o run) \o rest, first, so, Len(pre \o run),
                so.ip * OctetSize + Number(run, Radix))
<1> DEFINE s    == (pre \o run) \o rest
           from == IF first THEN so.at ELSE so.at + 1
           to   == RunEnd(s, from, isDigit)
           go(r) == so.ok /\ so.at < Len(s) /\ (first \/ s[so.at + 1] = ".") /\ octet(r)
<1>1. turn(s, first, so) =
        IF go(SubSeq(s, from + 1, to))
        THEN [ok |-> TRUE, at |-> to,
              ip |-> so.ip * OctetSize + Number(SubSeq(s, from + 1, to), Radix)]
        ELSE [so EXCEPT !.ok = FALSE]
  BY Zenon DEF turn
<1>2. run \in Seq(isDigit) /\ octet(run) /\ run \in Text
  BY OctetIs, CharsOf
<1>3. \A k \in 1..Len(run) : run[k] \in isDigit
  BY <1>2, ElementOfSeq
<1>4. rest = <<>> \/ rest[1] \notin isDigit
  BY CharsOf DEF Opens
<1>5. Scanned(s, pre, run, isDigit)
  BY <1>2, <1>3, <1>4, Scan
<1> HIDE DEF s
<1>6. from = Len(pre) /\ (~first => so.at + 1 = Len(pre) /\ pre[so.at + 1] = ".")
  <2>1. CASE first
    BY <2>1 DEF Text, Stands
  <2>2. CASE ~first
    <3>1. PICK q \in Text : pre = q \o <<".">> /\ so.at = Len(q)
      BY <2>2 DEF Stands
    <3>2. <<".">> \in Text /\ Len(<<".">>) = 1 /\ <<".">>[1] = "." /\ Len(q) \in Nat
      BY CharsOf, LenProperties DEF Text
    <3>3. Len(pre) = Len(q) + 1
          /\ \A k \in 1..Len(q) + 1 : pre[k] = IF k <= Len(q) THEN q[k] ELSE <<".">>[k - Len(q)]
      BY <3>1, <3>2, ConcatProperties DEF Text
    <3>4. Len(q) + 1 \in 1..Len(q) + 1 /\ ~(Len(q) + 1 <= Len(q)) /\ (Len(q) + 1) - Len(q) = 1
      BY <3>2
    <3>5. pre[Len(q) + 1] = "."
      BY <3>2, <3>3, <3>4
    <3> QED
      BY <2>2, <3>1, <3>3, <3>5
  <2> QED
    BY <2>1, <2>2
<1>7. to = Len(pre \o run) /\ SubSeq(s, from + 1, to) = run
  BY <1>5, <1>6 DEF Scanned
<1>8. so.at < Len(s) /\ (first \/ s[so.at + 1] = ".")
  <2>1. /\ Len(run) \in Nat /\ Len(run) >= 1 /\ Len(pre) \in Nat /\ Len(rest) \in Nat
        /\ so.at \in Nat /\ so.at <= Len(pre)
    <3>1. Len(run) \in 1..OctetDigits /\ OctetDigits \in Nat
      BY <1>2, ParseAssumption DEF octet
    <3>2. Len(pre) \in Nat /\ Len(rest) \in Nat /\ so.at \in Nat
      BY LenProperties DEF Text, Sofar
    <3> QED
      BY <1>6, <3>1, <3>2
  <2>2. /\ pre \o run \in Text /\ Len(pre \o run) = Len(pre) + Len(run)
        /\ \A k \in 1..Len(pre) + Len(run) :
              (pre \o run)[k] = IF k <= Len(pre) THEN pre[k] ELSE run[k - Len(pre)]
    BY <1>2, ConcatProperties DEF Text
  <2>3. /\ Len(s) = Len(pre) + Len(run) + Len(rest)
        /\ \A k \in 1..Len(pre) + Len(run) + Len(rest) :
              s[k] = IF k <= Len(pre) + Len(run) THEN (pre \o run)[k]
                     ELSE rest[k - (Len(pre) + Len(run))]
    BY <2>2, ConcatProperties DEF Text, s
  <2>4. so.at < Len(s)
    BY <2>1, <2>3
  <2>5. ASSUME ~first PROVE s[so.at + 1] = "."
    <3>1. so.at + 1 = Len(pre) /\ pre[so.at + 1] = "."
      BY <1>6, <2>5
    <3>2. so.at + 1 \in 1..Len(pre) + Len(run) /\ so.at + 1 \in 1..Len(pre) + Len(run) + Len(rest)
          /\ so.at + 1 <= Len(pre) + Len(run) /\ so.at + 1 <= Len(pre)
      BY <2>1, <3>1
    <3> QED
      BY <2>2, <2>3, <3>1, <3>2
  <2> QED
    BY <2>4, <2>5
<1>9. go(SubSeq(s, from + 1, to))
  BY <1>2, <1>7, <1>8
<1>10. turn(s, first, so) = [ok |-> TRUE, at |-> Len(pre \o run),
                             ip |-> so.ip * OctetSize + Number(run, Radix)]
  BY <1>1, <1>7, <1>9
<1> QED
  BY <1>10 DEF s, Goes

-----------------------------------------------------------------------------

Quads == [1..4 -> OctetTexts]

LEMMA QuadsAre ==
    ASSUME NEW os \in Quads
    PROVE  /\ os \in Seq(Text) /\ Len(os) = 4
           /\ \A k \in 1..4 : os[k] \in OctetTexts /\ os[k] \in Text
                              /\ Number(os[k], Radix) \in Nat
<1>1. \A k \in 1..4 : os[k] \in OctetTexts
  BY DEF Quads
<1>2. \A k \in 1..4 : os[k] \in Text /\ os[k] \in Seq(isHex)
  BY <1>1, OctetIs, CharsOf
<1>3. os = [k \in 1..4 |-> os[k]] /\ 4 \in Nat
  BY DEF Quads
<1>4. os \in [1..4 -> Text]
  BY <1>2, <1>3
<1>5. os \in Seq(Text)
  BY <1>3, <1>4, SeqDef
<1>6. Len(os) = 4
  BY <1>4, <1>5, LenProperties
<1>7. Radix \in Nat
  BY ParseAssumption
<1> QED
  BY <1>1, <1>2, <1>5, <1>6, <1>7, NumberIsNat

\* The four octets in a row, and what they stand for.
LEMMA QuadJoined ==
    ASSUME NEW os \in Quads
    PROVE  Joined(".", os) = os[1] \o <<".">> \o os[2] \o <<".">> \o os[3] \o <<".">> \o os[4]
<1>1. os \in Seq(Text) /\ Len(os) = 4
  BY QuadsAre
<1>2. PICK j : Joining(".", os, j)
  BY <1>1, CharsOf, JoinedIs
<1>3. /\ Joined(".", os) = j[4]
      /\ \A k \in 1..4 : j[k] = IF k = 1 THEN os[1] ELSE j[k - 1] \o <<".">> \o os[k]
  BY <1>1, <1>2 DEF Joining, Joins
<1>4. j[1] = os[1]
  BY <1>3
<1>a. \A k \in 2..4 : j[k] = j[k - 1] \o <<".">> \o os[k]
  <2>1. \A k \in 2..4 : k \in 1..4 /\ k # 1
    OBVIOUS
  <2> HIDE DEF Joining
  <2> QED
    BY <1>3, <2>1
<1>b. 2 \in 2..4 /\ 3 \in 2..4 /\ 4 \in 2..4 /\ 2 - 1 = 1 /\ 3 - 1 = 2 /\ 4 - 1 = 3
  OBVIOUS
<1>5. j[2] = j[1] \o <<".">> \o os[2]
  BY <1>a, <1>b
<1>6. j[3] = j[2] \o <<".">> \o os[3]
  BY <1>a, <1>b
<1>7. j[4] = j[3] \o <<".">> \o os[4]
  BY <1>a, <1>b
<1> QED
  BY <1>3, <1>4, <1>5, <1>6, <1>7

LEMMA QuadNumber ==
    ASSUME NEW os \in Quads
    PROVE  /\ QuadOf(os) \in Nat
           /\ QuadOf(os) = (((0 * OctetSize + Number(os[1], Radix)) * OctetSize
                             + Number(os[2], Radix)) * OctetSize
                            + Number(os[3], Radix)) * OctetSize + Number(os[4], Radix)
<1> DEFINE ds == [k \in 1..4 |-> Number(os[k], Radix)]
           v1 == 0 * OctetSize + Number(os[1], Radix)
           v2 == v1 * OctetSize + Number(os[2], Radix)
           v3 == v2 * OctetSize + Number(os[3], Radix)
           v4 == v3 * OctetSize + Number(os[4], Radix)
           v  == [k \in 0..4 |-> IF k = 0 THEN 0 ELSE IF k = 1 THEN v1 ELSE IF k = 2 THEN v2
                                 ELSE IF k = 3 THEN v3 ELSE v4]
<1>1. \A k \in 1..4 : Number(os[k], Radix) \in Nat
  BY QuadsAre
<1>2. ds \in [1..4 -> Nat] /\ \A k \in 1..4 : ds[k] = Number(os[k], Radix)
  BY <1>1
<1>3. QuadOf(os) = Positional(ds, OctetSize)
  BY DEF QuadOf
<1>4. v[0] = 0 /\ v[1] = v1 /\ v[2] = v2 /\ v[3] = v3 /\ v[4] = v4
  OBVIOUS
<1> HIDE DEF ds, v
<1>5. ds \in Seq(Nat) /\ Len(ds) = 4
  <2>1. ds \in Seq(Nat)
    BY <1>2, SeqDef, 4 \in Nat
  <2> QED
    BY <1>2, <2>1, LenProperties
<1>6. \A k \in 1..4 : v[k] = v[k - 1] * OctetSize + ds[k]
  <2>1. v[1] = v[0] * OctetSize + ds[1]
    BY <1>2, <1>4
  <2>2. v[2] = v[1] * OctetSize + ds[2]
    BY <1>2, <1>4
  <2>3. v[3] = v[2] * OctetSize + ds[3]
    BY <1>2, <1>4
  <2>4. v[4] = v[3] * OctetSize + ds[4]
    BY <1>2, <1>4
  <2> HIDE DEF v1, v2, v3, v4
  <2>5. \A k \in 1..4 : k = 1 \/ k = 2 \/ k = 3 \/ k = 4
    OBVIOUS
  <2>6. 1 - 1 = 0 /\ 2 - 1 = 1 /\ 3 - 1 = 2 /\ 4 - 1 = 3
    OBVIOUS
  <2> QED
    BY <2>1, <2>2, <2>3, <2>4, <2>5, <2>6
<1>7. Value(ds, OctetSize, v)
  BY <1>4, <1>5, <1>6 DEF Value
<1>8. OctetSize \in Nat
  BY ParseAssumption DEF OctetSize
<1>9. Positional(ds, OctetSize) = v[Len(ds)] /\ Positional(ds, OctetSize) \in Nat
  BY <1>5, <1>7, <1>8, PositionalEquals
<1> QED
  BY <1>3, <1>4, <1>5, <1>9

Concats(p, r, S) == /\ p \o r \in Seq(S) /\ Len(p \o r) = Len(p) + Len(r)
                    /\ \A k \in 1..Len(p) + Len(r) :
                          (p \o r)[k] = IF k <= Len(p) THEN p[k] ELSE r[k - Len(p)]

LEMMA Concat == ASSUME NEW S, NEW p \in Seq(S), NEW r \in Seq(S) PROVE Concats(p, r, S)
BY ConcatProperties DEF Concats

Associates(p, o, r, S) == /\ (p \o o) \o r = p \o (o \o r)
                          /\ p \o o \in Seq(S) /\ o \o r \in Seq(S)

LEMMA Association ==
    ASSUME NEW S, NEW p \in Seq(S), NEW o \in Seq(S), NEW r \in Seq(S)
    PROVE  Associates(p, o, r, S)
<1>1. (p \o o) \o r = p \o (o \o r)
  BY ConcatAssociative
<1>2. p \o o \in Seq(S)
  BY ConcatProperties
<1>3. o \o r \in Seq(S)
  BY ConcatProperties
<1> QED
  BY <1>1, <1>2, <1>3 DEF Associates

LEMMA As ==
    ASSUME NEW p \in Text, NEW o \in Text, NEW r \in Text PROVE Associates(p, o, r, Alphabet)
BY Association DEF Text

LEMMA Assoc ==
    ASSUME NEW p \in Text, NEW o \in Text, NEW r \in Text
    PROVE  (p \o o) \o r = p \o (o \o r) /\ p \o o \in Text /\ o \o r \in Text
<1>1. Associates(p, o, r, Alphabet)
  BY As
<1> QED
  BY <1>1 DEF Associates, Text

\* p, c and o in a row, before r.
Peeled(p, c, o, r) ==
    /\ (p \o <<c>> \o o) \o r = p \o (<<c>> \o (o \o r))
    /\ p \o <<c>> \in Text /\ p \o <<c>> \o o \in Text /\ o \o r \in Text
    /\ <<c>> \o (o \o r) \in Text /\ (<<c>> \o (o \o r))[1] = c
    /\ <<c>> \o (o \o r) # <<>>

LEMMA Peel ==
    ASSUME NEW p \in Text, NEW c \in Alphabet, NEW o \in Text, NEW r \in Text
    PROVE  Peeled(p, c, o, r)
<1> DEFINE d == <<c>>
           u == o \o r
           e == p \o d
           f == d \o u
<1>1. d \in Text /\ Len(d) = 1 /\ d[1] = c
  BY DEF Text
<1> HIDE DEF d
<1>2. e \in Text /\ u \in Text
  BY <1>1, Assoc
<1>3. f \in Text
  <2> HIDE DEF u
  <2> QED
    BY <1>1, <1>2, Assoc
<1>4. e \o u = p \o f
  <2> HIDE DEF u
  <2>1. Associates(p, d, u, Alphabet)
    BY <1>1, <1>2, As
  <2> QED
    BY <2>1 DEF Associates
<1>5. e \o o \in Text /\ (e \o o) \o r = e \o u
  <2> HIDE DEF e
  <2>1. Associates(e, o, r, Alphabet)
    BY <1>2, As
  <2> QED
    BY <2>1 DEF Associates, Text, u
<1>6. f[1] = c /\ f # <<>>
  <2> HIDE DEF u
  <2>1. Len(u) \in Nat
    BY <1>2, LenProperties DEF Text
  <2>2. 1 \in 1..1 + Len(u) /\ 1 + Len(u) # 0 /\ 1 <= 1
    BY <2>1
  <2>3. Concats(d, u, Alphabet)
    BY <1>1, <1>2, Concat DEF Text
  <2>4. Len(f) = 1 + Len(u) /\ \A k \in 1..1 + Len(u) : f[k] = IF k <= 1 THEN d[k] ELSE u[k - 1]
    BY <1>1, <2>3 DEF Concats
  <2>5. f[1] = d[1]
    BY <2>2, <2>4
  <2> HIDE DEF f
  <2> QED
    BY <1>1, <2>2, <2>4, <2>5
<1> QED
  BY <1>2, <1>3, <1>4, <1>5, <1>6 DEF d, u, e, f, Peeled

\* The turns after the first.
LEMMA GoesOn ==
    ASSUME NEW j \in Text, NEW o \in OctetTexts, NEW r \in Text, Opens(r), NEW ip \in Nat,
           NEW so, so = [ok |-> TRUE, at |-> Len(j), ip |-> ip],
           NEW s, s = (j \o <<".">> \o o) \o r
    PROVE  Goes(s, FALSE, so, Len(j \o <<".">> \o o), ip * OctetSize + Number(o, Radix))
<1> DEFINE d == <<".">>
           pre == j \o d
<1>1. so \in Sofar /\ so.ok /\ so.at = Len(j) /\ so.ip = ip
  <2>1. Len(j) \in Nat
    BY LenProperties DEF Text
  <2> QED
    BY <2>1 DEF Sofar
<1>2. d \in Text
  BY CharsOf
<1>3. pre \in Text
  BY <1>2, Assoc
<1>4. Stands(FALSE, pre, so)
  BY <1>1 DEF Stands
<1> HIDE DEF pre
<1>5. Goes((pre \o o) \o r, FALSE, so, Len(pre \o o), so.ip * OctetSize + Number(o, Radix))
  BY <1>1, <1>3, <1>4, TurnGoes
<1> QED
  BY <1>1, <1>5 DEF pre

\* A quad is read as such.
LEMMA QuadRead ==
    ASSUME NEW os \in Quads
    PROVE  parseAddr4(Joined(".", os)) = [ok |-> TRUE, ip |-> QuadOf(os)]
<1> DEFINE d  == <<".">>
           j1 == os[1]
           j2 == j1 \o d \o os[2]
           j3 == j2 \o d \o os[3]
           j4 == j3 \o d \o os[4]
           r3 == d \o (os[4] \o <<>>)
           r2 == d \o (os[3] \o r3)
           r1 == d \o (os[2] \o r2)
           s  == Joined(".", os)
<1>1. s = j4
  BY QuadJoined
<1>2. /\ os[1] \in Text /\ os[2] \in Text /\ os[3] \in Text /\ os[4] \in Text
      /\ os[1] \in OctetTexts /\ os[2] \in OctetTexts /\ os[3] \in OctetTexts /\ os[4] \in OctetTexts
      /\ Number(os[1], Radix) \in Nat /\ Number(os[2], Radix) \in Nat
      /\ Number(os[3], Radix) \in Nat /\ Number(os[4], Radix) \in Nat
  BY QuadsAre
<1>3. d \in Text /\ "." \in Alphabet /\ <<>> \in Text
  BY CharsOf
<1>4. j2 \in Text /\ j3 \in Text /\ j4 \in Text
  <2>1. Peeled(j1, ".", os[2], <<>>)
    BY <1>2, <1>3, Peel
  <2>2. j2 \in Text
    BY <2>1 DEF Peeled
  <2> HIDE DEF j2
  <2>3. Peeled(j2, ".", os[3], <<>>)
    BY <1>2, <1>3, <2>2, Peel
  <2>4. j3 \in Text
    BY <2>3 DEF Peeled
  <2> HIDE DEF j3
  <2>5. Peeled(j3, ".", os[4], <<>>)
    BY <1>2, <1>3, <2>4, Peel
  <2>6. j4 \in Text
    BY <2>5 DEF Peeled
  <2> QED
    BY <2>2, <2>4, <2>6
<1>5. <<>> \o j1 = j1 /\ j4 \o <<>> = j4
  BY <1>2, <1>4, ConcatEmptySeq DEF Text
<1>6. r3 \in Text /\ Opens(r3) /\ j4 \o <<>> = j3 \o r3
  <2> HIDE DEF j3
  <2>1. Peeled(j3, ".", os[4], <<>>)
    BY <1>2, <1>3, <1>4, Peel
  <2> QED
    BY <2>1 DEF Peeled, Opens
<1> HIDE DEF r3, j4
<1>7. r2 \in Text /\ Opens(r2) /\ j3 \o r3 = j2 \o r2
  <2> HIDE DEF j2
  <2>1. Peeled(j2, ".", os[3], r3)
    BY <1>2, <1>3, <1>4, <1>6, Peel
  <2> QED
    BY <2>1 DEF Peeled, Opens, j3
<1> HIDE DEF r2, j3
<1>8. r1 \in Text /\ Opens(r1) /\ j2 \o r2 = j1 \o r1
  <2>1. Peeled(j1, ".", os[2], r2)
    BY <1>2, <1>3, <1>4, <1>7, Peel
  <2> QED
    BY <2>1 DEF Peeled, Opens, j2
<1> HIDE DEF r1, j2
<1>9. /\ s = j4 \o <<>> /\ s = j3 \o r3 /\ s = j2 \o r2 /\ s = (<<>> \o j1) \o r1
  BY <1>1, <1>5, <1>6, <1>7, <1>8
<1> HIDE DEF s
<1> DEFINE O == OctetSize
           i1 == 0 * O + Number(os[1], Radix)
           i2 == i1 * O + Number(os[2], Radix)
           i3 == i2 * O + Number(os[3], Radix)
           i4 == i3 * O + Number(os[4], Radix)
<1>10. i4 = QuadOf(os)
  BY QuadNumber
<1>11. i1 \in Nat /\ i2 \in Nat /\ i3 \in Nat
  <2>1. O \in Nat
    BY ParseAssumption DEF OctetSize
  <2>2. \A x \in Nat : x * O \in Nat
    BY <2>1
  <2> HIDE DEF O
  <2>3. i1 \in Nat
    BY <1>2, <2>2, 0 \in Nat
  <2> HIDE DEF i1
  <2>4. i2 \in Nat
    BY <1>2, <2>2, <2>3
  <2> HIDE DEF i2
  <2>5. i3 \in Nat
    BY <1>2, <2>2, <2>4
  <2> QED
    BY <2>3, <2>4, <2>5
<1>12. T1(s) = [ok |-> TRUE, at |-> Len(j1), ip |-> i1]
  <2>1. T0 \in Sofar /\ T0.ok /\ T0.at = 0 /\ T0.ip = 0
    BY DEF T0, Sofar
  <2>2. Stands(TRUE, <<>>, T0) /\ TRUE \in BOOLEAN
    BY <2>1 DEF Stands
  <2>3. Goes((<<>> \o os[1]) \o r1, TRUE, T0, Len(<<>> \o os[1]), T0.ip * OctetSize + Number(os[1], Radix))
    BY <1>2, <1>3, <1>8, <2>1, <2>2, TurnGoes
  <2> QED
    BY <1>5, <1>9, <2>1, <2>3 DEF T1, Goes
<1>13. T2(s) = [ok |-> TRUE, at |-> Len(j2), ip |-> i2]
  <2>1. s = (j1 \o <<".">> \o os[2]) \o r2
    BY <1>9 DEF j2
  <2> HIDE DEF i1, j1
  <2>2. Goes(s, FALSE, T1(s), Len(j1 \o <<".">> \o os[2]), i1 * OctetSize + Number(os[2], Radix))
    BY <1>2, <1>7, <1>11, <1>12, <2>1, GoesOn DEF j1
  <2> QED
    BY <2>2 DEF T2, Goes, j2
<1>14. T3(s) = [ok |-> TRUE, at |-> Len(j3), ip |-> i3]
  <2>1. s = (j2 \o <<".">> \o os[3]) \o r3
    BY <1>9 DEF j3
  <2> HIDE DEF i2
  <2>2. Goes(s, FALSE, T2(s), Len(j2 \o <<".">> \o os[3]), i2 * OctetSize + Number(os[3], Radix))
    BY <1>2, <1>4, <1>6, <1>11, <1>13, <2>1, GoesOn
  <2> QED
    BY <2>2 DEF T3, Goes, j3
<1>15. T4(s) = [ok |-> TRUE, at |-> Len(j4), ip |-> i4]
  <2>1. s = (j3 \o <<".">> \o os[4]) \o <<>> /\ Opens(<<>>)
    BY <1>9 DEF j4, Opens
  <2> HIDE DEF i3
  <2>2. Goes(s, FALSE, T3(s), Len(j3 \o <<".">> \o os[4]), i3 * OctetSize + Number(os[4], Radix))
    BY <1>2, <1>3, <1>4, <1>11, <1>14, <2>1, GoesOn
  <2> QED
    BY <2>2 DEF T4, Goes, j4
<1> HIDE DEF i4
<1>16. parseAddr4(s) = [ok |-> TRUE, ip |-> i4]
  BY <1>1, <1>15, Unrolled
<1> QED
  BY <1>10, <1>16 DEF s

-----------------------------------------------------------------------------
\* A text that is accepted is a quad.
LEMMA QuadShaped ==
    ASSUME NEW s \in Text, parseAddr4(s).ok
    PROVE  \E os \in Quads : s = Joined(".", os)
<1>1. T4(s).ok /\ T4(s).at = Len(s)
  BY Unrolled DEF Refused
<1>2. T0 \in Sofar /\ T0.at = 0
  BY DEF T0, Sofar
<1>3. T1(s) \in Sofar
  BY <1>2, TurnTyped DEF T1
<1>4. T2(s) \in Sofar
  BY <1>3, TurnTyped DEF T2
<1>5. T3(s) \in Sofar
  BY <1>4, TurnTyped DEF T3
<1>6. Reads4(s, FALSE, T3(s), T4(s))
  BY <1>1, <1>5, TurnReads DEF T4
<1>7. Reads4(s, FALSE, T2(s), T3(s))
  <2>1. T3(s).ok
    BY <1>6 DEF Reads4
  <2> QED
    BY <1>4, <2>1, TurnReads DEF T3
<1>8. Reads4(s, FALSE, T1(s), T2(s))
  <2>1. T2(s).ok
    BY <1>7 DEF Reads4
  <2> QED
    BY <1>3, <2>1, TurnReads DEF T2
<1>9. Reads4(s, TRUE, T0, T1(s))
  <2>1. T1(s).ok
    BY <1>8 DEF Reads4
  <2> QED
    BY <1>2, <2>1, TurnReads DEF T1
<1>10. PICK r1 \in OctetTexts : SubSeq(s, 1, T1(s).at) = r1
  BY <1>9 DEF Reads4
<1>11. PICK r2 \in OctetTexts : SubSeq(s, 1, T2(s).at) = SubSeq(s, 1, T1(s).at) \o <<".">> \o r2
  BY <1>8 DEF Reads4
<1>12. PICK r3 \in OctetTexts : SubSeq(s, 1, T3(s).at) = SubSeq(s, 1, T2(s).at) \o <<".">> \o r3
  BY <1>7 DEF Reads4
<1>13. PICK r4 \in OctetTexts : SubSeq(s, 1, T4(s).at) = SubSeq(s, 1, T3(s).at) \o <<".">> \o r4
  BY <1>6 DEF Reads4
<1>14. s = SubSeq(s, 1, Len(s))
  BY SubSeqFull DEF Text
<1> DEFINE os == [k \in 1..4 |-> IF k = 1 THEN r1 ELSE IF k = 2 THEN r2
                                 ELSE IF k = 3 THEN r3 ELSE r4]
<1>15. os \in Quads /\ os[1] = r1 /\ os[2] = r2 /\ os[3] = r3 /\ os[4] = r4
  BY DEF Quads
<1> HIDE DEF os
<1>16. Joined(".", os) = r1 \o <<".">> \o r2 \o <<".">> \o r3 \o <<".">> \o r4
  BY <1>15, QuadJoined
<1>17. s = Joined(".", os)
  BY <1>1, <1>10, <1>11, <1>12, <1>13, <1>14, <1>16
<1> QED
  BY <1>15, <1>17

LEMMA QuadIs ==
    ASSUME NEW s \in Text
    PROVE  /\ parseAddr4(s).ok <=> \E os \in Quads : s = Joined(".", os)
           /\ ~parseAddr4(s).ok => parseAddr4(s).ip = 0
<1>1. parseAddr4(s).ok => \E os \in Quads : s = Joined(".", os)
  BY QuadShaped
<1>2. ASSUME NEW os \in Quads, s = Joined(".", os) PROVE parseAddr4(s).ok
  BY <1>2, QuadRead
<1>3. ~parseAddr4(s).ok => parseAddr4(s).ip = 0
  BY Unrolled DEF Refused
<1> QED
  BY <1>1, <1>2, <1>3

LEMMA Spelled4 ==
    ASSUME NEW t
    PROVE  /\ t \in Texts4 <=> \E os \in Quads : t = Joined(".", os)
           /\ \A os \in Quads : <<Joined(".", os), QuadOf(os)>> \in Meanings4
<1>1. Spellings4 = {[text |-> Joined(".", os), ip |-> QuadOf(os)] : os \in Quads}
  BY DEF Spellings4, Quads
<1>2. t \in Texts4 <=> \E os \in Quads : t = Joined(".", os)
  <2>1. ASSUME NEW os \in Quads PROVE Joined(".", os) \in Texts4
    <3> DEFINE x == [text |-> Joined(".", os), ip |-> QuadOf(os)]
    <3>1. x \in Spellings4 /\ x.text = Joined(".", os)
      BY <1>1
    <3> HIDE DEF x
    <3> QED
      BY <3>1 DEF Texts4
  <2>2. ASSUME t \in Texts4 PROVE \E os \in Quads : t = Joined(".", os)
    <3>1. PICK x \in Spellings4 : t = x.text
      BY <2>2 DEF Texts4
    <3>2. PICK os \in Quads : x = [text |-> Joined(".", os), ip |-> QuadOf(os)]
      BY <1>1, <3>1
    <3> QED
      BY <3>1, <3>2
  <2> QED
    BY <2>1, <2>2
<1>3. ASSUME NEW os \in Quads PROVE <<Joined(".", os), QuadOf(os)>> \in Meanings4
  <2> DEFINE x == [text |-> Joined(".", os), ip |-> QuadOf(os)]
  <2>1. x \in Spellings4 /\ x.text = Joined(".", os) /\ x.ip = QuadOf(os)
    BY <1>1
  <2> HIDE DEF x
  <2> QED
    BY <2>1 DEF Meanings4
<1> QED
  BY <1>2, <1>3

LEMMA QuadsAgreeFor ==
    ASSUME b \in Text PROVE QuadsAgree
<1>1. CASE parseAddr4(b).ok
  <2>1. PICK os \in Quads : b = Joined(".", os)
    BY <1>1, QuadIs
  <2>2. parseAddr4(b).ip = QuadOf(os)
    BY <2>1, QuadRead
  <2> QED
    BY <1>1, <2>1, <2>2, Spelled4 DEF QuadsAgree
<1>2. CASE ~parseAddr4(b).ok
  BY <1>2, QuadIs, Spelled4 DEF QuadsAgree
<1> QED
  BY <1>1, <1>2

LEMMA TextInits == ASSUME TextInit PROVE b \in Text
BY TextAssumption DEF TextInit, Text

LEMMA TextKept == ASSUME b \in Text, [TextNext]_pvars PROVE b' \in Text
<1>1. CASE UNCHANGED pvars
  BY <1>1 DEF pvars
<1>2. ASSUME NEW r, Done(r) PROVE b' = b
  BY <1>2 DEF Done
<1>3. CASE Start
  BY <1>2, <1>3 DEF Start
<1>4. CASE Quad
  BY <1>2, <1>4 DEF Quad
<1>5. CASE Group
  BY <1>2, <1>5 DEF Group
<1>6. CASE Exhausted
  BY <1>6 DEF Exhausted
<1>7. CASE Fit
  BY <1>2, <1>7 DEF Fit
<1> QED
  BY <1>1, <1>3, <1>4, <1>5, <1>6, <1>7 DEF TextNext

\* parseAddr4 accepts a text exactly when it is how four octets are written,
\* and returns the number they spell, for every radix, octet size, digit limit
\* and set of texts.
THEOREM QuadsAreRead == Parser => []QuadsAgree
<1>1. TextInit => b \in Text
  BY TextInits
<1>2. b \in Text /\ [TextNext]_pvars => (b \in Text)'
  BY TextKept
<1>3. b \in Text => QuadsAgree
  BY QuadsAgreeFor
<1> QED
  BY <1>1, <1>2, <1>3, PTL DEF Parser

-----------------------------------------------------------------------------
(* Sequences of groups, read from the front.                               *)

Pieces == Seq(GroupTexts)
Values(gs) == [k \in 1..Len(gs) |-> Number(gs[k], HexRadix)]

LEMMA GroupText ==
    ASSUME NEW g \in GroupTexts
    PROVE  /\ g \in Seq(isHex) /\ g \in Text /\ Len(g) \in Nat \ {0} /\ g # <<>> /\ g[1] \in isHex
           /\ Number(g, HexRadix) \in Nat
<1>1. g \in Seq(isHex) /\ Len(g) \in 1..GroupDigits
  BY GroupIs
<1>2. GroupDigits \in Nat /\ HexRadix \in Nat
  BY ParseAssumption
<1>3. Len(g) \in Nat \ {0} /\ 1 \in 1..Len(g)
  BY <1>1, <1>2
<1>4. g # <<>>
  BY <1>3
<1>5. g[1] \in isHex
  BY <1>1, <1>3, ElementOfSeq
<1> QED
  BY <1>1, <1>2, <1>3, <1>4, <1>5, CharsOf, NumberIsNat

LEMMA PiecesAre ==
    ASSUME NEW gs \in Pieces
    PROVE  /\ gs \in Seq(Text) /\ Len(gs) \in Nat
           /\ \A k \in 1..Len(gs) : gs[k] \in GroupTexts /\ gs[k] \in Text
           /\ Values(gs) \in Seq(Nat) /\ Len(Values(gs)) = Len(gs)
           /\ \A k \in 1..Len(gs) : Values(gs)[k] = Number(gs[k], HexRadix)
<1>1. Len(gs) \in Nat /\ \A k \in 1..Len(gs) : gs[k] \in GroupTexts
  BY LenProperties, ElementOfSeq DEF Pieces
<1>2. GroupTexts \subseteq Text
  BY GroupText
<1>3. gs \in Seq(Text)
  BY <1>2, SeqMonotonic DEF Pieces
<1>4. Values(gs) \in [1..Len(gs) -> Nat]
  BY <1>1, GroupText DEF Values
<1>5. Values(gs) \in Seq(Nat)
  BY <1>1, <1>4, SeqDef
<1>6. Len(Values(gs)) = Len(gs)
  <2>1. DOMAIN Values(gs) = 1..Len(gs)
    BY DEF Values
  <2> QED
    BY <1>1, <1>5, <2>1, LenProperties
<1> QED
  BY <1>1, <1>2, <1>3, <1>5, <1>6 DEF Values

LEMMA AssocNat ==
    ASSUME NEW p \in Seq(Nat), NEW o \in Seq(Nat), NEW r \in Seq(Nat)
    PROVE  (p \o o) \o r = p \o (o \o r) /\ p \o o \in Seq(Nat) /\ o \o r \in Seq(Nat)
<1>1. Associates(p, o, r, Nat)
  BY Association
<1> QED
  BY <1>1 DEF Associates

\* A sequence of one more piece.
LEMMA MorePieces ==
    ASSUME NEW g \in GroupTexts, NEW gs \in Pieces
    PROVE  /\ <<g>> \o gs \in Pieces /\ Len(<<g>> \o gs) = Len(gs) + 1
           /\ (<<g>> \o gs)[1] = g /\ \A k \in 1..Len(gs) : (<<g>> \o gs)[k + 1] = gs[k]
           /\ Values(<<g>> \o gs) = <<Number(g, HexRadix)>> \o Values(gs)
<1> DEFINE d == <<g>>
           t == d \o gs
           v == <<Number(g, HexRadix)>>
<1>1. d \in Pieces /\ Len(d) = 1 /\ d[1] = g
  BY DEF Pieces
<1>2. v \in Seq(Nat) /\ Len(v) = 1 /\ v[1] = Number(g, HexRadix)
  BY GroupText
<1> HIDE DEF d, v
<1>3. Len(gs) \in Nat
  BY PiecesAre
<1>4. /\ t \in Pieces /\ Len(t) = Len(d) + Len(gs)
      /\ \A k \in 1..Len(d) + Len(gs) : t[k] = IF k <= Len(d) THEN d[k] ELSE gs[k - Len(d)]
  BY <1>1, ConcatProperties DEF Pieces
<1> HIDE DEF t
<1>5. Len(t) = Len(gs) + 1 /\ t[1] = g /\ \A k \in 1..Len(gs) : t[k + 1] = gs[k]
  BY <1>1, <1>3, <1>4
<1>6. Values(t) = v \o Values(gs)
  <2> DEFINE w == Values(gs)
             u == v \o w
  <2>1. w \in Seq(Nat) /\ Len(w) = Len(gs) /\ \A k \in 1..Len(gs) : w[k] = Number(gs[k], HexRadix)
    BY PiecesAre
  <2> HIDE DEF w
  <2>2. /\ Values(t) \in Seq(Nat) /\ Len(Values(t)) = Len(gs) + 1
        /\ \A k \in 1..Len(gs) + 1 : Values(t)[k] = Number(t[k], HexRadix)
    BY <1>4, <1>5, PiecesAre
  <2>3. /\ u \in Seq(Nat) /\ Len(u) = Len(v) + Len(w)
        /\ \A k \in 1..Len(v) + Len(w) : u[k] = IF k <= Len(v) THEN v[k] ELSE w[k - Len(v)]
    <3>1. Concats(v, w, Nat)
      BY <1>2, <2>1, Concat
    <3> QED
      BY <3>1 DEF Concats
  <2> HIDE DEF u
  <2>4. Len(u) = Len(gs) + 1 /\ u[1] = Number(g, HexRadix)
        /\ \A k \in 1..Len(gs) : u[k + 1] = Number(gs[k], HexRadix)
    <3>1. Len(u) = Len(gs) + 1
      BY <1>2, <2>1, <2>3
    <3>2. \A k \in 1..Len(gs) + 1 : u[k] = IF k <= 1 THEN v[k] ELSE w[k - 1]
      BY <1>2, <1>3, <2>1, <2>3
    <3>3. \A k \in 1..Len(gs) : k + 1 \in 1..Len(gs) + 1 /\ ~(k + 1 <= 1) /\ (k + 1) - 1 = k
      BY <1>3
    <3>4. 1 \in 1..Len(gs) + 1 /\ 1 <= 1
      BY <1>3
    <3>5. u[1] = Number(g, HexRadix)
      BY <1>2, <3>2, <3>4
    <3>6. \A k \in 1..Len(gs) : u[k + 1] = Number(gs[k], HexRadix)
      BY <2>1, <3>2, <3>3
    <3> QED
      BY <3>1, <3>5, <3>6
  <2>5. ASSUME NEW k \in 1..Len(gs) + 1 PROVE Values(t)[k] = u[k]
    <3>1. CASE k = 1
      BY <1>5, <2>2, <2>4, <3>1
    <3>2. CASE k # 1
      <4>1. k - 1 \in 1..Len(gs) /\ (k - 1) + 1 = k
        BY <1>3, <3>2
      <4>2. Values(t)[k] = Number(t[(k - 1) + 1], HexRadix)
        BY <2>2, <4>1
      <4>3. u[k] = Number(gs[k - 1], HexRadix)
        BY <2>4, <4>1
      <4> QED
        BY <1>5, <4>1, <4>2, <4>3
    <3> QED
      BY <3>1, <3>2
  <2>6. Values(t) = u
    BY <2>2, <2>3, <2>4, <2>5, SeqEqual
  <2> QED
    BY <2>6 DEF u, w
<1> QED
  BY <1>4, <1>5, <1>6 DEF t, d, v

\* A sequence of pieces is empty or starts with one.
LEMMA FirstPiece ==
    ASSUME NEW gs \in Pieces, gs # <<>>
    PROVE  \E g \in GroupTexts, hs \in Pieces : gs = <<g>> \o hs
<1>1. Len(gs) \in Nat \ {0} /\ \A k \in 1..Len(gs) : gs[k] \in GroupTexts
  BY EmptySeq, PiecesAre DEF Pieces
<1>2. 1 \in 1..Len(gs) /\ Len(gs) \in 1..Len(gs)
  BY <1>1
<1>3. gs = SubSeq(gs, 1, Len(gs))
  BY SubSeqFull DEF Pieces
<1>4. SubSeq(gs, 1, Len(gs)) = <<gs[1]>> \o SubSeq(gs, 1 + 1, Len(gs))
  BY <1>2, SubSeqRecursiveFirst DEF Pieces
<1>5. SubSeq(gs, 1 + 1, Len(gs)) \in Pieces
  <2>1. 1 + 1 \in Int /\ Len(gs) \in Int /\ \A k \in 1 + 1..Len(gs) : gs[k] \in GroupTexts
    BY <1>1
  <2> QED
    BY <2>1, SubSeqProperties DEF Pieces
<1> QED
  BY <1>1, <1>2, <1>3, <1>4, <1>5

LEMMA JoinedNone == Joined(":", <<>>) = <<>>
<1>1. PICK j : Joining(":", <<>>, j)
  BY JoinedIs, CharsOf, EmptySeq
<1> QED
  BY <1>1 DEF Joining, Joins

\* Joined from its front.
LEMMA JoinedMore ==
    ASSUME NEW g \in GroupTexts, NEW gs \in Pieces
    PROVE  /\ Joined(":", gs) \in Text
           /\ Joined(":", <<g>> \o gs) = IF gs = <<>> THEN g
                                         ELSE g \o (<<":">> \o Joined(":", gs))
<1> DEFINE c  == <<":">>
           ts == <<g>> \o gs
           L  == Len(gs)
<1>1. /\ ts \in Pieces /\ Len(ts) = L + 1
      /\ ts[1] = g /\ \A k \in 1..L : ts[k + 1] = gs[k]
  BY MorePieces
<1>2. /\ gs \in Seq(Text) /\ L \in Nat /\ ts \in Seq(Text) /\ \A k \in 1..L : gs[k] \in Text
      /\ g \in Text
  BY <1>1, PiecesAre, GroupText
<1>3. PICK l : Joining(":", gs, l)
  BY <1>2, CharsOf, JoinedIs
<1> HIDE DEF ts
<1>4. PICK j : Joining(":", ts, j)
  BY <1>2, CharsOf, JoinedIs
<1>5. /\ \A k \in 0..L : l[k] \in Text
      /\ \A k \in 1..L : l[k] = IF k = 1 THEN gs[1] ELSE l[k - 1] \o c \o gs[k]
      /\ Joined(":", gs) = l[L]
  BY <1>2, <1>3 DEF Joining, Joins
<1>6. /\ \A k \in 1..L + 1 : j[k] = IF k = 1 THEN ts[1] ELSE j[k - 1] \o c \o ts[k]
      /\ Joined(":", ts) = j[L + 1]
  BY <1>1, <1>2, <1>4 DEF Joining, Joins
<1>c. c \in Text
  BY CharsOf
<1> HIDE DEF L, c
<1>7. \A k \in 1..L : j[k + 1] = g \o (c \o l[k])
  <2> DEFINE T == {k \in 1..L : j[k + 1] # g \o (c \o l[k])}
  <2>1. SUFFICES ASSUME T # {} PROVE FALSE
    OBVIOUS
  <2>2. T \in SUBSET Nat
    BY <1>2
  <2>3. PICK d \in T : \A k \in T : d <= k
    BY <2>1, <2>2, LeastNat
  <2>4. d \in 1..L /\ d \in Nat /\ d + 1 \in 1..L + 1 /\ d + 1 # 1 /\ (d + 1) - 1 = d
    BY <1>2, <2>3
  <2>5. j[d + 1] = (j[d] \o c) \o gs[d]
    BY <1>1, <1>6, <2>4
  <2>6. CASE d = 1
    <3>1. 1 \in 1..L + 1 /\ 1 \in 1..L
      BY <1>2, <2>4, <2>6
    <3>2. j[1] = g /\ l[1] = gs[1]
      BY <1>1, <1>5, <1>6, <3>1
    <3>3. (g \o c) \o gs[1] = g \o (c \o gs[1])
      BY <1>2, <1>c, <3>1, Assoc
    <3> QED
      BY <2>3, <2>5, <2>6, <3>2, <3>3
  <2>7. CASE d # 1
    <3>1. d - 1 \in 1..L /\ d - 1 \in 0..L /\ (d - 1) + 1 = d /\ ~(d <= d - 1)
      BY <1>2, <2>4, <2>7
    <3>2. j[d] = g \o (c \o l[d - 1])
      BY <2>3, <3>1
    <3>3. l[d] = (l[d - 1] \o c) \o gs[d]
      BY <1>5, <2>4, <2>7
    <3> DEFINE x == l[d - 1]
               y == c \o x
               z == c \o gs[d]
    <3>4. x \in Text /\ gs[d] \in Text
      BY <1>2, <1>5, <2>4, <3>1
    <3> HIDE DEF x
    <3>5. y \in Text /\ z \in Text
      BY <1>c, <3>4, Assoc
    <3>6. ((g \o y) \o c) \o gs[d] = (g \o y) \o z
      <4> DEFINE e == g \o y
      <4>1. e \in Text
        <5> HIDE DEF y
        <5> QED
          BY <1>2, <3>5, Assoc
      <4> HIDE DEF e
      <4>2. (e \o c) \o gs[d] = e \o (c \o gs[d])
        BY <1>c, <3>4, <4>1, Assoc
      <4> QED
        BY <4>2 DEF e
    <3>7. (g \o y) \o z = g \o (y \o z)
      <4> HIDE DEF y, z
      <4>1. Associates(g, y, z, Alphabet)
        BY <1>2, <3>5, As
      <4> QED
        BY <4>1 DEF Associates
    <3>8. y \o z = c \o (x \o z)
      <4> HIDE DEF z
      <4>1. Associates(c, x, z, Alphabet)
        BY <1>c, <3>4, <3>5, As
      <4> QED
        BY <4>1 DEF Associates
    <3>9. x \o z = (x \o c) \o gs[d]
      <4>1. Associates(x, c, gs[d], Alphabet)
        BY <1>c, <3>4, As
      <4> QED
        BY <4>1 DEF Associates
    <3>10. j[d + 1] = g \o (c \o l[d])
      BY <2>5, <3>2, <3>3, <3>6, <3>7, <3>8, <3>9 DEF x
    <3> QED
      BY <2>3, <3>10
  <2> QED
    BY <2>6, <2>7
<1>8. CASE gs = <<>>
  <2>1. L = 0 /\ 1 \in 1..L + 1
    BY <1>8 DEF L
  <2>2. 0 + 1 = 1 /\ Joined(":", ts) = j[1]
    BY <1>6, <2>1
  <2>3. j[1] = g
    BY <1>1, <1>6, <2>1
  <2>4. L \in 0..L
    BY <2>1
  <2> QED
    BY <1>5, <1>8, <2>2, <2>3, <2>4 DEF ts
<1>9. CASE gs # <<>>
  <2>1. L \in Nat \ {0}
    BY <1>9, EmptySeq DEF L, Pieces
  <2>2. L \in 1..L /\ L \in 0..L
    BY <2>1
  <2> QED
    BY <1>5, <1>6, <1>7, <1>9, <2>2 DEF ts, c
<1> QED
  BY <1>8, <1>9

-----------------------------------------------------------------------------
(* The end of a text, and what its first group leaves.                     *)

Halves(os) == <<QuadOf(os) \div GroupSize, QuadOf(os) % GroupSize>>

PlainEnd(t, x) == \E gs \in Pieces : t = Joined(":", gs) /\ x = Values(gs)
QuadEnd(t, x)  == \E gs \in Pieces, os \in Quads :
                     /\ t = Joined(":", gs) \o (IF gs = <<>> THEN <<>> ELSE <<":">>) \o Joined(".", os)
                     /\ x = Values(gs) \o Halves(os)
EndOf(t, x) == PlainEnd(t, x) \/ QuadEnd(t, x)

\* t is g, a colon and u; x is the number of g and then y.
Led(g, u, y, t, x) == t = g \o (<<":">> \o u) /\ x = <<Number(g, HexRadix)>> \o y

LEMMA HalvesAre ==
    ASSUME NEW os \in Quads PROVE Halves(os) \in Seq(Nat) /\ Len(Halves(os)) = 2
<1> DEFINE q == QuadOf(os)
<1>1. q \in Nat
  BY QuadNumber
<1>2. GroupSize \in Nat \ {0}
  <2>1. OctetSize \in Nat \ {0}
    BY ParseAssumption DEF OctetSize
  <2> QED
    BY <2>1 DEF GroupSize
<1> HIDE DEF q
<1>3. q \div GroupSize \in Nat /\ q % GroupSize \in Nat
  BY <1>1, <1>2
<1> DEFINE h == q \div GroupSize
           l == q % GroupSize
<1> HIDE DEF h, l
<1>4. <<h, l>> \in Seq(Nat) /\ Len(<<h, l>>) = 2
  BY <1>3 DEF h, l
<1> QED
  BY <1>4 DEF Halves, h, l, q

LEMMA QuadFront ==
    ASSUME NEW os \in Quads
    PROVE  /\ Joined(".", os) \in Text /\ os[1] \in Seq(isHex)
           /\ \E z \in Text : Joined(".", os) = os[1] \o (<<".">> \o z)
<1> DEFINE d  == <<".">>
           j1 == os[1]
           j2 == j1 \o d \o os[2]
           j3 == j2 \o d \o os[3]
           r4 == d \o os[4]
           r3 == os[3] \o r4
           r2 == os[2] \o (d \o r3)
<1>1. Joined(".", os) = j3 \o d \o os[4]
  BY QuadJoined
<1>2. os[1] \in Text /\ os[2] \in Text /\ os[3] \in Text /\ os[4] \in Text
  BY QuadsAre
<1>3. d \in Text /\ "." \in Alphabet
  BY CharsOf
<1>4. Peeled(j1, ".", os[2], <<>>) /\ r4 \in Text
  BY <1>2, <1>3, Peel, Assoc, EmptySeq DEF Text
<1>5. j2 \in Text
  BY <1>4 DEF Peeled
<1> HIDE DEF j2, r4
<1>6. Peeled(j2, ".", os[3], r4)
  BY <1>2, <1>3, <1>4, <1>5, Peel
<1>7. j3 \in Text /\ r3 \in Text /\ d \o r3 \in Text /\ j3 \o r4 = j2 \o (d \o r3)
  BY <1>6 DEF Peeled
<1> HIDE DEF j3
<1>8. j3 \o d \o os[4] = j3 \o r4 /\ j3 \o r4 \in Text
  <2>1. Associates(j3, d, os[4], Alphabet)
    BY <1>2, <1>3, <1>7, As
  <2>2. Associates(j3, r4, <<>>, Alphabet)
    BY <1>4, <1>7, As, CharsOf
  <2> QED
    BY <2>1, <2>2 DEF Associates, Text, r4
<1> DEFINE e == d \o r3
<1> HIDE DEF r3, e
<1>9. Peeled(j1, ".", os[2], e)
  BY <1>2, <1>3, <1>7, Peel DEF e
<1>10. os[2] \o e \in Text /\ j2 \o e = j1 \o (d \o (os[2] \o e))
  BY <1>9 DEF Peeled, j2
<1>11. Joined(".", os) = os[1] \o (<<".">> \o (os[2] \o e))
  BY <1>1, <1>7, <1>8, <1>10 DEF e
<1>12. Joined(".", os) \in Text
  BY <1>1, <1>8
<1>13. os[1] \in Seq(isHex)
  <2>1. os[1] \in OctetTexts
    BY QuadsAre
  <2> QED
    BY <2>1, OctetIs, CharsOf
<1> QED
  BY <1>10, <1>11, <1>12, <1>13

LEMMA QuadNotEmpty ==
    ASSUME NEW os \in Quads
    PROVE  Joined(".", os) # <<>> /\ Joined(".", os)[1] \in isHex /\ Len(Joined(".", os)) >= 2
<1>1. PICK z \in Text : Joined(".", os) = os[1] \o (<<".">> \o z)
  BY QuadFront
<1> DEFINE o == os[1]
<1>2. o \in Seq(isDigit) /\ Len(o) \in 1..OctetDigits /\ o \in Text
  BY QuadsAre, OctetIs DEF octet
<1> HIDE DEF o
<1>3. OctetDigits \in Nat /\ Len(z) \in Nat
  BY ParseAssumption, LenProperties DEF Text
<1>4. 1 \in 1..Len(o) /\ Len(o) \in Nat
  BY <1>2, <1>3
<1>5. o[1] \in isHex
  BY <1>2, <1>4, ElementOfSeq, CharsOf
<1> DEFINE d == <<".">>
           e == d \o z
           s == o \o e
<1>6. d \in Text /\ Len(d) = 1
  BY CharsOf
<1> HIDE DEF d
<1>7. e \in Text /\ Len(e) = 1 + Len(z)
  <2>1. Concats(d, z, Alphabet)
    BY <1>6, Concat DEF Text
  <2> QED
    BY <1>6, <2>1 DEF Concats, Text
<1> HIDE DEF e
<1>8. Len(s) = Len(o) + Len(e) /\ \A k \in 1..Len(o) + Len(e) :
                                      s[k] = IF k <= Len(o) THEN o[k] ELSE e[k - Len(o)]
  <2>1. Concats(o, e, Alphabet)
    BY <1>2, <1>7, Concat DEF Text
  <2> QED
    BY <2>1 DEF Concats
<1> HIDE DEF s
<1>9. 1 \in 1..Len(o) + Len(e) /\ 1 <= Len(o)
  BY <1>2, <1>3, <1>7
<1>10. s[1] \in isHex
  BY <1>5, <1>8, <1>9
<1>11. Len(s) >= 2 /\ s # <<>>
  <2>1. Len(s) >= 2
    BY <1>2, <1>3, <1>4, <1>7, <1>8
  <2> QED
    BY <2>1
<1> QED
  BY <1>1, <1>10, <1>11 DEF s, e, d, o

LEMMA PiecesJoined ==
    ASSUME NEW gs \in Pieces
    PROVE  /\ Joined(":", gs) \in Text /\ Values(gs) \in Seq(Nat)
           /\ Joined(":", gs) = <<>> <=> gs = <<>>
           /\ Values(gs) = <<>> <=> gs = <<>>
<1>1. CASE gs = <<>>
  <2>1. Values(gs) = <<>>
    <3>1. Values(gs) \in Seq(Nat) /\ Len(Values(gs)) = 0
      BY <1>1, PiecesAre, EmptySeq
    <3> QED
      BY <3>1, EmptySeq
  <2> QED
    BY <1>1, <2>1, JoinedNone, CharsOf, PiecesAre
<1>2. CASE gs # <<>>
  <2>1. PICK g \in GroupTexts, hs \in Pieces : gs = <<g>> \o hs
    BY <1>2, FirstPiece
  <2>2. /\ Joined(":", hs) \in Text
        /\ Joined(":", gs) = IF hs = <<>> THEN g ELSE g \o (<<":">> \o Joined(":", hs))
    BY <2>1, JoinedMore
  <2>3. g \in Text /\ g # <<>>
    BY GroupText
  <2> DEFINE e == <<":">> \o Joined(":", hs)
  <2>4. e \in Text
    BY <2>2, CharsOf, Assoc
  <2> HIDE DEF e
  <2>5. g \o e \in Text /\ g \o e # <<>>
    BY <2>3, <2>4, ConcatProperties, ConcatEqualIffEmpty DEF Text
  <2>6. Joined(":", gs) \in Text /\ Joined(":", gs) # <<>>
    BY <2>2, <2>3, <2>5 DEF e
  <2>7. Len(Values(gs)) = Len(gs) /\ Len(gs) # 0 /\ Values(gs) \in Seq(Nat)
    BY <1>2, PiecesAre, EmptySeq DEF Pieces
  <2>8. Values(gs) # <<>>
    BY <2>7
  <2> QED
    BY <1>2, <2>6, <2>7, <2>8
<1> QED
  BY <1>1, <1>2

-----------------------------------------------------------------------------
PlainFront(t, x) == \/ t = <<>> /\ x = <<>>
                    \/ t \in GroupTexts /\ x = <<Number(t, HexRadix)>>
                    \/ \E g \in GroupTexts, u \in Text, y \in Seq(Nat) :
                          PlainEnd(u, y) /\ u # <<>> /\ Led(g, u, y, t, x)

LEMMA PlainTyped ==
    ASSUME NEW t, NEW x, PlainEnd(t, x)
    PROVE  t \in Text /\ x \in Seq(Nat) /\ (t = <<>> <=> x = <<>>)
BY PiecesJoined DEF PlainEnd

LEMMA PlainForth ==
    ASSUME NEW t, NEW x, PlainEnd(t, x) PROVE PlainFront(t, x)
<1>1. PICK gs \in Pieces : t = Joined(":", gs) /\ x = Values(gs)
  BY DEF PlainEnd
<1>2. CASE gs = <<>>
  BY <1>1, <1>2, PiecesJoined DEF PlainFront
<1>3. CASE gs # <<>>
  <2>1. PICK g \in GroupTexts, hs \in Pieces : gs = <<g>> \o hs
    BY <1>3, FirstPiece
  <2>2. /\ t = IF hs = <<>> THEN g ELSE g \o (<<":">> \o Joined(":", hs))
        /\ x = <<Number(g, HexRadix)>> \o Values(hs)
    BY <1>1, <2>1, JoinedMore, MorePieces
  <2>3. /\ Joined(":", hs) \in Text /\ Values(hs) \in Seq(Nat)
        /\ Joined(":", hs) = <<>> <=> hs = <<>>
        /\ Values(hs) = <<>> <=> hs = <<>>
    BY PiecesJoined
  <2>4. CASE hs = <<>>
    <3>1. <<Number(g, HexRadix)>> \in Seq(Nat)
      BY GroupText
    <3>2. x = <<Number(g, HexRadix)>>
      BY <2>2, <2>3, <2>4, <3>1, ConcatEmptySeq
    <3> QED
      BY <2>2, <2>4, <3>2 DEF PlainFront
  <2>5. CASE hs # <<>>
    <3> DEFINE u == Joined(":", hs)
               y == Values(hs)
    <3>1. PlainEnd(u, y)
      BY DEF PlainEnd
    <3>2. u \in Text /\ y \in Seq(Nat) /\ u # <<>>
      BY <2>3, <2>5
    <3>3. Led(g, u, y, t, x)
      BY <2>2, <2>5 DEF Led
    <3> HIDE DEF u, y
    <3> QED
      BY <3>1, <3>2, <3>3 DEF PlainFront
  <2> QED
    BY <2>4, <2>5
<1> QED
  BY <1>2, <1>3

LEMMA PlainBack ==
    ASSUME NEW t, NEW x, PlainFront(t, x) PROVE PlainEnd(t, x)
<1>0. <<>> \in Pieces /\ Values(<<>>) = <<>> /\ Joined(":", <<>>) = <<>>
  <2>1. <<>> \in Pieces
    BY EmptySeq DEF Pieces
  <2> QED
    BY <2>1, PiecesJoined, JoinedNone
<1>1. CASE t = <<>> /\ x = <<>>
  BY <1>0, <1>1 DEF PlainEnd
<1>2. CASE t \in GroupTexts /\ x = <<Number(t, HexRadix)>>
  <2>1. /\ <<t>> \o <<>> \in Pieces
        /\ Values(<<t>> \o <<>>) = <<Number(t, HexRadix)>> \o Values(<<>>)
        /\ Joined(":", <<t>> \o <<>>) = t
    BY <1>0, <1>2, MorePieces, JoinedMore
  <2>2. <<Number(t, HexRadix)>> \o <<>> = <<Number(t, HexRadix)>>
    <3>1. <<Number(t, HexRadix)>> \in Seq(Nat)
      BY <1>2, GroupText
    <3> QED
      BY <3>1, ConcatEmptySeq
  <2> QED
    BY <1>0, <1>2, <2>1, <2>2 DEF PlainEnd
<1>3. ASSUME NEW g \in GroupTexts, NEW u \in Text, NEW y \in Seq(Nat),
             PlainEnd(u, y), u # <<>>, Led(g, u, y, t, x)
      PROVE  PlainEnd(t, x)
  <2>1. PICK hs \in Pieces : u = Joined(":", hs) /\ y = Values(hs)
    BY <1>3 DEF PlainEnd
  <2>2. hs # <<>>
    BY <1>3, <2>1, JoinedNone
  <2>3. /\ <<g>> \o hs \in Pieces
        /\ Values(<<g>> \o hs) = <<Number(g, HexRadix)>> \o Values(hs)
        /\ Joined(":", <<g>> \o hs) = g \o (<<":">> \o Joined(":", hs))
    BY <2>2, MorePieces, JoinedMore
  <2>4. t = Joined(":", <<g>> \o hs) /\ x = Values(<<g>> \o hs)
    BY <1>3, <2>1, <2>3 DEF Led
  <2> QED
    BY <2>3, <2>4 DEF PlainEnd
<1> QED
  BY <1>1, <1>2, <1>3 DEF PlainFront

LEMMA QuadTyped ==
    ASSUME NEW t, NEW x, QuadEnd(t, x)
    PROVE  t \in Text /\ x \in Seq(Nat) /\ t # <<>> /\ x # <<>>
<1>1. PICK gs \in Pieces, os \in Quads :
        /\ t = Joined(":", gs) \o (IF gs = <<>> THEN <<>> ELSE <<":">>) \o Joined(".", os)
        /\ x = Values(gs) \o Halves(os)
  BY DEF QuadEnd
<1> DEFINE p == Joined(":", gs)
           c == IF gs = <<>> THEN <<>> ELSE <<":">>
           q == Joined(".", os)
           h == Halves(os)
           v == Values(gs)
<1>2. p \in Text /\ c \in Text /\ q \in Text /\ q # <<>> /\ h \in Seq(Nat) /\ h # <<>> /\ v \in Seq(Nat)
  <2>1. h # <<>>
    <3>1. Len(h) = 2
      BY HalvesAre
    <3> HIDE DEF h
    <3> QED
      BY <3>1
  <2> QED
    BY <2>1, PiecesJoined, QuadFront, QuadNotEmpty, HalvesAre, CharsOf
<1>3. t = (p \o c) \o q /\ x = v \o h
  BY <1>1
<1> HIDE DEF p, c, q, h, v
<1> DEFINE e == p \o c
<1>4. e \in Text
  BY <1>2, Assoc
<1> HIDE DEF e
<1>5. e \o q \in Text /\ e \o q # <<>>
  BY <1>2, <1>4, Assoc, ConcatEqualIffEmpty DEF Text
<1>6. v \o h \in Seq(Nat) /\ v \o h # <<>>
  BY <1>2, AssocNat, ConcatEqualIffEmpty
<1> QED
  BY <1>3, <1>5, <1>6 DEF e

QuadLed(t, x) == \/ \E os \in Quads : t = Joined(".", os) /\ x = Halves(os)
                 \/ \E g \in GroupTexts, u \in Text, y \in Seq(Nat) :
                       QuadEnd(u, y) /\ Led(g, u, y, t, x)

LEMMA QuadAlone ==
    ASSUME NEW os \in Quads PROVE QuadEnd(Joined(".", os), Halves(os))
<1> DEFINE q == Joined(".", os)
           h == Halves(os)
<1>1. q \in Text /\ h \in Seq(Nat)
  BY QuadFront, HalvesAre
<1>2. <<>> \in Pieces /\ Values(<<>>) = <<>> /\ Joined(":", <<>>) = <<>>
  <2>1. <<>> \in Pieces
    BY EmptySeq DEF Pieces
  <2> QED
    BY <2>1, PiecesJoined, JoinedNone
<1> HIDE DEF q, h
<1>3. <<>> \o q = q /\ <<>> \o h = h /\ <<>> \o <<>> = <<>>
  BY <1>1, ConcatEmptySeq, EmptySeq DEF Text
<1>4. q = Joined(":", <<>>) \o <<>> \o q /\ h = Values(<<>>) \o h
  BY <1>2, <1>3
<1> QED
  BY <1>2, <1>4 DEF QuadEnd, q, h

\* What stands before a quad, when it is more than one piece.
LEMMA QuadPeel ==
    ASSUME NEW g \in GroupTexts, NEW hs \in Pieces, NEW os \in Quads,
           NEW u, u = Joined(":", hs) \o (IF hs = <<>> THEN <<>> ELSE <<":">>) \o Joined(".", os),
           NEW y, y = Values(hs) \o Halves(os)
    PROVE  Led(g, u, y, Joined(":", <<g>> \o hs) \o <<":">> \o Joined(".", os),
               Values(<<g>> \o hs) \o Halves(os))
<1> DEFINE p == Joined(":", hs)
           c == <<":">>
           q == Joined(".", os)
           h == Halves(os)
           v == Values(hs)
           n1 == <<Number(g, HexRadix)>>
           j == Joined(":", <<g>> \o hs)
<1>1. /\ p \in Text /\ c \in Text /\ q \in Text /\ g \in Text
      /\ h \in Seq(Nat) /\ v \in Seq(Nat) /\ n1 \in Seq(Nat)
  <2>1. p \in Text /\ v \in Seq(Nat)
    BY PiecesJoined
  <2>2. q \in Text /\ h \in Seq(Nat)
    BY QuadFront, HalvesAre
  <2>3. g \in Text /\ n1 \in Seq(Nat)
    BY GroupText
  <2> QED
    BY <2>1, <2>2, <2>3, CharsOf
<1>2. /\ j = IF hs = <<>> THEN g ELSE g \o (c \o p)
      /\ Values(<<g>> \o hs) = n1 \o v
  BY JoinedMore, MorePieces
<1>3. p = <<>> <=> hs = <<>>
  BY PiecesJoined
<1>4. u = (p \o (IF hs = <<>> THEN <<>> ELSE c)) \o q /\ y = v \o h
  OBVIOUS
<1> HIDE DEF p, c, q, h, v, n1, j
<1>5. (n1 \o v) \o h = n1 \o (v \o h)
  BY <1>1, AssocNat
<1>6. (j \o c) \o q = g \o (c \o u)
  <2>1. CASE hs = <<>>
    <3>1. p \o <<>> = <<>> /\ <<>> \o q = q
      BY <1>1, <1>3, <2>1, ConcatEmptySeq, CharsOf DEF Text
    <3>2. u = q
      BY <1>4, <2>1, <3>1
    <3>3. (g \o c) \o q = g \o (c \o q)
      BY <1>1, Assoc
    <3> QED
      BY <1>2, <2>1, <3>2, <3>3
  <2>2. CASE hs # <<>>
    <3> DEFINE e == c \o p
               f == p \o c
               k == c \o f
    <3>1. e \in Text /\ f \in Text /\ e \o c = k /\ k \in Text
      <4>1. Associates(c, p, c, Alphabet)
        BY <1>1, As
      <4> DEFINE l == e \o c
      <4>2. e \in Text /\ f \in Text /\ l = k
        BY <4>1 DEF Associates, Text
      <4>3. k \in Text
        <5> HIDE DEF f
        <5> QED
          BY <1>1, <4>2, Assoc
      <4> QED
        BY <4>2, <4>3
    <3>2. u = f \o q /\ j = g \o e
      BY <1>2, <1>4, <2>2
    <3> HIDE DEF e, f
    <3>3. Associates(g, e, c, Alphabet)
      BY <1>1, <3>1, As
    <3>4. Associates(c, f, q, Alphabet)
      BY <1>1, <3>1, As
    <3> HIDE DEF k
    <3>5. Associates(g, k, q, Alphabet)
      BY <1>1, <3>1, As
    <3> QED
      BY <3>1, <3>2, <3>3, <3>4, <3>5 DEF Associates, k
  <2> QED
    BY <2>1, <2>2
<1> QED
  BY <1>2, <1>4, <1>5, <1>6 DEF Led, j, c, q, h, n1

LEMMA QuadForth ==
    ASSUME NEW t, NEW x, QuadEnd(t, x) PROVE QuadLed(t, x)
<1>1. PICK gs \in Pieces, os \in Quads :
        /\ t = Joined(":", gs) \o (IF gs = <<>> THEN <<>> ELSE <<":">>) \o Joined(".", os)
        /\ x = Values(gs) \o Halves(os)
  BY DEF QuadEnd
<1>2. CASE gs = <<>>
  <2>1. Values(gs) = <<>> /\ Joined(":", gs) = <<>>
    BY <1>2, PiecesJoined
  <2> DEFINE q == Joined(".", os)
             h == Halves(os)
  <2>2. q \in Text /\ h \in Seq(Nat)
    BY QuadFront, HalvesAre
  <2>3. t = (<<>> \o <<>>) \o q /\ x = <<>> \o h
    BY <1>1, <1>2, <2>1
  <2> HIDE DEF q, h
  <2>4. <<>> \o q = q /\ <<>> \o h = h /\ <<>> \o <<>> = <<>>
    BY <2>2, ConcatEmptySeq, EmptySeq DEF Text
  <2>5. t = q /\ x = h
    BY <2>3, <2>4
  <2> QED
    BY <2>5 DEF QuadLed, q, h
<1>3. CASE gs # <<>>
  <2>1. PICK g \in GroupTexts, hs \in Pieces : gs = <<g>> \o hs
    BY <1>3, FirstPiece
  <2> DEFINE u == Joined(":", hs) \o (IF hs = <<>> THEN <<>> ELSE <<":">>) \o Joined(".", os)
             y == Values(hs) \o Halves(os)
  <2>2. QuadEnd(u, y)
    BY DEF QuadEnd
  <2>3. Led(g, u, y, Joined(":", <<g>> \o hs) \o <<":">> \o Joined(".", os),
            Values(<<g>> \o hs) \o Halves(os))
    BY QuadPeel
  <2> HIDE DEF u, y
  <2>4. Led(g, u, y, t, x)
    BY <1>1, <1>3, <2>1, <2>3
  <2>5. u \in Text /\ y \in Seq(Nat)
    BY <2>2, QuadTyped
  <2> QED
    BY <2>2, <2>4, <2>5 DEF QuadLed
<1> QED
  BY <1>2, <1>3

LEMMA QuadBack ==
    ASSUME NEW t, NEW x, QuadLed(t, x) PROVE QuadEnd(t, x)
<1>1. ASSUME NEW os \in Quads, t = Joined(".", os), x = Halves(os) PROVE QuadEnd(t, x)
  BY <1>1, QuadAlone
<1>2. ASSUME NEW g \in GroupTexts, NEW u \in Text, NEW y \in Seq(Nat),
             QuadEnd(u, y), Led(g, u, y, t, x)
      PROVE  QuadEnd(t, x)
  <2>1. PICK hs \in Pieces, os \in Quads :
          /\ u = Joined(":", hs) \o (IF hs = <<>> THEN <<>> ELSE <<":">>) \o Joined(".", os)
          /\ y = Values(hs) \o Halves(os)
    BY <1>2 DEF QuadEnd
  <2>2. Led(g, u, y, Joined(":", <<g>> \o hs) \o <<":">> \o Joined(".", os),
            Values(<<g>> \o hs) \o Halves(os))
    BY <2>1, QuadPeel
  <2>3. <<g>> \o hs \in Pieces /\ <<g>> \o hs # <<>>
    <3>1. <<g>> \o hs \in Pieces /\ Len(<<g>> \o hs) = Len(hs) + 1 /\ Len(hs) \in Nat
      BY MorePieces, PiecesAre
    <3> DEFINE e == <<g>> \o hs
    <3> HIDE DEF e
    <3>2. Len(e) # 0
      BY <3>1 DEF e
    <3>3. e # <<>>
      BY <3>2
    <3> QED
      BY <3>1, <3>3 DEF e
  <2>4. /\ t = Joined(":", <<g>> \o hs) \o <<":">> \o Joined(".", os)
        /\ x = Values(<<g>> \o hs) \o Halves(os)
    BY <1>2, <2>2 DEF Led
  <2> QED
    BY <2>3, <2>4 DEF QuadEnd
<1> QED
  BY <1>1, <1>2 DEF QuadLed

\* What a text that ends an address starts with.
EndFront(t, x) == \/ t = <<>> /\ x = <<>>
                  \/ t \in GroupTexts /\ x = <<Number(t, HexRadix)>>
                  \/ \E os \in Quads : t = Joined(".", os) /\ x = Halves(os)
                  \/ \E g \in GroupTexts, u \in Text, y \in Seq(Nat) :
                        EndOf(u, y) /\ u # <<>> /\ Led(g, u, y, t, x)

LEMMA EndStarts == ASSUME NEW t, NEW x PROVE EndOf(t, x) <=> EndFront(t, x)
<1>1. EndOf(t, x) => EndFront(t, x)
  BY PlainForth, QuadForth, QuadTyped DEF EndOf, EndFront, PlainFront, QuadLed
<1>2. EndFront(t, x) => EndOf(t, x)
  BY PlainBack, QuadBack DEF EndOf, EndFront, PlainFront, QuadLed
<1> QED
  BY <1>1, <1>2

-----------------------------------------------------------------------------
(* A text has one way to start with a group.                               *)

Closed(r) == r = <<>> \/ r[1] \notin isHex

LEMMA HexRun ==
    ASSUME NEW g \in Seq(isHex), NEW h \in Seq(isHex), NEW s \in Text, NEW r \in Text,
           Closed(s), Closed(r), g \o s = h \o r
    PROVE  g = h /\ s = r
<1>1. ASSUME NEW f \in Seq(isHex), NEW w \in Text, Closed(w)
      PROVE  RunEnd(f \o w, 0, isHex) = Len(f) /\ SubSeq(f \o w, 1, Len(f)) = f /\ f \in Text
  <2>1. f \in Text /\ <<>> \in Text /\ \A k \in 1..Len(f) : f[k] \in isHex
    BY CharsOf, ElementOfSeq
  <2>2. w = <<>> \/ w[1] \notin isHex
    BY <1>1 DEF Closed
  <2>3. Scanned((<<>> \o f) \o w, <<>>, f, isHex)
    BY <2>1, <2>2, Scan
  <2>4. <<>> \o f = f /\ Len(<<>>) = 0 /\ Len(f) \in Nat
    BY <2>1, ConcatEmptySeq, LenProperties DEF Text
  <2>5. 0 + Len(f) = Len(f) /\ 0 + 1 = 1
    BY <2>4
  <2> QED
    BY <2>1, <2>3, <2>4, <2>5 DEF Scanned
<1>2. Len(g) = Len(h)
  <2>1. RunEnd(g \o s, 0, isHex) = Len(g) /\ RunEnd(h \o r, 0, isHex) = Len(h)
    BY <1>1
  <2> QED
    BY <2>1
<1>3. g = h
  <2>1. SubSeq(g \o s, 1, Len(g)) = g /\ SubSeq(h \o r, 1, Len(h)) = h
    BY <1>1
  <2> QED
    BY <1>2, <2>1
<1>4. g \in Text /\ g \o s = g \o r
  BY <1>1, <1>3
<1>5. s = r
  BY <1>4, ConcatSimplifications DEF Text
<1> QED
  BY <1>3, <1>5

LEMMA GroupLeads ==
    ASSUME NEW g \in GroupTexts, NEW r \in Text
    PROVE  g \o r \in Text /\ g \o r # <<>> /\ (g \o r)[1] \in isHex
<1>1. g \in Text /\ Len(g) \in Nat \ {0} /\ g[1] \in isHex /\ g # <<>>
  BY GroupText
<1>2. Len(r) \in Nat
  BY LenProperties DEF Text
<1>3. Concats(g, r, Alphabet)
  BY <1>1, Concat DEF Text
<1>4. 1 \in 1..Len(g) + Len(r) /\ 1 <= Len(g)
  BY <1>1, <1>2
<1>5. (g \o r)[1] = g[1]
  BY <1>3, <1>4 DEF Concats
<1>6. g \o r # <<>>
  BY <1>1, ConcatEqualIffEmpty DEF Text
<1> QED
  BY <1>1, <1>3, <1>5, <1>6 DEF Concats, Text

LEMMA ColonLeads ==
    ASSUME NEW u \in Text
    PROVE  /\ <<":">> \o u \in Text /\ Len(<<":">> \o u) = Len(u) + 1 /\ (<<":">> \o u)[1] = ":"
           /\ <<":">> \o u # <<>> /\ Closed(<<":">> \o u)
<1> DEFINE c == <<":">>
           e == c \o u
<1>1. c \in Text /\ Len(c) = 1 /\ c[1] = ":" /\ Len(u) \in Nat
  BY CharsOf, LenProperties DEF Text
<1> HIDE DEF c
<1>2. Concats(c, u, Alphabet)
  BY <1>1, Concat DEF Text
<1>3. 1 \in 1..Len(c) + Len(u) /\ 1 <= Len(c) /\ Len(c) + Len(u) = Len(u) + 1
  BY <1>1
<1>4. e \in Text /\ Len(e) = Len(u) + 1 /\ e[1] = ":"
  BY <1>1, <1>2, <1>3 DEF Concats, Text
<1> HIDE DEF e
<1>5. e # <<>>
  BY <1>1, <1>4
<1> QED
  BY <1>4, <1>5, CharsOf DEF Closed, c, e

LEMMA EndTyped ==
    ASSUME NEW t, NEW x, EndOf(t, x)
    PROVE  /\ t \in Text /\ x \in Seq(Nat) /\ (t = <<>> <=> x = <<>>)
           /\ t # <<>> => t[1] \in isHex
<1>1. t \in Text /\ x \in Seq(Nat) /\ (t = <<>> <=> x = <<>>)
  BY PlainTyped, QuadTyped DEF EndOf
<1>2. CASE t \in GroupTexts
  BY <1>1, <1>2, GroupText
<1>3. CASE \E os \in Quads : t = Joined(".", os)
  BY <1>1, <1>3, QuadNotEmpty
<1>4. ASSUME NEW g \in GroupTexts, NEW u \in Text, t = g \o (<<":">> \o u)
      PROVE  t[1] \in isHex
  BY <1>4, ColonLeads, GroupLeads
<1>5. EndFront(t, x)
  BY EndStarts
<1> QED
  BY <1>1, <1>2, <1>3, <1>4, <1>5 DEF EndFront, Led

-----------------------------------------------------------------------------
(* A text with its gap still to come.                                      *)

Gapped(t, y, z) == \E p \in Text, e \in Text :
                      /\ p # <<>> /\ PlainEnd(p, y) /\ EndOf(e, z)
                      /\ t = p \o <<":", ":">> \o e

GappedFront(t, y, z) ==
    \E g \in GroupTexts :
       \/ \E e \in Text : /\ EndOf(e, z) /\ t = g \o (<<":">> \o (<<":">> \o e))
                          /\ y = <<Number(g, HexRadix)>>
       \/ \E u \in Text, w \in Seq(Nat) : Gapped(u, w, z) /\ Led(g, u, w, t, y)

LEMMA TwoColons ==
    ASSUME NEW p \in Text, NEW e \in Text
    PROVE  /\ p \o <<":", ":">> \o e = p \o (<<":">> \o (<<":">> \o e))
           /\ p \o <<":", ":">> \o e \in Text
<1> DEFINE c == <<":">>
           d == <<":", ":">>
           f == c \o e
           w == c \o f
<1>1. c \in Text /\ d = c \o c
  <2> DEFINE e1 == c \o c
  <2>0. ":" \in Alphabet
    BY CharsOf
  <2>1. Len(c) = 1 /\ c[1] = ":" /\ c \in Text
    BY <2>0 DEF Text
  <2>2. Len(d) = 2 /\ d[1] = ":" /\ d[2] = ":" /\ d \in Text
    BY <2>0 DEF Text
  <2> HIDE DEF c, d
  <2>3. Concats(c, c, Alphabet)
    BY <2>1, Concat DEF Text
  <2>4. e1 \in Text /\ Len(e1) = 2 /\ \A k \in 1..2 : e1[k] = IF k <= 1 THEN c[k] ELSE c[k - 1]
    BY <2>1, <2>3 DEF Concats, Text
  <2>5. 1 \in 1..2 /\ 2 \in 1..2 /\ 1 <= 1 /\ ~(2 <= 1) /\ 2 - 1 = 1
    OBVIOUS
  <2>6. e1[1] = ":" /\ e1[2] = ":"
    BY <2>1, <2>4, <2>5
  <2> HIDE DEF e1
  <2>7. \A k \in 1..2 : k = 1 \/ k = 2
    OBVIOUS
  <2>8. \A k \in 1..Len(d) : d[k] = e1[k]
    BY <2>2, <2>6, <2>7
  <2>9. d = e1
    BY <2>2, <2>4, <2>8, SeqEqual DEF Text
  <2> QED
    BY <2>1, <2>9 DEF e1
<1> HIDE DEF c, d
<1>2. d \in Text /\ f \in Text
  BY <1>1, Assoc
<1>3. d \o e = c \o f
  BY <1>1, Assoc
<1>4. w \in Text
  <2> HIDE DEF f
  <2> QED
    BY <1>1, <1>2, Assoc
<1>5. (p \o d) \o e = p \o (d \o e)
  <2>1. Associates(p, d, e, Alphabet)
    BY <1>2, As
  <2> QED
    BY <2>1 DEF Associates
<1>6. p \o w \in Text
  <2> HIDE DEF w
  <2> QED
    BY <1>4, Assoc
<1> QED
  BY <1>3, <1>5, <1>6 DEF c, d

Chain(g, c, u, d) == (g \o (c \o u)) \o d = g \o (c \o (u \o d))

LEMMA Chained ==
    ASSUME NEW g \in Text, NEW c \in Text, NEW u \in Text, NEW d \in Text
    PROVE  Chain(g, c, u, d)
<1> DEFINE f == c \o u
<1>1. Associates(c, u, d, Alphabet)
  BY As
<1>2. f \in Text /\ f \o d = c \o (u \o d)
  BY <1>1 DEF Associates, Text
<1> HIDE DEF f
<1>3. Associates(g, f, d, Alphabet)
  BY <1>2, As
<1> QED
  BY <1>2, <1>3 DEF Associates, f, Chain

LEMMA GapMoves ==
    ASSUME NEW g \in Text, NEW u \in Text, NEW e \in Text
    PROVE  (g \o (<<":">> \o u)) \o <<":", ":">> \o e = g \o (<<":">> \o (u \o <<":", ":">> \o e))
<1> DEFINE c == <<":">>
           d == c \o (c \o e)
           h == g \o (c \o u)
<1>1. c \in Text /\ d \in Text /\ c \o u \in Text
  BY CharsOf, ColonLeads
<1>2. u \o <<":", ":">> \o e = u \o d
  BY TwoColons
<1>3. h \in Text
  <2> DEFINE f == c \o u
  <2>1. f \in Text
    BY <1>1
  <2> HIDE DEF f
  <2>2. g \o f \in Text
    BY <2>1, Assoc
  <2> QED
    BY <2>2 DEF f
<1>4. h \o <<":", ":">> \o e = h \o d
  <2> HIDE DEF h
  <2> QED
    BY <1>3, TwoColons
<1> HIDE DEF c, d
<1>5. Chain(g, c, u, d)
  BY <1>1, Chained
<1> QED
  BY <1>2, <1>4, <1>5 DEF c, Chain

LEMMA GappedForth ==
    ASSUME NEW t, NEW y, NEW z, Gapped(t, y, z) PROVE GappedFront(t, y, z)
<1>1. PICK p \in Text, e \in Text : /\ p # <<>> /\ PlainEnd(p, y) /\ EndOf(e, z)
                                    /\ t = p \o <<":", ":">> \o e
  BY DEF Gapped
<1>2. PlainFront(p, y)
  BY <1>1, PlainForth
<1>3. CASE p \in GroupTexts /\ y = <<Number(p, HexRadix)>>
  BY <1>1, <1>3, TwoColons DEF GappedFront
<1>4. ASSUME NEW g \in GroupTexts, NEW u \in Text, NEW w \in Seq(Nat),
             PlainEnd(u, w), u # <<>>, Led(g, u, w, p, y)
      PROVE  GappedFront(t, y, z)
  <2> DEFINE v == u \o <<":", ":">> \o e
  <2>1. v \in Text /\ Gapped(v, w, z)
    BY <1>1, <1>4, TwoColons DEF Gapped
  <2>2. g \in Text
    BY GroupText
  <2>3. t = g \o (<<":">> \o v)
    BY <1>1, <1>4, <2>2, GapMoves DEF Led
  <2> HIDE DEF v
  <2>4. Led(g, v, w, t, y)
    BY <1>4, <2>3 DEF Led
  <2> QED
    BY <2>1, <2>4 DEF GappedFront
<1> QED
  BY <1>1, <1>2, <1>3, <1>4 DEF PlainFront

LEMMA GappedBack ==
    ASSUME NEW t, NEW y, NEW z, GappedFront(t, y, z) PROVE Gapped(t, y, z)
<1>1. PICK g \in GroupTexts :
       \/ \E e \in Text : /\ EndOf(e, z) /\ t = g \o (<<":">> \o (<<":">> \o e))
                          /\ y = <<Number(g, HexRadix)>>
       \/ \E u \in Text, w \in Seq(Nat) : Gapped(u, w, z) /\ Led(g, u, w, t, y)
  BY DEF GappedFront
<1>2. g \in Text /\ g # <<>> /\ PlainEnd(g, <<Number(g, HexRadix)>>)
  BY GroupText, PlainBack DEF PlainFront
<1>3. ASSUME NEW e \in Text, EndOf(e, z), t = g \o (<<":">> \o (<<":">> \o e)),
             y = <<Number(g, HexRadix)>>
      PROVE  Gapped(t, y, z)
  <2>1. t = g \o <<":", ":">> \o e
    BY <1>2, <1>3, TwoColons
  <2> QED
    BY <1>2, <1>3, <2>1 DEF Gapped
<1>4. ASSUME NEW u \in Text, NEW w \in Seq(Nat), Gapped(u, w, z), Led(g, u, w, t, y)
      PROVE  Gapped(t, y, z)
  <2>1. PICK p \in Text, e \in Text : /\ p # <<>> /\ PlainEnd(p, w) /\ EndOf(e, z)
                                      /\ u = p \o <<":", ":">> \o e
    BY <1>4 DEF Gapped
  <2> DEFINE q == g \o (<<":">> \o p)
  <2>2. q \in Text /\ q # <<>>
    BY ColonLeads, GroupLeads
  <2>3. t = q \o <<":", ":">> \o e
    <3>1. t = g \o (<<":">> \o u)
      BY <1>4 DEF Led
    <3>2. q \o <<":", ":">> \o e = g \o (<<":">> \o (p \o <<":", ":">> \o e))
      BY <1>2, GapMoves
    <3> QED
      BY <2>1, <3>1, <3>2
  <2>4. Led(g, p, w, q, y)
    BY <1>4 DEF Led
  <2> HIDE DEF q
  <2>5. PlainEnd(q, y)
    BY <2>1, <2>4, PlainBack DEF PlainFront
  <2> QED
    BY <2>1, <2>2, <2>3, <2>5 DEF Gapped
<1> QED
  BY <1>1, <1>3, <1>4

LEMMA GappedTyped ==
    ASSUME NEW t, NEW y, NEW z, Gapped(t, y, z)
    PROVE  /\ t \in Text /\ t # <<>> /\ t[1] \in isHex
           /\ y \in Seq(Nat) /\ y # <<>> /\ z \in Seq(Nat)
<1>1. GappedFront(t, y, z)
  BY GappedForth
<1>2. \E g \in GroupTexts, r \in Text : t = g \o r
  <2>1. \A g \in GroupTexts, e \in Text : <<":">> \o (<<":">> \o e) \in Text
    BY ColonLeads
  <2>2. \A g \in GroupTexts, e \in Text : <<":">> \o e \in Text
    BY ColonLeads
  <2>3. PICK g \in GroupTexts :
          \/ \E e \in Text : t = g \o (<<":">> \o (<<":">> \o e))
          \/ \E u \in Text : t = g \o (<<":">> \o u)
    BY <1>1 DEF GappedFront, Led
  <2> QED
    BY <2>1, <2>2, <2>3
<1>3. y \in Seq(Nat) /\ y # <<>> /\ z \in Seq(Nat)
  BY PlainTyped, EndTyped DEF Gapped
<1> QED
  BY <1>2, <1>3, GroupLeads

-----------------------------------------------------------------------------
(* What completes an address.                                              *)

\* With m groups read, and a gap after h of them unless h < 0: the text t adds
\* the numbers x, and the gap of the address comes after gp groups.
Counts(m, h) == IF h < 0 THEN m = NGroups ELSE m < NGroups
Completes(t, m, h, x, gp) ==
    \/ EndOf(t, x) /\ gp = h /\ Counts(m + Len(x), h)
    \/ /\ h < 0
       /\ \E y \in Seq(Nat), z \in Seq(Nat) :
             /\ Gapped(t, y, z) /\ x = y \o z
             /\ gp = m + Len(y) /\ m + Len(x) < NGroups

\* From the text t to u, past groups with the numbers d.
Advances(t, m, h, u, k, g, d) ==
    \A x, gp : Completes(t, m, h, x, gp)
                 <=> \E y \in Seq(Nat) : x = d \o y /\ Completes(u, k, g, y, gp)
Stuck(t, m, h) == \A x, gp : ~Completes(t, m, h, x, gp)

LEMMA CompletesTyped ==
    ASSUME NEW t, NEW m, NEW h, NEW x, NEW gp, Completes(t, m, h, x, gp)
    PROVE  x \in Seq(Nat) /\ Len(x) \in Nat
<1>1. EndOf(t, x) => x \in Seq(Nat)
  BY EndTyped
<1>2. ASSUME NEW y \in Seq(Nat), NEW z \in Seq(Nat), x = y \o z PROVE x \in Seq(Nat)
  BY <1>2, AssocNat
<1>3. x \in Seq(Nat)
  BY <1>1, <1>2 DEF Completes
<1> QED
  BY <1>3, LenProperties

LEMMA EmptyEnd == ASSUME NEW x PROVE EndOf(<<>>, x) <=> x = <<>>
BY EndTyped, EndStarts DEF EndFront

LEMMA CompletesEmpty ==
    ASSUME NEW m \in Nat, NEW h, NEW x, NEW gp
    PROVE  Completes(<<>>, m, h, x, gp) <=> x = <<>> /\ gp = h /\ Counts(m, h)
<1>1. ~\E y, z : Gapped(<<>>, y, z)
  BY GappedTyped
<1>2. Len(<<>>) = 0 /\ m + 0 = m
  OBVIOUS
<1> QED
  BY <1>1, <1>2, EmptyEnd DEF Completes

\* No quad starts like a group with its separator.
LEMMA QuadNoGroup ==
    ASSUME NEW os \in Quads, NEW g \in GroupTexts, NEW r \in Text, r = <<>> \/ r[1] = ":"
    PROVE  Joined(".", os) # g \o r
<1>1. PICK z \in Text : Joined(".", os) = os[1] \o (<<".">> \o z)
  BY QuadFront
<1> DEFINE e == <<".">> \o z
<1>2. e \in Text /\ e[1] = "." /\ e # <<>>
  <2>1. Peeled(<<>>, ".", z, <<>>)
    BY CharsOf, Peel
  <2>2. z \o <<>> = z
    BY ConcatEmptySeq DEF Text
  <2> QED
    BY <2>1, <2>2 DEF Peeled
<1> HIDE DEF e
<1>3. Closed(e) /\ Closed(r)
  BY <1>2, CharsOf DEF Closed
<1>4. ASSUME os[1] \o e = g \o r PROVE FALSE
  <2>1. os[1] \in Seq(isHex) /\ g \in Seq(isHex)
    BY QuadFront, GroupText
  <2>2. e = r
    BY <1>2, <1>3, <1>4, <2>1, HexRun
  <2> QED
    BY <1>2, <2>2
<1> QED
  BY <1>1, <1>4 DEF e

LEMMA QuadEndIs ==
    ASSUME NEW os \in Quads, NEW x
    PROVE  /\ EndOf(Joined(".", os), x) <=> x = Halves(os)
           /\ ~\E y, z : Gapped(Joined(".", os), y, z)
<1> DEFINE t == Joined(".", os)
<1>1. t \in Text /\ t # <<>> /\ parseAddr4(t) = [ok |-> TRUE, ip |-> QuadOf(os)]
  BY QuadFront, QuadNotEmpty, QuadRead
<1>2. t \notin GroupTexts
  <2>1. ASSUME t \in GroupTexts PROVE FALSE
    <3>1. t \o <<>> = t /\ <<>> \in Text
      BY <1>1, ConcatEmptySeq, CharsOf DEF Text
    <3> QED
      BY <2>1, <3>1, QuadNoGroup
  <2> QED
    BY <2>1
<1>3. \A g \in GroupTexts, u \in Text : t # g \o (<<":">> \o u)
  BY ColonLeads, QuadNoGroup
<1>4. ASSUME EndOf(t, x) PROVE x = Halves(os)
  <2>1. EndFront(t, x)
    BY <1>4, EndStarts
  <2>2. PICK o2 \in Quads : t = Joined(".", o2) /\ x = Halves(o2)
    BY <1>1, <1>2, <1>3, <2>1 DEF EndFront, Led
  <2>3. parseAddr4(t) = [ok |-> TRUE, ip |-> QuadOf(o2)]
    BY <2>2, QuadRead
  <2>4. QuadOf(o2) = QuadOf(os)
    BY <1>1, <2>3
  <2> QED
    BY <2>2, <2>4 DEF Halves
<1>5. EndOf(t, Halves(os))
  BY QuadAlone DEF EndOf
<1>6. ASSUME NEW y, NEW z, Gapped(t, y, z) PROVE FALSE
  <2>1. GappedFront(t, y, z)
    BY <1>6, GappedForth
  <2>2. \A e \in Text : <<":">> \o e \in Text
    BY ColonLeads
  <2>3. \E g \in GroupTexts, u \in Text : t = g \o (<<":">> \o u)
    BY <2>1, <2>2 DEF GappedFront, Led
  <2> QED
    BY <1>3, <2>3
<1> QED
  BY <1>4, <1>5, <1>6

LEMMA QuadAdvances ==
    ASSUME NEW os \in Quads, NEW m \in Nat, NEW h
    PROVE  Advances(Joined(".", os), m, h, <<>>, m + 2, h, Halves(os))
<1> DEFINE t == Joined(".", os)
           d == Halves(os)
<1>1. d \in Seq(Nat) /\ Len(d) = 2
  BY HalvesAre
<1>2. /\ \A x : EndOf(t, x) <=> x = d
      /\ ~\E y, z : Gapped(t, y, z)
  BY QuadEndIs
<1>3. m + 2 \in Nat
  OBVIOUS
<1>4. \A y, gp : Completes(<<>>, m + 2, h, y, gp) <=> y = <<>> /\ gp = h /\ Counts(m + 2, h)
  BY <1>3, CompletesEmpty
<1> HIDE DEF t, d
<1>5. d \o <<>> = d /\ <<>> \in Seq(Nat)
  BY <1>1, ConcatEmptySeq, EmptySeq
<1>6. \A x, gp : Completes(t, m, h, x, gp) <=> x = d /\ gp = h /\ Counts(m + 2, h)
  BY <1>1, <1>2 DEF Completes
<1>7. ASSUME NEW x, NEW gp
      PROVE  Completes(t, m, h, x, gp)
               <=> \E y \in Seq(Nat) : x = d \o y /\ Completes(<<>>, m + 2, h, y, gp)
  <2>1. ASSUME NEW y \in Seq(Nat), x = d \o y, Completes(<<>>, m + 2, h, y, gp)
        PROVE  x = d /\ gp = h /\ Counts(m + 2, h)
    <3>1. y = <<>> /\ gp = h /\ Counts(m + 2, h)
      BY <1>4, <2>1
    <3> QED
      BY <1>5, <2>1, <3>1
  <2>2. ASSUME x = d, gp = h, Counts(m + 2, h)
        PROVE  <<>> \in Seq(Nat) /\ x = d \o <<>> /\ Completes(<<>>, m + 2, h, <<>>, gp)
    BY <1>4, <1>5, <2>2
  <2> QED
    BY <1>6, <2>1, <2>2
<1>8. Advances(t, m, h, <<>>, m + 2, h, d)
  BY <1>7 DEF Advances
<1> QED
  BY <1>8 DEF t, d

-----------------------------------------------------------------------------
(* A text that starts with a run of hex digits and is no quad.             *)

NoQuad(t) == ~\E os \in Quads : t = Joined(".", os)
Splits(t, run, r) == /\ run \in Seq(isHex) /\ r \in Text /\ Closed(r) /\ t = run \o r
                     /\ t # <<>> /\ NoQuad(t)

\* t is the group g, a colon and u.
Heads(t, g, u) == t = g \o (<<":">> \o u)

LEMMA SplitHead ==
    ASSUME NEW t, NEW run, NEW r, Splits(t, run, r),
           NEW g \in GroupTexts, NEW u \in Text, Heads(t, g, u)
    PROVE  run = g /\ r = <<":">> \o u
<1> DEFINE s == <<":">> \o u
<1>1. s \in Text /\ Closed(s)
  BY ColonLeads
<1>2. run \in Seq(isHex) /\ r \in Text /\ Closed(r) /\ run \o r = g \o s /\ g \in Seq(isHex)
  BY GroupText DEF Splits, Heads
<1> HIDE DEF s
<1>3. run = g /\ r = s
  BY <1>1, <1>2, HexRun
<1> QED
  BY <1>3 DEF s

LEMMA SplitBack ==
    ASSUME NEW t, NEW run, NEW r, Splits(t, run, r), NEW u, r = <<":">> \o u
    PROVE  Heads(t, run, u)
BY DEF Splits, Heads

LEMMA SplitAlone ==
    ASSUME NEW t, NEW run, NEW r, Splits(t, run, r)
    PROVE  /\ t \in GroupTexts => run = t /\ r = <<>>
           /\ r = <<>> => t = run
<1>0. run \in Seq(isHex) /\ r \in Text /\ Closed(r) /\ t = run \o r
  BY DEF Splits
<1>1. ASSUME t \in GroupTexts PROVE run = t /\ r = <<>>
  <2>1. t \o <<>> = t /\ <<>> \in Text /\ Closed(<<>>) /\ t \in Seq(isHex)
    BY <1>1, GroupText, ConcatEmptySeq, CharsOf DEF Text, Closed
  <2>2. run \o r = t \o <<>>
    BY <1>0, <2>1
  <2> QED
    BY <1>0, <2>1, <2>2, HexRun
<1>2. ASSUME r = <<>> PROVE t = run
  BY <1>0, <1>2, ConcatEmptySeq
<1> QED
  BY <1>1, <1>2

\* A colon in front of a text.
Colon(u) == <<":">> \o u

EndSplit(run, r, x) ==
    /\ run \in GroupTexts
    /\ \/ r = <<>> /\ x = <<Number(run, HexRadix)>>
       \/ \E u \in Text, y \in Seq(Nat) :
             EndOf(u, y) /\ u # <<>> /\ r = Colon(u) /\ x = <<Number(run, HexRadix)>> \o y
GapSplit(run, r, y, z) ==
    /\ run \in GroupTexts
    /\ \/ \E e \in Text : EndOf(e, z) /\ r = Colon(Colon(e)) /\ y = <<Number(run, HexRadix)>>
       \/ \E u \in Text, w \in Seq(Nat) :
             Gapped(u, w, z) /\ r = Colon(u) /\ y = <<Number(run, HexRadix)>> \o w

LEMMA SplitEnd ==
    ASSUME NEW t, NEW run, NEW r, Splits(t, run, r), NEW x
    PROVE  EndOf(t, x) <=> EndSplit(run, r, x)
<1>1. t # <<>> /\ NoQuad(t)
  BY DEF Splits
<1>2. ASSUME EndOf(t, x)
      PROVE  /\ run \in GroupTexts
             /\ \/ r = <<>> /\ x = <<Number(run, HexRadix)>>
                \/ \E u \in Text, y \in Seq(Nat) : /\ EndOf(u, y) /\ u # <<>> /\ r = <<":">> \o u
                                                   /\ x = <<Number(run, HexRadix)>> \o y
  <2>1. EndFront(t, x)
    BY <1>2, EndStarts
  <2>2. CASE t \in GroupTexts /\ x = <<Number(t, HexRadix)>>
    BY <2>2, SplitAlone
  <2>3. ASSUME NEW g \in GroupTexts, NEW u \in Text, NEW y \in Seq(Nat),
               EndOf(u, y), u # <<>>, Led(g, u, y, t, x)
        PROVE  /\ run \in GroupTexts
               /\ EndOf(u, y) /\ u # <<>> /\ r = <<":">> \o u /\ x = <<Number(run, HexRadix)>> \o y
    <3>1. Heads(t, g, u)
      BY <2>3 DEF Led, Heads
    <3>2. run = g /\ r = <<":">> \o u
      BY <3>1, SplitHead
    <3> QED
      BY <2>3, <3>2 DEF Led
  <2> QED
    BY <1>1, <2>1, <2>2, <2>3 DEF EndFront, NoQuad
<1>3. ASSUME run \in GroupTexts, r = <<>>, x = <<Number(run, HexRadix)>> PROVE EndOf(t, x)
  BY <1>3, SplitAlone, EndStarts DEF EndFront
<1>4. ASSUME run \in GroupTexts, NEW u \in Text, NEW y \in Seq(Nat), EndOf(u, y), u # <<>>,
             r = <<":">> \o u, x = <<Number(run, HexRadix)>> \o y
      PROVE  EndOf(t, x)
  <2>1. Heads(t, run, u)
    BY <1>4, SplitBack
  <2>2. Led(run, u, y, t, x)
    BY <1>4, <2>1 DEF Led, Heads
  <2> QED
    BY <1>4, <2>2, EndStarts DEF EndFront
<1> QED
  BY <1>2, <1>3, <1>4 DEF EndSplit, Colon

LEMMA SplitGap ==
    ASSUME NEW t, NEW run, NEW r, Splits(t, run, r), NEW y, NEW z
    PROVE  Gapped(t, y, z) <=> GapSplit(run, r, y, z)
<1>1. \A e \in Text : <<":">> \o e \in Text
  BY ColonLeads
<1>2. ASSUME NEW g \in GroupTexts, NEW e \in Text, EndOf(e, z),
             t = g \o (<<":">> \o (<<":">> \o e)), y = <<Number(g, HexRadix)>>
      PROVE  run \in GroupTexts /\ r = <<":">> \o (<<":">> \o e) /\ y = <<Number(run, HexRadix)>>
  <2> DEFINE u == <<":">> \o e
  <2>1. u \in Text
    BY <1>1
  <2>2. Heads(t, g, u)
    BY <1>2 DEF Heads
  <2> HIDE DEF u
  <2>3. run = g /\ r = <<":">> \o u
    BY <2>1, <2>2, SplitHead
  <2> QED
    BY <1>2, <2>3 DEF u
<1>3. ASSUME NEW g \in GroupTexts, NEW u \in Text, NEW w \in Seq(Nat),
             Gapped(u, w, z), Led(g, u, w, t, y)
      PROVE  run \in GroupTexts /\ r = <<":">> \o u /\ y = <<Number(run, HexRadix)>> \o w
  <2>1. Heads(t, g, u)
    BY <1>3 DEF Led, Heads
  <2>2. run = g /\ r = <<":">> \o u
    BY <2>1, SplitHead
  <2> QED
    BY <1>3, <2>2 DEF Led
<1>4. ASSUME run \in GroupTexts, NEW e \in Text, EndOf(e, z), r = <<":">> \o (<<":">> \o e),
             y = <<Number(run, HexRadix)>>
      PROVE  GappedFront(t, y, z)
  <2>1. Heads(t, run, <<":">> \o e)
    BY <1>4, SplitBack
  <2> QED
    BY <1>4, <2>1 DEF GappedFront, Heads
<1>5. ASSUME run \in GroupTexts, NEW u \in Text, NEW w \in Seq(Nat), Gapped(u, w, z),
             r = <<":">> \o u, y = <<Number(run, HexRadix)>> \o w
      PROVE  GappedFront(t, y, z)
  <2>1. Heads(t, run, u)
    BY <1>5, SplitBack
  <2>2. Led(run, u, w, t, y)
    BY <1>5, <2>1 DEF Led, Heads
  <2> QED
    BY <1>5, <2>2 DEF GappedFront
<1>6. Gapped(t, y, z) <=> GappedFront(t, y, z)
  BY GappedForth, GappedBack
<1> QED
  BY <1>2, <1>3, <1>4, <1>5, <1>6 DEF GappedFront, GapSplit, Colon

-----------------------------------------------------------------------------
(* What a group and its separator leave to complete.                       *)

LEMMA ColonSame ==
    ASSUME NEW u \in Text, NEW e \in Text, Colon(u) = Colon(e) PROVE u = e
BY CharsOf, ConcatSimplifications DEF Text, Colon

LEMMA ColonIsText ==
    ASSUME NEW u \in Text PROVE Colon(u) \in Text /\ Colon(u)[1] = ":" /\ Colon(u) # <<>>
BY ColonLeads DEF Colon

\* One number in front of others.
Ahead(v, y) == <<v>> \o y \in Seq(Nat) /\ Len(<<v>> \o y) = Len(y) + 1
               /\ <<v>> \o y # <<>> /\ Len(y) \in Nat

LEMMA OneAhead == ASSUME NEW v \in Nat, NEW y \in Seq(Nat) PROVE Ahead(v, y)
<1> DEFINE d == <<v>>
           s == d \o y
<1>1. d \in Seq(Nat) /\ Len(d) = 1
  OBVIOUS
<1>2. Len(y) \in Nat
  BY LenProperties
<1> HIDE DEF d
<1>3. Concats(d, y, Nat)
  BY <1>1, Concat
<1>4. s \in Seq(Nat) /\ Len(s) = Len(y) + 1
  BY <1>1, <1>2, <1>3 DEF Concats
<1> HIDE DEF s
<1>5. s # <<>>
  BY <1>2, <1>4
<1> QED
  BY <1>2, <1>4, <1>5 DEF Ahead, s, d

LEMMA SplitValue ==
    ASSUME NEW t, NEW run, NEW r, Splits(t, run, r) PROVE Number(run, HexRadix) \in Nat
<1>1. HexRadix \in Nat /\ run \in Seq(isHex)
  BY ParseAssumption DEF Splits
<1> QED
  BY <1>1, NumberIsNat

LEMMA RunTooLong ==
    ASSUME NEW t, NEW run, NEW r, Splits(t, run, r), run \notin GroupTexts, NEW m, NEW h
    PROVE  Stuck(t, m, h)
<1>1. /\ \A x : EndOf(t, x) <=> EndSplit(run, r, x)
      /\ \A y, z : Gapped(t, y, z) <=> GapSplit(run, r, y, z)
  BY SplitEnd, SplitGap
<1>2. \A x : ~EndOf(t, x)
  BY <1>1 DEF EndSplit
<1>3. \A y, z : ~Gapped(t, y, z)
  BY <1>1 DEF GapSplit
<1> QED
  BY <1>2, <1>3 DEF Stuck, Completes

LEMMA NoSeparator ==
    ASSUME NEW t, NEW run, NEW r, Splits(t, run, r), r # <<>>, r[1] # ":", NEW m, NEW h
    PROVE  Stuck(t, m, h)
<1>0. /\ \A x : EndOf(t, x) <=> EndSplit(run, r, x)
      /\ \A y, z : Gapped(t, y, z) <=> GapSplit(run, r, y, z)
  BY SplitEnd, SplitGap
<1>1. \A u \in Text : r # Colon(u)
  BY ColonIsText
<1>2. \A e \in Text : r # Colon(Colon(e))
  BY <1>1, ColonIsText
<1>3. \A x : ~EndOf(t, x)
  BY <1>0, <1>1 DEF EndSplit
<1>4. \A y, z : ~Gapped(t, y, z)
  BY <1>0, <1>1, <1>2 DEF GapSplit
<1> QED
  BY <1>3, <1>4 DEF Stuck, Completes

LEMMA NoRoom ==
    ASSUME NEW t, t # <<>>, NEW m, m = NGroups, NEW h
    PROVE  Stuck(t, m, h)
<1>1. NGroups \in Nat
  BY ParseAssumption
<1>2. ASSUME NEW x, NEW gp, Completes(t, m, h, x, gp) PROVE FALSE
  <2>1. x \in Seq(Nat) /\ Len(x) \in Nat
    BY <1>2, CompletesTyped
  <2>2. m + Len(x) <= NGroups
    BY <1>1, <1>2, <2>1 DEF Completes, Counts
  <2>3. Len(x) = 0
    BY <1>1, <2>1, <2>2
  <2>4. x = <<>>
    BY <2>1, <2>3, EmptySeq
  <2>5. ~EndOf(t, x)
    BY <2>4, EndTyped
  <2>6. PICK y \in Seq(Nat), z \in Seq(Nat) : Gapped(t, y, z) /\ x = y \o z
    BY <1>2, <2>5 DEF Completes
  <2>7. y = <<>>
    <3>1. y \o z = <<>>
      BY <2>4, <2>6
    <3> QED
      BY <3>1, ConcatSimplifications
  <2> QED
    BY <2>6, <2>7, GappedTyped
<1> QED
  BY <1>2 DEF Stuck

\* A group that ends the text.
LEMMA LastAdvances ==
    ASSUME NEW t, NEW run, NEW r, Splits(t, run, r), run \in GroupTexts, r = <<>>,
           NEW m \in Nat, NEW h
    PROVE  Advances(t, m, h, <<>>, m + 1, h, <<Number(run, HexRadix)>>)
<1> DEFINE v == Number(run, HexRadix)
           d == <<v>>
<1>1. \A u \in Text : r # Colon(u)
  BY ColonIsText
<1>2. \A x : EndOf(t, x) <=> x = d
  <2>1. \A x : EndOf(t, x) <=> EndSplit(run, r, x)
    BY SplitEnd
  <2> QED
    BY <1>1, <2>1 DEF EndSplit
<1>3. \A y, z : ~Gapped(t, y, z)
  <2>1. \A e \in Text : r # Colon(Colon(e))
    BY <1>1, ColonIsText
  <2>2. \A y, z : Gapped(t, y, z) <=> GapSplit(run, r, y, z)
    BY SplitGap
  <2> QED
    BY <1>1, <2>1, <2>2 DEF GapSplit
<1>4. v \in Nat /\ m + 1 \in Nat
  BY SplitValue
<1>5. d \in Seq(Nat) /\ Len(d) = 1 /\ <<>> \in Seq(Nat)
  BY <1>4, EmptySeq
<1> HIDE DEF v, d
<1>6. d \o <<>> = d
  BY <1>5, ConcatEmptySeq
<1>7. \A x, gp : Completes(t, m, h, x, gp) <=> x = d /\ gp = h /\ Counts(m + 1, h)
  BY <1>2, <1>3, <1>5 DEF Completes
<1>8. \A y, gp : Completes(<<>>, m + 1, h, y, gp) <=> y = <<>> /\ gp = h /\ Counts(m + 1, h)
  BY <1>4, CompletesEmpty
<1>9. ASSUME NEW x, NEW gp
      PROVE  Completes(t, m, h, x, gp)
               <=> \E y \in Seq(Nat) : x = d \o y /\ Completes(<<>>, m + 1, h, y, gp)
  <2>1. ASSUME NEW y \in Seq(Nat), x = d \o y, Completes(<<>>, m + 1, h, y, gp)
        PROVE  x = d /\ gp = h /\ Counts(m + 1, h)
    <3>1. y = <<>> /\ gp = h /\ Counts(m + 1, h)
      BY <1>8, <2>1
    <3> QED
      BY <1>6, <2>1, <3>1
  <2>2. ASSUME x = d, gp = h, Counts(m + 1, h)
        PROVE  <<>> \in Seq(Nat) /\ x = d \o <<>> /\ Completes(<<>>, m + 1, h, <<>>, gp)
    BY <1>5, <1>6, <1>8, <2>2
  <2> QED
    BY <1>7, <2>1, <2>2
<1>10. Advances(t, m, h, <<>>, m + 1, h, d)
  BY <1>9 DEF Advances
<1> QED
  BY <1>10 DEF d, v

\* A text that starts with a colon ends no address.
LEMMA NoColonEnd ==
    ASSUME NEW u, u # <<>>, u[1] = ":"
    PROVE  /\ \A y : ~EndOf(u, y)
           /\ \A y, z : ~Gapped(u, y, z)
BY EndTyped, GappedTyped, CharsOf

LEMMA LoneColon ==
    ASSUME NEW t, NEW run, NEW r, Splits(t, run, r), r = Colon(<<>>), NEW m, NEW h
    PROVE  Stuck(t, m, h)
<1>1. \A u \in Text : r = Colon(u) => u = <<>>
  BY ColonSame, CharsOf
<1>2. \A x : ~EndOf(t, x)
  <2>1. \A x : EndOf(t, x) <=> EndSplit(run, r, x)
    BY SplitEnd
  <2>2. r # <<>>
    BY ColonIsText, CharsOf
  <2> QED
    BY <1>1, <2>1, <2>2 DEF EndSplit
<1>3. \A y, z : ~Gapped(t, y, z)
  <2>1. \A e \in Text : Colon(e) \in Text /\ Colon(e) # <<>>
    BY ColonIsText
  <2>2. \A e \in Text : r # Colon(Colon(e))
    BY <1>1, <2>1
  <2>3. \A u \in Text : r = Colon(u) => \A y, z : ~Gapped(u, y, z)
    BY <1>1, GappedTyped
  <2>4. \A y, z : Gapped(t, y, z) <=> GapSplit(run, r, y, z)
    BY SplitGap
  <2> QED
    BY <2>2, <2>3, <2>4 DEF GapSplit
<1> QED
  BY <1>2, <1>3 DEF Stuck, Completes

\* What follows a group and two colons.
AfterGap(t, run, e) == /\ \A x : ~EndOf(t, x)
                       /\ \A y, z : Gapped(t, y, z) <=> EndOf(e, z) /\ y = <<Number(run, HexRadix)>>

LEMMA TwoColonsAre ==
    ASSUME NEW t, NEW run, NEW r, Splits(t, run, r), run \in GroupTexts,
           NEW e \in Text, r = Colon(Colon(e))
    PROVE  AfterGap(t, run, e)
<1> DEFINE f == Colon(e)
<1>1. f \in Text /\ f # <<>> /\ f[1] = ":"
  BY ColonIsText
<1>2. ASSUME NEW u \in Text, r = Colon(u) PROVE u = f
  <2> HIDE DEF f
  <2>1. Colon(u) = Colon(f)
    BY <1>2 DEF f
  <2> QED
    BY <1>1, <2>1, ColonSame
<1>3. \A y : ~EndOf(f, y)
  <2> HIDE DEF f
  <2> QED
    BY <1>1, NoColonEnd
<1>4. \A y, z : ~Gapped(f, y, z)
  <2> HIDE DEF f
  <2> QED
    BY <1>1, NoColonEnd
<1>5. \A x : ~EndOf(t, x)
  <2> HIDE DEF f
  <2>1. \A x : EndOf(t, x) <=> EndSplit(run, r, x)
    BY SplitEnd
  <2>2. r # <<>>
    BY <1>1, ColonIsText DEF f
  <2> QED
    BY <1>2, <1>3, <2>1, <2>2 DEF EndSplit
<1>6. ASSUME NEW c \in Text, r = Colon(Colon(c)) PROVE c = e
  <2>1. Colon(c) \in Text
    BY ColonIsText
  <2>2. Colon(c) = Colon(e)
    BY <1>2, <1>6, <2>1
  <2> QED
    BY <2>2, ColonSame
<1>7. ASSUME NEW y, NEW z
      PROVE  Gapped(t, y, z) <=> EndOf(e, z) /\ y = <<Number(run, HexRadix)>>
  <2>1. ASSUME Gapped(t, y, z) PROVE EndOf(e, z) /\ y = <<Number(run, HexRadix)>>
    <3>1. \/ \E c \in Text : /\ EndOf(c, z) /\ r = Colon(Colon(c))
                             /\ y = <<Number(run, HexRadix)>>
          \/ \E u \in Text, w \in Seq(Nat) : Gapped(u, w, z) /\ r = Colon(u)
      <4>1. GapSplit(run, r, y, z)
        BY <2>1, SplitGap
      <4> QED
        BY <4>1 DEF GapSplit
    <3>2. ~\E u \in Text, w \in Seq(Nat) : Gapped(u, w, z) /\ r = Colon(u)
      <4> HIDE DEF f
      <4> QED
        BY <1>2, <1>4
    <3> QED
      BY <1>6, <3>1, <3>2
  <2>2. ASSUME EndOf(e, z), y = <<Number(run, HexRadix)>> PROVE Gapped(t, y, z)
    <3>1. GapSplit(run, r, y, z)
      BY <2>2 DEF GapSplit
    <3> QED
      BY <3>1, SplitGap
  <2> QED
    BY <2>1, <2>2
<1> QED
  BY <1>5, <1>7 DEF AfterGap

LEMMA SecondGap ==
    ASSUME NEW t, NEW run, NEW r, Splits(t, run, r), run \in GroupTexts,
           NEW e \in Text, r = Colon(Colon(e)), NEW m, NEW h, ~(h < 0)
    PROVE  Stuck(t, m, h)
BY TwoColonsAre DEF AfterGap, Stuck, Completes

LEMMA GapAdvances ==
    ASSUME NEW t, NEW run, NEW r, Splits(t, run, r), run \in GroupTexts,
           NEW e \in Text, r = Colon(Colon(e)), NEW m \in Nat, NEW h, h < 0
    PROVE  Advances(t, m, h, e, m + 1, m + 1, <<Number(run, HexRadix)>>)
<1> DEFINE v == Number(run, HexRadix)
           d == <<v>>
<1>1. AfterGap(t, run, e)
  BY TwoColonsAre
<1>2. (\A x : ~EndOf(t, x)) /\ \A y, z : Gapped(t, y, z) <=> EndOf(e, z) /\ y = d
  BY <1>1 DEF AfterGap
<1>3. v \in Nat
  BY SplitValue
<1>4. d \in Seq(Nat) /\ Len(d) = 1
  BY <1>3
<1>5. \A y \in Seq(Nat) : Len(d \o y) = Len(y) + 1 /\ Len(y) \in Nat
  <2>1. \A y \in Seq(Nat) : Ahead(v, y)
    BY <1>3, OneAhead
  <2> QED
    BY <2>1 DEF Ahead
<1> HIDE DEF v, d
<1>6. ~(m + 1 < 0)
  OBVIOUS
<1>7. ASSUME NEW x, NEW gp, Completes(t, m, h, x, gp)
      PROVE  \E y \in Seq(Nat) : x = d \o y /\ Completes(e, m + 1, m + 1, y, gp)
  <2>1. PICK y \in Seq(Nat), z \in Seq(Nat) : /\ Gapped(t, y, z) /\ x = y \o z
                                              /\ gp = m + Len(y) /\ m + Len(x) < NGroups
    BY <1>2, <1>7 DEF Completes
  <2>2. y = d /\ EndOf(e, z)
    BY <1>2, <2>1
  <2>3. gp = m + 1 /\ Len(x) = Len(z) + 1 /\ Len(z) \in Nat
    BY <1>4, <1>5, <2>1, <2>2
  <2>4. (m + 1) + Len(z) < NGroups
    BY <2>1, <2>3
  <2>5. Completes(e, m + 1, m + 1, z, gp)
    BY <1>6, <2>2, <2>3, <2>4 DEF Completes, Counts
  <2> QED
    BY <2>1, <2>2, <2>5
<1>8. ASSUME NEW x, NEW gp, NEW z \in Seq(Nat), x = d \o z, Completes(e, m + 1, m + 1, z, gp)
      PROVE  Completes(t, m, h, x, gp)
  <2>1. EndOf(e, z) /\ gp = m + 1 /\ (m + 1) + Len(z) < NGroups
    BY <1>6, <1>8 DEF Completes, Counts
  <2>2. Gapped(t, d, z)
    BY <1>2, <2>1
  <2>3. Len(x) = Len(z) + 1 /\ Len(z) \in Nat
    BY <1>5, <1>8
  <2>4. m + Len(x) < NGroups /\ gp = m + Len(d)
    BY <1>4, <2>1, <2>3
  <2> QED
    BY <1>4, <1>8, <2>2, <2>4 DEF Completes
<1>9. Advances(t, m, h, e, m + 1, m + 1, d)
  BY <1>7, <1>8 DEF Advances
<1> QED
  BY <1>9 DEF d, v

\* What follows a group and one colon.
AfterColon(t, run, u) ==
    /\ \A x : EndOf(t, x) <=> \E y \in Seq(Nat) : EndOf(u, y) /\ x = <<Number(run, HexRadix)>> \o y
    /\ \A y, z : Gapped(t, y, z)
                   <=> \E w \in Seq(Nat) : Gapped(u, w, z) /\ y = <<Number(run, HexRadix)>> \o w

LEMMA ColonIs ==
    ASSUME NEW t, NEW run, NEW r, Splits(t, run, r), run \in GroupTexts,
           NEW u \in Text, r = Colon(u), u # <<>>, u[1] # ":"
    PROVE  AfterColon(t, run, u)
<1>1. ASSUME NEW c \in Text, r = Colon(c) PROVE c = u
  BY <1>1, ColonSame
<1>2. ASSUME NEW e \in Text PROVE r # Colon(Colon(e))
  <2>1. Colon(e) \in Text /\ Colon(e)[1] = ":"
    BY ColonIsText
  <2> QED
    BY <1>1, <2>1
<1>3. ASSUME NEW x
      PROVE  EndOf(t, x) <=> \E y \in Seq(Nat) : EndOf(u, y) /\ x = <<Number(run, HexRadix)>> \o y
  <2>1. r # <<>>
    BY ColonIsText
  <2>2. EndOf(t, x) <=> EndSplit(run, r, x)
    BY SplitEnd
  <2> QED
    BY <1>1, <2>1, <2>2 DEF EndSplit
<1>4. ASSUME NEW y, NEW z
      PROVE  Gapped(t, y, z)
               <=> \E w \in Seq(Nat) : Gapped(u, w, z) /\ y = <<Number(run, HexRadix)>> \o w
  <2>1. Gapped(t, y, z) <=> GapSplit(run, r, y, z)
    BY SplitGap
  <2> QED
    BY <1>1, <1>2, <2>1 DEF GapSplit
<1> QED
  BY <1>3, <1>4 DEF AfterColon

LEMMA ColonAdvances ==
    ASSUME NEW t, NEW run, NEW r, Splits(t, run, r), run \in GroupTexts,
           NEW u \in Text, r = Colon(u), u # <<>>, u[1] # ":", NEW m \in Nat, NEW h
    PROVE  Advances(t, m, h, u, m + 1, h, <<Number(run, HexRadix)>>)
<1> DEFINE v == Number(run, HexRadix)
           d == <<v>>
<1>1. AfterColon(t, run, u)
  BY ColonIs
<1>2. /\ \A x : EndOf(t, x) <=> \E y \in Seq(Nat) : EndOf(u, y) /\ x = d \o y
      /\ \A y, z : Gapped(t, y, z) <=> \E w \in Seq(Nat) : Gapped(u, w, z) /\ y = d \o w
  BY <1>1 DEF AfterColon
<1>3. v \in Nat
  BY SplitValue
<1>4. d \in Seq(Nat) /\ Len(d) = 1
  BY <1>3
<1>5. \A y \in Seq(Nat) : d \o y \in Seq(Nat) /\ Len(d \o y) = Len(y) + 1 /\ Len(y) \in Nat
  <2>1. \A y \in Seq(Nat) : Ahead(v, y)
    BY <1>3, OneAhead
  <2> QED
    BY <2>1 DEF Ahead
<1> HIDE DEF v, d
<1>6. \A y \in Seq(Nat) : m + Len(d \o y) = (m + 1) + Len(y)
  <2> TAKE y \in Seq(Nat)
  <2> DEFINE l == Len(d \o y)
             j == Len(y)
  <2>1. l = j + 1 /\ j \in Nat
    BY <1>5
  <2> HIDE DEF l, j
  <2>2. m + l = (m + 1) + j
    BY <2>1
  <2> QED
    BY <2>2 DEF l, j
<1>7. ASSUME NEW x, NEW gp, Completes(t, m, h, x, gp)
      PROVE  \E y \in Seq(Nat) : x = d \o y /\ Completes(u, m + 1, h, y, gp)
  <2>1. CASE EndOf(t, x) /\ gp = h /\ Counts(m + Len(x), h)
    <3>1. PICK y \in Seq(Nat) : EndOf(u, y) /\ x = d \o y
      BY <1>2, <2>1
    <3> QED
      BY <1>6, <2>1, <3>1 DEF Completes
  <2>2. CASE ~(EndOf(t, x) /\ gp = h /\ Counts(m + Len(x), h))
    <3>1. h < 0
      BY <1>7, <2>2 DEF Completes
    <3>2. PICK y \in Seq(Nat), z \in Seq(Nat) : /\ Gapped(t, y, z) /\ x = y \o z
                                                /\ gp = m + Len(y) /\ m + Len(x) < NGroups
      BY <1>7, <2>2 DEF Completes
    <3>3. PICK w \in Seq(Nat) : Gapped(u, w, z) /\ y = d \o w
      BY <1>2, <3>2
    <3>4. (d \o w) \o z = d \o (w \o z) /\ w \o z \in Seq(Nat)
      <4>1. Associates(d, w, z, Nat)
        BY <1>4, Association
      <4> QED
        BY <4>1 DEF Associates
    <3>5. x = d \o (w \o z) /\ gp = (m + 1) + Len(w) /\ (m + 1) + Len(w \o z) < NGroups
      BY <1>6, <3>2, <3>3, <3>4
    <3>6. Completes(u, m + 1, h, w \o z, gp)
      BY <3>1, <3>3, <3>5 DEF Completes
    <3> QED
      BY <3>4, <3>5, <3>6
  <2> QED
    BY <2>1, <2>2
<1>8. ASSUME NEW x, NEW gp, NEW q \in Seq(Nat), x = d \o q, Completes(u, m + 1, h, q, gp)
      PROVE  Completes(t, m, h, x, gp)
  <2>1. CASE EndOf(u, q) /\ gp = h /\ Counts((m + 1) + Len(q), h)
    <3>1. EndOf(t, x) /\ Counts(m + Len(x), h)
      BY <1>2, <1>6, <1>8, <2>1
    <3> QED
      BY <2>1, <3>1 DEF Completes
  <2>2. CASE ~(EndOf(u, q) /\ gp = h /\ Counts((m + 1) + Len(q), h))
    <3>1. h < 0
      BY <1>8, <2>2 DEF Completes
    <3>2. PICK w \in Seq(Nat), z \in Seq(Nat) : /\ Gapped(u, w, z) /\ q = w \o z
                                                /\ gp = (m + 1) + Len(w) /\ (m + 1) + Len(q) < NGroups
      BY <1>8, <2>2 DEF Completes
    <3>3. Gapped(t, d \o w, z) /\ d \o w \in Seq(Nat)
      BY <1>2, <1>5, <3>2
    <3>4. (d \o w) \o z = d \o (w \o z)
      BY <1>4, AssocNat
    <3>5. x = (d \o w) \o z /\ gp = m + Len(d \o w) /\ m + Len(x) < NGroups
      BY <1>6, <1>8, <3>2, <3>4
    <3> QED
      BY <3>1, <3>3, <3>5 DEF Completes
  <2> QED
    BY <2>1, <2>2
<1>9. Advances(t, m, h, u, m + 1, h, d)
  BY <1>7, <1>8 DEF Advances
<1> QED
  BY <1>9 DEF d, v

-----------------------------------------------------------------------------
(* The spellings of an address, by what completes it.                      *)

Written(S, t, x) == [text |-> t, groups |-> x] \in S
Spelling(t, x)   == [text |-> t, groups |-> x]

LEMMA PlainIs ==
    ASSUME NEW k \in 0..NGroups, NEW t, NEW x
    PROVE  Written(Plain[k], t, x) <=> PlainEnd(t, x) /\ Len(x) = k
<1>0. NGroups \in Nat /\ k \in Nat
  BY ParseAssumption
<1>1. Plain[k] = {[text |-> Joined(":", gs), groups |-> [j \in 1..k |-> Number(gs[j], HexRadix)]] :
                    gs \in [1..k -> GroupTexts]}
  BY DEF Plain
<1>2. \A gs : gs \in [1..k -> GroupTexts] <=> gs \in Pieces /\ Len(gs) = k
  <2>1. ASSUME NEW gs \in [1..k -> GroupTexts] PROVE gs \in Pieces /\ Len(gs) = k
    <3>1. gs \in Seq(GroupTexts)
      BY <1>0, SeqDef
    <3> QED
      BY <1>0, <3>1, LenProperties DEF Pieces
  <2>2. ASSUME NEW gs \in Pieces, Len(gs) = k PROVE gs \in [1..k -> GroupTexts]
    BY <2>2, LenProperties DEF Pieces
  <2> QED
    BY <2>1, <2>2
<1>3. ASSUME NEW gs \in Pieces, Len(gs) = k
      PROVE  [j \in 1..k |-> Number(gs[j], HexRadix)] = Values(gs) /\ Len(Values(gs)) = k
  BY <1>3, PiecesAre DEF Values
<1>4. ASSUME Written(Plain[k], t, x) PROVE PlainEnd(t, x) /\ Len(x) = k
  <2>1. PICK gs \in [1..k -> GroupTexts] :
          [text |-> t, groups |-> x]
            = [text |-> Joined(":", gs), groups |-> [j \in 1..k |-> Number(gs[j], HexRadix)]]
    BY <1>1, <1>4 DEF Written
  <2>2. t = Joined(":", gs) /\ x = [j \in 1..k |-> Number(gs[j], HexRadix)]
    BY <2>1
  <2> QED
    BY <1>2, <1>3, <2>2 DEF PlainEnd
<1>5. ASSUME PlainEnd(t, x), Len(x) = k PROVE Written(Plain[k], t, x)
  <2>1. PICK gs \in Pieces : t = Joined(":", gs) /\ x = Values(gs)
    BY <1>5 DEF PlainEnd
  <2>2. Len(gs) = k
    BY <1>5, <2>1, PiecesAre
  <2>3. gs \in [1..k -> GroupTexts] /\ x = [j \in 1..k |-> Number(gs[j], HexRadix)]
    BY <1>2, <1>3, <2>1, <2>2
  <2> QED
    BY <1>1, <2>1, <2>3 DEF Written
<1> QED
  BY <1>4, <1>5

LEMMA PlainParts ==
    ASSUME NEW k \in 0..NGroups, NEW s \in Plain[k]
    PROVE  s = Spelling(s.text, s.groups) /\ PlainEnd(s.text, s.groups) /\ Len(s.groups) = k
<1>1. Plain[k] = {[text |-> Joined(":", gs), groups |-> [j \in 1..k |-> Number(gs[j], HexRadix)]] :
                    gs \in [1..k -> GroupTexts]}
  BY DEF Plain
<1>2. s = [text |-> s.text, groups |-> s.groups]
  BY <1>1
<1>3. Written(Plain[k], s.text, s.groups)
  BY <1>2 DEF Written
<1> QED
  BY <1>2, <1>3, PlainIs DEF Spelling

\* What a quad q after the groups p spells.
QuadTail(k, p, q) ==
    [text |-> p.text \o (IF k = 2 THEN <<>> ELSE <<":">>) \o q.text,
     groups |-> p.groups \o <<q.ip \div GroupSize, q.ip % GroupSize>>]

LEMMA WithQuadIs ==
    ASSUME NEW k \in 2..NGroups
    PROVE  WithQuad[k] = {QuadTail(k, p, q) : p \in Plain[k - 2], q \in Spellings4}
  BY DEF WithQuad, QuadTail

LEMMA WithQuadParts ==
    ASSUME NEW k \in 2..NGroups, NEW s \in WithQuad[k]
    PROVE  s = Spelling(s.text, s.groups) /\ QuadEnd(s.text, s.groups) /\ Len(s.groups) = k
<1>0. NGroups \in Nat /\ k - 2 \in 0..NGroups /\ k \in Nat
  BY ParseAssumption
<1>2. PICK p \in Plain[k - 2], q \in Spellings4 : s = QuadTail(k, p, q)
  BY WithQuadIs
<1>3. PICK os \in Quads : q = [text |-> Joined(".", os), ip |-> QuadOf(os)]
  BY DEF Spellings4, Quads
<1>4. q.text = Joined(".", os) /\ <<q.ip \div GroupSize, q.ip % GroupSize>> = Halves(os)
  BY <1>3 DEF Halves
<1>5. PlainEnd(p.text, p.groups) /\ Len(p.groups) = k - 2
  BY <1>0, PlainParts
<1>6. PICK gs \in Pieces : p.text = Joined(":", gs) /\ p.groups = Values(gs)
  BY <1>5 DEF PlainEnd
<1>7. k = 2 <=> gs = <<>>
  <2>1. Len(gs) = k - 2
    BY <1>5, <1>6, PiecesAre
  <2> QED
    BY <1>0, <2>1, EmptySeq DEF Pieces
<1>8. /\ s.text = Joined(":", gs) \o (IF gs = <<>> THEN <<>> ELSE <<":">>) \o Joined(".", os)
      /\ s.groups = Values(gs) \o Halves(os)
      /\ s = [text |-> s.text, groups |-> s.groups]
  BY <1>2, <1>4, <1>6, <1>7 DEF QuadTail
<1>9. QuadEnd(s.text, s.groups)
  BY <1>8 DEF QuadEnd
<1>10. Len(s.groups) = k
  <2> DEFINE v == Values(gs)
             h == Halves(os)
  <2>1. v \in Seq(Nat) /\ h \in Seq(Nat) /\ Len(v) = k - 2 /\ Len(h) = 2
    BY <1>5, <1>6, PiecesAre, HalvesAre
  <2> HIDE DEF v, h
  <2>2. Concats(v, h, Nat)
    BY <2>1, Concat
  <2>3. Len(v \o h) = k
    BY <1>0, <2>1, <2>2 DEF Concats
  <2> QED
    BY <1>8, <2>3 DEF v, h
<1> QED
  BY <1>8, <1>9, <1>10 DEF Spelling

LEMMA WithQuadHas ==
    ASSUME NEW t, NEW x, QuadEnd(t, x), Len(x) <= NGroups
    PROVE  Len(x) \in 2..NGroups /\ Spelling(t, x) \in WithQuad[Len(x)]
<1>1. PICK gs \in Pieces, os \in Quads :
        /\ t = Joined(":", gs) \o (IF gs = <<>> THEN <<>> ELSE <<":">>) \o Joined(".", os)
        /\ x = Values(gs) \o Halves(os)
  BY DEF QuadEnd
<1> DEFINE v == Values(gs)
           h == Halves(os)
           k == Len(x)
<1>2. v \in Seq(Nat) /\ h \in Seq(Nat) /\ Len(v) = Len(gs) /\ Len(h) = 2 /\ Len(gs) \in Nat
  BY PiecesAre, HalvesAre
<1>3. x = v \o h
  BY <1>1
<1>4. k = Len(gs) + 2
  <2> HIDE DEF v, h
  <2>1. Concats(v, h, Nat)
    BY <1>2, Concat
  <2> QED
    BY <1>2, <1>3, <2>1 DEF Concats
<1>5. k \in 2..NGroups /\ k - 2 = Len(gs) /\ k - 2 \in 0..NGroups
  BY <1>2, <1>4, ParseAssumption
<1>6. k = 2 <=> gs = <<>>
  BY <1>2, <1>4, EmptySeq DEF Pieces
<1> DEFINE p == [text |-> Joined(":", gs), groups |-> v]
           q == [text |-> Joined(".", os), ip |-> QuadOf(os)]
<1>7. p \in Plain[k - 2]
  <2>1. PlainEnd(Joined(":", gs), v) /\ Len(v) = k - 2
    BY <1>2, <1>5 DEF PlainEnd
  <2> HIDE DEF v, k
  <2>2. Written(Plain[k - 2], Joined(":", gs), v)
    BY <1>5, <2>1, PlainIs
  <2> QED
    BY <2>2 DEF Written
<1>8. q \in Spellings4
  BY DEF Spellings4, Quads
<1>10. /\ p.text = Joined(":", gs) /\ p.groups = v /\ q.text = Joined(".", os)
       /\ <<q.ip \div GroupSize, q.ip % GroupSize>> = h
  BY DEF Halves
<1> HIDE DEF p, q, k
<1>11. QuadTail(k, p, q) \in WithQuad[k]
  BY <1>5, <1>7, <1>8, WithQuadIs
<1>12. QuadTail(k, p, q) = Spelling(t, x)
  BY <1>1, <1>6, <1>10 DEF QuadTail, Spelling
<1>13. Spelling(t, x) \in WithQuad[k]
  BY <1>11, <1>12
<1> QED
  BY <1>5, <1>13 DEF k

\* The numbers x of an address, with zeros after the first gp unless gp < 0.
Spread(x, gp) ==
    IF gp < 0 THEN x
    ELSE [k \in 1..NGroups |-> IF k <= gp THEN x[k]
                               ELSE IF k <= gp + (NGroups - Len(x)) THEN 0
                               ELSE x[k - (NGroups - Len(x))]]

LEMMA SpreadIs ==
    ASSUME NEW y \in Seq(Nat), NEW z \in Seq(Nat), Len(y) + Len(z) < NGroups
    PROVE  /\ y \o [j \in 1..NGroups - Len(y) - Len(z) |-> 0] \o z = Spread(y \o z, Len(y))
           /\ Len(y \o z) = Len(y) + Len(z) /\ y \o z \in Seq(Nat)
<1>0. Len(y) \in Nat /\ Len(z) \in Nat /\ NGroups \in Nat
  BY LenProperties, ParseAssumption
<1> DEFINE l == Len(y)
           r == Len(z)
           g == NGroups - l - r
<1>1. l \in Nat /\ r \in Nat /\ NGroups \in Nat /\ g \in Nat /\ l + g + r = NGroups
      /\ ~(l < 0)
  BY <1>0
<1> DEFINE o == [j \in 1..g |-> 0]
           x == y \o z
           w == y \o o
           f == w \o z
           e == Spread(x, l)
<1>2. o \in Seq(Nat) /\ Len(o) = g /\ \A j \in 1..g : o[j] = 0
  <2>1. o \in [1..g -> Nat]
    OBVIOUS
  <2>2. o \in Seq(Nat)
    BY <1>1, <2>1, SeqDef
  <2> QED
    BY <1>1, <2>1, <2>2, LenProperties
<1>3. Concats(y, z, Nat)
  BY Concat
<1>4. x \in Seq(Nat) /\ Len(x) = l + r
      /\ \A k \in 1..l + r : x[k] = IF k <= l THEN y[k] ELSE z[k - l]
  BY <1>3 DEF Concats
<1> HIDE DEF o, x
<1>5. Concats(y, o, Nat)
  BY <1>2, Concat
<1>6. w \in Seq(Nat) /\ Len(w) = l + g
      /\ \A k \in 1..l + g : w[k] = IF k <= l THEN y[k] ELSE o[k - l]
  BY <1>2, <1>5 DEF Concats
<1> HIDE DEF w
<1>7. Concats(w, z, Nat)
  BY <1>6, Concat
<1>8. f \in Seq(Nat) /\ Len(f) = NGroups
      /\ \A k \in 1..NGroups : f[k] = IF k <= l + g THEN w[k] ELSE z[k - (l + g)]
  <2>1. f \in Seq(Nat) /\ Len(f) = (l + g) + r
        /\ \A k \in 1..(l + g) + r : f[k] = IF k <= l + g THEN w[k] ELSE z[k - (l + g)]
    BY <1>6, <1>7 DEF Concats
  <2> HIDE DEF f, l, g, r
  <2>2. (l + g) + r = NGroups
    BY <1>1
  <2> QED
    BY <2>1, <2>2
<1> HIDE DEF f
<1>9. e = [k \in 1..NGroups |-> IF k <= l THEN x[k]
                                ELSE IF k <= l + g THEN 0 ELSE x[k - g]]
  <2>1. NGroups - Len(x) = g
    BY <1>1, <1>4
  <2> QED
    BY <1>1, <2>1 DEF Spread
<1> HIDE DEF e
<1>10. f = [k \in 1..NGroups |-> f[k]]
  BY <1>8, LenProperties
<1>11. ASSUME NEW k \in 1..NGroups
       PROVE  f[k] = IF k <= l THEN x[k] ELSE IF k <= l + g THEN 0 ELSE x[k - g]
  <2> HIDE DEF l, g, r
  <2>1. CASE k <= l
    <3>1. k \in 1..l + g /\ k \in 1..l + r /\ k <= l + g
      BY <1>1, <2>1
    <3> QED
      BY <1>4, <1>6, <1>8, <2>1, <3>1
  <2>2. CASE ~(k <= l) /\ k <= l + g
    <3>1. k \in 1..l + g /\ k - l \in 1..g
      BY <1>1, <2>2
    <3> QED
      BY <1>2, <1>6, <1>8, <2>2, <3>1
  <2>3. CASE ~(k <= l) /\ ~(k <= l + g)
    <3>1. k - g \in 1..l + r /\ ~(k - g <= l) /\ (k - g) - l = k - (l + g)
      BY <1>1, <2>3
    <3> QED
      BY <1>4, <1>8, <2>3, <3>1
  <2> QED
    BY <2>1, <2>2, <2>3
<1>12. f = e
  BY <1>9, <1>10, <1>11
<1> QED
  BY <1>4, <1>12 DEF f, w, o, e, x

-----------------------------------------------------------------------------
(* The texts that spell an address, whatever their form.                   *)

Spells6(t, F) == \E f \in Forms : Written(Spellings6(f), t, F)

\* A gap between the groups y and z.
Elided(t, y, z) == \E p \in Text, e \in Text : /\ PlainEnd(p, y) /\ EndOf(e, z)
                                               /\ t = p \o <<":", ":">> \o e
Whole(t, x, gp) ==
    \/ EndOf(t, x) /\ gp = -1 /\ Len(x) = NGroups
    \/ \E y \in Seq(Nat), z \in Seq(Nat) :
          /\ Elided(t, y, z) /\ x = y \o z /\ gp = Len(y) /\ Len(y) + Len(z) < NGroups

\* The two ways a text ends an address, and a text of both parts.
TailOf(k, quad)  == IF quad THEN WithQuad[k] ELSE Plain[k]
TwoParts(f, p, e) ==
    Spelling(p.text \o (IF f.gap THEN <<":", ":">> ELSE <<>>) \o e.text,
             p.groups \o [j \in 1..NGroups - f.left - f.right |-> 0] \o e.groups)

LEMMA TailParts ==
    ASSUME NEW k \in 0..NGroups, NEW quad \in BOOLEAN, quad => k >= 2, NEW e \in TailOf(k, quad)
    PROVE  EndOf(e.text, e.groups) /\ Len(e.groups) = k
<1>1. CASE quad
  <2>1. k \in 2..NGroups /\ e \in WithQuad[k]
    BY <1>1, ParseAssumption DEF TailOf
  <2> QED
    BY <2>1, WithQuadParts DEF EndOf
<1>2. CASE ~quad
  BY <1>2, PlainParts DEF TailOf, EndOf
<1> QED
  BY <1>1, <1>2

LEMMA TailHas ==
    ASSUME NEW e, NEW z, EndOf(e, z), Len(z) \in 0..NGroups
    PROVE  \E quad \in BOOLEAN : (quad => Len(z) >= 2) /\ Spelling(e, z) \in TailOf(Len(z), quad)
<1>1. CASE PlainEnd(e, z)
  <2>1. Written(Plain[Len(z)], e, z)
    BY <1>1, PlainIs
  <2>2. Spelling(e, z) \in TailOf(Len(z), FALSE)
    BY <2>1 DEF Written, Spelling, TailOf
  <2> QED
    BY <2>2
<1>2. CASE QuadEnd(e, z)
  <2>0. Len(z) <= NGroups
    BY ParseAssumption
  <2>1. Len(z) \in 2..NGroups /\ Spelling(e, z) \in WithQuad[Len(z)]
    BY <1>2, <2>0, WithQuadHas
  <2>2. Spelling(e, z) \in TailOf(Len(z), TRUE) /\ Len(z) >= 2
    BY <2>1 DEF TailOf
  <2> QED
    BY <2>2
<1> QED
  BY <1>1, <1>2 DEF EndOf

LEMMA PartsOf ==
    ASSUME NEW f \in Forms
    PROVE  /\ f.left \in 0..NGroups /\ f.right \in 0..NGroups /\ f.quad \in BOOLEAN
           /\ f.gap \in BOOLEAN /\ (f.quad => f.right >= 2)
           /\ IF f.gap THEN f.left + f.right < NGroups ELSE f.left = 0 /\ f.right = NGroups
           /\ Spellings6(f) = {TwoParts(f, p, e) : p \in Plain[f.left], e \in TailOf(f.right, f.quad)}
  BY DEF Forms, Spellings6, TwoParts, TailOf, Spelling

LEMMA PartsHave ==
    ASSUME NEW f \in Forms, NEW l, l = f.left, NEW r, r = f.right, NEW quad, quad = f.quad,
           NEW p \in Plain[l], NEW e \in TailOf(r, quad)
    PROVE  TwoParts(f, p, e) \in Spellings6(f)
<1>1. Spellings6(f) = {TwoParts(f, pp, ee) : pp \in Plain[f.left], ee \in TailOf(f.right, f.quad)}
  BY PartsOf
<1>2. p \in Plain[f.left] /\ e \in TailOf(f.right, f.quad)
  OBVIOUS
<1> QED
  BY <1>1, <1>2

LEMMA SpelledForth ==
    ASSUME NEW t, NEW F, Spells6(t, F)
    PROVE  \E x, gp : Whole(t, x, gp) /\ F = Spread(x, gp)
<1>1. PICK f \in Forms : Written(Spellings6(f), t, F)
  BY DEF Spells6
<1>2. PICK p \in Plain[f.left], e \in TailOf(f.right, f.quad) : Spelling(t, F) = TwoParts(f, p, e)
  BY <1>1, PartsOf DEF Written, Spelling
<1>3. PlainEnd(p.text, p.groups) /\ Len(p.groups) = f.left
  BY PartsOf, PlainParts
<1>4. EndOf(e.text, e.groups) /\ Len(e.groups) = f.right
  BY PartsOf, TailParts
<1> DEFINE P == p.text
           y == p.groups
           E == e.text
           z == e.groups
<1>5. /\ P \in Text /\ y \in Seq(Nat) /\ E \in Text /\ z \in Seq(Nat)
      /\ P = <<>> <=> y = <<>>
  BY <1>3, <1>4, PlainTyped, EndTyped
<1>6. /\ t = P \o (IF f.gap THEN <<":", ":">> ELSE <<>>) \o E
      /\ F = y \o [j \in 1..NGroups - Len(y) - Len(z) |-> 0] \o z
  BY <1>2, <1>3, <1>4 DEF TwoParts, Spelling
<1> HIDE DEF P, y, E, z
<1>7. CASE f.gap
  <2>1. Len(y) + Len(z) < NGroups
    BY <1>3, <1>4, <1>7, PartsOf DEF y, z
  <2>2. F = Spread(y \o z, Len(y))
    BY <1>5, <1>6, <2>1, SpreadIs
  <2>3. Elided(t, y, z)
    BY <1>3, <1>4, <1>5, <1>6, <1>7 DEF Elided, P, y, E, z
  <2>4. Whole(t, y \o z, Len(y))
    BY <1>5, <2>1, <2>3 DEF Whole
  <2> QED
    BY <2>2, <2>4
<1>8. CASE ~f.gap
  <2>1. Len(y) = 0 /\ Len(z) = NGroups /\ NGroups \in Nat
    BY <1>3, <1>4, <1>8, PartsOf, ParseAssumption DEF y, z
  <2>2. y = <<>> /\ P = <<>>
    BY <1>5, <2>1, EmptySeq
  <2>3. [j \in 1..NGroups - Len(y) - Len(z) |-> 0] = <<>>
    BY <2>1
  <2>4. t = <<>> \o <<>> \o E
    BY <1>6, <1>8, <2>2
  <2>5. F = <<>> \o <<>> \o z
    BY <1>6, <2>2, <2>3
  <2>6. t = E /\ F = z
    BY <1>5, <2>4, <2>5, ConcatEmptySeq DEF Text
  <2>7. Whole(t, z, -1)
    BY <1>4, <2>1, <2>6 DEF Whole, E, z
  <2> QED
    BY <2>6, <2>7 DEF Spread
<1> QED
  BY <1>7, <1>8

LEMMA SpelledBack ==
    ASSUME NEW t, NEW x, NEW gp, Whole(t, x, gp)
    PROVE  Spells6(t, Spread(x, gp))
<1>0. NGroups \in Nat
  BY ParseAssumption
<1>1. CASE EndOf(t, x) /\ gp = -1 /\ Len(x) = NGroups
  <2>1. PICK quad \in BOOLEAN : (quad => Len(x) >= 2) /\ Spelling(t, x) \in TailOf(Len(x), quad)
    BY <1>0, <1>1, TailHas
  <2> DEFINE f == [left |-> 0, right |-> NGroups, gap |-> FALSE, quad |-> quad]
  <2>2. f \in Forms
    BY <1>0, <1>1, <2>1 DEF Forms
  <2>3. PlainEnd(<<>>, <<>>) /\ Len(<<>>) = 0
    BY PlainBack DEF PlainFront
  <2>4. Spelling(<<>>, <<>>) \in Plain[0]
    BY <1>0, <2>3, PlainIs DEF Written, Spelling
  <2>5. f.left = 0 /\ f.right = NGroups /\ f.gap = FALSE /\ f.quad = quad
    OBVIOUS
  <2> HIDE DEF f
  <2>6. TwoParts(f, Spelling(<<>>, <<>>), Spelling(t, x)) \in Spellings6(f)
    <3>1. Spelling(t, x) \in TailOf(NGroups, quad)
      BY <1>1, <2>1
    <3> QED
      BY <2>2, <2>4, <2>5, <3>1, PartsHave
  <2>7. TwoParts(f, Spelling(<<>>, <<>>), Spelling(t, x)) = Spelling(t, x)
    <3>1. NGroups - f.left - f.right = 0 /\ [j \in 1..0 |-> 0] = <<>>
      BY <1>0, <2>5
    <3>2. x \in Seq(Nat) /\ t \in Text
      BY <1>1, EndTyped
    <3>3. <<>> \o <<>> \o t = t /\ <<>> \o <<>> \o x = x
      BY <3>2, ConcatEmptySeq DEF Text
    <3> QED
      BY <2>5, <3>1, <3>3 DEF TwoParts, Spelling
  <2>8. Written(Spellings6(f), t, x)
    BY <2>6, <2>7 DEF Written, Spelling
  <2>9. Spread(x, gp) = x
    BY <1>1 DEF Spread
  <2> QED
    BY <2>2, <2>8, <2>9 DEF Spells6
<1>2. ASSUME NEW y \in Seq(Nat), NEW z \in Seq(Nat), Elided(t, y, z), x = y \o z,
             gp = Len(y), Len(y) + Len(z) < NGroups
      PROVE  Spells6(t, Spread(x, gp))
  <2>1. PICK p \in Text, e \in Text : /\ PlainEnd(p, y) /\ EndOf(e, z)
                                      /\ t = p \o <<":", ":">> \o e
    BY <1>2 DEF Elided
  <2>2. Len(y) \in 0..NGroups /\ Len(z) \in 0..NGroups
    BY <1>0, <1>2, LenProperties
  <2>3. PICK quad \in BOOLEAN : (quad => Len(z) >= 2) /\ Spelling(e, z) \in TailOf(Len(z), quad)
    BY <2>1, <2>2, TailHas
  <2> DEFINE f == [left |-> Len(y), right |-> Len(z), gap |-> TRUE, quad |-> quad]
  <2>4. f \in Forms
    BY <1>2, <2>2, <2>3 DEF Forms
  <2>5. Spelling(p, y) \in Plain[Len(y)]
    BY <2>1, <2>2, PlainIs DEF Written, Spelling
  <2>6. f.left = Len(y) /\ f.right = Len(z) /\ f.gap = TRUE /\ f.quad = quad
    OBVIOUS
  <2> HIDE DEF f
  <2>7. TwoParts(f, Spelling(p, y), Spelling(e, z)) \in Spellings6(f)
    BY <2>3, <2>4, <2>5, <2>6, PartsHave
  <2>8. y \o [j \in 1..NGroups - Len(y) - Len(z) |-> 0] \o z = Spread(x, gp)
    BY <1>2, SpreadIs
  <2>9. TwoParts(f, Spelling(p, y), Spelling(e, z)) = Spelling(t, Spread(x, gp))
    BY <2>1, <2>6, <2>8 DEF TwoParts, Spelling
  <2>10. Written(Spellings6(f), t, Spread(x, gp))
    BY <2>7, <2>9 DEF Written, Spelling
  <2> QED
    BY <2>4, <2>10 DEF Spells6
<1> QED
  BY <1>1, <1>2 DEF Whole

LEMMA SpelledIs ==
    ASSUME NEW t, NEW F
    PROVE  Spells6(t, F) <=> \E x, gp : Whole(t, x, gp) /\ F = Spread(x, gp)
  BY SpelledForth, SpelledBack

-----------------------------------------------------------------------------
(* Where a text starts, and what is left of it.                            *)

From(s, p) == SubSeq(s, p + 1, Len(s))

LEMMA FromIs ==
    ASSUME NEW s \in Text, NEW p \in 0..Len(s)
    PROVE  /\ From(s, p) \in Text /\ (p = Len(s) => From(s, p) = <<>>)
           /\ p < Len(s) => /\ From(s, p) = <<s[p + 1]>> \o From(s, p + 1)
                            /\ From(s, p) # <<>> /\ From(s, p)[1] = s[p + 1]
<1>1. Len(s) \in Nat /\ p \in Nat /\ \A k \in p + 1..Len(s) : s[k] \in Alphabet
  BY LenProperties DEF Text
<1>2. From(s, p) \in Text
  BY <1>1, SubSeqProperties DEF From, Text
<1>3. ASSUME p = Len(s) PROVE From(s, p) = <<>>
  BY <1>1, <1>3, SubSeqEmpty DEF From
<1>4. ASSUME p < Len(s)
      PROVE  /\ From(s, p) = <<s[p + 1]>> \o From(s, p + 1)
             /\ From(s, p) # <<>> /\ From(s, p)[1] = s[p + 1]
  <2>1. p + 1 \in 1..Len(s) /\ Len(s) \in p + 1..Len(s)
    BY <1>1, <1>4
  <2>2. From(s, p) = <<s[p + 1]>> \o From(s, p + 1)
    BY <2>1, SubSeqRecursiveFirst DEF From, Text
  <2>3. /\ Len(From(s, p)) = (Len(s) - (p + 1)) + 1
        /\ \A k \in 1..(Len(s) - (p + 1)) + 1 : From(s, p)[k] = s[((p + 1) + k) - 1]
    BY <1>1, <2>1, SubSeqProperties DEF From
  <2>4. 1 \in 1..(Len(s) - (p + 1)) + 1 /\ ((p + 1) + 1) - 1 = p + 1
    BY <1>1, <1>4
  <2>5. From(s, p)[1] = s[p + 1] /\ Len(From(s, p)) # 0
    BY <1>1, <1>4, <2>3, <2>4
  <2>6. From(s, p) # <<>>
    BY <2>5
  <2> QED
    BY <2>2, <2>5, <2>6
<1> QED
  BY <1>2, <1>3, <1>4

LEMMA FromStart == ASSUME NEW s \in Text PROVE From(s, 0) = s
  BY SubSeqFull DEF From, Text

LEMMA FromRun ==
    ASSUME NEW s \in Text, NEW p \in 0..Len(s), NEW q \in p..Len(s)
    PROVE  From(s, p) = SubSeq(s, p + 1, q) \o From(s, q)
<1>1. Len(s) \in Nat
  BY LenProperties DEF Text
<1>2. p + 1 \in 1..Len(s) + 1 /\ q \in (p + 1) - 1..Len(s) /\ Len(s) \in q..Len(s)
  BY <1>1
<1> QED
  BY <1>2, ConcatAdjacentSubSeq DEF From, Text

LEMMA FromColon ==
    ASSUME NEW s \in Text, NEW p \in 0..Len(s), p < Len(s), s[p + 1] = ":"
    PROVE  From(s, p) = Colon(From(s, p + 1)) /\ From(s, p + 1) \in Text /\ p + 1 \in 0..Len(s)
<1>1. p + 1 \in 0..Len(s)
  BY LenProperties DEF Text
<1> QED
  BY <1>1, FromIs DEF Colon

\* A gap has groups in front, or starts the text.
LEMMA ElidedIs ==
    ASSUME NEW t, NEW y, NEW z
    PROVE  Elided(t, y, z)
             <=> \/ Gapped(t, y, z)
                 \/ y = <<>> /\ \E e \in Text : t = Colon(Colon(e)) /\ EndOf(e, z)
<1>1. ASSUME NEW e \in Text PROVE <<>> \o <<":", ":">> \o e = Colon(Colon(e))
  <2>1. <<>> \o <<":", ":">> \o e = <<>> \o (<<":">> \o (<<":">> \o e))
    BY CharsOf, TwoColons
  <2>2. Colon(Colon(e)) \in Text
    BY ColonIsText
  <2>3. <<>> \o Colon(Colon(e)) = Colon(Colon(e))
    BY <2>2, ConcatEmptySeq DEF Text
  <2> QED
    BY <2>1, <2>3 DEF Colon
<1>2. ASSUME Elided(t, y, z)
      PROVE  \/ Gapped(t, y, z)
             \/ y = <<>> /\ \E e \in Text : t = Colon(Colon(e)) /\ EndOf(e, z)
  <2>1. PICK p \in Text, e \in Text : /\ PlainEnd(p, y) /\ EndOf(e, z)
                                      /\ t = p \o <<":", ":">> \o e
    BY <1>2 DEF Elided
  <2>2. CASE p # <<>>
    BY <2>1, <2>2 DEF Gapped
  <2>3. CASE p = <<>>
    BY <1>1, <2>1, <2>3, PlainTyped
  <2> QED
    BY <2>2, <2>3
<1>3. ASSUME Gapped(t, y, z) PROVE Elided(t, y, z)
  BY <1>3 DEF Gapped, Elided
<1>4. ASSUME y = <<>>, NEW e \in Text, t = Colon(Colon(e)), EndOf(e, z) PROVE Elided(t, y, z)
  <2>1. PlainEnd(<<>>, <<>>) /\ <<>> \in Text
    BY CharsOf, PlainBack DEF PlainFront
  <2> QED
    BY <1>1, <1>4, <2>1 DEF Elided
<1> QED
  BY <1>2, <1>3, <1>4

LEMMA LengthOf ==
    ASSUME NEW y \in Seq(Nat), NEW z \in Seq(Nat)
    PROVE  Len(y \o z) = Len(y) + Len(z) /\ Len(y) \in Nat /\ Len(z) \in Nat
  BY Concat, LenProperties DEF Concats

\* A text that does not start with a colon.
LEMMA PlainStart ==
    ASSUME NEW t \in Text, t # <<>>, t[1] # ":", NEW x, NEW gp
    PROVE  Whole(t, x, gp) <=> Completes(t, 0, -1, x, gp)
<1>0. NGroups \in Nat
  BY ParseAssumption
<1>1. ASSUME NEW e \in Text PROVE t # Colon(Colon(e))
  BY ColonIsText
<1>2. \A y, z : Elided(t, y, z) <=> Gapped(t, y, z)
  BY <1>1, ElidedIs
<1>3. ASSUME EndOf(t, x) PROVE Len(x) = NGroups <=> Counts(0 + Len(x), -1)
  <2>1. Len(x) \in Nat
    BY <1>3, EndTyped, LenProperties
  <2> QED
    BY <1>0, <2>1 DEF Counts
<1>4. ASSUME NEW y \in Seq(Nat), NEW z \in Seq(Nat), x = y \o z
      PROVE  /\ Len(y) + Len(z) < NGroups <=> 0 + Len(x) < NGroups
             /\ gp = Len(y) <=> gp = 0 + Len(y)
  BY <1>0, <1>4, LengthOf
<1>5. ASSUME Whole(t, x, gp) PROVE Completes(t, 0, -1, x, gp)
  <2>1. CASE EndOf(t, x) /\ gp = -1 /\ Len(x) = NGroups
    BY <1>3, <2>1 DEF Completes
  <2>2. ASSUME NEW y \in Seq(Nat), NEW z \in Seq(Nat), Elided(t, y, z), x = y \o z,
               gp = Len(y), Len(y) + Len(z) < NGroups
        PROVE  Completes(t, 0, -1, x, gp)
    <3>1. Gapped(t, y, z) /\ gp = 0 + Len(y) /\ 0 + Len(x) < NGroups /\ -1 < 0
      BY <1>2, <1>4, <2>2
    <3> QED
      BY <2>2, <3>1 DEF Completes
  <2> QED
    BY <1>5, <2>1, <2>2 DEF Whole
<1>6. Completes(t, 0, -1, x, gp) => Whole(t, x, gp)
  BY <1>2, <1>3, <1>4 DEF Whole, Completes
<1> QED
  BY <1>5, <1>6

\* A text that starts with two.
LEMMA GapStart ==
    ASSUME NEW e \in Text, NEW x, NEW gp
    PROVE  Whole(Colon(Colon(e)), x, gp) <=> Completes(e, 0, 0, x, gp)
<1> DEFINE t == Colon(Colon(e))
<1>0. NGroups \in Nat
  BY ParseAssumption
<1>1. t \in Text /\ t # <<>> /\ t[1] = ":"
  BY ColonIsText
<1>2. /\ \A y : ~EndOf(t, y)
      /\ \A y, z : ~Gapped(t, y, z)
  BY <1>1, NoColonEnd
<1>3. \A o \in Text : t = Colon(Colon(o)) <=> o = e
  BY ColonIsText, ColonSame
<1> HIDE DEF t
<1>4. \A y, z : Elided(t, y, z) <=> y = <<>> /\ EndOf(e, z)
  BY <1>2, <1>3, ElidedIs
<1>5. ASSUME Whole(t, x, gp) PROVE Completes(e, 0, 0, x, gp)
  <2>1. PICK y \in Seq(Nat), z \in Seq(Nat) :
          /\ Elided(t, y, z) /\ x = y \o z /\ gp = Len(y) /\ Len(y) + Len(z) < NGroups
    BY <1>2, <1>5 DEF Whole
  <2>2. y = <<>> /\ EndOf(e, z) /\ Len(y) = 0
    BY <1>4, <2>1
  <2>3. x = z
    BY <2>1, <2>2, ConcatEmptySeq
  <2>4. Counts(0 + Len(x), 0)
    BY <1>0, <2>1, <2>2, <2>3, LenProperties DEF Counts
  <2> QED
    BY <2>1, <2>2, <2>3, <2>4 DEF Completes
<1>6. ASSUME Completes(e, 0, 0, x, gp) PROVE Whole(t, x, gp)
  <2>1. EndOf(e, x) /\ gp = 0 /\ Counts(0 + Len(x), 0)
    BY <1>6 DEF Completes
  <2>2. x \in Seq(Nat) /\ Len(x) \in Nat /\ <<>> \in Seq(Nat) /\ Len(<<>>) = 0
    BY <2>1, EndTyped, LenProperties, EmptySeq
  <2>3. x = <<>> \o x /\ Len(<<>>) + Len(x) < NGroups /\ gp = Len(<<>>)
    BY <1>0, <2>1, <2>2, ConcatEmptySeq DEF Counts
  <2>4. Elided(t, <<>>, x)
    BY <1>4, <2>1
  <2> QED
    BY <2>2, <2>3, <2>4 DEF Whole
<1> QED
  BY <1>5, <1>6 DEF t

\* A text that starts with one colon, or is shorter than two.
LEMMA BadStart ==
    ASSUME NEW t \in Text, Len(t) < 2 \/ (t[1] = ":" /\ t[2] # ":"), NEW x, NEW gp
    PROVE  ~Whole(t, x, gp)
<1>0. NGroups \in Nat /\ NGroups >= 2
  BY ParseAssumption
<1>1. Len(t) \in Nat /\ (t = <<>> <=> Len(t) = 0)
  BY LenProperties, EmptySeq DEF Text
<1>2. ASSUME NEW p \in Text, NEW e \in Text, t = p \o (<<":">> \o (<<":">> \o e)) PROVE Len(t) >= 2
  <2>1. <<":">> \o e \in Text /\ Len(<<":">> \o e) = Len(e) + 1
    BY ColonLeads
  <2>2. <<":">> \o (<<":">> \o e) \in Text
        /\ Len(<<":">> \o (<<":">> \o e)) = Len(<<":">> \o e) + 1
    BY <2>1, ColonLeads
  <2>3. Concats(p, <<":">> \o (<<":">> \o e), Alphabet)
    BY <2>2, Concat DEF Text
  <2>4. Len(t) = Len(p) + ((Len(e) + 1) + 1) /\ Len(p) \in Nat /\ Len(e) \in Nat
    BY <1>2, <2>1, <2>2, <2>3, LenProperties DEF Concats, Text
  <2> QED
    BY <2>4
<1>3. \A y, z : ~Elided(t, y, z)
  <2>1. SUFFICES ASSUME NEW y, NEW z, Elided(t, y, z) PROVE FALSE
    OBVIOUS
  <2>2. PICK p \in Text, e \in Text : /\ PlainEnd(p, y) /\ EndOf(e, z)
                                      /\ t = p \o <<":", ":">> \o e
    BY <2>1 DEF Elided
  <2>3. t = p \o (<<":">> \o (<<":">> \o e))
    BY <2>2, TwoColons
  <2>4. Len(t) >= 2
    BY <1>2, <2>3
  <2>5. t[1] = ":" /\ t[2] # ":"
    BY <1>1, <2>4
  <2>6. p = <<>>
    <3>1. ASSUME p # <<>> PROVE FALSE
      <4>1. Gapped(t, y, z)
        BY <2>2, <3>1 DEF Gapped
      <4> QED
        BY <2>5, <4>1, NoColonEnd, GappedTyped, CharsOf
    <3> QED
      BY <3>1
  <2>7. t = <<":">> \o (<<":">> \o e)
    BY <2>3, <2>6, ColonLeads, ConcatEmptySeq DEF Text
  <2>8. t[2] = ":"
    <3>1. <<":">> \o e \in Text /\ (<<":">> \o e)[1] = ":" /\ Len(<<":">> \o e) = Len(e) + 1
      BY ColonLeads
    <3>2. Concats(<<":">>, <<":">> \o e, Alphabet)
      BY <3>1, CharsOf, Concat DEF Text
    <3>3. Len(<<":">>) = 1 /\ Len(e) \in Nat
      BY LenProperties DEF Text
    <3>4. 2 \in 1..Len(<<":">>) + Len(<<":">> \o e) /\ ~(2 <= Len(<<":">>)) /\ 2 - Len(<<":">>) = 1
      BY <3>1, <3>3
    <3>5. t[2] = (<<":">> \o e)[1]
      BY <2>7, <3>2, <3>3, <3>4 DEF Concats
    <3> QED
      BY <3>1, <3>5
  <2> QED
    BY <2>5, <2>8
<1>4. ASSUME EndOf(t, x) PROVE Len(x) # NGroups
  <2>1. CASE t # <<>> /\ t[1] = ":"
    BY <1>4, <2>1, EndTyped, CharsOf
  <2>2. CASE Len(t) < 2
    <3>1. EndFront(t, x)
      BY <1>4, EndStarts
    <3>2. CASE t = <<>> /\ x = <<>>
      BY <1>0, <3>2
    <3>3. CASE t \in GroupTexts /\ x = <<Number(t, HexRadix)>>
      BY <1>0, <3>3
    <3>4. ASSUME NEW os \in Quads, t = Joined(".", os) PROVE FALSE
      BY <1>1, <2>2, <3>4, QuadNotEmpty
    <3>5. ASSUME NEW g \in GroupTexts, NEW u \in Text, NEW y, Led(g, u, y, t, x) PROVE FALSE
      <4>1. g \in Text /\ Len(g) \in Nat \ {0} /\ Len(u) \in Nat
        BY GroupText, LenProperties DEF Text
      <4>2. <<":">> \o u \in Text /\ Len(<<":">> \o u) = Len(u) + 1
        BY ColonLeads
      <4>3. Concats(g, <<":">> \o u, Alphabet)
        BY <4>1, <4>2, Concat DEF Text
      <4>4. Len(t) = Len(g) + (Len(u) + 1)
        BY <3>5, <4>2, <4>3 DEF Concats, Led
      <4> QED
        BY <2>2, <4>1, <4>4
    <3> QED
      BY <3>1, <3>2, <3>3, <3>4, <3>5 DEF EndFront
  <2> QED
    BY <1>1, <2>1, <2>2
<1> QED
  BY <1>3, <1>4 DEF Whole

-----------------------------------------------------------------------------
(* What parseAddr6 has read, and what the rest of the text may add.        *)

Read(g, m) == [k \in 1..m |-> g[k - 1]]
Leads(t, m, h, w, F) == \E x, gp : Completes(t, m, h, x, gp) /\ F = Spread(w \o x, gp)
\* s spells what t completes, with the groups w read.
Remains(s, t, m, h, w) == \A F : Spells6(s, F) <=> Leads(t, m, h, w, F)
Misspelt(s)   == \A F : ~Spells6(s, F)
Spelt(s, w)   == \A F : Spells6(s, F) <=> F = w

LEMMA Onward ==
    ASSUME NEW s, NEW t, NEW m, NEW h, NEW w \in Seq(Nat), Remains(s, t, m, h, w),
           NEW u, NEW k, NEW g, NEW d \in Seq(Nat), Advances(t, m, h, u, k, g, d)
    PROVE  Remains(s, u, k, g, w \o d)
<1>1. ASSUME NEW F, Leads(t, m, h, w, F) PROVE Leads(u, k, g, w \o d, F)
  <2>1. PICK x, gp : Completes(t, m, h, x, gp) /\ F = Spread(w \o x, gp)
    BY <1>1 DEF Leads
  <2>2. PICK y \in Seq(Nat) : x = d \o y /\ Completes(u, k, g, y, gp)
    BY <2>1 DEF Advances
  <2>3. Associates(w, d, y, Nat)
    BY <2>2, Association
  <2>4. w \o x = (w \o d) \o y
    BY <2>2, <2>3 DEF Associates
  <2> QED
    BY <2>1, <2>2, <2>4 DEF Leads
<1>2. ASSUME NEW F, Leads(u, k, g, w \o d, F) PROVE Leads(t, m, h, w, F)
  <2>1. PICK y, gp : Completes(u, k, g, y, gp) /\ F = Spread((w \o d) \o y, gp)
    BY <1>2 DEF Leads
  <2>2. y \in Seq(Nat)
    BY <2>1, CompletesTyped
  <2>3. Completes(t, m, h, d \o y, gp)
    BY <2>1, <2>2 DEF Advances
  <2>4. Associates(w, d, y, Nat)
    BY <2>2, Association
  <2>5. w \o (d \o y) = (w \o d) \o y
    BY <2>4 DEF Associates
  <2> QED
    BY <2>1, <2>3, <2>5 DEF Leads
<1> QED
  BY <1>1, <1>2 DEF Remains

LEMMA NoWay ==
    ASSUME NEW s, NEW t, NEW m, NEW h, NEW w, Remains(s, t, m, h, w), Stuck(t, m, h)
    PROVE  Misspelt(s)
  BY DEF Remains, Leads, Stuck, Misspelt

LEMMA Finished ==
    ASSUME NEW s, NEW m \in Nat, NEW h, NEW w \in Seq(Nat), Remains(s, <<>>, m, h, w)
    PROVE  IF Counts(m, h) THEN Spelt(s, Spread(w, h)) ELSE Misspelt(s)
<1>1. CASE Counts(m, h)
  <2>1. \A x, gp : Completes(<<>>, m, h, x, gp) <=> x = <<>> /\ gp = h
    BY <1>1, CompletesEmpty
  <2>2. w \o <<>> = w
    BY ConcatEmptySeq
  <2>3. \A F : Leads(<<>>, m, h, w, F) <=> F = Spread(w, h)
    <3>1. ASSUME NEW F, Leads(<<>>, m, h, w, F) PROVE F = Spread(w, h)
      <4>1. PICK x, gp : Completes(<<>>, m, h, x, gp) /\ F = Spread(w \o x, gp)
        BY <3>1 DEF Leads
      <4>2. x = <<>> /\ gp = h
        BY <2>1, <4>1
      <4> QED
        BY <2>2, <4>1, <4>2
    <3>2. Leads(<<>>, m, h, w, Spread(w, h))
      <4>1. Completes(<<>>, m, h, <<>>, h)
        BY <2>1
      <4> QED
        BY <2>2, <4>1 DEF Leads
    <3> QED
      BY <3>1, <3>2
  <2> QED
    BY <1>1, <2>3 DEF Remains, Spelt
<1>2. CASE ~Counts(m, h)
  <2>1. Stuck(<<>>, m, h)
    BY <1>2, CompletesEmpty DEF Stuck
  <2> QED
    BY <1>2, <2>1, NoWay
<1> QED
  BY <1>1, <1>2

LEMMA Beginning ==
    ASSUME NEW s, NEW t, NEW h,
           \A x, gp : Whole(s, x, gp) <=> Completes(t, 0, h, x, gp)
    PROVE  Remains(s, t, 0, h, <<>>)
<1>1. \A x, gp : Completes(t, 0, h, x, gp) => <<>> \o x = x
  BY CompletesTyped, ConcatEmptySeq
<1>2. \A F : Leads(t, 0, h, <<>>, F) <=> \E x, gp : Completes(t, 0, h, x, gp) /\ F = Spread(x, gp)
  BY <1>1 DEF Leads
<1> QED
  BY <1>2, SpelledIs DEF Remains

LEMMA NoBeginning ==
    ASSUME NEW s, \A x, gp : ~Whole(s, x, gp)
    PROVE  Misspelt(s)
  BY SpelledIs DEF Misspelt

Arrays == [0..NGroups - 1 -> Nat]

LEMMA ReadIs ==
    ASSUME NEW g \in Arrays, NEW m \in 0..NGroups
    PROVE  /\ Read(g, m) \in Seq(Nat) /\ Len(Read(g, m)) = m
           /\ \A k \in 1..m : Read(g, m)[k] = g[k - 1]
<1>1. NGroups \in Nat /\ m \in Nat
  BY ParseAssumption
<1>2. ASSUME NEW k \in 1..m PROVE g[k - 1] \in Nat
  <2>1. k - 1 \in 0..NGroups - 1
    BY <1>1
  <2> QED
    BY <2>1 DEF Arrays
<1>3. Read(g, m) \in [1..m -> Nat]
  BY <1>2 DEF Read
<1>4. Read(g, m) \in Seq(Nat)
  BY <1>1, <1>3, SeqDef
<1>5. Len(Read(g, m)) = m
  BY <1>1, <1>3, <1>4, LenProperties
<1> QED
  BY <1>4, <1>5 DEF Read

LEMMA ReadMore ==
    ASSUME NEW g \in Arrays, NEW m \in 0..NGroups, m < NGroups, NEW v \in Nat
    PROVE  /\ [g EXCEPT ![m] = v] \in Arrays
           /\ Read([g EXCEPT ![m] = v], m + 1) = Read(g, m) \o <<v>>
<1> DEFINE f == [g EXCEPT ![m] = v]
           w == Read(g, m)
           e == Read(f, m + 1)
<1>1. NGroups \in Nat /\ m \in Nat /\ m \in 0..NGroups - 1 /\ m + 1 \in 0..NGroups
  BY ParseAssumption
<1>2. f \in Arrays /\ \A k \in 0..NGroups - 1 : f[k] = IF k = m THEN v ELSE g[k]
  BY <1>1 DEF Arrays
<1> HIDE DEF f
<1>3. w \in Seq(Nat) /\ Len(w) = m /\ \A k \in 1..m : w[k] = g[k - 1]
  BY ReadIs
<1>4. e \in Seq(Nat) /\ Len(e) = m + 1 /\ \A k \in 1..m + 1 : e[k] = f[k - 1]
  BY <1>1, <1>2, ReadIs
<1> HIDE DEF w, e
<1>5. <<v>> \in Seq(Nat) /\ Len(<<v>>) = 1 /\ <<v>>[1] = v
  OBVIOUS
<1>6. Concats(w, <<v>>, Nat)
  BY <1>3, <1>5, Concat
<1>7. /\ w \o <<v>> \in Seq(Nat) /\ Len(w \o <<v>>) = m + 1
      /\ \A k \in 1..m + 1 : (w \o <<v>>)[k] = IF k <= m THEN w[k] ELSE <<v>>[k - m]
  BY <1>3, <1>5, <1>6 DEF Concats
<1>8. ASSUME NEW k \in 1..m + 1 PROVE e[k] = (w \o <<v>>)[k]
  <2>1. CASE k <= m
    <3>1. k \in 1..m /\ k - 1 \in 0..NGroups - 1 /\ k - 1 # m
      BY <1>1, <2>1
    <3> QED
      BY <1>2, <1>3, <1>4, <1>7, <2>1, <3>1
  <2>2. CASE ~(k <= m)
    <3>1. k - m = 1 /\ k - 1 = m
      BY <1>1, <2>2
    <3> QED
      BY <1>1, <1>2, <1>4, <1>5, <1>7, <2>2, <3>1
  <2> QED
    BY <2>1, <2>2
<1>9. e = w \o <<v>>
  BY <1>4, <1>7, <1>8, SeqEqual
<1> QED
  BY <1>2, <1>9 DEF f, e, w

LEMMA ReadTwo ==
    ASSUME NEW g \in Arrays, NEW m \in 0..NGroups, m + 1 < NGroups, NEW u \in Nat, NEW v \in Nat
    PROVE  /\ [g EXCEPT ![m] = u, ![m + 1] = v] \in Arrays
           /\ Read([g EXCEPT ![m] = u, ![m + 1] = v], m + 2) = Read(g, m) \o <<u, v>>
<1> DEFINE f == [g EXCEPT ![m] = u]
<1>1. NGroups \in Nat /\ m < NGroups /\ m + 1 \in 0..NGroups /\ (m + 1) + 1 = m + 2
  BY ParseAssumption
<1>2. f \in Arrays /\ Read(f, m + 1) = Read(g, m) \o <<u>>
  BY <1>1, ReadMore
<1>3. [g EXCEPT ![m] = u, ![m + 1] = v] = [f EXCEPT ![m + 1] = v]
  OBVIOUS
<1> HIDE DEF f
<1>4. /\ [f EXCEPT ![m + 1] = v] \in Arrays
      /\ Read([f EXCEPT ![m + 1] = v], m + 2) = Read(f, m + 1) \o <<v>>
  <2>1. /\ [f EXCEPT ![m + 1] = v] \in Arrays
        /\ Read([f EXCEPT ![m + 1] = v], (m + 1) + 1) = Read(f, m + 1) \o <<v>>
    BY <1>1, <1>2, ReadMore
  <2> QED
    BY <1>1, <2>1
<1>5. (Read(g, m) \o <<u>>) \o <<v>> = Read(g, m) \o (<<u>> \o <<v>>)
  BY ReadIs, AssocNat
<1>6. <<u>> \o <<v>> = <<u, v>>
  <2>0. <<u>> \in Seq(Nat) /\ <<v>> \in Seq(Nat)
    OBVIOUS
  <2>1. Concats(<<u>>, <<v>>, Nat)
    BY <2>0, Concat
  <2>2. /\ <<u>> \o <<v>> \in Seq(Nat) /\ Len(<<u>> \o <<v>>) = 2
        /\ (<<u>> \o <<v>>)[1] = u /\ (<<u>> \o <<v>>)[2] = v
    <3>1. Len(<<u>>) = 1 /\ Len(<<v>>) = 1 /\ 1 \in 1..2 /\ 2 \in 1..2 /\ 2 - 1 = 1
      OBVIOUS
    <3> QED
      BY <2>1, <3>1 DEF Concats
  <2>3. /\ <<u, v>> \in Seq(Nat) /\ Len(<<u, v>>) = 2
        /\ \A k \in 1..2 : k = 1 \/ k = 2
    OBVIOUS
  <2> HIDE DEF Concats
  <2>4. \A k \in 1..2 : (<<u>> \o <<v>>)[k] = <<u, v>>[k]
    BY <2>2, <2>3
  <2> QED
    BY <2>2, <2>3, <2>4, SeqEqual
<1> QED
  BY <1>2, <1>3, <1>4, <1>5, <1>6

-----------------------------------------------------------------------------
(* The loop of parseAddr6 keeps to what the text spells.                   *)

Settled(s, r, w) == (r = "ok" /\ Spelt(s, w)) \/ (r = "bad" /\ Misspelt(s))

ParseInv ==
    /\ b \in Text /\ n \in 0..NGroups /\ i \in 0..Len(b) /\ groups \in Arrays
    /\ gap \in Int /\ gap <= n
    /\ pc \in {"start", "loop", "fit", "done"}
    /\ pc = "start" => /\ i = 0 /\ n = 0 /\ gap = -1
                       /\ \A k \in 0..NGroups - 1 : groups[k] = 0
    /\ pc = "loop" => Remains(b, From(b, i), n, gap, Read(groups, n))
    /\ pc = "fit" => Remains(b, <<>>, n, gap, Read(groups, n))
    /\ pc = "done" => Settled(b, result, Read(groups, NGroups))

LEMMA ParseInit == ASSUME TextInit PROVE ParseInv
<1>1. b \in Text /\ Len(b) \in Nat
  BY TextInits, LenProperties DEF Text
<1>2. NGroups \in Nat
  BY ParseAssumption
<1>3. groups \in Arrays /\ \A k \in 0..NGroups - 1 : groups[k] = 0
  BY DEF TextInit, Arrays
<1> QED
  BY <1>1, <1>2, <1>3 DEF TextInit, ParseInv

LEMMA Refuses == ASSUME ParseInv, Misspelt(b), Done("bad") PROVE ParseInv'
<1>1. /\ pc' = "done" /\ result' = "bad" /\ b' = b /\ i' = i /\ groups' = groups
      /\ n' = n /\ gap' = gap
  BY DEF Done
<1> QED
  BY <1>1 DEF ParseInv, Settled

\* A quad that is read.
LEMMA QuadFits ==
    ASSUME NEW os \in Quads, NEW s, NEW m \in Nat, NEW h, NEW w \in Seq(Nat),
           Remains(s, Joined(".", os), m, h, w)
    PROVE  Remains(s, <<>>, m + 2, h, w \o Halves(os))
  BY HalvesAre, QuadAdvances, Onward

LEMMA QuadKeeps == ASSUME ParseInv, Quad PROVE ParseInv'
<1>0. NGroups \in Nat /\ Len(b) \in Nat /\ n \in Nat /\ b \in Text /\ i \in 0..Len(b)
  BY LenProperties, ParseAssumption DEF ParseInv, Text
<1> DEFINE t == From(b, i)
           w == Read(groups, n)
<1>1. pc = "loop" /\ parseAddr4(t).ok /\ t \in Text
  BY <1>0, FromIs DEF Quad, Rest, From
<1>2. w \in Seq(Nat) /\ Remains(b, t, n, gap, w)
  BY <1>1, ReadIs DEF ParseInv
<1> HIDE DEF t, w
<1>3. PICK os \in Quads : t = Joined(".", os)
  BY <1>1, QuadIs
<1>4. Remains(b, <<>>, n + 2, gap, w \o Halves(os))
  BY <1>0, <1>2, <1>3, QuadFits
<1>5. w \o Halves(os) \in Seq(Nat)
  BY <1>2, HalvesAre, Concat DEF Concats
<1>6. CASE n > NGroups - 2
  <2>1. ~Counts(n + 2, gap)
    BY <1>0, <1>6 DEF Counts
  <2>2. n + 2 \in Nat
    BY <1>0
  <2>3. Misspelt(b)
    BY <1>4, <1>5, <2>1, <2>2, Finished
  <2>4. Done("bad")
    BY <1>6 DEF Quad
  <2> QED
    BY <2>3, <2>4, Refuses
<1>7. CASE ~(n > NGroups - 2)
  <2>1. n + 1 < NGroups /\ n + 2 \in 0..NGroups
    BY <1>0, <1>7
  <2>2. parseAddr4(t).ip = QuadOf(os)
    BY <1>3, QuadRead
  <2> DEFINE q == QuadOf(os)
             f == [groups EXCEPT ![n] = q \div GroupSize, ![n + 1] = q % GroupSize]
  <2>3. /\ groups' = f /\ n' = n + 2 /\ pc' = "fit" /\ b' = b /\ i' = i /\ gap' = gap
    <3>1. parseAddr4(Rest).ip = QuadOf(os)
      BY <2>2 DEF t, From, Rest
    <3>2. ~(n + 1 >= NGroups)
      BY <1>0, <2>1
    <3> QED
      BY <1>7, <3>1, <3>2 DEF Quad
  <2>4. Halves(os) = <<q \div GroupSize, q % GroupSize>>
    BY DEF Halves
  <2>5. q \div GroupSize \in Nat /\ q % GroupSize \in Nat
    <3>1. Halves(os) \in Seq(Nat) /\ Len(Halves(os)) = 2 /\ 1 \in 1..2 /\ 2 \in 1..2
      BY HalvesAre
    <3>2. Halves(os)[1] \in Nat /\ Halves(os)[2] \in Nat
      BY <3>1, LenProperties
    <3> QED
      BY <2>4, <3>2
  <2>6. groups \in Arrays /\ n \in 0..NGroups
    BY DEF ParseInv
  <2> HIDE DEF q
  <2>7. f \in Arrays /\ Read(f, n + 2) = w \o <<q \div GroupSize, q % GroupSize>>
    BY <2>1, <2>5, <2>6, ReadTwo DEF w
  <2> HIDE DEF f
  <2>8. Remains(b', <<>>, n', gap', Read(groups', n'))
    BY <1>4, <2>3, <2>4, <2>7
  <2>9. gap' \in Int /\ gap' <= n'
    BY <1>0, <2>3 DEF ParseInv
  <2> QED
    BY <1>0, <2>1, <2>3, <2>7, <2>8, <2>9 DEF ParseInv
<1> QED
  BY <1>6, <1>7

LEMMA ExhaustedKeeps == ASSUME ParseInv, Exhausted PROVE ParseInv'
<1>1. From(b, i) = <<>>
  BY FromIs DEF ParseInv, Exhausted
<1>2. Remains(b, <<>>, n, gap, Read(groups, n))
  BY <1>1 DEF ParseInv, Exhausted
<1> QED
  BY <1>2 DEF ParseInv, Exhausted

\* The gap of an array is that of the sequence it stands for.
Shifted(g, h, m) ==
    [k \in 0..NGroups - 1 |-> IF k < h THEN g[k]
                              ELSE IF k < h + (NGroups - m) THEN 0 ELSE g[k - (NGroups - m)]]

LEMMA ShiftedIs ==
    ASSUME NEW g \in Arrays, NEW m \in 0..NGroups, NEW h \in Nat, h <= m, m < NGroups
    PROVE  Shifted(g, h, m) \in Arrays /\ Read(Shifted(g, h, m), NGroups) = Spread(Read(g, m), h)
<1> DEFINE s == NGroups - m
           f == Shifted(g, h, m)
           w == Read(g, m)
<1>1. NGroups \in Nat /\ m \in Nat /\ s \in Nat \ {0} /\ ~(h < 0) /\ NGroups \in 0..NGroups
  BY ParseAssumption
<1>2. w \in Seq(Nat) /\ Len(w) = m /\ \A k \in 1..m : w[k] = g[k - 1]
  BY ReadIs
<1>3. ASSUME NEW k \in 0..NGroups - 1, ~(k < h + s) PROVE k - s \in 0..NGroups - 1
  BY <1>1, <1>3
<1>4. \A k \in 0..NGroups - 1 : g[k] \in Nat
  BY DEF Arrays
<1>5. f = [k \in 0..NGroups - 1 |-> IF k < h THEN g[k] ELSE IF k < h + s THEN 0 ELSE g[k - s]]
  BY DEF Shifted
<1> HIDE DEF f, s
<1>6. f \in Arrays
  BY <1>3, <1>4, <1>5 DEF Arrays
<1> HIDE DEF w
<1>7. Spread(w, h) = [k \in 1..NGroups |-> IF k <= h THEN w[k]
                                           ELSE IF k <= h + s THEN 0 ELSE w[k - s]]
  <2>1. NGroups - Len(w) = s
    BY <1>2 DEF s
  <2> QED
    BY <1>1, <2>1 DEF Spread
<1>8. ASSUME NEW k \in 1..NGroups
      PROVE  f[k - 1] = IF k <= h THEN w[k] ELSE IF k <= h + s THEN 0 ELSE w[k - s]
  <2>0. k - 1 \in 0..NGroups - 1 /\ k \in Nat /\ s + m = NGroups
    BY <1>1 DEF s
  <2>1. CASE k <= h
    <3>1. k - 1 < h /\ k \in 1..m
      BY <1>1, <2>0, <2>1
    <3> QED
      BY <1>2, <1>5, <2>0, <2>1, <3>1
  <2>2. CASE ~(k <= h) /\ k <= h + s
    <3>1. ~(k - 1 < h) /\ k - 1 < h + s
      BY <1>1, <2>0, <2>2
    <3> QED
      BY <1>5, <2>0, <2>2, <3>1
  <2>3. CASE ~(k <= h) /\ ~(k <= h + s)
    <3>1. ~(k - 1 < h) /\ ~(k - 1 < h + s) /\ k - s \in 1..m /\ (k - 1) - s = (k - s) - 1
      BY <1>1, <2>0, <2>3
    <3> QED
      BY <1>2, <1>5, <2>0, <2>3, <3>1
  <2> QED
    BY <2>1, <2>2, <2>3
<1>9. Read(f, NGroups) = Spread(w, h)
  BY <1>7, <1>8 DEF Read
<1> QED
  BY <1>6, <1>9 DEF f, w

LEMMA FitKeeps == ASSUME ParseInv, Fit PROVE ParseInv'
<1> DEFINE w == Read(groups, n)
<1>1. /\ NGroups \in Nat /\ n \in Nat /\ n \in 0..NGroups /\ gap \in Int /\ gap <= n
      /\ groups \in Arrays /\ pc = "fit"
  BY ParseAssumption DEF ParseInv, Fit
<1>2. w \in Seq(Nat) /\ Remains(b, <<>>, n, gap, w)
  BY <1>1, ReadIs DEF ParseInv
<1> HIDE DEF w
<1>3. IF Counts(n, gap) THEN Spelt(b, Spread(w, gap)) ELSE Misspelt(b)
  BY <1>1, <1>2, Finished
<1>4. CASE ~Counts(n, gap)
  <2>1. IF gap < 0 THEN n # NGroups ELSE n >= NGroups
    BY <1>1, <1>4 DEF Counts
  <2>2. Done("bad")
    BY <2>1 DEF Fit
  <2> QED
    BY <1>3, <1>4, <2>2, Refuses
<1>5. CASE Counts(n, gap)
  <2>1. ~(IF gap < 0 THEN n # NGroups ELSE n >= NGroups)
    BY <1>1, <1>5 DEF Counts
  <2>2. /\ groups' = IF gap < 0 THEN groups ELSE Shifted(groups, gap, n)
        /\ pc' = "done" /\ result' = "ok" /\ b' = b /\ i' = i /\ n' = n /\ gap' = gap
    BY <2>1 DEF Fit, Shifted
  <2>3. groups' \in Arrays /\ Read(groups', NGroups) = Spread(w, gap)
    <3>1. CASE gap < 0
      <4>1. n = NGroups
        BY <1>5, <3>1 DEF Counts
      <4> QED
        BY <1>1, <2>2, <3>1, <4>1 DEF Spread, w
    <3>2. CASE ~(gap < 0)
      <4>1. gap \in Nat /\ n < NGroups
        BY <1>1, <1>5, <3>2 DEF Counts
      <4> QED
        BY <1>1, <2>2, <3>2, <4>1, ShiftedIs DEF w
    <3> QED
      BY <3>1, <3>2
  <2>4. Settled(b', result', Read(groups', NGroups))
    BY <1>3, <1>5, <2>2, <2>3 DEF Settled
  <2> QED
    BY <2>2, <2>3, <2>4 DEF ParseInv
<1> QED
  BY <1>4, <1>5

-----------------------------------------------------------------------------

LEMMA ReadNone == ASSUME NEW g \in Arrays PROVE Read(g, 0) = <<>>
<1>1. 0 \in 0..NGroups
  BY ParseAssumption
<1>2. Read(g, 0) \in Seq(Nat) /\ Len(Read(g, 0)) = 0
  BY <1>1, ReadIs
<1> QED
  BY <1>2, EmptySeq

LEMMA StartKeeps == ASSUME ParseInv, Start PROVE ParseInv'
<1>0. /\ b \in Text /\ Len(b) \in Nat /\ (b = <<>> <=> Len(b) = 0) /\ NGroups \in Nat /\ NGroups >= 2
      /\ pc = "start" /\ i = 0 /\ n = 0 /\ gap = -1 /\ groups \in Arrays
      /\ \A k \in 0..NGroups - 1 : groups[k] = 0
  BY LenProperties, EmptySeq, ParseAssumption DEF ParseInv, Start, Text
<1>1. Len(b) >= 2 => Char(0) = b[1] /\ Char(1) = b[2]
  <2>1. Char(0) = (IF 0 < Len(b) THEN b[0 + 1] ELSE "") /\ Char(1) = IF 1 < Len(b) THEN b[1 + 1] ELSE ""
    BY Zenon DEF Char
  <2>2. 0 + 1 = 1 /\ 1 + 1 = 2
    OBVIOUS
  <2>3. b[0 + 1] = b[1] /\ b[1 + 1] = b[2]
    BY <2>2, Zenon
  <2>4. Len(b) \in Nat
    BY <1>0
  <2>5. Len(b) >= 2 => 0 < Len(b) /\ 1 < Len(b)
    BY <2>4
  <2> QED
    BY <2>1, <2>3, <2>5, Zenon
<1>2. CASE Len(b) < 2 \/ (Char(0) = ":" /\ Char(1) # ":")
  <2>1. Len(b) < 2 \/ (b[1] = ":" /\ b[2] # ":")
    BY <1>0, <1>1, <1>2
  <2>2. Misspelt(b)
    BY <1>0, <2>1, BadStart, NoBeginning
  <2>3. Done("bad")
    BY <1>2 DEF Start
  <2> QED
    BY <2>2, <2>3, Refuses
<1>3. CASE ~(Len(b) < 2 \/ (Char(0) = ":" /\ Char(1) # ":")) /\ Char(0) # ":"
  <2>1. /\ pc' = "loop" /\ b' = b /\ i' = i /\ groups' = groups /\ n' = n /\ gap' = gap
    BY <1>3 DEF Start
  <2>2. b # <<>> /\ b[1] # ":"
    BY <1>0, <1>1, <1>3
  <2>3. Remains(b, b, 0, -1, <<>>)
    BY <1>0, <2>2, PlainStart, Beginning
  <2>4. From(b, 0) = b /\ Read(groups, 0) = <<>>
    BY <1>0, FromStart, ReadNone
  <2>5. Remains(b', From(b', i'), n', gap', Read(groups', n'))
    BY <1>0, <2>1, <2>3, <2>4
  <2> QED
    BY <1>0, <2>1, <2>5 DEF ParseInv
<1>4. CASE ~(Len(b) < 2 \/ (Char(0) = ":" /\ Char(1) # ":")) /\ Char(0) = ":"
  <2>1. Len(b) >= 2 /\ b[1] = ":" /\ b[2] = ":"
    BY <1>0, <1>1, <1>4
  <2> DEFINE e == From(b, 2)
  <2>2. b = Colon(Colon(e)) /\ e \in Text /\ 2 \in 0..Len(b)
    <3>1. 0 \in 0..Len(b) /\ 0 < Len(b) /\ 0 + 1 = 1 /\ 1 \in 0..Len(b) /\ 1 < Len(b) /\ 1 + 1 = 2
      BY <1>0, <2>1
    <3>2. From(b, 0) = Colon(From(b, 1))
      BY <1>0, <2>1, <3>1, FromColon
    <3>3. From(b, 1) = Colon(From(b, 2)) /\ From(b, 2) \in Text /\ 2 \in 0..Len(b)
      BY <1>0, <2>1, <3>1, FromColon
    <3> QED
      BY <1>0, <3>2, <3>3, FromStart
  <2> HIDE DEF e
  <2>3. \A x, gp : Whole(b, x, gp) <=> Completes(e, 0, 0, x, gp)
    BY <2>2, GapStart
  <2>4. Remains(b, e, 0, 0, <<>>)
    BY <2>3, Beginning
  <2>5. CASE Len(b) = 2
    <3>1. e = <<>>
      BY <1>0, <2>2, <2>5, FromIs DEF e
    <3>2. Counts(0, 0) /\ <<>> \in Seq(Nat) /\ 0 \in Nat
      BY <1>0 DEF Counts
    <3>3. Spelt(b, Spread(<<>>, 0))
      BY <2>4, <3>1, <3>2, Finished
    <3>4. /\ pc' = "done" /\ result' = "ok" /\ b' = b /\ i' = i /\ groups' = groups
          /\ n' = n /\ gap' = gap
      BY <1>4, <2>5 DEF Start, Done
    <3>5. Spread(<<>>, 0) = [k \in 1..NGroups |-> 0]
      <4>1. NGroups - Len(<<>>) = NGroups /\ ~(0 < 0)
        BY <1>0
      <4>2. Spread(<<>>, 0) = [k \in 1..NGroups |-> IF k <= 0 THEN <<>>[k]
                                                   ELSE IF k <= 0 + NGroups THEN 0
                                                   ELSE <<>>[k - NGroups]]
        BY <4>1 DEF Spread
      <4>3. \A k \in 1..NGroups : ~(k <= 0) /\ k <= 0 + NGroups
        BY <1>0
      <4> QED
        BY <4>2, <4>3
    <3>6. Read(groups, NGroups) = [k \in 1..NGroups |-> 0]
      <4>1. \A k \in 1..NGroups : k - 1 \in 0..NGroups - 1
        BY <1>0
      <4>2. \A k \in 1..NGroups : groups[k - 1] = 0
        BY <1>0, <4>1
      <4> QED
        BY <4>2 DEF Read
    <3>7. Settled(b', result', Read(groups', NGroups))
      BY <3>3, <3>4, <3>5, <3>6 DEF Settled
    <3> QED
      BY <1>0, <3>4, <3>7 DEF ParseInv
  <2>6. CASE Len(b) # 2
    <3>1. /\ gap' = 0 /\ i' = 2 /\ pc' = "loop" /\ b' = b /\ groups' = groups /\ n' = n
      BY <1>4, <2>6 DEF Start
    <3>2. Read(groups, 0) = <<>>
      BY <1>0, ReadNone
    <3>3. Remains(b', From(b', i'), n', gap', Read(groups', n'))
      BY <1>0, <2>4, <3>1, <3>2 DEF e
    <3> QED
      BY <1>0, <2>2, <3>1, <3>3 DEF ParseInv
  <2> QED
    BY <2>5, <2>6
<1> QED
  BY <1>2, <1>3, <1>4

\* The run of hex digits at a position.
LEMMA GroupReads ==
    ASSUME NEW s \in Text, NEW p \in 0..Len(s), p < Len(s), NoQuad(From(s, p)),
           NEW to, to = RunEnd(s, p, isHex), NEW run, run = SubSeq(s, p + 1, to)
    PROVE  /\ to \in p..Len(s) /\ to \in 0..Len(s) /\ Splits(From(s, p), run, From(s, to))
           /\ run \in GroupTexts <=> to - p \in 1..GroupDigits
<1>1. Len(s) \in Nat /\ p \in Nat
  BY LenProperties DEF Text
<1>2. RunTo(s, p, isHex, to)
  BY RunHas
<1>3. /\ to \in p..Len(s) /\ to \in 0..Len(s) /\ \A k \in p + 1..to : s[k] \in isHex
      /\ to < Len(s) => s[to + 1] \notin isHex
  BY <1>1, <1>2 DEF RunTo
<1>4. run \in Seq(isHex) /\ Len(run) = to - p
  <2>1. p + 1 \in Int /\ to \in Int
    BY <1>1, <1>3
  <2>2. run \in Seq(isHex) /\ Len(run) = IF p + 1 <= to THEN to - (p + 1) + 1 ELSE 0
    BY <1>3, <2>1, SubSeqProperties
  <2>3. (IF p + 1 <= to THEN to - (p + 1) + 1 ELSE 0) = to - p
    BY <1>1, <1>3
  <2> QED
    BY <2>2, <2>3
<1>5. From(s, to) \in Text /\ Closed(From(s, to))
  <2>1. CASE to = Len(s)
    BY <1>3, <2>1, FromIs DEF Closed
  <2>2. CASE to < Len(s)
    BY <1>3, <2>2, FromIs DEF Closed
  <2> QED
    BY <1>1, <1>3, <2>1, <2>2, FromIs
<1>6. From(s, p) = run \o From(s, to) /\ From(s, p) # <<>>
  BY <1>3, FromRun, FromIs
<1> QED
  BY <1>3, <1>4, <1>5, <1>6, GroupIs DEF Splits

\* A group that is read, and the text past it and its separator.
LEMMA GroupFits ==
    ASSUME ParseInv, pc = "loop", n < NGroups, NEW v \in Nat,
           groups' = [groups EXCEPT ![n] = v], n' = n + 1, b' = b,
           NEW u, NEW g, Advances(From(b, i), n, gap, u, n + 1, g, <<v>>)
    PROVE  /\ Remains(b', u, n', g, Read(groups', n')) /\ groups' \in Arrays
           /\ n' \in 0..NGroups
<1>1. NGroups \in Nat /\ n \in Nat /\ n \in 0..NGroups /\ groups \in Arrays
  BY ParseAssumption DEF ParseInv
<1>2. groups' \in Arrays /\ Read(groups', n + 1) = Read(groups, n) \o <<v>>
  BY <1>1, ReadMore
<1>3. Read(groups, n) \in Seq(Nat) /\ <<v>> \in Seq(Nat)
  BY <1>1, ReadIs
<1>4. Remains(b, From(b, i), n, gap, Read(groups, n))
  BY DEF ParseInv
<1>5. Remains(b, u, n + 1, g, Read(groups, n) \o <<v>>)
  BY <1>3, <1>4, Onward
<1>6. n + 1 \in 0..NGroups
  BY <1>1
<1>7. Remains(b', u, n', g, Read(groups', n'))
  BY <1>2, <1>5
<1> QED
  BY <1>2, <1>6, <1>7

LEMMA GroupKeeps == ASSUME ParseInv, Group PROVE ParseInv'
<1> DEFINE t   == From(b, i)
           to  == RunEnd(b, i, isHex)
           sep == Separator(to, gap >= 0)
           run == SubSeq(b, i + 1, to)
           r   == From(b, to)
           v   == Number(run, HexRadix)
<1>0. /\ NGroups \in Nat /\ Len(b) \in Nat /\ n \in Nat /\ n \in 0..NGroups /\ b \in Text
      /\ i \in 0..Len(b) /\ i < Len(b) /\ pc = "loop" /\ gap \in Int /\ gap <= n
  BY LenProperties, ParseAssumption DEF ParseInv, Text, Group
<1>1. NoQuad(t)
  <2>1. ~parseAddr4(t).ok
    BY DEF Group, Rest, From
  <2> QED
    BY <1>0, <2>1, FromIs, QuadIs DEF NoQuad
<1>2. /\ to \in i..Len(b) /\ to \in 0..Len(b) /\ Splits(t, run, r)
      /\ run \in GroupTexts <=> to - i \in 1..GroupDigits
  BY <1>0, <1>1, GroupReads
<1>3. v \in Nat
  BY <1>2, SplitValue
<1>4. t # <<>>
  BY <1>0, FromIs
<1>5. IF to - i \notin 1..GroupDigits \/ n = NGroups THEN Done("bad")
      ELSE IF n >= NGroups THEN Done("panic")
      ELSE IF sep = "bad" THEN Done("bad")
      ELSE /\ groups' = [groups EXCEPT ![n] = v]
           /\ n' = n + 1
           /\ gap' = IF sep = "gap" THEN n + 1 ELSE gap
           /\ i' = to + (CASE sep = "end" -> 0 [] sep = "colon" -> 1 [] sep = "gap" -> 2)
           /\ pc' = IF sep = "end" THEN "fit" ELSE "loop"
           /\ UNCHANGED <<b, result>>
  BY Zenon DEF Group
<1>6. Remains(b, t, n, gap, Read(groups, n))
  BY <1>0 DEF ParseInv
<1>7. /\ to < Len(b) => Char(to) = b[to + 1] /\ r # <<>> /\ r[1] = b[to + 1]
      /\ to < Len(b) /\ b[to + 1] = ":" => r = Colon(From(b, to + 1)) /\ to + 1 \in 0..Len(b)
      /\ to = Len(b) => r = <<>>
  BY <1>0, <1>2, FromIs, FromColon DEF Char
<1>8. sep = IF to = Len(b) THEN "end"
            ELSE IF Char(to) # ":" THEN "bad"
            ELSE IF Char(to + 1) = ":" THEN IF gap >= 0 THEN "bad" ELSE "gap"
            ELSE IF to + 1 = Len(b) THEN "bad" ELSE "colon"
  BY DEF Separator
<1> HIDE DEF t, to, sep, run, r, v
<1>9. ASSUME Stuck(t, n, gap), Done("bad") PROVE ParseInv'
  BY <1>6, <1>9, NoWay, Refuses
<1>10. CASE to - i \notin 1..GroupDigits
  BY <1>2, <1>5, <1>9, <1>10, RunTooLong
<1>11. CASE n = NGroups
  BY <1>4, <1>5, <1>9, <1>11, NoRoom
<1>12. CASE to - i \in 1..GroupDigits /\ n # NGroups
  <2>0. run \in GroupTexts /\ n < NGroups /\ ~(n >= NGroups)
    BY <1>0, <1>2, <1>12
  <2>1. CASE sep = "bad"
    <3>1. Done("bad")
      BY <1>5, <1>12, <2>0, <2>1
    <3>2. to < Len(b)
      BY <1>0, <1>2, <1>8, <2>1
    <3>3. CASE Char(to) # ":"
      BY <1>2, <1>7, <1>9, <3>1, <3>2, <3>3, NoSeparator
    <3>4. CASE Char(to) = ":" /\ to + 1 = Len(b)
      <4>1. From(b, to + 1) = <<>>
        BY <1>0, <1>7, <3>2, <3>4, FromIs
      <4>2. r = Colon(<<>>)
        BY <1>7, <3>2, <3>4, <4>1
      <4> QED
        BY <1>2, <1>9, <3>1, <4>2, LoneColon
    <3>5. CASE Char(to) = ":" /\ to + 1 # Len(b)
      <4>1. Char(to + 1) = ":" /\ ~(gap < 0)
        BY <1>0, <1>8, <2>1, <3>2, <3>5
      <4>2. to + 1 < Len(b) /\ to + 1 \in 0..Len(b)
        BY <1>0, <1>2, <3>2, <3>5
      <4>3. b[(to + 1) + 1] = ":"
        BY <4>1, <4>2 DEF Char
      <4>4. From(b, to + 1) = Colon(From(b, (to + 1) + 1)) /\ From(b, (to + 1) + 1) \in Text
        BY <1>0, <4>2, <4>3, FromColon
      <4>5. Stuck(t, n, gap)
        BY <1>2, <1>7, <2>0, <3>2, <3>5, <4>1, <4>4, SecondGap
      <4> QED
        BY <1>9, <3>1, <4>5
    <3> QED
      BY <3>3, <3>4, <3>5
  <2>2. CASE sep # "bad"
    <3>0. /\ groups' = [groups EXCEPT ![n] = v] /\ n' = n + 1 /\ b' = b
          /\ gap' = IF sep = "gap" THEN n + 1 ELSE gap
          /\ i' = to + (CASE sep = "end" -> 0 [] sep = "colon" -> 1 [] sep = "gap" -> 2)
          /\ pc' = IF sep = "end" THEN "fit" ELSE "loop"
      BY <1>5, <1>12, <2>0, <2>2
    <3>9. ASSUME NEW u, NEW g, Advances(t, n, gap, u, n + 1, g, <<v>>)
          PROVE  /\ Remains(b', u, n', g, Read(groups', n')) /\ groups' \in Arrays
                 /\ n' \in 0..NGroups
      BY <1>0, <1>3, <2>0, <3>0, <3>9, GroupFits DEF t
    <3>1. CASE to = Len(b)
      <4>1. sep = "end" /\ r = <<>>
        BY <1>7, <1>8, <3>1
      <4>2. i' = to /\ pc' = "fit" /\ gap' = gap
        BY <1>0, <1>2, <3>0, <4>1
      <4>3. Advances(t, n, gap, <<>>, n + 1, gap, <<v>>)
        BY <1>0, <1>2, <2>0, <4>1, LastAdvances DEF v
      <4>4. /\ Remains(b', <<>>, n', gap', Read(groups', n')) /\ groups' \in Arrays
            /\ n' \in 0..NGroups
        BY <3>9, <4>2, <4>3
      <4>5. gap' \in Int /\ gap' <= n'
        BY <1>0, <3>0, <4>2
      <4> QED
        BY <1>0, <1>2, <3>0, <4>2, <4>4, <4>5 DEF ParseInv
    <3>2. CASE to < Len(b) /\ Char(to + 1) = ":"
      <4>1. sep = "gap" /\ gap < 0 /\ Char(to) = ":"
        BY <1>0, <1>2, <1>8, <2>2, <3>2
      <4>2. to + 1 < Len(b) /\ to + 1 \in 0..Len(b) /\ b[(to + 1) + 1] = ":"
            /\ (to + 1) + 1 = to + 2 /\ to + 2 \in 0..Len(b)
        <5>1. to + 1 < Len(b)
          BY <3>2 DEF Char
        <5> QED
          BY <1>0, <1>2, <3>2, <5>1 DEF Char
      <4>3. From(b, to + 1) = Colon(From(b, to + 2)) /\ From(b, to + 2) \in Text
        <5>1. From(b, to + 1) = Colon(From(b, (to + 1) + 1)) /\ From(b, (to + 1) + 1) \in Text
          BY <1>0, <4>2, FromColon
        <5> QED
          BY <4>2, <5>1
      <4>4. r = Colon(Colon(From(b, to + 2)))
        BY <1>7, <3>2, <4>1, <4>3
      <4>5. i' = to + 2 /\ pc' = "loop" /\ gap' = n + 1
        BY <1>0, <1>2, <3>0, <4>1
      <4>6. Advances(t, n, gap, From(b, to + 2), n + 1, n + 1, <<v>>)
        BY <1>0, <1>2, <2>0, <4>1, <4>3, <4>4, GapAdvances DEF v
      <4>7. /\ Remains(b', From(b', i'), n', gap', Read(groups', n')) /\ groups' \in Arrays
            /\ n' \in 0..NGroups
        BY <3>0, <3>9, <4>5, <4>6
      <4>8. gap' \in Int /\ gap' <= n'
        BY <1>0, <3>0, <4>5
      <4> QED
        BY <1>0, <3>0, <4>2, <4>5, <4>7, <4>8 DEF ParseInv
    <3>3. CASE to < Len(b) /\ Char(to + 1) # ":"
      <4>1. sep = "colon" /\ Char(to) = ":" /\ to + 1 # Len(b)
        BY <1>0, <1>2, <1>8, <2>2, <3>3
      <4>2. to + 1 < Len(b) /\ to + 1 \in 0..Len(b) /\ b[(to + 1) + 1] # ":"
        BY <1>0, <1>2, <3>3, <4>1 DEF Char
      <4>3. /\ From(b, to + 1) \in Text /\ From(b, to + 1) # <<>>
            /\ From(b, to + 1)[1] # ":"
        BY <1>0, <4>2, FromIs
      <4>4. r = Colon(From(b, to + 1))
        BY <1>7, <3>3, <4>1
      <4>5. i' = to + 1 /\ pc' = "loop" /\ gap' = gap
        BY <1>0, <1>2, <3>0, <4>1
      <4>6. Advances(t, n, gap, From(b, to + 1), n + 1, gap, <<v>>)
        BY <1>0, <1>2, <2>0, <4>3, <4>4, ColonAdvances DEF v
      <4>7. /\ Remains(b', From(b', i'), n', gap', Read(groups', n')) /\ groups' \in Arrays
            /\ n' \in 0..NGroups
        BY <3>0, <3>9, <4>5, <4>6
      <4>8. gap' \in Int /\ gap' <= n'
        BY <1>0, <3>0, <4>5
      <4> QED
        BY <1>0, <3>0, <4>2, <4>5, <4>7, <4>8 DEF ParseInv
    <3> QED
      BY <1>0, <1>2, <3>1, <3>2, <3>3
  <2> QED
    BY <2>1, <2>2
<1> QED
  BY <1>10, <1>11, <1>12

-----------------------------------------------------------------------------
(* The two words of an address hold its groups.                            *)

LEMMA GroupSizeIs == GroupSize \in Nat /\ NGroups \div 2 \in Nat /\ NGroups \in Nat
                     /\ NGroups \div 2 + NGroups \div 2 = NGroups
<1>1. OctetTop \in Nat
  BY ParseAssumption
<1>2. OctetSize \in Nat
  BY <1>1 DEF OctetSize
<1>3. GroupSize \in Nat
  BY <1>2 DEF GroupSize
<1>4. NGroups \in Nat /\ NGroups % 2 = 0
  BY ParseAssumption
<1>5. NGroups \div 2 \in Nat /\ NGroups \div 2 + NGroups \div 2 = NGroups
  BY <1>4
<1> QED
  BY <1>3, <1>4, <1>5

\* The powers of a radix.
PowersOf(L, radix, p) == p[0] = 1 /\ \A k \in 1..L : p[k] = radix * p[k - 1]

LEMMA HalfSizeIs ==
    \E p \in [0..NGroups \div 2 -> Nat] :
       PowersOf(NGroups \div 2, GroupSize, p) /\ HalfSize = p[NGroups \div 2]
<1> DEFINE L == NGroups \div 2
           step == [k \in 1..L |-> [x \in Nat |-> GroupSize * x]]
           Eq(u) == u = [k \in 0..L |-> IF k = 0 THEN 1 ELSE GroupSize * u[k - 1]]
           c == CHOOSE u : Eq(u)
<1>1. L \in Nat /\ GroupSize \in Nat
  BY GroupSizeIs
<1>2. HalfSize = c[L]
  BY Zenon DEF HalfSize
<1>3. \A x \in Nat : GroupSize * x \in Nat
  BY <1>1
<1>4. step \in [1..L -> [Nat -> Nat]] /\ \A k \in 1..L : \A x \in Nat : step[k][x] = GroupSize * x
  BY <1>3
<1> HIDE DEF step, c, L
<1>5. PICK f \in [0..L -> Nat] : f[0] = 1 /\ \A k \in 1..L : f[k] = step[k][f[k - 1]]
  <2>1. 1 \in Nat /\ L \in Nat /\ Steppers(L, Nat, step)
    BY <1>1, <1>4 DEF Steppers
  <2>2. \E f : Runs(f, L, Nat, 1, step)
    BY <2>1, Recursion
  <2> QED
    BY <2>2 DEF Runs
<1>6. ASSUME NEW k \in 1..L PROVE k \in 0..L /\ k - 1 \in 0..L /\ k # 0
  BY <1>1
<1>7. \A k \in 1..L : f[k] = GroupSize * f[k - 1]
  BY <1>4, <1>5, <1>6
<1>8. \A k \in 0..L : k # 0 => k \in 1..L
  BY <1>1
<1>9. f = [k \in 0..L |-> f[k]]
  BY <1>5
<1>10. \A k \in 0..L : f[k] = IF k = 0 THEN 1 ELSE GroupSize * f[k - 1]
  BY <1>5, <1>7, <1>8
<1>11. Eq(f)
  BY <1>9, <1>10
<1>12. Eq(c)
  BY <1>11 DEF c
<1>13. c[0] = 1 /\ \A k \in 1..L : c[k] = GroupSize * c[k - 1]
  <2>1. 0 \in 0..L
    BY <1>1
  <2> QED
    BY <1>6, <1>12, <2>1
<1> DEFINE T == {k \in 0..L : c[k] # f[k]}
<1>14. T = {}
  <2>1. SUFFICES ASSUME T # {} PROVE FALSE
    OBVIOUS
  <2>2. T \in SUBSET Nat
    OBVIOUS
  <2>3. PICK d \in T : \A k \in T : d <= k
    <3> HIDE DEF T
    <3> QED
      BY <2>1, <2>2, LeastNat
  <2>4. d # 0
    BY <1>5, <1>13, <2>3
  <2>5. d \in 1..L /\ d - 1 \in 0..L /\ ~(d <= d - 1)
    BY <1>1, <2>3, <2>4
  <2>6. c[d - 1] = f[d - 1]
    BY <2>3, <2>5
  <2> QED
    BY <1>7, <1>13, <2>3, <2>5, <2>6
<1>15. L \in 0..L
  BY <1>1
<1>16. c[L] = f[L]
  BY <1>14, <1>15
<1> QED
  BY <1>2, <1>5, <1>7, <1>16 DEF PowersOf, L

Distributes(e, q, w, radix, x) ==
    (e * q + w) * radix + x = e * (radix * q) + (w * radix + x)

LEMMA Distributed ==
    ASSUME NEW e \in Nat, NEW q \in Nat, NEW w \in Nat, NEW radix \in Nat, NEW x \in Nat
    PROVE  Distributes(e, q, w, radix, x)
<1>1. (e * q + w) * radix = (e * q) * radix + w * radix
  OBVIOUS
<1>2. (e * q) * radix = e * (radix * q)
  OBVIOUS
<1>3. \A c, d \in Nat : (c + d) + x = c + (d + x)
  OBVIOUS
<1>4. e * (radix * q) \in Nat /\ w * radix \in Nat
  OBVIOUS
<1> QED
  BY <1>1, <1>2, <1>3, <1>4 DEF Distributes

\* The value of a sequence, from those of its two halves.
Adds(ds, us, ls, radix, m) ==
    Positional(ds, radix) = Positional(us, radix) * m + Positional(ls, radix)

LEMMA HalvesAdd ==
    ASSUME NEW H \in Nat, NEW radix \in Nat, NEW ds \in Seq(Nat), Len(ds) = H + H,
           NEW us \in Seq(Nat), Len(us) = H, \A k \in 1..H : us[k] = ds[k],
           NEW ls \in Seq(Nat), Len(ls) = H, \A k \in 1..H : ls[k] = ds[H + k],
           NEW p \in [0..H -> Nat], PowersOf(H, radix, p)
    PROVE  Adds(ds, us, ls, radix, p[H])
<1>1. PICK v \in [0..Len(ds) -> Nat] : Value(ds, radix, v) /\ Positional(ds, radix) = v[Len(ds)]
  BY PositionalIs
<1>2. PICK u \in [0..Len(ls) -> Nat] : Value(ls, radix, u) /\ Positional(ls, radix) = u[Len(ls)]
  BY PositionalIs
<1>3. /\ v[0] = 0 /\ \A k \in 1..H + H : v[k] = v[k - 1] * radix + ds[k]
      /\ u[0] = 0 /\ \A k \in 1..H : u[k] = u[k - 1] * radix + ls[k]
      /\ p[0] = 1 /\ \A k \in 1..H : p[k] = radix * p[k - 1]
  BY <1>1, <1>2 DEF Value, PowersOf
<1>4. Value(us, radix, v)
  <2>1. ASSUME NEW k \in 1..H PROVE v[k] = v[k - 1] * radix + us[k]
    <3>1. k \in 1..H + H
      OBVIOUS
    <3> QED
      BY <1>3, <3>1
  <2> QED
    BY <1>3, <2>1 DEF Value
<1>5. Positional(us, radix) = v[H]
  <2>1. Positional(us, radix) = v[Len(us)]
    BY <1>4, PositionalEquals
  <2> QED
    BY <2>1
<1> DEFINE T == {k \in 0..H : v[H + k] # v[H] * p[k] + u[k]}
<1>6. T = {}
  <2>1. SUFFICES ASSUME T # {} PROVE FALSE
    OBVIOUS
  <2>2. T \in SUBSET Nat
    OBVIOUS
  <2>3. PICK d \in T : \A k \in T : d <= k
    <3> HIDE DEF T
    <3> QED
      BY <2>1, <2>2, LeastNat
  <2>4. d # 0
    <3>1. H \in 0..Len(ds)
      OBVIOUS
    <3>2. v[H] \in Nat /\ H + 0 = H
      BY <1>1, <3>1
    <3>3. v[H + 0] = v[H] * 1 + 0
      BY <3>2
    <3> QED
      BY <1>3, <2>3, <3>3
  <2>5. d \in 1..H /\ d - 1 \in 0..H /\ ~(d <= d - 1) /\ H + d \in 1..H + H
        /\ (H + d) - 1 = H + (d - 1) /\ H \in 0..H + H
    BY <2>3, <2>4
  <2>6. v[H + (d - 1)] = v[H] * p[d - 1] + u[d - 1]
    BY <2>3, <2>5
  <2> DEFINE e == v[H]
             q == p[d - 1]
             w == u[d - 1]
             x == ls[d]
  <2>7. v[H + d] = (e * q + w) * radix + x
    BY <1>3, <2>5, <2>6
  <2>8. u[d] = w * radix + x /\ p[d] = radix * q
    BY <1>3, <2>5
  <2>9. e \in Nat /\ q \in Nat /\ w \in Nat /\ x \in Nat
    <3>1. e \in Nat /\ q \in Nat /\ w \in Nat
      BY <1>1, <1>2, <2>5
    <3>2. x \in Nat
      BY <2>5, ElementOfSeq
    <3> QED
      BY <3>1, <3>2
  <2> HIDE DEF e, q, w, x
  <2>10. (e * q + w) * radix + x = e * (radix * q) + (w * radix + x)
    <3>1. Distributes(e, q, w, radix, x)
      BY <2>9, Distributed
    <3> QED
      BY <3>1, Zenon DEF Distributes
  <2>11. v[H + d] = e * p[d] + u[d]
    BY <2>7, <2>8, <2>10
  <2> QED
    BY <2>3, <2>11 DEF e
<1>7. H \in 0..H
  OBVIOUS
<1>8. v[H + H] = v[H] * p[H] + u[H]
  BY <1>6, <1>7
<1> QED
  BY <1>1, <1>2, <1>5, <1>8 DEF Adds

LEMMA AddressIs ==
    ASSUME groups \in Arrays
    PROVE  Address.hi * HalfSize + Address.lo = Positional(Read(groups, NGroups), GroupSize)
<1> DEFINE H == NGroups \div 2
           ds == Read(groups, NGroups)
           us == [k \in 1..H |-> groups[0 + k - 1]]
           ls == [k \in 1..H |-> groups[H + k - 1]]
<1>1. H \in Nat /\ GroupSize \in Nat /\ NGroups \in Nat /\ NGroups = H + H
  BY GroupSizeIs
<1>2. Address.hi = Positional(us, GroupSize) /\ Address.lo = Positional(ls, GroupSize)
  BY DEF Address, Half
<1>3. ds \in Seq(Nat) /\ Len(ds) = NGroups /\ \A k \in 1..NGroups : ds[k] = groups[k - 1]
  <2>1. NGroups \in 0..NGroups
    BY <1>1
  <2> QED
    BY <2>1, ReadIs
<1>4. PICK p \in [0..H -> Nat] : PowersOf(H, GroupSize, p) /\ HalfSize = p[H]
  BY HalfSizeIs
<1> HIDE DEF H, ds
<1>5. ASSUME NEW k \in 1..H
      PROVE  /\ groups[0 + k - 1] \in Nat /\ groups[0 + k - 1] = ds[k]
             /\ groups[H + k - 1] \in Nat /\ groups[H + k - 1] = ds[H + k]
  <2>1. /\ 0 + k - 1 \in 0..NGroups - 1 /\ 0 + k - 1 = k - 1 /\ k \in 1..NGroups
        /\ H + k - 1 \in 0..NGroups - 1 /\ H + k - 1 = (H + k) - 1 /\ H + k \in 1..NGroups
    BY <1>1
  <2> QED
    BY <1>3, <2>1 DEF Arrays
<1>6. us \in [1..H -> Nat] /\ ls \in [1..H -> Nat]
  BY <1>5
<1>7. us \in Seq(Nat) /\ ls \in Seq(Nat)
  BY <1>1, <1>6, SeqDef
<1>8. Len(us) = H /\ Len(ls) = H
  BY <1>1, <1>6, <1>7, LenProperties
<1>9. /\ \A k \in 1..H : us[k] = ds[k]
      /\ \A k \in 1..H : ls[k] = ds[H + k]
  BY <1>5
<1> HIDE DEF us, ls
<1>10. Len(ds) = H + H
  BY <1>1, <1>3
<1>11. Positional(ds, GroupSize) = Positional(us, GroupSize) * p[H] + Positional(ls, GroupSize)
  <2> DEFINE R == GroupSize
  <2>1. R \in Nat /\ PowersOf(H, R, p) /\ H \in Nat
    BY <1>1, <1>4
  <2> HIDE DEF R
  <2>2. Adds(ds, us, ls, R, p[H])
    BY <1>3, <1>4, <1>7, <1>8, <1>9, <1>10, <2>1, HalvesAdd
  <2> QED
    BY <2>2 DEF R, Adds
<1> QED
  BY <1>2, <1>4, <1>11 DEF ds

LEMMA SpellsIs == ASSUME NEW t, Misspelt(t) PROVE ~Spells(t)
<1>1. SUFFICES ASSUME Spells(t) PROVE FALSE
  OBVIOUS
<1>2. PICK f \in Forms : t \in {s.text : s \in Spellings6(f)}
  BY <1>1 DEF Spells, Texts6
<1>3. PICK s \in Spellings6(f) : t = s.text
  BY <1>2
<1>4. s = [text |-> s.text, groups |-> s.groups]
  <2>1. PICK p \in Plain[f.left], e \in TailOf(f.right, f.quad) : s = TwoParts(f, p, e)
    BY <1>3, PartsOf
  <2> QED
    BY <2>1 DEF TwoParts, Spelling
<1>5. Spells6(t, s.groups)
  BY <1>3, <1>4 DEF Spells6, Written
<1> QED
  BY <1>5 DEF Misspelt

LEMMA MeansIs ==
    ASSUME NEW t, NEW F, Spells6(t, F)
    PROVE  Means(t, Positional(F, GroupSize))
<1>1. PICK f \in Forms : Written(Spellings6(f), t, F)
  BY DEF Spells6
<1> DEFINE s == [text |-> t, groups |-> F]
<1>2. s \in Spellings6(f) /\ s.text = t /\ s.groups = F
  BY <1>1 DEF Written
<1> HIDE DEF s
<1>3. <<t, Positional(F, GroupSize)>>
        \in {<<e.text, Positional(e.groups, GroupSize)>> : e \in Spellings6(f)}
  BY <1>2
<1> QED
  BY <1>3 DEF Means, Meanings6

LEMMA MeansOnly ==
    ASSUME NEW t, NEW w, Spelt(t, w), NEW v, Means(t, v)
    PROVE  v = Positional(w, GroupSize)
<1>1. PICK f \in Forms : <<t, v>> \in {<<s.text, Positional(s.groups, GroupSize)>> : s \in Spellings6(f)}
  BY DEF Means, Meanings6
<1>2. PICK s \in Spellings6(f) : t = s.text /\ v = Positional(s.groups, GroupSize)
  BY <1>1
<1>3. s = [text |-> s.text, groups |-> s.groups]
  <2>1. PICK p \in Plain[f.left], e \in TailOf(f.right, f.quad) : s = TwoParts(f, p, e)
    BY <1>2, PartsOf
  <2> QED
    BY <2>1 DEF TwoParts, Spelling
<1>4. Spells6(t, s.groups)
  BY <1>2, <1>3 DEF Spells6, Written
<1>5. s.groups = w
  BY <1>4 DEF Spelt
<1> QED
  BY <1>2, <1>5

LEMMA ParseNext == ASSUME ParseInv, [TextNext]_pvars PROVE ParseInv'
<1>1. CASE UNCHANGED pvars
  BY <1>1 DEF pvars, ParseInv
<1> QED
  BY <1>1, StartKeeps, QuadKeeps, GroupKeeps, ExhaustedKeeps, FitKeeps DEF TextNext

LEMMA AddressesAgreeFor == ASSUME ParseInv PROVE AddressesAgree
<1>1. SUFFICES ASSUME pc = "done"
      PROVE  /\ result # "panic"
             /\ IF result = "ok" THEN Means(b, Address.hi * HalfSize + Address.lo) ELSE ~Spells(b)
  BY DEF AddressesAgree
<1>2. Settled(b, result, Read(groups, NGroups)) /\ groups \in Arrays
  BY <1>1 DEF ParseInv
<1>3. CASE result = "ok" /\ Spelt(b, Read(groups, NGroups))
  <2>1. Spells6(b, Read(groups, NGroups))
    BY <1>3 DEF Spelt
  <2> QED
    BY <1>2, <1>3, <2>1, MeansIs, AddressIs
<1>4. CASE result = "bad" /\ Misspelt(b)
  BY <1>4, SpellsIs
<1> QED
  BY <1>2, <1>3, <1>4 DEF Settled

OneMeaning == pc = "done" /\ result = "ok" =>
                \A v : Means(b, v) => v = Address.hi * HalfSize + Address.lo

LEMMA OneMeaningFor == ASSUME ParseInv PROVE OneMeaning
<1>1. SUFFICES ASSUME pc = "done", result = "ok", NEW v, Means(b, v)
      PROVE  v = Address.hi * HalfSize + Address.lo
  BY DEF OneMeaning
<1>2. Spelt(b, Read(groups, NGroups)) /\ groups \in Arrays
  BY <1>1 DEF ParseInv, Settled
<1> QED
  BY <1>1, <1>2, MeansOnly, AddressIs

\* parseAddr6 accepts a text exactly when it spells an address, and returns that
\* address, whatever the radix, the digit limits, the number of groups and the
\* texts; it writes no group past the last.
THEOREM AddressesAreRead == Parser => []AddressesAgree
<1>1. TextInit => ParseInv
  BY ParseInit
<1>2. ParseInv /\ [TextNext]_pvars => ParseInv'
  BY ParseNext
<1>3. ParseInv => AddressesAgree
  BY AddressesAgreeFor
<1> QED
  BY <1>1, <1>2, <1>3, PTL DEF Parser

\* No text that parseAddr6 accepts can be read as a second address, by any of the
\* forms in which addresses are written.
THEOREM AcceptedMeansOne == Parser => []OneMeaning
<1>1. TextInit => ParseInv
  BY ParseInit
<1>2. ParseInv /\ [TextNext]_pvars => ParseInv'
  BY ParseNext
<1>3. ParseInv => OneMeaning
  BY OneMeaningFor
<1> QED
  BY <1>1, <1>2, <1>3, PTL DEF Parser
=============================================================================
