-------------------------------- MODULE Bits --------------------------------
(***************************************************************************)
(* pkg/bits: a Layout hands out fields of a machine word from bit 0        *)
(* upward, and Fields read and write their spans of any word.              *)
(*                                                                         *)
(* A word is the set of its one bits, so &, |, &^ and the shifts of the    *)
(* code are the operations on sets below, for every word width.  Widths,   *)
(* shifts and their sums are uint, as in the code: they wrap at UintTop.   *)
(* Layouts are program text, so a program is any interleaving of           *)
(* declarations and of Puts to the fields declared so far.                 *)
(***************************************************************************)
EXTENDS Integers, Sequences

CONSTANTS WordBits,   \* 64
          UintTop,    \* 2^64: one past the largest uint
          Widths,     \* the widths programs ask for
          MaxAsked    \* bound: no declaration once this many bits were granted

ASSUME WidthsAssumption ==
    /\ WordBits \in Nat \ {0}
    /\ UintTop \in Nat /\ UintTop > WordBits
    /\ Widths \subseteq 0..UintTop - 1
    /\ MaxAsked \in Nat

VARIABLES used,      \* Layout.used
          fields,    \* the Fields handed out, in order
          word,      \* the uint64 the program keeps its fields in
          panicked,  \* a declaration panicked: the program is gone
          asked,     \* history: the widths granted, added up without wrapping
          start,     \* history: the word before the first Put
          want       \* history: what each field should read

bvars == <<used, fields, word, panicked, asked, start, want>>

Bits   == 0..WordBits - 1
Words  == SUBSET Bits
Uint(x) == x % UintTop

-----------------------------------------------------------------------------
(* Field.                                                                  *)

Shl(w, s) == {b \in Bits : b - s \in w}
Shr(w, s) == {b \in Bits : b + s \in w}

mask(f) == Shr(Bits, Uint(WordBits - f.width))

Get(f, w) == Shr(w, f.shift) \cap mask(f)

\* Mutant: the new value is not cut to the width.
PutSpilling(f, w, v) == (w \ Shl(mask(f), f.shift)) \cup Shl(v, f.shift)

\* Mutant: the old value is not cleared first.
PutAccumulating(f, w, v) == w \cup Shl(v \cap mask(f), f.shift)

Put(f, w, v) == (w \ Shl(mask(f), f.shift)) \cup Shl(v \cap mask(f), f.shift)

-----------------------------------------------------------------------------
(* Layout, and the program that uses it.                                   *)

BitsInit == /\ used = 0 /\ fields = <<>> /\ asked = 0
            /\ word \in Words /\ start = word
            /\ want = <<>>
            /\ panicked = FALSE

\* Mutant: the check forgets what is already allocated.
OverflowsAlone(width) == width > WordBits

\* The sum wraps before it is compared.
Overflows(width) == Uint(used + width) > WordBits

Panic == /\ panicked' = TRUE
         /\ UNCHANGED <<used, fields, word, asked, start, want>>

\* Mutant: a field of no bits is handed out.
FieldOfZero(width) ==
    /\ ~panicked /\ asked < MaxAsked
    /\ IF Overflows(width) THEN Panic
       ELSE LET f == [shift |-> used, width |-> width]
            IN /\ fields' = Append(fields, f)
               /\ used' = Uint(used + width)
               /\ want' = Append(want, Get(f, word))
               /\ asked' = asked + width
               /\ UNCHANGED <<word, panicked, start>>

Field(width) ==
    /\ ~panicked /\ asked < MaxAsked
    /\ IF width = 0 \/ Overflows(width) THEN Panic
       ELSE LET f == [shift |-> used, width |-> width]
            IN /\ fields' = Append(fields, f)
               /\ used' = Uint(used + width)
               /\ want' = Append(want, Get(f, word))
               /\ asked' = asked + width
               /\ UNCHANGED <<word, panicked, start>>

\* Mutant: the gap is checked but not allocated.
ReserveNothing(width) ==
    /\ ~panicked /\ asked < MaxAsked
    /\ IF Overflows(width) THEN Panic
       ELSE asked' = asked + width
            /\ UNCHANGED <<used, fields, word, panicked, start, want>>

Reserve(width) ==
    /\ ~panicked /\ asked < MaxAsked
    /\ IF Overflows(width) THEN Panic
       ELSE /\ used' = Uint(used + width)
            /\ asked' = asked + width
            /\ UNCHANGED <<fields, word, panicked, start, want>>

\* word = fields[i].Put(word, v), with a v of any size.
Write(i, v) ==
    /\ ~panicked
    /\ word' = Put(fields[i], word, v)
    /\ want' = [want EXCEPT ![i] = v \cap mask(fields[i])]
    /\ UNCHANGED <<used, fields, panicked, asked, start>>

BitsNext == \/ \E width \in Widths : Field(width) \/ Reserve(width)
            \/ \E i \in DOMAIN fields, v \in Words : Write(i, v)

BitsSpec == BitsInit /\ [][BitsNext]_bvars

-----------------------------------------------------------------------------
(* Properties.                                                             *)

FieldType == [shift : 0..WordBits, width : 1..UintTop - 1]

(* The variables hold what their Go types allow, and a field that was      *)
(* handed out has a width and begins no higher than the word ends.         *)
BitsTypeOK == /\ used \in 0..WordBits /\ asked \in Nat
              /\ fields \in Seq(FieldType)
              /\ word \in Words /\ start \in Words
              /\ want \in Seq(Words) /\ Len(want) = Len(fields)
              /\ panicked \in BOOLEAN

Span(f) == f.shift .. f.shift + f.width - 1

\* The widths granted add up to a uint.
Unwrapped == asked < UintTop

(* A layout that cannot fit panics when it is declared, unless its total   *)
(* passes the top of uint: whatever was declared and reserved, in any      *)
(* order, is allocated in full and fits the word, and the only declaration *)
(* that gets past the check (bits.go:49, 61) and does not fit is one whose *)
(* sum wraps.  The package comment makes no such exception.                *)
DeclaredFits == Unwrapped => asked <= WordBits /\ used = asked

(* A Get cannot observe a neighbour: after any sequence of declarations    *)
(* and Puts of values of any size, each field reads the value put into it  *)
(* last, cut to its width, and a field not yet written reads what its span *)
(* held when it was declared.  Fields declared past a wrap do overlap.     *)
ReadsBack == Unwrapped => \A i \in DOMAIN fields : Get(fields[i], word) = want[i]

(* A Put touches its own span only: bits that no field covers, reserved or *)
(* not yet allocated, keep the value they had before the first Put.        *)
GapsUntouched ==
    Unwrapped =>
      \A b \in Bits : (\A i \in DOMAIN fields : b \notin Span(fields[i]))
                         => (b \in word <=> b \in start)
=============================================================================
