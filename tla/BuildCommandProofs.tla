--------------------------- MODULE BuildCommandProofs ---------------------------
(***************************************************************************)
(* The build command for every spec and every width of a value, a word and *)
(* an alignment: a file that a writer left unfinished is refused, at       *)
(* whatever cell it stopped, and so is one with a cell changed or with     *)
(* zeros added; the parser's errors are exact, and its Builder is whole;   *)
(* what a spec says is what is served, and a file that is accepted, from   *)
(* whatever writer, is the one its Map is written as.                      *)
(***************************************************************************)
EXTENDS BuildCommand, BuilderProofs, SequenceTheorems

-----------------------------------------------------------------------------
(* Sequences of any elements: a file's cells have no common type.          *)

Sequence(s) == \E k \in Nat : s = [i \in 1..k |-> s[i]]

LEMMA SeqIsSequence == ASSUME NEW S, NEW s \in Seq(S) PROVE Sequence(s)
  BY LenProperties DEF Sequence

LEMMA SequenceHas ==
    ASSUME NEW s, Sequence(s)
    PROVE  Len(s) \in Nat /\ DOMAIN s = 1..Len(s) /\ s = [i \in 1..Len(s) |-> s[i]]
  BY DEF Sequence

LEMMA FunctionIsSequence ==
    ASSUME NEW k \in Nat, NEW s, s = [i \in 1..k |-> s[i]]
    PROVE  Sequence(s) /\ Len(s) = k
  BY DEF Sequence

LEMMA SequenceIn ==
    ASSUME NEW s, Sequence(s), NEW S, \A i \in 1..Len(s) : s[i] \in S
    PROVE  s \in Seq(S)
<1>1. s \in [1..Len(s) -> S] /\ Len(s) \in Nat
  BY SequenceHas
<1> QED
  BY <1>1, SeqDef

LEMMA Joins ==
    ASSUME NEW s, NEW t, Sequence(s), Sequence(t)
    PROVE  /\ Sequence(s \o t)
           /\ Len(s \o t) = Len(s) + Len(t)
           /\ \A i \in 1..Len(s) : (s \o t)[i] = s[i]
           /\ \A i \in 1..Len(t) : (s \o t)[Len(s) + i] = t[i]
<1> DEFINE S == {s[i] : i \in 1..Len(s)} \cup {t[i] : i \in 1..Len(t)}
<1>1. s \in Seq(S) /\ t \in Seq(S)
  <2>1. \A i \in 1..Len(s) : s[i] \in S
    OBVIOUS
  <2>2. \A i \in 1..Len(t) : t[i] \in S
    OBVIOUS
  <2> QED
    BY <2>1, <2>2, SequenceIn
<1>2. Len(s) \in Nat /\ Len(t) \in Nat
  BY SequenceHas
<1> HIDE DEF S
<1>3. /\ s \o t \in Seq(S)
      /\ Len(s \o t) = Len(s) + Len(t)
      /\ \A i \in 1..Len(s) + Len(t) :
            (s \o t)[i] = IF i <= Len(s) THEN s[i] ELSE t[i - Len(s)]
  BY <1>1, ConcatProperties
<1>4. \A i \in 1..Len(s) : (s \o t)[i] = s[i]
  BY <1>2, <1>3
<1>5. \A i \in 1..Len(t) : (s \o t)[Len(s) + i] = t[i]
  BY <1>2, <1>3
<1> QED
  BY <1>3, <1>4, <1>5, SeqIsSequence

\* The same of a concatenation by another name, which the provers do not expand.
Cat(s, t) == s \o t

LEMMA CatHolds ==
    ASSUME NEW s, NEW t, NEW r, r = Cat(s, t), Sequence(s), Sequence(t)
    PROVE  /\ Sequence(r) /\ Len(r) = Len(s) + Len(t)
           /\ \A i \in 1..Len(s) : r[i] = s[i]
           /\ \A i \in 1..Len(t) : r[Len(s) + i] = t[i]
  BY Joins DEF Cat

-----------------------------------------------------------------------------
(* Padding and the section table.                                          *)

LEMMA PadHolds == ASSUME NEW k \in Nat PROVE Pad(k) \in Nat /\ k <= Pad(k)
<1> DEFINE x == k + Align - 1
<1>1. Align \in Nat /\ Align > 0 /\ x \in Nat
  BY ArtifactAssumption
<1>2. x \div Align \in Nat /\ x % Align \in 0..Align - 1
      /\ x = (Align * (x \div Align)) + (x % Align)
  BY <1>1
<1>3. Align * (x \div Align) = (x \div Align) * Align /\ (x \div Align) * Align \in Nat
  BY <1>1, <1>2
<1>4. Pad(k) = (x \div Align) * Align
  BY DEF Pad
<1> HIDE DEF x
<1>5. x - (x % Align) = Pad(k)
  BY <1>1, <1>2, <1>3, <1>4
<1>6. x = k + Align - 1
  BY DEF x
<1> QED
  BY <1>1, <1>2, <1>3, <1>4, <1>5, <1>6

LEMMA PaddedLength ==
    ASSUME NEW s, Sequence(s)
    PROVE  Sequence(Padded(s)) /\ Len(Padded(s)) = Pad(Len(s))
<1>1. Len(s) \in Nat /\ Pad(Len(s)) - Len(s) \in Nat /\ Pad(Len(s)) \in Nat
  BY SequenceHas, PadHolds
<1>2. Sequence(Zeros(Pad(Len(s)) - Len(s)))
      /\ Len(Zeros(Pad(Len(s)) - Len(s))) = Pad(Len(s)) - Len(s)
  BY <1>1 DEF Zeros, Sequence
<1> QED
  BY <1>1, <1>2, Joins DEF Padded

LEMMA PaddedCells ==
    ASSUME NEW s, Sequence(s)
    PROVE  /\ \A j \in 1..Len(s) : Padded(s)[j] = s[j]
           /\ \A j \in Len(s) + 1..Pad(Len(s)) : Padded(s)[j] = 0
<1> DEFINE gap == Pad(Len(s)) - Len(s)
           z == Zeros(gap)
<1>1. Len(s) \in Nat /\ Pad(Len(s)) \in Nat /\ gap \in Nat
  BY SequenceHas, PadHolds
<1>2. Sequence(z) /\ Len(z) = gap /\ \A j \in 1..gap : z[j] = 0
  BY <1>1 DEF Zeros, Sequence
<1>3. Padded(s) = Cat(s, z)
  BY DEF Padded, Cat
<1> HIDE DEF z
<1>4. /\ \A j \in 1..Len(s) : Padded(s)[j] = s[j]
      /\ \A j \in 1..Len(z) : Padded(s)[Len(s) + j] = z[j]
  BY <1>2, <1>3, CatHolds
<1>5. ASSUME NEW j \in Len(s) + 1..Pad(Len(s)) PROVE Padded(s)[j] = 0
  <2>1. j - Len(s) \in 1..gap /\ j = Len(s) + (j - Len(s))
    BY <1>1
  <2> QED
    BY <1>2, <1>4, <2>1
<1> QED
  BY <1>4, <1>5

LEMMA TableHolds ==
    ASSUME NEW secs, \A i \in Slots : Sequence(secs[i])
    PROVE  /\ Sequence(Table(secs)) /\ Len(Table(secs)) = 32
           /\ \A i \in Slots :
                 /\ Table(secs)[4 * (i - 1) + 1] = Starts(Lens(secs))[i]
                 /\ Table(secs)[4 * (i - 1) + 2] = Len(secs[i])
                 /\ Table(secs)[4 * (i - 1) + 3] = secs[i]
                 /\ Table(secs)[4 * (i - 1) + 4] = 0
<1> DEFINE row(i) == <<Starts(Lens(secs))[i], Len(secs[i]), Checksum(secs[i]), 0>>
           rows == [i \in Slots |-> row(i)]
           T == [i \in 1..32 |-> rows[(i - 1) \div 4 + 1][((i - 1) % 4) + 1]]
<1>1. rows = [i \in 1..8 |-> rows[i]]
  BY DEF Slots
<1>2. Len(rows) = 8
  BY <1>1, FunctionIsSequence
<1> HIDE DEF rows
<1>3. Table(secs) = T
  <2>1. Table(secs) = Blocks(rows, 4)
    BY DEF Table, rows
  <2>2. Len(rows) * 4 = 32
    BY <1>2
  <2> QED
    BY <2>1, <2>2 DEF Blocks
<1>4. Sequence(T) /\ Len(T) = 32
  <2>1. T = [i \in 1..32 |-> T[i]]
    OBVIOUS
  <2> HIDE DEF T
  <2> QED
    BY <2>1, FunctionIsSequence
<1>5. ASSUME NEW i \in Slots, NEW c \in {1, 2, 3, 4}
      PROVE  T[4 * (i - 1) + c] = rows[i][c]
  <2> DEFINE k == 4 * (i - 1) + c
  <2>1. k \in 1..32 /\ (k - 1) \div 4 + 1 = i /\ ((k - 1) % 4) + 1 = c
    BY DEF Slots
  <2> HIDE DEF k
  <2>2. T[k] = rows[i][c]
    BY <2>1
  <2> QED
    BY <2>2 DEF k
<1>6. ASSUME NEW i \in Slots
      PROVE  /\ rows[i][1] = Starts(Lens(secs))[i] /\ rows[i][2] = Len(secs[i])
             /\ rows[i][3] = secs[i] /\ rows[i][4] = 0
  BY DEF rows, Checksum
<1> HIDE DEF T
<1> QED
  BY <1>3, <1>4, <1>5, <1>6

-----------------------------------------------------------------------------
(* The shape of a sealed file.                                             *)

LEMMA StartsHold ==
    ASSUME NEW lens, \A i \in Slots : lens[i] \in Nat
    PROVE  \A k \in 1..9 : /\ Starts(lens)[k] \in Nat
                           /\ HeaderSize <= Starts(lens)[k]
                           /\ Starts(lens)[k] <= Starts(lens)[9]
<1> DEFINE P(i) == Pad(lens[i])
<1>1. \A i \in 1..8 : P(i) \in Nat
  BY PadHolds DEF Slots
<1>2. HeaderSize \in Nat
  BY DEF HeaderSize, TableStart
<1> QED
  BY <1>1, <1>2 DEF Starts

LEMMA StartsAdd ==
    ASSUME NEW lens
    PROVE  /\ Starts(lens)[1] = HeaderSize
           /\ Starts(lens)[2] = Starts(lens)[1] + Pad(lens[1])
           /\ Starts(lens)[3] = Starts(lens)[2] + Pad(lens[2])
           /\ Starts(lens)[4] = Starts(lens)[3] + Pad(lens[3])
           /\ Starts(lens)[5] = Starts(lens)[4] + Pad(lens[4])
           /\ Starts(lens)[6] = Starts(lens)[5] + Pad(lens[5])
           /\ Starts(lens)[7] = Starts(lens)[6] + Pad(lens[6])
           /\ Starts(lens)[8] = Starts(lens)[7] + Pad(lens[7])
           /\ Starts(lens)[9] = Starts(lens)[8] + Pad(lens[8])
  BY DEF Starts

LEMMA StartsRise ==
    ASSUME NEW lens, \A i \in Slots : lens[i] \in Nat
    PROVE  LET start == Starts(lens)
           IN /\ start[1] <= start[2] /\ start[2] <= start[3] /\ start[3] <= start[4]
              /\ start[4] <= start[5] /\ start[5] <= start[6] /\ start[6] <= start[7]
              /\ start[7] <= start[8] /\ start[8] <= start[9]
<1> DEFINE P(i) == Pad(lens[i])
           start == Starts(lens)
<1>1. \A i \in 1..8 : P(i) \in Nat
  BY PadHolds DEF Slots
<1>2. /\ P(1) \in Nat /\ P(2) \in Nat /\ P(3) \in Nat /\ P(4) \in Nat
      /\ P(5) \in Nat /\ P(6) \in Nat /\ P(7) \in Nat /\ P(8) \in Nat
  BY <1>1
<1>3. /\ start[1] \in Nat /\ start[2] \in Nat /\ start[3] \in Nat /\ start[4] \in Nat
      /\ start[5] \in Nat /\ start[6] \in Nat /\ start[7] \in Nat /\ start[8] \in Nat
      /\ start[9] \in Nat
  BY StartsHold
<1>4. /\ start[2] = start[1] + P(1) /\ start[3] = start[2] + P(2)
      /\ start[4] = start[3] + P(3) /\ start[5] = start[4] + P(4)
      /\ start[6] = start[5] + P(5) /\ start[7] = start[6] + P(6)
      /\ start[8] = start[7] + P(7) /\ start[9] = start[8] + P(8)
  BY StartsAdd
<1> HIDE DEF P, start
<1>5. /\ start[1] <= start[2] /\ start[2] <= start[3] /\ start[3] <= start[4]
      /\ start[4] <= start[5] /\ start[5] <= start[6] /\ start[6] <= start[7]
      /\ start[7] <= start[8] /\ start[8] <= start[9]
  BY <1>2, <1>3, <1>4
<1> QED
  BY <1>5 DEF start

LEMMA StartsOfEqual ==
    ASSUME NEW lens, NEW other, \A i \in Slots : lens[i] = other[i]
    PROVE  Starts(lens)[9] = Starts(other)[9]
  BY DEF Starts, Slots

\* The twelve scalar fields, and the payloads of the eight slots.
FieldCells(fields) == Sequence(fields) /\ Len(fields) = TableStart
Payloads(secs) == \A i \in Slots : Sequence(secs[i])

LEMMA HeaderHolds ==
    ASSUME NEW fields, FieldCells(fields), NEW secs, Payloads(secs)
    PROVE  /\ Sequence(Header(fields, secs)) /\ Len(Header(fields, secs)) = HeaderSize
           /\ \A i \in Slots :
                 /\ Header(fields, secs)[Row(i) + 1] = Starts(Lens(secs))[i]
                 /\ Header(fields, secs)[Row(i) + 2] = Len(secs[i])
                 /\ Header(fields, secs)[Row(i) + 3] = secs[i]
                 /\ Header(fields, secs)[Row(i) + 4] = 0
           /\ \A k \in 1..TableStart : Header(fields, secs)[k] = fields[k]
           /\ Header(fields, secs)[HeaderSize] = 0
           /\ Sequence(Header(fields, secs)[CrcCell])
           /\ Len(Header(fields, secs)[CrcCell]) = CrcCell - 1
           /\ \A j \in 1..CrcCell - 1 :
                 Header(fields, secs)[CrcCell][j] = Header(fields, secs)[j]
<1> DEFINE table == Table(secs)
           front == fields \o table
           tail == <<Checksum(front), 0>>
           header0 == front \o tail
<1>0. Sequence(table)
  BY TableHolds DEF Payloads
<1>1. /\ Len(table) = 32
      /\ \A i \in Slots : /\ table[4 * (i - 1) + 1] = Starts(Lens(secs))[i]
                          /\ table[4 * (i - 1) + 2] = Len(secs[i])
                          /\ table[4 * (i - 1) + 3] = secs[i]
                          /\ table[4 * (i - 1) + 4] = 0
  BY TableHolds DEF Payloads
<1>1a. Sequence(fields)
  BY DEF FieldCells
<1>2. Len(fields) = 12
  BY DEF FieldCells, TableStart
<1> HIDE DEF table
<1>3. front = Cat(fields, table)
  BY DEF Cat
<1>4. tail = [k \in 1..2 |-> tail[k]]
  OBVIOUS
<1>4a. tail[1] = front /\ tail[2] = 0
  BY DEF Checksum
<1>5. Header(fields, secs) = header0
  BY DEF Header, table
<1>6. header0 = Cat(front, tail)
  BY DEF Cat
<1> HIDE DEF front, tail, header0
<1>6a. Sequence(tail)
  BY <1>4, FunctionIsSequence
<1>7. Len(tail) = 2
  BY <1>4, FunctionIsSequence
<1>8. /\ Sequence(front) /\ Len(front) = Len(fields) + Len(table)
      /\ \A j \in 1..Len(fields) : front[j] = fields[j]
      /\ \A j \in 1..Len(table) : front[Len(fields) + j] = table[j]
  BY <1>0, <1>1a, <1>3, CatHolds
<1>9. /\ Len(front) = 44 /\ \A j \in 1..32 : front[12 + j] = table[j]
      /\ \A j \in 1..12 : front[j] = fields[j]
  BY <1>1, <1>2, <1>8
<1>10. /\ Sequence(header0) /\ Len(header0) = Len(front) + Len(tail)
       /\ \A j \in 1..Len(front) : header0[j] = front[j]
       /\ \A j \in 1..Len(tail) : header0[Len(front) + j] = tail[j]
  BY <1>6, <1>6a, <1>8, CatHolds
<1>11. Len(header0) = 46 /\ \A j \in 1..44 : header0[j] = front[j]
  BY <1>7, <1>9, <1>10
<1>12. ASSUME NEW i \in Slots, NEW c \in {1, 2, 3, 4}
       PROVE  header0[Row(i) + c] = table[4 * (i - 1) + c]
  <2> DEFINE j == 4 * (i - 1) + c
  <2>1. j \in 1..32 /\ Row(i) + c = 12 + j /\ 12 + j \in 1..44
    BY DEF Row, TableStart, Slots
  <2> HIDE DEF j
  <2>2. header0[Row(i) + c] = table[j]
    BY <1>9, <1>11, <2>1
  <2> QED
    BY <2>2 DEF j
<1>13. ASSUME NEW i \in Slots
       PROVE  /\ header0[Row(i) + 1] = Starts(Lens(secs))[i]
              /\ header0[Row(i) + 2] = Len(secs[i])
              /\ header0[Row(i) + 3] = secs[i] /\ header0[Row(i) + 4] = 0
  BY <1>1, <1>12
<1>14. HeaderSize = 46 /\ CrcCell = 45
  BY DEF CrcCell, HeaderSize, TableStart
<1>15. header0[45] = front /\ header0[46] = 0
  <2>1. 1 \in 1..Len(tail) /\ 2 \in 1..Len(tail)
    BY <1>7
  <2>2. header0[Len(front) + 1] = tail[1] /\ header0[Len(front) + 2] = tail[2]
    BY <1>10, <2>1
  <2> QED
    BY <1>4a, <1>9, <2>2
<1>16. \A j \in 1..44 : header0[45][j] = header0[j]
  BY <1>11, <1>15
<1>17. Sequence(header0[45]) /\ Len(header0[45]) = 44
  BY <1>8, <1>9, <1>15
<1>18. Sequence(header0[CrcCell]) /\ header0[HeaderSize] = 0
  BY <1>14, <1>15, <1>17
<1>19. Len(header0[CrcCell]) = CrcCell - 1
  BY <1>14, <1>17
<1>20. \A j \in 1..CrcCell - 1 : header0[CrcCell][j] = header0[j]
  BY <1>14, <1>16
<1>21. Sequence(header0)
  BY <1>10
<1>22. Len(header0) = HeaderSize
  BY <1>11, <1>14
<1>23. \A k \in 1..TableStart : header0[k] = fields[k]
  <2>1. \A k \in 1..TableStart : k \in 1..12 /\ k \in 1..44
    BY DEF TableStart
  <2> QED
    BY <1>9, <1>11, <2>1
<1> QED
  BY <1>5, <1>13, <1>18, <1>19, <1>20, <1>21, <1>22, <1>23

\* f that ends at a boundary, and g, which has section s after it.
With(f, s) == f \o Padded(s)
Grown(g, f, s) == /\ Len(g) = Len(f) + Pad(Len(s))
                  /\ \A k \in 1..Len(f) : g[k] = f[k]
                  /\ \A j \in 1..Pad(Len(s)) : g[Len(f) + j] = Padded(s)[j]

LEMMA Grows ==
    ASSUME NEW f, NEW s, NEW g, g = With(f, s), Sequence(f), Sequence(s)
    PROVE  Sequence(g) /\ Grown(g, f, s)
<1>1. Sequence(Padded(s))
  BY PaddedLength
<1>2. g = Cat(f, Padded(s))
  BY DEF With, Cat
<1>3. /\ Sequence(g) /\ Len(g) = Len(f) + Len(Padded(s))
      /\ \A k \in 1..Len(f) : g[k] = f[k]
      /\ \A j \in 1..Len(Padded(s)) : g[Len(f) + j] = Padded(s)[j]
  BY <1>1, <1>2, CatHolds
<1>4. Len(Padded(s)) = Pad(Len(s))
  BY PaddedLength
<1> QED
  BY <1>3, <1>4 DEF Grown

\* What is in whole, where a section lies: its payload, and zeros after it.
Holds(whole, secs, i) ==
    /\ \A j \in 1..Len(secs[i]) : whole[Starts(Lens(secs))[i] + j] = secs[i][j]
    /\ \A j \in Len(secs[i]) + 1..Pad(Len(secs[i])) : whole[Starts(Lens(secs))[i] + j] = 0

\* f ends where section i begins, and g begins whole.
Lies(f, g, whole, secs, i) == /\ Len(f) \in Nat /\ Len(f) = Starts(Lens(secs))[i]
                              /\ \A k \in 1..Len(g) : whole[k] = g[k]

LEMMA HoldsIn ==
    ASSUME NEW secs, Payloads(secs), NEW i \in Slots,
           NEW f, NEW g, NEW whole, Grown(g, f, secs[i]), Lies(f, g, whole, secs, i)
    PROVE  Holds(whole, secs, i)
<1> DEFINE l == Len(secs[i])
           o == Starts(Lens(secs))[i]
<1>1. Sequence(secs[i]) /\ l \in Nat /\ Pad(l) \in Nat /\ l <= Pad(l)
  BY SequenceHas, PadHolds DEF Payloads
<1>2. o \in Nat /\ Len(g) = o + Pad(l) /\ \A j \in 1..Pad(l) : g[o + j] = Padded(secs[i])[j]
  BY DEF Grown, Lies
<1>3. /\ \A j \in 1..l : Padded(secs[i])[j] = secs[i][j]
      /\ \A j \in l + 1..Pad(l) : Padded(secs[i])[j] = 0
  BY <1>1, PaddedCells
<1> HIDE DEF l, o
<1>4. \A j \in 1..Pad(l) : whole[o + j] = Padded(secs[i])[j]
  <2>1. \A j \in 1..Pad(l) : o + j \in 1..Len(g)
    BY <1>1, <1>2
  <2> QED
    BY <1>2, <2>1 DEF Lies
<1>5. \A j \in 1..l : j \in 1..Pad(l)
  BY <1>1
<1>6. \A j \in l + 1..Pad(l) : j \in 1..Pad(l)
  BY <1>1
<1> QED
  BY <1>3, <1>4, <1>5, <1>6 DEF Holds, l, o

LEMMA SealedHolds ==
    ASSUME NEW fields, FieldCells(fields), NEW secs, Payloads(secs)
    PROVE  /\ Sequence(Sealed(fields, secs))
           /\ Len(Sealed(fields, secs)) = Starts(Lens(secs))[9]
           /\ \A k \in 1..HeaderSize : Sealed(fields, secs)[k] = Header(fields, secs)[k]
           /\ \A i \in Slots : Holds(Sealed(fields, secs), secs, i)
<1> DEFINE f0 == Header(fields, secs)
           f1 == f0 \o Padded(secs[1])
           f2 == f1 \o Padded(secs[2])
           f3 == f2 \o Padded(secs[3])
           f4 == f3 \o Padded(secs[4])
           f5 == f4 \o Padded(secs[5])
           f6 == f5 \o Padded(secs[6])
           f7 == f6 \o Padded(secs[7])
           f8 == f7 \o Padded(secs[8])
           P(i) == Pad(Len(secs[i]))
           start == Starts(Lens(secs))
<1>1. Sequence(f0)
  BY HeaderHolds
<1>2. HeaderSize \in Nat /\ Len(f0) = HeaderSize
  BY HeaderHolds DEF HeaderSize, TableStart
<1>3. /\ Sequence(secs[1]) /\ Sequence(secs[2]) /\ Sequence(secs[3]) /\ Sequence(secs[4])
      /\ Sequence(secs[5]) /\ Sequence(secs[6]) /\ Sequence(secs[7]) /\ Sequence(secs[8])
  BY DEF Payloads, Slots
<1>4. /\ P(1) \in Nat /\ P(2) \in Nat /\ P(3) \in Nat /\ P(4) \in Nat
      /\ P(5) \in Nat /\ P(6) \in Nat /\ P(7) \in Nat /\ P(8) \in Nat
  BY <1>3, SequenceHas, PadHolds
<1>5. /\ f1 = With(f0, secs[1])
      /\ f2 = With(f1, secs[2])
      /\ f3 = With(f2, secs[3])
      /\ f4 = With(f3, secs[4])
      /\ f5 = With(f4, secs[5])
      /\ f6 = With(f5, secs[6])
      /\ f7 = With(f6, secs[7])
      /\ f8 = With(f7, secs[8])
  BY DEF With
<1>6. Sealed(fields, secs) = f8
  BY DEF Sealed
<1>7. /\ start[1] = HeaderSize
      /\ start[2] = start[1] + P(1)
      /\ start[3] = start[2] + P(2)
      /\ start[4] = start[3] + P(3)
      /\ start[5] = start[4] + P(4)
      /\ start[6] = start[5] + P(5)
      /\ start[7] = start[6] + P(6)
      /\ start[8] = start[7] + P(7)
      /\ start[9] = start[8] + P(8)
  <2>1. /\ Lens(secs)[1] = Len(secs[1]) /\ Lens(secs)[2] = Len(secs[2])
        /\ Lens(secs)[3] = Len(secs[3]) /\ Lens(secs)[4] = Len(secs[4])
        /\ Lens(secs)[5] = Len(secs[5]) /\ Lens(secs)[6] = Len(secs[6])
        /\ Lens(secs)[7] = Len(secs[7]) /\ Lens(secs)[8] = Len(secs[8])
    BY DEF Lens, Slots
  <2> QED
    BY <2>1, StartsAdd
<1>8. \A k \in 1..9 : start[k] \in Nat
  <2>1. \A i \in Slots : Lens(secs)[i] \in Nat
    BY SequenceHas DEF Lens, Payloads
  <2> QED
    BY <2>1, StartsHold
<1> HIDE DEF f0, f1, f2, f3, f4, f5, f6, f7, f8, start
<1>10. Sequence(f0)
  BY <1>1
<1>11. Sequence(f1) /\ Grown(f1, f0, secs[1])
  BY <1>3, <1>5, <1>10, Grows
<1>12. Sequence(f2) /\ Grown(f2, f1, secs[2])
  BY <1>3, <1>5, <1>11, Grows
<1>13. Sequence(f3) /\ Grown(f3, f2, secs[3])
  BY <1>3, <1>5, <1>12, Grows
<1>14. Sequence(f4) /\ Grown(f4, f3, secs[4])
  BY <1>3, <1>5, <1>13, Grows
<1>15. Sequence(f5) /\ Grown(f5, f4, secs[5])
  BY <1>3, <1>5, <1>14, Grows
<1>16. Sequence(f6) /\ Grown(f6, f5, secs[6])
  BY <1>3, <1>5, <1>15, Grows
<1>17. Sequence(f7) /\ Grown(f7, f6, secs[7])
  BY <1>3, <1>5, <1>16, Grows
<1>18. Sequence(f8) /\ Grown(f8, f7, secs[8])
  BY <1>3, <1>5, <1>17, Grows
<1>20. Len(f0) = start[1]
  BY <1>2, <1>7
<1>21. Len(f1) = start[2]
  BY <1>7, <1>11, <1>20 DEF Grown
<1>22. Len(f2) = start[3]
  BY <1>7, <1>12, <1>21 DEF Grown
<1>23. Len(f3) = start[4]
  BY <1>7, <1>13, <1>22 DEF Grown
<1>24. Len(f4) = start[5]
  BY <1>7, <1>14, <1>23 DEF Grown
<1>25. Len(f5) = start[6]
  BY <1>7, <1>15, <1>24 DEF Grown
<1>26. Len(f6) = start[7]
  BY <1>7, <1>16, <1>25 DEF Grown
<1>27. Len(f7) = start[8]
  BY <1>7, <1>17, <1>26 DEF Grown
<1>28. Len(f8) = start[9]
  BY <1>7, <1>18, <1>27 DEF Grown
<1>30. /\ start[1] \in Nat /\ start[2] \in Nat /\ start[3] \in Nat /\ start[4] \in Nat
       /\ start[5] \in Nat /\ start[6] \in Nat /\ start[7] \in Nat /\ start[8] \in Nat
       /\ start[9] \in Nat
  BY <1>8
<1>31. /\ start[1] <= start[2] /\ start[2] <= start[3] /\ start[3] <= start[4]
       /\ start[4] <= start[5] /\ start[5] <= start[6] /\ start[6] <= start[7]
       /\ start[7] <= start[8] /\ start[8] <= start[9]
  <2>1. \A i \in Slots : Lens(secs)[i] \in Nat
    BY SequenceHas DEF Lens, Payloads
  <2> QED
    BY <2>1, StartsRise DEF start
<1>39. \A k \in 1..start[9] : f8[k] = f8[k]
  OBVIOUS
<1>40. \A k \in 1..start[8] : f8[k] = f7[k]
  BY <1>18, <1>27, <1>30, <1>31, <1>39, SMTT(40) DEF Grown
<1>41. \A k \in 1..start[7] : f8[k] = f6[k]
  BY <1>17, <1>26, <1>30, <1>31, <1>40, SMTT(40) DEF Grown
<1>42. \A k \in 1..start[6] : f8[k] = f5[k]
  BY <1>16, <1>25, <1>30, <1>31, <1>41, SMTT(40) DEF Grown
<1>43. \A k \in 1..start[5] : f8[k] = f4[k]
  BY <1>15, <1>24, <1>30, <1>31, <1>42, SMTT(40) DEF Grown
<1>44. \A k \in 1..start[4] : f8[k] = f3[k]
  BY <1>14, <1>23, <1>30, <1>31, <1>43, SMTT(40) DEF Grown
<1>45. \A k \in 1..start[3] : f8[k] = f2[k]
  BY <1>13, <1>22, <1>30, <1>31, <1>44, SMTT(40) DEF Grown
<1>46. \A k \in 1..start[2] : f8[k] = f1[k]
  BY <1>12, <1>21, <1>30, <1>31, <1>45, SMTT(40) DEF Grown
<1>47. \A k \in 1..start[1] : f8[k] = f0[k]
  BY <1>11, <1>20, <1>30, <1>31, <1>46, SMTT(40) DEF Grown
<1>50. \A k \in 1..HeaderSize : f8[k] = f0[k]
  BY <1>7, <1>47
<1>51. Holds(f8, secs, 1)
  <2>1. 1 \in Slots
    BY DEF Slots
  <2>2. Lies(f0, f1, f8, secs, 1)
    BY <1>20, <1>21, <1>46, <1>30 DEF Lies, start
  <2> QED
    BY <1>11, <2>1, <2>2, HoldsIn
<1>52. Holds(f8, secs, 2)
  <2>1. 2 \in Slots
    BY DEF Slots
  <2>2. Lies(f1, f2, f8, secs, 2)
    BY <1>21, <1>22, <1>45, <1>30 DEF Lies, start
  <2> QED
    BY <1>12, <2>1, <2>2, HoldsIn
<1>53. Holds(f8, secs, 3)
  <2>1. 3 \in Slots
    BY DEF Slots
  <2>2. Lies(f2, f3, f8, secs, 3)
    BY <1>22, <1>23, <1>44, <1>30 DEF Lies, start
  <2> QED
    BY <1>13, <2>1, <2>2, HoldsIn
<1>54. Holds(f8, secs, 4)
  <2>1. 4 \in Slots
    BY DEF Slots
  <2>2. Lies(f3, f4, f8, secs, 4)
    BY <1>23, <1>24, <1>43, <1>30 DEF Lies, start
  <2> QED
    BY <1>14, <2>1, <2>2, HoldsIn
<1>55. Holds(f8, secs, 5)
  <2>1. 5 \in Slots
    BY DEF Slots
  <2>2. Lies(f4, f5, f8, secs, 5)
    BY <1>24, <1>25, <1>42, <1>30 DEF Lies, start
  <2> QED
    BY <1>15, <2>1, <2>2, HoldsIn
<1>56. Holds(f8, secs, 6)
  <2>1. 6 \in Slots
    BY DEF Slots
  <2>2. Lies(f5, f6, f8, secs, 6)
    BY <1>25, <1>26, <1>41, <1>30 DEF Lies, start
  <2> QED
    BY <1>16, <2>1, <2>2, HoldsIn
<1>57. Holds(f8, secs, 7)
  <2>1. 7 \in Slots
    BY DEF Slots
  <2>2. Lies(f6, f7, f8, secs, 7)
    BY <1>26, <1>27, <1>40, <1>30 DEF Lies, start
  <2> QED
    BY <1>17, <2>1, <2>2, HoldsIn
<1>58. Holds(f8, secs, 8)
  <2>1. 8 \in Slots
    BY DEF Slots
  <2>2. Lies(f7, f8, f8, secs, 8)
    BY <1>27, <1>28, <1>39, <1>30 DEF Lies, start
  <2> QED
    BY <1>18, <2>1, <2>2, HoldsIn
<1>59. \A i \in Slots : i = 1 \/ i = 2 \/ i = 3 \/ i = 4 \/ i = 5 \/ i = 6 \/ i = 7 \/ i = 8
  BY DEF Slots
<1>60. \A i \in Slots : Holds(f8, secs, i)
  BY <1>51, <1>52, <1>53, <1>54, <1>55, <1>56, <1>57, <1>58, <1>59
<1> QED
  BY <1>6, <1>18, <1>28, <1>50, <1>60 DEF start, f0

-----------------------------------------------------------------------------
(* A part of a sealed file is refused.                                     *)

\* What a writer leaves: the cells of t up to some point.
Part(f, t) == /\ Sequence(f) /\ Len(f) <= Len(t)
              /\ \A k \in 1..Len(f) : f[k] = t[k]

LEMMA HeaderVerdict == ASSUME NEW f PROVE header(f) \in Refused \cup {"ok"}
  BY DEF header, Refused

LEMMA HeaderLong == ASSUME NEW f, header(f) = "ok" PROVE ~(Len(f) < HeaderSize)
  BY DEF header

LEMMA Least ==
    ASSUME NEW B \in SUBSET Slots, B # {}
    PROVE  \E i \in B : \A j \in B : i <= j
<1> SUFFICES ASSUME \A i \in B : \E j \in B : ~(i <= j) PROVE FALSE
  OBVIOUS
<1>1. 1 \notin B
  BY DEF Slots
<1>2. 2 \notin B
  BY <1>1 DEF Slots
<1>3. 3 \notin B
  BY <1>1, <1>2 DEF Slots
<1>4. 4 \notin B
  BY <1>1, <1>2, <1>3 DEF Slots
<1>5. 5 \notin B
  BY <1>1, <1>2, <1>3, <1>4 DEF Slots
<1>6. 6 \notin B
  BY <1>1, <1>2, <1>3, <1>4, <1>5 DEF Slots
<1>7. 7 \notin B
  BY <1>1, <1>2, <1>3, <1>4, <1>5, <1>6 DEF Slots
<1>8. 8 \notin B
  BY <1>1, <1>2, <1>3, <1>4, <1>5, <1>6, <1>7 DEF Slots
<1>9. PICK x \in B : TRUE
  OBVIOUS
<1>10. x \in {1, 2, 3, 4, 5, 6, 7, 8}
  BY <1>9 DEF Slots
<1> QED
  BY <1>1, <1>2, <1>3, <1>4, <1>5, <1>6, <1>7, <1>8, <1>9, <1>10

LEMMA WalkNotEmpty ==
    ASSUME NEW f, NEW k \in Slots, section(f, k) # "ok",
           \A i \in Slots : section(f, i) \in {"ok", "ErrCorrupt"}
    PROVE  walk(f) = "ErrCorrupt"
<1> DEFINE bad == {i \in Slots : section(f, i) # "ok"}
           first == CHOOSE i \in bad : \A j \in bad : i <= j
<1>1. bad \in SUBSET Slots /\ bad # {}
  OBVIOUS
<1>2. walk(f) = section(f, first)
  BY <1>1 DEF walk
<1>3. \A i \in bad : section(f, i) = "ErrCorrupt"
  OBVIOUS
<1> HIDE DEF bad
<1>4. first \in bad
  BY <1>1, Least
<1> QED
  BY <1>2, <1>3, <1>4

LEMMA WalkEmpty ==
    ASSUME NEW f, \A i \in Slots : section(f, i) = "ok"
    PROVE  walk(f) = IF Starts(expect(numbers(f)))[9] # Len(f) THEN "ErrCorrupt" ELSE "ok"
  BY DEF walk

\* f begins with the header of a sealed file.
Begins(f, fields, secs) ==
    /\ Sequence(f) /\ HeaderSize <= Len(f)
    /\ \A k \in 1..HeaderSize : f[k] = Sealed(fields, secs)[k]

LEMMA BeginsHas ==
    ASSUME NEW fields, FieldCells(fields), NEW secs, Payloads(secs),
           NEW f, Begins(f, fields, secs)
    PROVE  \A i \in Slots : /\ f[Row(i) + 1] = Starts(Lens(secs))[i]
                            /\ f[Row(i) + 2] = Lens(secs)[i]
                            /\ f[Row(i) + 3] = secs[i]
                            /\ f[Row(i) + 1] \in Nat /\ f[Row(i) + 2] \in Nat
<1> DEFINE lens == Lens(secs)
           whole == Sealed(fields, secs)
<1>1. \A i \in Slots : lens[i] = Len(secs[i]) /\ lens[i] \in Nat
  BY SequenceHas DEF Lens, Payloads
<1>2. \A i \in 1..9 : Starts(lens)[i] \in Nat
  BY <1>1, StartsHold
<1>3. \A i \in Slots : /\ Row(i) + 1 \in 1..HeaderSize /\ Row(i) + 2 \in 1..HeaderSize
                       /\ Row(i) + 3 \in 1..HeaderSize /\ i \in 1..9
  BY DEF Row, Slots, HeaderSize, TableStart
<1>4. \A k \in 1..HeaderSize : f[k] = Header(fields, secs)[k]
  BY SealedHolds DEF Begins
<1>5. \A i \in Slots : /\ Header(fields, secs)[Row(i) + 1] = Starts(lens)[i]
                       /\ Header(fields, secs)[Row(i) + 2] = Len(secs[i])
                       /\ Header(fields, secs)[Row(i) + 3] = secs[i]
  BY HeaderHolds
<1> QED
  BY <1>1, <1>2, <1>3, <1>4, <1>5

\* A section is never read past the end of the file.
LEMMA SectionVerdict ==
    ASSUME NEW f, Sequence(f), NEW i, f[Row(i) + 1] \in Nat, f[Row(i) + 2] \in Nat
    PROVE  section(f, i) \in {"ok", "ErrCorrupt"}
<1> DEFINE o == f[Row(i) + 1]
           l == f[Row(i) + 2]
<1>1. Len(f) \in Nat /\ Pad(l) \in Nat /\ l <= Pad(l)
  BY SequenceHas, PadHolds
<1>2. o \in Nat /\ l \in Nat
  OBVIOUS
<1>3. geometry(f, i, o, l) => o + Pad(l) <= Len(f)
  BY DEF geometry
<1> HIDE DEF o, l
<1>4. geometry(f, i, o, l) => ~(o + l > Len(f)) /\ ~(o + Pad(l) > Len(f))
  BY <1>1, <1>2, <1>3
<1> QED
  BY <1>4 DEF section, o, l

\* A true header over a file of another length.
LEMMA WrongLength ==
    ASSUME NEW fields, FieldCells(fields), NEW secs, Payloads(secs),
           NEW f, Begins(f, fields, secs), Len(f) # Starts(Lens(secs))[9]
    PROVE  walk(f) = "ErrCorrupt"
<1> DEFINE lens == Lens(secs)
<1>1. \A i \in Slots : /\ f[Row(i) + 2] = lens[i]
                       /\ f[Row(i) + 1] \in Nat /\ f[Row(i) + 2] \in Nat
  BY BeginsHas
<1>2. \A i \in Slots : section(f, i) \in {"ok", "ErrCorrupt"}
  BY <1>1, SectionVerdict DEF Begins
<1>3. CASE \A i \in Slots : section(f, i) = "ok"
  <2>1. \A i \in Slots : geometry(f, i, f[Row(i) + 1], f[Row(i) + 2])
    BY <1>3 DEF section
  <2>2. \A i \in Slots : expect(numbers(f))[i] = lens[i]
    BY <1>1, <2>1 DEF geometry
  <2> HIDE DEF lens
  <2>3. Starts(expect(numbers(f)))[9] = Starts(lens)[9]
    BY <2>2, StartsOfEqual
  <2>4. Starts(lens)[9] # Len(f)
    BY DEF lens
  <2> QED
    BY <1>3, <2>3, <2>4, WalkEmpty
<1> QED
  BY <1>2, <1>3, WalkNotEmpty

LEMMA RefusedByWalk ==
    ASSUME NEW f, header(f) = "ok" => walk(f) = "ErrCorrupt"
    PROVE  openBytes(f) \in Refused
  BY HeaderVerdict DEF openBytes, Refused

LEMMA Torn ==
    ASSUME NEW fields, FieldCells(fields), NEW secs, Payloads(secs),
           NEW f, Part(f, Sealed(fields, secs)), f # Sealed(fields, secs)
    PROVE  openBytes(f) \in Refused
<1> DEFINE whole == Sealed(fields, secs)
<1>1. Sequence(whole) /\ Len(whole) = Starts(Lens(secs))[9]
  BY SealedHolds, SMTT(40)
<1> HIDE DEF whole
<1>2. Len(f) # Len(whole)
  <2>1. whole = [i \in 1..Len(whole) |-> whole[i]] /\ f = [i \in 1..Len(f) |-> f[i]]
    BY <1>1, SequenceHas DEF Part
  <2>2. f # whole /\ \A k \in 1..Len(f) : f[k] = whole[k]
    BY DEF Part, whole
  <2> QED
    BY <2>1, <2>2
<1>3. Len(f) \in Nat /\ Len(whole) \in Nat /\ Len(f) <= Len(whole)
  BY <1>1, SequenceHas DEF Part, whole
<1>5. ASSUME header(f) = "ok" PROVE walk(f) = "ErrCorrupt"
  <2>1. HeaderSize <= Len(f)
    BY <1>3, <1>5, HeaderLong DEF HeaderSize, TableStart
  <2>2. Begins(f, fields, secs)
    <3>1. HeaderSize \in Nat
      BY DEF HeaderSize, TableStart
    <3>2. \A k \in 1..HeaderSize : k \in 1..Len(f)
      BY <1>3, <2>1, <3>1
    <3> QED
      BY <2>1, <3>2 DEF Begins, Part
  <2>3. Len(f) # Starts(Lens(secs))[9]
    BY <1>1, <1>2
  <2> QED
    BY <2>2, <2>3, WrongLength
<1> QED
  BY <1>5, RefusedByWalk

-----------------------------------------------------------------------------
(* A damaged file is refused.                                              *)

LEMMA SubSeqCells ==
    ASSUME NEW s, NEW m \in Nat, NEW k \in Nat, k + 1 >= m
    PROVE  /\ Sequence(SubSeq(s, m, k)) /\ Len(SubSeq(s, m, k)) = k - m + 1
           /\ \A i \in 1..k - m + 1 : SubSeq(s, m, k)[i] = s[m + i - 1]
<1> DEFINE S == {s[i] : i \in m..k}
<1>1. \A i \in m..k : s[i] \in S
  OBVIOUS
<1> HIDE DEF S
<1>2. /\ SubSeq(s, m, k) \in Seq(S)
      /\ Len(SubSeq(s, m, k)) = IF m <= k THEN k - m + 1 ELSE 0
      /\ \A i \in 1..k - m + 1 : SubSeq(s, m, k)[i] = s[m + i - 1]
  BY <1>1, SubSeqProperties
<1>3. Sequence(SubSeq(s, m, k))
  BY <1>2, SeqIsSequence
<1>4. (IF m <= k THEN k - m + 1 ELSE 0) = k - m + 1
  OBVIOUS
<1> QED
  BY <1>2, <1>3, <1>4

LEMMA SectionBroken ==
    ASSUME NEW fields, FieldCells(fields), NEW secs, Payloads(secs),
           NEW f, Begins(f, fields, secs), NEW i \in Slots,
           NEW k \in Starts(Lens(secs))[i] + 1..Starts(Lens(secs))[i] + Pad(Lens(secs)[i]),
           f[k] # Sealed(fields, secs)[k]
    PROVE  section(f, i) # "ok"
<1> DEFINE o == f[Row(i) + 1]
           l == f[Row(i) + 2]
           whole == Sealed(fields, secs)
<1>1. /\ o = Starts(Lens(secs))[i] /\ l = Lens(secs)[i] /\ f[Row(i) + 3] = secs[i]
      /\ o \in Nat /\ l \in Nat
  BY BeginsHas
<1>2. l = Len(secs[i]) /\ Pad(l) \in Nat /\ l <= Pad(l)
  BY <1>1, PadHolds DEF Lens
<1>3. k \in o + 1..o + Pad(l)
  BY <1>1
<1>4. Holds(whole, secs, i)
  BY SealedHolds
<1>5. /\ \A j \in 1..l : whole[o + j] = secs[i][j]
      /\ \A j \in l + 1..Pad(l) : whole[o + j] = 0
  BY <1>1, <1>2, <1>4 DEF Holds
<1> SUFFICES ASSUME section(f, i) = "ok" PROVE FALSE
  OBVIOUS
<1>6. /\ SubSeq(f, o + 1, o + l) = secs[i]
      /\ \A j \in o + l + 1..o + Pad(l) : f[j] = 0
  BY <1>1 DEF section, Checksum
<1>7. f[k] # whole[k]
  OBVIOUS
<1> HIDE DEF o, l, whole
<1>8. CASE k <= o + l
  <2>1. k - o \in 1..l /\ (o + 1) + (k - o) - 1 = k /\ o + (k - o) = k
    BY <1>1, <1>3, <1>8
  <2>2. \A j \in 1..(o + l) - (o + 1) + 1 : SubSeq(f, o + 1, o + l)[j] = f[(o + 1) + j - 1]
    <3> DEFINE m == o + 1
               e == o + l
    <3>1. m \in Nat /\ e \in Nat /\ e + 1 >= m
      BY <1>1
    <3> HIDE DEF m, e
    <3>2. \A j \in 1..e - m + 1 : SubSeq(f, m, e)[j] = f[m + j - 1]
      BY <3>1, SubSeqCells
    <3> QED
      BY <3>2 DEF m, e
  <2>3. (o + l) - (o + 1) + 1 = l
    BY <1>1
  <2>4. \A j \in 1..l : SubSeq(f, o + 1, o + l)[j] = f[(o + 1) + j - 1]
    BY <2>2, <2>3
  <2>5. SubSeq(f, o + 1, o + l)[k - o] = f[k]
    BY <2>1, <2>4
  <2>6. whole[k] = secs[i][k - o]
    BY <1>5, <2>1
  <2> QED
    BY <1>6, <1>7, <2>5, <2>6
<1>9. CASE ~(k <= o + l)
  <2>1. k \in o + l + 1..o + Pad(l) /\ k - o \in l + 1..Pad(l) /\ o + (k - o) = k
    <3> DEFINE e == Pad(l)
    <3>1. o \in Nat /\ l \in Nat /\ e \in Nat /\ k \in o + 1..o + e /\ ~(k <= o + l)
      BY <1>1, <1>2, <1>3, <1>9
    <3> HIDE DEF e
    <3>2. k \in o + l + 1..o + e /\ k - o \in l + 1..e /\ o + (k - o) = k
      BY <3>1
    <3> QED
      BY <3>2 DEF e
  <2>2. f[k] = 0
    BY <1>6, <2>1
  <2>3. whole[k] = 0
    BY <1>5, <2>1
  <2> QED
    BY <1>7, <2>2, <2>3
<1> QED
  BY <1>8, <1>9

LEMMA Covered ==
    ASSUME NEW lens, \A i \in Slots : lens[i] \in Nat, NEW k \in Nat,
           HeaderSize < k, k <= Starts(lens)[9]
    PROVE  \E i \in Slots : k \in Starts(lens)[i] + 1..Starts(lens)[i] + Pad(lens[i])
<1> DEFINE P(i) == Pad(lens[i])
           start == Starts(lens)
<1>1. \A i \in 1..8 : P(i) \in Nat
  BY PadHolds DEF Slots
<1>2. /\ P(1) \in Nat /\ P(2) \in Nat /\ P(3) \in Nat /\ P(4) \in Nat
      /\ P(5) \in Nat /\ P(6) \in Nat /\ P(7) \in Nat /\ P(8) \in Nat
  BY <1>1
<1>3. /\ start[1] \in Nat /\ start[2] \in Nat /\ start[3] \in Nat /\ start[4] \in Nat
      /\ start[5] \in Nat /\ start[6] \in Nat /\ start[7] \in Nat /\ start[8] \in Nat
      /\ start[9] \in Nat
  BY StartsHold
<1>4. /\ start[2] = start[1] + P(1) /\ start[3] = start[2] + P(2)
      /\ start[4] = start[3] + P(3) /\ start[5] = start[4] + P(4)
      /\ start[6] = start[5] + P(5) /\ start[7] = start[6] + P(6)
      /\ start[8] = start[7] + P(7) /\ start[9] = start[8] + P(8)
  BY StartsAdd
<1>5. start[1] < k /\ k <= start[9]
  BY StartsAdd
<1> HIDE DEF P, start
<1>6. \/ k \in start[1] + 1..start[1] + P(1)
      \/ k \in start[2] + 1..start[2] + P(2)
      \/ k \in start[3] + 1..start[3] + P(3)
      \/ k \in start[4] + 1..start[4] + P(4)
      \/ k \in start[5] + 1..start[5] + P(5)
      \/ k \in start[6] + 1..start[6] + P(6)
      \/ k \in start[7] + 1..start[7] + P(7)
      \/ k \in start[8] + 1..start[8] + P(8)
  BY <1>2, <1>3, <1>4, <1>5
<1>7. \E i \in Slots : k \in start[i] + 1..start[i] + P(i)
  BY <1>6 DEF Slots
<1> QED
  BY <1>7 DEF start, P

LEMMA GrownRefused ==
    ASSUME NEW fields, FieldCells(fields), NEW secs, Payloads(secs), NEW k \in Nat \ {0}
    PROVE  openBytes(Sealed(fields, secs) \o Zeros(k)) \in Refused
<1> DEFINE whole == Sealed(fields, secs)
           z == Zeros(k)
           f == whole \o z
           top == Starts(Lens(secs))[9]
<1>1. Sequence(whole)
  BY SealedHolds
<1>2. Len(whole) = top
  BY SealedHolds
<1>3. Sequence(z) /\ Len(z) = k
  BY DEF Zeros, Sequence
<1>4. f = Cat(whole, z)
  BY DEF Cat
<1>5. top \in Nat /\ HeaderSize <= top /\ HeaderSize \in Nat
  <2>1. \A i \in Slots : Lens(secs)[i] \in Nat
    BY SequenceHas DEF Lens, Payloads
  <2> QED
    BY <2>1, StartsHold DEF HeaderSize, TableStart
<1> HIDE DEF whole, z, f, top
<1>6. /\ Sequence(f) /\ Len(f) = Len(whole) + Len(z)
      /\ \A j \in 1..Len(whole) : f[j] = whole[j]
  BY <1>1, <1>3, <1>4, CatHolds
<1>7. Len(f) = top + k /\ Len(f) # top /\ HeaderSize <= Len(f)
  BY <1>2, <1>3, <1>5, <1>6
<1>8. \A j \in 1..HeaderSize : f[j] = whole[j]
  BY <1>2, <1>5, <1>6
<1>9. Begins(f, fields, secs)
  BY <1>6, <1>7, <1>8 DEF Begins, whole
<1>10. walk(f) = "ErrCorrupt"
  BY <1>7, <1>9, WrongLength DEF top
<1>11. openBytes(f) \in Refused
  BY <1>10, RefusedByWalk
<1> QED
  BY <1>11 DEF f, whole, z

LEMMA SameSequence ==
    ASSUME NEW s, Sequence(s), NEW t, Sequence(t), Len(s) = Len(t),
           \A j \in 1..Len(s) : s[j] = t[j]
    PROVE  s = t
<1>1. s = [j \in 1..Len(s) |-> s[j]] /\ t = [j \in 1..Len(t) |-> t[j]]
  BY SequenceHas
<1> QED
  BY <1>1

\* One cell of a header changed: its checksum, its last word, or what it is taken of.
LEMMA HeaderBroken ==
    ASSUME NEW fields, FieldCells(fields), NEW secs, Payloads(secs),
           NEW f, NEW k \in 1..HeaderSize, f[k] # Sealed(fields, secs)[k],
           \A j \in 1..HeaderSize : j # k => f[j] = Sealed(fields, secs)[j]
    PROVE  header(f) # "ok"
<1> DEFINE whole == Sealed(fields, secs)
           crc == whole[CrcCell]
           u == SubSeq(f, 1, CrcCell - 1)
<1>1. HeaderSize = 46 /\ CrcCell = 45
  BY DEF CrcCell, HeaderSize, TableStart
<1>2. /\ whole[46] = 0 /\ Sequence(crc) /\ Len(crc) = 44
      /\ \A j \in 1..44 : crc[j] = whole[j]
  <2>0. \A j \in 1..HeaderSize : whole[j] = Header(fields, secs)[j]
    BY SealedHolds
  <2>1. \A j \in 1..46 : whole[j] = Header(fields, secs)[j]
    BY <1>1, <2>0
  <2>2. 45 \in 1..46 /\ 46 \in 1..46 /\ \A j \in 1..44 : j \in 1..46
    OBVIOUS
  <2>3. /\ Header(fields, secs)[46] = 0 /\ Sequence(Header(fields, secs)[45])
        /\ Len(Header(fields, secs)[45]) = 45 - 1
        /\ \A j \in 1..45 - 1 : Header(fields, secs)[45][j] = Header(fields, secs)[j]
    BY <1>1, HeaderHolds
  <2>4. 45 - 1 = 44
    OBVIOUS
  <2>5. crc = Header(fields, secs)[45]
    BY <1>1, <2>1, <2>2
  <2> HIDE DEF whole, crc
  <2> QED
    BY <2>1, <2>2, <2>3, <2>4, <2>5
<1>3. Sequence(u) /\ Len(u) = 44 /\ \A j \in 1..44 : u[j] = f[j]
  <2>1. /\ Sequence(SubSeq(f, 1, 44)) /\ Len(SubSeq(f, 1, 44)) = 44 - 1 + 1
        /\ \A j \in 1..44 - 1 + 1 : SubSeq(f, 1, 44)[j] = f[1 + j - 1]
    BY SubSeqCells
  <2>2. u = SubSeq(f, 1, 44)
    BY <1>1
  <2>3. 44 - 1 + 1 = 44 /\ \A j \in 1..44 : 1 + j - 1 = j
    OBVIOUS
  <2> HIDE DEF u
  <2> QED
    BY <2>1, <2>2, <2>3
<1>4. header(f) = "ok" => u = f[CrcCell] /\ f[HeaderSize] = 0
  BY DEF header, Checksum
<1>5. k \in 1..46 /\ f[k] # whole[k] /\ \A j \in 1..46 : j # k => f[j] = whole[j]
  BY <1>1
<1> HIDE DEF whole, u
<1>6. CASE k = 46
  BY <1>1, <1>2, <1>4, <1>5, <1>6
<1>7. CASE k = 45
  <2>1. \A j \in 1..44 : u[j] = crc[j]
    BY <1>2, <1>3, <1>5, <1>7
  <2>2. u = crc
    <3>1. Sequence(u) /\ Sequence(crc) /\ Len(u) = Len(crc)
      BY <1>2, <1>3
    <3>2. \A j \in 1..Len(u) : u[j] = crc[j]
      BY <1>3, <2>1
    <3> HIDE DEF crc
    <3> QED
      BY <3>1, <3>2, SameSequence
  <2> QED
    BY <1>1, <1>4, <1>5, <1>7, <2>2
<1>8. CASE k \in 1..44
  <2>1. f[45] = crc
    BY <1>1, <1>5, <1>8
  <2>2. u[k] = f[k] /\ crc[k] = whole[k]
    BY <1>2, <1>3, <1>8
  <2> QED
    BY <1>1, <1>4, <1>5, <2>1, <2>2
<1> QED
  BY <1>5, <1>6, <1>7, <1>8

LEMMA FlippedRefused ==
    ASSUME NEW fields, FieldCells(fields), NEW secs, Payloads(secs),
           NEW k \in DOMAIN Sealed(fields, secs), NEW c, c # Sealed(fields, secs)[k]
    PROVE  openBytes([Sealed(fields, secs) EXCEPT ![k] = c]) \in Refused
<1> DEFINE whole == Sealed(fields, secs)
           f == [whole EXCEPT ![k] = c]
           lens == Lens(secs)
           top == Starts(lens)[9]
<1>1. Sequence(whole)
  BY SealedHolds
<1>1a. Len(whole) = top
  BY SealedHolds
<1>2. \A i \in Slots : lens[i] \in Nat
  BY SequenceHas DEF Lens, Payloads
<1>3. top \in Nat /\ HeaderSize <= top /\ HeaderSize \in Nat
  BY <1>2, StartsHold DEF HeaderSize, TableStart
<1>4. /\ Sequence(f) /\ Len(f) = Len(whole) /\ k \in 1..Len(whole) /\ f[k] = c
      /\ \A j \in 1..Len(whole) : j # k => f[j] = whole[j]
  <2>1. Len(whole) \in Nat /\ DOMAIN whole = 1..Len(whole)
    BY <1>1, SequenceHas
  <2> HIDE DEF whole
  <2>2. f = [j \in 1..Len(whole) |-> f[j]]
    BY <2>1
  <2>3. k \in 1..Len(whole)
    BY <2>1 DEF whole
  <2>4. f[k] = c /\ \A j \in 1..Len(whole) : j # k => f[j] = whole[j]
    BY <2>1, <2>3
  <2> HIDE DEF f
  <2> QED
    BY <2>1, <2>2, <2>3, <2>4, FunctionIsSequence
<1>5. f[k] # whole[k]
  BY <1>4
<1> HIDE DEF f, top
<1>6. CASE k <= HeaderSize
  <2>1. k \in 1..HeaderSize /\ \A j \in 1..HeaderSize : j \in 1..Len(whole)
    BY <1>1a, <1>3, <1>4, <1>6
  <2>2. header(f) # "ok"
    BY <1>4, <1>5, <2>1, HeaderBroken
  <2> QED
    BY <2>2, RefusedByWalk DEF f
<1>7. CASE ~(k <= HeaderSize)
  <2>1. k \in Nat /\ HeaderSize < k /\ k <= top
    BY <1>1a, <1>3, <1>4, <1>7
  <2>2. \A j \in 1..HeaderSize : j \in 1..Len(whole) /\ j # k
    BY <1>1a, <1>3, <2>1
  <2>3. Begins(f, fields, secs)
    BY <1>1a, <1>3, <1>4, <2>2 DEF Begins
  <2> HIDE DEF lens
  <2>4. PICK i \in Slots : k \in Starts(lens)[i] + 1..Starts(lens)[i] + Pad(lens[i])
    BY <1>2, <2>1, Covered DEF top
  <2>5. section(f, i) # "ok"
    BY <1>5, <2>3, <2>4, SectionBroken DEF lens
  <2>6. \A j \in Slots : section(f, j) \in {"ok", "ErrCorrupt"}
    <3>1. \A j \in Slots : f[Row(j) + 1] \in Nat /\ f[Row(j) + 2] \in Nat
      BY <2>3, BeginsHas
    <3> QED
      BY <1>4, <3>1, SectionVerdict
  <2>7. walk(f) = "ErrCorrupt"
    BY <2>5, <2>6, WalkNotEmpty
  <2> QED
    BY <2>7, RefusedByWalk DEF f
<1> QED
  BY <1>6, <1>7

LEMMA OneLonger ==
    ASSUME NEW s, Sequence(s) PROVE Len(Append(s, 0)) = Len(s) + 1 /\ Len(s) \in Nat
<1> DEFINE S == {s[i] : i \in 1..Len(s)} \cup {0}
<1>1. \A i \in 1..Len(s) : s[i] \in S
  OBVIOUS
<1>2. 0 \in S
  OBVIOUS
<1> HIDE DEF S
<1>3. s \in Seq(S)
  BY <1>1, SequenceIn
<1>4. Len(Append(s, 0)) = Len(s) + 1 /\ Len(s) \in Nat
  BY <1>2, <1>3, AppendProperties
<1> QED
  BY <1>4

LEMMA Longer == ASSUME NEW s, Sequence(s) PROVE Append(s, 0) # s
<1>1. Len(Append(s, 0)) = Len(s) + 1 /\ Len(s) \in Nat
  BY OneLonger
<1> QED
  BY <1>1

\* What Flip puts in a cell is not what was there.
LEMMA OtherDiffers ==
    ASSUME NEW fields, FieldCells(fields), NEW secs, Payloads(secs),
           file = Sealed(fields, secs), NEW k, NEW c \in Other(k)
    PROVE  c # file[k]
<1>1. CASE ~IsCrc(k)
  BY <1>1 DEF Other
<1>2. CASE IsCrc(k)
  <2>1. HeaderSize = 46 /\ CrcCell = 45 /\ TableStart = 12
    BY DEF CrcCell, HeaderSize, TableStart
  <2>2. \A j \in 1..HeaderSize : file[j] = Header(fields, secs)[j]
    BY SealedHolds
  <2>3. k = 45 \/ (k \in 13..44 /\ (k - 12) % 4 = 3)
    BY <1>2, <2>1 DEF IsCrc
  <2>4. Sequence(file[k])
    <3>1. CASE k = 45
      <4>1. file[45] = Header(fields, secs)[45]
        BY <2>1, <2>2
      <4>2. Sequence(Header(fields, secs)[45])
        BY <2>1, HeaderHolds
      <4> QED
        BY <3>1, <4>1, <4>2
    <3>2. CASE k \in 13..44 /\ (k - 12) % 4 = 3
      <4>1. k \in {15, 19, 23, 27, 31, 35, 39, 43}
        BY <3>2
      <4>2. \E i \in Slots : k = Row(i) + 3
        <5>1. \E i \in 1..8 : k = 12 + 4 * (i - 1) + 3
          BY <4>1
        <5> QED
          BY <2>1, <5>1 DEF Row, Slots
      <4>3. PICK i \in Slots : k = Row(i) + 3
        BY <4>2
      <4>4. Header(fields, secs)[k] = secs[i]
        BY <4>3, HeaderHolds
      <4>5. file[k] = Header(fields, secs)[k]
        BY <2>1, <2>2, <3>2
      <4> QED
        BY <4>4, <4>5 DEF Payloads
    <3> QED
      BY <2>3, <3>1, <3>2
  <2>5. c = Append(file[k], 0)
    BY <1>2 DEF Other
  <2> QED
    BY <2>4, <2>5, Longer
<1> QED
  BY <1>1, <1>2

LEMMA PartOf ==
    ASSUME NEW t, Sequence(t), NEW c \in 0..Len(t)
    PROVE  Part(SubSeq(t, 1, c), t) /\ Len(SubSeq(t, 1, c)) = c
<1> DEFINE S == {t[i] : i \in 1..Len(t)}
           u == SubSeq(t, 1, c)
<1>1. t \in Seq(S) /\ Len(t) \in Nat
  BY SequenceIn, SequenceHas
<1> HIDE DEF S
<1>2. u = [i \in 1..c |-> t[i]] /\ c \in Nat
  BY <1>1
<1>3. u = [i \in 1..c |-> u[i]] /\ \A i \in 1..c : u[i] = t[i]
  BY <1>2
<1> HIDE DEF u
<1>4. Sequence(u) /\ Len(u) = c
  BY <1>2, <1>3, FunctionIsSequence
<1>5. Part(u, t)
  BY <1>1, <1>3, <1>4 DEF Part
<1> QED
  BY <1>4, <1>5 DEF u

-----------------------------------------------------------------------------
(* What WriteTo has to write.                                              *)

LEMMA EmptySequence == Sequence(<<>>)
<1>1. <<>> \in Seq(Nat)
  OBVIOUS
<1> QED
  BY <1>1, SeqIsSequence

LEMMA EmptyIsPart == ASSUME NEW t, Sequence(t) PROVE Part(<<>>, t)
<1>1. Len(<<>>) = 0 /\ Len(t) \in Nat
  BY SequenceHas
<1> QED
  BY <1>1, EmptySequence DEF Part

LEMMA BlocksSequence ==
    ASSUME NEW s, Len(s) \in Nat, NEW w \in Nat PROVE Sequence(Blocks(s, w))
<1> DEFINE cell(i) == s[(i - 1) \div w + 1][((i - 1) % w) + 1]
           b == [i \in 1..Len(s) * w |-> cell(i)]
<1>1. Blocks(s, w) = b
  BY DEF Blocks
<1>2. Len(s) * w \in Nat
  OBVIOUS
<1>3. b = [i \in 1..Len(s) * w |-> b[i]]
  OBVIOUS
<1> HIDE DEF b
<1> QED
  BY <1>1, <1>2, <1>3, FunctionIsSequence

LEMMA FieldsHold == FieldCells(Fields(BuiltMap))
<1> DEFINE F == Fields(BuiltMap)
<1>1. F = [i \in 1..12 |-> F[i]]
  BY DEF Fields
<1> HIDE DEF F
<1>2. Sequence(F) /\ Len(F) = 12
  BY <1>1, FunctionIsSequence
<1> QED
  BY <1>2 DEF F, FieldCells, TableStart

LEMMA U64Sequence == ASSUME NEW s \in Seq(Nat) PROVE Sequence(u64bytes(s))
<1> DEFINE pairs == [k \in DOMAIN s |-> <<s[k] % (MaxU32 + 1), s[k] \div (MaxU32 + 1)>>]
<1>1. DOMAIN s = 1..Len(s) /\ Len(s) \in Nat
  OBVIOUS
<1>2. pairs = [k \in 1..Len(s) |-> pairs[k]]
  BY <1>1
<1>3. u64bytes(s) = Blocks(pairs, 2)
  BY DEF u64bytes
<1> HIDE DEF pairs
<1>4. Len(pairs) \in Nat
  BY <1>1, <1>2, FunctionIsSequence
<1> QED
  BY <1>3, <1>4, BlocksSequence

LEMMA PayloadSequence ==
    ASSUME NEW v \in ValsLayout PROVE Sequence(payload(BuiltMap, v))
<1>1. Len(v.direct) \in Nat /\ Len(v.ids) \in Nat /\ v.idW \in Nat
  BY DEF ValsLayout
<1>2. BuiltMap.valLen \in Nat
  BY ArtifactAssumption, WrongWidthAssumption DEF BuiltMap
<1>3. Sequence(Blocks(v.direct, BuiltMap.valLen)) /\ Sequence(Blocks(v.ids, v.idW))
  BY <1>1, <1>2, BlocksSequence
<1> QED
  BY <1>3 DEF payload

LEMMA SectionsHold == ASSUME TypeOK PROVE Payloads(sections(BuiltMap))
<1> DEFINE m == BuiltMap
           secs == sections(m)
<1>1. m.s4 = s4 /\ m.s6 = s6 /\ m.valLen = ValLen
  BY DEF BuiltMap
<1>2. s4 \in Store4 /\ s6 \in Store6
  BY DEF TypeOK
<1>3. /\ s4.idx \in Seq(0..MaxU32) /\ s4.suffix \in Seq(Nat) /\ s4.vals \in ValsLayout
      /\ s6.prefix \in Seq(Nat) /\ s6.pidx \in Seq(0..MaxU32) /\ s6.suffix \in Seq(Nat)
      /\ s6.vals \in ValsLayout
  BY <1>2 DEF Store4, Store6
<1>4. ValLen \in Nat
  BY ArtifactAssumption, WrongWidthAssumption
<1>5. Sequence(<<>>)
  BY EmptySequence
<1>6. /\ Sequence(m.s4.idx) /\ Sequence(m.s4.suffix) /\ Sequence(payload(m, m.s4.vals))
      /\ Sequence(u64bytes(m.s6.prefix)) /\ Sequence(u64bytes(m.s6.suffix))
      /\ Sequence(payload(m, m.s6.vals))
  BY <1>1, <1>3, SeqIsSequence, U64Sequence, PayloadSequence
<1>7. Sequence(SubSeq(m.s6.pidx, 1, Len(m.s6.prefix) + 1))
  <2>1. Len(s6.prefix) + 1 \in Nat
    BY <1>3
  <2> DEFINE k == Len(s6.prefix) + 1
             u == SubSeq(s6.pidx, 1, k)
  <2> HIDE DEF k
  <2>2. u = [i \in 1..k |-> s6.pidx[i]]
    BY <1>3, <2>1 DEF k
  <2>3. u = [i \in 1..k |-> u[i]]
    BY <2>2
  <2> HIDE DEF u
  <2>4. Sequence(u)
    BY <2>1, <2>3, FunctionIsSequence DEF k
  <2> QED
    BY <1>1, <2>4 DEF u, k
<1>8. Sequence(tabBytes(m))
  <2>1. Len(s4.vals.tab) \in Nat /\ Len(s6.vals.tab) \in Nat
    BY <1>3 DEF ValsLayout
  <2> QED
    BY <1>1, <1>4, <2>1, BlocksSequence DEF tabBytes
<1> HIDE DEF m
<1>9. /\ secs[1] \in {m.s4.idx, <<>>} /\ secs[2] \in {m.s4.suffix, <<>>}
      /\ secs[3] \in {payload(m, m.s4.vals), <<>>}
      /\ secs[4] \in {u64bytes(m.s6.prefix), <<>>}
      /\ secs[5] \in {SubSeq(m.s6.pidx, 1, Len(m.s6.prefix) + 1), <<>>}
      /\ secs[6] \in {u64bytes(m.s6.suffix), <<>>}
      /\ secs[7] \in {payload(m, m.s6.vals), <<>>}
      /\ secs[8] \in {tabBytes(m), <<>>}
  BY DEF sections
<1> HIDE DEF secs
<1>10. /\ Sequence(secs[1]) /\ Sequence(secs[2]) /\ Sequence(secs[3]) /\ Sequence(secs[4])
       /\ Sequence(secs[5]) /\ Sequence(secs[6]) /\ Sequence(secs[7]) /\ Sequence(secs[8])
  BY <1>5, <1>6, <1>7, <1>8, <1>9
<1>11. \A i \in Slots : i = 1 \/ i = 2 \/ i = 3 \/ i = 4 \/ i = 5 \/ i = 6 \/ i = 7 \/ i = 8
  BY DEF Slots
<1>12. \A i \in Slots : Sequence(secs[i])
  BY <1>10, <1>11
<1> QED
  BY <1>12 DEF Payloads, secs, m

LEMMA SerialisedHolds ==
    ASSUME TypeOK
    PROVE  /\ Sequence(Serialised(BuiltMap))
           /\ Len(Serialised(BuiltMap)) = Starts(Lens(sections(BuiltMap)))[9]
           /\ \A k \in 1..9 : Starts(Lens(sections(BuiltMap)))[k]
                                \in 0..Len(Serialised(BuiltMap))
<1>1. FieldCells(Fields(BuiltMap)) /\ Payloads(sections(BuiltMap))
  BY FieldsHold, SectionsHold
<1>2. /\ Sequence(Serialised(BuiltMap))
      /\ Len(Serialised(BuiltMap)) = Starts(Lens(sections(BuiltMap)))[9]
  BY <1>1, SealedHolds DEF Serialised
<1>3. \A i \in Slots : Lens(sections(BuiltMap))[i] \in Nat
  BY <1>1, SequenceHas DEF Lens, Payloads
<1>4. \A k \in 1..9 : /\ Starts(Lens(sections(BuiltMap)))[k] \in Nat
                      /\ Starts(Lens(sections(BuiltMap)))[k]
                           <= Starts(Lens(sections(BuiltMap)))[9]
  BY <1>3, StartsHold
<1> QED
  BY <1>2, <1>4

-----------------------------------------------------------------------------
(* The invariant.                                                          *)

\* Whoever reads before the writer is through finds a part of the file, and is
\* refused; nothing is on disk before Build is through.
WriterInv ==
    /\ pc # "done" => file = <<>> /\ verdict = "unread"
    /\ Part(file, Serialised(BuiltMap))
    /\ piece = 9 => file = Serialised(BuiltMap) /\ pc = "done"
    /\ TornIsRefused

\* What is damaged is a whole file, and will be refused.
DamageInv == openBytes(file) \in Refused /\ verdict \in {"unread"} \cup Refused

FileInv == /\ harm = "none" => WriterInv
           /\ harm \in {"flipped", "grown"} => DamageInv

CInv == IInv /\ FileInv

LEMMA CInvInit == CommandInit => CInv
<1> SUFFICES ASSUME CommandInit PROVE CInv
  OBVIOUS
<1>1. IInv
  BY InitIInv DEF CommandInit, ParseInit
<1>2. file = <<>> /\ verdict = "unread" /\ piece = 0 /\ harm = "none"
  BY DEF CommandInit, FileInit
<1>3. Part(file, Serialised(BuiltMap))
  BY <1>1, <1>2, SerialisedHolds, EmptyIsPart DEF IInv
<1> QED
  BY <1>1, <1>2, <1>3 DEF CInv, FileInv, WriterInv, TornIsRefused, Read

\* Every step of the command is one of the Builder, or leaves it alone.
LEMMA BuilderMoves == CommandNext => [Next]_vars
<1> SUFFICES ASSUME CommandNext PROVE [Next]_vars
  OBVIOUS
<1>1. CASE Parse
  <2>1. ASSUME NEW l \in Lines, EntryLine(l) PROVE Next
    <3> DEFINE v == Given(l, WidthAt(l))
    <3>1. l.addr \in Inputs /\ v \in Values \cup {WrongWidth}
      BY <2>1, LineAssumption DEF EntryLine, Malformed, Given
    <3>2. Add(l.addr, v) \/ AddRefused(l.addr, v)
      BY <2>1 DEF EntryLine
    <3> HIDE DEF v
    <3> QED
      BY <3>1, <3>2 DEF Next
  <2>2. ASSUME NEW l \in Lines, Skip(l) \/ Refuse(l) \/ PanicAt(l) PROVE UNCHANGED vars
    BY <2>2 DEF Skip, Refuse, PanicAt
  <2>3. ASSUME ReadFails \/ EndOfFile \/ Return PROVE UNCHANGED vars
    BY <2>3 DEF ReadFails, EndOfFile, Return
  <2> QED
    BY <1>1, <2>1, <2>2, <2>3 DEF Parse, ParseNext
<1>2. CASE Compile
  BY <1>2 DEF Compile, Next
<1>3. CASE FileNext
  BY <1>3 DEF FileNext, WriteTo, WriteFails, OpenFile, Flip, Grow, Reseal, Harm
<1>4. CASE Foreign
  BY <1>4 DEF Foreign, Forge
<1> QED
  BY <1>1, <1>2, <1>3, <1>4 DEF CommandNext

\* Parsing and compiling come before there is a file.
LEMMA BeforeFile ==
    ASSUME CInv, IInv', pc # "done" \/ UNCHANGED vars, UNCHANGED avars
    PROVE  FileInv'
<1>1. CASE harm # "none"
  <2>1. UNCHANGED <<file, verdict, harm>>
    BY DEF avars
  <2>2. FileInv
    BY DEF CInv
  <2>3. openBytes(file)' = openBytes(file)
    BY <2>1
  <2>4. (harm \in {"flipped", "grown"} => DamageInv)'
    BY <2>1, <2>2, <2>3 DEF FileInv, DamageInv
  <2> QED
    BY <1>1, <2>1, <2>4 DEF FileInv
<1>2. CASE harm = "none" /\ pc # "done"
  <2>1. file' = <<>> /\ verdict' = "unread" /\ piece' # 9 /\ harm' = "none"
    BY <1>2 DEF CInv, FileInv, WriterInv, avars
  <2>2. TypeOK'
    BY DEF IInv
  <2>3. Part(<<>>, Serialised(BuiltMap))'
    <3>1. Sequence(Serialised(BuiltMap))'
      BY <2>2, SerialisedHolds, PTL
    <3> QED
      BY <3>1, EmptyIsPart
  <2> QED
    BY <2>1, <2>3 DEF FileInv, WriterInv, TornIsRefused, Read
<1>3. CASE harm = "none" /\ UNCHANGED vars
  <2>1. UNCHANGED <<file, piece, verdict, harm, pc, stats, s4, s6>>
    BY <1>3 DEF vars, avars, mapstate
  <2>2. FileInv
    BY DEF CInv
  <2>3. UNCHANGED Serialised(BuiltMap)
    BY <2>1 DEF BuiltMap
  <2>4. WriterInv
    BY <1>3, <2>2 DEF FileInv
  <2>5. WriterInv'
    BY <2>1, <2>3, <2>4 DEF WriterInv, TornIsRefused, Read, Whole
  <2> QED
    BY <1>3, <2>1, <2>5 DEF FileInv
<1> QED
  BY <1>1, <1>2, <1>3

\* A pass of the writer, finished or cut short, leaves a part of the file.
LEMMA WriterKeeps == ASSUME CInv, WriteTo \/ WriteFails PROVE FileInv'
<1> DEFINE whole == Serialised(BuiltMap)
           ends == Starts(Lens(sections(BuiltMap)))
<1>1. /\ pc = "done" /\ piece \in 0..8 /\ verdict = "unread" /\ harm = "none"
      /\ UNCHANGED <<vars, harm, verdict>>
  BY DEF WriteTo, WriteFails, Writing
<1>2. TypeOK
  BY DEF CInv, IInv
<1>3. /\ Sequence(whole) /\ Len(whole) \in Nat
      /\ \A k \in 1..9 : ends[k] \in 0..Len(whole)
  BY <1>2, SerialisedHolds, SequenceHas
<1>4. piece + 1 \in 1..9 /\ Len(file) \in Nat
  BY <1>1, SequenceHas DEF CInv, FileInv, WriterInv, Part
<1> HIDE DEF whole, ends
<1>4a. ends[piece + 1] \in 0..Len(whole)
  BY <1>3, <1>4
<1>5. PICK c \in 0..ends[piece + 1] : file' = SubSeq(whole, 1, c)
  <2>1. ends[piece + 1] \in Nat
    BY <1>3, <1>4a
  <2>2. CASE WriteTo
    <3>1. file' = SubSeq(whole, 1, ends[piece + 1])
      BY <2>2 DEF WriteTo, whole, ends
    <3>2. ends[piece + 1] \in 0..ends[piece + 1]
      BY <2>1
    <3> QED
      BY <3>1, <3>2
  <2>3. CASE WriteFails
    <3>1. PICK c \in Len(file)..ends[piece + 1] : file' = SubSeq(whole, 1, c)
      BY <2>3 DEF WriteFails, whole, ends
    <3>2. c \in 0..ends[piece + 1]
      BY <1>4, <2>1
    <3> QED
      BY <3>1, <3>2
  <2> QED
    BY <2>2, <2>3
<1>6. UNCHANGED whole
  BY <1>1 DEF vars, mapstate, BuiltMap, whole
<1>7. c \in 0..Len(whole)
  BY <1>3, <1>4a, <1>5
<1>8. Part(file', whole)
  BY <1>3, <1>5, <1>7, PartOf
<1>9. Part(file, Serialised(BuiltMap))'
  BY <1>6, <1>8 DEF whole
<1>10. pc' = "done" /\ verdict' = "unread" /\ harm' = "none"
  BY <1>1 DEF vars
<1>11. piece' = 9 => file' = Serialised(BuiltMap)'
  <2>1. CASE WriteTo /\ piece = 8
    <3>1. ends[9] = Len(whole)
      BY <1>2, SerialisedHolds DEF ends, whole
    <3>2. file' = SubSeq(whole, 1, ends[9])
      BY <2>1 DEF WriteTo, whole, ends
    <3>3. Len(whole) \in 0..Len(whole)
      BY <1>3
    <3>4. Part(file', whole) /\ Len(file') = Len(whole)
      BY <1>3, <3>1, <3>2, <3>3, PartOf
    <3>5. file' = whole
      BY <1>3, <3>4, SameSequence DEF Part
    <3> QED
      BY <1>6, <3>5 DEF whole
  <2>2. CASE WriteTo /\ piece # 8
    BY <1>1, <2>2 DEF WriteTo
  <2>3. CASE WriteFails
    BY <2>3 DEF WriteFails
  <2> QED
    BY <2>1, <2>2, <2>3
<1> QED
  BY <1>9, <1>10, <1>11 DEF FileInv, WriterInv, TornIsRefused, Read

\* A reader finds the whole file, or is refused.
LEMMA ReaderKeeps == ASSUME CInv, OpenFile PROVE FileInv'
<1>1. /\ pc # "done" => file # <<>>
      /\ verdict' = openBytes(file)
      /\ UNCHANGED <<vars, file, piece, harm>>
  BY DEF OpenFile
<1>2. FileInv
  BY DEF CInv
<1>3. CASE harm = "none"
  <2>1. WriterInv
    BY <1>2, <1>3 DEF FileInv
  <2>2. pc = "done" /\ Part(file, Serialised(BuiltMap))
    BY <1>1, <2>1 DEF WriterInv
  <2>3. UNCHANGED Serialised(BuiltMap) /\ UNCHANGED pc
    BY <1>1 DEF vars, mapstate, BuiltMap
  <2>4. file # Serialised(BuiltMap) => openBytes(file) \in Refused
    BY <2>2, FieldsHold, SectionsHold, Torn DEF CInv, IInv, Serialised
  <2>5. WriterInv'
    BY <1>1, <2>1, <2>2, <2>3, <2>4 DEF WriterInv, TornIsRefused, Whole
  <2> QED
    BY <1>1, <1>3, <2>5 DEF FileInv
<1>4. CASE harm # "none"
  <2>1. openBytes(file)' = openBytes(file)
    BY <1>1
  <2>2. (harm \in {"flipped", "grown"} => DamageInv)'
    BY <1>1, <1>2, <2>1 DEF FileInv, DamageInv
  <2> QED
    BY <1>1, <1>4, <2>2 DEF FileInv
<1> QED
  BY <1>3, <1>4

\* Damage befalls a whole file that nobody has read.
LEMMA DamageKeeps == ASSUME CInv, Flip \/ Grow PROVE FileInv'
<1>1. /\ piece = 9 /\ harm = "none" /\ verdict = "unread" /\ verdict' = verdict
      /\ harm' # "none"
  BY DEF Flip, Grow, Harm
<1>2. file = Serialised(BuiltMap)
  BY <1>1 DEF CInv, FileInv, WriterInv
<1> DEFINE fields == Fields(BuiltMap)
           secs == sections(BuiltMap)
<1>3. FieldCells(fields) /\ Payloads(secs)
  BY FieldsHold, SectionsHold DEF CInv, IInv
<1>4. file = Sealed(fields, secs)
  BY <1>2 DEF Serialised
<1> HIDE DEF fields, secs
<1>5. openBytes(file') \in Refused
  <2>1. CASE Flip
    <3>1. PICK k \in DOMAIN file : \E c \in Other(k) : file' = [file EXCEPT ![k] = c]
      BY <2>1 DEF Flip
    <3>2. PICK c \in Other(k) : file' = [file EXCEPT ![k] = c]
      BY <3>1
    <3>3. c # file[k]
      BY <1>3, <1>4, OtherDiffers
    <3> QED
      BY <1>3, <1>4, <3>2, <3>3, FlippedRefused
  <2>2. CASE Grow
    <3>1. PICK k \in 1..Align : file' = file \o Zeros(k)
      BY <2>2 DEF Grow
    <3>2. k \in Nat \ {0}
      BY <3>1, ArtifactAssumption
    <3> QED
      BY <1>3, <1>4, <3>1, <3>2, GrownRefused
  <2> QED
    BY <2>1, <2>2
<1>6. openBytes(file)' \in Refused
  BY <1>5
<1> QED
  BY <1>1, <1>6 DEF FileInv, DamageInv

LEMMA CInvNext == CInv /\ [CommandNext]_<<pvars, avars>> => CInv'
<1> SUFFICES ASSUME CInv, [CommandNext]_<<pvars, avars>> PROVE CInv'
  OBVIOUS
<1>1. [Next]_vars
  BY BuilderMoves DEF pvars
<1>2. IInv'
  BY <1>1, NextIInv DEF CInv
<1>3. CASE Parse
  <2>1. pc # "done" \/ UNCHANGED vars
    <3>1. built <=> pc # "open"
      BY DEF CInv, IInv, TypeOK
    <3>2. ASSUME NEW l \in Lines, EntryLine(l) PROVE ~built
      BY <3>2 DEF EntryLine, Add, AddRefused
    <3>3. ASSUME NEW l \in Lines, Skip(l) \/ Refuse(l) \/ PanicAt(l) PROVE UNCHANGED vars
      BY <3>3 DEF Skip, Refuse, PanicAt
    <3>4. ASSUME ReadFails \/ EndOfFile \/ Return PROVE UNCHANGED vars
      BY <3>4 DEF ReadFails, EndOfFile, Return
    <3> QED
      BY <1>3, <3>1, <3>2, <3>3, <3>4 DEF Parse, ParseNext
  <2> QED
    BY <1>2, <1>3, <2>1, BeforeFile DEF Parse, CInv
<1>4. CASE Compile
  <2>1. pc # "done"
    <3>1. built <=> pc # "open"
      BY DEF CInv, IInv, TypeOK
    <3>2. Build => ~built
      BY DEF Build
    <3>3. BuildStep => pc # "done"
      BY DEF BuildStep, Sort4, Dedupe4, Deduped4, Count4, Sum4, Fill4, Filled4, Sort6,
             Dedupe6, Deduped6, Fill6, Filled6, Release
    <3> QED
      BY <1>4, <3>1, <3>2, <3>3 DEF Compile
  <2> QED
    BY <1>2, <1>4, <2>1, BeforeFile DEF Compile, CInv
<1>5. CASE FileNext
  <2>1. CASE WriteTo \/ WriteFails
    BY <1>2, <2>1, WriterKeeps DEF CInv
  <2>2. CASE OpenFile
    BY <1>2, <2>2, ReaderKeeps DEF CInv
  <2>3. CASE Flip \/ Grow
    BY <1>2, <2>3, DamageKeeps DEF CInv
  <2>4. CASE Reseal
    BY <1>2, <2>4 DEF Reseal, Harm, CInv, FileInv
  <2> QED
    BY <1>5, <2>1, <2>2, <2>3, <2>4 DEF FileNext
<1>6. CASE Foreign
  BY <1>2, <1>6 DEF Foreign, Forge, CInv, FileInv
<1>7. CASE UNCHANGED <<pvars, avars>>
  BY <1>2, <1>7, BeforeFile DEF pvars, CInv
<1> QED
  BY <1>3, <1>4, <1>5, <1>6, <1>7 DEF CommandNext

(* An artifact whose writing stopped early, at any cell of the header, a   *)
(* section or its padding, is refused and does not crash whoever opens it, *)
(* for every spec, value width, alignment and word size.                   *)
THEOREM UnfinishedRefused == Command => []TornIsRefused
<1>1. CInv => TornIsRefused
  BY DEF CInv, FileInv, WriterInv, TornIsRefused
<1> QED
  BY <1>1, CInvInit, CInvNext, PTL DEF Command

(* No cell of an artifact escapes the checks: one changed anywhere in the  *)
(* header, the table, a section or its padding, or zeros after the end,    *)
(* are an error for whoever opens it, for every spec.                      *)
THEOREM DamageRefused == Command => []DamageIsRefused
<1>1. CInv => DamageIsRefused
  BY DEF CInv, FileInv, DamageInv, DamageIsRefused, Read
<1> QED
  BY <1>1, CInvInit, CInvNext, PTL DEF Command

(* A build whose spec came from a text never panics in the Builder.        *)
THEOREM CompileNeverPanics == Command => []NeverPanics
<1>1. CInv => NeverPanics
  BY DEF CInv, IInv
<1> QED
  BY <1>1, CInvInit, CInvNext, PTL DEF Command

-----------------------------------------------------------------------------
(* The parser.  What a text t says of its lines, and what a history L of   *)
(* accepted Adds has of them.                                              *)

EntriesIn(t, k) == {j \in 1..k : t[j].fields # 0}

GoodIn(t, k) ==
    t[k].fields # 0 =>
      /\ ~Malformed(t[k])
      /\ NamesHost(t[k].addr)
      /\ t[k].width \in 1..MaxValLen
      /\ t[k].width = t[Min(EntriesIn(t, k))].width
      /\ Cardinality(EntriesIn(t, k)) <= MaxU32

HasEntries(L, t) ==
    /\ Len(L) = Cardinality(EntriesIn(t, Len(t)))
    /\ \A k \in DOMAIN t : t[k].fields # 0 => L[Cardinality(EntriesIn(t, k))] = PutOf(t[k])

(* The entry lines among the first k are finitely many, and the k-th is    *)
(* counted among them.                                                     *)
LEMMA EntriesCount ==
    ASSUME NEW t \in Seq(Lines), NEW k \in 0..Len(t)
    PROVE  /\ IsFiniteSet(EntriesIn(t, k)) /\ Cardinality(EntriesIn(t, k)) \in Nat
           /\ EntriesIn(t, k) \in SUBSET Nat
           /\ Cardinality(EntriesIn(t, k)) = 0 <=> EntriesIn(t, k) = {}
           /\ \A j \in 0..k : Cardinality(EntriesIn(t, j)) <= Cardinality(EntriesIn(t, k))
<1>1. IsFiniteSet(1..k)
  BY FS_Interval
<1>2. EntriesIn(t, k) \in SUBSET (1..k)
  BY DEF EntriesIn
<1>3. IsFiniteSet(EntriesIn(t, k))
  BY <1>1, <1>2, FS_Subset
<1>4. Cardinality(EntriesIn(t, k)) \in Nat
  BY <1>3, FS_CardinalityType
<1>5. Cardinality(EntriesIn(t, k)) = 0 <=> EntriesIn(t, k) = {}
  BY <1>3, FS_EmptySet
<1>6. ASSUME NEW j \in 0..k PROVE Cardinality(EntriesIn(t, j)) <= Cardinality(EntriesIn(t, k))
  <2>1. EntriesIn(t, j) \in SUBSET EntriesIn(t, k)
    BY DEF EntriesIn
  <2> QED
    BY <1>3, <2>1, FS_Subset
<1> QED
  BY <1>2, <1>3, <1>4, <1>5, <1>6

\* What a text u is that has the line l after the text t.
LineAdded(u, t, l) ==
    /\ u \in Seq(Lines) /\ Len(u) = Len(t) + 1 /\ u[Len(u)] = l
    /\ \A k \in 1..Len(t) : u[k] = t[k]
    /\ \A k \in 0..Len(t) : EntriesIn(u, k) = EntriesIn(t, k)
    /\ EntriesIn(u, Len(u)) = IF l.fields = 0 THEN EntriesIn(t, Len(t))
                              ELSE EntriesIn(t, Len(t)) \cup {Len(u)}
    /\ Cardinality(EntriesIn(u, Len(u)))
         = Cardinality(EntriesIn(t, Len(t))) + IF l.fields = 0 THEN 0 ELSE 1
    /\ \A k \in 1..Len(t) : GoodIn(u, k) <=> GoodIn(t, k)

(* One more line leaves what the lines before it say.                      *)
LEMMA LineAdds ==
    ASSUME NEW t \in Seq(Lines), NEW l \in Lines, NEW u, u = Append(t, l)
    PROVE  LineAdded(u, t, l)
<1> DEFINE m == Len(t)
<1>1. u \in Seq(Lines) /\ Len(u) = m + 1 /\ u[m + 1] = l /\ \A k \in 1..m : u[k] = t[k]
  OBVIOUS
<1>2. m \in Nat
  OBVIOUS
<1> HIDE DEF m
<1>3. \A k \in 0..m : EntriesIn(u, k) = EntriesIn(t, k)
  BY <1>1, <1>2 DEF EntriesIn
<1>4. EntriesIn(u, m + 1) = IF l.fields = 0 THEN EntriesIn(t, m)
                            ELSE EntriesIn(t, m) \cup {m + 1}
  BY <1>1, <1>2 DEF EntriesIn
<1>5. m + 1 \notin EntriesIn(t, m)
  BY <1>2 DEF EntriesIn
<1>6. IsFiniteSet(EntriesIn(t, m)) /\ Cardinality(EntriesIn(t, m)) \in Nat
  BY EntriesCount DEF m
<1>7. Cardinality(EntriesIn(u, m + 1))
        = Cardinality(EntriesIn(t, m)) + IF l.fields = 0 THEN 0 ELSE 1
  <2>1. CASE l.fields = 0
    BY <1>4, <1>6, <2>1
  <2>2. CASE l.fields # 0
    BY <1>4, <1>5, <1>6, <2>2, FS_AddElement
  <2> QED
    BY <2>1, <2>2
<1>8. ASSUME NEW k \in 1..m PROVE GoodIn(u, k) <=> GoodIn(t, k)
  <2>1. k \in 0..m /\ u[k] = t[k] /\ EntriesIn(u, k) = EntriesIn(t, k)
    BY <1>1, <1>2, <1>3
  <2>2. t[k].fields # 0 => u[Min(EntriesIn(t, k))] = t[Min(EntriesIn(t, k))]
    <3> HAVE t[k].fields # 0
    <3>1. k \in EntriesIn(t, k) /\ EntriesIn(t, k) \in SUBSET Nat
      BY <1>2 DEF EntriesIn
    <3>2. Min(EntriesIn(t, k)) \in EntriesIn(t, k)
      BY <3>1, MinIs
    <3>3. Min(EntriesIn(t, k)) \in 1..m
      BY <1>2, <3>2 DEF EntriesIn
    <3> QED
      BY <1>1, <3>3
  <2> QED
    BY <2>1, <2>2 DEF GoodIn
<1> QED
  BY <1>1, <1>3, <1>4, <1>7, <1>8 DEF m, LineAdded

(* The first entry of a text stays the first, and the first one of a text  *)
(* without entries is the line that is added.                              *)
LEMMA FirstStaysFirst ==
    ASSUME NEW t \in Seq(Lines), NEW l \in Lines, NEW u, u = Append(t, l)
    PROVE  /\ EntriesIn(t, Len(t)) # {} =>
                u[Min(EntriesIn(u, Len(u)))] = t[Min(EntriesIn(t, Len(t)))]
           /\ EntriesIn(t, Len(t)) = {} /\ l.fields # 0 => u[Min(EntriesIn(u, Len(u)))] = l
<1> DEFINE E == EntriesIn(t, Len(t))
           F == EntriesIn(u, Len(u))
<1>0. /\ Len(u) = Len(t) + 1 /\ u[Len(u)] = l
      /\ \A k \in 1..Len(t) : u[k] = t[k]
      /\ EntriesIn(u, Len(u)) = IF l.fields = 0 THEN EntriesIn(t, Len(t))
                                ELSE EntriesIn(t, Len(t)) \cup {Len(u)}
  <2>1. LineAdded(u, t, l)
    BY LineAdds
  <2> QED
    BY ONLY <2>1 DEF LineAdded
<1>1. /\ Len(t) \in Nat /\ Len(u) = Len(t) + 1 /\ u[Len(u)] = l
      /\ \A k \in 1..Len(t) : u[k] = t[k]
      /\ F = IF l.fields = 0 THEN E ELSE E \cup {Len(u)}
  BY <1>0
<1>2. \A k \in E : k \in 1..Len(t)
  BY DEF EntriesIn
<1>3. E \in SUBSET Nat /\ F \in SUBSET Nat
  BY <1>1, <1>2
<1> HIDE DEF E, F
<1>4. ASSUME E # {} PROVE u[Min(F)] = t[Min(E)]
  <2>1. Min(E) \in E /\ \A k \in E : Min(E) <= k
    BY <1>3, <1>4, MinIs
  <2>2. Min(F) \in F /\ \A k \in F : Min(F) <= k
    BY <1>1, <1>3, <1>4, MinIs
  <2>3. Min(E) \in 1..Len(t) /\ Min(E) < Len(u)
    BY <1>1, <1>2, <2>1
  <2>4. Min(E) \in F
    BY <1>1, <2>1
  <2>5. Min(F) <= Min(E)
    BY <2>2, <2>4
  <2>6. Min(F) \in E
    BY <1>1, <1>3, <2>2, <2>3, <2>5
  <2>7. Min(F) = Min(E)
    <3>1. Min(E) \in Nat /\ Min(F) \in Nat /\ Min(E) <= Min(F)
      BY <1>3, <2>1, <2>6
    <3> QED
      BY <2>5, <3>1
  <2> QED
    BY <1>1, <2>3, <2>7
<1>5. ASSUME E = {}, l.fields # 0 PROVE u[Min(F)] = l
  <2>1. F = {Len(u)}
    BY <1>1, <1>5
  <2>2. Min(F) \in F
    BY <1>3, <2>1, MinIs
  <2> QED
    BY <1>1, <2>1, <2>2
<1> QED
  BY <1>4, <1>5 DEF E, F

(* A history has the entries of a text with one more entry when that is    *)
(* its last put, and those of a text with one more blank as it is.         *)
LEMMA HistoryAdds ==
    ASSUME NEW t \in Seq(Lines), NEW l \in Lines, NEW u, u = Append(t, l),
           NEW L \in Seq(PutRecords), HasEntries(L, t)
    PROVE  /\ l.fields = 0 => HasEntries(L, u)
           /\ l.fields # 0 /\ PutOf(l) \in PutRecords => HasEntries(Append(L, PutOf(l)), u)
<1>0. /\ u \in Seq(Lines) /\ Len(u) = Len(t) + 1 /\ u[Len(u)] = l
      /\ \A k \in 1..Len(t) : u[k] = t[k]
      /\ \A k \in 0..Len(t) : EntriesIn(u, k) = EntriesIn(t, k)
      /\ Cardinality(EntriesIn(u, Len(u)))
           = Cardinality(EntriesIn(t, Len(t))) + IF l.fields = 0 THEN 0 ELSE 1
  <2>1. LineAdded(u, t, l)
    BY LineAdds
  <2> QED
    BY ONLY <2>1 DEF LineAdded
<1>1. /\ u \in Seq(Lines) /\ Len(t) \in Nat /\ Len(u) = Len(t) + 1 /\ u[Len(u)] = l
      /\ \A k \in 1..Len(t) : u[k] = t[k]
      /\ \A k \in 0..Len(t) : EntriesIn(u, k) = EntriesIn(t, k)
      /\ Cardinality(EntriesIn(u, Len(u)))
           = Cardinality(EntriesIn(t, Len(t))) + IF l.fields = 0 THEN 0 ELSE 1
  BY <1>0
<1>2. DOMAIN u = 1..Len(u) /\ DOMAIN t = 1..Len(t)
  BY <1>1
<1>3. Len(L) = Cardinality(EntriesIn(t, Len(t))) /\ Len(L) \in Nat
  BY DEF HasEntries
<1>4. ASSUME NEW k \in 1..Len(t), t[k].fields # 0
      PROVE  /\ Cardinality(EntriesIn(u, k)) \in 1..Len(L)
             /\ L[Cardinality(EntriesIn(u, k))] = PutOf(u[k])
  <2>1. k \in 0..Len(t) /\ EntriesIn(u, k) = EntriesIn(t, k) /\ u[k] = t[k]
    BY <1>1
  <2>2. k \in EntriesIn(t, k)
    BY <1>1, <1>4 DEF EntriesIn
  <2>3. Cardinality(EntriesIn(t, k)) \in Nat /\ Cardinality(EntriesIn(t, k)) # 0
    BY <2>1, <2>2, EntriesCount
  <2>4. Len(t) \in 0..Len(t)
    BY <1>1
  <2>5. Cardinality(EntriesIn(t, k)) <= Cardinality(EntriesIn(t, Len(t)))
    BY <2>1, <2>4, EntriesCount
  <2>6. L[Cardinality(EntriesIn(t, k))] = PutOf(t[k])
    BY <1>2, <1>4 DEF HasEntries
  <2> QED
    BY <1>3, <2>1, <2>3, <2>5, <2>6
<1>5. l.fields = 0 => HasEntries(L, u)
  <2> HAVE l.fields = 0
  <2>1. Len(L) = Cardinality(EntriesIn(u, Len(u)))
    BY <1>1, <1>3
  <2>2. ASSUME NEW k \in 1..Len(u), u[k].fields # 0
        PROVE  L[Cardinality(EntriesIn(u, k))] = PutOf(u[k])
    <3>1. k # Len(u)
      BY <1>1, <2>2
    <3>2. k \in 1..Len(t)
      BY <1>1, <3>1
    <3> QED
      BY <1>1, <1>4, <2>2, <3>2
  <2> QED
    BY <1>2, <2>1, <2>2 DEF HasEntries
<1>6. ASSUME l.fields # 0, PutOf(l) \in PutRecords
      PROVE  HasEntries(Append(L, PutOf(l)), u)
  <2> DEFINE put == PutOf(l)
             M == Append(L, put)
  <2>1. Len(M) = Len(L) + 1 /\ M[Len(L) + 1] = put /\ \A i \in 1..Len(L) : M[i] = L[i]
    BY <1>3
  <2> HIDE DEF M
  <2>2. Len(M) = Cardinality(EntriesIn(u, Len(u)))
    BY <1>1, <1>3, <1>6, <2>1
  <2>3. ASSUME NEW k \in 1..Len(u), u[k].fields # 0
        PROVE  M[Cardinality(EntriesIn(u, k))] = PutOf(u[k])
    <3>1. CASE k = Len(u)
      BY <1>1, <1>6, <2>1, <2>2, <3>1
    <3>2. CASE k # Len(u)
      <4>1. k \in 1..Len(t)
        BY <1>1, <3>2
      <4> QED
        BY <1>1, <1>4, <2>1, <2>3, <4>1
    <3> QED
      BY <3>1, <3>2
  <2> QED
    BY <1>2, <2>2, <2>3 DEF HasEntries, M
<1> QED
  BY <1>5, <1>6

BadIn(t) == {k \in DOMAIN t : ~GoodIn(t, k)}

ErrorsIn(t, o) ==
    IF BadIn(t) = {} THEN o.is # "panic" /\ o.line = 0
    ELSE /\ BadIn(t) = {Len(t)}
         /\ o.is \in {"error", "panic"}
         /\ o.is = "error" => o.line = Len(t)

WholeIn(t, o, s, L) == o.is = "ok" => s = "ended" /\ L # <<>> /\ HasEntries(L, t)

(* The properties of the parser, by what they say of the text, the outcome *)
(* and the history (parseSpec in app/ipmap/main.go).                       *)
LEMMA ErrorsIs == ErrorsNameFirstBadLine <=> ErrorsIn(text, outcome)
<1>1. BadLines = BadIn(text)
  BY DEF BadLines, BadIn, GoodLine, GoodIn, EntriesTo, EntryAt, EntriesIn
<1> QED
  BY <1>1 DEF ErrorsNameFirstBadLine, ErrorsIn

(* The same for what a success means (parseSpec in app/ipmap/main.go).     *)
LEMMA WholeIs == SuccessIsWhole <=> WholeIn(text, outcome, src, log)
  BY DEF SuccessIsWhole, WholeIn, HasEntries, EntriesTo, EntryAt, EntriesIn

(* A further line is the only one that can be bad.                         *)
LEMMA BadAdds ==
    ASSUME NEW t \in Seq(Lines), NEW l \in Lines, NEW u, u = Append(t, l), BadIn(t) = {}
    PROVE  BadIn(u) = IF GoodIn(u, Len(u)) THEN {} ELSE {Len(u)}
<1>1. LineAdded(u, t, l)
  BY LineAdds
<1>2. /\ u \in Seq(Lines) /\ Len(t) \in Nat /\ Len(u) = Len(t) + 1
      /\ \A k \in 1..Len(t) : GoodIn(u, k) <=> GoodIn(t, k)
  BY <1>1 DEF LineAdded
<1>3. \A k \in 1..Len(t) : GoodIn(t, k)
  BY DEF BadIn
<1>4. DOMAIN u = 1..Len(u)
  BY <1>2
<1>5. \A k \in DOMAIN u : k # Len(u) => GoodIn(u, k)
  BY <1>2, <1>3, <1>4
<1>6. Len(u) \in DOMAIN u
  BY <1>2, <1>4
<1> QED
  BY <1>5, <1>6 DEF BadIn

-----------------------------------------------------------------------------
(* The invariant of the parser.  While it runs every line was good, the    *)
(* history has the entries, and the width is that of the first of them:    *)
(* that is what makes its verdict on the next line the one the text calls  *)
(* for.                                                                    *)
ParserInv ==
    /\ ParseTypeOK /\ lineNo = Len(text)
    /\ outcome = Running =>
         /\ BadIn(text) = {}
         /\ HasEntries(log, text)
         /\ valLen = 0 <=> EntriesIn(text, Len(text)) = {}
         /\ valLen # 0 => valLen = text[Min(EntriesIn(text, Len(text)))].width
    /\ ErrorsIn(text, outcome)
    /\ WholeIn(text, outcome, src, log)

(* A parser that has read nothing has nothing to object to.                *)
LEMMA InitParserInv == ParseInit => ParserInv
<1> SUFFICES ASSUME ParseInit PROVE ParserInv
  OBVIOUS
<1>1. /\ src = "open" /\ lineNo = 0 /\ valLen = 0 /\ outcome = Running /\ text = <<>>
      /\ log = <<>>
  BY DEF ParseInit, Init
<1>2. ParseTypeOK
  <2>1. MaxLines \in Nat /\ MaxValLen \in Nat
    BY LineAssumption, WrongWidthAssumption
  <2> QED
    BY <1>1, <2>1 DEF ParseTypeOK, Outcomes
<1>3. Len(text) = 0 /\ DOMAIN text = {} /\ Len(log) = 0
  BY <1>1
<1>4. EntriesIn(text, Len(text)) = {}
  BY <1>3 DEF EntriesIn
<1>5. HasEntries(log, text)
  BY <1>3, <1>4, FS_EmptySet DEF HasEntries
<1>6. BadIn(text) = {}
  BY <1>3 DEF BadIn
<1> QED
  BY <1>1, <1>2, <1>3, <1>4, <1>5, <1>6 DEF ParserInv, ErrorsIn, WholeIn, Running

(* An entry line is good when parseSpec and Add accept it: it is well      *)
(* formed, its address names a host, its value has the width of the first  *)
(* entry, and the Builder is not full.                                     *)
LEMMA Judgement ==
    ASSUME IInv, Logged, ParserInv, outcome = Running, NEW l \in Lines, l.fields # 0,
           NEW u, u = Append(text, l)
    PROVE  /\ u[Min(EntriesIn(u, Len(u)))].width = WidthAt(l)
           /\ GoodIn(u, Len(u)) <=> /\ ~Malformed(l) /\ NamesHost(l.addr)
                                    /\ l.width \in 1..MaxValLen
                                    /\ l.width = WidthAt(l)
                                    /\ n < MaxU32
<1>1. text \in Seq(Lines)
  BY DEF ParserInv, ParseTypeOK
<1>2. LineAdded(u, text, l)
  BY <1>1, LineAdds
<1>3. /\ u[Len(u)] = l
      /\ Cardinality(EntriesIn(u, Len(u))) = Cardinality(EntriesIn(text, Len(text))) + 1
  BY <1>2 DEF LineAdded
<1>4. n = Cardinality(EntriesIn(text, Len(text))) /\ n \in Nat
  BY DEF Logged, ParserInv, HasEntries, IInv, TypeOK
<1>5. u[Min(EntriesIn(u, Len(u)))].width = WidthAt(l)
  <2>1. CASE EntriesIn(text, Len(text)) = {}
    <3>1. u[Min(EntriesIn(u, Len(u)))] = l
      BY <1>1, <2>1, FirstStaysFirst
    <3>2. valLen = 0
      BY <2>1 DEF ParserInv
    <3> QED
      BY <3>1, <3>2 DEF WidthAt
  <2>2. CASE EntriesIn(text, Len(text)) # {}
    <3>1. u[Min(EntriesIn(u, Len(u)))] = text[Min(EntriesIn(text, Len(text)))]
      BY <1>1, <2>2, FirstStaysFirst
    <3>2. valLen # 0 /\ valLen = text[Min(EntriesIn(text, Len(text)))].width
      BY <2>2 DEF ParserInv
    <3> QED
      BY <3>1, <3>2 DEF WidthAt
  <2> QED
    BY <2>1, <2>2
<1>6. Cardinality(EntriesIn(u, Len(u))) <= MaxU32 <=> n < MaxU32
  BY <1>3, <1>4, WidthAssumption
<1> QED
  BY <1>3, <1>5, <1>6 DEF GoodIn

(* A line that is scanned is counted, and the text has it.                 *)
LEMMA Scans ==
    ASSUME ParserInv, NEW l \in Lines, Scan(l)
    PROVE  /\ outcome = Running /\ text' = Append(text, l) /\ text' \in Seq(Lines)
           /\ text \in Seq(Lines) /\ BadIn(text) = {}
           /\ lineNo' = Len(text') /\ lineNo' \in 0..MaxLines
           /\ src' \in {"open", "torn", "failed", "ended"}
           /\ valLen \in 0..MaxValLen
<1>1. /\ outcome = Running /\ src \in {"open", "torn"} /\ Len(text) < MaxLines
      /\ lineNo' = lineNo + 1 /\ text' = Append(text, l)
      /\ src' = IF src = "torn" THEN "failed" ELSE src
  BY DEF Scan
<1>2. /\ text \in Seq(Lines) /\ lineNo = Len(text) /\ BadIn(text) = {} /\ valLen \in 0..MaxValLen
  BY <1>1 DEF ParserInv, ParseTypeOK
<1>3. LineAdded(text', text, l)
  BY <1>1, <1>2, LineAdds
<1>4. text' \in Seq(Lines) /\ Len(text') = Len(text) + 1
  BY <1>3 DEF LineAdded
<1>5. MaxLines \in Nat /\ Len(text) \in Nat
  BY <1>2, LineAssumption
<1> QED
  BY <1>1, <1>2, <1>4, <1>5

(* A line that stops the parser is the first bad one, and the error names  *)
(* it.                                                                     *)
LEMMA StopsHere ==
    ASSUME ParserInv, NEW l \in Lines, Scan(l), ~GoodIn(text', Len(text')),
           outcome' \in {Err(lineNo'), [is |-> "panic", line |-> 0]},
           valLen' \in 0..MaxValLen
    PROVE  ParserInv'
<1>1. /\ outcome = Running /\ text' = Append(text, l) /\ text' \in Seq(Lines)
      /\ text \in Seq(Lines) /\ BadIn(text) = {}
      /\ lineNo' = Len(text') /\ lineNo' \in 0..MaxLines
      /\ src' \in {"open", "torn", "failed", "ended"}
  BY Scans
<1>2. BadIn(text') = {Len(text')}
  BY <1>1, BadAdds
<1>3. /\ outcome' # Running /\ outcome'.is \in {"error", "panic"}
      /\ outcome'.is = "error" => outcome'.line = Len(text')
      /\ outcome' \in Outcomes
  BY <1>1 DEF Running, Err, Outcomes
<1>4. ParseTypeOK'
  BY <1>1, <1>3 DEF ParseTypeOK
<1> QED
  BY <1>1, <1>2, <1>3, <1>4 DEF ParserInv, ErrorsIn, WholeIn

(* Blanks and comments are counted, and nothing else comes of them.        *)
LEMMA SkipParserInv == ASSUME IInv, ParserInv, NEW l \in Lines, Skip(l) PROVE ParserInv'
<1>1. Scan(l) /\ l.fields = 0 /\ UNCHANGED <<vars, valLen, outcome>>
  BY DEF Skip
<1>2. /\ outcome = Running /\ text' = Append(text, l) /\ text' \in Seq(Lines)
      /\ text \in Seq(Lines) /\ BadIn(text) = {}
      /\ lineNo' = Len(text') /\ lineNo' \in 0..MaxLines
      /\ src' \in {"open", "torn", "failed", "ended"}
  BY <1>1, Scans
<1>3. BadIn(text') = {}
  <2>1. LineAdded(text', text, l)
    BY <1>2, LineAdds
  <2>2. GoodIn(text', Len(text'))
    BY <1>1, <2>1 DEF GoodIn, LineAdded
  <2> QED
    BY <1>2, <2>2, BadAdds
<1>4. EntriesIn(text', Len(text')) = EntriesIn(text, Len(text))
  <2>1. LineAdded(text', text, l)
    BY <1>2, LineAdds
  <2> QED
    BY <1>1, <2>1 DEF LineAdded
<1>5. valLen # 0 => valLen' = text'[Min(EntriesIn(text', Len(text')))].width
  <2> HAVE valLen # 0
  <2>1. EntriesIn(text, Len(text)) # {} /\ valLen = text[Min(EntriesIn(text, Len(text)))].width
    BY <1>2 DEF ParserInv
  <2>2. text'[Min(EntriesIn(text', Len(text')))] = text[Min(EntriesIn(text, Len(text)))]
    BY <1>2, <2>1, FirstStaysFirst
  <2> QED
    BY <1>1, <2>1, <2>2
<1>6. HasEntries(log', text')
  <2>1. log' = log
    BY <1>1 DEF vars
  <2>2. log \in Seq(PutRecords) /\ HasEntries(log, text)
    BY <1>2 DEF IInv, TypeOK, PutRecords, ParserInv
  <2>3. HasEntries(log, text')
    BY <1>1, <1>2, <2>2, HistoryAdds
  <2> QED
    BY <2>1, <2>3
<1>7. ParseTypeOK'
  BY <1>1, <1>2 DEF ParserInv, ParseTypeOK
<1> QED
  BY <1>1, <1>2, <1>3, <1>4, <1>5, <1>6, <1>7 DEF ParserInv, ErrorsIn, WholeIn, Running


(* Add takes the entry of a line exactly when the text calls it good.      *)
LEMMA AddJudges ==
    ASSUME IInv, Logged, ParserInv, outcome = Running, NEW l \in Lines, l.fields # 0,
           ~Malformed(l), ValidWidth(WidthAt(l)), NEW u, u = Append(text, l)
    PROVE  GoodIn(u, Len(u)) <=> Refusal(l.addr, Given(l, WidthAt(l))) = "ok"
<1>1. GoodIn(u, Len(u)) <=> /\ ~Malformed(l) /\ NamesHost(l.addr)
                            /\ l.width \in 1..MaxValLen
                            /\ l.width = WidthAt(l)
                            /\ n < MaxU32
  BY Judgement
<1>2. l.val \in Values /\ WrongWidth \notin Values
  BY LineAssumption, WrongWidthAssumption DEF Malformed
<1>3. Given(l, WidthAt(l)) = WrongWidth <=> l.width # WidthAt(l)
  BY <1>2 DEF Given
<1>4. l.addr \in Inputs /\ l.addr.zone \in BOOLEAN
  BY LineAssumption, InputAssumption DEF Malformed
<1>5. n \in Nat /\ MaxU32 \in Nat
  BY WidthAssumption DEF IInv, TypeOK
<1>6. Refusal(l.addr, Given(l, WidthAt(l))) = "ok" <=>
        /\ NamesHost(l.addr) /\ l.width = WidthAt(l) /\ n < MaxU32
  BY <1>3, <1>4, <1>5 DEF Refusal, NamesHost
<1> QED
  BY <1>1, <1>6 DEF ValidWidth

(* A line that is refused is a bad one.                                    *)
LEMMA RefuseParserInv ==
    ASSUME IInv, Logged, ParserInv, NEW l \in Lines, Refuse(l) PROVE ParserInv'
<1>1. /\ Scan(l) /\ l.fields # 0 /\ outcome' = Err(lineNo') /\ valLen' = valLen
      /\ Malformed(l) \/ l.width = 0
  BY DEF Refuse
<1>2. outcome = Running /\ text' = Append(text, l) /\ valLen \in 0..MaxValLen
  BY <1>1, Scans
<1>3. GoodIn(text', Len(text')) => ~Malformed(l) /\ l.width \in 1..MaxValLen
  BY <1>1, <1>2, Judgement
<1>4. ~GoodIn(text', Len(text'))
  BY <1>1, <1>3
<1> QED
  BY <1>1, <1>2, <1>4, StopsHere

(* NewBuilder panics on a width the text may not have.                     *)
LEMMA PanicAtParserInv ==
    ASSUME IInv, Logged, ParserInv, NEW l \in Lines, PanicAt(l) PROVE ParserInv'
<1>1. /\ Scan(l) /\ l.fields # 0 /\ outcome' = [is |-> "panic", line |-> 0]
      /\ valLen' = valLen /\ ~ValidWidth(l.width)
  BY DEF PanicAt
<1>2. outcome = Running /\ text' = Append(text, l) /\ valLen \in 0..MaxValLen
  BY <1>1, Scans
<1>3. GoodIn(text', Len(text')) => l.width \in 1..MaxValLen
  BY <1>1, <1>2, Judgement
<1>4. ~GoodIn(text', Len(text'))
  BY <1>1, <1>3 DEF ValidWidth
<1> QED
  BY <1>1, <1>2, <1>4, StopsHere

(* An entry that Add takes is the next put, and one it refuses stops the   *)
(* parser at its line.                                                     *)
LEMMA EntryLineParserInv ==
    ASSUME IInv, IInv', Logged, ParserInv, NEW l \in Lines, EntryLine(l)
    PROVE  ParserInv'
<1> DEFINE v == Given(l, WidthAt(l))
<1>1. /\ Scan(l) /\ l.fields # 0 /\ ~Malformed(l) /\ ValidWidth(WidthAt(l))
      /\ valLen' = WidthAt(l)
      /\ \/ Add(l.addr, v) /\ outcome' = outcome
         \/ AddRefused(l.addr, v) /\ outcome' = Err(lineNo')
  BY DEF EntryLine
<1>2. /\ outcome = Running /\ text' = Append(text, l) /\ text' \in Seq(Lines)
      /\ text \in Seq(Lines) /\ BadIn(text) = {}
      /\ lineNo' = Len(text') /\ lineNo' \in 0..MaxLines
      /\ src' \in {"open", "torn", "failed", "ended"}
      /\ valLen \in 0..MaxValLen
  BY <1>1, Scans
<1>3. GoodIn(text', Len(text')) <=> Refusal(l.addr, v) = "ok"
  BY <1>1, <1>2, AddJudges
<1>4. valLen' \in 1..MaxValLen /\ MaxValLen \in Nat
  BY <1>1, WrongWidthAssumption DEF ValidWidth
<1>5. text'[Min(EntriesIn(text', Len(text')))].width = WidthAt(l)
  BY <1>1, <1>2, Judgement
<1>6. CASE AddRefused(l.addr, v) /\ outcome' = Err(lineNo')
  <2>1. ~GoodIn(text', Len(text'))
    BY <1>3, <1>6 DEF AddRefused
  <2>2. valLen' \in 0..MaxValLen
    BY <1>4
  <2> QED
    BY <1>1, <1>6, <2>1, <2>2, StopsHere
<1>7. CASE Add(l.addr, v) /\ outcome' = outcome
  <2>1. Refusal(l.addr, v) = "ok" /\ log' = Append(log, [host |-> Host(Unmap(l.addr)), val |-> v])
    BY <1>7 DEF Add
  <2>2. BadIn(text') = {}
    BY <1>2, <1>3, <2>1, BadAdds
  <2>3. l.width = WidthAt(l)
    BY <1>1, <1>2, <1>3, <2>1, Judgement
  <2>4. log' = Append(log, PutOf(l))
    BY <2>1, <2>3 DEF PutOf, Given
  <2>5. log \in Seq(PutRecords) /\ log' \in Seq(PutRecords) /\ HasEntries(log, text)
    BY <1>2 DEF IInv, TypeOK, PutRecords, ParserInv
  <2>6. PutOf(l) \in PutRecords
    <3>1. Len(log') \in DOMAIN log' /\ log'[Len(log')] = PutOf(l)
      BY <2>4, <2>5
    <3> QED
      BY <2>5, <3>1
  <2>7. HasEntries(log', text')
    BY <1>1, <1>2, <2>4, <2>5, <2>6, HistoryAdds
  <2>8. EntriesIn(text', Len(text')) # {}
    <3>1. LineAdded(text', text, l)
      BY <1>2, LineAdds
    <3> QED
      BY <1>1, <3>1 DEF LineAdded
  <2>9. ParseTypeOK'
    BY <1>2, <1>4, <1>7 DEF ParserInv, ParseTypeOK
  <2>10. outcome'.is # "panic" /\ outcome'.line = 0 /\ outcome'.is # "ok"
    BY <1>2, <1>7 DEF Running
  <2>11. valLen' # 0 /\ valLen' = text'[Min(EntriesIn(text', Len(text')))].width
    BY <1>1, <1>4, <1>5
  <2> QED
    BY <1>2, <2>2, <2>7, <2>8, <2>9, <2>10, <2>11 DEF ParserInv, ErrorsIn, WholeIn
<1> QED
  BY <1>1, <1>6, <1>7

(* The end of the input, and the verdict on it.                            *)
LEMMA EndParserInv ==
    ASSUME IInv, ParserInv, ReadFails \/ EndOfFile \/ Return PROVE ParserInv'
<1>1. outcome = Running /\ lineNo' = lineNo /\ valLen' = valLen /\ text' = text /\ log' = log
  BY DEF ReadFails, EndOfFile, Return, vars
<1>2. /\ ParseTypeOK /\ lineNo = Len(text) /\ BadIn(text) = {} /\ HasEntries(log, text)
      /\ valLen = 0 <=> EntriesIn(text, Len(text)) = {}
      /\ valLen # 0 => valLen = text[Min(EntriesIn(text, Len(text)))].width
  BY <1>1 DEF ParserInv
<1>3. CASE ReadFails \/ EndOfFile
  <2>1. outcome' = outcome /\ src' \in {"open", "torn", "failed", "ended"}
    BY <1>3 DEF ReadFails, EndOfFile
  <2>2. outcome'.is # "panic" /\ outcome'.line = 0 /\ outcome'.is # "ok"
    BY <1>1, <2>1 DEF Running
  <2>3. ParseTypeOK'
    BY <1>1, <1>2, <2>1 DEF ParseTypeOK
  <2> QED
    BY <1>1, <1>2, <2>1, <2>2, <2>3 DEF ParserInv, ErrorsIn, WholeIn
<1>4. CASE Return
  <2>1. /\ src \in {"failed", "ended"} /\ src' = src
        /\ outcome' = IF src = "failed" \/ valLen = 0 THEN Err(0)
                                                      ELSE [is |-> "ok", line |-> 0]
    BY <1>4 DEF Return
  <2>2. /\ outcome' # Running /\ outcome'.is # "panic" /\ outcome'.line = 0
        /\ outcome'.is = "ok" => src = "ended" /\ valLen # 0
    BY <2>1 DEF Running, Err
  <2>3. MaxLines \in Nat
    BY LineAssumption
  <2>4. ParseTypeOK'
    BY <1>1, <1>2, <2>1, <2>3 DEF ParseTypeOK, Outcomes, Err
  <2>5. outcome'.is = "ok" => log # <<>>
    <3> HAVE outcome'.is = "ok"
    <3>1. EntriesIn(text, Len(text)) # {}
      BY <1>2, <2>2
    <3>2. text \in Seq(Lines) /\ Len(text) \in 0..Len(text)
      BY <1>2 DEF ParseTypeOK
    <3>3. Cardinality(EntriesIn(text, Len(text))) # 0
      BY <3>1, <3>2, EntriesCount
    <3>4. Len(log) # 0
      BY <1>2, <3>3 DEF HasEntries
    <3> QED
      BY <3>4
  <2> QED
    BY <1>1, <1>2, <2>1, <2>2, <2>4, <2>5 DEF ParserInv, ErrorsIn, WholeIn
<1> QED
  BY <1>3, <1>4

(* Nobody but the parser changes what it read, and the history is its own. *)
LEMMA ParserRests == ASSUME ParserInv, UNCHANGED <<log, parser>> PROVE ParserInv'
<1>1. /\ log' = log /\ src' = src /\ lineNo' = lineNo /\ valLen' = valLen
      /\ outcome' = outcome /\ text' = text
  BY DEF parser
<1> QED
  BY <1>1 DEF ParserInv, ParseTypeOK, HasEntries, ErrorsIn, WholeIn

(* No step of a build makes the parser's verdict untrue.                  *)
LEMMA NextParserInv ==
    IInv /\ IInv' /\ Logged /\ ParserInv /\ [CommandNext]_<<pvars, avars>> => ParserInv'
<1> SUFFICES ASSUME IInv, IInv', Logged, ParserInv, [CommandNext]_<<pvars, avars>>
             PROVE  ParserInv'
  OBVIOUS
<1>1. CASE Parse
  <2>1. ParseNext
    BY <1>1 DEF Parse
  <2>2. ASSUME NEW l \in Lines, Skip(l) \/ Refuse(l) \/ PanicAt(l) \/ EntryLine(l)
        PROVE  ParserInv'
    BY <2>2, SkipParserInv, RefuseParserInv, PanicAtParserInv, EntryLineParserInv
  <2> QED
    BY <2>1, <2>2, EndParserInv DEF ParseNext
<1>2. CASE Compile
  <2>1. Build \/ BuildStep => log' = log
    BY DEF Build, BuildStep, Sort4, Dedupe4, Deduped4, Count4, Sum4, Fill4, Filled4, Sort6,
           Dedupe6, Deduped6, Fill6, Filled6, Release, Panic
  <2> QED
    BY <1>2, <2>1, ParserRests DEF Compile
<1>3. CASE FileNext /\ UNCHANGED parser
  <2>1. log' = log
    BY <1>3 DEF FileNext, WriteTo, WriteFails, OpenFile, Flip, Grow, Reseal, Harm, vars
  <2> QED
    BY <1>3, <2>1, ParserRests
<1>4. CASE Foreign
  BY <1>4, ParserRests DEF Foreign, Forge, vars
<1>5. CASE UNCHANGED <<pvars, avars>>
  BY <1>5, ParserRests DEF pvars, vars
<1> QED
  BY <1>1, <1>2, <1>3, <1>4, <1>5 DEF CommandNext

-----------------------------------------------------------------------------
(* What holds of every command.                                            *)
CommandInv == IInv /\ FInv /\ ParserInv

(* The Builder, its entries and stores, and the parser, in every build.    *)
LEMMA CommandHolds == Command => []CommandInv
<1>1. CommandInit => CommandInv
  BY InitIInv, InitFInv, InitParserInv DEF CommandInit, ParseInit, CommandInv
<1>2. CommandInv /\ [CommandNext]_<<pvars, avars>> => CommandInv'
  <2> SUFFICES ASSUME CommandInv, [CommandNext]_<<pvars, avars>> PROVE CommandInv'
    OBVIOUS
  <2>1. [Next]_vars
    BY BuilderMoves DEF pvars
  <2>2. IInv' /\ FInv'
    BY <2>1, NextIInv, NextFInv DEF CommandInv
  <2>3. Logged
    BY DEF CommandInv, FInv, ValuesKept
  <2> QED
    BY <2>2, <2>3, NextParserInv DEF CommandInv
<1> QED
  BY <1>1, <1>2, PTL DEF Command

(* The parser's variables keep their types, in every build.                *)
THEOREM ParserTyped == Command => []ParseTypeOK
<1>1. CommandInv => ParseTypeOK
  BY DEF CommandInv, ParserInv
<1> QED
  BY <1>1, CommandHolds, PTL

(* An error names the first line that cannot stand, for every text.        *)
THEOREM ErrorsAreExact == Command => []ErrorsNameFirstBadLine
<1>1. CommandInv => ErrorsNameFirstBadLine
  BY ErrorsIs DEF CommandInv, ParserInv
<1> QED
  BY <1>1, CommandHolds, PTL

(* A Builder is returned only for a spec read to its end, and has all of   *)
(* its entries in the order of the lines.                                  *)
THEOREM BuilderIsWhole == Command => []SuccessIsWhole
<1>1. CommandInv => SuccessIsWhole
  BY WholeIs DEF CommandInv, ParserInv
<1> QED
  BY <1>1, CommandHolds, PTL

-----------------------------------------------------------------------------
(* A whole file is accepted, and read back.                                *)

(* Where the sections start is settled by their lengths (format.go).       *)
LEMMA StartsAlike ==
    ASSUME NEW lens, NEW other, \A i \in Slots : lens[i] = other[i]
    PROVE  \A k \in 1..9 : Starts(lens)[k] = Starts(other)[k]
<1>1. /\ lens[1] = other[1] /\ lens[2] = other[2] /\ lens[3] = other[3] /\ lens[4] = other[4]
      /\ lens[5] = other[5] /\ lens[6] = other[6] /\ lens[7] = other[7] /\ lens[8] = other[8]
  BY DEF Slots
<1>2. Starts(lens) = Starts(other)
  BY <1>1 DEF Starts
<1> QED
  BY <1>2

(* A padded length is a multiple of the alignment (pad8 in format.go).     *)
LEMMA PadAligns ==
    ASSUME NEW o \in Nat, NEW k \in Nat, o % Align = 0
    PROVE  (o + Pad(k)) % Align = 0
<1> DEFINE q == (k + Align - 1) \div Align
           r == o \div Align
<1>1. Align \in Nat /\ Align > 0
  BY ArtifactAssumption
<1>2. q \in Nat /\ r \in Nat /\ o = Align * r
  BY <1>1
<1>3. Pad(k) = q * Align
  BY DEF Pad
<1> HIDE DEF q, r
<1>4. o + Pad(k) = (r + q) * Align
  BY <1>1, <1>2, <1>3
<1>5. r + q \in Nat
  BY <1>2
<1> DEFINE s == r + q
<1> HIDE DEF s
<1>6. s \in Nat
  BY <1>5 DEF s
<1>7. (s * Align) % Align = 0
  BY <1>1, <1>6
<1> QED
  BY <1>4, <1>7 DEF s

(* Every section starts at a multiple of the alignment.                    *)
LEMMA StartsAlign ==
    ASSUME NEW lens, \A i \in Slots : lens[i] \in Nat
    PROVE  \A i \in Slots : /\ Starts(lens)[i] % Align = 0
                            /\ Starts(lens)[i + 1] = Starts(lens)[i] + Pad(lens[i])
                            /\ Starts(lens)[i + 1] <= Starts(lens)[9]
<1> DEFINE start == Starts(lens)
<1>1. \A k \in 1..9 : start[k] \in Nat /\ start[k] <= start[9]
  BY StartsHold
<1>2. /\ start[1] = HeaderSize
      /\ start[2] = start[1] + Pad(lens[1]) /\ start[3] = start[2] + Pad(lens[2])
      /\ start[4] = start[3] + Pad(lens[3]) /\ start[5] = start[4] + Pad(lens[4])
      /\ start[6] = start[5] + Pad(lens[5]) /\ start[7] = start[6] + Pad(lens[6])
      /\ start[8] = start[7] + Pad(lens[7]) /\ start[9] = start[8] + Pad(lens[8])
  BY StartsAdd
<1> HIDE DEF start
<1>3. \A i \in Slots : i = 1 \/ i = 2 \/ i = 3 \/ i = 4 \/ i = 5 \/ i = 6 \/ i = 7 \/ i = 8
  BY DEF Slots
<1>4. \A i \in Slots : start[i + 1] = start[i] + Pad(lens[i])
  BY <1>2, <1>3
<1>5. start[1] % Align = 0
  BY <1>2, SizeAssumption
<1>6. \A i \in Slots : start[i] % Align = 0 => start[i + 1] % Align = 0
  <2> SUFFICES ASSUME NEW i \in Slots, start[i] % Align = 0 PROVE start[i + 1] % Align = 0
    OBVIOUS
  <2>1. start[i] \in Nat
    BY <1>1 DEF Slots
  <2>2. (start[i] + Pad(lens[i])) % Align = 0
    BY <2>1, PadAligns
  <2> QED
    BY <1>4, <2>2
<1>7. /\ start[2] % Align = 0 /\ start[3] % Align = 0 /\ start[4] % Align = 0
      /\ start[5] % Align = 0 /\ start[6] % Align = 0 /\ start[7] % Align = 0
      /\ start[8] % Align = 0
  BY <1>5, <1>6 DEF Slots
<1>8. \A i \in Slots : start[i] % Align = 0
  BY <1>3, <1>5, <1>7
<1>9. \A i \in Slots : start[i + 1] <= start[9]
  BY <1>1 DEF Slots
<1> QED
  BY <1>4, <1>8, <1>9 DEF start

(* A window of l cells from o on has the cells it shows.                   *)
LEMMA WindowCells ==
    ASSUME NEW s, NEW o \in Nat, NEW l \in Nat
    PROVE  /\ Sequence(SubSeq(s, o + 1, o + l)) /\ Len(SubSeq(s, o + 1, o + l)) = l
           /\ \A j \in 1..l : SubSeq(s, o + 1, o + l)[j] = s[o + j]
<1> DEFINE m == o + 1
           k == o + l
<1>1. m \in Nat /\ k \in Nat /\ k + 1 >= m /\ k - m + 1 = l /\ \A j \in 1..l : m + j - 1 = o + j
  OBVIOUS
<1> HIDE DEF m, k
<1>2. Sequence(SubSeq(s, m, k))
  BY <1>1, SubSeqCells
<1>3. Len(SubSeq(s, m, k)) = k - m + 1
  BY <1>1, SubSeqCells
<1>4. \A j \in 1..k - m + 1 : SubSeq(s, m, k)[j] = s[m + j - 1]
  BY <1>1, SubSeqCells
<1>5. \A j \in 1..l : SubSeq(s, m, k)[j] = s[o + j]
  BY <1>1, <1>4
<1> QED
  BY <1>1, <1>2, <1>3, <1>5 DEF m, k

(* So has the front of a sequence.                                         *)
LEMMA FrontCells ==
    ASSUME NEW s, NEW l \in Nat
    PROVE  /\ Sequence(SubSeq(s, 1, l)) /\ Len(SubSeq(s, 1, l)) = l
           /\ \A j \in 1..l : SubSeq(s, 1, l)[j] = s[j]
<1> DEFINE m == 1
<1>1. m \in Nat /\ l + 1 >= m /\ l - m + 1 = l /\ \A j \in 1..l : m + j - 1 = j
  OBVIOUS
<1> HIDE DEF m
<1>2. Sequence(SubSeq(s, m, l))
  BY <1>1, SubSeqCells
<1>3. Len(SubSeq(s, m, l)) = l - m + 1
  BY <1>1, SubSeqCells
<1>4. \A j \in 1..l - m + 1 : SubSeq(s, m, l)[j] = s[m + j - 1]
  BY <1>1, SubSeqCells
<1>5. \A j \in 1..l : SubSeq(s, m, l)[j] = s[j]
  BY <1>1, <1>4
<1> QED
  BY <1>1, <1>2, <1>3, <1>5 DEF m

\* Section i of f, as assemble reads it.
SectionOf(f, i) == SubSeq(f, f[Row(i) + 1] + 1, f[Row(i) + 1] + f[Row(i) + 2])

\* The sections have the lengths the numbers of the header call for.
Called(fields, secs) == \A i \in Slots : expect(numbers(fields))[i] = Len(secs[i])

\* A sealed file as openBytes finds it.
OpensAs(f, fields, secs) ==
    /\ numbers(f) = numbers(fields) /\ header(f) = "ok" /\ walk(f) = "ok"
    /\ \A i \in Slots : SectionOf(f, i) = secs[i]

(* A header and sections that agree with each other make a file whose      *)
(* checksums, geometry and padding openBytes accepts, and in which it      *)
(* finds the sections again.                                               *)
LEMMA SealedOpens ==
    ASSUME NEW fields, FieldCells(fields), NEW secs, Payloads(secs), Called(fields, secs),
           fields[1] = Magic, fields[2] = 1, fields[3] \in {0, 1}, counts(numbers(fields)),
           NEW f, f = Sealed(fields, secs)
    PROVE  OpensAs(f, fields, secs)
<1> DEFINE lens == Lens(secs)
           start == Starts(lens)
<1>0. \A i \in Slots : lens[i] = Len(secs[i]) /\ lens[i] \in Nat /\ Sequence(secs[i])
  BY SequenceHas DEF Lens, Payloads
<1>1. /\ Sequence(f) /\ Len(f) = start[9]
      /\ \A k \in 1..HeaderSize : f[k] = Header(fields, secs)[k]
      /\ \A i \in Slots : Holds(f, secs, i)
  BY SealedHolds
<1>2. /\ \A i \in Slots :
            /\ Header(fields, secs)[Row(i) + 1] = start[i]
            /\ Header(fields, secs)[Row(i) + 2] = Len(secs[i])
            /\ Header(fields, secs)[Row(i) + 3] = secs[i]
            /\ Header(fields, secs)[Row(i) + 4] = 0
      /\ \A k \in 1..TableStart : Header(fields, secs)[k] = fields[k]
      /\ Header(fields, secs)[HeaderSize] = 0
      /\ Sequence(Header(fields, secs)[CrcCell])
      /\ Len(Header(fields, secs)[CrcCell]) = CrcCell - 1
      /\ \A j \in 1..CrcCell - 1 : Header(fields, secs)[CrcCell][j] = Header(fields, secs)[j]
  BY HeaderHolds
<1>3. /\ \A i \in Slots : /\ Row(i) + 1 \in 1..HeaderSize /\ Row(i) + 2 \in 1..HeaderSize
                          /\ Row(i) + 3 \in 1..HeaderSize /\ Row(i) + 4 \in 1..HeaderSize
      /\ \A k \in 1..TableStart : k \in 1..HeaderSize
      /\ CrcCell \in 1..HeaderSize /\ HeaderSize \in 1..HeaderSize
      /\ CrcCell - 1 \in Nat /\ \A j \in 1..CrcCell - 1 : j \in 1..HeaderSize
  BY DEF Row, Slots, HeaderSize, TableStart, CrcCell
<1> HIDE DEF start, lens
<1>4. /\ \A i \in Slots : f[Row(i) + 1] = start[i] /\ f[Row(i) + 2] = lens[i]
                          /\ f[Row(i) + 3] = secs[i] /\ f[Row(i) + 4] = 0
      /\ \A k \in 1..TableStart : f[k] = fields[k]
      /\ f[HeaderSize] = 0
  BY <1>0, <1>1, <1>2, <1>3, ZenonT(60)
<1>5. /\ Sequence(f[CrcCell]) /\ Len(f[CrcCell]) = CrcCell - 1
      /\ \A j \in 1..CrcCell - 1 : f[CrcCell][j] = f[j]
  BY <1>1, <1>2, <1>3, ZenonT(60)
<1>6. numbers(f) = numbers(fields) /\ f[1] = Magic /\ f[2] = 1 /\ f[3] \in {0, 1}
  <2>1. /\ 1 \in 1..TableStart /\ 2 \in 1..TableStart /\ 3 \in 1..TableStart
        /\ 4 \in 1..TableStart /\ 5 \in 1..TableStart /\ 6 \in 1..TableStart
        /\ 7 \in 1..TableStart /\ 8 \in 1..TableStart /\ 9 \in 1..TableStart
        /\ 10 \in 1..TableStart /\ 11 \in 1..TableStart /\ 12 \in 1..TableStart
    BY DEF TableStart
  <2>2. /\ f[1] = fields[1] /\ f[2] = fields[2] /\ f[3] = fields[3] /\ f[4] = fields[4]
        /\ f[5] = fields[5] /\ f[6] = fields[6] /\ f[7] = fields[7] /\ f[8] = fields[8]
        /\ f[9] = fields[9] /\ f[10] = fields[10] /\ f[11] = fields[11] /\ f[12] = fields[12]
    BY ONLY <1>4, <2>1
  <2> QED
    BY <2>2 DEF numbers
<1>a. \A k \in 1..9 : start[k] \in Nat /\ HeaderSize <= start[k]
  BY <1>0, StartsHold DEF start
<1>7. Len(f) \in Nat /\ HeaderSize \in Nat /\ HeaderSize <= Len(f)
  <2>1. 9 \in 1..9
    OBVIOUS
  <2>2. start[9] \in Nat /\ HeaderSize <= start[9]
    BY <1>a, <2>1
  <2>3. HeaderSize \in Nat
    BY DEF HeaderSize, TableStart
  <2> QED
    BY ONLY <1>1, <2>2, <2>3
<1>8. Checksum(SubSeq(f, 1, CrcCell - 1)) = f[CrcCell]
  <2> DEFINE c == CrcCell - 1
             u == SubSeq(f, 1, c)
  <2>1. c \in Nat /\ c + 1 >= 1
    BY <1>3
  <2> HIDE DEF c
  <2>2. Sequence(u) /\ Len(u) = c /\ \A i \in 1..c : u[i] = f[i]
    BY <2>1, FrontCells
  <2> HIDE DEF u
  <2>3. Sequence(f[CrcCell]) /\ Len(f[CrcCell]) = c /\ \A j \in 1..c : f[CrcCell][j] = f[j]
    BY <1>5 DEF c
  <2>4. u = f[CrcCell]
    BY <2>2, <2>3, SameSequence
  <2> QED
    BY <2>4 DEF Checksum, u, c
<1>9. header(f) = "ok"
  <2>1. ~(Len(f) < HeaderSize)
    BY <1>7
  <2>2. counts(numbers(f))
    BY <1>6
  <2> QED
    BY <1>4, <1>6, <1>8, <2>1, <2>2 DEF header
<1>10. \A i \in Slots : expect(numbers(f))[i] = lens[i]
  BY <1>0, <1>6 DEF Called
<1>11. \A k \in 1..9 : Starts(expect(numbers(f)))[k] = start[k]
  BY <1>10, StartsAlike DEF start
<1>12. ASSUME NEW i \in Slots
       PROVE  section(f, i) = "ok" /\ SectionOf(f, i) = secs[i]
  <2> DEFINE o == f[Row(i) + 1]
             l == f[Row(i) + 2]
  <2>1. o = start[i] /\ l = lens[i] /\ f[Row(i) + 3] = secs[i] /\ l = Len(secs[i])
    BY <1>0, <1>4
  <2>2. /\ start[i] % Align = 0 /\ start[i + 1] = start[i] + Pad(lens[i])
        /\ start[i + 1] <= start[9]
    BY <1>0, StartsAlign DEF start
  <2>a. i \in 1..9
    BY DEF Slots
  <2>3. start[i] \in Nat
    BY <1>a, <2>a
  <2> HIDE DEF o, l
  <2>4. l \in Nat /\ Pad(l) \in Nat /\ l <= Pad(l) /\ o \in Nat
    BY <1>0, <2>1, <2>3, PadHolds
  <2>b. o + Pad(l) = start[i + 1] /\ start[i + 1] <= Len(f) /\ o % Align = 0
    BY <1>1, <2>1, <2>2
  <2>5. o + Pad(l) <= Len(f) /\ o + l <= Len(f) /\ o % Align = 0
    BY ONLY <1>7, <2>4, <2>b
  <2>6. /\ \A j \in 1..l : f[o + j] = secs[i][j]
        /\ \A j \in l + 1..Pad(l) : f[o + j] = 0
    BY <1>1, <2>1 DEF Holds, start, lens
  <2>7. geometry(f, i, o, l)
    BY <1>10, <1>11, <2>1, <2>a, <2>5 DEF geometry
  <2>8. SubSeq(f, o + 1, o + l) = secs[i]
    <3> DEFINE u == SubSeq(f, o + 1, o + l)
    <3>1. Sequence(u) /\ Len(u) = l /\ \A j \in 1..l : u[j] = f[o + j]
      BY <2>4, WindowCells, ZenonT(60)
    <3> HIDE DEF u
    <3>2. Sequence(secs[i]) /\ Len(secs[i]) = l /\ \A j \in 1..l : u[j] = secs[i][j]
      BY <1>0, <2>1, <2>6, <3>1
    <3>3. u = secs[i]
      BY ONLY <3>1, <3>2, SameSequence
    <3> QED
      BY <3>3 DEF u
  <2>9. ~(o + l > Len(f)) /\ ~(o + Pad(l) > Len(f))
    BY <1>7, <2>4, <2>5
  <2>10. ~\E j \in o + l + 1..o + Pad(l) : f[j] # 0
    <3> SUFFICES ASSUME NEW j \in o + l + 1..o + Pad(l) PROVE f[j] = 0
      OBVIOUS
    <3>1. j - o \in l + 1..Pad(l) /\ o + (j - o) = j
      BY <2>4
    <3> QED
      BY <2>6, <3>1
  <2>11. section(f, i) = "ok"
    BY <2>1, <2>7, <2>8, <2>9, <2>10 DEF section, Checksum, o, l
  <2> QED
    BY <2>8, <2>11 DEF SectionOf, o, l
<1>13. walk(f) = "ok"
  BY <1>1, <1>11, <1>12, WalkEmpty
<1> QED
  BY <1>6, <1>9, <1>12, <1>13 DEF OpensAs

-----------------------------------------------------------------------------
(* Blocks laid end to end, and taken apart again.                          *)

(* A cell is known by its block and its place in the block.                *)
LEMMA CellPlace ==
    ASSUME NEW w \in Nat \ {0}, NEW q \in Nat, NEW r \in 0..w - 1, NEW x, x = (q * w) + r
    PROVE  x \in Nat /\ x \div w = q /\ x % w = r
<1>1. q * w \in Nat /\ w * q = q * w /\ w \in Nat /\ w > 0
  OBVIOUS
<1>2. x \in Nat
  BY <1>1
<1>3. (w * q) + r = x
  BY <1>1
<1>4. x \div w = q
  BY <1>1, <1>2, <1>3, QuotientIs
<1>5. x \div w \in Nat /\ x % w \in 0..w - 1 /\ x = (w * (x \div w)) + (x % w)
  BY <1>1, <1>2
<1> DEFINE m == x % w
           wq == w * q
<1>6. m \in 0..w - 1 /\ x = wq + m /\ x = wq + r /\ wq \in Nat
  BY <1>1, <1>3, <1>4, <1>5
<1> HIDE DEF m, wq
<1>7. m = r
  BY <1>1, <1>6
<1> QED
  BY <1>2, <1>4, <1>7 DEF m

(* Block k of blocks of w cells each takes the cells (k - 1) * w + 1 to    *)
(* k * w, and there are as many blocks as before.                          *)
LEMMA BlocksBack ==
    ASSUME NEW w \in Nat \ {0}, NEW s, Sequence(s),
           \A k \in 1..Len(s) : Sequence(s[k]) /\ Len(s[k]) = w
    PROVE  /\ Sequence(Blocks(s, w)) /\ Len(Blocks(s, w)) = Len(s) * w
           /\ Unblock(Blocks(s, w), w) = s
<1> DEFINE c == Len(s)
           cell(i) == s[(i - 1) \div w + 1][((i - 1) % w) + 1]
           b == [i \in 1..c * w |-> cell(i)]
<1>1. c \in Nat /\ s = [k \in 1..c |-> s[k]]
  BY SequenceHas
<1>2. Blocks(s, w) = b
  BY DEF Blocks
<1> HIDE DEF c
<1>3. c * w \in Nat
  BY <1>1
<1>4. b = [i \in 1..c * w |-> b[i]]
  OBVIOUS
<1>5. ASSUME NEW k \in 1..c, NEW j \in 1..w
      PROVE  b[((k - 1) * w) + j] = s[k][j]
  <2> DEFINE q == k - 1
             r == j - 1
             i == (q * w) + j
  <2>1. q \in Nat /\ r \in 0..w - 1 /\ q + 1 = k /\ r + 1 = j /\ q <= c - 1
    BY <1>1
  <2> HIDE DEF q, r
  <2> DEFINE x == (q * w) + r
             qw == q * w
             cw == c * w
  <2>2. qw \in Nat /\ cw \in Nat /\ w \in Nat
    BY <1>3, <2>1
  <2>3. x \in Nat /\ x \div w = q /\ x % w = r
    <3>1. x = (q * w) + r
      OBVIOUS
    <3> HIDE DEF x
    <3> QED
      BY <2>1, <3>1, CellPlace
  <2>4. qw + w <= cw
    <3>1. k \in Nat /\ k <= c /\ c \in Nat
      BY <1>1
    <3>2. w * k <= w * c
      BY <2>2, <3>1
    <3>3. w * c = cw
      BY <1>1, <2>2
    <3>4. w * (q + 1) = w * q + w /\ w * q = qw
      BY <2>1, <2>2
    <3>5. w * k = qw + w
      BY <2>1, <3>4
    <3> QED
      BY <3>2, <3>3, <3>5
  <2>5. i = qw + j /\ x = qw + r
    OBVIOUS
  <2> HIDE DEF i, x, qw, cw
  <2>6. i \in 1..cw /\ i - 1 = x
    BY <2>1, <2>2, <2>4, <2>5
  <2>7. b[i] = s[x \div w + 1][(x % w) + 1]
    BY <2>6 DEF cw
  <2>8. b[i] = s[q + 1][r + 1]
    BY <2>3, <2>7
  <2> QED
    BY <2>1, <2>8 DEF i, q
<1> HIDE DEF b
<1>6. Sequence(b) /\ Len(b) = c * w
  BY <1>3, <1>4, FunctionIsSequence
<1>7. Len(b) \div w = c
  <2>1. c * w = (c * w) + 0 /\ 0 \in 0..w - 1
    BY <1>3
  <2> QED
    BY <1>1, <1>6, <2>1, CellPlace
<1>8. ASSUME NEW k \in 1..c
      PROVE  SubSeq(b, ((k - 1) * w) + 1, k * w) = s[k]
  <2> DEFINE o == (k - 1) * w
             u == SubSeq(b, o + 1, o + w)
  <2>1. o \in Nat /\ k * w = o + w
    BY <1>1
  <2> HIDE DEF o
  <2>2. Sequence(u) /\ Len(u) = w /\ \A j \in 1..w : u[j] = b[o + j]
    BY <2>1, WindowCells
  <2> HIDE DEF u
  <2>3. \A j \in 1..w : u[j] = s[k][j]
    BY <1>5, <2>2 DEF o
  <2>4. Sequence(s[k]) /\ Len(s[k]) = w
    BY DEF c
  <2>5. u = s[k]
    BY <2>2, <2>3, <2>4, SameSequence
  <2>6. SubSeq(b, o + 1, k * w) = s[k]
    BY <2>1, <2>5 DEF u
  <2> QED
    BY <2>6 DEF o
<1>9. Unblock(b, w) = [k \in 1..c |-> SubSeq(b, ((k - 1) * w) + 1, k * w)]
  BY <1>7 DEF Unblock
<1>10. Unblock(b, w) = s
  BY <1>1, <1>8, <1>9
<1> QED
  BY <1>2, <1>6, <1>10 DEF c

(* A 64-bit word is read back from its two halves.                         *)
LEMMA WordsBack ==
    ASSUME NEW s \in Seq(Nat)
    PROVE  /\ Sequence(u64bytes(s)) /\ Len(u64bytes(s)) = 2 * Len(s)
           /\ u64view(u64bytes(s)) = s
<1> DEFINE B == MaxU32 + 1
           c == Len(s)
           pairs == [k \in 1..c |-> <<s[k] % B, s[k] \div B>>]
           b == Blocks(pairs, 2)
<1>1. /\ B \in Nat /\ B > 0 /\ c \in Nat /\ DOMAIN s = 1..c /\ s = [k \in 1..c |-> s[k]]
      /\ \A k \in 1..c : s[k] \in Nat
  BY WidthAssumption
<1>2. u64bytes(s) = b
  BY <1>1 DEF u64bytes
<1>3. pairs = [k \in 1..c |-> pairs[k]]
  OBVIOUS
<1>4. \A k \in 1..c : pairs[k] = <<s[k] % B, s[k] \div B>>
  OBVIOUS
<1> HIDE DEF B, c, pairs
<1>5. Sequence(pairs) /\ Len(pairs) = c
  BY <1>1, <1>3, FunctionIsSequence
<1>6. \A k \in 1..c : /\ Sequence(pairs[k]) /\ Len(pairs[k]) = 2
                      /\ pairs[k][1] = s[k] % B /\ pairs[k][2] = s[k] \div B
  <2> SUFFICES ASSUME NEW k \in 1..c
               PROVE  /\ Sequence(pairs[k]) /\ Len(pairs[k]) = 2
                      /\ pairs[k][1] = s[k] % B /\ pairs[k][2] = s[k] \div B
    OBVIOUS
  <2> DEFINE p == pairs[k]
  <2>1. p = [i \in 1..2 |-> p[i]] /\ p[1] = s[k] % B /\ p[2] = s[k] \div B
    BY <1>4, SMTT(40)
  <2> HIDE DEF p
  <2>2. Sequence(p) /\ Len(p) = 2
    BY <2>1, FunctionIsSequence
  <2> QED
    BY <2>1, <2>2 DEF p
<1>7. 2 \in Nat \ {0} /\ \A k \in 1..Len(pairs) : Sequence(pairs[k]) /\ Len(pairs[k]) = 2
  BY <1>5, <1>6
<1>8. Sequence(b) /\ Len(b) = Len(pairs) * 2
  BY <1>5, <1>7, BlocksBack
<1>9. b = [i \in 1..c * 2 |-> pairs[(i - 1) \div 2 + 1][((i - 1) % 2) + 1]]
  BY <1>5 DEF Blocks
<1>10. Len(b) = c * 2
  BY <1>5, <1>8
<1> HIDE DEF b
<1>11. ASSUME NEW k \in 1..c
       PROVE  b[2 * k - 1] = s[k] % B /\ b[2 * k] = s[k] \div B
  <2> DEFINE q == k - 1
             x == 2 * k - 1
             y == 2 * k
  <2>1. k \in Nat /\ k <= c /\ q \in Nat /\ q + 1 = k
    BY <1>1
  <2>2. x \in 1..c * 2 /\ y \in 1..c * 2 /\ x - 1 = (q * 2) + 0 /\ y - 1 = (q * 2) + 1
    BY <1>1, <2>1, SMTT(40)
  <2> HIDE DEF q, x, y
  <2>3. (x - 1) \div 2 = q /\ (x - 1) % 2 = 0
    BY <2>1, <2>2
  <2>4. (y - 1) \div 2 = q /\ (y - 1) % 2 = 1
    BY <2>1, <2>2
  <2>5. b[x] = pairs[(x - 1) \div 2 + 1][((x - 1) % 2) + 1]
    BY <1>9, <2>2
  <2>6. b[y] = pairs[(y - 1) \div 2 + 1][((y - 1) % 2) + 1]
    BY <1>9, <2>2
  <2>7. b[x] = pairs[q + 1][1]
    BY <2>3, <2>5
  <2>8. b[y] = pairs[q + 1][2]
    BY <2>4, <2>6
  <2> QED
    BY <1>6, <2>1, <2>7, <2>8 DEF x, y
<1>12. Len(b) \div 2 = c
  BY <1>1, <1>10
<1>13. ASSUME NEW k \in 1..c PROVE b[2 * k - 1] + B * b[2 * k] = s[k]
  <2> DEFINE x == s[k]
             d == x \div B
             r == x % B
  <2>1. x \in Nat
    BY <1>1
  <2>2. b[2 * k - 1] = r /\ b[2 * k] = d
    BY <1>11
  <2> HIDE DEF x
  <2>3. x = (B * d) + r /\ d \in Nat /\ r \in Nat
    <3>1. B \in Nat \ {0}
      BY <1>1
    <3>2. x = (B * (x \div B)) + (x % B) /\ x \div B \in Nat /\ x % B \in 0..B - 1
      BY <2>1, <3>1
    <3> QED
      BY <3>1, <3>2
  <2> HIDE DEF d, r
  <2> DEFINE Bd == B * d
  <2>4. Bd \in Nat /\ x = Bd + r
    BY <1>1, <2>3
  <2> HIDE DEF Bd
  <2>5. r + Bd = x
    BY <2>3, <2>4
  <2> QED
    BY <2>2, <2>5 DEF x, Bd
<1>14. u64view(b) = [k \in 1..c |-> b[2 * k - 1] + B * b[2 * k]]
  BY <1>12 DEF u64view, B
<1>15. u64view(b) = s
  BY <1>1, <1>13, <1>14
<1>16. Len(b) = 2 * Len(s)
  BY <1>1, <1>10 DEF c
<1> QED
  BY <1>2, <1>8, <1>15, <1>16

-----------------------------------------------------------------------------
(* The shape of a finished Map.                                            *)

\* The layout newValues chose, kept by every setVal: with interning, ids of one
\* width; without, nothing but the values.
Laid(v) == IF intern
             THEN v.idW = idWidth(Len(tab)) /\ \A k \in 1..Len(v.ids) : Len(v.ids[k]) = v.idW
             ELSE v.tab = <<>> /\ v.ids = <<>> /\ v.idW = 0

Layouts ==
    /\ pc \in {"sum4", "fill4"} => Laid(s4.vals)
    /\ pc \in {"sort6", "dedupe6", "fill6", "release", "done"} => s4 = Nil4 \/ Laid(s4.vals)
    /\ pc \in {"fill6", "release", "done"} => Laid(s6.vals)

\* As many rows as there are addresses.
Rows(v, m) == IF intern THEN v.direct = <<>> /\ v.tab = tab /\ Len(v.ids) = m
                        ELSE Len(v.direct) = m

\* The lengths WriteTo writes are the ones openBytes calls for.
Finished ==
    pc = "done" =>
      /\ stats.Addrs4 + stats.Addrs6 <= n
      /\ log # <<>> => stats.Addrs4 + stats.Addrs6 > 0
      /\ stats.Addrs4 = 0 => s4 = Nil4
      /\ stats.Addrs4 > 0 => /\ Len(s4.idx) = Groups4 + 1 /\ Len(s4.suffix) = stats.Addrs4
                             /\ Rows(s4.vals, stats.Addrs4)
      /\ Len(s6.prefix) <= stats.Addrs6 /\ (stats.Addrs6 > 0 => Len(s6.prefix) > 0)
      /\ Len(s6.pidx) = Len(s6.prefix) + 1 /\ Len(s6.suffix) = stats.Addrs6
      /\ Rows(s6.vals, stats.Addrs6)

LInv == Layouts /\ Finished

(* An empty layout is laid out.                                            *)
LEMMA NewLaid == ASSUME IInv, pc # "done" PROVE Laid(newValues)
<1>1. Cardinality(DOMAIN byVal) = Len(tab)
  BY DEF IInv, Bookkeeping
<1>2. CASE intern
  BY <1>1, <1>2 DEF Laid, newValues, NoVals
<1>3. CASE ~intern
  BY <1>3 DEF Laid, newValues, NoVals
<1> QED
  BY <1>2, <1>3

(* setVal keeps a layout (values.go).                                      *)
LEMMA SetLaid ==
    ASSUME NEW v \in ValsLayout, Laid(v), NEW seq PROVE Laid(setVal(v, seq))
<1>1. CASE ~intern
  <2>1. setVal(v, seq) = [v EXCEPT !.direct = Append(@, vals[seq + 1])]
    BY <1>1 DEF setVal
  <2>2. setVal(v, seq).tab = v.tab /\ setVal(v, seq).ids = v.ids /\ setVal(v, seq).idW = v.idW
    BY <2>1 DEF ValsLayout
  <2> QED
    BY <1>1, <2>2 DEF Laid
<1>2. CASE intern
  <2> DEFINE x == Pack(v.idW, ids[seq + 1])
             w == v.idW
  <2>1. w \in Nat /\ v.ids \in Seq(Seq(Nat)) /\ \A k \in 1..Len(v.ids) : Len(v.ids[k]) = w
    BY <1>2 DEF ValsLayout, Laid
  <2>2. x = [b \in 1..w |-> x[b]]
    BY DEF Pack
  <2>a. setVal(v, seq) = [v EXCEPT !.ids = Append(@, x)]
    BY <1>2 DEF setVal
  <2>b. setVal(v, seq).ids = Append(v.ids, x) /\ setVal(v, seq).idW = w
    BY <2>a DEF ValsLayout
  <2> HIDE DEF x, w
  <2>3. Len(x) = w
    BY <2>1, <2>2, FunctionIsSequence
  <2>4. Len(Append(v.ids, x)) = Len(v.ids) + 1 /\ Len(v.ids) \in Nat
    BY <2>1
  <2>5. \A k \in 1..Len(v.ids) + 1 : Len(Append(v.ids, x)[k]) = w
    <3> SUFFICES ASSUME NEW k \in 1..Len(v.ids) + 1 PROVE Len(Append(v.ids, x)[k]) = w
      OBVIOUS
    <3>1. CASE k = Len(v.ids) + 1
      <4>1. Append(v.ids, x)[k] = x
        BY <2>1, <3>1
      <4> QED
        BY <2>3, <4>1
    <3>2. CASE k # Len(v.ids) + 1
      <4>1. k \in 1..Len(v.ids)
        BY <2>4, <3>2
      <4>2. Append(v.ids, x)[k] = v.ids[k]
        BY <2>1, <4>1
      <4> QED
        BY <2>1, <4>1, <4>2
    <3> QED
      BY <3>1, <3>2
  <2>6. w = idWidth(Len(tab))
    BY <1>2 DEF Laid, w
  <2> QED
    BY <1>2, <2>b, <2>4, <2>5, <2>6 DEF Laid
<1> QED
  BY <1>1, <1>2

(* Every step keeps the layouts: a store is laid out when it is made, and  *)
(* setVal is all that happens to its rows (builder.go, values.go).         *)
LEMMA LayoutsKeep == ASSUME IInv, FInv, Layouts, [Next]_vars PROVE Layouts'
<1>0. /\ s4 \in Store4 /\ s6 \in Store6 /\ s4.vals \in ValsLayout /\ s6.vals \in ValsLayout
      /\ built <=> pc # "open"
  BY DEF IInv, TypeOK, Store4, Store6
<1>1. CASE UNCHANGED <<intern, tab, s4, s6, pc>>
  BY <1>1 DEF Layouts, Laid
<1>2. CASE pc' \in {"open", "sort4", "dedupe4", "count4", "panic"}
  BY <1>2 DEF Layouts
<1>3. CASE Deduped4
  <2>1. /\ pc = "dedupe4" /\ s4' = s4 /\ pc' \in {"sort6", "count4"}
    BY <1>3 DEF Deduped4, Goto
  <2>2. s4' = Nil4
    BY <2>1 DEF FInv, Stored4
  <2> QED
    BY <2>1, <2>2 DEF Layouts
<1>4. CASE Count4
  <2>1. /\ pc = "count4" /\ pc' = "sum4" /\ s4'.vals = newValues /\ UNCHANGED <<intern, tab>>
    BY <1>4 DEF Count4, Goto, valstate
  <2>2. Laid(newValues)
    BY <2>1, NewLaid
  <2> QED
    BY <2>1, <2>2 DEF Layouts, Laid
<1>5. CASE Sum4
  <2>1. /\ pc = "sum4" /\ pc' \in {"sum4", "fill4"} /\ s4'.vals = s4.vals
        /\ UNCHANGED <<intern, tab>>
    BY <1>0, <1>5 DEF Sum4, Goto, valstate, Store4
  <2> QED
    BY <2>1 DEF Layouts, Laid
<1>6. CASE Fill4
  <2>1. CASE ~setValOk(s4.vals, v4[at].vi)
    BY <1>2, <1>6, <2>1 DEF Fill4, Panic, Goto
  <2>2. CASE setValOk(s4.vals, v4[at].vi)
    <3>1. /\ pc = "fill4" /\ pc' = "fill4" /\ s4'.vals = setVal(s4.vals, v4[at].vi)
          /\ UNCHANGED <<intern, tab>>
      BY <1>0, <1>6, <2>2 DEF Fill4, valstate, Store4
    <3>2. Laid(setVal(s4.vals, v4[at].vi))
      BY <1>0, <3>1, SetLaid DEF Layouts
    <3> QED
      BY <3>1, <3>2 DEF Layouts, Laid
  <2> QED
    BY <2>1, <2>2
<1>7. CASE Filled4
  <2>1. /\ pc = "fill4" /\ pc' = "sort6" /\ s4' = s4 /\ UNCHANGED <<intern, tab>>
    BY <1>7 DEF Filled4, Goto, valstate, mapstate
  <2> QED
    BY <2>1 DEF Layouts, Laid
<1>8. CASE Sort6 \/ Dedupe6
  <2>1. CASE pc' = "panic"
    BY <1>2, <2>1
  <2>2. CASE pc' # "panic"
    <3>1. /\ pc \in {"sort6", "dedupe6"} /\ pc' = "dedupe6" /\ s4' = s4
          /\ UNCHANGED <<intern, tab>>
      BY <1>8, <2>2 DEF Sort6, Dedupe6, Goto, Panic, valstate, mapstate
    <3> QED
      BY <3>1 DEF Layouts, Laid
  <2> QED
    BY <2>1, <2>2
<1>9. CASE Deduped6
  <2>1. /\ pc = "dedupe6" /\ pc' = "fill6" /\ s4' = s4 /\ s6'.vals = newValues
        /\ UNCHANGED <<intern, tab>>
    BY <1>9 DEF Deduped6, Goto, valstate, Nil6
  <2>2. Laid(newValues)
    BY <2>1, NewLaid
  <2> QED
    BY <2>1, <2>2 DEF Layouts, Laid
<1>10. CASE Fill6
  <2>1. CASE ~setValOk(s6.vals, v6[at].vi)
    BY <1>2, <1>10, <2>1 DEF Fill6, Panic, Goto
  <2>2. CASE setValOk(s6.vals, v6[at].vi)
    <3>1. /\ pc = "fill6" /\ pc' = "fill6" /\ s6'.vals = setVal(s6.vals, v6[at].vi)
          /\ s4' = s4 /\ UNCHANGED <<intern, tab>>
      BY <1>10, <2>2 DEF Fill6, valstate
    <3>2. Laid(setVal(s6.vals, v6[at].vi))
      BY <1>0, <3>1, SetLaid DEF Layouts
    <3> QED
      BY <3>1, <3>2 DEF Layouts, Laid
  <2> QED
    BY <2>1, <2>2
<1>11. CASE Filled6
  <2>1. /\ pc = "fill6" /\ pc' = "release" /\ s6'.vals = s6.vals
        /\ s4' = s4 /\ UNCHANGED <<intern, tab>>
    BY <1>0, <1>11 DEF Filled6, Goto, valstate, Store6
  <2> QED
    BY <2>1 DEF Layouts, Laid
<1>12. CASE Release
  <2>1. /\ pc = "release" /\ pc' = "done" /\ s4' = s4 /\ s6' = s6
        /\ UNCHANGED <<intern, tab>>
    BY <1>12 DEF Release, Goto, mapstate
  <2> QED
    BY <2>1 DEF Layouts, Laid
<1>13. CASE Sort4 \/ Dedupe4
  <2>1. pc' \in {"dedupe4", "panic"}
    BY <1>13 DEF Sort4, Dedupe4, Goto, Panic
  <2> QED
    BY <1>2, <2>1
<1>14. CASE Build
  <2>1. pc' = "sort4"
    BY <1>14 DEF Build, Goto
  <2> QED
    BY <1>2, <2>1
<1>15. ASSUME NEW a \in Inputs, NEW val \in Values \cup {WrongWidth},
              Add(a, val) \/ AddRefused(a, val)
       PROVE  Layouts'
  <2>1. pc' = "open"
    BY <1>0, <1>15 DEF Add, AddRefused
  <2> QED
    BY <1>2, <2>1
<1>16. CASE Misuse
  BY <1>1, <1>16 DEF Misuse, valstate, mapstate
<1>17. CASE UNCHANGED vars
  BY <1>1, <1>17 DEF vars, valstate, mapstate
<1> QED
  BY <1>3, <1>4, <1>5, <1>6, <1>7, <1>8, <1>9, <1>10, <1>11, <1>12, <1>13, <1>14, <1>15,
     <1>16, <1>17 DEF Next, BuildStep

(* Every group of a division has at least the least number of entries, so  *)
(* there are no more groups of one or more than entries.                   *)
LEMMA GroupsFew ==
    ASSUME NEW off, NEW g \in Nat, NEW m \in Nat, Divides(off, g, m, 1)
    PROVE  g <= m
<1> DEFINE T == {d \in Nat : d \in 0..g /\ ~(d <= off[d + 1])}
<1>1. off[1] = 0 /\ off[g + 1] = m
  BY DEF Divides
<1>2. CASE T # {}
  <2>1. PICK d \in T : \A e \in T : d <= e
    BY <1>2, LeastNat
  <2>2. d \in 0..g /\ ~(d <= off[d + 1])
    OBVIOUS
  <2>3. d # 0
    BY <1>1, <2>2
  <2>4. d - 1 \in 0..g /\ d - 1 \in Nat /\ ~(d <= d - 1)
    BY <2>2, <2>3
  <2>5. d - 1 <= off[(d - 1) + 1]
    BY <2>1, <2>4
  <2>6. d \in 1..g /\ (d - 1) + 1 = d
    BY <2>2, <2>3
  <2>7. off[d] \in Int /\ off[d + 1] \in Int /\ off[d + 1] >= off[d] + 1
    BY <2>6 DEF Divides
  <2> QED
    BY <2>2, <2>5, <2>6, <2>7
<1>3. CASE T = {}
  <2>1. g \in Nat /\ g \in 0..g
    OBVIOUS
  <2> QED
    BY <1>1, <1>3, <2>1
<1> QED
  BY <1>2, <1>3

(* A range that starts at one has as many members as its end.              *)
LEMMA RangeCount == \A c \in Nat : IsFiniteSet(1..c) /\ Cardinality(1..c) = c
<1> TAKE c \in Nat
<1>1. 1 \in Int /\ c \in Int
  OBVIOUS
<1>2. IsFiniteSet(1..c) /\ Cardinality(1..c) = IF 1 > c THEN 0 ELSE c - 1 + 1
  BY <1>1, FS_Interval
<1> QED
  BY <1>2

(* There are no more values in a log than puts.                            *)
LEMMA ValuesFew ==
    ASSUME log \in Seq(PutRecords)
    PROVE  /\ IsFiniteSet({log[q].val : q \in DOMAIN log})
           /\ Cardinality({log[q].val : q \in DOMAIN log}) <= Len(log)
<1>1. DOMAIN log = 1..Len(log) /\ Len(log) \in Nat
  OBVIOUS
<1>2. IsFiniteSet(DOMAIN log) /\ Cardinality(DOMAIN log) = Len(log)
  BY <1>1, RangeCount
<1> DEFINE D == DOMAIN log
           C == {log[q].val : q \in D}
           f == [q \in D |-> log[q].val]
<1>3. f \in Surjection(D, C)
  <2>1. f \in [D -> C]
    OBVIOUS
  <2>2. \A t \in C : \E q \in D : f[q] = t
    OBVIOUS
  <2> HIDE DEF f, C, D
  <2> QED
    BY <2>1, <2>2 DEF Surjection
<1> HIDE DEF f, C, D
<1>4. IsFiniteSet(D)
  BY <1>2 DEF D
<1>5. IsFiniteSet(C) /\ Cardinality(C) <= Cardinality(D)
  BY <1>3, <1>4, FS_Surjection
<1> QED
  BY <1>2, <1>5 DEF C, D

(* What Build releases is finished: its lengths agree with its statistics  *)
(* (Build in builder.go).                                                  *)
LEMMA ReleaseFinishes == ASSUME IInv, FInv, Release PROVE Finished'
<1>1. pc = "release" /\ pc' = "done" /\ kept = stats.Addrs6
  BY DEF Release, Goto, FInv, Entries6
<1>2. UNCHANGED <<intern, n, tab, stats, s4, s6, log>>
  BY DEF Release, mapstate
<1>3. /\ v4 \in Seq(Entry) /\ v6 \in Seq(Entry) /\ log \in Seq(PutRecords)
      /\ stats.Addrs4 \in Nat /\ stats.Addrs6 \in Nat /\ Len(s6.prefix) \in Nat
      /\ Len(v4) \in Nat /\ Len(v6) \in Nat /\ Len(v4) + Len(v6) = n
  <2>1. v4 \in Seq(Entry) /\ v6 \in Seq(Entry) /\ log \in Seq(PutRecords)
    BY DEF IInv, TypeOK, PutRecords
  <2>2. stats.Addrs4 \in Nat /\ stats.Addrs6 \in Nat
    BY DEF IInv, TypeOK, Statistics
  <2>3. Len(s6.prefix) \in Nat
    BY DEF IInv, TypeOK, Store6
  <2>4. Len(v4) + Len(v6) = n
    BY <1>1 DEF IInv, Bookkeeping
  <2> QED
    BY <2>1, <2>2, <2>3, <2>4
<1>4. /\ Owns(log, v4, 1..stats.Addrs4, "v4") /\ stats.Addrs4 <= Len(v4)
      /\ Owns(log, v6, 1..stats.Addrs6, "v6") /\ stats.Addrs6 <= Len(v6)
  BY <1>1 DEF FInv, Entries4, Entries6, Held4, Held6
<1>5. IF stats.Addrs4 = 0 THEN s4 = Nil4
      ELSE Offsets4(s4, v4, stats.Addrs4) /\ RowVals(s4.vals, v4, stats.Addrs4, log, intern, tab)
  BY <1>1 DEF FInv, Stored4
<1>6. Offsets6(s6, v6, stats.Addrs6) /\ RowVals(s6.vals, v6, stats.Addrs6, log, intern, tab)
  BY <1>1 DEF FInv, Stored6
<1>7. stats.Addrs4 + stats.Addrs6 <= n
  BY <1>3, <1>4
<1>8. log # <<>> => stats.Addrs4 + stats.Addrs6 > 0
  <2> HAVE log # <<>>
  <2>1. 1 \in DOMAIN log /\ log[1].host \in AddrKey
    <3>1. Len(log) # 0 /\ Len(log) \in Nat /\ DOMAIN log = 1..Len(log)
      BY <1>3
    <3>2. 1 \in DOMAIN log
      BY <3>1
    <3>3. log[1] \in PutRecords
      BY <1>3, <3>2
    <3> QED
      BY <3>2, <3>3 DEF PutRecords
  <2>2. log[1].host.kind \in {"v4", "v6"}
    BY <2>1 DEF AddrKey
  <2>3. (\E k \in 1..stats.Addrs4 : TRUE) \/ (\E k \in 1..stats.Addrs6 : TRUE)
    <3>1. CASE log[1].host.kind = "v4"
      BY <1>4, <2>1, <3>1 DEF Owns
    <3>2. CASE log[1].host.kind = "v6"
      BY <1>4, <2>1, <3>2 DEF Owns
    <3> QED
      BY <2>2, <3>1, <3>2
  <2> QED
    BY <1>3, <2>3
<1>9. /\ stats.Addrs4 = 0 => s4 = Nil4
      /\ stats.Addrs4 > 0 => /\ Len(s4.idx) = Groups4 + 1 /\ Len(s4.suffix) = stats.Addrs4
                             /\ Rows(s4.vals, stats.Addrs4)
  <2>1. stats.Addrs4 > 0 => stats.Addrs4 # 0
    BY <1>3
  <2> QED
    BY <1>5, <2>1 DEF Offsets4, RowVals, Rows
<1>10. /\ Len(s6.pidx) = Len(s6.prefix) + 1 /\ Len(s6.suffix) = stats.Addrs6
       /\ Rows(s6.vals, stats.Addrs6) /\ Divides(s6.pidx, Len(s6.prefix), stats.Addrs6, 1)
  BY <1>6 DEF Offsets6, Grouped6, RowVals, Rows
<1>11. Len(s6.prefix) <= stats.Addrs6
  BY <1>3, <1>10, GroupsFew
<1>12. stats.Addrs6 > 0 => Len(s6.prefix) > 0
  <2>1. Len(s6.prefix) = 0 => stats.Addrs6 = 0
    BY <1>10 DEF Divides
  <2> QED
    BY <1>3, <2>1
<1> QED
  BY <1>2, <1>7, <1>8, <1>9, <1>10, <1>11, <1>12 DEF Finished, Rows

(* Every step keeps the shape of the Map.                                  *)
LEMMA NextLInv == IInv /\ FInv /\ LInv /\ [Next]_vars => LInv'
<1> SUFFICES ASSUME IInv, FInv, LInv, [Next]_vars PROVE LInv'
  OBVIOUS
<1>0. built <=> pc # "open"
  BY DEF IInv, TypeOK
<1>1. CASE Release
  BY <1>1, ReleaseFinishes, LayoutsKeep DEF LInv
<1>2. CASE UNCHANGED <<intern, tab, n, log, stats, s4, s6, pc>>
  <2>1. Finished'
    BY <1>2 DEF LInv, Finished, Rows
  <2> QED
    BY <2>1, LayoutsKeep DEF LInv
<1>3. CASE pc' # "done"
  BY <1>3, LayoutsKeep DEF LInv, Finished
<1>4. ASSUME NEW a \in Inputs, NEW val \in Values \cup {WrongWidth},
             Add(a, val) \/ AddRefused(a, val)
      PROVE  pc' # "done"
  BY <1>0, <1>4 DEF Add, AddRefused
<1>5. Build => pc' # "done"
  BY DEF Build, Goto
<1>6. BuildStep => Release \/ pc' # "done"
  BY DEF BuildStep, Sort4, Dedupe4, Deduped4, Count4, Sum4, Fill4, Filled4, Sort6, Dedupe6,
         Deduped6, Fill6, Filled6, Goto, Panic
<1>7. Misuse => UNCHANGED <<intern, tab, n, log, stats, s4, s6, pc>>
  BY DEF Misuse, valstate, mapstate
<1>8. UNCHANGED vars => UNCHANGED <<intern, tab, n, log, stats, s4, s6, pc>>
  BY DEF vars, valstate, mapstate
<1> QED
  BY <1>1, <1>2, <1>3, <1>4, <1>5, <1>6, <1>7, <1>8 DEF Next

(* A Builder nobody has used has no Map.                                   *)
LEMMA InitLInv == Init => LInv
  BY DEF Init, LInv, Layouts, Finished

-----------------------------------------------------------------------------
(* A whole file.                                                           *)

\* A Map that Build has returned for a spec with an entry.
Complete == /\ IInv /\ FInv /\ SInv /\ LInv
            /\ pc = "done" /\ log # <<>>

(* The numbers of its header.                                              *)
LEMMA NumbersAre ==
    ASSUME Complete
    PROVE  /\ interned(BuiltMap) = intern /\ interned(BuiltMap) \in BOOLEAN
           /\ stats.Distinct = IF intern THEN Len(tab) ELSE 0
           /\ Len(tab) \in Nat /\ (intern => Len(tab) \in 1..MaxU32)
           /\ numbers(Fields(BuiltMap))
                = [interned |-> intern, valLen |-> ValLen,
                   idW |-> IF intern THEN idWidth(Len(tab)) ELSE 0, epoch |-> Epoch,
                   n4 |-> stats.Addrs4, n6 |-> stats.Addrs6, np |-> Len(s6.prefix),
                   distinct |-> stats.Distinct, dups |-> stats.Dups,
                   confl |-> stats.DupConflicts]
<1>1. /\ intern \in BOOLEAN /\ log \in Seq(PutRecords) /\ Len(tab) \in Nat
      /\ n \in Nat /\ n <= MaxU32 /\ MaxU32 \in Nat /\ n = Len(log) /\ built
  BY WidthAssumption DEF Complete, IInv, TypeOK, PutRecords, FInv, ValuesKept, Logged
<1>2. /\ stats.Distinct = IF intern THEN Len(tab) ELSE 0
      /\ intern => Len(tab) = Cardinality({log[q].val : q \in DOMAIN log})
  BY <1>1 DEF Complete, FInv, ValuesKept, Counted
<1>3. intern => Len(tab) \in 1..MaxU32
  <2> HAVE intern
  <2> DEFINE C == {log[q].val : q \in DOMAIN log}
  <2>1. IsFiniteSet(C) /\ Cardinality(C) <= Len(log)
    BY <1>1, ValuesFew
  <2>2. C # {}
    <3>1. Len(log) # 0 /\ Len(log) \in Nat /\ DOMAIN log = 1..Len(log)
      BY <1>1 DEF Complete
    <3>2. 1 \in DOMAIN log
      BY <3>1
    <3> QED
      BY <3>2
  <2>3. Len(tab) = Cardinality(C)
    BY <1>2
  <2> HIDE DEF C
  <2>4. Cardinality(C) # 0 /\ Cardinality(C) \in Nat
    BY <2>1, <2>2, FS_EmptySet, FS_CardinalityType
  <2> QED
    BY <1>1, <2>1, <2>3, <2>4
<1>4. interned(BuiltMap) = intern /\ interned(BuiltMap) \in BOOLEAN
  <2>1. interned(BuiltMap) = (stats.Distinct > 0)
    BY DEF interned, BuiltMap
  <2> QED
    BY <1>1, <1>2, <1>3, <2>1
<1>5. numbers(Fields(BuiltMap))
        = [interned |-> intern, valLen |-> ValLen,
           idW |-> IF intern THEN idWidth(Len(tab)) ELSE 0, epoch |-> Epoch,
           n4 |-> stats.Addrs4, n6 |-> stats.Addrs6, np |-> Len(s6.prefix),
           distinct |-> stats.Distinct, dups |-> stats.Dups,
           confl |-> stats.DupConflicts]
  <2>1. idW(BuiltMap) = IF intern THEN idWidth(Len(tab)) ELSE 0
    BY <1>1, <1>2, <1>4 DEF idW, BuiltMap
  <2>2. ((IF interned(BuiltMap) THEN 1 ELSE 0) = 1) = intern
    BY <1>1, <1>4
  <2> QED
    BY <2>1, <2>2 DEF numbers, Fields, BuiltMap
<1> QED
  BY <1>1, <1>2, <1>3, <1>4, <1>5

(* The switch over the counts lets them pass.                              *)
LEMMA CountsPass == ASSUME Complete PROVE counts(numbers(Fields(BuiltMap)))
<1>1. /\ interned(BuiltMap) = intern
      /\ stats.Distinct = IF intern THEN Len(tab) ELSE 0
      /\ Len(tab) \in Nat /\ (intern => Len(tab) \in 1..MaxU32)
      /\ numbers(Fields(BuiltMap))
           = [interned |-> intern, valLen |-> ValLen,
              idW |-> IF intern THEN idWidth(Len(tab)) ELSE 0, epoch |-> Epoch,
              n4 |-> stats.Addrs4, n6 |-> stats.Addrs6, np |-> Len(s6.prefix),
              distinct |-> stats.Distinct, dups |-> stats.Dups,
              confl |-> stats.DupConflicts]
  BY NumbersAre
<1>2. /\ stats.Addrs4 \in Nat /\ stats.Addrs6 \in Nat /\ n \in Nat /\ n <= MaxU32 /\ MaxU32 \in Nat
      /\ n = Len(log) /\ log \in Seq(PutRecords)
  BY WidthAssumption DEF Complete, IInv, TypeOK, Statistics, PutRecords, FInv, ValuesKept, Logged
<1>3. /\ stats.Addrs4 + stats.Addrs6 <= n /\ stats.Addrs4 + stats.Addrs6 > 0
      /\ Len(s6.prefix) <= stats.Addrs6 /\ (stats.Addrs6 > 0 => Len(s6.prefix) > 0)
  BY DEF Complete, LInv, Finished
<1>4. stats.Dups <= MaxInt64 /\ stats.DupConflicts <= stats.Dups
  <2> DEFINE S == Superseded
             Q == {k \in S : log[k].val # Answer(log[k].host)}
             D == DOMAIN log
  <2>1. stats.Dups = Cardinality(S) /\ stats.DupConflicts = Cardinality(Q)
    BY DEF Complete, SInv, StatsAccount
  <2>2. IsFiniteSet(D) /\ Cardinality(D) = Len(log)
    <3>1. DOMAIN log = 1..Len(log) /\ Len(log) \in Nat
      BY <1>2
    <3> QED
      BY <3>1, RangeCount
  <2>3. S \in SUBSET D /\ Q \in SUBSET S
    BY DEF Superseded
  <2> HIDE DEF S, Q, D
  <2>4. IsFiniteSet(S) /\ Cardinality(S) <= Cardinality(D) /\ Cardinality(Q) <= Cardinality(S)
    BY <2>2, <2>3, FS_Subset
  <2>5. Cardinality(S) \in Nat /\ MaxInt64 \in Nat /\ MaxU32 <= MaxInt64
    BY <2>4, FS_CardinalityType, ArtifactAssumption, SizeAssumption
  <2> QED
    BY <1>2, <2>1, <2>2, <2>4, <2>5
<1>5. ValLen \in 1..MaxValLen
  BY ArtifactAssumption
<1>6. stats.Addrs4 <= MaxU32 /\ stats.Addrs6 <= MaxU32
  BY <1>2, <1>3
<1>7. intern \in BOOLEAN
  BY DEF Complete, IInv, TypeOK
<1> QED
  BY <1>1, <1>3, <1>4, <1>5, <1>6, <1>7 DEF counts

\* The cells one value takes in a payload.
PerVal == IF intern THEN idWidth(Len(tab)) ELSE ValLen

\* A payload b that is laid out from v and read back as it.
PaidBack(b, v, m) ==
    /\ Sequence(b) /\ Len(b) = m * PerVal
    /\ IF intern THEN v = [direct |-> <<>>, tab |-> tab, ids |-> Unblock(b, PerVal), idW |-> PerVal]
                 ELSE v = [NoVals EXCEPT !.direct = Unblock(b, PerVal)]

(* An id takes one to four bytes (values.go).                              *)
LEMMA IdWidthIs == ASSUME NEW k PROVE idWidth(k) \in 1..4
  BY DEF idWidth

(* The rows of a layout are written and read back (payload, mkvals).       *)
LEMMA PayloadBack ==
    ASSUME NEW v \in ValsLayout, NEW m \in Nat \ {0}, Laid(v), Rows(v, m)
    PROVE  PaidBack(payload(BuiltMap, v), v, m)
<1>0. BuiltMap.valLen = ValLen /\ ValLen \in Nat \ {0}
  BY ArtifactAssumption, WrongWidthAssumption DEF BuiltMap
<1>1. CASE intern
  <2> DEFINE w == idWidth(Len(tab))
             s == v.ids
  <2>1. w \in Nat \ {0}
    BY IdWidthIs
  <2>2. /\ v.direct = <<>> /\ v.tab = tab /\ Len(s) = m /\ v.idW = w
        /\ \A k \in 1..Len(s) : Len(s[k]) = w
    BY <1>1 DEF Rows, Laid
  <2>3. s \in Seq(Seq(Nat))
    BY DEF ValsLayout
  <2> HIDE DEF w, s
  <2>4. Sequence(s) /\ \A k \in 1..Len(s) : Sequence(s[k]) /\ Len(s[k]) = w
    <3>1. \A k \in 1..Len(s) : s[k] \in Seq(Nat)
      BY <2>3
    <3> QED
      BY <2>2, <2>3, <3>1, SeqIsSequence
  <2>5. Sequence(Blocks(s, w)) /\ Len(Blocks(s, w)) = Len(s) * w /\ Unblock(Blocks(s, w), w) = s
    BY <2>1, <2>4, BlocksBack
  <2>6. payload(BuiltMap, v) = Blocks(s, w)
    BY <2>2 DEF payload, s
  <2>7. v = [direct |-> <<>>, tab |-> tab, ids |-> s, idW |-> w]
    BY <2>2 DEF ValsLayout, s
  <2>8. PerVal = w
    BY <1>1 DEF PerVal, w
  <2> QED
    BY <1>1, <2>2, <2>5, <2>6, <2>7, <2>8 DEF PaidBack
<1>2. CASE ~intern
  <2> DEFINE s == v.direct
  <2>1. v.tab = <<>> /\ v.ids = <<>> /\ v.idW = 0 /\ Len(s) = m /\ s \in Seq(Values)
    BY <1>2 DEF Rows, Laid, ValsLayout
  <2>2. v = [NoVals EXCEPT !.direct = s]
    BY <2>1 DEF ValsLayout, NoVals
  <2> HIDE DEF s
  <2>3. s # <<>>
    BY <2>1
  <2>4. \A k \in 1..Len(s) : Sequence(s[k]) /\ Len(s[k]) = ValLen
    <3> SUFFICES ASSUME NEW k \in 1..Len(s) PROVE Sequence(s[k]) /\ Len(s[k]) = ValLen
      OBVIOUS
    <3>1. s[k] \in Values
      BY <2>1
    <3>2. s[k] \in [1..ValLen -> 0..ByteSize - 1]
      BY <3>1, ArtifactAssumption
    <3> DEFINE x == s[k]
    <3>3. x = [i \in 1..ValLen |-> x[i]]
      BY <3>2
    <3> HIDE DEF x
    <3>4. Sequence(x) /\ Len(x) = ValLen
      BY <1>0, <3>3, FunctionIsSequence
    <3> QED
      BY <3>4 DEF x
  <2>5. Sequence(s)
    BY <2>1, SeqIsSequence
  <2>6. /\ Sequence(Blocks(s, ValLen)) /\ Len(Blocks(s, ValLen)) = Len(s) * ValLen
        /\ Unblock(Blocks(s, ValLen), ValLen) = s
    BY <1>0, <2>4, <2>5, BlocksBack
  <2>7. payload(BuiltMap, v) = Blocks(s, ValLen)
    BY <1>0, <2>3 DEF payload, s
  <2>8. PerVal = ValLen
    BY <1>2 DEF PerVal
  <2> QED
    BY <1>2, <2>1, <2>2, <2>6, <2>7, <2>8 DEF PaidBack
<1> QED
  BY <1>1, <1>2

(* The value table is written once, from whichever family has it.          *)
LEMMA TableBack ==
    ASSUME Complete, intern
    PROVE  /\ Sequence(tabBytes(BuiltMap)) /\ Len(tabBytes(BuiltMap)) = Len(tab) * ValLen
           /\ Unblock(tabBytes(BuiltMap), ValLen) = tab
<1>1. BuiltMap.valLen = ValLen /\ ValLen \in Nat \ {0} /\ BuiltMap.s4 = s4 /\ BuiltMap.s6 = s6
  BY ArtifactAssumption, WrongWidthAssumption DEF BuiltMap
<1>2. Len(tab) \in 1..MaxU32 /\ tab \in Seq(Values)
  BY NumbersAre DEF Complete, IInv, TypeOK
<1>3. s4.vals.tab \in {tab, <<>>} /\ s6.vals.tab = tab
  <2>1. CASE stats.Addrs4 = 0
    BY <2>1 DEF Complete, LInv, Finished, Rows, Nil4, NoVals
  <2>2. CASE stats.Addrs4 # 0
    <3>1. stats.Addrs4 > 0
      BY <2>2 DEF Complete, IInv, TypeOK, Statistics
    <3> QED
      BY <3>1 DEF Complete, LInv, Finished, Rows
  <2> QED
    BY <2>1, <2>2
<1>4. tab # <<>>
  BY <1>2
<1>5. tabBytes(BuiltMap) = Blocks(tab, ValLen)
  BY <1>1, <1>3, <1>4 DEF tabBytes
<1>6. \A k \in 1..Len(tab) : Sequence(tab[k]) /\ Len(tab[k]) = ValLen
  <2> SUFFICES ASSUME NEW k \in 1..Len(tab) PROVE Sequence(tab[k]) /\ Len(tab[k]) = ValLen
    OBVIOUS
  <2>1. tab[k] \in Values
    BY <1>2
  <2>2. tab[k] \in [1..ValLen -> 0..ByteSize - 1]
    BY <2>1, ArtifactAssumption
  <2> DEFINE x == tab[k]
  <2>3. x = [i \in 1..ValLen |-> x[i]]
    BY <2>2
  <2> HIDE DEF x
  <2>4. Sequence(x) /\ Len(x) = ValLen
    BY <1>1, <2>3, FunctionIsSequence
  <2> QED
    BY <2>4 DEF x
<1>7. Sequence(tab)
  BY <1>2, SeqIsSequence
<1> QED
  BY <1>1, <1>5, <1>6, <1>7, BlocksBack

\* The sections of a finished Map, as they are read back.
SectionsBack(secs) ==
    /\ stats.Addrs4 > 0 => /\ secs[1] = s4.idx /\ secs[2] = s4.suffix
                           /\ PaidBack(secs[3], s4.vals, stats.Addrs4)
    /\ stats.Addrs4 = 0 => secs[1] = <<>> /\ secs[2] = <<>> /\ secs[3] = <<>>
    /\ stats.Addrs6 > 0 => /\ Len(secs[4]) = 2 * Len(s6.prefix) /\ u64view(secs[4]) = s6.prefix
                           /\ secs[5] = s6.pidx
                           /\ Len(secs[6]) = 2 * Len(s6.suffix) /\ u64view(secs[6]) = s6.suffix
                           /\ PaidBack(secs[7], s6.vals, stats.Addrs6)
    /\ stats.Addrs6 = 0 => /\ secs[4] = <<>> /\ secs[5] = <<>> /\ secs[6] = <<>>
                           /\ secs[7] = <<>>
    /\ IF intern THEN Len(secs[8]) = Len(tab) * ValLen /\ Unblock(secs[8], ValLen) = tab
                 ELSE secs[8] = <<>>

(* What WriteTo lays end to end, openBytes takes apart again.              *)
LEMMA MapBack == ASSUME Complete PROVE SectionsBack(sections(BuiltMap))
<1> DEFINE m == BuiltMap
           secs == sections(m)
<1>1. m.s4 = s4 /\ m.s6 = s6 /\ m.stats = stats /\ interned(m) = intern
  BY NumbersAre DEF BuiltMap
<1>2. /\ s4.vals \in ValsLayout /\ s6.vals \in ValsLayout
      /\ s6.prefix \in Seq(Nat) /\ s6.suffix \in Seq(Nat) /\ s6.pidx \in Seq(0..MaxU32)
      /\ stats.Addrs4 \in Nat /\ stats.Addrs6 \in Nat
  BY DEF Complete, IInv, TypeOK, Store4, Store6, Statistics
<1>3. /\ stats.Addrs4 > 0 => Rows(s4.vals, stats.Addrs4)
      /\ Len(s6.pidx) = Len(s6.prefix) + 1 /\ Rows(s6.vals, stats.Addrs6)
  BY DEF Complete, LInv, Finished
<1>4. (stats.Addrs4 > 0 => Laid(s4.vals)) /\ Laid(s6.vals)
  <2>1. pc = "done" /\ (s4 = Nil4 \/ Laid(s4.vals)) /\ Laid(s6.vals)
    BY DEF Complete, LInv, Layouts
  <2>2. stats.Addrs4 > 0 => s4 # Nil4
    <3> SUFFICES ASSUME stats.Addrs4 > 0, s4 = Nil4 PROVE FALSE
      OBVIOUS
    <3>1. Len(s4.suffix) = stats.Addrs4
      BY DEF Complete, LInv, Finished
    <3>2. Len(s4.suffix) = 0
      BY DEF Nil4
    <3> QED
      BY <1>2, <3>1, <3>2
  <2> QED
    BY <2>1, <2>2
<1>5. /\ stats.Addrs4 > 0 => PaidBack(payload(m, s4.vals), s4.vals, stats.Addrs4)
      /\ stats.Addrs6 > 0 => PaidBack(payload(m, s6.vals), s6.vals, stats.Addrs6)
  BY <1>2, <1>3, <1>4, PayloadBack
<1>6. /\ Len(u64bytes(s6.prefix)) = 2 * Len(s6.prefix) /\ u64view(u64bytes(s6.prefix)) = s6.prefix
      /\ Len(u64bytes(s6.suffix)) = 2 * Len(s6.suffix) /\ u64view(u64bytes(s6.suffix)) = s6.suffix
  BY <1>2, WordsBack
<1>7. SubSeq(s6.pidx, 1, Len(s6.prefix) + 1) = s6.pidx
  <2> DEFINE l == Len(s6.pidx)
             u == SubSeq(s6.pidx, 1, l)
  <2>1. l = Len(s6.prefix) + 1 /\ l \in Nat
    BY <1>2, <1>3
  <2> HIDE DEF l
  <2>2. Sequence(u) /\ Len(u) = l /\ \A j \in 1..l : u[j] = s6.pidx[j]
    BY <2>1, FrontCells
  <2> HIDE DEF u
  <2>3. Sequence(s6.pidx) /\ Len(s6.pidx) = l
    BY <1>2, SeqIsSequence DEF l
  <2>4. u = s6.pidx
    BY <2>2, <2>3, SameSequence
  <2> QED
    BY <2>1, <2>4 DEF u, l
<1>8. intern => Len(tabBytes(m)) = Len(tab) * ValLen /\ Unblock(tabBytes(m), ValLen) = tab
  BY TableBack
<1> HIDE DEF m
<1>9. /\ secs[1] = IF stats.Addrs4 > 0 THEN s4.idx ELSE <<>>
      /\ secs[2] = IF stats.Addrs4 > 0 THEN s4.suffix ELSE <<>>
      /\ secs[3] = IF stats.Addrs4 > 0 THEN payload(m, s4.vals) ELSE <<>>
      /\ secs[4] = IF stats.Addrs6 > 0 THEN u64bytes(s6.prefix) ELSE <<>>
      /\ secs[5] = IF stats.Addrs6 > 0 THEN SubSeq(s6.pidx, 1, Len(s6.prefix) + 1) ELSE <<>>
      /\ secs[6] = IF stats.Addrs6 > 0 THEN u64bytes(s6.suffix) ELSE <<>>
      /\ secs[7] = IF stats.Addrs6 > 0 THEN payload(m, s6.vals) ELSE <<>>
      /\ secs[8] = IF intern THEN tabBytes(m) ELSE <<>>
  BY <1>1 DEF sections
<1> HIDE DEF secs
<1>10. (stats.Addrs4 = 0 => ~(stats.Addrs4 > 0)) /\ (stats.Addrs6 = 0 => ~(stats.Addrs6 > 0))
  OBVIOUS
<1>11. SectionsBack(secs)
  BY <1>5, <1>6, <1>7, <1>8, <1>9, <1>10 DEF SectionsBack
<1> QED
  BY <1>11 DEF secs, m

(* The header calls for the lengths the sections have.                     *)
LEMMA SectionsCalled ==
    ASSUME Complete PROVE Called(Fields(BuiltMap), sections(BuiltMap))
<1> DEFINE h == numbers(Fields(BuiltMap))
           secs == sections(BuiltMap)
           p == PerVal
<1>1. /\ h.n4 = stats.Addrs4 /\ h.n6 = stats.Addrs6 /\ h.np = Len(s6.prefix)
      /\ h.interned = intern /\ h.valLen = ValLen
      /\ h.idW = (IF intern THEN idWidth(Len(tab)) ELSE 0)
      /\ (intern => h.distinct = Len(tab))
  BY NumbersAre
<1>2. SectionsBack(secs)
  BY MapBack
<1>3. (IF h.interned THEN h.idW ELSE h.valLen) = p
  BY <1>1 DEF PerVal
<1>4. /\ stats.Addrs4 \in Nat /\ stats.Addrs6 \in Nat
      /\ stats.Addrs4 > 0 => Len(s4.idx) = Groups4 + 1 /\ Len(s4.suffix) = stats.Addrs4
      /\ Len(s6.pidx) = Len(s6.prefix) + 1 /\ Len(s6.suffix) = stats.Addrs6
  BY DEF Complete, LInv, Finished, IInv, TypeOK, Statistics
<1>5. Len(<<>>) = 0
  OBVIOUS
<1>6. expect(h) = <<IF stats.Addrs4 > 0 THEN Groups4 + 1 ELSE 0,
                    IF stats.Addrs4 > 0 THEN stats.Addrs4 ELSE 0,
                    IF stats.Addrs4 > 0 THEN stats.Addrs4 * p ELSE 0,
                    IF stats.Addrs6 > 0 THEN 2 * Len(s6.prefix) ELSE 0,
                    IF stats.Addrs6 > 0 THEN Len(s6.prefix) + 1 ELSE 0,
                    IF stats.Addrs6 > 0 THEN 2 * stats.Addrs6 ELSE 0,
                    IF stats.Addrs6 > 0 THEN stats.Addrs6 * p ELSE 0,
                    IF intern THEN Len(tab) * ValLen ELSE 0>>
  <2> HIDE DEF h, p
  <2> QED
    BY <1>1, <1>3 DEF expect
<1> HIDE DEF h, secs, p
<1>7. /\ expect(h)[1] = Len(secs[1]) /\ expect(h)[2] = Len(secs[2]) /\ expect(h)[3] = Len(secs[3])
  <2>1. CASE stats.Addrs4 > 0
    <3>1. /\ secs[1] = s4.idx /\ secs[2] = s4.suffix /\ Len(secs[3]) = stats.Addrs4 * p
      BY <1>2, <2>1 DEF SectionsBack, PaidBack, p
    <3>2. /\ expect(h)[1] = Groups4 + 1 /\ expect(h)[2] = stats.Addrs4
          /\ expect(h)[3] = stats.Addrs4 * p
      BY <1>6, <2>1
    <3> QED
      BY <1>4, <2>1, <3>1, <3>2
  <2>2. CASE stats.Addrs4 = 0
    BY <1>2, <1>5, <1>6, <2>2 DEF SectionsBack
  <2> QED
    BY <1>4, <2>1, <2>2
<1>8. /\ expect(h)[4] = Len(secs[4]) /\ expect(h)[5] = Len(secs[5])
      /\ expect(h)[6] = Len(secs[6]) /\ expect(h)[7] = Len(secs[7])
  <2>1. CASE stats.Addrs6 > 0
    BY <1>2, <1>4, <1>6, <2>1 DEF SectionsBack, PaidBack, p
  <2>2. CASE stats.Addrs6 = 0
    BY <1>2, <1>5, <1>6, <2>2 DEF SectionsBack
  <2> QED
    BY <1>4, <2>1, <2>2
<1>9. expect(h)[8] = Len(secs[8])
  BY <1>2, <1>5, <1>6 DEF SectionsBack
<1>10. \A i \in Slots : i = 1 \/ i = 2 \/ i = 3 \/ i = 4 \/ i = 5 \/ i = 6 \/ i = 7 \/ i = 8
  BY DEF Slots
<1>11. \A i \in Slots : expect(h)[i] = Len(secs[i])
  BY <1>7, <1>8, <1>9, <1>10
<1> QED
  BY <1>11 DEF Called, h, secs

\* The values openBytes views in a payload and a value table.
ValsFrom(h, s, t) ==
    IF h.interned THEN [direct |-> <<>>, tab |-> Unblock(t, h.valLen),
                        ids |-> Unblock(s, h.idW), idW |-> h.idW]
                  ELSE [NoVals EXCEPT !.direct = Unblock(s, h.valLen)]

(* The Map that openBytes assembles has the numbers of the header and the  *)
(* contents of the sections (format.go).                                   *)
LEMMA Assembled ==
    ASSUME NEW f, NEW fields, NEW secs, OpensAs(f, fields, secs), NEW h, h = numbers(fields)
    PROVE  assemble(f) =
             [valLen |-> h.valLen, epoch |-> h.epoch,
              stats |-> [Addrs4 |-> h.n4, Addrs6 |-> h.n6, Dups |-> h.dups,
                         DupConflicts |-> h.confl, Distinct |-> h.distinct],
              s4 |-> IF h.n4 = 0 THEN Nil4
                     ELSE [idx |-> secs[1], suffix |-> secs[2],
                           vals |-> ValsFrom(h, secs[3], secs[8])],
              s6 |-> IF h.n6 = 0 THEN Nil6
                     ELSE [prefix |-> u64view(secs[4]), pidx |-> secs[5],
                           suffix |-> u64view(secs[6]),
                           vals |-> ValsFrom(h, secs[7], secs[8])]]
<1>1. numbers(f) = h /\ \A i \in Slots : SectionOf(f, i) = secs[i]
  BY DEF OpensAs
<1>2. /\ SectionOf(f, 1) = secs[1] /\ SectionOf(f, 2) = secs[2] /\ SectionOf(f, 3) = secs[3]
      /\ SectionOf(f, 4) = secs[4] /\ SectionOf(f, 5) = secs[5] /\ SectionOf(f, 6) = secs[6]
      /\ SectionOf(f, 7) = secs[7] /\ SectionOf(f, 8) = secs[8]
  BY <1>1 DEF Slots
<1>3. assemble(f) =
        [valLen |-> numbers(f).valLen, epoch |-> numbers(f).epoch,
         stats |-> [Addrs4 |-> numbers(f).n4, Addrs6 |-> numbers(f).n6,
                    Dups |-> numbers(f).dups, DupConflicts |-> numbers(f).confl,
                    Distinct |-> numbers(f).distinct],
         s4 |-> IF numbers(f).n4 = 0 THEN Nil4
                ELSE [idx |-> SectionOf(f, 1), suffix |-> SectionOf(f, 2),
                      vals |-> ValsFrom(numbers(f), SectionOf(f, 3), SectionOf(f, 8))],
         s6 |-> IF numbers(f).n6 = 0 THEN Nil6
                ELSE [prefix |-> u64view(SectionOf(f, 4)), pidx |-> SectionOf(f, 5),
                      suffix |-> u64view(SectionOf(f, 6)),
                      vals |-> ValsFrom(numbers(f), SectionOf(f, 7), SectionOf(f, 8))]]
  BY Zenon DEF assemble, ValsFrom, SectionOf
<1> QED
  BY <1>1, <1>2, <1>3

\* The Map that is served: as built, with an empty 128-bit store left out.
Returned == [valLen |-> ValLen, epoch |-> Epoch, stats |-> stats, s4 |-> s4,
             s6 |-> IF stats.Addrs6 = 0 THEN Nil6 ELSE s6]

(* A whole file is accepted, and is the Map that was built: openBytes is   *)
(* the inverse of WriteTo.                                                 *)
LEMMA OpensWhole ==
    ASSUME Complete, (Groups4 - 1) * Octets < MaxU32, NEW f, f = Serialised(BuiltMap)
    PROVE  openBytes(f) = "ok" /\ assemble(f) = Returned
<1> DEFINE fields == Fields(BuiltMap)
           secs == sections(BuiltMap)
           h == numbers(fields)
<1>1. fields[1] = Magic /\ fields[2] = 1 /\ fields[3] \in {0, 1}
  BY DEF Fields
<1>2. FieldCells(fields) /\ Payloads(secs)
  BY FieldsHold, SectionsHold DEF Complete, IInv
<1>3. Called(fields, secs) /\ counts(h)
  BY SectionsCalled, CountsPass
<1>4. f = Sealed(fields, secs)
  BY DEF Serialised
<1>5. SectionsBack(secs)
  BY MapBack
<1>6. /\ h.n4 = stats.Addrs4 /\ h.n6 = stats.Addrs6
      /\ h.dups = stats.Dups /\ h.confl = stats.DupConflicts /\ h.distinct = stats.Distinct
      /\ h.interned = intern /\ h.valLen = ValLen /\ h.epoch = Epoch
      /\ h.idW = (IF intern THEN idWidth(Len(tab)) ELSE 0)
  BY NumbersAre
<1>7. /\ stats \in Statistics /\ s4 \in Store4 /\ s6 \in Store6
      /\ stats.Addrs4 = 0 => s4 = Nil4
  BY DEF Complete, IInv, TypeOK, LInv, Finished
<1> HIDE DEF fields, secs
<1>8. OpensAs(f, fields, secs)
  BY <1>1, <1>2, <1>3, <1>4, SealedOpens
<1>9. assemble(f) =
        [valLen |-> h.valLen, epoch |-> h.epoch,
         stats |-> [Addrs4 |-> h.n4, Addrs6 |-> h.n6, Dups |-> h.dups,
                    DupConflicts |-> h.confl, Distinct |-> h.distinct],
         s4 |-> IF h.n4 = 0 THEN Nil4
                ELSE [idx |-> secs[1], suffix |-> secs[2],
                      vals |-> ValsFrom(h, secs[3], secs[8])],
         s6 |-> IF h.n6 = 0 THEN Nil6
                ELSE [prefix |-> u64view(secs[4]), pidx |-> secs[5],
                      suffix |-> u64view(secs[6]),
                      vals |-> ValsFrom(h, secs[7], secs[8])]]
  BY <1>8, Assembled
<1> HIDE DEF h
<1>10. ASSUME NEW v, NEW b, NEW m, PaidBack(b, v, m) PROVE ValsFrom(h, b, secs[8]) = v
  <2>1. CASE intern
    <3>1. PerVal = h.idW /\ v = [direct |-> <<>>, tab |-> tab, ids |-> Unblock(b, PerVal), idW |-> PerVal]
      BY <1>6, <1>10, <2>1 DEF PaidBack, PerVal
    <3>2. Unblock(secs[8], ValLen) = tab
      BY <1>5, <2>1 DEF SectionsBack
    <3> QED
      BY <1>6, <2>1, <3>1, <3>2 DEF ValsFrom
  <2>2. CASE ~intern
    <3>1. PerVal = ValLen /\ v = [NoVals EXCEPT !.direct = Unblock(b, PerVal)]
      BY <1>10, <2>2 DEF PaidBack, PerVal
    <3> QED
      BY <1>6, <2>2, <3>1 DEF ValsFrom
  <2> QED
    BY <2>1, <2>2
<1>11. stats = [Addrs4 |-> h.n4, Addrs6 |-> h.n6, Dups |-> h.dups,
                DupConflicts |-> h.confl, Distinct |-> h.distinct]
  BY <1>6, <1>7 DEF Statistics
<1>12. (IF h.n4 = 0 THEN Nil4
        ELSE [idx |-> secs[1], suffix |-> secs[2], vals |-> ValsFrom(h, secs[3], secs[8])]) = s4
  <2>1. CASE stats.Addrs4 = 0
    BY <1>6, <1>7, <2>1
  <2>2. CASE stats.Addrs4 # 0
    <3>1. stats.Addrs4 > 0
      BY <1>7, <2>2 DEF Statistics
    <3>2. secs[1] = s4.idx /\ secs[2] = s4.suffix /\ ValsFrom(h, secs[3], secs[8]) = s4.vals
      BY <1>5, <1>10, <3>1 DEF SectionsBack
    <3>3. s4 = [idx |-> s4.idx, suffix |-> s4.suffix, vals |-> s4.vals]
      BY <1>7 DEF Store4
    <3> QED
      BY <1>6, <2>2, <3>2, <3>3
  <2> QED
    BY <2>1, <2>2
<1>13. (IF h.n6 = 0 THEN Nil6
        ELSE [prefix |-> u64view(secs[4]), pidx |-> secs[5], suffix |-> u64view(secs[6]),
              vals |-> ValsFrom(h, secs[7], secs[8])])
         = IF stats.Addrs6 = 0 THEN Nil6 ELSE s6
  <2>1. CASE stats.Addrs6 = 0
    BY <1>6, <2>1
  <2>2. CASE stats.Addrs6 # 0
    <3>1. stats.Addrs6 > 0
      BY <1>7, <2>2 DEF Statistics
    <3>2. /\ u64view(secs[4]) = s6.prefix /\ secs[5] = s6.pidx /\ u64view(secs[6]) = s6.suffix
          /\ ValsFrom(h, secs[7], secs[8]) = s6.vals
      BY <1>5, <1>10, <3>1 DEF SectionsBack
    <3>3. s6 = [prefix |-> s6.prefix, pidx |-> s6.pidx, suffix |-> s6.suffix, vals |-> s6.vals]
      BY <1>7 DEF Store6
    <3> QED
      BY <1>6, <2>2, <3>2, <3>3
  <2> QED
    BY <2>1, <2>2
<1>14. assemble(f) = Returned
  BY <1>6, <1>9, <1>11, <1>12, <1>13 DEF Returned
<1>15. validate(stats, s4, s6) = "ok"
  BY DEF Complete, FInv, Serves
<1>16. \A x : stats.Addrs6 = 0 => validate(stats, s4, x) = validate(stats, s4, s6)
  BY DEF validate, validate6, validateIDs
<1>17. validated(assemble(f)) = "ok"
  BY <1>14, <1>15, <1>16 DEF Returned, validated
<1> QED
  BY <1>8, <1>14, <1>17 DEF OpensAs, openBytes

-----------------------------------------------------------------------------
(* What the text says is what the history has.                             *)

\* The number of the entry on line k of t, or of the last one before it.
Nth(t, k) == Cardinality(EntriesIn(t, k))

(* The entries are numbered in the order of their lines.                   *)
LEMMA NumberedInOrder ==
    ASSUME NEW t \in Seq(Lines)
    PROVE  /\ Nth(t, 0) = 0
           /\ \A k \in 0..Len(t) : Nth(t, k) \in Nat
           /\ \A k \in 1..Len(t) : Nth(t, k) = Nth(t, k - 1) + IF t[k].fields = 0 THEN 0 ELSE 1
           /\ \A j, k \in 0..Len(t) : j <= k => Nth(t, j) <= Nth(t, k)
<1>1. Nth(t, 0) = 0
  BY FS_EmptySet DEF Nth, EntriesIn
<1>2. \A k \in 0..Len(t) : IsFiniteSet(EntriesIn(t, k)) /\ Nth(t, k) \in Nat
  BY EntriesCount DEF Nth
<1>3. ASSUME NEW k \in 1..Len(t)
      PROVE  Nth(t, k) = Nth(t, k - 1) + IF t[k].fields = 0 THEN 0 ELSE 1
  <2>1. k - 1 \in 0..Len(t) /\ k \in 0..Len(t) /\ k \in Nat
    OBVIOUS
  <2>2. 1..k = (1..k - 1) \cup {k} /\ k \notin 1..k - 1
    BY <2>1
  <2> DEFINE E == EntriesIn(t, k - 1)
             F == EntriesIn(t, k)
  <2>3. CASE t[k].fields = 0
    <3>1. F = E
      BY <2>2, <2>3 DEF EntriesIn
    <3> QED
      BY <1>2, <2>1, <2>3, <3>1 DEF Nth
  <2>4. CASE t[k].fields # 0
    <3>1. F = E \cup {k} /\ k \notin E
      BY <2>2, <2>4 DEF EntriesIn
    <3>2. IsFiniteSet(E)
      BY <1>2, <2>1
    <3> HIDE DEF E, F
    <3>3. Cardinality(F) = Cardinality(E) + 1
      BY <3>1, <3>2, FS_AddElement
    <3> QED
      BY <2>4, <3>3 DEF Nth, E, F
  <2> QED
    BY <2>3, <2>4
<1>4. ASSUME NEW j \in 0..Len(t), NEW k \in 0..Len(t), j <= k
      PROVE  Nth(t, j) <= Nth(t, k)
  <2>1. j \in 0..k
    BY <1>4
  <2> QED
    BY <2>1, EntriesCount DEF Nth
<1> QED
  BY <1>1, <1>2, <1>3, <1>4

(* Every number has its line, and lines with entries have their own.       *)
LEMMA LineOf ==
    ASSUME NEW t \in Seq(Lines), NEW q \in 1..Nth(t, Len(t))
    PROVE  \E k \in 1..Len(t) : t[k].fields # 0 /\ Nth(t, k) = q
<1> DEFINE T == {k \in Nat : k \in 0..Len(t) /\ Nth(t, k) >= q}
<1>1. Len(t) \in Nat /\ Len(t) \in 0..Len(t) /\ Nth(t, Len(t)) \in Nat /\ q \in Nat /\ q >= 1
  BY NumberedInOrder
<1>2. T # {} /\ T \in SUBSET Nat
  <2>1. Nth(t, Len(t)) >= q
    BY <1>1
  <2> QED
    BY <1>1, <2>1
<1>3. PICK k \in T : \A j \in T : k <= j
  BY <1>2, LeastNat
<1>4. k \in 0..Len(t) /\ Nth(t, k) >= q /\ k \in Nat
  BY <1>3
<1>5. k # 0
  BY <1>1, <1>4, NumberedInOrder
<1>6. k \in 1..Len(t) /\ k - 1 \in 0..Len(t) /\ k - 1 \in Nat /\ ~(k <= k - 1)
  BY <1>4, <1>5
<1>7. ~(Nth(t, k - 1) >= q)
  BY <1>3, <1>6
<1> HIDE DEF T
<1>8. /\ Nth(t, k) = Nth(t, k - 1) + IF t[k].fields = 0 THEN 0 ELSE 1
      /\ Nth(t, k - 1) \in Nat
  BY <1>6, NumberedInOrder
<1>9. t[k].fields # 0 /\ Nth(t, k) = q
  BY <1>1, <1>4, <1>7, <1>8
<1> QED
  BY <1>6, <1>9

(* Of two lines with entries, the later has the higher number.             *)
LEMMA LaterIsHigher ==
    ASSUME NEW t \in Seq(Lines), NEW j \in 1..Len(t), NEW k \in 1..Len(t),
           t[j].fields # 0, Nth(t, k) <= Nth(t, j), t[k].fields # 0
    PROVE  k <= j
<1>1. /\ k \in Nat /\ j \in Nat /\ k - 1 \in 0..Len(t) /\ j \in 0..Len(t)
      /\ Nth(t, k - 1) \in Nat /\ Nth(t, j) \in Nat /\ Nth(t, k) \in Nat
      /\ Nth(t, k) = Nth(t, k - 1) + 1
  BY NumberedInOrder
<1> SUFFICES ASSUME k > j PROVE FALSE
  BY <1>1
<1>2. j <= k - 1
  BY <1>1
<1>3. Nth(t, j) <= Nth(t, k - 1)
  BY <1>1, <1>2, NumberedInOrder
<1> QED
  BY <1>1, <1>3

(* The last line that names a host has its last put (parseSpec, Add).      *)
LEMMA LastLineIsLastPut ==
    ASSUME text \in Seq(Lines), log \in Seq(PutRecords), HasEntries(log, text), NEW a,
           NamesHost(a)
    PROVE  Specified(a) = Answer(Names(a))
<1> DEFINE h == Names(a)
           N == LinesNaming(a)
           P == PutsOf(h)
           c(k) == Nth(text, k)
<1>1. /\ Len(log) = c(Len(text)) /\ Len(text) \in Nat /\ Len(log) \in Nat
      /\ DOMAIN text = 1..Len(text) /\ DOMAIN log = 1..Len(log)
      /\ \A k \in 1..Len(text) : text[k].fields # 0 => log[c(k)] = PutOf(text[k])
  BY DEF HasEntries, Nth
<1>2. N = {k \in 1..Len(text) : text[k].fields # 0 /\ Names(text[k].addr) = h}
  BY <1>1 DEF LinesNaming, EntryAt
<1>3. \A k \in 1..Len(text) : c(k) \in 0..Len(log) /\ (text[k].fields # 0 => c(k) \in 1..Len(log))
  <2> SUFFICES ASSUME NEW k \in 1..Len(text)
               PROVE  c(k) \in 0..Len(log) /\ (text[k].fields # 0 => c(k) \in 1..Len(log))
    OBVIOUS
  <2>1. k \in 0..Len(text) /\ Len(text) \in 0..Len(text) /\ k <= Len(text) /\ k - 1 \in 0..Len(text)
    BY <1>1
  <2>2. /\ c(k) \in Nat /\ c(k) <= c(Len(text)) /\ c(k - 1) \in Nat
        /\ c(k) = c(k - 1) + IF text[k].fields = 0 THEN 0 ELSE 1
    BY <2>1, NumberedInOrder
  <2> HIDE DEF c
  <2> QED
    BY <1>1, <2>2
<1>4. \A k \in N : c(k) \in P /\ log[c(k)].val = text[k].val
  <2> SUFFICES ASSUME NEW k \in N PROVE c(k) \in P /\ log[c(k)].val = text[k].val
    OBVIOUS
  <2>1. k \in 1..Len(text) /\ text[k].fields # 0 /\ Names(text[k].addr) = h
    BY <1>2
  <2>2. log[c(k)] = PutOf(text[k]) /\ c(k) \in DOMAIN log
    BY <1>1, <1>3, <2>1
  <2>3. log[c(k)].host = h /\ log[c(k)].val = text[k].val
    BY <2>1, <2>2 DEF PutOf, Names
  <2> QED
    BY <2>2, <2>3 DEF PutsOf
<1>5. \A q \in P : \E k \in N : c(k) = q
  <2> SUFFICES ASSUME NEW q \in P PROVE \E k \in N : c(k) = q
    OBVIOUS
  <2>1. q \in 1..Nth(text, Len(text)) /\ log[q].host = h
    BY <1>1 DEF PutsOf
  <2>2. PICK k \in 1..Len(text) : text[k].fields # 0 /\ Nth(text, k) = q
    BY <2>1, LineOf
  <2>3. log[q] = PutOf(text[k])
    BY <1>1, <2>2
  <2>4. Names(text[k].addr) = h
    BY <2>1, <2>3 DEF PutOf, Names
  <2> QED
    BY <1>2, <2>2, <2>4
<1> HIDE DEF c, h
<1>6. CASE N = {}
  <2>1. P = {}
    BY <1>5, <1>6
  <2>2. Specified(a) = Miss
    BY <1>6 DEF Specified
  <2>3. Answer(h) = Miss
    BY <2>1 DEF Answer
  <2> QED
    BY <2>2, <2>3 DEF h
<1>7. CASE N # {}
  <2> DEFINE K == Max(N)
  <2>1. N \in SUBSET Nat /\ \A k \in N : k <= Len(text)
    BY <1>2
  <2> HIDE DEF N, P
  <2>2. K \in N /\ \A k \in N : k <= K
    BY <1>1, <1>7, <2>1, MaxIs
  <2> HIDE DEF K
  <2>3. c(K) \in P
    BY <1>4, <2>2
  <2>4. ASSUME NEW q \in P PROVE q <= c(K)
    <3>1. PICK k \in N : c(k) = q
      BY <1>5
    <3>2. k \in 1..Len(text) /\ k \in 0..Len(text) /\ K \in 0..Len(text) /\ k <= K
      BY <1>1, <1>2, <2>2 DEF N
    <3>3. c(k) <= c(K)
      BY <3>2, NumberedInOrder DEF c
    <3> QED
      BY <3>1, <3>3
  <2>5. P \in SUBSET Nat /\ P # {}
    BY <1>1, <2>3 DEF P, PutsOf
  <2>6. c(K) \in Nat
    BY <2>3, <2>5
  <2>7. Max(P) \in P /\ \A q \in P : q <= Max(P)
    BY <2>4, <2>5, <2>6, MaxIs
  <2>8. Max(P) = c(K)
    <3>1. Max(P) <= c(K) /\ c(K) <= Max(P) /\ Max(P) \in Nat
      BY <2>3, <2>4, <2>5, <2>7
    <3> QED
      BY <2>6, <3>1
  <2>9. Specified(a) = text[K].val
    BY <1>7 DEF Specified, N, K
  <2>10. Answer(h) = log[c(K)].val
    BY <2>5, <2>8 DEF Answer, P
  <2> QED
    BY <1>4, <2>2, <2>9, <2>10 DEF h
<1> QED
  BY <1>6, <1>7

(* An address that names no host is on no line (NamesHost).                *)
LEMMA NoHostIsMiss == ASSUME NEW a, ~NamesHost(a) PROVE Specified(a) = Miss
  BY DEF Specified, LinesNaming

(* A 128-bit store without prefixes has no answers (lookup6).              *)
LEMMA NoPrefixMisses == ASSUME NEW s, NEW a, Len(s.prefix) = 0 PROVE lookup6(s, a) = Miss
<1> DEFINE above == [k \in 0..0 - 1 |-> s.prefix[k + 1] >= a.hi]
           i == Search(0, above)
<1>1. 0 \in Nat /\ \A k, l \in 0..0 - 1 : k <= l /\ above[k] => above[l]
  OBVIOUS
<1> HIDE DEF above
<1>2. Search(0, above) \in 0..0
  BY <1>1, SearchLeast
<1>3. i = 0
  BY <1>2
<1> HIDE DEF i
<1>4. lookup6(s, a) = IF i = 0 \/ s.prefix[i + 1] # a.hi THEN Miss
       ELSE LET lo == s.pidx[i + 1]
                hi == s.pidx[i + 2]
            IN IF lo > hi \/ hi > Len(s.suffix) THEN Fault
               ELSE LET j == Search(hi - lo, [k \in 0..hi - lo - 1 |->
                                                 s.suffix[lo + k + 1] >= a.lo])
                    IN IF j = hi - lo \/ s.suffix[lo + j + 1] # a.lo THEN Miss
                       ELSE get(s.vals, lo + j)
  BY ZenonT(60) DEF lookup6, i, above
<1> QED
  BY <1>3, <1>4

(* The Map that is served answers as the one that was built.               *)
LEMMA ServedAnswers ==
    ASSUME Complete, NEW a \in Inputs
    PROVE  Lookup(Returned.s4, Returned.s6, a) = Lookup(s4, s6, a)
<1>1. Returned.s4 = s4 /\ Returned.s6 = IF stats.Addrs6 = 0 THEN Nil6 ELSE s6
  BY DEF Returned
<1>2. CASE stats.Addrs6 # 0
  BY <1>1, <1>2
<1>3. CASE stats.Addrs6 = 0
  <2>1. Len(s6.prefix) = 0 /\ Len(Nil6.prefix) = 0
    <3>1. Len(s6.prefix) <= 0 /\ Len(s6.prefix) \in Nat
      BY <1>3 DEF Complete, LInv, Finished, IInv, TypeOK, Store6
    <3> QED
      BY <3>1 DEF Nil6
  <2>2. \A u : lookup6(s6, u) = Miss /\ lookup6(Nil6, u) = Miss
    BY <2>1, NoPrefixMisses
  <2> QED
    BY <1>1, <1>3, <2>2 DEF Lookup
<1> QED
  BY <1>2, <1>3

-----------------------------------------------------------------------------
(* What is served.                                                         *)

\* Only a spec without errors is compiled, and what was read is still there: an
\* empty file is one that the writer of a compiled Map has just created.
ReadInv ==
    /\ built => outcome.is = "ok"
    /\ Read => /\ file # <<>> \/ built
               /\ verdict = openBytes(file)
               /\ verdict = "ok" => opened = assemble(file)

(* Steps that leave the Builder, the parser's outcome or the file alone.   *)
LEMMA NextReadInv == IInv /\ ReadInv /\ [CommandNext]_<<pvars, avars>> => ReadInv'
<1> SUFFICES ASSUME IInv, ReadInv, [CommandNext]_<<pvars, avars>> PROVE ReadInv'
  OBVIOUS
<1>0. built <=> pc # "open"
  BY DEF IInv, TypeOK
<1>1. ASSUME UNCHANGED <<file, verdict, opened>>, built => built'
      PROVE  (Read => /\ file # <<>> \/ built
                      /\ verdict = openBytes(file)
                      /\ verdict = "ok" => opened = assemble(file))'
  <2>1. openBytes(file)' = openBytes(file) /\ assemble(file)' = assemble(file)
    BY <1>1
  <2> QED
    BY <1>1, <2>1 DEF ReadInv, Read
<1>2. CASE Parse
  <2>1. UNCHANGED <<file, verdict, opened>>
    BY <1>2 DEF Parse, avars
  <2>2. (built' => outcome'.is = "ok") /\ built' = built
    <3>1. outcome = Running
      BY <1>2 DEF Parse, ParseNext, Skip, Refuse, PanicAt, EntryLine, Scan, ReadFails, EndOfFile,
                  Return
    <3>2. ~built
      BY <3>1 DEF ReadInv, Running
    <3>3. built' = built
      BY <1>2 DEF Parse, ParseNext, Skip, Refuse, PanicAt, EntryLine, Add, AddRefused, ReadFails,
                  EndOfFile, Return, vars
    <3> QED
      BY <3>2, <3>3
  <2> QED
    BY <1>1, <2>1, <2>2 DEF ReadInv
<1>3. CASE Compile
  <2>1. UNCHANGED <<file, verdict, opened>> /\ outcome.is = "ok" /\ outcome' = outcome
    BY <1>3 DEF Compile, avars, parser
  <2>2. built => built'
    <3>1. built => ~Build
      BY DEF Build
    <3>2. Sort4 \/ Deduped4 \/ Count4 \/ Sum4 \/ Filled4 => built' = built
      BY DEF Sort4, Deduped4, Count4, Sum4, Filled4
    <3>3. Sort6 \/ Deduped6 \/ Filled6 \/ Release => built' = built
      BY DEF Sort6, Deduped6, Filled6, Release
    <3>4. Dedupe4 \/ Dedupe6 => built' = built
      BY DEF Dedupe4, Dedupe6, Panic
    <3>5. Fill4 \/ Fill6 => built' = built
      BY DEF Fill4, Fill6, Panic
    <3> QED
      BY <1>3, <3>1, <3>2, <3>3, <3>4, <3>5 DEF Compile, BuildStep
  <2> QED
    BY <1>1, <2>1, <2>2 DEF ReadInv
<1>4. CASE FileNext /\ UNCHANGED parser
  <2>1. UNCHANGED built /\ UNCHANGED outcome
    BY <1>4 DEF FileNext, WriteTo, WriteFails, OpenFile, Flip, Grow, Reseal, Harm, vars, parser
  <2>2. CASE OpenFile
    <3>1. /\ file # <<>> \/ built
          /\ file' = file /\ verdict' = openBytes(file)
          /\ opened' = IF verdict' = "ok" THEN assemble(file) ELSE opened
      BY <1>0, <2>2 DEF OpenFile
    <3>2. openBytes(file)' = openBytes(file) /\ assemble(file)' = assemble(file)
      BY <3>1
    <3> QED
      BY <2>1, <3>1, <3>2 DEF ReadInv
  <2>3. CASE WriteTo \/ WriteFails \/ Flip \/ Grow \/ Reseal
    <3>1. verdict' = "unread"
      BY <2>3 DEF WriteTo, WriteFails, Flip, Grow, Reseal, Harm, Writing
    <3> QED
      BY <2>1, <3>1 DEF ReadInv, Read
  <2> QED
    BY <1>4, <2>2, <2>3 DEF FileNext
<1>5. CASE Foreign
  <2>1. /\ file = <<>> /\ ~built
        /\ verdict' = verdict /\ UNCHANGED built /\ UNCHANGED outcome
    BY <1>0, <1>5 DEF Foreign, Forge, vars, parser
  <2> QED
    BY <2>1 DEF ReadInv, Read
<1>6. CASE UNCHANGED <<pvars, avars>>
  <2>1. UNCHANGED <<file, verdict, opened, built, outcome>>
    BY <1>6 DEF pvars, avars, vars, parser
  <2> QED
    BY <1>1, <2>1 DEF ReadInv
<1> QED
  BY <1>2, <1>3, <1>4, <1>5, <1>6 DEF CommandNext

\* All that holds of a build and of its file.
ServeInv == CommandInv /\ SInv /\ LInv /\ FileInv /\ ReadInv

(* It holds in every build.                                                *)
LEMMA ServeHolds == Command => []ServeInv
<1>1. CommandInit => SInv /\ LInv /\ FileInv /\ ReadInv
  <2> SUFFICES ASSUME CommandInit PROVE SInv /\ LInv /\ FileInv /\ ReadInv
    OBVIOUS
  <2>1. Init /\ built = FALSE /\ verdict = "unread"
    BY DEF CommandInit, ParseInit, Init, FileInit
  <2> QED
    BY <2>1, InitSInv, InitLInv, CInvInit DEF CInv, ReadInv, Read
<1>2. CommandInv /\ CommandInv' /\ SInv /\ LInv /\ FileInv /\ ReadInv
        /\ [CommandNext]_<<pvars, avars>> => SInv' /\ LInv' /\ FileInv' /\ ReadInv'
  <2> SUFFICES ASSUME CommandInv, CommandInv', SInv, LInv, FileInv, ReadInv,
                      [CommandNext]_<<pvars, avars>>
               PROVE  SInv' /\ LInv' /\ FileInv' /\ ReadInv'
    OBVIOUS
  <2>1. [Next]_vars
    BY BuilderMoves DEF pvars
  <2>2. IInv /\ FInv /\ IInv'
    BY DEF CommandInv
  <2> QED
    BY <2>1, <2>2, NextSInv, NextLInv, CInvNext, NextReadInv DEF CInv
<1> QED
  BY <1>1, <1>2, CommandHolds, PTL DEF ServeInv, Command

(* What the spec says is what is served, for every spec, value width, word *)
(* and alignment: the file of a build that wrote it to its end is accepted *)
(* and is the Map that was compiled, and each lookup answers the last line *)
(* of the text that names the address.  The hypothesis is that of          *)
(* BuiltIsValid (parseSpec, builder.go, format.go, store.go).              *)
THEOREM SpecServed ==
    ASSUME (Groups4 - 1) * Octets < MaxU32
    PROVE  Command => []SpecIsServed
<1>1. ServeInv => SpecIsServed
  <2> SUFFICES ASSUME ServeInv, Read, harm = "none", Whole
               PROVE  /\ verdict = "ok"
                      /\ opened.stats = stats /\ opened.epoch = Epoch /\ opened.valLen = ValLen
                      /\ \A a \in Inputs : Lookup(opened.s4, opened.s6, a) = Specified(a)
    BY DEF SpecIsServed
  <2>1. pc = "done" /\ built
    BY DEF ServeInv, FileInv, WriterInv, Read, CommandInv, IInv, TypeOK
  <2>2. log # <<>> /\ HasEntries(log, text) /\ text \in Seq(Lines) /\ log \in Seq(PutRecords)
    BY <2>1 DEF ServeInv, ReadInv, CommandInv, ParserInv, WholeIn, ParseTypeOK, IInv, TypeOK,
                PutRecords
  <2>3. Complete
    BY <2>1, <2>2 DEF ServeInv, CommandInv, Complete
  <2>4. file = Serialised(BuiltMap)
    BY DEF Whole
  <2>5. openBytes(file) = "ok" /\ assemble(file) = Returned
    BY <2>3, <2>4, OpensWhole
  <2>6. verdict = "ok" /\ opened = Returned
    BY <2>5 DEF ServeInv, ReadInv
  <2>7. opened.stats = stats /\ opened.epoch = Epoch /\ opened.valLen = ValLen
    BY <2>6 DEF Returned
  <2>8. AnswersLastWins
    BY LastWinsNow DEF ServeInv, CommandInv
  <2>9. ASSUME NEW a \in Inputs PROVE Lookup(opened.s4, opened.s6, a) = Specified(a)
    <3>1. Lookup(opened.s4, opened.s6, a) = Lookup(s4, s6, a)
      BY <2>3, <2>6, ServedAnswers
    <3>2. Lookup(s4, s6, a) = IF NamesHost(a) THEN Answer(Names(a)) ELSE Miss
      BY <2>1, <2>8 DEF AnswersLastWins
    <3>3. Specified(a) = IF NamesHost(a) THEN Answer(Names(a)) ELSE Miss
      BY <2>2, LastLineIsLastPut, NoHostIsMiss
    <3> QED
      BY <3>1, <3>2, <3>3
  <2> QED
    BY <2>6, <2>7, <2>9
<1> QED
  BY <1>1, ServeHolds, PTL

-----------------------------------------------------------------------------
(* A file that is accepted is the one its Map is written as.               *)

\* s is cut into c blocks of w cells, and they are laid end to end again.
Cut(s, c, w) == /\ Sequence(Unblock(s, w)) /\ Len(Unblock(s, w)) = c
                /\ Blocks(Unblock(s, w), w) = s

(* A whole number of blocks is cut and joined again (mkvals, payload).     *)
LEMMA BlocksForth ==
    ASSUME NEW w \in Nat \ {0}, NEW c \in Nat, NEW s, Sequence(s), Len(s) = c * w
    PROVE  Cut(s, c, w)
<1> DEFINE u == Unblock(s, w)
<1>1. c * w \in Nat /\ s = [i \in 1..c * w |-> s[i]]
  BY SequenceHas
<1>2. (c * w) \div w = c
  <2> DEFINE x == c * w
  <2>1. x = (c * w) + 0 /\ 0 \in 0..w - 1
    OBVIOUS
  <2> HIDE DEF x
  <2>2. x \div w = c
    BY <2>1, CellPlace
  <2> QED
    BY <2>2 DEF x
<1>3. u = [k \in 1..c |-> SubSeq(s, (k - 1) * w + 1, k * w)]
  BY <1>2 DEF Unblock
<1>4. u = [k \in 1..c |-> u[k]] /\ \A k \in 1..c : u[k] = SubSeq(s, (k - 1) * w + 1, k * w)
  BY <1>3
<1> HIDE DEF u
<1>5. Sequence(u) /\ Len(u) = c
  BY <1>4, FunctionIsSequence
<1>6. ASSUME NEW i \in 1..c * w
      PROVE  u[(i - 1) \div w + 1][((i - 1) % w) + 1] = s[i]
  <2> DEFINE x == i - 1
             q == x \div w
             r == x % w
             cw == c * w
  <2>1. x \in Nat /\ x < cw /\ w \in Nat \ {0} /\ w \in Nat
    BY <1>1
  <2> HIDE DEF x
  <2>2. q \in Nat /\ r \in 0..w - 1 /\ x = (w * q) + r
    BY <2>1
  <2> HIDE DEF q, r
  <2> DEFINE qw == q * w
  <2>3. w * q = qw /\ qw \in Nat /\ w * c = cw /\ cw \in Nat
    BY <2>1, <2>2
  <2> HIDE DEF qw, cw
  <2>4. q + 1 \in 1..c
    <3> SUFFICES ASSUME q >= c PROVE FALSE
      BY <2>2
    <3>1. w * c <= w * q
      BY <2>1, <2>2
    <3>2. cw <= qw
      BY <2>3, <3>1
    <3> QED
      BY <2>1, <2>2, <2>3, <3>2
  <2>5. u[q + 1] = SubSeq(s, qw + 1, qw + w)
    <3>1. ((q + 1) - 1) * w = qw /\ (q + 1) * w = qw + w
      <4>1. w * (q + 1) = w * q + w /\ w * (q + 1) = (q + 1) * w /\ (q + 1) - 1 = q
        BY <2>1, <2>2
      <4>2. (q + 1) * w = qw + w
        BY <2>3, <4>1
      <4> QED
        BY <4>1, <4>2 DEF qw
    <3> QED
      BY <1>4, <2>4, <3>1
  <2>6. SubSeq(s, qw + 1, qw + w)[r + 1] = s[qw + (r + 1)]
    <3>1. r + 1 \in 1..w
      BY <2>1, <2>2
    <3> QED
      BY <2>1, <2>3, <3>1, WindowCells
  <2>7. qw + (r + 1) = i
    BY <2>2, <2>3 DEF x
  <2>8. u[q + 1][r + 1] = s[i]
    BY <2>5, <2>6, <2>7
  <2> QED
    BY <2>8 DEF q, r, x
<1>7. Blocks(u, w) = [i \in 1..c * w |-> u[(i - 1) \div w + 1][((i - 1) % w) + 1]]
  BY <1>5 DEF Blocks
<1>8. Blocks(u, w) = s
  BY <1>1, <1>6, <1>7
<1> QED
  BY <1>5, <1>8 DEF Cut, u

\* The cells of 64-bit words: every low half is less than 2^32.
WordCells(s) == \A j \in 1..Len(s) \div 2 : s[2 * j - 1] \in 0..MaxU32 /\ s[2 * j] \in Nat

(* Words are read from such cells and written as the same (u64view).       *)
LEMMA WordsForth ==
    ASSUME NEW c \in Nat, NEW s, Sequence(s), Len(s) = 2 * c, WordCells(s)
    PROVE  Len(u64view(s)) = c /\ u64bytes(u64view(s)) = s
<1> DEFINE B == MaxU32 + 1
           v == u64view(s)
           pairs == [k \in 1..c |-> <<v[k] % B, v[k] \div B>>]
<1>1. B \in Nat /\ B > 0 /\ MaxU32 \in Nat /\ s = [i \in 1..2 * c |-> s[i]]
  BY WidthAssumption, SequenceHas
<1>2. Len(s) \div 2 = c
  OBVIOUS
<1>3. v = [k \in 1..c |-> s[2 * k - 1] + B * s[2 * k]]
  BY <1>2 DEF u64view
<1>4. v = [k \in 1..c |-> v[k]] /\ \A k \in 1..c : v[k] = s[2 * k - 1] + B * s[2 * k]
  BY <1>3
<1>5. \A k \in 1..c : s[2 * k - 1] \in 0..MaxU32 /\ s[2 * k] \in Nat
  BY <1>2 DEF WordCells
<1> HIDE DEF v
<1>6. Sequence(v) /\ Len(v) = c /\ DOMAIN v = 1..c
  BY <1>4, FunctionIsSequence
<1>7. u64bytes(v) = Blocks(pairs, 2)
  BY <1>6 DEF u64bytes
<1>8. ASSUME NEW k \in 1..c PROVE v[k] % B = s[2 * k - 1] /\ v[k] \div B = s[2 * k]
  <2> DEFINE q == s[2 * k]
             r == s[2 * k - 1]
             x == v[k]
  <2>a. B \in Nat \ {0} /\ 0..MaxU32 = 0..B - 1
    BY <1>1
  <2> HIDE DEF B
  <2>1. q \in Nat /\ r \in 0..B - 1 /\ x = r + B * q /\ B \in Nat \ {0}
    BY <1>4, <1>5, <2>a
  <2> HIDE DEF q, r, x
  <2>2. B * q = q * B /\ q * B \in Nat
    BY <2>1
  <2>3. x = (q * B) + r
    BY <2>1, <2>2
  <2>4. x \div B = q /\ x % B = r
    BY <2>1, <2>3, CellPlace, ZenonT(60)
  <2> QED
    BY <2>4 DEF q, r, x
<1>9. pairs = [k \in 1..c |-> pairs[k]] /\ \A k \in 1..c : pairs[k] = <<s[2 * k - 1], s[2 * k]>>
  BY <1>8
<1> HIDE DEF pairs, B
<1>10. Len(pairs) = c
  BY <1>9, FunctionIsSequence
<1>11. Blocks(pairs, 2) = [i \in 1..c * 2 |-> pairs[(i - 1) \div 2 + 1][((i - 1) % 2) + 1]]
  BY <1>10 DEF Blocks
<1>12. ASSUME NEW i \in 1..c * 2 PROVE pairs[(i - 1) \div 2 + 1][((i - 1) % 2) + 1] = s[i]
  <2> DEFINE k == (i - 1) \div 2 + 1
  <2>1. /\ k \in 1..c
        /\ \/ i = 2 * k - 1 /\ (i - 1) % 2 = 0
           \/ i = 2 * k /\ (i - 1) % 2 = 1
    OBVIOUS
  <2> HIDE DEF k
  <2>2. pairs[k] = <<s[2 * k - 1], s[2 * k]>>
    BY <1>9, <2>1
  <2>3. pairs[k][1] = s[2 * k - 1] /\ pairs[k][2] = s[2 * k]
    BY <2>2
  <2>4. pairs[k][((i - 1) % 2) + 1] = s[i]
    <3>1. CASE i = 2 * k - 1 /\ (i - 1) % 2 = 0
      BY <2>3, <3>1
    <3>2. CASE i = 2 * k /\ (i - 1) % 2 = 1
      BY <2>3, <3>2
    <3> QED
      BY <2>1, <3>1, <3>2
  <2> QED
    BY <2>4 DEF k
<1>13. c * 2 = 2 * c
  OBVIOUS
<1>14. Blocks(pairs, 2) = s
  BY <1>1, <1>11, <1>12, <1>13
<1> QED
  BY <1>6, <1>7, <1>14 DEF v

(* Header, sections and padding are all there is in a sealed file.         *)
LEMMA SealedIsOnly ==
    ASSUME NEW fields, FieldCells(fields), NEW secs, Payloads(secs),
           NEW f, Sequence(f), Len(f) = Starts(Lens(secs))[9],
           \A k \in 1..HeaderSize : f[k] = Header(fields, secs)[k],
           \A i \in Slots : Holds(f, secs, i)
    PROVE  f = Sealed(fields, secs)
<1> DEFINE g == Sealed(fields, secs)
           lens == Lens(secs)
           start == Starts(lens)
<1>1. /\ Sequence(g) /\ Len(g) = start[9]
      /\ \A k \in 1..HeaderSize : g[k] = Header(fields, secs)[k]
      /\ \A i \in Slots : Holds(g, secs, i)
  BY SealedHolds
<1>2. \A i \in Slots : lens[i] = Len(secs[i]) /\ lens[i] \in Nat
  BY SequenceHas DEF Lens, Payloads
<1>3. Len(f) = start[9] /\ start[9] \in Nat /\ HeaderSize \in Nat
  <2>1. Len(f) \in Nat
    BY SequenceHas
  <2>2. Len(f) = start[9]
    OBVIOUS
  <2> QED
    BY <2>1, <2>2 DEF HeaderSize, TableStart
<1> HIDE DEF g
<1>4. ASSUME NEW k \in 1..start[9] PROVE f[k] = g[k]
  <2>1. CASE k <= HeaderSize
    <3>1. k \in 1..HeaderSize
      BY <1>3, <2>1
    <3> QED
      BY <1>1, <3>1
  <2>2. CASE HeaderSize < k
    <3>1. k \in Nat /\ k <= start[9]
      BY <1>3
    <3>2. PICK i \in Slots : k \in start[i] + 1..start[i] + Pad(lens[i])
      BY <1>2, <2>2, <3>1, Covered
    <3> DEFINE j == k - start[i]
               l == lens[i]
    <3>3. start[i] \in Nat
      <4>1. i \in 1..9
        BY DEF Slots
      <4> QED
        BY <1>2, <4>1, StartsHold
    <3>4. l \in Nat /\ Pad(l) \in Nat /\ l = Len(secs[i])
      BY <1>2, PadHolds
    <3>5. /\ \A q \in 1..l : f[start[i] + q] = secs[i][q] /\ g[start[i] + q] = secs[i][q]
          /\ \A q \in l + 1..Pad(l) : f[start[i] + q] = 0 /\ g[start[i] + q] = 0
      BY <1>1, <3>4 DEF Holds
    <3> HIDE DEF start, l, lens
    <3>6. start[i] + j = k /\ (j \in 1..l \/ j \in l + 1..Pad(l))
      BY <3>1, <3>2, <3>3, <3>4 DEF l
    <3> QED
      BY <3>5, <3>6
  <2> QED
    BY <1>3, <2>1, <2>2
<1>5. f = g
  BY <1>1, <1>3, <1>4, SameSequence
<1> QED
  BY <1>5 DEF g

\* The cells of f are those of a header.
HeaderOf(f, fields, secs) ==
    /\ \A k \in 1..TableStart : f[k] = fields[k]
    /\ \A i \in Slots : /\ f[Row(i) + 1] = Starts(Lens(secs))[i]
                        /\ f[Row(i) + 2] = Len(secs[i])
                        /\ f[Row(i) + 3] = secs[i] /\ f[Row(i) + 4] = 0
    /\ f[CrcCell] = SubSeq(f, 1, CrcCell - 1) /\ f[HeaderSize] = 0

(* Fields, table, checksum and the last word are all there is in it.       *)
LEMMA HeaderIsOnly ==
    ASSUME NEW fields, FieldCells(fields), NEW secs, Payloads(secs), NEW f,
           HeaderOf(f, fields, secs)
    PROVE  \A k \in 1..HeaderSize : f[k] = Header(fields, secs)[k]
<1> DEFINE g == Header(fields, secs)
           c == CrcCell - 1
<1>1. /\ \A i \in Slots :
            /\ g[Row(i) + 1] = Starts(Lens(secs))[i] /\ g[Row(i) + 2] = Len(secs[i])
            /\ g[Row(i) + 3] = secs[i] /\ g[Row(i) + 4] = 0
      /\ \A k \in 1..TableStart : g[k] = fields[k]
      /\ g[HeaderSize] = 0
      /\ Sequence(g[CrcCell]) /\ Len(g[CrcCell]) = CrcCell - 1
      /\ \A j \in 1..CrcCell - 1 : g[CrcCell][j] = g[j]
  BY HeaderHolds, SMTT(40)
<1>2. \A k \in 1..c : \/ k \in 1..TableStart
                      \/ \E i \in Slots : \/ k = Row(i) + 1 \/ k = Row(i) + 2
                                          \/ k = Row(i) + 3 \/ k = Row(i) + 4
  <2> SUFFICES ASSUME NEW k \in 1..c, k \notin 1..TableStart
               PROVE  \E i \in Slots : \/ k = Row(i) + 1 \/ k = Row(i) + 2
                                       \/ k = Row(i) + 3 \/ k = Row(i) + 4
    OBVIOUS
  <2> DEFINE i == (k - 13) \div 4 + 1
  <2>1. k \in 13..44
    BY DEF CrcCell, HeaderSize, TableStart
  <2>2. i \in 1..8 /\ (\/ k = 12 + 4 * (i - 1) + 1 \/ k = 12 + 4 * (i - 1) + 2
                       \/ k = 12 + 4 * (i - 1) + 3 \/ k = 12 + 4 * (i - 1) + 4)
    BY <2>1
  <2> HIDE DEF i
  <2> QED
    BY <2>2 DEF Row, TableStart, Slots
<1> HIDE DEF g
<1>3. \A k \in 1..c : f[k] = g[k]
  <2> SUFFICES ASSUME NEW k \in 1..c PROVE f[k] = g[k]
    OBVIOUS
  <2>1. CASE k \in 1..TableStart
    BY <1>1, <2>1 DEF HeaderOf
  <2>2. ASSUME NEW i \in Slots, \/ k = Row(i) + 1 \/ k = Row(i) + 2
                                \/ k = Row(i) + 3 \/ k = Row(i) + 4
        PROVE  f[k] = g[k]
    <3>1. /\ f[Row(i) + 1] = g[Row(i) + 1] /\ f[Row(i) + 2] = g[Row(i) + 2]
          /\ f[Row(i) + 3] = g[Row(i) + 3] /\ f[Row(i) + 4] = g[Row(i) + 4]
      BY <1>1 DEF HeaderOf
    <3> QED
      BY <2>2, <3>1
  <2> QED
    BY <1>2, <2>1, <2>2
<1>4. c \in Nat /\ 1..HeaderSize = 1..c \cup {CrcCell, HeaderSize}
  BY DEF CrcCell, HeaderSize, TableStart
<1>5. f[CrcCell] = g[CrcCell]
  <2> DEFINE u == SubSeq(f, 1, c)
  <2>1. f[CrcCell] = u
    BY DEF HeaderOf
  <2>2. g[CrcCell] = g[CrcCell] /\ Len(g[CrcCell]) = c /\ Sequence(g[CrcCell])
        /\ \A j \in 1..c : g[CrcCell][j] = g[j]
    BY <1>1
  <2> HIDE DEF c
  <2>3. Sequence(u) /\ Len(u) = c /\ \A j \in 1..c : u[j] = f[j]
    BY <1>4, FrontCells
  <2> HIDE DEF u
  <2>4. \A j \in 1..c : u[j] = g[CrcCell][j]
    BY <1>3, <2>2, <2>3
  <2>5. u = g[CrcCell]
    BY <2>2, <2>3, <2>4, SameSequence
  <2> QED
    BY <2>1, <2>5
<1>6. f[HeaderSize] = g[HeaderSize]
  BY <1>1 DEF HeaderOf
<1> QED
  BY <1>3, <1>4, <1>5, <1>6 DEF g

\* The scalar fields of f are what an unsigned number can be.
Unsigned(f) == Sequence(f) /\ \A k \in 1..TableStart : f[k] \in Nat

\* What openBytes has seen of a file it accepts.
Accepted(f, lens) ==
    /\ f[1] = Magic /\ f[2] = 1 /\ f[3] \in {0, 1} /\ counts(numbers(f))
    /\ f[CrcCell] = SubSeq(f, 1, CrcCell - 1) /\ f[HeaderSize] = 0
    /\ header(f) = "ok" /\ walk(f) = "ok"
    /\ Len(f) = Starts(lens)[9]
    /\ \A i \in Slots :
          /\ lens[i] \in Nat
          /\ f[Row(i) + 1] = Starts(lens)[i] /\ f[Row(i) + 2] = lens[i]
          /\ f[Row(i) + 3] = SectionOf(f, i) /\ f[Row(i) + 4] = 0
          /\ \A j \in lens[i] + 1..Pad(lens[i]) : f[Starts(lens)[i] + j] = 0

(* The lengths the counts call for are natural numbers.                    *)
LEMMA ExpectNat ==
    ASSUME NEW f, Unsigned(f)
    PROVE  \A i \in Slots : expect(numbers(f))[i] \in Nat
<1> DEFINE h == numbers(f)
           p == IF h.interned THEN h.idW ELSE h.valLen
<1>1. /\ h.n4 \in Nat /\ h.n6 \in Nat /\ h.np \in Nat /\ h.distinct \in Nat
      /\ h.idW \in Nat /\ h.valLen \in Nat
  BY DEF numbers, Unsigned, TableStart
<1>2. p \in Nat
  BY <1>1
<1> HIDE DEF h, p
<1>3. h.n4 * p \in Nat /\ h.n6 * p \in Nat /\ h.distinct * h.valLen \in Nat
  BY <1>1, <1>2
<1>4. Groups4 + 1 \in Nat
  BY WidthAssumption
<1>5. expect(h) = <<IF h.n4 > 0 THEN Groups4 + 1 ELSE 0, IF h.n4 > 0 THEN h.n4 ELSE 0,
                    IF h.n4 > 0 THEN h.n4 * p ELSE 0, IF h.n6 > 0 THEN 2 * h.np ELSE 0,
                    IF h.n6 > 0 THEN h.np + 1 ELSE 0, IF h.n6 > 0 THEN 2 * h.n6 ELSE 0,
                    IF h.n6 > 0 THEN h.n6 * p ELSE 0,
                    IF h.interned THEN h.distinct * h.valLen ELSE 0>>
  BY DEF expect, p
<1>6. /\ expect(h)[1] \in Nat /\ expect(h)[2] \in Nat /\ expect(h)[3] \in Nat
      /\ expect(h)[4] \in Nat /\ expect(h)[5] \in Nat /\ expect(h)[6] \in Nat
      /\ expect(h)[7] \in Nat /\ expect(h)[8] \in Nat
  BY <1>1, <1>3, <1>4, <1>5
<1>7. \A i \in Slots : i = 1 \/ i = 2 \/ i = 3 \/ i = 4 \/ i = 5 \/ i = 6 \/ i = 7 \/ i = 8
  BY DEF Slots
<1> QED
  BY <1>6, <1>7 DEF h

(* What the checks of openBytes establish of a file that passes them.      *)
LEMMA AcceptedHas ==
    ASSUME NEW f, Unsigned(f), openBytes(f) = "ok"
    PROVE  Accepted(f, expect(numbers(f)))
<1> DEFINE lens == expect(numbers(f))
<1>1. header(f) = "ok" /\ walk(f) = "ok"
  BY DEF openBytes
<1>2. /\ f[1] = Magic /\ f[2] = 1 /\ f[3] \in {0, 1} /\ counts(numbers(f))
      /\ f[CrcCell] = SubSeq(f, 1, CrcCell - 1) /\ f[HeaderSize] = 0
      /\ \A i \in Slots : f[Row(i) + 4] = 0
  BY <1>1 DEF header, Checksum
<1>3. \A i \in Slots : lens[i] \in Nat
  BY <1>2, ExpectNat
<1>4. \A i \in Slots : section(f, i) = "ok"
  <2> DEFINE bad == {i \in Slots : section(f, i) # "ok"}
             first == CHOOSE i \in bad : \A j \in bad : i <= j
  <2>1. CASE bad # {}
    <3>1. walk(f) = section(f, first)
      BY <2>1 DEF walk
    <3>2. first \in bad
      <4>1. bad \in SUBSET Slots
        OBVIOUS
      <4> HIDE DEF bad
      <4> QED
        BY <2>1, <4>1, Least
    <3> QED
      BY <1>1, <3>1, <3>2
  <2> QED
    BY <2>1
<1>5. Len(f) = Starts(lens)[9]
  BY <1>1, <1>4, WalkEmpty
<1>6. ASSUME NEW i \in Slots
      PROVE  /\ f[Row(i) + 1] = Starts(lens)[i] /\ f[Row(i) + 2] = lens[i]
             /\ f[Row(i) + 3] = SectionOf(f, i)
             /\ \A j \in lens[i] + 1..Pad(lens[i]) : f[Starts(lens)[i] + j] = 0
  <2> DEFINE o == f[Row(i) + 1]
             l == f[Row(i) + 2]
  <2>1. section(f, i) = "ok"
    BY <1>4
  <2>2. /\ geometry(f, i, o, l) /\ SubSeq(f, o + 1, o + l) = f[Row(i) + 3]
        /\ ~\E j \in o + l + 1..o + Pad(l) : f[j] # 0
    BY <2>1 DEF section, Checksum
  <2>3. o = Starts(lens)[i] /\ l = lens[i]
    BY <2>2 DEF geometry
  <2>4. f[Row(i) + 3] = SectionOf(f, i)
    BY <2>2 DEF SectionOf
  <2>5. o \in Nat /\ l \in Nat /\ Pad(l) \in Nat
    <3>1. i \in 1..9
      BY DEF Slots
    <3> QED
      BY <1>3, <2>3, <3>1, StartsHold, PadHolds
  <2> HIDE DEF o, l, lens
  <2>6. \A j \in l + 1..Pad(l) : f[o + j] = 0
    <3>1. \A j \in l + 1..Pad(l) : o + j \in o + l + 1..o + Pad(l)
      BY <2>5
    <3> QED
      BY <2>2, <3>1
  <2> QED
    BY <2>3, <2>4, <2>6 DEF o, l
<1> QED
  BY <1>1, <1>2, <1>3, <1>5, <1>6 DEF Accepted

(* A payload that is viewed is written as it was (mkvals, payload).        *)
LEMMA PayloadForth ==
    ASSUME NEW h, h.idW \in Nat, h.valLen \in Nat \ {0}, h.interned => h.idW # 0,
           NEW m, m.valLen = h.valLen, NEW k \in Nat \ {0}, NEW t, NEW s, Sequence(s),
           Len(s) = k * (IF h.interned THEN h.idW ELSE h.valLen)
    PROVE  payload(m, ValsFrom(h, s, t)) = s
<1>1. CASE h.interned
  <2>1. Cut(s, k, h.idW)
    <3> DEFINE w == h.idW
    <3>1. w \in Nat \ {0} /\ Len(s) = k * w
      BY <1>1
    <3> HIDE DEF w
    <3>2. Cut(s, k, w)
      BY <3>1, BlocksForth
    <3> QED
      BY <3>2 DEF w
  <2>2. /\ ValsFrom(h, s, t).direct = <<>> /\ ValsFrom(h, s, t).ids = Unblock(s, h.idW)
        /\ ValsFrom(h, s, t).idW = h.idW
    BY <1>1 DEF ValsFrom
  <2>3. payload(m, ValsFrom(h, s, t)) = Blocks(Unblock(s, h.idW), h.idW)
    BY <2>2 DEF payload
  <2> QED
    BY <2>1, <2>3 DEF Cut
<1>2. CASE ~h.interned
  <2>1. Cut(s, k, h.valLen)
    <3> DEFINE w == h.valLen
    <3>1. w \in Nat \ {0} /\ Len(s) = k * w
      BY <1>2
    <3> HIDE DEF w
    <3>2. Cut(s, k, w)
      BY <3>1, BlocksForth
    <3> QED
      BY <3>2 DEF w
  <2>2. ValsFrom(h, s, t).direct = Unblock(s, h.valLen)
    BY <1>2 DEF ValsFrom, NoVals
  <2>3. Unblock(s, h.valLen) # <<>>
    BY <2>1 DEF Cut
  <2>4. payload(m, ValsFrom(h, s, t)) = Blocks(Unblock(s, h.valLen), h.valLen)
    BY <2>2, <2>3 DEF payload
  <2> QED
    BY <2>1, <2>4 DEF Cut
<1> QED
  BY <1>1, <1>2

\* No section of words has a cell too large, or its checksum is of another length.
WordsSealed(f) ==
    \A i \in {4, 6} : \/ WordCells(f[Row(i) + 3])
                      \/ Len(f[Row(i) + 3]) # f[Row(i) + 2]

FileGood(f) == Unsigned(f) /\ WordsSealed(f)

\* The sections of f.
SectionsOf(f) == [i \in Slots |-> SectionOf(f, i)]

\* Section i of f has the length lens calls for, and its cells.
Fills(f, lens, i) ==
    /\ lens[i] \in Nat /\ Starts(lens)[i] \in Nat
    /\ Sequence(SectionOf(f, i)) /\ Len(SectionOf(f, i)) = lens[i]
    /\ \A j \in 1..lens[i] : SectionOf(f, i)[j] = f[Starts(lens)[i] + j]

(* The windows of an accepted file (openBytes).                            *)
LEMMA SectionCells ==
    ASSUME NEW f, NEW lens, Accepted(f, lens)
    PROVE  \A i \in Slots : Fills(f, lens, i)
<1> SUFFICES ASSUME NEW i \in Slots PROVE Fills(f, lens, i)
  OBVIOUS
<1> DEFINE o == f[Row(i) + 1]
           l == f[Row(i) + 2]
<1>1. o = Starts(lens)[i] /\ l = lens[i] /\ l \in Nat
  BY DEF Accepted
<1>2. o \in Nat
  <2>1. i \in 1..9
    BY DEF Slots
  <2>2. \A j \in Slots : lens[j] \in Nat
    BY DEF Accepted
  <2> QED
    BY <1>1, <2>1, <2>2, StartsHold
<1>3. SectionOf(f, i) = SubSeq(f, o + 1, o + l)
  BY DEF SectionOf
<1> HIDE DEF o, l
<1>n. o \in Nat /\ l \in Nat
  BY <1>1, <1>2
<1>4. Sequence(SubSeq(f, o + 1, o + l)) /\ Len(SubSeq(f, o + 1, o + l)) = l
      /\ \A j \in 1..l : SubSeq(f, o + 1, o + l)[j] = f[o + j]
  BY ONLY <1>n, WindowCells
<1> QED
  BY <1>1, <1>2, <1>3, <1>4 DEF Fills

(* The sections of an accepted file are those that WriteTo makes of the    *)
(* Map that views them (WriteTo, openBytes).                               *)
LEMMA SectionsForth ==
    ASSUME NEW f, FileGood(f), Accepted(f, expect(numbers(f)))
    PROVE  /\ Payloads(SectionsOf(f))
           /\ \A i \in Slots : sections(assemble(f))[i] = SectionsOf(f)[i]
           /\ Fields(assemble(f)) = [k \in 1..TableStart |-> f[k]]
<1> DEFINE h == numbers(f)
           lens == expect(h)
           secs == SectionsOf(f)
           m == assemble(f)
           p == IF h.interned THEN h.idW ELSE h.valLen
<1>1. \A i \in Slots : secs[i] = SectionOf(f, i)
  BY DEF SectionsOf
<1>2. \A i \in Slots : Sequence(secs[i]) /\ Len(secs[i]) = lens[i] /\ lens[i] \in Nat
  BY <1>1, SectionCells DEF Fills
<1>3. OpensAs(f, f, secs)
  BY <1>1 DEF OpensAs, Accepted
<1>4. /\ h.n4 \in Nat /\ h.n6 \in Nat /\ h.np \in Nat /\ h.distinct \in Nat
      /\ h.idW \in Nat /\ h.valLen \in Nat /\ h.interned \in BOOLEAN
  BY DEF numbers, FileGood, Unsigned, TableStart
<1>5. /\ h.valLen \in 1..MaxValLen /\ h.np <= h.n6 /\ (h.n6 > 0 => h.np > 0)
      /\ IF h.interned
           THEN h.distinct \in 1..MaxU32 /\ h.idW = idWidth(h.distinct) /\ h.n4 + h.n6 > 0
           ELSE h.idW = 0 /\ h.distinct = 0
  BY DEF Accepted, counts
<1>6. m = [valLen |-> h.valLen, epoch |-> h.epoch,
           stats |-> [Addrs4 |-> h.n4, Addrs6 |-> h.n6, Dups |-> h.dups,
                      DupConflicts |-> h.confl, Distinct |-> h.distinct],
           s4 |-> IF h.n4 = 0 THEN Nil4
                  ELSE [idx |-> secs[1], suffix |-> secs[2],
                        vals |-> ValsFrom(h, secs[3], secs[8])],
           s6 |-> IF h.n6 = 0 THEN Nil6
                  ELSE [prefix |-> u64view(secs[4]), pidx |-> secs[5],
                        suffix |-> u64view(secs[6]),
                        vals |-> ValsFrom(h, secs[7], secs[8])]]
  <2> HIDE DEF secs, m
  <2> QED
    BY <1>3, Assembled DEF m
<1>7. lens = <<IF h.n4 > 0 THEN Groups4 + 1 ELSE 0, IF h.n4 > 0 THEN h.n4 ELSE 0,
               IF h.n4 > 0 THEN h.n4 * p ELSE 0, IF h.n6 > 0 THEN 2 * h.np ELSE 0,
               IF h.n6 > 0 THEN h.np + 1 ELSE 0, IF h.n6 > 0 THEN 2 * h.n6 ELSE 0,
               IF h.n6 > 0 THEN h.n6 * p ELSE 0,
               IF h.interned THEN h.distinct * h.valLen ELSE 0>>
  <2> HIDE DEF h, p
  <2> QED
    BY DEF expect, p
<1>w. WordsSealed(f) /\ \A i \in Slots : f[Row(i) + 3] = secs[i] /\ f[Row(i) + 2] = Len(secs[i])
  BY <1>1, <1>2 DEF FileGood, Accepted
<1>8. WordCells(secs[4]) /\ WordCells(secs[6])
  BY <1>w DEF WordsSealed, Slots
<1>s. 1 \in Slots /\ 2 \in Slots /\ 3 \in Slots /\ 4 \in Slots /\ 5 \in Slots /\ 6 \in Slots
      /\ 7 \in Slots /\ 8 \in Slots
  BY DEF Slots
<1>p. p = IF h.interned THEN h.idW ELSE h.valLen
  OBVIOUS
<1>l. /\ h.n4 > 0 => lens[3] = h.n4 * p
      /\ h.n6 > 0 => /\ lens[4] = 2 * h.np /\ lens[5] = h.np + 1 /\ lens[6] = 2 * h.n6
                      /\ lens[7] = h.n6 * p
      /\ h.interned => lens[8] = h.distinct * h.valLen
  <2> HIDE DEF h, p, lens
  <2> QED
    BY <1>7
<1>v. ASSUME NEW k \in Nat \ {0}, NEW t, NEW s, Sequence(s), Len(s) = k * p
      PROVE  payload(m, ValsFrom(h, s, t)) = s
  <2>1. h.valLen \in Nat \ {0} /\ (h.interned => h.idW # 0) /\ m.valLen = h.valLen
    <3> HIDE DEF h, m
    <3> QED
      BY <1>4, <1>5, <1>6, IdWidthIs
  <2> HIDE DEF h, m, p
  <2>2. Len(s) = k * (IF h.interned THEN h.idW ELSE h.valLen)
    BY <1>v, <1>p
  <2> QED
    BY <1>4, <1>v, <2>1, <2>2, PayloadForth
<1> HIDE DEF h, secs, m, p, lens
<1>9. /\ m.valLen = h.valLen /\ m.epoch = h.epoch /\ m.stats.Addrs4 = h.n4
      /\ m.stats.Addrs6 = h.n6 /\ m.stats.Dups = h.dups /\ m.stats.DupConflicts = h.confl
      /\ m.stats.Distinct = h.distinct
      /\ m.s4 = (IF h.n4 = 0 THEN Nil4
                 ELSE [idx |-> secs[1], suffix |-> secs[2],
                       vals |-> ValsFrom(h, secs[3], secs[8])])
      /\ m.s6 = (IF h.n6 = 0 THEN Nil6
                 ELSE [prefix |-> u64view(secs[4]), pidx |-> secs[5],
                       suffix |-> u64view(secs[6]), vals |-> ValsFrom(h, secs[7], secs[8])])
  BY <1>6
<1>10. interned(m) = h.interned
  BY <1>4, <1>5, <1>9 DEF interned
<1>12. ASSUME NEW s, Sequence(s), Len(s) = 0 PROVE s = <<>>
  BY <1>12 DEF Sequence
<1>13. /\ h.n4 = 0 => secs[1] = <<>> /\ secs[2] = <<>> /\ secs[3] = <<>>
       /\ h.n6 = 0 => secs[4] = <<>> /\ secs[5] = <<>> /\ secs[6] = <<>> /\ secs[7] = <<>>
       /\ ~h.interned => secs[8] = <<>>
  <2>1. h.n4 = 0 => lens[1] = 0 /\ lens[2] = 0 /\ lens[3] = 0
    BY <1>7
  <2>2. h.n6 = 0 => lens[4] = 0 /\ lens[5] = 0 /\ lens[6] = 0 /\ lens[7] = 0
    BY <1>7
  <2>3. ~h.interned => lens[8] = 0
    BY <1>7
  <2> QED
    BY <1>2, <1>s, <1>12, <2>1, <2>2, <2>3
<1>14. ASSUME h.n4 # 0
       PROVE  /\ m.s4.idx = secs[1] /\ m.s4.suffix = secs[2]
              /\ payload(m, m.s4.vals) = secs[3]
              /\ m.s4.vals = ValsFrom(h, secs[3], secs[8])
  <2>1. m.s4.idx = secs[1] /\ m.s4.suffix = secs[2] /\ m.s4.vals = ValsFrom(h, secs[3], secs[8])
    BY <1>9, <1>14
  <2>2. Len(secs[3]) = h.n4 * p /\ Sequence(secs[3]) /\ h.n4 \in Nat \ {0}
    <3>1. h.n4 > 0
      BY <1>4, <1>14
    <3>2. Len(secs[3]) = lens[3] /\ lens[3] = h.n4 * p /\ Sequence(secs[3])
      BY <1>2, <1>l, <1>s, <3>1
    <3> QED
      BY <1>4, <1>14, <3>2
  <2>3. payload(m, ValsFrom(h, secs[3], secs[8])) = secs[3]
    BY <1>v, <2>2
  <2> QED
    BY <2>1, <2>3
<1>15. ASSUME h.n6 # 0
       PROVE  /\ m.s6.prefix = u64view(secs[4]) /\ u64bytes(m.s6.prefix) = secs[4]
              /\ Len(m.s6.prefix) = h.np
              /\ m.s6.pidx = secs[5] /\ SubSeq(m.s6.pidx, 1, Len(m.s6.prefix) + 1) = secs[5]
              /\ u64bytes(m.s6.suffix) = secs[6]
              /\ payload(m, m.s6.vals) = secs[7]
              /\ m.s6.vals = ValsFrom(h, secs[7], secs[8])
  <2>1. /\ m.s6.prefix = u64view(secs[4]) /\ m.s6.pidx = secs[5]
        /\ m.s6.suffix = u64view(secs[6]) /\ m.s6.vals = ValsFrom(h, secs[7], secs[8])
    BY <1>9, <1>15
  <2>a. h.n6 > 0
    BY <1>4, <1>15
  <2>2. /\ Len(secs[4]) = 2 * h.np /\ Len(secs[5]) = h.np + 1 /\ Len(secs[6]) = 2 * h.n6
        /\ Len(secs[7]) = h.n6 * p
        /\ Sequence(secs[4]) /\ Sequence(secs[5]) /\ Sequence(secs[6]) /\ Sequence(secs[7])
    BY <1>2, <1>l, <1>s, <2>a
  <2>3. Len(u64view(secs[4])) = h.np /\ u64bytes(u64view(secs[4])) = secs[4]
    BY <1>4, <1>8, <2>2, WordsForth
  <2>4. u64bytes(u64view(secs[6])) = secs[6]
    BY <1>4, <1>8, <2>2, WordsForth
  <2>5. h.n6 \in Nat \ {0}
    BY <1>4, <1>15
  <2>6. payload(m, ValsFrom(h, secs[7], secs[8])) = secs[7]
    BY <1>v, <2>2, <2>5
  <2>7. SubSeq(secs[5], 1, h.np + 1) = secs[5]
    <3>a. h.np + 1 \in Nat
      BY <1>4
    <3>b. Len(secs[5]) = h.np + 1
      BY <2>2
    <3> DEFINE l == h.np + 1
               u == SubSeq(secs[5], 1, l)
    <3>1. l \in Nat /\ Len(secs[5]) = l
      BY <3>a, <3>b
    <3> HIDE DEF l
    <3>2. Sequence(u) /\ Len(u) = l /\ \A j \in 1..l : u[j] = secs[5][j]
      BY <3>1, FrontCells
    <3> HIDE DEF u
    <3>3. u = secs[5]
      BY <2>2, <3>1, <3>2, SameSequence
    <3> QED
      BY <3>3 DEF u, l
  <2> QED
    BY <2>1, <2>3, <2>4, <2>6, <2>7
<1>16. h.interned => tabBytes(m) = secs[8]
  <2> HAVE h.interned
  <2>1. Sequence(secs[8]) /\ Len(secs[8]) = h.distinct * h.valLen
    BY <1>2, <1>l, <1>s
  <2>2. h.valLen \in Nat \ {0} /\ h.distinct \in Nat \ {0}
    BY <1>4, <1>5
  <2>3. Cut(secs[8], h.distinct, h.valLen)
    BY <2>1, <2>2, BlocksForth
  <2> DEFINE t == Unblock(secs[8], h.valLen)
  <2>4. t # <<>> /\ Blocks(t, h.valLen) = secs[8]
    BY <2>2, <2>3 DEF Cut
  <2>5. \A s : ValsFrom(h, s, secs[8]).tab = t
    BY DEF ValsFrom
  <2> HIDE DEF t
  <2>6. CASE h.n4 # 0
    <3>1. m.s4.vals.tab = t
      BY <1>14, <2>5, <2>6
    <3> QED
      BY <1>9, <2>4, <3>1 DEF tabBytes
  <2>7. CASE h.n4 = 0
    <3>1. h.n6 # 0
      BY <1>4, <1>5, <2>7
    <3>2. m.s4.vals.tab = <<>>
      BY <1>9, <2>7 DEF Nil4, NoVals
    <3>3. m.s6.vals.tab = t
      BY <1>15, <2>5, <3>1
    <3> QED
      BY <1>9, <2>4, <3>2, <3>3 DEF tabBytes
  <2> QED
    BY <2>6, <2>7
<1>17. Len(m.s6.prefix) = h.np
  <2>1. CASE h.n6 # 0
    BY <1>15, <2>1
  <2>2. CASE h.n6 = 0
    <3>1. h.np = 0
      BY <1>4, <1>5, <2>2
    <3> QED
      BY <1>9, <2>2, <3>1 DEF Nil6
  <2> QED
    BY <2>1, <2>2
<1>18. (h.n4 > 0 <=> h.n4 # 0) /\ (h.n6 > 0 <=> h.n6 # 0)
  BY <1>4
<1>19. /\ sections(m)[1] = (IF h.n4 > 0 THEN m.s4.idx ELSE <<>>)
       /\ sections(m)[2] = (IF h.n4 > 0 THEN m.s4.suffix ELSE <<>>)
       /\ sections(m)[3] = (IF h.n4 > 0 THEN payload(m, m.s4.vals) ELSE <<>>)
       /\ sections(m)[4] = (IF h.n6 > 0 THEN u64bytes(m.s6.prefix) ELSE <<>>)
       /\ sections(m)[5] = (IF h.n6 > 0 THEN SubSeq(m.s6.pidx, 1, Len(m.s6.prefix) + 1) ELSE <<>>)
       /\ sections(m)[6] = (IF h.n6 > 0 THEN u64bytes(m.s6.suffix) ELSE <<>>)
       /\ sections(m)[7] = (IF h.n6 > 0 THEN payload(m, m.s6.vals) ELSE <<>>)
       /\ sections(m)[8] = (IF h.interned THEN tabBytes(m) ELSE <<>>)
  BY <1>9, <1>10 DEF sections
<1>20. /\ sections(m)[1] = secs[1] /\ sections(m)[2] = secs[2] /\ sections(m)[3] = secs[3]
       /\ sections(m)[4] = secs[4] /\ sections(m)[5] = secs[5] /\ sections(m)[6] = secs[6]
       /\ sections(m)[7] = secs[7] /\ sections(m)[8] = secs[8]
  BY <1>13, <1>14, <1>15, <1>16, <1>18, <1>19
<1>21. \A i \in Slots : sections(m)[i] = secs[i]
  <2>1. \A i \in Slots : i = 1 \/ i = 2 \/ i = 3 \/ i = 4 \/ i = 5 \/ i = 6 \/ i = 7 \/ i = 8
    BY DEF Slots
  <2> QED
    BY <1>20, <2>1
<1>22. Fields(m) = [k \in 1..TableStart |-> f[k]]
  <2>1. idW(m) = h.idW
    BY <1>5, <1>9, <1>10 DEF idW
  <2>2. Fields(m) = <<Magic, 1, IF h.interned THEN 1 ELSE 0, h.valLen, h.idW, h.epoch, h.n4,
                      h.n6, h.np, h.distinct, h.dups, h.confl>>
    BY <1>9, <1>10, <1>17, <2>1 DEF Fields
  <2>3. f[1] = Magic /\ f[2] = 1 /\ f[3] \in {0, 1}
    BY DEF Accepted
  <2>4. /\ f[3] = (IF h.interned THEN 1 ELSE 0) /\ f[4] = h.valLen /\ f[5] = h.idW
        /\ f[6] = h.epoch /\ f[7] = h.n4 /\ f[8] = h.n6 /\ f[9] = h.np
        /\ f[10] = h.distinct /\ f[11] = h.dups /\ f[12] = h.confl
    BY <2>3 DEF h, numbers
  <2>5. [k \in 1..TableStart |-> f[k]]
          = <<f[1], f[2], f[3], f[4], f[5], f[6], f[7], f[8], f[9], f[10], f[11], f[12]>>
    BY DEF TableStart
  <2> QED
    BY <2>2, <2>3, <2>4, <2>5
<1> QED
  BY <1>2, <1>21, <1>22 DEF Payloads, secs, m

(* A file that is accepted is the one WriteTo makes of its Map (openBytes, *)
(* WriteTo).                                                               *)
LEMMA CanonicalWhen ==
    ASSUME NEW f, FileGood(f), openBytes(f) = "ok"
    PROVE  Serialised(assemble(f)) = f
<1> DEFINE lens == expect(numbers(f))
           m == assemble(f)
           secs == sections(m)
           fields == Fields(m)
<1>1. Accepted(f, lens)
  BY AcceptedHas DEF FileGood
<1>2. /\ \A i \in Slots : secs[i] = SectionOf(f, i)
      /\ fields = [k \in 1..TableStart |-> f[k]]
  BY <1>1, SectionsForth DEF SectionsOf
<1>3. \A i \in Slots : Fills(f, lens, i)
  BY <1>1, SectionCells
<1> HIDE DEF secs, fields, lens
<1>4. Payloads(secs) /\ \A i \in Slots : Lens(secs)[i] = lens[i] /\ Len(secs[i]) = lens[i]
  BY <1>2, <1>3 DEF Payloads, Fills, Lens
<1>5. FieldCells(fields) /\ \A k \in 1..TableStart : f[k] = fields[k]
  <2>1. TableStart \in Nat /\ fields = [k \in 1..TableStart |-> fields[k]]
    BY <1>2 DEF TableStart
  <2> QED
    BY <1>2, <2>1, FunctionIsSequence DEF FieldCells
<1>6. \A k \in 1..9 : Starts(Lens(secs))[k] = Starts(lens)[k]
  BY <1>4, StartsAlike
<1>7. \A i \in Slots : i \in 1..9
  BY DEF Slots
<1>8. HeaderOf(f, fields, secs)
  <2>1. ASSUME NEW i \in Slots
        PROVE  /\ f[Row(i) + 1] = Starts(Lens(secs))[i] /\ f[Row(i) + 2] = Len(secs[i])
               /\ f[Row(i) + 3] = secs[i] /\ f[Row(i) + 4] = 0
    <3>1. /\ f[Row(i) + 1] = Starts(lens)[i] /\ f[Row(i) + 2] = lens[i]
          /\ f[Row(i) + 3] = SectionOf(f, i) /\ f[Row(i) + 4] = 0
      BY <1>1 DEF Accepted
    <3>2. Starts(Lens(secs))[i] = Starts(lens)[i]
      BY <1>6, <1>7
    <3> QED
      BY <1>2, <1>4, <3>1, <3>2
  <2>2. f[CrcCell] = SubSeq(f, 1, CrcCell - 1) /\ f[HeaderSize] = 0
    BY <1>1 DEF Accepted
  <2> QED
    BY <1>5, <2>1, <2>2 DEF HeaderOf
<1>9. \A i \in Slots : Holds(f, secs, i)
  <2> SUFFICES ASSUME NEW i \in Slots PROVE Holds(f, secs, i)
    OBVIOUS
  <2>1. Starts(Lens(secs))[i] = Starts(lens)[i] /\ Len(secs[i]) = lens[i] /\ secs[i] = SectionOf(f, i)
    BY <1>2, <1>4, <1>6, <1>7
  <2>2. \A j \in 1..lens[i] : f[Starts(lens)[i] + j] = SectionOf(f, i)[j]
    BY <1>3 DEF Fills
  <2>3. \A j \in lens[i] + 1..Pad(lens[i]) : f[Starts(lens)[i] + j] = 0
    BY <1>1 DEF Accepted
  <2> QED
    BY <2>1, <2>2, <2>3 DEF Holds
<1>10. Sequence(f) /\ Len(f) = Starts(Lens(secs))[9]
  BY <1>1, <1>6 DEF FileGood, Unsigned, Accepted
<1>11. \A k \in 1..HeaderSize : f[k] = Header(fields, secs)[k]
  BY <1>4, <1>5, <1>8, HeaderIsOnly
<1>12. f = Sealed(fields, secs)
  BY <1>4, <1>5, <1>9, <1>10, <1>11, SealedIsOnly
<1> QED
  BY <1>12 DEF Serialised, fields, secs

-----------------------------------------------------------------------------
(* Files that are read have unsigned numbers and words.                    *)

\* A section of f and its row in the table agree.
RowsAgree(f) == \A i \in Slots : Sequence(f[Row(i) + 3]) /\ Len(f[Row(i) + 3]) = f[Row(i) + 2]

(* The words of a store are written as cells of words (u64bytes).          *)
LEMMA WordsAreCells == ASSUME NEW v \in Seq(Nat) PROVE WordCells(u64bytes(v))
<1> DEFINE B == MaxU32 + 1
           c == Len(v)
           pairs == [k \in 1..c |-> <<v[k] % B, v[k] \div B>>]
           s == Blocks(pairs, 2)
<1>1. B \in Nat \ {0} /\ B > 0 /\ MaxU32 \in Nat /\ 0..MaxU32 = 0..B - 1
  BY WidthAssumption
<1>2. c \in Nat /\ DOMAIN v = 1..c /\ \A k \in 1..c : v[k] \in Nat
  OBVIOUS
<1>3. u64bytes(v) = s
  BY <1>2 DEF u64bytes
<1> HIDE DEF c
<1>4. pairs = [k \in 1..c |-> pairs[k]] /\ \A k \in 1..c : pairs[k] = <<v[k] % B, v[k] \div B>>
  OBVIOUS
<1>5. \A k \in 1..c : v[k] % B \in 0..MaxU32 /\ v[k] \div B \in Nat
  <2> SUFFICES ASSUME NEW k \in 1..c PROVE v[k] % B \in 0..MaxU32 /\ v[k] \div B \in Nat
    OBVIOUS
  <2> DEFINE x == v[k]
  <2>1. x \in Nat
    BY <1>2
  <2> HIDE DEF x, B
  <2>2. x % B \in 0..B - 1 /\ x \div B \in Nat
    BY <1>1, <2>1
  <2> QED
    BY <1>1, <2>2 DEF x
<1> HIDE DEF pairs, B
<1>6. Len(pairs) = c
  BY <1>2, <1>4, FunctionIsSequence
<1>7. s = [i \in 1..c * 2 |-> pairs[(i - 1) \div 2 + 1][((i - 1) % 2) + 1]]
  BY <1>6 DEF Blocks
<1>8. s = [i \in 1..2 * c |-> s[i]]
  BY <1>2, <1>7
<1>9. ASSUME NEW j \in 1..c PROVE s[2 * j - 1] \in 0..MaxU32 /\ s[2 * j] \in Nat
  <2>1. 2 * j - 1 \in 1..c * 2 /\ 2 * j \in 1..c * 2
    BY <1>2
  <2>2. /\ ((2 * j - 1) - 1) \div 2 + 1 = j /\ (((2 * j - 1) - 1) % 2) + 1 = 1
        /\ (2 * j - 1) \div 2 + 1 = j /\ ((2 * j - 1) % 2) + 1 = 2
    BY <1>2
  <2>3. s[2 * j - 1] = pairs[j][1] /\ s[2 * j] = pairs[j][2]
    BY <1>7, <2>1, <2>2
  <2> QED
    BY <1>4, <1>5, <2>3
<1> HIDE DEF s
<1>10. Len(s) = 2 * c
  BY <1>2, <1>8, FunctionIsSequence
<1>11. Len(s) \div 2 = c
  BY <1>2, <1>10
<1> QED
  BY <1>3, <1>9, <1>11 DEF WordCells

\* A file as a writer leaves it.
FileSound(f) == FileGood(f) /\ RowsAgree(f) /\ WordCells(f[Row(4) + 3]) /\ WordCells(f[Row(6) + 3])
                /\ HeaderSize <= Len(f)

(* A file that is sealed has what its fields and sections have.            *)
LEMMA SealedIsSound ==
    ASSUME NEW fields, FieldCells(fields), \A k \in 1..TableStart : fields[k] \in Nat,
           NEW secs, Payloads(secs), WordCells(secs[4]), WordCells(secs[6]),
           NEW f, f = Sealed(fields, secs)
    PROVE  FileSound(f)
<1>1. /\ Sequence(f) /\ Len(f) = Starts(Lens(secs))[9]
      /\ \A k \in 1..HeaderSize : f[k] = Header(fields, secs)[k]
  BY SealedHolds
<1>2. /\ \A i \in Slots : /\ Header(fields, secs)[Row(i) + 2] = Len(secs[i])
                          /\ Header(fields, secs)[Row(i) + 3] = secs[i]
      /\ \A k \in 1..TableStart : Header(fields, secs)[k] = fields[k]
  BY HeaderHolds
<1>3. /\ \A k \in 1..TableStart : k \in 1..HeaderSize
      /\ \A i \in Slots : Row(i) + 2 \in 1..HeaderSize /\ Row(i) + 3 \in 1..HeaderSize
  BY DEF TableStart, HeaderSize, Row, Slots
<1>4. Unsigned(f)
  BY <1>1, <1>2, <1>3 DEF Unsigned
<1>5. \A i \in Slots : f[Row(i) + 3] = secs[i] /\ f[Row(i) + 2] = Len(secs[i])
  BY <1>1, <1>2, <1>3
<1>6. RowsAgree(f)
  BY <1>5 DEF RowsAgree, Payloads
<1>7. WordCells(f[Row(4) + 3]) /\ WordCells(f[Row(6) + 3])
  BY <1>5 DEF Slots
<1>8. HeaderSize <= Len(f)
  <2>1. \A i \in Slots : Lens(secs)[i] \in Nat
    BY SequenceHas DEF Lens, Payloads
  <2>2. 9 \in 1..9
    OBVIOUS
  <2> QED
    BY <1>1, <2>1, <2>2, StartsHold
<1> QED
  BY <1>4, <1>6, <1>7, <1>8 DEF FileSound, FileGood, WordsSealed

(* The file of a build is one (WriteTo).                                   *)
LEMMA WholeIsSound == ASSUME TypeOK PROVE FileSound(Serialised(BuiltMap))
<1> DEFINE m == BuiltMap
           fields == Fields(m)
           secs == sections(m)
<1>1. FieldCells(fields) /\ Payloads(secs)
  BY FieldsHold, SectionsHold
<1>2. /\ m.s6 = s6 /\ m.valLen = ValLen /\ m.epoch = Epoch /\ m.stats = stats
  BY DEF BuiltMap
<1>3. stats \in Statistics /\ s6.prefix \in Seq(Nat) /\ s6.suffix \in Seq(Nat)
  BY DEF TypeOK, Store6
<1>4. Magic \in Nat /\ ValLen \in Nat /\ Epoch \in Nat
  BY ArtifactAssumption, WrongWidthAssumption
<1> HIDE DEF m
<1>5. \A k \in 1..TableStart : fields[k] \in Nat
  <2>1. idW(m) \in Nat
    BY IdWidthIs DEF idW
  <2>2. Len(m.s6.prefix) \in Nat
    BY <1>2, <1>3
  <2>3. /\ fields[1] \in Nat /\ fields[2] \in Nat /\ fields[3] \in Nat /\ fields[4] \in Nat
        /\ fields[5] \in Nat /\ fields[6] \in Nat /\ fields[7] \in Nat /\ fields[8] \in Nat
        /\ fields[9] \in Nat /\ fields[10] \in Nat /\ fields[11] \in Nat /\ fields[12] \in Nat
    BY <1>2, <1>3, <1>4, <2>1, <2>2 DEF Fields, Statistics
  <2>4. \A k \in 1..TableStart : k = 1 \/ k = 2 \/ k = 3 \/ k = 4 \/ k = 5 \/ k = 6 \/ k = 7
                                 \/ k = 8 \/ k = 9 \/ k = 10 \/ k = 11 \/ k = 12
    BY DEF TableStart
  <2> HIDE DEF fields
  <2> QED
    BY <2>3, <2>4
<1>6. WordCells(secs[4]) /\ WordCells(secs[6])
  <2>1. secs[4] \in {u64bytes(m.s6.prefix), <<>>} /\ secs[6] \in {u64bytes(m.s6.suffix), <<>>}
    BY DEF sections
  <2>2. WordCells(<<>>)
    BY DEF WordCells
  <2>3. WordCells(u64bytes(m.s6.prefix)) /\ WordCells(u64bytes(m.s6.suffix))
    BY <1>2, <1>3, WordsAreCells
  <2> HIDE DEF secs
  <2> QED
    BY <2>1, <2>2, <2>3
<1> HIDE DEF fields, secs
<1>7. Serialised(m) = Sealed(fields, secs)
  BY DEF Serialised, fields, secs
<1>8. FileSound(Serialised(m))
  BY <1>1, <1>5, <1>6, <1>7, SealedIsSound
<1> QED
  BY <1>8 DEF m

(* What a header that is changed and checksummed anew leaves of a file.    *)
LEMMA ResealedIsGood ==
    ASSUME NEW f, FileSound(f), f = file, NEW k \in 1..HeaderSize \ {CrcCell}, NEW c \in Other(k),
           NEW x, NEW g, g = [[f EXCEPT ![k] = c] EXCEPT ![CrcCell] = x]
    PROVE  FileGood(g)
<1>1. HeaderSize = 46 /\ CrcCell = 45 /\ TableStart = 12
  BY DEF CrcCell, HeaderSize, TableStart
<1>2. /\ Sequence(f) /\ 46 <= Len(f) /\ RowsAgree(f) /\ Unsigned(f)
      /\ WordCells(f[Row(4) + 3]) /\ WordCells(f[Row(6) + 3])
  BY <1>1 DEF FileSound, FileGood, Unsigned
<1>3. Len(f) \in Nat /\ DOMAIN f = 1..Len(f)
  BY <1>2, SequenceHas
<1>4. g = [i \in 1..Len(f) |-> g[i]]
  BY <1>3
<1>5. Sequence(g)
  BY <1>3, <1>4, FunctionIsSequence
<1>6. \A j \in 1..44 : g[j] = IF j = k THEN c ELSE f[j]
  <2> SUFFICES ASSUME NEW j \in 1..44 PROVE g[j] = IF j = k THEN c ELSE f[j]
    OBVIOUS
  <2>1. j \in DOMAIN f /\ j # CrcCell
    BY <1>1, <1>2, <1>3
  <2> DEFINE h == [f EXCEPT ![k] = c]
  <2>2. DOMAIN h = DOMAIN f /\ h[j] = IF j = k THEN c ELSE f[j]
    BY <2>1
  <2> HIDE DEF h
  <2>3. g = [h EXCEPT ![CrcCell] = x]
    BY DEF h
  <2>4. g[j] = h[j]
    BY <2>1, <2>2, <2>3
  <2> QED
    BY <2>2, <2>4
<1>7. Unsigned(g)
  <2> SUFFICES ASSUME NEW j \in 1..12 PROVE g[j] \in Nat
    BY <1>1, <1>5 DEF Unsigned
  <2>1. g[j] = IF j = k THEN c ELSE f[j]
    BY <1>6
  <2>2. f[j] \in Nat
    BY <1>1, <1>2 DEF Unsigned
  <2>3. j = k => c \in Nat
    <3> HAVE j = k
    <3>1. ~IsCrc(k)
      BY <1>1 DEF IsCrc
    <3> QED
      BY <3>1, ArtifactAssumption DEF Other
  <2> QED
    BY <2>1, <2>2, <2>3
<1>8. WordsSealed(g)
  <2> SUFFICES ASSUME NEW i \in {4, 6}
               PROVE  \/ WordCells(g[Row(i) + 3])
                      \/ Len(g[Row(i) + 3]) # g[Row(i) + 2]
    BY DEF WordsSealed
  <2> DEFINE r == Row(i)
  <2>1. r \in {24, 32} /\ i \in Slots
    BY <1>1 DEF Row, Slots
  <2> HIDE DEF r
  <2>a. r + 3 \in 1..44 /\ r + 2 \in 1..44 /\ r + 2 # r + 3 /\ r + 3 \in 13..44
        /\ ((r + 3) - 12) % 4 = 3
    BY <2>1
  <2>2. WordCells(f[r + 3])
    BY <1>2 DEF r
  <2>3. CASE k # r + 3
    <3>1. g[r + 3] = f[r + 3]
      BY <1>6, <2>a, <2>3
    <3> QED
      BY <2>2, <3>1 DEF r
  <2>4. CASE k = r + 3
    <3>1. IsCrc(k)
      <4>1. k \in 12 + 1..45 - 1 /\ (k - 12) % 4 = 3
        BY <2>a, <2>4
      <4> QED
        BY <1>1, <4>1 DEF IsCrc
    <3>2. c = Append(f[k], 0)
      BY <3>1 DEF Other
    <3>3. Sequence(f[k]) /\ Len(f[k]) = f[r + 2]
      BY <1>2, <2>1, <2>4 DEF RowsAgree, r
    <3>4. Len(c) = Len(f[k]) + 1 /\ Len(f[k]) \in Nat
      BY <3>2, <3>3, OneLonger
    <3>5. g[r + 3] = c /\ g[r + 2] = f[r + 2]
      BY <1>6, <2>a, <2>4
    <3> QED
      BY <3>3, <3>4, <3>5 DEF r
  <2> QED
    BY <2>3, <2>4 DEF r
<1> QED
  BY <1>7, <1>8 DEF FileGood

(* A cell of a section is of the section's kind (Forge).                   *)
LEMMA ContentsHold ==
    ASSUME NEW lens, NEW secs \in Contents(lens), NEW i \in Slots
    PROVE  secs[i] \in [1..lens[i] -> CellsOf[i]]
<1>1. i \in 1..8
  BY DEF Slots
<1> QED
  BY <1>1 DEF Contents

(* So have files of other writers (Forge).                                 *)
LEMMA ForgedIsGood ==
    ASSUME NEW fields \in Forgeries, NEW lens, lens = expect(numbers(fields)),
           NEW secs \in Contents(lens)
    PROVE  FileGood(Sealed(fields, secs))
<1>1. FieldCells(fields) /\ \A k \in 1..TableStart : fields[k] \in Nat
  <2>1. fields \in [1..TableStart -> Nat] /\ TableStart \in Nat
    BY ForgeryAssumption DEF TableStart
  <2>2. fields = [k \in 1..TableStart |-> fields[k]]
    BY <2>1
  <2> QED
    BY <2>1, <2>2, FunctionIsSequence DEF FieldCells
<1>2. \A i \in Slots : lens[i] \in Nat
  BY <1>1, ExpectNat DEF Unsigned, FieldCells
<1>3. ASSUME NEW i \in Slots PROVE Sequence(secs[i]) /\ Len(secs[i]) = lens[i]
  <2>1. secs[i] \in [1..lens[i] -> CellsOf[i]] /\ lens[i] \in Nat
    BY <1>2, ContentsHold
  <2>2. secs[i] = [j \in 1..lens[i] |-> secs[i][j]]
    BY <2>1
  <2> QED
    BY <2>1, <2>2, FunctionIsSequence
<1>4. ASSUME NEW i \in {4, 6} PROVE WordCells(secs[i])
  <2>1. i \in Slots /\ CellsOf[i] = 0..MaxU32
    BY DEF Slots, CellsOf
  <2>2. \A j \in 1..lens[i] : secs[i][j] \in 0..MaxU32
    <3>1. secs[i] \in [1..lens[i] -> CellsOf[i]]
      BY <2>1, ContentsHold
    <3>2. secs[i] \in [1..lens[i] -> 0..MaxU32]
      BY <2>1, <3>1
    <3> QED
      BY <3>2
  <2>3. \A y : y \in 0..MaxU32 => y \in Nat
    BY WidthAssumption
  <2>4. \A j \in 1..Len(secs[i]) \div 2 : 2 * j - 1 \in 1..lens[i] /\ 2 * j \in 1..lens[i]
    <3>1. Len(secs[i]) = lens[i] /\ lens[i] \in Nat
      BY <1>2, <1>3, <2>1
    <3> DEFINE l == lens[i]
    <3> HIDE DEF l
    <3>2. l \in Nat => \A j \in 1..l \div 2 : 2 * j - 1 \in 1..l /\ 2 * j \in 1..l
      OBVIOUS
    <3> QED
      BY <3>1, <3>2 DEF l
  <2> QED
    BY <2>2, <2>3, <2>4 DEF WordCells
<1>5. Payloads(secs) /\ WordCells(secs[4]) /\ WordCells(secs[6])
  BY <1>3, <1>4 DEF Payloads
<1>6. FileSound(Sealed(fields, secs))
  BY <1>1, <1>5, SealedIsSound
<1> QED
  BY <1>6 DEF FileSound

\* What resealing or another writer puts on disk is made of unsigned numbers.
KInv == /\ harm \in {"none", "flipped", "grown", "resealed", "forged"}
        /\ harm \in {"resealed", "forged"} => FileGood(file)

LEMMA InitKInv == CommandInit => KInv
  BY DEF CommandInit, FileInit, KInv

(* Steps that write, damage, reseal or replace the file, or none of these. *)
LEMMA NextKInv == CInv /\ KInv /\ [CommandNext]_<<pvars, avars>> => KInv'
<1> SUFFICES ASSUME CInv, KInv, [CommandNext]_<<pvars, avars>> PROVE KInv'
  OBVIOUS
<1>1. ASSUME UNCHANGED <<file, harm>> PROVE KInv'
  <2>1. FileGood(file)' <=> FileGood(file)
    BY <1>1
  <2> QED
    BY <1>1, <2>1 DEF KInv
<1>2. CASE Parse \/ Compile \/ OpenFile \/ UNCHANGED <<pvars, avars>>
  BY <1>1, <1>2 DEF Parse, Compile, OpenFile, avars
<1>3. CASE WriteTo \/ WriteFails
  BY <1>3 DEF WriteTo, WriteFails, Writing, KInv
<1>4. CASE Flip \/ Grow
  BY <1>4 DEF Flip, Grow, Harm, KInv
<1>5. CASE Reseal
  <2>1. piece = 9 /\ harm = "none" /\ harm' = "resealed"
    BY <1>5 DEF Reseal, Harm
  <2>2. file = Serialised(BuiltMap) /\ TypeOK
    BY <2>1 DEF CInv, FileInv, WriterInv, IInv
  <2>3. FileSound(file)
    BY <2>2, WholeIsSound
  <2>4. PICK k \in 1..HeaderSize \ {CrcCell} : \E c \in Other(k) :
          LET f == [file EXCEPT ![k] = c]
          IN file' = [f EXCEPT ![CrcCell] = Checksum(SubSeq(f, 1, CrcCell - 1))]
    BY <1>5 DEF Reseal
  <2>5. PICK c \in Other(k) :
          LET f == [file EXCEPT ![k] = c]
          IN file' = [f EXCEPT ![CrcCell] = Checksum(SubSeq(f, 1, CrcCell - 1))]
    BY <2>4
  <2> DEFINE x == Checksum(SubSeq([file EXCEPT ![k] = c], 1, CrcCell - 1))
  <2>6. file' = [[file EXCEPT ![k] = c] EXCEPT ![CrcCell] = x]
    BY <2>5
  <2> HIDE DEF x
  <2>7. FileGood(file')
    BY <2>3, <2>6, ResealedIsGood
  <2>8. FileGood(file)'
    BY <2>7
  <2> QED
    BY <2>1, <2>8 DEF KInv
<1>6. CASE Foreign
  <2>1. harm' = "forged" /\ Forge
    BY <1>6 DEF Foreign, Forge
  <2>2. PICK fields \in Forgeries :
          \E secs \in Contents(expect(numbers(fields))) : file' = Sealed(fields, secs)
    BY <2>1 DEF Forge
  <2> DEFINE lens == expect(numbers(fields))
  <2>3. PICK secs \in Contents(lens) : file' = Sealed(fields, secs)
    BY <2>2
  <2>4. lens = expect(numbers(fields))
    OBVIOUS
  <2> HIDE DEF lens
  <2>5. FileGood(file')
    BY <2>3, <2>4, ForgedIsGood
  <2>6. FileGood(file)'
    BY <2>5
  <2> QED
    BY <2>1, <2>6 DEF KInv
<1> QED
  BY <1>2, <1>3, <1>4, <1>5, <1>6 DEF CommandNext, FileNext

(* Accepted implies canonical, for every spec, value width, word and       *)
(* alignment and every file of another writer: a file that Open accepts,   *)
(* whole, resealed or forged, is what WriteTo of its Map writes.           *)
THEOREM AcceptedCanonical == Command => []AcceptedIsCanonical
<1>1. ServeInv /\ KInv => AcceptedIsCanonical
  <2> SUFFICES ASSUME ServeInv, KInv, verdict = "ok" PROVE Serialised(opened) = file
    BY DEF AcceptedIsCanonical
  <2>1. openBytes(file) = "ok" /\ opened = assemble(file)
    BY DEF ServeInv, ReadInv, Read
  <2>2. FileGood(file)
    <3>1. CASE harm = "none"
      <4>1. WriterInv
        BY <3>1 DEF ServeInv, FileInv
      <4>2. file = Serialised(BuiltMap)
        BY <3>1, <4>1 DEF WriterInv, TornIsRefused, Read, Whole, Refused
      <4>3. TypeOK
        BY DEF ServeInv, CommandInv, IInv
      <4> QED
        BY <4>2, <4>3, WholeIsSound DEF FileSound
    <3>2. CASE harm \in {"flipped", "grown"}
      <4>1. openBytes(file) \in Refused
        BY <3>2 DEF ServeInv, FileInv, DamageInv
      <4> QED
        BY <2>1, <4>1 DEF Refused
    <3>3. CASE harm \in {"resealed", "forged"}
      BY <3>3 DEF KInv
    <3> QED
      BY <3>1, <3>2, <3>3 DEF KInv
  <2> QED
    BY <2>1, <2>2, CanonicalWhen
<1>2. ServeInv => CInv
  BY DEF ServeInv, CommandInv, CInv
<1> QED
  BY <1>1, <1>2, ServeHolds, InitKInv, NextKInv, PTL DEF Command
=============================================================================
