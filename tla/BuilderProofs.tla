--------------------------- MODULE BuilderProofs ---------------------------
(***************************************************************************)
(* Builder, for every instance: any uint32 width, any byte width, any      *)
(* address space, any set of values and any sequence of calls.             *)
(*                                                                         *)
(* Three invariants, each proved one action at a time:                     *)
(*   IInv  the arrays are aligned, and Build does not panic;               *)
(*   FInv  what is in them: the entries and the stores stand for the puts, *)
(*         which gives AnswersLastWins, BuiltStoreValid and the refinement *)
(*         of AddrMap;                                                     *)
(*   SInv  what has been dropped is counted, which gives StatsAccount.     *)
(***************************************************************************)
EXTENDS Builder, StoreProofs, FiniteSetTheorems, TLAPS

(* Arithmetic of uint32. *)

(* A conversion to uint32 is in range (the conversions of builder.go).     *)
LEMMA U32Range == ASSUME NEW x \in Nat PROVE U32(x) \in 0..MaxU32
  BY WidthAssumption DEF U32

(* What fits uint32 is not changed by the conversion.                      *)
LEMMA U32Same == ASSUME NEW x \in 0..MaxU32 PROVE U32(x) = x
  BY WidthAssumption DEF U32

(* Packed ids. *)

(* The capacities of one to four bytes are natural numbers (values.go).    *)
LEMMA PowerType == \A k \in 0..4 : Power[k] \in Nat \ {0}
<1>1. DEFINE B == ByteSize
<1>2. B \in Nat \ {0}
  BY WidthAssumption
<1>3. B * B \in Nat \ {0}
  BY <1>2
<1>4. B * B * B \in Nat \ {0}
  BY <1>2, <1>3
<1>5. B * B * B * B \in Nat \ {0}
  BY <1>2, <1>4
<1> QED
  BY <1>2, <1>3, <1>4, <1>5 DEF Power

(* putID writes bytes, whatever the id and the width (values.go).          *)
LEMMA PackType == ASSUME NEW w \in 0..4, NEW id \in Nat
                  PROVE  Pack(w, id) \in Seq(Nat)
<1>1. ASSUME NEW b \in 1..w PROVE (id \div Power[b - 1]) % ByteSize \in Nat
  <2>1. Power[b - 1] \in Nat \ {0}
    BY PowerType
  <2>2. id \div Power[b - 1] \in Nat
    BY <2>1
  <2> QED BY <2>2, WidthAssumption
<1> QED BY <1>1 DEF Pack

(* The width of n ids is between one and four bytes (values.go).           *)
LEMMA WidthType == \A k : idWidth(k) \in 1..4
  BY DEF idWidth

(* An id below the number of distinct values fits the width derived from   *)
(* that number: the panic of putID is not reached (values.go).             *)
LEMMA WidthHolds == ASSUME NEW k \in Nat, NEW id \in Nat, id < k
                    PROVE  Fits(idWidth(k), id)
  BY PowerType, id < k DEF Fits, idWidth

-----------------------------------------------------------------------------
(* The inductive invariant.                                                *)

IInv == TypeOK /\ Bookkeeping /\ NeverPanics

(* The layout newValues prepares is well formed (builder.go).              *)
LEMMA NewValuesType ==
    ASSUME TypeOK
    PROVE  newValues \in ValsLayout
<1>1. NoVals \in ValsLayout
  BY DEF NoVals, ValsLayout
<1>2. idWidth(Cardinality(DOMAIN byVal)) \in 0..4
  BY WidthType
<1> QED BY <1>1, <1>2 DEF newValues, TypeOK, ValsLayout, NoVals

(* The value, or the id, of every accepted Add is there (builder.go).      *)
LEMMA SeqReadable ==
    ASSUME TypeOK, Bookkeeping, pc # "done", NEW seq \in Nat, seq < n
    PROVE  /\ intern => ids[seq + 1] \in 0..MaxU32 /\ ids[seq + 1] < Len(tab)
           /\ ~intern => vals[seq + 1] \in Values
           /\ seq + 1 \in 0..MaxU32
<1>1. ids \in Seq(0..MaxU32) /\ vals \in Seq(Values) /\ n \in 0..MaxU32
  BY DEF TypeOK
<1>2. seq + 1 \in 1..n
  BY <1>1, WidthAssumption
<1>3. ASSUME intern PROVE ids[seq + 1] \in 0..MaxU32 /\ ids[seq + 1] < Len(tab)
  <2>1. seq + 1 \in 1..Len(ids)
    BY <1>2, <1>3 DEF Bookkeeping
  <2>2. ids[seq + 1] < Len(tab)
    BY <2>1 DEF Bookkeeping
  <2>3. ids[seq + 1] \in 0..MaxU32
    BY <1>1, <2>1, WidthAssumption
  <2> QED BY <2>2, <2>3
<1>4. ASSUME ~intern PROVE vals[seq + 1] \in Values
  BY <1>1, <1>2, <1>4 DEF Bookkeeping
<1> QED BY <1>1, <1>2, <1>3, <1>4, WidthAssumption

(* setVal keeps the layout well formed: the sequence number it is given    *)
(* has a value, or an id (builder.go).                                     *)
LEMMA SetValType ==
    ASSUME TypeOK, Bookkeeping, pc # "done",
           NEW v \in ValsLayout, NEW seq \in Nat, seq < n
    PROVE  setVal(v, seq) \in ValsLayout /\ setVal(v, seq).idW = v.idW
<1>1. CASE intern
  <2>1. ids[seq + 1] \in Nat
    BY <1>1, SeqReadable, WidthAssumption
  <2>2. v.idW \in 0..4
    BY DEF ValsLayout
  <2>3. Pack(v.idW, ids[seq + 1]) \in Seq(Nat)
    BY <2>1, <2>2, PackType
  <2>4. Append(v.ids, Pack(v.idW, ids[seq + 1])) \in Seq(Seq(Nat))
    BY <2>3 DEF ValsLayout
  <2> QED BY <1>1, <2>4 DEF setVal, ValsLayout
<1>2. CASE ~intern
  <2>1. Append(v.direct, vals[seq + 1]) \in Seq(Values)
    BY <1>2, SeqReadable DEF ValsLayout
  <2> QED BY <1>2, <2>1 DEF setVal, ValsLayout
<1> QED BY <1>1, <1>2 DEF TypeOK

(* No slot is refused: an id fits its width, and below the cap of Add no   *)
(* sequence number is at the top of uint32 (builder.go, values.go).        *)
LEMMA SetValSucceeds ==
    ASSUME TypeOK, Bookkeeping, pc # "done",
           NEW v, NEW seq \in Nat, seq < n,
           intern => v.idW = idWidth(Len(tab))
    PROVE  setValOk(v, seq)
<1>1. CASE intern
  <2>1. ids[seq + 1] \in Nat /\ ids[seq + 1] < Len(tab)
    BY <1>1, SeqReadable, WidthAssumption
  <2>2. Len(tab) \in Nat
    BY DEF TypeOK
  <2> QED BY <1>1, <2>1, <2>2, WidthHolds DEF setValOk
<1>2. CASE ~intern
  BY <1>2, SeqReadable, U32Same DEF setValOk, Readable
<1> QED BY <1>1, <1>2 DEF TypeOK

(* The comparison of dropped entries reads values that are there.          *)
LEMMA DropSucceeds ==
    ASSUME TypeOK, NEW es \in Seq(Entry),
           \A k \in 1..Len(es) : es[k].vi < n,
           NEW i \in 1..Len(es), NEW j \in i..Len(es)
    PROVE  DropReadable(es, i, j)
<1> SUFFICES ASSUME NEW k \in i..j PROVE Readable(es[k].vi)
  BY DEF DropReadable
<1>1. k \in 1..Len(es) /\ es[k] \in Entry
  OBVIOUS
<1>2. es[k].vi \in 0..MaxU32 /\ es[k].vi < n
  BY <1>1 DEF Entry
<1>3. n \in 0..MaxU32
  BY DEF TypeOK
<1>4. es[k].vi + 1 \in 0..MaxU32
  BY <1>2, <1>3, WidthAssumption, SMTT(40)
<1> QED BY <1>4, U32Same DEF Readable

(* Dropping a run leaves the statistics natural numbers.                   *)
LEMMA DroppedType ==
    ASSUME TypeOK, NEW es, NEW i \in Nat, NEW j \in Nat, i <= j
    PROVE  Dropped(es, i, j) \in Statistics
<1> DEFINE lost == {k \in i..j - 1 : ~sameVal(es[k].vi, es[j].vi)}
<1>1. IsFiniteSet(i..j - 1)
  BY FS_Interval
<1>2. Cardinality(lost) \in Nat
  BY <1>1, FS_Subset, FS_CardinalityType
<1>3. j - i \in Nat
  OBVIOUS
<1>4. stats \in Statistics
  BY DEF TypeOK
<1>5. stats.Dups + (j - i) \in Nat /\ stats.DupConflicts + Cardinality(lost) \in Nat
  BY <1>2, <1>3, <1>4 DEF Statistics
<1> HIDE DEF lost
<1>6. [stats EXCEPT !.Dups = @ + (j - i), !.DupConflicts = @ + Cardinality(lost)]
        \in Statistics
  BY <1>4, <1>5 DEF Statistics
<1> QED BY <1>6 DEF Dropped, lost

(* The empty Builder satisfies the invariant.                              *)
LEMMA InitIInv == Init => IInv
<1> SUFFICES ASSUME Init PROVE IInv
  OBVIOUS
<1> USE WidthAssumption
<1>1. byVal = <<>> /\ DOMAIN byVal = {}
  BY DEF Init
<1>2. IsFiniteSet(DOMAIN byVal) /\ Cardinality(DOMAIN byVal) = 0
  BY <1>1, FS_EmptySet
<1>3. byVal \in [DOMAIN byVal -> 0..MaxU32]
  BY <1>1
<1>4. NoVals \in ValsLayout
  BY DEF NoVals, ValsLayout
<1>5. s4 \in Store4 /\ s6 \in Store6
  BY <1>4 DEF Init, Store4, Store6, Nil4, Nil6
<1>6. stats \in Statistics
  BY DEF Init, Statistics, NoStats
<1>7. TypeOK
  <2>1. n \in 0..MaxU32 /\ at \in Nat \ {0} /\ kept \in Nat /\ pc \in Phases
    BY DEF Init, Phases
  <2>2. /\ v4 \in Seq(Entry) /\ v6 \in Seq(Entry)
        /\ vals \in Seq(Values) /\ tab \in Seq(Values) /\ ids \in Seq(0..MaxU32)
        /\ log \in Seq([host : AddrKey, val : Values])
    BY DEF Init
  <2>3. /\ intern \in BOOLEAN /\ built \in BOOLEAN /\ (built <=> pc # "open")
        /\ ret \in {"none", "ok", "invalid", "zone", "width", "cap", "panic"}
    BY DEF Init
  <2> QED BY <1>1, <1>2, <1>3, <1>5, <1>6, <2>1, <2>2, <2>3 DEF TypeOK
<1>8. Bookkeeping
  BY <1>1, <1>2 DEF Init, Bookkeeping
<1> QED BY <1>7, <1>8 DEF IInv, NeverPanics, Init

-----------------------------------------------------------------------------
(* One lemma per action: it preserves the invariant.                       *)

(* A step that leaves the Builder and the Map alone (a refused Add, a      *)
(* misuse, stuttering) keeps the invariant.                                *)
LEMMA QuietIInv ==
    ASSUME IInv, UNCHANGED <<intern, entries, n, built, valstate, mapstate, pc, loop, log>>,
           ret' \in {"none", "ok", "invalid", "zone", "width", "cap", "panic"}
    PROVE  IInv'
  BY DEF IInv, TypeOK, Bookkeeping, NeverPanics, entries, valstate, mapstate, loop

(* A refused Add changes nothing but its result.                           *)
LEMMA AddRefusedIInv ==
    ASSUME IInv, NEW a \in Inputs, NEW val, AddRefused(a, val)
    PROVE  IInv'
<1>1. ret' \in {"none", "ok", "invalid", "zone", "width", "cap", "panic"}
  BY DEF AddRefused, Refusal
<1> QED BY <1>1, QuietIInv DEF AddRefused

(* Using a consumed Builder changes nothing.                               *)
LEMMA MisuseIInv == ASSUME IInv, Misuse PROVE IInv'
  BY QuietIInv DEF Misuse

(* Calling Build starts the sort with nothing kept yet.                    *)
LEMMA BuildIInv == ASSUME IInv, Build PROVE IInv'
<1>1. Cardinality(DOMAIN byVal) \in Nat
  BY FS_CardinalityType DEF IInv, TypeOK
<1>2. stats' \in Statistics
  BY <1>1 DEF Build, IInv, TypeOK, Statistics
<1>3. TypeOK'
  BY <1>2 DEF Build, Goto, IInv, TypeOK, Phases, entries, valstate, loop
<1>4. pc = "open" /\ pc' = "sort4"
  BY DEF Build, Goto, IInv, TypeOK
<1>5. Bookkeeping' /\ NeverPanics'
  BY <1>4 DEF Build, IInv, Bookkeeping, NeverPanics, entries, valstate, loop
<1> QED BY <1>3, <1>5 DEF IInv

(* Releasing the intermediates leaves no entry without its value.          *)
LEMMA ReleaseIInv == ASSUME IInv, Release PROVE IInv'
<1> USE DEF Release, Goto, mapstate
<1>1. DOMAIN byVal' = {} /\ byVal' \in [DOMAIN byVal' -> 0..MaxU32]
  OBVIOUS
<1>2. IsFiniteSet(DOMAIN byVal')
  BY <1>1, FS_EmptySet
<1>3. /\ v4' \in Seq(Entry) /\ v6' \in Seq(Entry)
      /\ vals' \in Seq(Values) /\ ids' \in Seq(0..MaxU32)
  OBVIOUS
<1>4. TypeOK'
  BY <1>1, <1>2, <1>3 DEF IInv, TypeOK, Phases
<1>5. Bookkeeping' /\ NeverPanics'
  BY <1>1 DEF Bookkeeping, NeverPanics
<1> QED BY <1>4, <1>5 DEF IInv

(* Unmapping a valid address gives a 32-bit or a 128-bit address.          *)
LEMMA UnmapType ==
    ASSUME NEW a \in Inputs, a.kind # "invalid"
    PROVE  Unmap(a).kind \in {"v4", "v6"} /\ Unmap(a).hi \in Nat /\ Unmap(a).lo \in Nat
<1>1. a.kind \in {"v4", "v6"} /\ a.hi \in Nat /\ a.lo \in Nat
  BY InputAssumption
<1>2. CASE Mapped(a)
  <2>1. Octets \in Nat \ {0} /\ MapBase \in Nat
    BY WidthAssumption
  <2>2. a.lo - MapBase \in Nat
    BY <1>1, <1>2, <2>1 DEF Mapped
  <2>3. (a.lo - MapBase) \div Octets \in Nat /\ (a.lo - MapBase) % Octets \in Nat
    BY <2>1, <2>2
  <2> QED BY <1>2, <2>3 DEF Unmap
<1>3. CASE ~Mapped(a)
  BY <1>1, <1>3 DEF Unmap
<1> QED BY <1>2, <1>3

(* Remember gives the Add that is being made its value, or its id.         *)
LEMMA RememberKeeps ==
    ASSUME IInv, pc # "done", n < MaxU32, NEW val \in Values, Remember(val)
    PROVE  /\ vals' \in Seq(Values) /\ tab' \in Seq(Values) /\ ids' \in Seq(0..MaxU32)
           /\ DOMAIN byVal' \subseteq Values /\ IsFiniteSet(DOMAIN byVal')
           /\ byVal' \in [DOMAIN byVal' -> 0..MaxU32]
           /\ IF intern THEN Len(ids') = n + 1 ELSE Len(vals') = n + 1
           /\ Cardinality(DOMAIN byVal') = Len(tab') /\ Len(tab') <= n + 1
           /\ \A x \in DOMAIN byVal' : byVal'[x] < Len(tab')
           /\ \A k \in 1..Len(ids') : ids'[k] < Len(tab')
<1> USE DEF IInv
<1>1. /\ vals \in Seq(Values) /\ tab \in Seq(Values) /\ ids \in Seq(0..MaxU32)
      /\ DOMAIN byVal \subseteq Values /\ IsFiniteSet(DOMAIN byVal)
      /\ byVal \in [DOMAIN byVal -> 0..MaxU32] /\ n \in 0..MaxU32
      /\ MaxU32 \in Nat
  BY WidthAssumption DEF TypeOK
<1>2. /\ IF intern THEN Len(ids) = n ELSE Len(vals) = n
      /\ Cardinality(DOMAIN byVal) = Len(tab) /\ Len(tab) <= n
      /\ \A x \in DOMAIN byVal : byVal[x] < Len(tab)
      /\ \A k \in 1..Len(ids) : ids[k] < Len(tab)
  BY DEF Bookkeeping
<1> DEFINE m == Len(tab)
<1>a. m \in Nat /\ m <= n + 1 /\ m <= n
  BY <1>1, <1>2
<1>3. CASE ~intern
  <2>1. vals' = Append(vals, val) /\ UNCHANGED <<tab, byVal, ids>>
    BY <1>3 DEF Remember
  <2>2. vals' \in Seq(Values) /\ Len(vals') = n + 1
    BY <1>1, <1>2, <1>3, <2>1
  <2> QED BY <1>1, <1>2, <1>3, <1>a, <2>1, <2>2
<1>4. CASE intern /\ val \in DOMAIN byVal
  <2>1. ids' = Append(ids, byVal[val]) /\ UNCHANGED <<vals, tab, byVal>>
    BY <1>4 DEF Remember
  <2>2. byVal[val] \in 0..MaxU32 /\ byVal[val] < Len(tab)
    BY <1>1, <1>2, <1>4
  <2>3. ids' \in Seq(0..MaxU32) /\ Len(ids') = Len(ids) + 1
    BY <1>1, <2>1, <2>2
  <2>4. \A k \in 1..Len(ids') : ids'[k] < Len(tab')
    BY <1>1, <1>2, <2>1, <2>2
  <2> QED BY <1>1, <1>2, <1>4, <1>a, <2>1, <2>3, <2>4
<1>5. CASE intern /\ val \notin DOMAIN byVal
  <2> DEFINE id == U32(Cardinality(DOMAIN byVal))
  <2>1. id = Len(tab) /\ id \in 0..MaxU32
    BY <1>1, <1>2, U32Same
  <2> HIDE DEF id
  <2>2. /\ byVal' = [x \in DOMAIN byVal \cup {val} |-> IF x = val THEN id ELSE byVal[x]]
        /\ tab' = Append(tab, val) /\ ids' = Append(ids, id) /\ vals' = vals
    BY <1>5 DEF Remember, id
  <2>3. DOMAIN byVal' = DOMAIN byVal \cup {val}
    BY <2>2
  <2>4. /\ IsFiniteSet(DOMAIN byVal')
        /\ Cardinality(DOMAIN byVal') = Cardinality(DOMAIN byVal) + 1
    BY <1>1, <1>5, <2>3, FS_AddElement
  <2>5. tab' \in Seq(Values) /\ Len(tab') = Len(tab) + 1
    BY <1>1, <2>2
  <2>6. byVal' \in [DOMAIN byVal' -> 0..MaxU32]
    BY <1>1, <2>1, <2>2
  <2>7. \A x \in DOMAIN byVal' : byVal'[x] < Len(tab')
    BY <1>1, <1>2, <2>1, <2>2, <2>5
  <2>8. ids' \in Seq(0..MaxU32) /\ Len(ids') = n + 1
    BY <1>1, <1>2, <1>5, <2>1, <2>2
  <2>9. \A k \in 1..Len(ids') : ids'[k] < Len(tab')
    BY <1>1, <1>2, <2>1, <2>2, <2>5
  <2>10. DOMAIN byVal' \subseteq Values
    BY <1>1, <2>3
  <2>11. Cardinality(DOMAIN byVal') = Len(tab') /\ Len(tab') <= n + 1
    BY <1>1, <1>2, <1>a, <2>4, <2>5
  <2> QED BY <1>1, <1>5, <2>2, <2>4, <2>5, <2>6, <2>7, <2>8, <2>9, <2>10, <2>11
<1> QED BY <1>3, <1>4, <1>5 DEF TypeOK

(* Appending an entry with a sequence number below m keeps all below m.    *)
LEMMA AppendBelow ==
    ASSUME NEW es \in Seq(Entry), NEW e \in Entry, NEW m, e.vi < m,
           \A k \in 1..Len(es) : es[k].vi < m
    PROVE  /\ Append(es, e) \in Seq(Entry) /\ Len(Append(es, e)) = Len(es) + 1
           /\ \A k \in 1..Len(Append(es, e)) : Append(es, e)[k].vi < m
<1>1. Append(es, e) \in Seq(Entry) /\ Len(Append(es, e)) = Len(es) + 1
  OBVIOUS
<1>2. ASSUME NEW k \in 1..Len(es) + 1 PROVE Append(es, e)[k].vi < m
  <2>1. CASE k = Len(es) + 1
    BY <2>1
  <2>2. CASE k # Len(es) + 1
    <3>1. k \in 1..Len(es) /\ Append(es, e)[k] = es[k]
      BY <2>2
    <3> QED BY <3>1
  <2> QED BY <2>1, <2>2
<1> QED BY <1>1, <1>2

(* An accepted Add: one entry, one value, one sequence number.             *)
LEMMA AddIInv ==
    ASSUME IInv, NEW a \in Inputs, NEW val \in Values \cup {WrongWidth}, Add(a, val)
    PROVE  IInv'
<1> DEFINE u == StoredAs(a)
           e == [hi |-> u.hi, lo |-> u.lo, vi |-> U32(n)]
<1>1. pc = "open" /\ pc # "done"
  BY DEF Add, IInv, TypeOK
<1>2. a.kind # "invalid" /\ val \in Values /\ ~(n >= MaxU32)
  BY DEF Add, Refusal
<1>3. n \in 0..MaxU32 /\ MaxU32 \in Nat
  BY WidthAssumption DEF IInv, TypeOK
<1>4. n < MaxU32 /\ n' = n + 1 /\ n' \in 0..MaxU32 /\ U32(n) = n
  BY <1>2, <1>3, U32Same DEF Add
<1>5. u.kind \in {"v4", "v6"} /\ u.hi \in Nat /\ u.lo \in Nat
  BY <1>2, UnmapType DEF StoredAs
<1>6. e \in Entry /\ e.vi < n'
  BY <1>3, <1>4, <1>5 DEF Entry
<1>7. /\ v4 \in Seq(Entry) /\ v6 \in Seq(Entry) /\ Len(v4) + Len(v6) = n
      /\ \A k \in 1..Len(v4) : v4[k].vi < n
      /\ \A k \in 1..Len(v6) : v6[k].vi < n
  BY <1>1 DEF IInv, TypeOK, Bookkeeping
<1>8. IF u.kind = "v4" THEN v4' = Append(v4, e) /\ v6' = v6
                       ELSE v6' = Append(v6, e) /\ v4' = v4
  BY DEF Add
<1> HIDE DEF e, u
<1>9. \A k \in 1..Len(v4) : v4[k] \in Entry /\ v4[k].vi < n'
  <2> SUFFICES ASSUME NEW k \in 1..Len(v4) PROVE v4[k] \in Entry /\ v4[k].vi < n'
    OBVIOUS
  <2>1. v4[k] \in Entry /\ v4[k].vi < n
    BY <1>7
  <2> QED BY <2>1, <1>3, <1>4 DEF Entry
<1>10. \A k \in 1..Len(v6) : v6[k] \in Entry /\ v6[k].vi < n'
  <2> SUFFICES ASSUME NEW k \in 1..Len(v6) PROVE v6[k] \in Entry /\ v6[k].vi < n'
    OBVIOUS
  <2>1. v6[k] \in Entry /\ v6[k].vi < n
    BY <1>7
  <2> QED BY <2>1, <1>3, <1>4 DEF Entry
<1>11. /\ v4' \in Seq(Entry) /\ v6' \in Seq(Entry) /\ Len(v4') + Len(v6') = n'
       /\ \A k \in 1..Len(v4') : v4'[k].vi < n'
       /\ \A k \in 1..Len(v6') : v6'[k].vi < n'
  <2>1. CASE u.kind = "v4"
    <3>1. v4' = Append(v4, e) /\ v6' = v6
      BY <1>8, <2>1
    <3>2. /\ v4' \in Seq(Entry) /\ Len(v4') = Len(v4) + 1
          /\ \A k \in 1..Len(v4') : v4'[k].vi < n'
      BY <1>6, <1>7, <1>9, <3>1, AppendBelow
    <3>3. Len(v4') + Len(v6') = n'
      BY <1>4, <1>7, <3>1, <3>2
    <3> QED BY <1>7, <1>10, <3>1, <3>2, <3>3
  <2>2. CASE u.kind # "v4"
    <3>1. v6' = Append(v6, e) /\ v4' = v4
      BY <1>8, <2>2
    <3>2. /\ v6' \in Seq(Entry) /\ Len(v6') = Len(v6) + 1
          /\ \A k \in 1..Len(v6') : v6'[k].vi < n'
      BY <1>6, <1>7, <1>10, <3>1, AppendBelow
    <3>3. Len(v4') + Len(v6') = n'
      BY <1>4, <1>7, <3>1, <3>2
    <3> QED BY <1>7, <1>9, <3>1, <3>2, <3>3
  <2> QED BY <2>1, <2>2
<1>12. Remember(val)
  BY DEF Add
<1>13. /\ vals' \in Seq(Values) /\ tab' \in Seq(Values) /\ ids' \in Seq(0..MaxU32)
       /\ DOMAIN byVal' \subseteq Values /\ IsFiniteSet(DOMAIN byVal')
       /\ byVal' \in [DOMAIN byVal' -> 0..MaxU32]
       /\ IF intern THEN Len(ids') = n' ELSE Len(vals') = n'
       /\ Cardinality(DOMAIN byVal') = Len(tab') /\ Len(tab') <= n'
       /\ \A x \in DOMAIN byVal' : byVal'[x] < Len(tab')
       /\ \A k \in 1..Len(ids') : ids'[k] < Len(tab')
  BY <1>1, <1>2, <1>4, <1>12, RememberKeeps
<1>14. log' \in Seq([host : AddrKey, val : Values])
  <2>1. [host |-> Host(Unmap(a)), val |-> val] \in [host : AddrKey, val : Values]
    BY <1>2, UnmapType DEF Host, AddrKey
  <2> QED BY <2>1 DEF Add, IInv, TypeOK
<1>15. TypeOK'
  BY <1>4, <1>11, <1>13, <1>14 DEF Add, IInv, TypeOK, mapstate, loop
<1>16. Bookkeeping' /\ NeverPanics'
  BY <1>1, <1>11, <1>13 DEF Add, IInv, Bookkeeping, NeverPanics, mapstate, loop
<1> QED BY <1>15, <1>16 DEF IInv

(* A function on 1..k is a sequence of length k.                           *)
LEMMA SeqOfFunction ==
    ASSUME NEW S, NEW k \in Nat, NEW f \in [1..k -> S]
    PROVE  f \in Seq(S) /\ Len(f) = k
  OBVIOUS

(* A rearrangement has the same length and the same entries.               *)
LEMMA RearrangedBelow ==
    ASSUME NEW es \in Seq(Entry), NEW p \in Arrangements(Len(es)), NEW m,
           \A k \in 1..Len(es) : es[k].vi < m
    PROVE  /\ Rearranged(es, p) \in Seq(Entry) /\ Len(Rearranged(es, p)) = Len(es)
           /\ \A k \in 1..Len(es) : Rearranged(es, p)[k].vi < m
<1>1. \A k \in 1..Len(es) : p[k] \in 1..Len(es)
  BY DEF Arrangements
<1> QED BY <1>1 DEF Rearranged

(* Overwriting an entry with another one of the same array.                *)
LEMMA ReplaceBelow ==
    ASSUME NEW es \in Seq(Entry), NEW i, NEW j \in 1..Len(es), NEW m,
           \A k \in 1..Len(es) : es[k].vi < m
    PROVE  /\ [es EXCEPT ![i] = es[j]] \in Seq(Entry)
           /\ Len([es EXCEPT ![i] = es[j]]) = Len(es)
           /\ \A k \in 1..Len(es) : [es EXCEPT ![i] = es[j]][k].vi < m
<1> DEFINE x == [es EXCEPT ![i] = es[j]]
<1>1. es[j] \in Entry
  OBVIOUS
<1>b. es \in [1..Len(es) -> Entry] /\ Len(es) \in Nat
  OBVIOUS
<1>2. x \in [1..Len(es) -> Entry] /\ Len(es) \in Nat
  BY <1>1, <1>b
<1>a. x \in Seq(Entry) /\ Len(x) = Len(es)
  <2> HIDE DEF x
  <2> QED BY <1>2, SeqOfFunction
<1>3. ASSUME NEW k \in 1..Len(es) PROVE x[k].vi < m
  <2>1. x[k] = es[k] \/ x[k] = es[j]
    OBVIOUS
  <2> QED BY <2>1
<1> QED BY <1>a, <1>3

(* Sorting the 32-bit entries.                                            *)
LEMMA Sort4IInv == ASSUME IInv, Sort4 PROVE IInv'
<1> USE DEF Sort4, Goto, valstate, mapstate
<1>1. PICK p \in Arrangements(Len(v4)) : v4' = Rearranged(v4, p)
  OBVIOUS
<1>2. v4 \in Seq(Entry) /\ \A k \in 1..Len(v4) : v4[k].vi < n
  BY DEF IInv, TypeOK, Bookkeeping
<1>3. /\ v4' \in Seq(Entry) /\ Len(v4') = Len(v4)
      /\ \A k \in 1..Len(v4') : v4'[k].vi < n
  BY <1>1, <1>2, RearrangedBelow
<1>4. TypeOK'
  BY <1>3 DEF IInv, TypeOK, Phases
<1>5. pc = "sort4" /\ pc' = "dedupe4" /\ at' = 1 /\ kept' = 0
  OBVIOUS
<1>6. 1 <= Len(v4') + 1
  BY <1>3
<1>7. Bookkeeping' /\ NeverPanics'
  BY <1>3, <1>5, <1>6 DEF IInv, Bookkeeping, NeverPanics
<1> QED BY <1>4, <1>7 DEF IInv

(* Sorting the 128-bit entries.                                            *)
LEMMA Sort6IInv == ASSUME IInv, Sort6 PROVE IInv'
<1> USE DEF Sort6, Goto, valstate, mapstate
<1>1. PICK p \in Arrangements(Len(v6)) : v6' = Rearranged(v6, p)
  OBVIOUS
<1>2. v6 \in Seq(Entry) /\ \A k \in 1..Len(v6) : v6[k].vi < n
  BY DEF IInv, TypeOK, Bookkeeping
<1>3. /\ v6' \in Seq(Entry) /\ Len(v6') = Len(v6)
      /\ \A k \in 1..Len(v6') : v6'[k].vi < n
  BY <1>1, <1>2, RearrangedBelow
<1>4. TypeOK'
  BY <1>3 DEF IInv, TypeOK, Phases
<1>5. pc = "sort6" /\ pc' = "dedupe6" /\ at' = 1 /\ kept' = 0
  OBVIOUS
<1>6. 1 <= Len(v6') + 1
  BY <1>3
<1>7. Bookkeeping' /\ NeverPanics'
  BY <1>3, <1>5, <1>6 DEF IInv, Bookkeeping, NeverPanics
<1> QED BY <1>4, <1>7 DEF IInv

(* One turn of the 32-bit dedupe: the write stays behind the cursor.      *)
LEMMA Dedupe4IInv == ASSUME IInv, Dedupe4 PROVE IInv'
<1> USE DEF IInv
<1>1. /\ v4 \in Seq(Entry) /\ at \in Nat \ {0} /\ kept \in Nat
      /\ \A k \in 1..Len(v4) : v4[k].vi < n
  BY DEF TypeOK, Bookkeeping
<1>2. pc = "dedupe4" /\ at <= Len(v4) /\ kept < at
  BY DEF Dedupe4, Bookkeeping
<1>3. PICK j \in at..Len(v4) :
        IF DropReadable(v4, at, j)
          THEN /\ stats' = Dropped(v4, at, j)
               /\ v4' = [v4 EXCEPT ![kept + 1] = v4[j]]
               /\ kept' = kept + 1 /\ at' = j + 1
               /\ UNCHANGED <<intern, v6, n, built, valstate, s4, s6, pc, ret, log>>
          ELSE Panic
  BY DEF Dedupe4
<1>4. at \in 1..Len(v4) /\ j \in 1..Len(v4) /\ at <= j /\ j \in Nat
  BY <1>1, <1>2
<1>5. DropReadable(v4, at, j)
  BY <1>1, <1>4, DropSucceeds
<1>6. stats' \in Statistics
  BY <1>1, <1>3, <1>4, <1>5, DroppedType
<1>7. /\ v4' \in Seq(Entry) /\ Len(v4') = Len(v4)
      /\ \A k \in 1..Len(v4') : v4'[k].vi < n
  BY <1>1, <1>3, <1>4, <1>5, ReplaceBelow, SMTT(40)
<1>8. /\ at' \in Nat \ {0} /\ kept' \in Nat
      /\ kept' < at' /\ at' <= Len(v4') + 1
  BY <1>1, <1>2, <1>3, <1>4, <1>5, <1>7
<1>9. TypeOK'
  BY <1>3, <1>5, <1>6, <1>7, <1>8 DEF TypeOK, valstate
<1>10. Bookkeeping' /\ NeverPanics'
  BY <1>2, <1>3, <1>5, <1>7, <1>8 DEF Bookkeeping, NeverPanics, valstate
<1> QED BY <1>9, <1>10

(* One turn of the 128-bit dedupe: the write stays behind the cursor.      *)
LEMMA Dedupe6IInv == ASSUME IInv, Dedupe6 PROVE IInv'
<1> USE DEF IInv
<1>1. /\ v6 \in Seq(Entry) /\ at \in Nat \ {0} /\ kept \in Nat
      /\ \A k \in 1..Len(v6) : v6[k].vi < n
  BY DEF TypeOK, Bookkeeping
<1>2. pc = "dedupe6" /\ at <= Len(v6) /\ kept < at
  BY DEF Dedupe6, Bookkeeping
<1>3. PICK j \in at..Len(v6) :
        IF DropReadable(v6, at, j)
          THEN /\ stats' = Dropped(v6, at, j)
               /\ v6' = [v6 EXCEPT ![kept + 1] = v6[j]]
               /\ kept' = kept + 1 /\ at' = j + 1
               /\ UNCHANGED <<intern, v4, n, built, valstate, s4, s6, pc, ret, log>>
          ELSE Panic
  BY DEF Dedupe6
<1>4. at \in 1..Len(v6) /\ j \in 1..Len(v6) /\ at <= j /\ j \in Nat
  BY <1>1, <1>2
<1>5. DropReadable(v6, at, j)
  BY <1>1, <1>4, DropSucceeds
<1>6. stats' \in Statistics
  <2>1. stats' = Dropped(v6, at, j)
    BY <1>3, <1>5
  <2>2. TypeOK /\ at \in Nat
    BY <1>1
  <2>3. Dropped(v6, at, j) \in Statistics
    BY <1>4, <2>2, DroppedType
  <2> QED BY <2>1, <2>3
<1>7. /\ v6' \in Seq(Entry) /\ Len(v6') = Len(v6)
      /\ \A k \in 1..Len(v6') : v6'[k].vi < n
  <2>1. v6' = [v6 EXCEPT ![kept + 1] = v6[j]]
    BY <1>3, <1>5
  <2>2. /\ [v6 EXCEPT ![kept + 1] = v6[j]] \in Seq(Entry)
        /\ Len([v6 EXCEPT ![kept + 1] = v6[j]]) = Len(v6)
        /\ \A k \in 1..Len(v6) : [v6 EXCEPT ![kept + 1] = v6[j]][k].vi < n
    BY <1>1, <1>4, ReplaceBelow
  <2> QED BY <2>1, <2>2
<1>8. /\ at' \in Nat \ {0} /\ kept' \in Nat
      /\ kept' < at' /\ at' <= Len(v6') + 1
  BY <1>1, <1>2, <1>3, <1>4, <1>5, <1>7
<1>9. TypeOK'
  BY <1>3, <1>5, <1>6, <1>7, <1>8 DEF TypeOK, valstate
<1>10. Bookkeeping' /\ NeverPanics'
  BY <1>2, <1>3, <1>5, <1>7, <1>8 DEF Bookkeeping, NeverPanics, valstate
<1> QED BY <1>9, <1>10

(* Closing a dedupe loop keeps what was kept within its array.             *)
LEMMA Deduped4IInv == ASSUME IInv, Deduped4 PROVE IInv'
<1> USE DEF Deduped4, Goto, entries, valstate, loop
<1>1. stats' \in Statistics
  BY DEF IInv, TypeOK, Statistics
<1>2. pc' \in {"sort6", "count4"} /\ pc = "dedupe4"
  OBVIOUS
<1>3. TypeOK'
  BY <1>1, <1>2 DEF IInv, TypeOK, Phases
<1>4. kept <= Len(v4)
  <2>1. at <= Len(v4) + 1 /\ kept < at
    BY <1>2 DEF IInv, Bookkeeping
  <2>2. at \in Nat /\ kept \in Nat /\ Len(v4) \in Nat
    BY DEF IInv, TypeOK
  <2> QED BY <2>1, <2>2
<1>5. Bookkeeping' /\ NeverPanics'
  BY <1>2, <1>4 DEF IInv, Bookkeeping, NeverPanics
<1> QED BY <1>3, <1>5 DEF IInv

(* A 128-bit store without rows is well formed.                            *)
LEMMA Empty6Type ==
    ASSUME NEW v \in ValsLayout
    PROVE  [prefix |-> <<>>, pidx |-> <<>>, suffix |-> <<>>, vals |-> v] \in Store6
  BY DEF Store6

(* The same for the 128-bit entries, whose store is prepared here.         *)
LEMMA Deduped6IInv == ASSUME IInv, Deduped6 PROVE IInv'
<1> USE DEF Deduped6, Goto, entries, valstate
<1>1. stats' \in Statistics
  BY DEF IInv, TypeOK, Statistics
<1>2. newValues \in ValsLayout
  BY NewValuesType DEF IInv
<1>3. s6' \in Store6
  <2>1. s6' = [prefix |-> <<>>, pidx |-> <<>>, suffix |-> <<>>, vals |-> newValues]
    BY DEF Nil6
  <2> QED BY <1>2, <2>1, Empty6Type
<1>4. TypeOK'
  BY <1>1, <1>3 DEF IInv, TypeOK, Phases
<1>5. kept <= Len(v6)
  <2>1. at <= Len(v6) + 1 /\ kept < at
    BY DEF IInv, Bookkeeping
  <2>2. at \in Nat /\ kept \in Nat /\ Len(v6) \in Nat
    BY DEF IInv, TypeOK
  <2> QED BY <2>1, <2>2
<1>6. intern => s6'.vals.idW = idWidth(Len(tab))
  <2>1. Cardinality(DOMAIN byVal) = Len(tab)
    BY DEF IInv, Bookkeeping
  <2> QED BY <2>1 DEF newValues, NoVals, Nil6
<1>7. Bookkeeping' /\ NeverPanics'
  BY <1>5, <1>6 DEF IInv, Bookkeeping, NeverPanics
<1> QED BY <1>4, <1>7 DEF IInv

(* The counters of the /24 groups are uint32s, one more than groups.       *)
LEMMA Count4IInv == ASSUME IInv, Count4 PROVE IInv'
<1> DEFINE Members(i) == Cardinality({k \in 1..kept : v4[k].hi + 2 = i})
           counts == [i \in 1..Groups4 + 1 |-> U32(Members(i))]
<1>1. newValues \in ValsLayout
  BY NewValuesType DEF IInv
<1>2. Groups4 + 1 \in Nat /\ kept \in Nat
  BY WidthAssumption DEF IInv, TypeOK
<1>3. ASSUME NEW i PROVE U32(Members(i)) \in 0..MaxU32
  <2>1. IsFiniteSet(1..kept)
    BY <1>2, FS_Interval
  <2>2. Members(i) \in Nat
    BY <2>1, FS_Subset, FS_CardinalityType
  <2> QED BY <2>2, U32Range
<1>4. s4' = [idx |-> counts, suffix |-> <<>>, vals |-> newValues]
  BY DEF Count4
<1>5. /\ pc = "count4" /\ pc' = "sum4" /\ at' = 2
      /\ UNCHANGED <<intern, v4, v6, n, built, vals, tab, byVal, ids, stats, s6,
                     kept, ret, log>>
  BY DEF Count4, Goto, entries, valstate
<1> HIDE DEF Members
<1>6. counts \in [1..Groups4 + 1 -> 0..MaxU32]
  BY <1>3
<1> HIDE DEF counts
<1>7. counts \in Seq(0..MaxU32) /\ Len(counts) = Groups4 + 1
  BY <1>2, <1>6, SeqOfFunction
<1>8. s4' \in Store4
  BY <1>1, <1>4, <1>7 DEF Store4
<1>9. TypeOK'
  BY <1>5, <1>8 DEF IInv, TypeOK, Phases
<1>10. intern => s4'.vals.idW = idWidth(Len(tab))
  <2>1. Cardinality(DOMAIN byVal) = Len(tab)
    BY <1>5 DEF IInv, Bookkeeping
  <2> QED BY <1>4, <2>1 DEF newValues, NoVals
<1>11. Bookkeeping' /\ NeverPanics'
  BY <1>4, <1>5, <1>7, <1>10 DEF IInv, Bookkeeping, NeverPanics
<1> QED BY <1>9, <1>11 DEF IInv

(* The running sum reads the index it has already summed.                  *)
LEMMA Sum4IInv == ASSUME IInv, Sum4 PROVE IInv'
<1> USE DEF Sum4, Goto, entries, valstate
<1>1. /\ s4 \in Store4 /\ at \in Nat /\ at > 1 /\ Len(s4.idx) = Groups4 + 1
      /\ Groups4 + 1 \in Nat /\ pc = "sum4"
  <2>1. pc = "sum4"
    OBVIOUS
  <2>2. at > 1 /\ Len(s4.idx) = Groups4 + 1
    BY <2>1 DEF IInv, Bookkeeping
  <2>3. s4 \in Store4 /\ at \in Nat
    BY DEF IInv, TypeOK
  <2>4. Groups4 + 1 \in Nat
    BY WidthAssumption
  <2> QED BY <2>1, <2>2, <2>3, <2>4
<1>2. CASE at <= Groups4 + 1
  <2> DEFINE y == s4.idx
  <2>a. y \in Seq(0..MaxU32) /\ MaxU32 \in Nat /\ Len(y) = Groups4 + 1
    BY <1>1, WidthAssumption DEF Store4
  <2>b. y \in [1..Groups4 + 1 -> 0..MaxU32]
    BY <2>a
  <2> HIDE DEF y
  <2>c. at \in 1..Groups4 + 1 /\ at - 1 \in 1..Groups4 + 1
    BY <1>1, <1>2
  <2>1. y[at] + y[at - 1] \in Nat
    BY <2>a, <2>b, <2>c
  <2>2. U32(y[at] + y[at - 1]) \in 0..MaxU32
    BY <2>1, U32Range
  <2> DEFINE x == [y EXCEPT ![at] = U32(y[at] + y[at - 1])]
  <2>d. x \in [1..Groups4 + 1 -> 0..MaxU32]
    BY <2>b, <2>2
  <2>4. s4' = [s4 EXCEPT !.idx = x] /\ at' = at + 1 /\ pc' = pc
    BY <1>1, <1>2 DEF Store4, y
  <2> HIDE DEF x
  <2>3. x \in Seq(0..MaxU32) /\ Len(x) = Groups4 + 1
    BY <1>1, <2>d, SeqOfFunction
  <2>5. s4' \in Store4 /\ s4'.idx = x /\ s4'.vals = s4.vals
    BY <1>1, <2>3, <2>4 DEF Store4
  <2>6. TypeOK'
    BY <1>1, <2>4, <2>5 DEF IInv, TypeOK
  <2>7. Bookkeeping' /\ NeverPanics'
    BY <1>1, <2>3, <2>4, <2>5 DEF IInv, Bookkeeping, NeverPanics
  <2> QED BY <2>6, <2>7 DEF IInv
<1>3. CASE ~(at <= Groups4 + 1)
  <2>1. TypeOK'
    BY <1>3 DEF IInv, TypeOK, Phases
  <2>2. Bookkeeping' /\ NeverPanics'
    BY <1>1, <1>3 DEF IInv, Bookkeeping, NeverPanics
  <2> QED BY <2>1, <2>2 DEF IInv
<1> QED BY <1>2, <1>3

(* A slot of the 32-bit store is filled: no panic, and one more suffix.    *)
LEMMA Fill4IInv == ASSUME IInv, Fill4 PROVE IInv'
<1> USE DEF IInv
<1>1. /\ v4 \in Seq(Entry) /\ at \in Nat \ {0} /\ kept \in Nat /\ s4 \in Store4
      /\ pc = "fill4" /\ pc # "done" /\ at <= kept
  BY DEF TypeOK, Fill4
<1>2. at \in 1..Len(v4)
  BY <1>1 DEF Bookkeeping
<1> DEFINE e == v4[at]
<1>3. e \in Entry /\ e.vi < n /\ e.vi \in Nat /\ e.lo \in Nat
  <2>1. e \in Entry
    BY <1>1, <1>2
  <2>2. e.vi < n
    BY <1>2 DEF Bookkeeping
  <2> QED BY <2>1, <2>2, WidthAssumption DEF Entry
<1> HIDE DEF e
<1>4. s4.vals \in ValsLayout /\ s4.suffix \in Seq(Nat)
  BY <1>1 DEF Store4
<1>5. intern => s4.vals.idW = idWidth(Len(tab))
  BY <1>1 DEF Bookkeeping
<1>6. setValOk(s4.vals, e.vi)
  BY <1>1, <1>3, <1>5, SetValSucceeds
<1>7. /\ s4' = [s4 EXCEPT !.suffix = Append(@, e.lo), !.vals = setVal(@, e.vi)]
      /\ at' = at + 1
      /\ UNCHANGED <<intern, v4, v6, n, built, vals, tab, byVal, ids, stats, s6,
                     kept, pc, ret, log>>
  BY <1>6 DEF Fill4, e, entries, valstate
<1>8. /\ setVal(s4.vals, e.vi) \in ValsLayout
      /\ setVal(s4.vals, e.vi).idW = s4.vals.idW
  BY <1>1, <1>3, <1>4, SetValType
<1>9. Append(s4.suffix, e.lo) \in Seq(Nat)
  BY <1>3, <1>4
<1>10. s4' \in Store4 /\ s4'.vals.idW = s4.vals.idW
  BY <1>1, <1>7, <1>8, <1>9 DEF Store4
<1>11. TypeOK'
  BY <1>1, <1>7, <1>10 DEF TypeOK
<1>12. Bookkeeping' /\ NeverPanics'
  BY <1>1, <1>7, <1>10 DEF Bookkeeping, NeverPanics
<1> QED BY <1>11, <1>12

(* The 32-bit store is complete.                                           *)
LEMMA Filled4IInv == ASSUME IInv, Filled4 PROVE IInv'
<1>1. pc = "fill4" /\ pc' = "sort6"
  BY DEF Filled4, Goto
<1>2. TypeOK'
  BY <1>1 DEF Filled4, IInv, TypeOK, Phases, entries, valstate, mapstate, loop
<1>3. Bookkeeping' /\ NeverPanics'
  BY <1>1 DEF Filled4, IInv, Bookkeeping, NeverPanics, entries, valstate, mapstate, loop
<1> QED BY <1>2, <1>3 DEF IInv

(* A slot of the 128-bit store is filled, with its prefix when it opens a  *)
(* group: no panic.                                                        *)
LEMMA Fill6IInv == ASSUME IInv, Fill6 PROVE IInv'
<1> USE DEF IInv
<1>1. /\ v6 \in Seq(Entry) /\ at \in Nat \ {0} /\ kept \in Nat /\ s6 \in Store6
      /\ pc = "fill6" /\ pc # "done" /\ at <= kept
  BY DEF TypeOK, Fill6
<1>2. at \in 1..Len(v6)
  BY <1>1 DEF Bookkeeping
<1> DEFINE e == v6[at]
           first == at = 1 \/ v6[at - 1].hi # e.hi
<1>3. e \in Entry /\ e.vi < n /\ e.vi \in Nat /\ e.lo \in Nat /\ e.hi \in Nat
  <2>1. e \in Entry
    BY <1>1, <1>2
  <2>2. e.vi < n
    BY <1>2 DEF Bookkeeping
  <2> QED BY <2>1, <2>2, WidthAssumption DEF Entry
<1> HIDE DEF e, first
<1>4. /\ s6.vals \in ValsLayout /\ s6.suffix \in Seq(Nat)
      /\ s6.prefix \in Seq(Nat) /\ s6.pidx \in Seq(0..MaxU32)
  BY <1>1 DEF Store6
<1>5. intern => s6.vals.idW = idWidth(Len(tab))
  BY <1>1 DEF Bookkeeping
<1>6. setValOk(s6.vals, e.vi)
  BY <1>1, <1>3, <1>5, SetValSucceeds
<1>7. /\ s6' = [prefix |-> IF first THEN Append(s6.prefix, e.hi) ELSE s6.prefix,
                pidx   |-> IF first THEN Append(s6.pidx, U32(at - 1)) ELSE s6.pidx,
                suffix |-> Append(s6.suffix, e.lo),
                vals   |-> setVal(s6.vals, e.vi)]
      /\ at' = at + 1
      /\ UNCHANGED <<intern, v4, v6, n, built, vals, tab, byVal, ids, stats, s4,
                     kept, pc, ret, log>>
  BY <1>6 DEF Fill6, e, first, entries, valstate
<1>8. /\ setVal(s6.vals, e.vi) \in ValsLayout
      /\ setVal(s6.vals, e.vi).idW = s6.vals.idW
  BY <1>1, <1>3, <1>4, SetValType
<1>9. U32(at - 1) \in 0..MaxU32
  <2>1. at - 1 \in Nat
    BY <1>1
  <2> QED BY <2>1, U32Range
<1>10. /\ Append(s6.suffix, e.lo) \in Seq(Nat) /\ Append(s6.prefix, e.hi) \in Seq(Nat)
       /\ Append(s6.pidx, U32(at - 1)) \in Seq(0..MaxU32)
  BY <1>3, <1>4, <1>9
<1>11. s6' \in Store6 /\ s6'.vals.idW = s6.vals.idW
  BY <1>4, <1>7, <1>8, <1>10 DEF Store6
<1>12. /\ at' \in Nat \ {0}
       /\ UNCHANGED <<intern, v4, v6, n, built, vals, tab, byVal, ids, stats, s4,
                      kept, pc, ret, log>>
  BY <1>1, <1>7
<1>13. TypeOK'
  BY <1>1, <1>11, <1>12 DEF TypeOK
<1>14. Bookkeeping' /\ NeverPanics'
  BY <1>1, <1>11, <1>12 DEF Bookkeeping, NeverPanics
<1> QED BY <1>13, <1>14

(* The sentinel offset is a uint32.                                        *)
LEMMA Filled6IInv == ASSUME IInv, Filled6 PROVE IInv'
<1>1. pc = "fill6" /\ pc' = "release" /\ s6 \in Store6 /\ kept \in Nat
  BY DEF Filled6, Goto, IInv, TypeOK
<1>2. U32(kept) \in 0..MaxU32
  BY <1>1, U32Range
<1>3. Append(s6.pidx, U32(kept)) \in Seq(0..MaxU32)
  BY <1>1, <1>2 DEF Store6
<1>4. s6' \in Store6
  BY <1>1, <1>3 DEF Filled6, Store6
<1>5. TypeOK'
  BY <1>1, <1>4 DEF Filled6, IInv, TypeOK, Phases, entries, valstate, loop
<1>6. Bookkeeping' /\ NeverPanics'
  BY <1>1 DEF Filled6, IInv, Bookkeeping, NeverPanics, entries, valstate, loop
<1> QED BY <1>5, <1>6 DEF IInv

-----------------------------------------------------------------------------
(* The theorems.                                                           *)

(* Every step of a Builder keeps its bookkeeping.                          *)
LEMMA NextIInv == IInv /\ [Next]_vars => IInv'
<1> SUFFICES ASSUME IInv, [Next]_vars PROVE IInv'
  OBVIOUS
<1>1. ASSUME NEW a \in Inputs, NEW val \in Values \cup {WrongWidth}, Add(a, val)
      PROVE  IInv'
  BY <1>1, AddIInv
<1>2. ASSUME NEW a \in Inputs, NEW val \in Values \cup {WrongWidth}, AddRefused(a, val)
      PROVE  IInv'
  BY <1>2, AddRefusedIInv
<1>3. CASE Build
  BY <1>3, BuildIInv
<1>4. CASE BuildStep
  BY <1>4, Sort4IInv, Dedupe4IInv, Deduped4IInv, Count4IInv, Sum4IInv, Fill4IInv,
     Filled4IInv, Sort6IInv, Dedupe6IInv, Deduped6IInv, Fill6IInv, Filled6IInv,
     ReleaseIInv DEF BuildStep
<1>5. CASE Misuse
  BY <1>5, MisuseIInv
<1>6. CASE UNCHANGED vars
  <2>1. ret' \in {"none", "ok", "invalid", "zone", "width", "cap", "panic"}
    BY <1>6 DEF vars, IInv, TypeOK
  <2> QED BY <1>6, <2>1, QuietIInv DEF vars
<1> QED BY <1>1, <1>2, <1>3, <1>4, <1>5, <1>6 DEF Next

(* The invariant holds throughout.                                         *)
THEOREM InvariantHolds == Spec => []IInv
  BY InitIInv, NextIInv, PTL DEF Spec

(* The Builder and the Map it builds are well typed, for every width of    *)
(* uint32 and of bytes, every address space and every set of values.       *)
THEOREM TypeCorrect == Spec => []TypeOK
<1>1. IInv => TypeOK
  BY DEF IInv
<1> QED BY <1>1, InvariantHolds, PTL

(* The parallel arrays stay aligned through both builds.                   *)
THEOREM BookkeepingHolds == Spec => []Bookkeeping
<1>1. IInv => Bookkeeping
  BY DEF IInv
<1> QED BY <1>1, InvariantHolds, PTL

(* No sequence of Adds, refused or not, makes Build panic: the cap of Add  *)
(* keeps sequence numbers below the top of uint32, and the width derived   *)
(* from the distinct count holds every id (builder.go, values.go).         *)
THEOREM BuildNeverPanics == Spec => []NeverPanics
<1>1. IInv => NeverPanics
  BY DEF IInv
<1> QED BY <1>1, InvariantHolds, PTL

-----------------------------------------------------------------------------
(* Entries: their order, and what the sort and the dedupe make of them.    *)

(* The accepted Adds, as the history records them.                         *)
PutRecords == [host : AddrKey, val : Values]

(* The order of addresses: by the high word, then by the low one.          *)
AddrLess(x, y) == x.hi < y.hi \/ (x.hi = y.hi /\ x.lo < y.lo)

(* The live entries of one family and the puts L of a Builder: an entry is *)
(* a put, no put has two entries, and every put of the family has an entry *)
(* of its host that is at least as late.                                   *)
Owns(L, es, live, kind) ==
    /\ \A k \in live :
          /\ es[k].vi + 1 \in DOMAIN L
          /\ L[es[k].vi + 1].host = [kind |-> kind, hi |-> es[k].hi, lo |-> es[k].lo]
    /\ \A q \in DOMAIN L : L[q].host.kind = kind =>
          \E k \in live : SameAddr(es[k], L[q].host) /\ es[k].vi >= q - 1
    /\ \A i, j \in live : es[i].vi = es[j].vi => i = j

\* Addresses ascend strictly over the first m entries.
Strict(es, m) == \A i, j \in 1..m : i < j => AddrLess(es[i], es[j])

\* Inside the dedupe loop: what is kept ascends and is below what is left.
Deduping(es, k, i) ==
    /\ Strict(es, k)
    /\ \A x \in 1..k, y \in i..Len(es) : AddrLess(es[x], es[y])
    /\ \A x, y \in i..Len(es) : x < y => ~Before(es[y], es[x])

(* The words and the sequence number of an entry are numbers (entry4,      *)
(* entry6 of builder.go).                                                  *)
LEMMA EntryIs ==
    ASSUME NEW es \in Seq(Entry), NEW k \in 1..Len(es)
    PROVE  es[k] \in Entry /\ es[k].hi \in Nat /\ es[k].lo \in Nat /\ es[k].vi \in Nat
<1>1. es[k] \in Entry
  OBVIOUS
<1>2. MaxU32 \in Nat
  BY WidthAssumption
<1> HIDE DEF Entry
<1> QED
  BY <1>1, <1>2 DEF Entry

(* The sort's order, by address and then by sequence number, is            *)
(* transitive, and entries in that order with different addresses ascend   *)
(* strictly (the comparison functions of build4 and build6).               *)
LEMMA Transitive ==
    ASSUME NEW x, NEW y, NEW z,
           x.hi \in Nat /\ x.lo \in Nat /\ x.vi \in Nat,
           y.hi \in Nat /\ y.lo \in Nat /\ y.vi \in Nat,
           z.hi \in Nat /\ z.lo \in Nat /\ z.vi \in Nat
    PROVE  /\ ~Before(y, x) /\ ~Before(z, y) => ~Before(z, x)
           /\ ~Before(y, x) /\ ~SameAddr(y, x) => AddrLess(x, y)
           /\ AddrLess(x, y) /\ ~Before(z, y) => AddrLess(x, z)
           /\ AddrLess(x, y) /\ AddrLess(y, z) => AddrLess(x, z)
           /\ AddrLess(x, y) => ~SameAddr(x, y) /\ ~SameAddr(y, x)
  BY DEF Before, SameAddr, AddrLess

(* The sort leaves no entry before its predecessor, and so none before any *)
(* earlier entry (slices.SortFunc in build4 and build6).                   *)
LEMMA OrderedAll ==
    ASSUME NEW es \in Seq(Entry), Ordered(es)
    PROVE  \A i, j \in 1..Len(es) : i < j => ~Before(es[j], es[i])
<1> DEFINE m == Len(es)
           T == {d \in Nat : \E i, j \in 1..m : j = i + d /\ i < j /\ Before(es[j], es[i])}
<1>1. m \in Nat
  OBVIOUS
<1>2. \A i \in 2..m : ~Before(es[i], es[i - 1])
  BY DEF Ordered
<1>3. \A k \in 1..m : es[k].hi \in Nat /\ es[k].lo \in Nat /\ es[k].vi \in Nat
  BY EntryIs
<1> HIDE DEF m
<1>4. T = {}
  <2>1. SUFFICES ASSUME T # {} PROVE FALSE
    OBVIOUS
  <2>2. PICK d \in T : \A k \in T : d <= k
    BY <2>1, LeastNat
  <2>3. PICK i \in 1..m, j \in 1..m : j = i + d /\ i < j /\ Before(es[j], es[i])
    BY <2>2
  <2>4. d \in Nat /\ d >= 1 /\ d - 1 \in Nat
    BY <2>2, <2>3
  <2>5. d - 1 \notin T
    <3> HIDE DEF T
    <3>1. d - 1 \in T => d <= d - 1
      BY <2>2
    <3> QED
      BY <2>4, <3>1
  <2>6. j \in 2..m /\ j - 1 \in 1..m /\ j - 1 = i + (d - 1)
    BY <1>1, <2>3, <2>4
  <2>7. ~Before(es[j], es[j - 1])
    BY <1>2, <2>6
  <2>8. i # j - 1
    BY <2>3, <2>7
  <2>9. i < j - 1
    BY <2>3, <2>4, <2>6, <2>8
  <2>10. ~Before(es[j - 1], es[i])
    BY <2>4, <2>5, <2>6, <2>9
  <2>11. /\ es[i].hi \in Nat /\ es[i].lo \in Nat /\ es[i].vi \in Nat
         /\ es[j].hi \in Nat /\ es[j].lo \in Nat /\ es[j].vi \in Nat
         /\ es[j - 1].hi \in Nat /\ es[j - 1].lo \in Nat /\ es[j - 1].vi \in Nat
    BY <1>3, <2>6
  <2>12. ~Before(es[j], es[i])
    BY <2>7, <2>10, <2>11, Transitive
  <2> QED
    BY <2>3, <2>12
<1>5. ASSUME NEW i \in 1..m, NEW j \in 1..m, i < j
      PROVE  ~Before(es[j], es[i])
  <2>1. j - i \in Nat /\ j = i + (j - i)
    BY <1>5
  <2> QED
    BY <1>4, <1>5, <2>1
<1> QED
  BY <1>5 DEF m

(* An arrangement reaches every place, and moves no two indices to one: a  *)
(* surjection of 1..k is injective.  This is what 'the sort loses and      *)
(* repeats nothing' means for the array.                                   *)
LEMMA ArrangementIs ==
    ASSUME NEW k \in Nat, NEW p \in Arrangements(k)
    PROVE  /\ \A i \in 1..k : p[i] \in 1..k
           /\ \A j \in 1..k : \E i \in 1..k : p[i] = j
           /\ \A i, j \in 1..k : p[i] = p[j] => i = j
<1>1. p \in [1..k -> 1..k] /\ \A j \in 1..k : \E i \in 1..k : p[i] = j
  BY DEF Arrangements
<1>2. p \in Surjection(1..k, 1..k)
  BY <1>1 DEF Surjection
<1>3. IsFiniteSet(1..k)
  BY FS_Interval
<1>4. p \in Injection(1..k, 1..k)
  BY <1>2, <1>3, FS_SurjSameCardinalityImpliesInj
<1> QED
  BY <1>1, <1>4 DEF Injection, IsInjective

(* Sorting the entries loses none and doubles none: they own the same puts *)
(* as before (the sort of build4 and build6).                              *)
LEMMA OwnsRearranged ==
    ASSUME NEW L, NEW es \in Seq(Entry), NEW kind, NEW p \in Arrangements(Len(es)),
           Owns(L, es, 1..Len(es), kind)
    PROVE  Owns(L, Rearranged(es, p), 1..Len(es), kind)
<1> DEFINE m == Len(es)
           y == Rearranged(es, p)
<1>1. m \in Nat
  OBVIOUS
<1>2. /\ \A i \in 1..m : p[i] \in 1..m
      /\ \A j \in 1..m : \E i \in 1..m : p[i] = j
      /\ \A i, j \in 1..m : p[i] = p[j] => i = j
  BY <1>1, ArrangementIs
<1>3. \A i \in 1..m : y[i] = es[p[i]]
  BY DEF Rearranged
<1> HIDE DEF y, m
<1>4. Owns(L, es, 1..m, kind)
  BY DEF m
<1>5. ASSUME NEW k \in 1..m
      PROVE  /\ y[k].vi + 1 \in DOMAIN L
             /\ L[y[k].vi + 1].host = [kind |-> kind, hi |-> y[k].hi, lo |-> y[k].lo]
  <2> DEFINE u == p[k]
  <2>1. u \in 1..m /\ y[k] = es[u]
    BY <1>2, <1>3
  <2> HIDE DEF u
  <2>2. /\ es[u].vi + 1 \in DOMAIN L
        /\ L[es[u].vi + 1].host = [kind |-> kind, hi |-> es[u].hi, lo |-> es[u].lo]
    BY <1>4, <2>1 DEF Owns
  <2> QED
    BY <2>1, <2>2
<1>6. ASSUME NEW q \in DOMAIN L, L[q].host.kind = kind
      PROVE  \E k \in 1..m : SameAddr(y[k], L[q].host) /\ y[k].vi >= q - 1
  <2>1. PICK j \in 1..m : SameAddr(es[j], L[q].host) /\ es[j].vi >= q - 1
    BY <1>4, <1>6 DEF Owns
  <2>2. PICK i \in 1..m : p[i] = j
    BY <1>2
  <2> QED
    BY <1>3, <2>1, <2>2
<1>7. ASSUME NEW i \in 1..m, NEW j \in 1..m, y[i].vi = y[j].vi
      PROVE  i = j
  <2>1. es[p[i]].vi = es[p[j]].vi /\ p[i] \in 1..m /\ p[j] \in 1..m
    BY <1>2, <1>3, <1>7
  <2>2. p[i] = p[j]
    BY <1>4, <2>1 DEF Owns
  <2> QED
    BY <1>2, <2>2
<1>8. Owns(L, y, 1..m, kind)
  BY <1>5, <1>6, <1>7 DEF Owns
<1> QED
  BY <1>8 DEF y, m

(* All entries of a run have the address of its survivor, which is the     *)
(* latest of them, because the sort breaks ties by sequence number (the    *)
(* dedupe loops of build4 and build6).                                     *)
LEMMA RunSame ==
    ASSUME NEW es \in Seq(Entry), NEW i \in 1..Len(es), NEW j, RunEnd(es, i, j),
           \A x, y \in i..Len(es) : x < y => ~Before(es[y], es[x])
    PROVE  /\ j \in i..Len(es)
           /\ \A k \in i..j : SameAddr(es[k], es[j]) /\ es[k].vi <= es[j].vi
<1> DEFINE m == Len(es)
           T == {d \in Nat : j - d \in i..j /\ ~SameAddr(es[j - d], es[j])}
<1>1. m \in Nat /\ j \in i..m /\ \A k \in i..j - 1 : SameAddr(es[k + 1], es[k])
  BY DEF RunEnd
<1>2. \A k \in 1..m : es[k].hi \in Nat /\ es[k].lo \in Nat /\ es[k].vi \in Nat
  BY EntryIs
<1>3. \A x, y \in i..m : x < y => ~Before(es[y], es[x])
  OBVIOUS
<1> HIDE DEF m
<1>4. T = {}
  <2>1. SUFFICES ASSUME T # {} PROVE FALSE
    OBVIOUS
  <2>2. PICK d \in T : \A k \in T : d <= k
    BY <2>1, LeastNat
  <2>3. d \in Nat /\ j - d \in i..j /\ ~SameAddr(es[j - d], es[j])
    BY <2>2
  <2>4. d # 0
    <3>1. d = 0 => j - d = j
      BY <1>1
    <3>2. SameAddr(es[j], es[j])
      BY DEF SameAddr
    <3> QED
      BY <2>3, <3>1, <3>2
  <2>5. d - 1 \in Nat /\ j - (d - 1) \in i..j /\ j - d \in i..j - 1 /\ j - (d - 1) = (j - d) + 1
    BY <1>1, <2>3, <2>4
  <2>6. d - 1 \notin T
    <3> HIDE DEF T
    <3>1. d - 1 \in T => d <= d - 1
      BY <2>2
    <3> QED
      BY <2>3, <2>5, <3>1
  <2>7. SameAddr(es[j - (d - 1)], es[j])
    BY <2>5, <2>6
  <2>8. SameAddr(es[(j - d) + 1], es[j - d])
    BY <1>1, <2>5
  <2>9. SameAddr(es[(j - d) + 1], es[j])
    BY <2>5, <2>7
  <2> QED
    BY <2>3, <2>8, <2>9 DEF SameAddr
<1>5. ASSUME NEW k \in i..j
      PROVE  SameAddr(es[k], es[j]) /\ es[k].vi <= es[j].vi
  <2>1. j - k \in Nat /\ j - (j - k) = k
    BY <1>1
  <2>2. SameAddr(es[k], es[j])
    BY <1>4, <2>1
  <2>3. k \in i..m /\ k \in 1..m /\ j \in 1..m /\ j \in i..m
    BY <1>1
  <2>4. k < j => ~Before(es[j], es[k])
    BY <1>3, <2>3
  <2>5. es[k].vi \in Nat /\ es[j].vi \in Nat
    BY <1>2, <2>3
  <2>6. k < j => es[k].vi <= es[j].vi
    BY <2>2, <2>4, <2>5 DEF Before, SameAddr
  <2>7. k = j => es[k].vi <= es[j].vi
    BY <2>5
  <2> QED
    BY <1>1, <2>2, <2>6, <2>7
<1> QED
  BY <1>1, <1>5 DEF m

(* One turn of a dedupe loop keeps its order: the survivor of the run      *)
(* joins what is kept, above all of it, and the run leaves what is left.   *)
(* The write to kept+1 stays behind the cursor, so the in-place compaction *)
(* (kept := b.v4[:0]) overwrites nothing that is still to be read.         *)
LEMMA DedupingStep ==
    ASSUME NEW es \in Seq(Entry), NEW k \in Nat, NEW i \in 1..Len(es), k < i,
           NEW j \in i..Len(es), RunEnd(es, i, j), Deduping(es, k, i)
    PROVE  Deduping([es EXCEPT ![k + 1] = es[j]], k + 1, j + 1)
<1> DEFINE m == Len(es)
           z == [es EXCEPT ![k + 1] = es[j]]
<1>1. m \in Nat /\ i \in 1..m /\ j \in i..m /\ k + 1 \in 1..m /\ Len(z) = m
  OBVIOUS
<1>2. /\ z[k + 1] = es[j] /\ \A x \in 1..m : x # k + 1 => z[x] = es[x]
  <2>1. es \in [1..m -> Entry]
    OBVIOUS
  <2> QED
    BY <1>1, <2>1
<1>3. \A x \in 1..m : es[x].hi \in Nat /\ es[x].lo \in Nat /\ es[x].vi \in Nat
  BY EntryIs
<1>4. j < m => ~SameAddr(es[j + 1], es[j])
  BY DEF RunEnd
<1>5. /\ \A x, y \in 1..k : x < y => AddrLess(es[x], es[y])
      /\ \A x \in 1..k, y \in i..m : AddrLess(es[x], es[y])
      /\ \A x, y \in i..m : x < y => ~Before(es[y], es[x])
  BY DEF Deduping, Strict
<1> HIDE DEF m, z
<1>6. \A x \in 1..k : x \in 1..m /\ z[x] = es[x]
  BY <1>1, <1>2
<1>7. \A y \in j + 1..m : y \in i..m /\ y \in 1..m /\ z[y] = es[y]
  BY <1>1, <1>2
<1>8. ASSUME NEW x \in 1..k + 1, NEW y \in 1..k + 1, x < y
      PROVE  AddrLess(z[x], z[y])
  <2>1. x \in 1..k /\ z[x] = es[x]
    BY <1>6, <1>8
  <2>2. CASE y = k + 1
    <3>1. AddrLess(es[x], es[j])
      BY <1>1, <1>5, <2>1
    <3> QED
      BY <1>2, <2>1, <2>2, <3>1
  <2>3. CASE y # k + 1
    <3>1. y \in 1..k /\ z[y] = es[y]
      BY <1>6, <2>3
    <3> QED
      BY <1>5, <1>8, <2>1, <3>1
  <2> QED
    BY <2>2, <2>3
<1>9. ASSUME NEW y \in j + 1..m
      PROVE  AddrLess(es[j], es[y])
  <2>1. j + 1 \in i..m /\ j + 1 \in 1..m /\ j \in 1..m /\ j < m /\ j \in i..m /\ j < j + 1
    BY <1>1
  <2>2. ~Before(es[j + 1], es[j])
    BY <1>5, <2>1
  <2>3. AddrLess(es[j], es[j + 1])
    BY <1>3, <1>4, <2>1, <2>2, Transitive
  <2>4. y \in i..m /\ y \in 1..m
    BY <1>7
  <2>5. CASE y = j + 1
    BY <2>3, <2>5
  <2>6. CASE y # j + 1
    <3>1. j + 1 < y
      BY <1>1, <2>6
    <3>2. ~Before(es[y], es[j + 1])
      BY <1>5, <2>1, <2>4, <3>1
    <3> QED
      BY <1>3, <2>1, <2>3, <2>4, <3>2, Transitive
  <2> QED
    BY <2>5, <2>6
<1>10. ASSUME NEW x \in 1..k + 1, NEW y \in j + 1..m
       PROVE  AddrLess(z[x], z[y])
  <2>1. z[y] = es[y] /\ y \in i..m
    BY <1>7
  <2>2. CASE x = k + 1
    BY <1>2, <1>9, <2>1, <2>2
  <2>3. CASE x # k + 1
    <3>1. x \in 1..k /\ z[x] = es[x]
      BY <1>6, <2>3
    <3> QED
      BY <1>5, <2>1, <3>1
  <2> QED
    BY <2>2, <2>3
<1>11. ASSUME NEW x \in j + 1..m, NEW y \in j + 1..m, x < y
       PROVE  ~Before(z[y], z[x])
  BY <1>5, <1>7, <1>11
<1>12. Deduping(z, k + 1, j + 1)
  <2>1. Len(z) = m
    BY <1>1
  <2> QED
    BY <1>8, <1>10, <1>11, <2>1 DEF Deduping, Strict
<1> QED
  BY <1>12 DEF z

(* One turn of a dedupe loop loses no answer: every put it drops is        *)
(* superseded by the survivor of its run, for the same host and at least   *)
(* as late (build4, build6).                                               *)
LEMMA OwnsDeduped ==
    ASSUME NEW L, NEW es \in Seq(Entry), NEW kind, NEW k \in Nat, NEW i \in 1..Len(es), k < i,
           NEW j \in i..Len(es), RunEnd(es, i, j), Deduping(es, k, i),
           Owns(L, es, 1..k \cup i..Len(es), kind), DOMAIN L \subseteq Nat
    PROVE  Owns(L, [es EXCEPT ![k + 1] = es[j]], 1..k + 1 \cup j + 1..Len(es), kind)
<1> DEFINE m == Len(es)
           z == [es EXCEPT ![k + 1] = es[j]]
           old == 1..k \cup i..m
           new == 1..k + 1 \cup j + 1..m
           from(x) == IF x = k + 1 THEN j ELSE x
<1>1. m \in Nat /\ i \in 1..m /\ j \in i..m /\ k + 1 \in 1..m
  OBVIOUS
<1>2. /\ z[k + 1] = es[j] /\ \A x \in 1..m : x # k + 1 => z[x] = es[x]
  <2>1. es \in [1..m -> Entry]
    OBVIOUS
  <2> QED
    BY <1>1, <2>1
<1>3. \A x \in i..j : SameAddr(es[x], es[j]) /\ es[x].vi <= es[j].vi
  BY RunSame DEF Deduping
<1>4. Owns(L, es, old, kind)
  OBVIOUS
<1>5. \A x \in 1..m : es[x].vi \in Nat
  BY EntryIs
<1> HIDE DEF m, z
<1>6. \A x \in new : from(x) \in old /\ z[x] = es[from(x)]
  <2> SUFFICES ASSUME NEW x \in new PROVE from(x) \in old /\ z[x] = es[from(x)]
    OBVIOUS
  <2>1. CASE x = k + 1
    BY <1>1, <1>2, <2>1
  <2>2. CASE x # k + 1
    <3>1. x \in 1..m /\ x \in old
      BY <1>1, <2>2
    <3> QED
      BY <1>2, <2>2, <3>1
  <2> QED
    BY <2>1, <2>2
<1>7. \A x, y \in new : from(x) = from(y) => x = y
  BY <1>1
<1>8. \A y \in old : y \in 1..m /\ ((y \in i..j) \/ (y \in new /\ from(y) = y))
  BY <1>1
<1>9. k + 1 \in new /\ from(k + 1) = j
  BY <1>1
<1> HIDE DEF from, old, new
<1>10. ASSUME NEW x \in new
       PROVE  /\ z[x].vi + 1 \in DOMAIN L
              /\ L[z[x].vi + 1].host = [kind |-> kind, hi |-> z[x].hi, lo |-> z[x].lo]
  <2> DEFINE u == from(x)
  <2>1. u \in old /\ z[x] = es[u]
    BY <1>6
  <2> HIDE DEF u
  <2>2. /\ es[u].vi + 1 \in DOMAIN L
        /\ L[es[u].vi + 1].host = [kind |-> kind, hi |-> es[u].hi, lo |-> es[u].lo]
    BY <1>4, <2>1 DEF Owns
  <2> QED
    BY <2>1, <2>2
<1>11. ASSUME NEW q \in DOMAIN L, L[q].host.kind = kind
       PROVE  \E x \in new : SameAddr(z[x], L[q].host) /\ z[x].vi >= q - 1
  <2>1. PICK y \in old : SameAddr(es[y], L[q].host) /\ es[y].vi >= q - 1
    BY <1>4, <1>11 DEF Owns
  <2>2. CASE y \in i..j
    <3>1. SameAddr(es[y], es[j]) /\ es[y].vi <= es[j].vi
      BY <1>3, <2>2
    <3>2. z[k + 1] = es[j]
      BY <1>2
    <3>3. SameAddr(es[j], L[q].host)
      BY <2>1, <3>1 DEF SameAddr
    <3>4. j \in 1..m /\ y \in 1..m /\ q \in Nat
      BY <1>1, <1>8
    <3>5. es[j].vi >= q - 1
      BY <1>5, <2>1, <3>1, <3>4
    <3> QED
      BY <1>9, <3>2, <3>3, <3>5
  <2>3. CASE y \in new /\ from(y) = y
    BY <1>6, <2>1, <2>3
  <2> QED
    BY <1>8, <2>2, <2>3
<1>12. ASSUME NEW x \in new, NEW y \in new, z[x].vi = z[y].vi
       PROVE  x = y
  <2>1. from(x) \in old /\ from(y) \in old /\ es[from(x)].vi = es[from(y)].vi
    BY <1>6, <1>12
  <2>2. from(x) = from(y)
    BY <1>4, <2>1 DEF Owns
  <2> QED
    BY <1>7, <2>2
<1>13. Owns(L, z, new, kind)
  BY <1>10, <1>11, <1>12 DEF Owns
<1> QED
  BY <1>13 DEF z, new, m

-----------------------------------------------------------------------------
(* Entries and puts.                                                       *)

(* An accepted Add of the family puts one entry, the latest, for its host  *)
(* (Add in builder.go).                                                    *)
LEMMA OwnsAppend ==
    ASSUME NEW L \in Seq(PutRecords), NEW es \in Seq(Entry), NEW put \in PutRecords, NEW e \in Entry,
           put.host = [kind |-> put.host.kind, hi |-> e.hi, lo |-> e.lo], e.vi = Len(L),
           Owns(L, es, DOMAIN es, put.host.kind)
    PROVE  Owns(Append(L, put), Append(es, e), DOMAIN Append(es, e), put.host.kind)
<1> DEFINE M == Append(L, put)
           x == Append(es, e)
           m == Len(es)
           c == Len(L)
<1>1. m \in Nat /\ c \in Nat /\ DOMAIN es = 1..m /\ DOMAIN L = 1..c
  OBVIOUS
<1>2. DOMAIN M = 1..c + 1 /\ M[c + 1] = put /\ \A q \in 1..c : M[q] = L[q]
  OBVIOUS
<1>3. DOMAIN x = 1..m + 1 /\ x[m + 1] = e /\ \A k \in 1..m : x[k] = es[k]
  OBVIOUS
<1>4. \A k \in 1..m : es[k].vi \in Nat
  BY EntryIs
<1>5. e.vi = c /\ Owns(L, es, 1..m, put.host.kind)
  BY <1>1
<1> HIDE DEF M, x, m, c
<1>6. ASSUME NEW k \in 1..m + 1
      PROVE  /\ x[k].vi + 1 \in DOMAIN M
             /\ M[x[k].vi + 1].host = [kind |-> put.host.kind, hi |-> x[k].hi, lo |-> x[k].lo]
  <2>1. CASE k = m + 1
    <3>1. x[k] = e /\ e.vi + 1 = c + 1 /\ c + 1 \in DOMAIN M
      BY <1>1, <1>2, <1>3, <1>5, <2>1
    <3> QED
      BY <1>2, <3>1
  <2>2. CASE k # m + 1
    <3>1. k \in 1..m /\ x[k] = es[k]
      BY <1>1, <1>3, <2>2
    <3>2. es[k].vi + 1 \in 1..c
      BY <1>1, <1>5, <3>1 DEF Owns
    <3>3. L[es[k].vi + 1].host = [kind |-> put.host.kind, hi |-> es[k].hi, lo |-> es[k].lo]
      BY <1>5, <3>1 DEF Owns
    <3>4. es[k].vi + 1 \in 1..c + 1
      BY <1>1, <3>2
    <3> QED
      BY <1>2, <3>1, <3>2, <3>3, <3>4
  <2> QED
    BY <2>1, <2>2
<1>7. ASSUME NEW q \in DOMAIN M, M[q].host.kind = put.host.kind
      PROVE  \E k \in 1..m + 1 : SameAddr(x[k], M[q].host) /\ x[k].vi >= q - 1
  <2>1. CASE q = c + 1
    <3>1. m + 1 \in 1..m + 1 /\ x[m + 1].vi >= q - 1
      BY <1>1, <1>3, <1>5, <2>1
    <3>2. SameAddr(x[m + 1], M[q].host)
      BY <1>2, <1>3, <2>1 DEF SameAddr
    <3> QED
      BY <3>1, <3>2
  <2>2. CASE q # c + 1
    <3>1. q \in 1..c /\ M[q] = L[q]
      BY <1>1, <1>2, <2>2
    <3>2. PICK k \in 1..m : SameAddr(es[k], L[q].host) /\ es[k].vi >= q - 1
      BY <1>1, <1>5, <1>7, <3>1 DEF Owns
    <3>3. k \in 1..m + 1 /\ x[k] = es[k]
      BY <1>1, <1>3
    <3> QED
      BY <3>1, <3>2, <3>3
  <2> QED
    BY <2>1, <2>2
<1>8. ASSUME NEW i \in 1..m + 1, NEW j \in 1..m + 1, x[i].vi = x[j].vi
      PROVE  i = j
  <2>1. \A k \in 1..m : x[k].vi = es[k].vi /\ x[k].vi < c
    <3> SUFFICES ASSUME NEW k \in 1..m PROVE x[k].vi = es[k].vi /\ x[k].vi < c
      OBVIOUS
    <3>1. es[k].vi + 1 \in 1..c
      BY <1>1, <1>5 DEF Owns
    <3> QED
      BY <1>1, <1>3, <1>4, <3>1
  <2>2. x[m + 1].vi = c
    BY <1>3, <1>5
  <2>3. CASE i \in 1..m /\ j \in 1..m
    BY <1>5, <1>8, <2>1, <2>3 DEF Owns
  <2>4. CASE i = m + 1 /\ j # m + 1
    <3>1. j \in 1..m
      BY <1>1, <2>4
    <3> QED
      BY <1>1, <1>4, <1>8, <2>1, <2>2, <2>4, <3>1
  <2>5. CASE i # m + 1 /\ j = m + 1
    <3>1. i \in 1..m
      BY <1>1, <2>5
    <3> QED
      BY <1>1, <1>4, <1>8, <2>1, <2>2, <2>5, <3>1
  <2> QED
    BY <1>1, <2>3, <2>4, <2>5
<1>9. Owns(M, x, 1..m + 1, put.host.kind)
  BY <1>6, <1>7, <1>8 DEF Owns
<1> QED
  BY <1>3, <1>9 DEF M, x

(* An accepted Add of the other family leaves the entries of this one as   *)
(* they were (Add in builder.go).                                          *)
LEMMA OwnsOther ==
    ASSUME NEW L \in Seq(PutRecords), NEW es, NEW live, NEW put \in PutRecords, NEW kind,
           put.host.kind # kind, Owns(L, es, live, kind)
    PROVE  Owns(Append(L, put), es, live, kind)
<1> DEFINE M == Append(L, put)
           c == Len(L)
<1>1. c \in Nat /\ DOMAIN L = 1..c
  OBVIOUS
<1>2. DOMAIN M = 1..c + 1 /\ M[c + 1] = put /\ \A q \in 1..c : M[q] = L[q]
  OBVIOUS
<1> HIDE DEF M, c
<1>3. ASSUME NEW k \in live
      PROVE  /\ es[k].vi + 1 \in DOMAIN M
             /\ M[es[k].vi + 1].host = [kind |-> kind, hi |-> es[k].hi, lo |-> es[k].lo]
  <2>1. es[k].vi + 1 \in 1..c
    BY <1>1 DEF Owns
  <2>2. L[es[k].vi + 1].host = [kind |-> kind, hi |-> es[k].hi, lo |-> es[k].lo]
    BY DEF Owns
  <2>3. es[k].vi + 1 \in 1..c + 1
    BY <1>1, <2>1
  <2> QED
    BY <1>2, <2>1, <2>2, <2>3
<1>4. ASSUME NEW q \in DOMAIN M, M[q].host.kind = kind
      PROVE  \E k \in live : SameAddr(es[k], M[q].host) /\ es[k].vi >= q - 1
  <2>1. q # c + 1
    BY <1>2, <1>4
  <2>2. q \in 1..c /\ M[q] = L[q]
    BY <1>1, <1>2, <2>1
  <2> QED
    BY <1>1, <1>4, <2>2 DEF Owns
<1>5. \A i, j \in live : es[i].vi = es[j].vi => i = j
  BY DEF Owns
<1>6. Owns(M, es, live, kind)
  BY <1>3, <1>4, <1>5 DEF Owns
<1> QED
  BY <1>6 DEF M

-----------------------------------------------------------------------------
(* The answers that entries stand for.                                     *)

(* The puts of host h in the history L, and what the last of them carried. *)
PutsIn(L, h)   == {q \in DOMAIN L : L[q].host = h}
AnswerIn(L, h) == IF PutsIn(L, h) = {} THEN Miss ELSE L[Max(PutsIn(L, h))].val

(* Among the live entries of a host, the one with the highest sequence     *)
(* number is the host's last put, and a host without live entries has no   *)
(* put.  'Last added wins' is read off the entries in every phase of the   *)
(* build by this lemma.                                                    *)
LEMMA LatestIsLast ==
    ASSUME NEW L \in Seq(PutRecords), NEW es \in Seq(Entry), NEW live \in SUBSET (1..Len(es)),
           NEW h \in AddrKey, Owns(L, es, live, h.kind)
    PROVE  LET own == {es[k].vi : k \in {i \in live : SameAddr(es[i], h)}}
           IN /\ own = {} <=> PutsIn(L, h) = {}
              /\ own # {} => /\ Max(own) \in own /\ Max(own) \in Nat
                             /\ \A x \in own : x <= Max(own)
                             /\ Max(own) + 1 = Max(PutsIn(L, h))
                             /\ Max(PutsIn(L, h)) \in DOMAIN L
<1> DEFINE mine == {i \in live : SameAddr(es[i], h)}
           own == {es[k].vi : k \in mine}
           P == PutsIn(L, h)
           c == Len(L)
<1>1. c \in Nat /\ DOMAIN L = 1..c
  OBVIOUS
<1>2. \A k \in live : es[k].hi \in Nat /\ es[k].lo \in Nat /\ es[k].vi \in Nat
  BY EntryIs
<1>3. h = [kind |-> h.kind, hi |-> h.hi, lo |-> h.lo]
  BY DEF AddrKey
<1>4. ASSUME NEW k \in mine
      PROVE  es[k].vi + 1 \in P /\ es[k].vi \in Nat
  <2>1. k \in live /\ es[k].hi = h.hi /\ es[k].lo = h.lo
    BY DEF SameAddr
  <2>2. es[k].vi + 1 \in DOMAIN L /\ L[es[k].vi + 1].host = h
    BY <1>3, <2>1 DEF Owns
  <2> QED
    BY <1>2, <2>1, <2>2 DEF PutsIn
<1>5. ASSUME NEW q \in P
      PROVE  \E k \in mine : es[k].vi >= q - 1
  <2>1. q \in DOMAIN L /\ L[q].host = h
    BY DEF PutsIn
  <2> QED
    BY <2>1 DEF Owns
<1>6. P \in SUBSET Nat /\ \A q \in P : q \in 1..c
  BY <1>1 DEF PutsIn
<1>7. \A x \in own : x \in Nat /\ x + 1 \in P
  BY <1>4
<1>8. \A q \in P : \E x \in own : x >= q - 1
  BY <1>5
<1> HIDE DEF P, own, mine
<1>9. own = {} <=> P = {}
  BY <1>7, <1>8
<1>10. ASSUME own # {}
       PROVE  /\ Max(own) \in own /\ Max(own) \in Nat
              /\ \A x \in own : x <= Max(own)
              /\ Max(own) + 1 = Max(P) /\ Max(P) \in DOMAIN L
  <2>1. own \in SUBSET Nat /\ \A x \in own : x <= c
    BY <1>1, <1>6, <1>7
  <2>2. Max(own) \in own /\ \A x \in own : x <= Max(own)
    BY <1>1, <1>10, <2>1, MaxIs
  <2>3. P # {}
    BY <1>9, <1>10
  <2>4. Max(P) \in P /\ \A q \in P : q <= Max(P)
    <3>1. \A q \in P : q <= c
      BY <1>6
    <3> QED
      BY <1>1, <1>6, <2>3, <3>1, MaxIs
  <2>5. PICK x \in own : x >= Max(P) - 1
    BY <1>8, <2>4
  <2>6. x <= Max(own) /\ Max(own) + 1 <= Max(P) /\ x \in Nat /\ Max(own) \in Nat /\ Max(P) \in Nat
    BY <1>6, <1>7, <2>2, <2>4, <2>5
  <2>7. Max(own) + 1 = Max(P)
    BY <2>5, <2>6
  <2>8. Max(P) \in DOMAIN L
    BY <1>1, <1>6, <2>4
  <2> QED
    BY <2>2, <2>6, <2>7, <2>8
<1> QED
  BY <1>9, <1>10 DEF own, mine, P

(* When the kept entries ascend strictly there is one per host, and it     *)
(* stands for the host's last put (what build4 and build6 fill the stores  *)
(* from).                                                                  *)
LEMMA KeptIsLast ==
    ASSUME NEW L \in Seq(PutRecords), NEW es \in Seq(Entry), NEW m \in 0..Len(es),
           NEW h \in AddrKey, Owns(L, es, 1..m, h.kind), Strict(es, m)
    PROVE  /\ \A k \in 1..m : SameAddr(es[k], h) =>
                 /\ PutsIn(L, h) # {} /\ Max(PutsIn(L, h)) = es[k].vi + 1
                 /\ AnswerIn(L, h) = L[es[k].vi + 1].val
           /\ (\A k \in 1..m : ~SameAddr(es[k], h)) => PutsIn(L, h) = {} /\ AnswerIn(L, h) = Miss
<1> DEFINE mine == {i \in 1..m : SameAddr(es[i], h)}
           own == {es[k].vi : k \in mine}
           P == PutsIn(L, h)
<1>1. m \in Nat /\ 1..m \in SUBSET (1..Len(es))
  OBVIOUS
<1>2. /\ own = {} <=> P = {}
      /\ own # {} => Max(own) \in own /\ Max(own) + 1 = Max(P)
  BY <1>1, LatestIsLast
<1>3. \A k \in 1..m : es[k].hi \in Nat /\ es[k].lo \in Nat /\ es[k].vi \in Nat
  BY EntryIs
<1> HIDE DEF P
<1>4. ASSUME NEW k \in 1..m, SameAddr(es[k], h)
      PROVE  P # {} /\ Max(P) = es[k].vi + 1 /\ AnswerIn(L, h) = L[es[k].vi + 1].val
  <2>1. k \in mine
    BY <1>4
  <2>2. own # {}
    BY <2>1
  <2>3. PICK i \in mine : Max(own) = es[i].vi
    BY <1>2, <2>2
  <2>4. i = k
    <3>1. i \in 1..m /\ SameAddr(es[i], es[k]) /\ SameAddr(es[k], es[i])
      BY <1>4, <2>3 DEF SameAddr
    <3>2. i < k => AddrLess(es[i], es[k])
      BY <3>1 DEF Strict
    <3>3. k < i => AddrLess(es[k], es[i])
      BY <3>1 DEF Strict
    <3>4. ~AddrLess(es[i], es[k]) /\ ~AddrLess(es[k], es[i])
      BY <1>3, <3>1 DEF AddrLess, SameAddr
    <3> QED
      BY <1>1, <3>1, <3>2, <3>3, <3>4
  <2> HIDE DEF own
  <2>5. P # {} /\ Max(P) = es[k].vi + 1
    BY <1>2, <2>2, <2>3, <2>4
  <2> QED
    BY <2>5 DEF AnswerIn, P
<1>5. ASSUME \A k \in 1..m : ~SameAddr(es[k], h)
      PROVE  P = {} /\ AnswerIn(L, h) = Miss
  <2>1. own = {}
    BY <1>5
  <2> QED
    BY <1>2, <2>1 DEF AnswerIn, P
<1> QED
  BY <1>4, <1>5 DEF P

-----------------------------------------------------------------------------
(* The offsets of build4: how many kept entries lie below a group.         *)

(* How many of the first m entries belong to a group whose counter is at   *)
(* most, or exactly, the g-th: build4 counts the group of word hi in       *)
(* counter hi + 2 (1-based).                                               *)
Below(es, m, g)   == Cardinality({k \in 1..m : es[k].hi + 2 <= g})
Exactly(es, m, g) == Cardinality({k \in 1..m : es[k].hi + 2 = g})

(* A set of indices that is closed downwards is 1..k for its size k.       *)
LEMMA InitialSegment ==
    ASSUME NEW m \in Nat, NEW S \in SUBSET (1..m), \A x \in S : \A y \in 1..x : y \in S
    PROVE  Cardinality(S) \in 0..m /\ S = 1..Cardinality(S)
<1>1. CASE S = {}
  <2>1. Cardinality(S) = 0
    BY <1>1, FS_EmptySet
  <2> QED
    BY <1>1, <2>1
<1>2. CASE S # {}
  <2>1. S \in SUBSET Nat /\ \A k \in S : k <= m
    OBVIOUS
  <2>2. PICK x \in S : \A k \in S : k <= x
    BY <1>2, <2>1, MaxIs
  <2>3. x \in S /\ x \in 1..m
    BY <2>2
  <2>4. S = 1..x
    <3>1. \A y \in 1..x : y \in S
      BY <2>3
    <3>2. \A y \in S : y \in 1..x
      BY <2>2, <2>3
    <3> QED
      BY <3>1, <3>2
  <2>5. Cardinality(1..x) = x
    BY <2>3, FS_Interval
  <2> QED
    BY <2>3, <2>4, <2>5
<1> QED
  BY <1>1, <1>2

(* Entries that ascend are cut by a group number: those of lower groups    *)
(* come first, and Below counts them.  This is why the running sum of      *)
(* build4 gives offsets.                                                   *)
LEMMA BelowCut ==
    ASSUME NEW es \in Seq(Entry), NEW m \in 0..Len(es), Strict(es, m), NEW g \in Int
    PROVE  /\ Below(es, m, g) \in 0..m
           /\ \A k \in 1..m : es[k].hi + 2 <= g <=> k <= Below(es, m, g)
<1> DEFINE S == {k \in 1..m : es[k].hi + 2 <= g}
<1>1. m \in Nat /\ S \in SUBSET (1..m)
  OBVIOUS
<1>2. \A k \in 1..m : es[k].hi \in Nat /\ es[k].lo \in Nat
  <2>1. \A k \in 1..m : k \in 1..Len(es)
    OBVIOUS
  <2> QED BY <2>1, EntryIs, Zenon
<1>3. ASSUME NEW x \in S, NEW y \in 1..x
      PROVE  y \in S
  <2>1. y \in 1..m /\ x \in 1..m
    BY <1>1
  <2>2. y < x => AddrLess(es[y], es[x])
    BY <2>1 DEF Strict
  <2>3. y < x => es[y].hi <= es[x].hi
    BY <1>2, <2>1, <2>2 DEF AddrLess
  <2>4. es[x].hi + 2 <= g
    OBVIOUS
  <2>5. y = x \/ y < x
    BY <2>1
  <2>6. es[y].hi + 2 <= g
    BY <1>2, <2>1, <2>3, <2>4, <2>5
  <2> QED
    BY <2>1, <2>6
<1> HIDE DEF S
<1>4. Cardinality(S) \in 0..m /\ S = 1..Cardinality(S)
  BY <1>1, <1>3, InitialSegment
<1>5. \A k \in 1..m : k \in S <=> k <= Cardinality(S)
  BY <1>1, <1>4
<1>6. \A k \in 1..m : k \in S <=> es[k].hi + 2 <= g
  BY DEF S
<1> QED
  BY <1>4, <1>5, <1>6 DEF Below, S

(* One more group adds the entries of exactly that group: the recurrence   *)
(* s.idx[i] += s.idx[i-1] of build4.                                       *)
LEMMA BelowAdds ==
    ASSUME NEW es \in Seq(Entry), NEW m \in 0..Len(es), NEW g \in Int
    PROVE  /\ Below(es, m, g + 1) = Exactly(es, m, g + 1) + Below(es, m, g)
           /\ Below(es, m, g) \in 0..m /\ Exactly(es, m, g) \in 0..m
<1> DEFINE S(x) == {k \in 1..m : es[k].hi + 2 <= x}
           E(x) == {k \in 1..m : es[k].hi + 2 = x}
<1>1. m \in Nat /\ IsFiniteSet(1..m) /\ Cardinality(1..m) = m
  BY FS_Interval
<1>2. \A k \in 1..m : es[k].hi \in Nat
  BY EntryIs
<1>3. ASSUME NEW x \in Int
      PROVE  /\ IsFiniteSet(S(x)) /\ Cardinality(S(x)) \in 0..m
             /\ IsFiniteSet(E(x)) /\ Cardinality(E(x)) \in 0..m
  <2>1. S(x) \in SUBSET (1..m) /\ E(x) \in SUBSET (1..m)
    OBVIOUS
  <2> HIDE DEF S, E
  <2>2. /\ IsFiniteSet(S(x)) /\ Cardinality(S(x)) <= m
        /\ IsFiniteSet(E(x)) /\ Cardinality(E(x)) <= m
    BY <1>1, <2>1, FS_Subset
  <2> QED
    BY <1>1, <2>2, FS_CardinalityType
<1>4. S(g + 1) = E(g + 1) \cup S(g) /\ E(g + 1) \cap S(g) = {}
  <2>1. \A k \in 1..m : es[k].hi + 2 <= g + 1 <=> (es[k].hi + 2 = g + 1 \/ es[k].hi + 2 <= g)
    BY <1>2
  <2>2. \A k \in 1..m : ~(es[k].hi + 2 = g + 1 /\ es[k].hi + 2 <= g)
    BY <1>2
  <2> QED
    BY <2>1, <2>2
<1> HIDE DEF S, E
<1>5. Cardinality(E(g + 1) \cap S(g)) = 0
  BY <1>4, FS_EmptySet
<1>6. g + 1 \in Int
  OBVIOUS
<1>7. Cardinality(S(g + 1)) = Cardinality(E(g + 1)) + Cardinality(S(g))
                              - Cardinality(E(g + 1) \cap S(g))
  BY <1>3, <1>4, <1>6, FS_Union
<1>8. Cardinality(S(g + 1)) = Cardinality(E(g + 1)) + Cardinality(S(g))
  BY <1>3, <1>5, <1>6, <1>7
<1> QED
  BY <1>3, <1>8 DEF Below, Exactly, S, E

-----------------------------------------------------------------------------
(* What a store compiled from the kept entries answers.                    *)

\* The rows hold the values of the puts of the first m entries.
RowVals(v, es, m, L, inter, t) ==
    IF inter
      THEN /\ v.direct = <<>> /\ v.tab = t /\ Len(v.ids) = m
           /\ \A k \in 1..m : /\ Unpack(v.ids[k]) \in 0..Len(t) - 1
                              /\ t[Unpack(v.ids[k]) + 1] = L[es[k].vi + 1].val
      ELSE /\ Len(v.direct) = m
           /\ \A k \in 1..m : v.direct[k] = L[es[k].vi + 1].val

\* Reading the rows gives the values of the puts of the first m entries.
Reads(v, es, m, L) == \A k \in 1..m : get(v, k - 1) = L[es[k].vi + 1].val

(* A row whose id unpacks to a place of the table that lists the value, or *)
(* that holds the value itself, is read back as the value (get in          *)
(* values.go).                                                             *)
LEMMA RowIs ==
    ASSUME NEW v, NEW es, NEW m \in Nat, NEW L, NEW inter \in BOOLEAN, NEW t,
           RowVals(v, es, m, L, inter, t)
    PROVE  Reads(v, es, m, L)
<1> SUFFICES ASSUME NEW k \in 1..m PROVE get(v, k - 1) = L[es[k].vi + 1].val
  BY DEF Reads
<1>1. (k - 1) + 1 = k
  OBVIOUS
<1>2. CASE inter
  <2>1. /\ v.direct = <<>> /\ v.tab = t /\ Unpack(v.ids[k]) \in 0..Len(t) - 1
        /\ t[Unpack(v.ids[k]) + 1] = L[es[k].vi + 1].val
    BY <1>2 DEF RowVals
  <2>2. Unpack(v.ids[k]) < Len(t)
    BY <2>1
  <2> QED
    BY <1>1, <2>1, <2>2 DEF get
<1>3. CASE ~inter
  <2>1. Len(v.direct) = m /\ v.direct[k] = L[es[k].vi + 1].val
    BY <1>3 DEF RowVals
  <2>2. v.direct # <<>>
    BY <2>1
  <2> QED
    BY <1>1, <2>1, <2>2 DEF get
<1> QED
  BY <1>2, <1>3

(* Appending the next entry's id, packed in a width that holds it, or its  *)
(* value, extends the rows by one (setVal in builder.go, putID in          *)
(* values.go).                                                             *)
LEMMA RowAdds ==
    ASSUME NEW v \in ValsLayout, NEW es, NEW m \in Nat, NEW L, NEW inter \in BOOLEAN, NEW t,
           RowVals(v, es, m, L, inter, t), Len(t) \in Nat,
           NEW id \in Nat, inter => id < Power[v.idW] /\ id < Len(t) /\ t[id + 1] = L[es[m + 1].vi + 1].val,
           NEW val, ~inter => val \in Values /\ val = L[es[m + 1].vi + 1].val
    PROVE  RowVals(IF inter THEN [v EXCEPT !.ids = Append(@, Pack(v.idW, id))]
                            ELSE [v EXCEPT !.direct = Append(@, val)],
                   es, m + 1, L, inter, t)
<1>1. CASE inter
  <2> DEFINE x == Pack(v.idW, id)
             w == [v EXCEPT !.ids = Append(@, x)]
  <2>1. v.ids \in Seq(Seq(Nat)) /\ v.idW \in 0..4
    BY DEF ValsLayout
  <2>2. Unpack(x) = id /\ Len(x) = v.idW
    BY <1>1, <2>1, UnpackPacks
  <2>3. /\ v.direct = <<>> /\ v.tab = t /\ Len(v.ids) = m
        /\ \A k \in 1..m : /\ Unpack(v.ids[k]) \in 0..Len(t) - 1
                           /\ t[Unpack(v.ids[k]) + 1] = L[es[k].vi + 1].val
    BY <1>1 DEF RowVals
  <2>4. w.direct = <<>> /\ w.tab = t /\ w.ids = Append(v.ids, x)
    BY <2>3 DEF ValsLayout
  <2> HIDE DEF x, w
  <2>5. Len(w.ids) = m + 1 /\ w.ids[m + 1] = x /\ \A k \in 1..m : w.ids[k] = v.ids[k]
    BY <2>1, <2>3, <2>4
  <2>6. ASSUME NEW k \in 1..m + 1
        PROVE  /\ Unpack(w.ids[k]) \in 0..Len(t) - 1
               /\ t[Unpack(w.ids[k]) + 1] = L[es[k].vi + 1].val
    <3>1. CASE k = m + 1
      <4>1. Unpack(w.ids[k]) = id
        BY <2>2, <2>5, <3>1
      <4>2. id \in 0..Len(t) - 1
        BY <1>1
      <4> QED
        BY <1>1, <3>1, <4>1, <4>2
    <3>2. CASE k # m + 1
      <4>1. k \in 1..m
        BY <3>2
      <4> QED
        BY <2>3, <2>5, <4>1
    <3> QED
      BY <3>1, <3>2
  <2>7. RowVals(w, es, m + 1, L, inter, t)
    BY <1>1, <2>4, <2>5, <2>6 DEF RowVals
  <2> QED
    BY <1>1, <2>7 DEF w, x
<1>2. CASE ~inter
  <2> DEFINE w == [v EXCEPT !.direct = Append(@, val)]
  <2>1. v.direct \in Seq(Values)
    BY DEF ValsLayout
  <2>2. Len(v.direct) = m /\ \A k \in 1..m : v.direct[k] = L[es[k].vi + 1].val
    BY <1>2 DEF RowVals
  <2>3. w.direct = Append(v.direct, val)
    BY DEF ValsLayout
  <2> HIDE DEF w
  <2>4. Len(w.direct) = m + 1 /\ w.direct[m + 1] = val /\ \A k \in 1..m : w.direct[k] = v.direct[k]
    BY <1>2, <2>1, <2>2, <2>3
  <2>5. ASSUME NEW k \in 1..m + 1
        PROVE  w.direct[k] = L[es[k].vi + 1].val
    <3>1. CASE k = m + 1
      BY <1>2, <2>4, <3>1
    <3>2. CASE k # m + 1
      <4>1. k \in 1..m
        BY <3>2
      <4> QED
        BY <2>2, <2>4, <4>1
    <3> QED
      BY <3>1, <3>2
  <2>6. RowVals(w, es, m + 1, L, inter, t)
    BY <1>2, <2>4, <2>5 DEF RowVals
  <2> QED
    BY <1>2, <2>6 DEF w
<1> QED
  BY <1>1, <1>2

\* The offsets and the suffixes of m entries with 32-bit addresses.
Offsets4(s, es, m) ==
    /\ Len(s.idx) = Groups4 + 1 /\ \A i \in 1..Groups4 + 1 : s.idx[i] = Below(es, m, i)
    /\ Len(s.suffix) = m /\ \A k \in 1..m : s.suffix[k] = es[k].lo

\* Entries whose group and octet are those of a 32-bit address.
Small(es, m) == \A k \in 1..m : es[k].hi < Groups4 /\ es[k].lo < Octets

(* Entries that ascend strictly are as far apart as their positions: the   *)
(* k-th address of a 32-bit store is at least the k-th address there is.   *)
LEMMA FarApart ==
    ASSUME NEW es \in Seq(Entry), NEW m \in 0..Len(es), Strict(es, m), Small(es, m),
           NEW k \in 1..m
    PROVE  k <= es[k].hi * Octets + es[k].lo + 1
<1> DEFINE rank(j) == es[j].hi * Octets + es[j].lo
           s == [j \in 1..m |-> rank(j) - j]
<1>1. m \in Nat /\ Octets \in Nat \ {0} /\ 1 \in 1..m
  BY WidthAssumption
<1>2. \A j \in 1..m : es[j].hi \in Nat /\ es[j].lo \in Nat
  BY EntryIs
<1>3. \A j \in 1..m : rank(j) \in Nat
  <2> SUFFICES ASSUME NEW j \in 1..m PROVE rank(j) \in Nat
    OBVIOUS
  <2>1. es[j].hi \in Nat /\ es[j].lo \in Nat
    BY <1>2
  <2>2. es[j].hi * Octets \in Nat
    BY <1>1, <2>1
  <2> QED
    BY <2>1, <2>2
<1>4. ASSUME NEW j \in 1..m - 1
      PROVE  rank(j) + 1 <= rank(j + 1)
  <2>1. j \in 1..m /\ j + 1 \in 1..m /\ j < j + 1
    BY <1>1
  <2> DEFINE a == es[j].hi
             b == es[j + 1].hi
             x == es[j].lo
             y == es[j + 1].lo
  <2>2. a \in Nat /\ b \in Nat /\ x \in Nat /\ y \in Nat
    BY <1>2, <2>1
  <2>3. a < b \/ (a = b /\ x < y)
    BY <2>1 DEF Strict, AddrLess
  <2>4. x < Octets /\ y < Octets
    BY <2>1 DEF Small
  <2> HIDE DEF a, b, x, y
  <2>5. ASSUME a < b
        PROVE  a * Octets + x + 1 <= b * Octets + y
    <3>1. PICK d \in Nat : b = a + 1 + d
      <4>1. b - a - 1 \in Nat /\ b = a + 1 + (b - a - 1)
        BY <2>2, <2>5
      <4> QED
        BY <4>1
    <3>2. b * Octets = a * Octets + Octets + d * Octets
      BY <1>1, <2>2, <3>1
    <3>3. d * Octets \in Nat /\ a * Octets \in Nat
      BY <1>1, <2>2
    <3> QED
      BY <1>1, <2>2, <2>4, <3>2, <3>3
  <2>6. a * Octets \in Nat
    BY <1>1, <2>2
  <2>7. a * Octets + x + 1 <= b * Octets + y
    BY <2>2, <2>3, <2>5, <2>6
  <2> QED
    BY <2>7 DEF a, b, x, y
<1> HIDE DEF rank
<1>5. \A j \in 1..m : s[j] = rank(j) - j
  OBVIOUS
<1> HIDE DEF s
<1>6. \A j \in 1..m : s[j] \in Int
  BY <1>1, <1>3, <1>5
<1>7. \A j \in 1..m - 1 : s[j] <= s[j + 1]
  <2> SUFFICES ASSUME NEW j \in 1..m - 1 PROVE s[j] <= s[j + 1]
    OBVIOUS
  <2>1. j \in 1..m /\ j + 1 \in 1..m
    BY <1>1
  <2>2. s[j] = rank(j) - j /\ s[j + 1] = rank(j + 1) - (j + 1)
    BY <1>5, <2>1
  <2>3. rank(j) \in Nat /\ rank(j + 1) \in Nat /\ rank(j) + 1 <= rank(j + 1)
    BY <1>3, <1>4, <2>1
  <2> QED
    BY <2>1, <2>2, <2>3
<1>8. s[1] <= s[k]
  <2>1. \A i, j \in 1..m : i <= j => s[i] <= s[j]
    BY <1>1, <1>6, <1>7, Climbs
  <2> QED
    BY <1>1, <2>1
<1>9. s[1] = rank(1) - 1 /\ s[k] = rank(k) - k /\ rank(1) \in Nat /\ rank(k) \in Nat
  BY <1>1, <1>3, <1>5
<1>10. k <= rank(k) + 1
  BY <1>1, <1>8, <1>9
<1> QED
  BY <1>10 DEF rank

(* The offsets the running count leaves divide the kept entries by /24     *)
(* group: they start at 0, end at the number of entries, ascend, and the   *)
(* slots between two offsets are the entries of that group, in ascending   *)
(* order of octet (build4).                                                *)
LEMMA Divides4 ==
    ASSUME NEW es \in Seq(Entry), NEW m \in 0..Len(es), Strict(es, m), Small(es, m),
           NEW s, Offsets4(s, es, m)
    PROVE  /\ Divides(s.idx, Groups4, m, 0)
           /\ Ascend(s.idx, Groups4, s.suffix)
           /\ \A i \in 1..Groups4 : \A k \in 1..m :
                 k - 1 \in s.idx[i] .. s.idx[i + 1] - 1 <=> es[k].hi = i - 1
<1> DEFINE N == Groups4
<1>1. N \in Nat \ {0} /\ m \in Nat
  BY WidthAssumption
<1>2. \A i \in 1..N + 1 : s.idx[i] = Below(es, m, i)
  BY DEF Offsets4
<1>3. \A k \in 1..m : es[k].hi \in Nat /\ es[k].lo \in Nat /\ es[k].hi < N
  BY EntryIs DEF Small
<1>4. \A i \in 1..N + 1 : /\ s.idx[i] \in 0..m
                          /\ \A k \in 1..m : es[k].hi + 2 <= i <=> k <= s.idx[i]
  <2> SUFFICES ASSUME NEW i \in 1..N + 1
               PROVE  /\ s.idx[i] \in 0..m
                      /\ \A k \in 1..m : es[k].hi + 2 <= i <=> k <= s.idx[i]
    OBVIOUS
  <2>1. i \in Int
    BY <1>1
  <2>2. /\ Below(es, m, i) \in 0..m
        /\ \A k \in 1..m : es[k].hi + 2 <= i <=> k <= Below(es, m, i)
    BY <2>1, BelowCut
  <2>3. s.idx[i] = Below(es, m, i)
    BY <1>2
  <2> QED
    BY <2>2, <2>3
<1> HIDE DEF N
<1>5. s.idx[1] = 0
  <2>1. 1 \in 1..N + 1
    BY <1>1
  <2>2. s.idx[1] \in 0..m /\ \A k \in 1..m : es[k].hi + 2 <= 1 <=> k <= s.idx[1]
    BY <1>4, <2>1
  <2>3. s.idx[1] # 0 => 1 \in 1..m /\ 1 <= s.idx[1]
    BY <2>2
  <2> QED
    BY <1>3, <2>2, <2>3
<1>6. s.idx[N + 1] = m
  <2>1. N + 1 \in 1..N + 1
    BY <1>1
  <2>2. s.idx[N + 1] \in 0..m /\ \A k \in 1..m : es[k].hi + 2 <= N + 1 <=> k <= s.idx[N + 1]
    BY <1>4, <2>1
  <2>3. m # 0 => m \in 1..m /\ es[m].hi + 2 <= N + 1
    BY <1>1, <1>3
  <2> QED
    BY <1>1, <2>2, <2>3
<1>7. ASSUME NEW i \in 1..N
      PROVE  /\ s.idx[i] \in 0..m /\ s.idx[i + 1] \in 0..m /\ s.idx[i] <= s.idx[i + 1]
             /\ \A k \in 1..m : k - 1 \in s.idx[i] .. s.idx[i + 1] - 1 <=> es[k].hi = i - 1
  <2> DEFINE b == s.idx[i]
             c == s.idx[i + 1]
  <2>1. i \in 1..N + 1 /\ i + 1 \in 1..N + 1
    BY <1>1
  <2>2. /\ b \in 0..m /\ \A k \in 1..m : es[k].hi + 2 <= i <=> k <= b
        /\ c \in 0..m /\ \A k \in 1..m : es[k].hi + 2 <= i + 1 <=> k <= c
    BY <1>4, <2>1
  <2> HIDE DEF b, c
  <2>3. b <= c
    <3>1. b # 0 => b \in 1..m /\ es[b].hi + 2 <= i /\ es[b].hi \in Nat
      BY <1>3, <2>2
    <3>2. b # 0 => es[b].hi + 2 <= i + 1
      BY <3>1
    <3> QED
      BY <2>2, <3>1, <3>2
  <2>4. ASSUME NEW k \in 1..m
        PROVE  k - 1 \in b .. c - 1 <=> es[k].hi = i - 1
    <3>1. es[k].hi \in Nat /\ (es[k].hi + 2 <= i <=> k <= b) /\ (es[k].hi + 2 <= i + 1 <=> k <= c)
      BY <1>3, <2>2
    <3>2. k - 1 \in b .. c - 1 <=> ~(k <= b) /\ k <= c
      BY <2>2
    <3>3. es[k].hi = i - 1 <=> ~(es[k].hi + 2 <= i) /\ es[k].hi + 2 <= i + 1
      BY <3>1
    <3> QED
      BY <3>1, <3>2, <3>3
  <2> QED
    BY <2>2, <2>3, <2>4 DEF b, c
<1>8. Divides(s.idx, N, m, 0)
  <2>1. \A i \in 1..N + 1 : s.idx[i] \in Nat
    BY <1>4
  <2>2. \A i \in 1..N : s.idx[i] + 0 <= s.idx[i + 1]
    <3> SUFFICES ASSUME NEW i \in 1..N PROVE s.idx[i] + 0 <= s.idx[i + 1]
      OBVIOUS
    <3>1. s.idx[i] \in 0..m /\ s.idx[i + 1] \in 0..m /\ s.idx[i] <= s.idx[i + 1]
      BY <1>7
    <3> QED
      BY <3>1
  <2> QED
    BY <1>5, <1>6, <2>1, <2>2 DEF Divides
<1>9. ASSUME NEW i \in 1..N, NEW j \in s.idx[i] + 1 .. s.idx[i + 1] - 1
      PROVE  s.suffix[j] < s.suffix[j + 1]
  <2> DEFINE a == s.idx[i]
             c == s.idx[i + 1]
  <2>1. a \in 0..m /\ c \in 0..m /\ j \in a + 1 .. c - 1 /\ m \in Nat
    BY <1>1, <1>7
  <2> HIDE DEF a, c
  <2>2. /\ j \in 1..m /\ j + 1 \in 1..m /\ j < j + 1
        /\ j - 1 \in a .. c - 1 /\ (j + 1) - 1 \in a .. c - 1
    BY <2>1
  <2>3. es[j].hi = i - 1 /\ es[j + 1].hi = i - 1
    BY <1>7, <2>2 DEF a, c
  <2>4. AddrLess(es[j], es[j + 1])
    BY <2>2 DEF Strict
  <2>5. es[j].lo < es[j + 1].lo
    BY <1>3, <2>2, <2>3, <2>4 DEF AddrLess
  <2>6. s.suffix[j] = es[j].lo /\ s.suffix[j + 1] = es[j + 1].lo
    BY <2>2 DEF Offsets4
  <2> QED
    BY <2>5, <2>6
<1>10. Ascend(s.idx, N, s.suffix)
  BY <1>9 DEF Ascend
<1>11. \A i \in 1..N : \A k \in 1..m : k - 1 \in s.idx[i] .. s.idx[i + 1] - 1 <=> es[k].hi = i - 1
  BY <1>7
<1> QED
  BY <1>8, <1>10, <1>11 DEF N

(* No /24 group begins at the top of uint32, when the groups but the last  *)
(* do not fill it: the overflow lookup4's offset arithmetic would meet     *)
(* does not happen (build4, lookup4 in store.go).                          *)
LEMMA BeginsBelow ==
    ASSUME NEW es \in Seq(Entry), NEW m \in 0..Len(es), Strict(es, m), Small(es, m),
           NEW s, Offsets4(s, es, m), (Groups4 - 1) * Octets < MaxU32
    PROVE  \A i \in 1..Groups4 : s.idx[i] < MaxU32
<1> SUFFICES ASSUME NEW i \in 1..Groups4 PROVE s.idx[i] < MaxU32
  OBVIOUS
<1>1. Groups4 \in Nat \ {0} /\ Octets \in Nat \ {0} /\ MaxU32 \in Nat \ {0} /\ m \in Nat
  BY WidthAssumption
<1> DEFINE b == s.idx[i]
<1>2. i \in 1..Groups4 + 1
  BY <1>1
<1>3. b = Below(es, m, i)
  BY <1>2 DEF Offsets4
<1>4. b \in 0..m /\ \A k \in 1..m : es[k].hi + 2 <= i <=> k <= b
  BY <1>2, <1>3, BelowCut
<1> HIDE DEF b
<1>5. CASE b = 0
  BY <1>1, <1>5 DEF b
<1>6. CASE b # 0
  <2>1. b \in 1..m /\ es[b].hi + 2 <= i
    BY <1>4, <1>6
  <2> DEFINE h == es[b].hi
             l == es[b].lo
  <2>2. h \in Nat /\ l \in Nat /\ l < Octets /\ b \in Nat
    BY <2>1, EntryIs DEF Small
  <2>3. b <= h * Octets + l + 1
    BY <2>1, FarApart
  <2>4. h + 2 <= Groups4
    <3>1. h + 2 <= i
      BY <2>1
    <3> HIDE DEF h, l
    <3> QED
      BY <1>1, <2>2, <3>1
  <2> HIDE DEF h, l
  <2>5. PICK d \in Nat : Groups4 - 1 = h + 1 + d
    <3>1. Groups4 - 1 - h - 1 \in Nat /\ Groups4 - 1 = h + 1 + (Groups4 - 1 - h - 1)
      BY <1>1, <2>2, <2>4
    <3> QED
      BY <3>1
  <2>6. (Groups4 - 1) * Octets = h * Octets + Octets + d * Octets
    <3>1. (h + 1 + d) * Octets = h * Octets + Octets + d * Octets
      BY <1>1, <2>2
    <3> QED
      BY <2>5, <3>1
  <2>7. d * Octets \in Nat /\ h * Octets \in Nat
    BY <1>1, <2>2
  <2>8. b <= h * Octets + Octets
    BY <1>1, <2>2, <2>3, <2>7
  <2> DEFINE top == (Groups4 - 1) * Octets
  <2>9. top = h * Octets + Octets + d * Octets /\ top < MaxU32
    BY <2>6
  <2> HIDE DEF top
  <2>10. b < MaxU32
    BY <1>1, <2>2, <2>7, <2>8, <2>9
  <2> QED
    BY <2>10 DEF b
<1> QED
  BY <1>5, <1>6 DEF b

(* A 32-bit store with these offsets, suffixes and rows answers, for every *)
(* address, the value of its host's last put, or a miss when the host has  *)
(* none (lookup4 in store.go).                                             *)
LEMMA Answers4 ==
    ASSUME NEW L \in Seq(PutRecords), NEW es \in Seq(Entry), NEW m \in 1..Len(es),
           Strict(es, m), Small(es, m), Owns(L, es, 1..m, "v4"),
           NEW s, Offsets4(s, es, m),
           NEW inter \in BOOLEAN, NEW t, RowVals(s.vals, es, m, L, inter, t),
           NEW h \in AddrKey, h.kind = "v4", h.hi < Groups4
    PROVE  lookup4(s, h) = AnswerIn(L, h)
<1> DEFINE run == s.idx[h.hi + 1] .. s.idx[h.hi + 2] - 1
<1>1. Groups4 \in Nat \ {0} /\ m \in Nat /\ m \in 0..Len(es)
  BY WidthAssumption
<1>2. h.hi \in Nat /\ h.lo \in Nat /\ h.hi \in 0..Groups4 - 1 /\ h.hi + 1 \in 1..Groups4
  BY <1>1 DEF AddrKey
<1>3. \A k \in 1..m : es[k].hi \in Nat /\ es[k].lo \in Nat
  BY EntryIs
<1>4. /\ Divides(s.idx, Groups4, m, 0) /\ Ascend(s.idx, Groups4, s.suffix)
      /\ \A i \in 1..Groups4 : \A k \in 1..m :
            k - 1 \in s.idx[i] .. s.idx[i + 1] - 1 <=> es[k].hi = i - 1
  BY <1>1, Divides4, ZenonT(60)
<1>5. \A k \in 1..m : k - 1 \in run <=> es[k].hi = h.hi
  <2>1. (h.hi + 1) + 1 = h.hi + 2 /\ (h.hi + 1) - 1 = h.hi
    BY <1>2
  <2> QED
    BY <1>2, <1>4, <2>1
<1>6. Len(s.suffix) = m /\ \A k \in 1..m : s.suffix[k] = es[k].lo
  BY DEF Offsets4
<1>7. \A p \in run : p \in 0..m - 1
  <2>1. \A i \in 1..Groups4 + 1 : s.idx[i] \in 0..m
    BY <1>1, <1>4, OffsetsClimb, 0 \in Nat
  <2>2. h.hi + 1 \in 1..Groups4 + 1 /\ h.hi + 2 \in 1..Groups4 + 1
    BY <1>1, <1>2
  <2>3. s.idx[h.hi + 1] \in 0..m /\ s.idx[h.hi + 2] \in 0..m
    BY <2>1, <2>2
  <2> QED
    BY <2>3
<1>8. s.idx # <<>>
  <2>1. Len(s.idx) # 0
    BY <1>1 DEF Offsets4
  <2> QED
    BY <2>1
<1>9. /\ \A p \in run : s.suffix[p + 1] = h.lo => lookup4(s, h) = get(s.vals, p)
      /\ (\A p \in run : s.suffix[p + 1] # h.lo) => lookup4(s, h) = Miss
  <2>1. \A j \in 1..m : s.suffix[j] \in Nat
    BY <1>3, <1>6
  <2> HIDE DEF run
  <2> QED
    BY <1>1, <1>2, <1>4, <1>6, <1>8, <2>1, Lookup4Finds DEF run
<1> HIDE DEF run
<1>10. CASE \E k \in 1..m : SameAddr(es[k], h)
  <2>1. PICK k \in 1..m : SameAddr(es[k], h)
    BY <1>10
  <2>2. es[k].hi = h.hi /\ es[k].lo = h.lo
    BY <2>1 DEF SameAddr
  <2>3. k - 1 \in run /\ (k - 1) + 1 = k
    BY <1>5, <2>2
  <2>4. lookup4(s, h) = get(s.vals, k - 1)
    BY <1>6, <1>9, <2>2, <2>3
  <2>5. get(s.vals, k - 1) = L[es[k].vi + 1].val
    <3>1. m \in Nat /\ RowVals(s.vals, es, m, L, inter, t) /\ inter \in BOOLEAN
      BY <1>1
    <3>2. Reads(s.vals, es, m, L)
      BY ONLY <3>1, RowIs
    <3> QED
      BY <3>2 DEF Reads
  <2>6. AnswerIn(L, h) = L[es[k].vi + 1].val
    BY <1>1, <2>1, KeptIsLast
  <2> QED
    BY <2>4, <2>5, <2>6
<1>11. CASE \A k \in 1..m : ~SameAddr(es[k], h)
  <2>1. ASSUME NEW p \in run PROVE s.suffix[p + 1] # h.lo
    <3>1. p + 1 \in 1..m /\ (p + 1) - 1 = p
      BY <1>1, <1>7
    <3>2. es[p + 1].hi = h.hi
      BY <1>5, <3>1
    <3>3. es[p + 1].lo # h.lo
      BY <1>11, <3>1, <3>2 DEF SameAddr
    <3> QED
      BY <1>6, <3>1, <3>3
  <2>2. lookup4(s, h) = Miss
    BY <1>9, <2>1
  <2>3. AnswerIn(L, h) = Miss
    BY <1>1, <1>11, KeptIsLast
  <2> QED
    BY <2>2, <2>3
<1> QED
  BY <1>10, <1>11

\* The groups of the first c entries with 128-bit addresses, where the group
\* of prefix i has the entries from off[i]+1 to off[i+1].
Grouped6(s, off, es, c) ==
    /\ Len(s.suffix) = c /\ \A k \in 1..c : s.suffix[k] = es[k].lo
    /\ Divides(off, Len(s.prefix), c, 1)
    /\ \A i \in 1..Len(s.prefix) : \A k \in off[i] + 1 .. off[i + 1] : es[k].hi = s.prefix[i]
    /\ \A i \in 1..Len(s.prefix) - 1 : s.prefix[i] < s.prefix[i + 1]

(* The offsets while the fill loop runs, when the last group is still      *)
(* open, and after the sentinel closed it.                                 *)
Filling6(s, es, c)  == Len(s.pidx) = Len(s.prefix) /\ Grouped6(s, Append(s.pidx, c), es, c)
Offsets6(s, es, m) == Len(s.pidx) = Len(s.prefix) + 1 /\ Grouped6(s, s.pidx, es, m)

\* What one turn of the fill loop appends.
Appended6(s, es, c) ==
    LET e == es[c + 1]
        first == c = 0 \/ es[c].hi # e.hi
    IN [prefix |-> IF first THEN Append(s.prefix, e.hi) ELSE s.prefix,
        pidx   |-> IF first THEN Append(s.pidx, c) ELSE s.pidx,
        suffix |-> Append(s.suffix, e.lo)]

(* Append adds one element, at the end.                                    *)
LEMMA AppendIs ==
    ASSUME NEW S, NEW q \in Seq(S), NEW x \in S, NEW k \in Nat, Len(q) = k
    PROVE  /\ Append(q, x) \in Seq(S) /\ Len(Append(q, x)) = k + 1
           /\ Append(q, x)[k + 1] = x /\ \A i \in 1..k : Append(q, x)[i] = q[i]
  OBVIOUS

(* One turn of the fill loop of build6 keeps the groups: a further entry   *)
(* opens a group when its prefix differs from its predecessor's, and joins *)
(* the last group otherwise.                                               *)
LEMMA Filling6Adds ==
    ASSUME NEW es \in Seq(Entry), NEW m \in 0..Len(es), Strict(es, m),
           NEW c \in 0..m - 1, NEW s, s.prefix \in Seq(Nat), s.pidx \in Seq(Nat),
           s.suffix \in Seq(Nat), Filling6(s, es, c),
           NEW t, t.prefix = Appended6(s, es, c).prefix, t.pidx = Appended6(s, es, c).pidx,
           t.suffix = Appended6(s, es, c).suffix
    PROVE  Filling6(t, es, c + 1)
<1> DEFINE e == es[c + 1]
           np == Len(s.prefix)
           off == Append(s.pidx, c)
           new == Append(t.pidx, c + 1)
<1>1. c \in Nat /\ m \in Nat /\ np \in Nat /\ c + 1 \in 1..m
  OBVIOUS
<1>2. \A k \in 1..m : es[k].hi \in Nat /\ es[k].lo \in Nat
  <2>1. \A k \in 1..m : k \in 1..Len(es)
    OBVIOUS
  <2> QED BY <2>1, EntryIs, Zenon
<1>3. Len(s.pidx) = np /\ Len(s.suffix) = c
  BY DEF Filling6, Grouped6
<1>4. off \in Seq(Nat) /\ off[np + 1] = c /\ \A i \in 1..np : off[i] = s.pidx[i]
  BY <1>1, <1>3, AppendIs
<1>5. /\ \A k \in 1..c : s.suffix[k] = es[k].lo
      /\ Divides(off, np, c, 1)
      /\ \A i \in 1..np : \A k \in off[i] + 1 .. off[i + 1] : es[k].hi = s.prefix[i]
      /\ \A i \in 1..np - 1 : s.prefix[i] < s.prefix[i + 1]
  BY DEF Filling6, Grouped6
<1>6. /\ \A i \in 1..np + 1 : off[i] \in Nat
      /\ off[1] = 0 /\ \A i \in 1..np : off[i] + 1 <= off[i + 1]
  BY <1>5 DEF Divides
<1> HIDE DEF off
<1>7. Len(t.suffix) = c + 1 /\ \A k \in 1..c + 1 : t.suffix[k] = es[k].lo
  <2>1. t.suffix = Append(s.suffix, e.lo)
    BY DEF Appended6
  <2>2. e.lo \in Nat
    BY <1>1, <1>2
  <2>3. Len(t.suffix) = c + 1 /\ t.suffix[c + 1] = e.lo /\ \A k \in 1..c : t.suffix[k] = s.suffix[k]
    BY <1>3, <2>1, <2>2
  <2>4. \A k \in 1..c + 1 : k = c + 1 \/ k \in 1..c
    BY <1>1
  <2> QED
    BY <1>5, <2>3, <2>4
<1> HIDE DEF np
<1>8. np = 0 <=> c = 0
  <2>1. np = 0 => c = 0
    BY <1>4, <1>6
  <2>2. np # 0 => np \in 1..np /\ off[np] \in Nat /\ off[np] + 1 <= c
    <3>1. np # 0 => np \in 1..np /\ np \in 1..np + 1
      BY <1>1
    <3> QED
      BY <1>4, <1>6, <3>1
  <2> QED
    BY <1>1, <2>1, <2>2
<1>9. np # 0 => /\ np \in 1..np /\ c \in 1..m /\ es[c].hi = s.prefix[np]
                /\ es[c].hi <= e.hi
  <2> SUFFICES ASSUME np # 0
               PROVE  np \in 1..np /\ c \in 1..m /\ es[c].hi = s.prefix[np] /\ es[c].hi <= e.hi
    OBVIOUS
  <2>1. np \in 1..np /\ c \in 1..m /\ c < c + 1
    BY <1>1, <1>8
  <2>2. off[np] \in Nat /\ off[np] + 1 <= off[np + 1] /\ off[np + 1] = c
    <3>1. np \in 1..np + 1
      BY <1>1, <2>1
    <3> QED
      BY <1>4, <1>6, <2>1, <3>1
  <2>3. c \in off[np] + 1 .. off[np + 1]
    BY <1>1, <2>2
  <2>4. es[c].hi = s.prefix[np]
    BY <1>5, <2>1, <2>3
  <2>5. AddrLess(es[c], e)
    BY <1>1, <2>1 DEF Strict
  <2>6. es[c].hi <= e.hi
    BY <1>1, <1>2, <2>1, <2>5 DEF AddrLess
  <2> QED
    BY <2>1, <2>4, <2>6
<1>10. CASE c = 0 \/ es[c].hi # e.hi
  <2>1. t.prefix = Append(s.prefix, e.hi) /\ t.pidx = Append(s.pidx, c)
    BY <1>10 DEF Appended6
  <2>2. e.hi \in Nat
    BY <1>1, <1>2
  <2>3. /\ Len(t.prefix) = np + 1 /\ t.prefix[np + 1] = e.hi
        /\ \A i \in 1..np : t.prefix[i] = s.prefix[i]
    BY <1>1, <2>1, <2>2, AppendIs DEF np
  <2>4. Len(t.pidx) = np + 1 /\ t.pidx = off /\ t.pidx \in Seq(Nat)
    BY <1>1, <1>3, <2>1, AppendIs DEF off
  <2>5. new[(np + 1) + 1] = c + 1 /\ \A i \in 1..np + 1 : new[i] = off[i]
    <3>1. np + 1 \in Nat /\ c + 1 \in Nat
      BY <1>1
    <3> QED
      BY <2>4, <3>1, AppendIs
  <2> HIDE DEF new, e
  <2>6. new[np + 2] = c + 1 /\ \A i \in 1..np + 1 : new[i] = off[i]
    <3>1. np + 2 = (np + 1) + 1
      BY <1>1
    <3> QED
      BY <2>5, <3>1
  <2>7. Divides(new, np + 1, c + 1, 1)
    <3>1. \A i \in 1..(np + 1) + 1 : i = np + 2 \/ i \in 1..np + 1
      BY <1>1
    <3>2. \A i \in 1..(np + 1) + 1 : new[i] \in Nat
      <4>1. c + 1 \in Nat
        BY <1>1
      <4> QED
        BY <1>6, <2>6, <3>1, <4>1
    <3>3. new[1] = 0
      BY <1>1, <1>6, <2>6
    <3>4. new[(np + 1) + 1] = c + 1
      BY <1>1, <2>6
    <3>5. ASSUME NEW i \in 1..np + 1
          PROVE  new[i] + 1 <= new[i + 1]
      <4>1. CASE i = np + 1
        <5>1. new[i] = c /\ new[i + 1] = c + 1
          BY <1>1, <1>4, <2>6, <4>1
        <5> QED
          BY <1>1, <5>1
      <4>2. CASE i # np + 1
        <5>1. i \in 1..np /\ i + 1 \in 1..np + 1
          BY <1>1, <4>2
        <5> QED
          BY <1>6, <2>6, <5>1
      <4> QED
        BY <4>1, <4>2
    <3> QED
      BY <3>2, <3>3, <3>4, <3>5 DEF Divides
  <2>8. ASSUME NEW i \in 1..np + 1, NEW k \in new[i] + 1 .. new[i + 1]
        PROVE  es[k].hi = t.prefix[i]
    <3>1. CASE i = np + 1
      <4>1. new[i] = c /\ new[i + 1] = c + 1
        BY <1>1, <1>4, <2>6, <3>1, SMTT(40)
      <4>2. k = c + 1
        BY <1>1, <4>1
      <4> QED
        BY <2>3, <3>1, <4>2 DEF e
    <3>2. CASE i # np + 1
      <4>1. i \in 1..np /\ i \in 1..np + 1 /\ i + 1 \in 1..np + 1
        BY <1>1, <3>2
      <4>2. new[i] = off[i] /\ new[i + 1] = off[i + 1]
        BY <2>6, <4>1
      <4> QED
        BY <1>5, <2>3, <4>1, <4>2
    <3> QED
      BY <3>1, <3>2
  <2>9. ASSUME NEW i \in 1..(np + 1) - 1
        PROVE  t.prefix[i] < t.prefix[i + 1]
    <3>1. i \in 1..np
      BY <1>1
    <3>2. CASE i = np
      <4>1. np # 0 /\ c # 0
        BY <1>1, <1>8, <3>1, <3>2
      <4>2. es[c].hi = s.prefix[np] /\ es[c].hi <= e.hi /\ es[c].hi # e.hi /\ c \in 1..m
        BY <1>9, <1>10, <4>1
      <4>3. s.prefix[np] < e.hi
        BY <1>2, <2>2, <4>2
      <4> QED
        BY <2>3, <3>1, <3>2, <4>3
    <3>3. CASE i # np
      <4>1. i \in 1..np - 1 /\ i + 1 \in 1..np
        BY <1>1, <3>1, <3>3
      <4> QED
        BY <1>5, <2>3, <3>1, <4>1
    <3> QED
      BY <3>2, <3>3
  <2>10. Grouped6(t, new, es, c + 1)
    BY <1>7, <2>3, <2>7, <2>8, <2>9 DEF Grouped6
  <2> QED
    BY <2>3, <2>4, <2>10 DEF Filling6, new
<1>11. CASE c # 0 /\ es[c].hi = e.hi
  <2>1. t.prefix = s.prefix /\ t.pidx = s.pidx
    BY <1>11 DEF Appended6
  <2>2. new[np + 1] = c + 1 /\ \A i \in 1..np : new[i] = off[i]
    <3>1. c + 1 \in Nat
      BY <1>1
    <3>2. new[np + 1] = c + 1 /\ \A i \in 1..np : new[i] = s.pidx[i]
      <4>1. t.pidx \in Seq(Nat) /\ Len(t.pidx) = np
        BY <1>3, <2>1
      <4>2. np \in Nat
        BY <1>1
      <4>3. new[np + 1] = c + 1 /\ \A i \in 1..np : new[i] = t.pidx[i]
        BY ONLY <3>1, <4>1, <4>2, AppendIs
      <4> QED
        BY <2>1, <4>3
    <3> QED
      BY <1>4, <3>2
  <2>3. np # 0
    BY <1>8, <1>11
  <2>4. Len(t.prefix) = np /\ Len(t.pidx) = np
    BY <1>3, <2>1 DEF np
  <2> HIDE DEF new, e
  <2>5. np \in 1..np /\ off[np] \in Nat /\ off[np] + 1 <= c
    BY <1>1, <1>4, <1>6, <2>3
  <2>6. Divides(new, np, c + 1, 1)
    <3>1. \A i \in 1..np + 1 : i = np + 1 \/ i \in 1..np
      BY <1>1
    <3>2. \A i \in 1..np + 1 : new[i] \in Nat
      <4>1. c + 1 \in Nat /\ \A i \in 1..np : i \in 1..np + 1
        BY <1>1
      <4> QED
        BY <1>6, <2>2, <3>1, <4>1
    <3>3. new[1] = 0
      BY <1>1, <1>6, <2>2, <2>5
    <3>4. ASSUME NEW i \in 1..np
          PROVE  new[i] + 1 <= new[i + 1]
      <4>1. CASE i = np
        <5>1. new[i] = off[np] /\ new[i + 1] = c + 1
          BY <2>2, <4>1
        <5> QED
          BY <1>1, <2>5, <5>1
      <4>2. CASE i # np
        <5>1. i \in 1..np /\ i + 1 \in 1..np
          BY <1>1, <4>2
        <5> QED
          BY <1>6, <2>2, <5>1
      <4> QED
        BY <4>1, <4>2
    <3> QED
      BY <2>2, <3>2, <3>3, <3>4 DEF Divides
  <2>7. ASSUME NEW i \in 1..np, NEW k \in new[i] + 1 .. new[i + 1]
        PROVE  es[k].hi = t.prefix[i]
    <3>1. CASE i = np
      <4>1. new[i] = off[np] /\ new[i + 1] = c + 1 /\ off[np + 1] = c
        BY <1>4, <2>2, <3>1
      <4>2. k \in off[np] + 1 .. c + 1
        BY <4>1
      <4>3. CASE k = c + 1
        <5>1. es[k].hi = e.hi
          BY <4>3 DEF e
        <5> QED
          BY <1>9, <1>11, <2>1, <2>3, <3>1, <5>1
      <4>4. CASE k # c + 1
        <5>1. k \in off[np] + 1 .. off[np + 1]
          BY <1>1, <2>5, <4>1, <4>2, <4>4
        <5> QED
          BY <1>5, <2>1, <2>5, <3>1, <5>1
      <4> QED
        BY <4>3, <4>4
    <3>2. CASE i # np
      <4>1. i \in 1..np /\ i + 1 \in 1..np
        BY <1>1, <3>2
      <4>2. new[i] = off[i] /\ new[i + 1] = off[i + 1]
        BY <2>2, <4>1
      <4> QED
        BY <1>5, <2>1, <4>1, <4>2
    <3> QED
      BY <3>1, <3>2
  <2>8. Grouped6(t, new, es, c + 1)
    <3>1. \A i \in 1..np - 1 : t.prefix[i] < t.prefix[i + 1]
      BY <1>5, <2>1
    <3> QED
      BY <1>7, <2>4, <2>6, <2>7, <3>1 DEF Grouped6
  <2> QED
    BY <2>4, <2>8 DEF Filling6, new
<1> QED
  BY <1>10, <1>11

(* The suffixes of one group of a 128-bit store ascend (build6).           *)
LEMMA Ascend6 ==
    ASSUME NEW es \in Seq(Entry), NEW m \in 0..Len(es), Strict(es, m), NEW s, Offsets6(s, es, m)
    PROVE  Ascend(s.pidx, Len(s.prefix), s.suffix)
<1> DEFINE np == Len(s.prefix)
           off == s.pidx
<1>1. /\ \A k \in 1..m : s.suffix[k] = es[k].lo
      /\ Divides(off, np, m, 1)
      /\ \A i \in 1..np : \A k \in off[i] + 1 .. off[i + 1] : es[k].hi = s.prefix[i]
  BY DEF Offsets6, Grouped6
<1>2. np \in Nat /\ m \in Nat
  <2>1. Len(off) = np + 1 /\ np + 1 \in Nat /\ np \in Int
    BY <1>1 DEF Offsets6
  <2> QED
    BY <2>1
<1>3. \A k \in 1..m : es[k].hi \in Nat /\ es[k].lo \in Nat
  BY EntryIs
<1> HIDE DEF np, off
<1>4. \A i \in 1..np + 1 : off[i] \in 0..m
  BY <1>1, <1>2, OffsetsClimb, 1 \in Nat
<1>5. ASSUME NEW i \in 1..np, NEW j \in off[i] + 1 .. off[i + 1] - 1
      PROVE  s.suffix[j] < s.suffix[j + 1]
  <2>1. off[i] \in 0..m /\ off[i + 1] \in 0..m
    <3>1. i \in 1..np + 1 /\ i + 1 \in 1..np + 1
      BY <1>2
    <3> QED
      BY <1>4, <3>1
  <2>2. /\ j \in 1..m /\ j + 1 \in 1..m /\ j < j + 1
        /\ j \in off[i] + 1 .. off[i + 1] /\ j + 1 \in off[i] + 1 .. off[i + 1]
    BY <1>2, <2>1
  <2>3. es[j].hi = s.prefix[i] /\ es[j + 1].hi = s.prefix[i]
    BY <1>1, <2>2
  <2>4. AddrLess(es[j], es[j + 1])
    BY <2>2 DEF Strict
  <2>5. es[j].lo < es[j + 1].lo
    BY <1>3, <2>2, <2>3, <2>4 DEF AddrLess
  <2> QED
    BY <1>1, <2>2, <2>5
<1>6. Ascend(off, np, s.suffix)
  BY <1>5 DEF Ascend
<1> QED
  BY <1>6 DEF off, np

(* A 128-bit store with these prefixes, offsets, suffixes and rows         *)
(* answers, for every address, the value of its host's last put, or a miss *)
(* when the host has none (lookup6 in store.go).                           *)
LEMMA Answers6 ==
    ASSUME NEW L \in Seq(PutRecords), NEW es \in Seq(Entry), NEW m \in 0..Len(es),
           Strict(es, m), Owns(L, es, 1..m, "v6"),
           NEW s, s.prefix \in Seq(Nat), Offsets6(s, es, m),
           NEW inter \in BOOLEAN, NEW t, RowVals(s.vals, es, m, L, inter, t),
           NEW h \in AddrKey, h.kind = "v6"
    PROVE  lookup6(s, h) = AnswerIn(L, h)
<1> DEFINE np == Len(s.prefix)
           off == s.pidx
<1>1. m \in Nat /\ np \in Nat /\ \A i \in 1..np : s.prefix[i] \in Nat
  OBVIOUS
<1>2. h.hi \in Nat /\ h.lo \in Nat
  BY DEF AddrKey
<1>3. \A k \in 1..m : es[k].hi \in Nat /\ es[k].lo \in Nat
  BY EntryIs
<1>4. /\ Len(s.suffix) = m /\ \A k \in 1..m : s.suffix[k] = es[k].lo
      /\ Divides(off, np, m, 1)
      /\ \A i \in 1..np : \A k \in off[i] + 1 .. off[i + 1] : es[k].hi = s.prefix[i]
      /\ \A i \in 1..np - 1 : s.prefix[i] < s.prefix[i + 1]
  BY DEF Offsets6, Grouped6
<1>5. Ascend(off, np, s.suffix)
  BY Ascend6
<1>6. \A j \in 1..m : s.suffix[j] \in Nat
  BY <1>3, <1>4
<1>7. /\ \A i \in 1..np : \A p \in off[i] .. off[i + 1] - 1 :
            s.prefix[i] = h.hi /\ s.suffix[p + 1] = h.lo => lookup6(s, h) = get(s.vals, p)
      /\ (\A i \in 1..np : \A p \in off[i] .. off[i + 1] - 1 :
            ~(s.prefix[i] = h.hi /\ s.suffix[p + 1] = h.lo)) => lookup6(s, h) = Miss
  <2>1. Len(s.prefix) = np
    OBVIOUS
  <2> HIDE DEF np
  <2> QED
    BY <1>1, <1>2, <1>4, <1>5, <1>6, <2>1, Lookup6Finds
<1> HIDE DEF np, off
<1>8. \A i \in 1..np + 1 : off[i] \in 0..m
  BY <1>1, <1>4, OffsetsClimb, 1 \in Nat
<1>9. CASE \E k \in 1..m : SameAddr(es[k], h)
  <2>1. PICK k \in 1..m : SameAddr(es[k], h)
    BY <1>9
  <2>2. es[k].hi = h.hi /\ es[k].lo = h.lo
    BY <2>1 DEF SameAddr
  <2>3. k - 1 \in 0..m - 1 /\ (k - 1) + 1 = k
    BY <1>1
  <2>4. PICK i \in 1..np : k - 1 \in off[i] .. off[i + 1] - 1
    BY <1>1, <1>4, <2>3, RowHasGroup, 1 \in Nat, ZenonT(60)
  <2>5. off[i] \in 0..m /\ off[i + 1] \in 0..m
    <3>1. i \in 1..np + 1 /\ i + 1 \in 1..np + 1
      BY <1>1
    <3> QED
      BY <1>8, <3>1
  <2>6. k \in off[i] + 1 .. off[i + 1]
    BY <1>1, <2>4, <2>5
  <2>7. s.prefix[i] = h.hi /\ s.suffix[k] = h.lo
    BY <1>4, <2>2, <2>6
  <2>8. lookup6(s, h) = get(s.vals, k - 1)
    BY <1>7, <2>3, <2>4, <2>7
  <2>9. get(s.vals, k - 1) = L[es[k].vi + 1].val
    <3>1. m \in Nat /\ RowVals(s.vals, es, m, L, inter, t) /\ inter \in BOOLEAN
      BY <1>1
    <3>2. Reads(s.vals, es, m, L)
      BY ONLY <3>1, RowIs
    <3> QED
      BY <3>2 DEF Reads
  <2>10. AnswerIn(L, h) = L[es[k].vi + 1].val
    BY <1>1, <2>1, KeptIsLast
  <2> QED
    BY <2>8, <2>9, <2>10
<1>10. CASE \A k \in 1..m : ~SameAddr(es[k], h)
  <2>1. ASSUME NEW i \in 1..np, NEW p \in off[i] .. off[i + 1] - 1
        PROVE  ~(s.prefix[i] = h.hi /\ s.suffix[p + 1] = h.lo)
    <3>1. off[i] \in 0..m /\ off[i + 1] \in 0..m
      <4>1. i \in 1..np + 1 /\ i + 1 \in 1..np + 1
        BY <1>1
      <4> QED
        BY <1>8, <4>1
    <3>2. p + 1 \in 1..m /\ p + 1 \in off[i] + 1 .. off[i + 1]
      BY <1>1, <3>1, SMTT(40)
    <3>3. es[p + 1].hi = s.prefix[i] /\ s.suffix[p + 1] = es[p + 1].lo
      BY <1>4, <3>2
    <3>4. ~SameAddr(es[p + 1], h)
      BY <1>10, <3>2
    <3> QED
      BY <3>3, <3>4 DEF SameAddr
  <2>2. lookup6(s, h) = Miss
    BY <1>7, <2>1
  <2>3. AnswerIn(L, h) = Miss
    BY <1>1, <1>10, KeptIsLast
  <2> QED
    BY <2>2, <2>3
<1> QED
  BY <1>9, <1>10

(* The offsets and suffixes build4 leaves pass the checks Open makes of a  *)
(* 32-bit store (validate.go).                                             *)
LEMMA Valid4 ==
    ASSUME NEW es \in Seq(Entry), NEW m \in 0..Len(es), m <= MaxU32, Strict(es, m), Small(es, m),
           NEW s, Offsets4(s, es, m), (Groups4 - 1) * Octets < MaxU32
    PROVE  checkGroups(s.idx, s.suffix, m, 0) = "ok"
<1>1. Groups4 \in Nat /\ MaxU32 \in Nat /\ m \in 0..MaxU32 /\ 0 \in Nat
  BY WidthAssumption
<1>2. Len(s.idx) = Groups4 + 1 /\ Len(s.suffix) = m
  BY DEF Offsets4
<1>3. Divides(s.idx, Groups4, m, 0) /\ Ascend(s.idx, Groups4, s.suffix)
  BY Divides4
<1>4. \A i \in 1..Groups4 : s.idx[i] < MaxU32
  BY BeginsBelow
<1>5. \A j \in 1..m : s.suffix[j] \in Int
  <2>1. \A j \in 1..m : es[j].lo \in Nat
    BY EntryIs
  <2> QED
    BY <2>1 DEF Offsets4
<1> QED
  BY <1>1, <1>2, <1>3, <1>4, <1>5, GroupsAcceptable

(* The offsets, prefixes and suffixes build6 leaves pass the checks Open   *)
(* makes of a 128-bit store (validate.go).                                 *)
LEMMA Valid6 ==
    ASSUME NEW es \in Seq(Entry), NEW m \in 0..Len(es), m <= MaxU32, Strict(es, m),
           NEW s, s.prefix \in Seq(Nat), Offsets6(s, es, m)
    PROVE  checkGroups(s.pidx, s.suffix, m, 1) = "ok" /\ prefixOrder(s.prefix) = "ok"
<1> DEFINE np == Len(s.prefix)
           off == s.pidx
<1>1. np \in Nat /\ MaxU32 \in Nat /\ m \in 0..MaxU32 /\ 1 \in Nat
  BY WidthAssumption
<1>2. /\ Len(off) = np + 1 /\ Len(s.suffix) = m /\ \A k \in 1..m : s.suffix[k] = es[k].lo
      /\ Divides(off, np, m, 1)
      /\ \A i \in 1..np - 1 : s.prefix[i] < s.prefix[i + 1]
  BY DEF Offsets6, Grouped6
<1>3. Ascend(off, np, s.suffix)
  BY Ascend6
<1> HIDE DEF np, off
<1>4. \A i \in 1..np + 1 : off[i] \in 0..m
  BY <1>1, <1>2, OffsetsClimb
<1>5. \A i \in 1..np : off[i] < MaxU32
  <2> SUFFICES ASSUME NEW i \in 1..np PROVE off[i] < MaxU32
    OBVIOUS
  <2>1. i \in 1..np + 1 /\ i + 1 \in 1..np + 1
    BY <1>1
  <2>2. off[i] + 1 <= off[i + 1]
    BY <1>2 DEF Divides
  <2>3. off[i] \in 0..m /\ off[i + 1] \in 0..m
    BY <1>4, <2>1
  <2> QED
    BY <1>1, <2>2, <2>3
<1>6. \A j \in 1..m : s.suffix[j] \in Int
  <2>1. \A j \in 1..m : es[j].lo \in Nat
    BY EntryIs
  <2> QED
    BY <1>2, <2>1
<1>7. checkGroups(off, s.suffix, m, 1) = "ok"
  BY <1>1, <1>2, <1>3, <1>5, <1>6, GroupsAcceptable
<1>8. \A i \in 2..np : s.prefix[i - 1] < s.prefix[i]
  <2> SUFFICES ASSUME NEW i \in 2..np PROVE s.prefix[i - 1] < s.prefix[i]
    OBVIOUS
  <2>1. i - 1 \in 1..np - 1 /\ (i - 1) + 1 = i
    BY <1>1
  <2>2. s.prefix[i - 1] < s.prefix[(i - 1) + 1]
    BY <1>2, <2>1
  <2> QED
    BY <2>1, <2>2
<1>9. prefixOrder(s.prefix) = "ok"
  BY <1>8 DEF prefixOrder, np
<1> QED
  BY <1>7, <1>9 DEF off

(* Rows that hold ids of the table pass the check Open makes of them       *)
(* (checkIDs in validate.go).                                              *)
LEMMA ValidIDs ==
    ASSUME NEW v, NEW es, NEW m \in Nat, NEW L, NEW t, Len(t) \in Nat,
           RowVals(v, es, m, L, TRUE, t)
    PROVE  checkIDs(v, m, Len(t)) = "ok"
<1>1. \A k \in 1..m : Unpack(v.ids[k]) \in 0..Len(t) - 1
  BY DEF RowVals
<1>2. \A k \in 1..m : Unpack(v.ids[k]) < Len(t)
  BY <1>1
<1> QED
  BY <1>2 DEF checkIDs

(***************************************************************************)
(* What the state of a build means.                                        *)
(***************************************************************************)

\* The history has one put per accepted Add.
Logged == n = Len(log) /\ \A q \in DOMAIN log : log[q].host \in AllHosts

\* Every accepted Add has its value until the intermediates are released.
Recalled ==
    pc # "done" =>
      \A q \in DOMAIN log : IF intern THEN tab[ids[q] + 1] = log[q].val
                                      ELSE vals[q] = log[q].val

\* The table lists every value once, and byVal is its inverse.
Tabled ==
    intern /\ pc # "done" =>
      /\ DOMAIN byVal = {log[q].val : q \in DOMAIN log}
      /\ \A x \in DOMAIN byVal : tab[byVal[x] + 1] = x
      /\ \A i \in 1..Len(tab) : tab[i] \in DOMAIN byVal /\ byVal[tab[i]] = i - 1

(* The statistics of the values: the table has every value ever added,     *)
(* once, and Build counted them when it was called.                        *)
Counted ==
    /\ intern => Len(tab) = Cardinality({log[q].val : q \in DOMAIN log})
    /\ built => stats.Distinct = IF intern THEN Len(tab) ELSE 0

(* Every accepted Add finds its value again, by itself or through the      *)
(* table.                                                                  *)
ValuesKept == Logged /\ Recalled /\ Tabled /\ Counted

\* The entries of each family that still count.
Held4 == IF pc \in {"open", "sort4"} THEN DOMAIN v4
         ELSE IF pc = "dedupe4" THEN Unsettled(v4) ELSE 1..stats.Addrs4
Held6 == IF pc = "dedupe6" THEN Unsettled(v6)
         ELSE IF pc \in {"fill6", "release"} THEN 1..stats.Addrs6 ELSE DOMAIN v6

(* The 32-bit entries: their words are those of 32-bit addresses, they own *)
(* the puts of the family in every phase, and they are in order from the   *)
(* dedupe loop on.                                                         *)
Entries4 ==
    /\ pc # "done" => Small(v4, Len(v4)) /\ Owns(log, v4, Held4, "v4")
    /\ pc = "dedupe4" => Deduping(v4, kept, at)
    /\ pc \notin {"open", "sort4", "dedupe4", "done"} =>
          stats.Addrs4 <= Len(v4) /\ Strict(v4, stats.Addrs4)
    /\ pc \in {"count4", "sum4", "fill4"} => kept = stats.Addrs4 /\ kept > 0

(* The 128-bit entries: they own the puts of the family in every phase,    *)
(* and they are in order from the dedupe loop on.                          *)
Entries6 ==
    /\ pc # "done" => Owns(log, v6, Held6, "v6")
    /\ pc = "dedupe6" => Deduping(v6, kept, at)
    /\ pc \in {"fill6", "release"} =>
          kept = stats.Addrs6 /\ kept <= Len(v6) /\ Strict(v6, kept)

\* The 32-bit store, from the counts of its groups to its last row.
Stored4 ==
    /\ pc \in {"open", "sort4", "dedupe4", "count4"} => s4 = Nil4
    /\ pc = "sum4" =>
          /\ at \in 2..Groups4 + 2 /\ Len(s4.idx) = Groups4 + 1 /\ s4.suffix = <<>>
          /\ \A i \in 1..Groups4 + 1 :
                s4.idx[i] = IF i < at THEN Below(v4, kept, i) ELSE Exactly(v4, kept, i)
          /\ RowVals(s4.vals, v4, 0, log, intern, tab)
    /\ pc = "fill4" =>
          /\ at <= kept + 1 /\ Len(s4.idx) = Groups4 + 1
          /\ \A i \in 1..Groups4 + 1 : s4.idx[i] = Below(v4, kept, i)
          /\ Len(s4.suffix) = at - 1 /\ \A k \in 1..at - 1 : s4.suffix[k] = v4[k].lo
          /\ RowVals(s4.vals, v4, at - 1, log, intern, tab)
    /\ pc \in {"sort6", "dedupe6", "fill6", "release"} =>
          IF stats.Addrs4 = 0 THEN s4 = Nil4
          ELSE /\ Offsets4(s4, v4, stats.Addrs4)
               /\ RowVals(s4.vals, v4, stats.Addrs4, log, intern, tab)

(* The 128-bit store, while it is filled and after its sentinel.           *)
Stored6 ==
    /\ pc = "fill6" => /\ at <= kept + 1 /\ Filling6(s6, v6, at - 1)
                       /\ RowVals(s6.vals, v6, at - 1, log, intern, tab)
    /\ pc = "release" => /\ Offsets6(s6, v6, kept)
                         /\ RowVals(s6.vals, v6, kept, log, intern, tab)

(* The finished Map: each store answers every address of its family, added *)
(* or not, with the last put of its host, and the checks of Open pass.     *)
Serves ==
    pc = "done" =>
      /\ \A h \in AddrKey : /\ h.kind = "v4" /\ h.hi < Groups4 => lookup4(s4, h) = AnswerIn(log, h)
                            /\ h.kind = "v6" => lookup6(s6, h) = AnswerIn(log, h)
      /\ (Groups4 - 1) * Octets < MaxU32 => validate(stats, s4, s6) = "ok"

(* What the state of a build means, phase by phase.  TypeOK and            *)
(* Bookkeeping say that the arrays are aligned; this says what is in them. *)
(* None of the properties of the finished Map is inductive: each is a      *)
(* statement about the last state only, and holds there because every      *)
(* earlier phase kept the puts.                                            *)
FInv == ValuesKept /\ Entries4 /\ Entries6 /\ Stored4 /\ Stored6 /\ Serves

-----------------------------------------------------------------------------
(* Steps that leave a part alone.                                          *)

(* A step of Build before its return that leaves the values alone keeps    *)
(* what they mean.                                                         *)
LEMMA ValuesStay ==
    ASSUME ValuesKept, UNCHANGED <<intern, n, valstate, log, built>>,
           stats'.Distinct = stats.Distinct, pc # "done", pc' # "done"
    PROVE  ValuesKept'
  BY DEF ValuesKept, Logged, Recalled, Tabled, Counted, valstate, AllHosts

(* The phases in which the 32-bit store is complete.                       *)
Later4 == {"sort6", "dedupe6", "fill6", "release"}

(* Once the 32-bit store is filled, the steps of build6 keep it and the    *)
(* entries it stands for.                                                  *)
LEMMA FourStays ==
    ASSUME Entries4, Stored4, UNCHANGED <<intern, tab, v4, log, s4>>,
           stats'.Addrs4 = stats.Addrs4, pc \in Later4, pc' \in Later4
    PROVE  Entries4' /\ Stored4'
<1>1. /\ Small(v4, Len(v4)) /\ Owns(log, v4, 1..stats.Addrs4, "v4")
      /\ stats.Addrs4 <= Len(v4) /\ Strict(v4, stats.Addrs4)
  BY DEF Entries4, Held4, Later4
<1>2. IF stats.Addrs4 = 0 THEN s4 = Nil4
      ELSE /\ Offsets4(s4, v4, stats.Addrs4)
           /\ RowVals(s4.vals, v4, stats.Addrs4, log, intern, tab)
  BY DEF Stored4, Later4
<1>3. Held4' = 1..stats.Addrs4
  BY DEF Held4, Later4
<1>4. Entries4'
  BY <1>1, <1>3 DEF Entries4, Later4
<1>5. Stored4'
  BY <1>2 DEF Stored4, Later4
<1> QED
  BY <1>4, <1>5

(* The phases before the 128-bit entries are sorted.                       *)
Earlier6 == {"open", "sort4", "dedupe4", "count4", "sum4", "fill4", "sort6"}

(* Until the 128-bit entries are sorted, the steps of build4 keep them.    *)
LEMMA SixStays ==
    ASSUME Entries6, UNCHANGED <<v6, log>>, pc \in Earlier6, pc' \in Earlier6
    PROVE  Entries6' /\ Stored6'
<1>1. Owns(log, v6, DOMAIN v6, "v6")
  BY DEF Entries6, Held6, Earlier6
<1>2. Held6' = DOMAIN v6
  BY DEF Held6, Earlier6
<1>3. Entries6'
  BY <1>1, <1>2 DEF Entries6, Earlier6
<1>4. Stored6'
  BY DEF Stored6, Earlier6
<1> QED
  BY <1>3, <1>4

(* An empty Builder means an empty dictionary (NewBuilder).                *)
LEMMA InitFInv == Init => FInv
<1> SUFFICES ASSUME Init PROVE FInv
  OBVIOUS
<1>1. DOMAIN log = {} /\ DOMAIN v4 = {} /\ DOMAIN v6 = {} /\ Len(tab) = 0 /\ DOMAIN byVal = {} /\ Len(log) = 0 /\ Len(v4) = 0
  BY DEF Init
<1>2. {log[q].val : q \in DOMAIN log} = {}
  BY <1>1
<1>3. ValuesKept
  BY <1>1, <1>2, FS_EmptySet DEF Init, ValuesKept, Logged, Recalled, Tabled, Counted
<1>4. \A kind : Owns(log, v4, DOMAIN v4, kind) /\ Owns(log, v6, DOMAIN v6, kind)
  BY <1>1 DEF Owns
<1>5. Held4 = DOMAIN v4 /\ Held6 = DOMAIN v6
  BY DEF Init, Held4, Held6
<1>6. Small(v4, Len(v4))
  BY <1>1 DEF Small
<1>7. Entries4 /\ Entries6
  BY <1>4, <1>5, <1>6 DEF Init, Entries4, Entries6
<1>8. Stored4 /\ Stored6 /\ Serves
  BY DEF Init, Stored4, Stored6, Serves
<1> QED
  BY <1>3, <1>7, <1>8 DEF FInv

(* A step that touches neither the Builder nor the Map (a refused Add, a   *)
(* misuse, stuttering) keeps what they mean.                               *)
LEMMA QuietFInv ==
    ASSUME FInv, UNCHANGED <<intern, entries, n, built, valstate, mapstate, pc, loop, log>>
    PROVE  FInv'
<1> USE DEF entries, valstate, mapstate, loop
<1>1. ValuesKept'
  BY DEF FInv, ValuesKept, Logged, Recalled, Tabled, Counted, AllHosts
<1>2. Held4' = Held4 /\ Held6' = Held6
  BY DEF Held4, Held6, Unsettled
<1>3. Entries4' /\ Entries6'
  BY <1>2 DEF FInv, Entries4, Entries6
<1>4. Stored4' /\ Stored6'
  BY DEF FInv, Stored4, Stored6
<1>5. Serves'
  BY DEF FInv, Serves
<1> QED
  BY <1>1, <1>3, <1>4, <1>5 DEF FInv

(* Calling Build counts the distinct values, and leaves the entries as Add *)
(* left them (Build in builder.go).                                        *)
LEMMA BuildFInv == ASSUME IInv, FInv, Build PROVE FInv'
<1>1. pc = "open" /\ pc' = "sort4" /\ built'
  BY DEF Build, Goto, IInv, TypeOK
<1>2. /\ UNCHANGED <<intern, v4, v6, n, vals, tab, byVal, ids, s4, s6, log, at, kept>>
      /\ stats' = [stats EXCEPT !.Distinct = IF intern THEN Cardinality(DOMAIN byVal) ELSE 0]
  BY DEF Build, entries, valstate, loop
<1>3. stats'.Distinct = IF intern THEN Len(tab) ELSE 0
  BY <1>1, <1>2 DEF IInv, TypeOK, Bookkeeping, Statistics
<1>4. ValuesKept'
  BY <1>1, <1>2, <1>3 DEF FInv, ValuesKept, Logged, Recalled, Tabled, Counted, AllHosts
<1>5. Held4' = DOMAIN v4 /\ Held4 = DOMAIN v4
  BY <1>1, <1>2 DEF Held4
<1>6. Entries4'
  BY <1>1, <1>2, <1>5 DEF FInv, Entries4
<1>7. Stored4'
  BY <1>1, <1>2 DEF FInv, Stored4
<1>8. Entries6' /\ Stored6'
  BY <1>1, <1>2, SixStays DEF FInv, Earlier6
<1>9. Serves'
  BY <1>1 DEF Serves
<1> QED
  BY <1>4, <1>6, <1>7, <1>8, <1>9 DEF FInv

(* When Build returns, the two stores answer every address of either       *)
(* family with the last put of its host, and pass the checks of Open:      *)
(* nothing they need is released with the intermediates (Build in          *)
(* builder.go).                                                            *)
LEMMA ReleaseFInv == ASSUME IInv, FInv, Release PROVE FInv'
<1>1. pc = "release" /\ pc' = "done" /\ built' = built /\ kept = stats.Addrs6
  BY DEF Release, Goto, FInv, Entries6
<1>2. UNCHANGED <<intern, n, tab, stats, s4, s6, log>>
  BY DEF Release, mapstate
<1>3. /\ v4 \in Seq(Entry) /\ v6 \in Seq(Entry) /\ log \in Seq(PutRecords) /\ intern \in BOOLEAN
      /\ stats.Addrs4 \in Nat /\ stats.Addrs6 \in Nat /\ s6.prefix \in Seq(Nat) /\ Len(tab) \in Nat
      /\ n \in Nat /\ n <= MaxU32 /\ MaxU32 \in Nat
  BY WidthAssumption DEF IInv, TypeOK, PutRecords, Statistics, Store6
<1>4. ValuesKept'
  BY <1>1, <1>2 DEF FInv, ValuesKept, Logged, Recalled, Tabled, Counted, AllHosts
<1>5. /\ Small(v4, Len(v4)) /\ Owns(log, v4, 1..stats.Addrs4, "v4")
      /\ stats.Addrs4 <= Len(v4) /\ Strict(v4, stats.Addrs4)
      /\ Owns(log, v6, 1..stats.Addrs6, "v6") /\ stats.Addrs6 <= Len(v6) /\ Strict(v6, stats.Addrs6)
  BY <1>1 DEF FInv, Entries4, Entries6, Held4, Held6
<1>6. stats.Addrs4 \in 0..Len(v4) /\ stats.Addrs6 \in 0..Len(v6)
  BY <1>3, <1>5
<1>7. stats.Addrs4 <= MaxU32 /\ stats.Addrs6 <= MaxU32
  <2>1. Len(v4) + Len(v6) = n /\ Len(v4) \in Nat /\ Len(v6) \in Nat
    BY <1>1, <1>3 DEF IInv, Bookkeeping
  <2> QED
    BY <1>3, <1>6, <2>1
<1>8. Small(v4, stats.Addrs4)
  BY <1>3, <1>5, <1>6 DEF Small
<1>9. IF stats.Addrs4 = 0 THEN s4 = Nil4
      ELSE Offsets4(s4, v4, stats.Addrs4) /\ RowVals(s4.vals, v4, stats.Addrs4, log, intern, tab)
  BY <1>1 DEF FInv, Stored4
<1>10. Offsets6(s6, v6, stats.Addrs6) /\ RowVals(s6.vals, v6, stats.Addrs6, log, intern, tab)
  BY <1>1 DEF FInv, Stored6
<1>11. ASSUME NEW h \in AddrKey
       PROVE  /\ h.kind = "v4" /\ h.hi < Groups4 => lookup4(s4, h) = AnswerIn(log, h)
              /\ h.kind = "v6" => lookup6(s6, h) = AnswerIn(log, h)
  <2>1. ASSUME h.kind = "v4", h.hi < Groups4, stats.Addrs4 = 0
        PROVE  lookup4(s4, h) = AnswerIn(log, h)
    <3>1. \A k \in 1..stats.Addrs4 : ~SameAddr(v4[k], h)
      BY <2>1
    <3>2. AnswerIn(log, h) = Miss
      BY <1>3, <1>5, <1>6, <2>1, <3>1, KeptIsLast
    <3>3. s4.idx = <<>>
      BY <1>9, <2>1 DEF Nil4
    <3> QED
      BY <3>2, <3>3 DEF lookup4
  <2>2. ASSUME h.kind = "v4", h.hi < Groups4, stats.Addrs4 # 0
        PROVE  lookup4(s4, h) = AnswerIn(log, h)
    <3>1. stats.Addrs4 \in 1..Len(v4)
      BY <1>3, <1>6, <2>2
    <3> QED
      BY <1>3, <1>5, <1>8, <1>9, <2>2, <3>1, Answers4
  <2>3. ASSUME h.kind = "v6"
        PROVE  lookup6(s6, h) = AnswerIn(log, h)
    BY <1>3, <1>5, <1>6, <1>10, <2>3, Answers6
  <2> QED
    BY <2>1, <2>2, <2>3
<1>12. ASSUME (Groups4 - 1) * Octets < MaxU32
       PROVE  validate(stats, s4, s6) = "ok"
  <2>1. validate4(stats, s4) = "ok"
    <3>1. stats.Addrs4 # 0 => checkGroups(s4.idx, s4.suffix, stats.Addrs4, 0) = "ok"
      BY <1>3, <1>5, <1>6, <1>7, <1>8, <1>9, <1>12, Valid4
    <3> QED
      BY <3>1 DEF validate4
  <2>2. validate6(stats, s6) = "ok"
    <3>1. /\ checkGroups(s6.pidx, s6.suffix, stats.Addrs6, 1) = "ok"
          /\ prefixOrder(s6.prefix) = "ok"
      BY <1>3, <1>5, <1>6, <1>7, <1>10, Valid6
    <3> QED
      BY <3>1 DEF validate6, Then
  <2>3. validateIDs(stats, s4, s6) = "ok"
    <3>1. CASE stats.Distinct = 0
      BY <3>1 DEF validateIDs
    <3>2. CASE stats.Distinct # 0
      <4>1. intern /\ stats.Distinct = Len(tab)
        BY <1>1, <3>2 DEF FInv, ValuesKept, Counted, IInv, TypeOK
      <4>2. stats.Addrs4 # 0 => checkIDs(s4.vals, stats.Addrs4, Len(tab)) = "ok"
        <5>1. stats.Addrs4 # 0 => RowVals(s4.vals, v4, stats.Addrs4, log, TRUE, tab)
          BY <1>9, <4>1
        <5> QED
          BY <1>3, <5>1, ValidIDs
      <4>3. checkIDs(s6.vals, stats.Addrs6, Len(tab)) = "ok"
        <5>1. RowVals(s6.vals, v6, stats.Addrs6, log, TRUE, tab)
          BY <1>10, <4>1
        <5> QED
          BY <1>3, <5>1, ValidIDs
      <4> QED
        BY <4>1, <4>2, <4>3 DEF validateIDs, Then
    <3> QED
      BY <3>1, <3>2
  <2> QED
    BY <2>1, <2>2, <2>3 DEF validate, Then
<1>13. Serves'
  BY <1>2, <1>11, <1>12 DEF Serves
<1>14. Entries4' /\ Entries6' /\ Stored4' /\ Stored6'
  BY <1>1 DEF Entries4, Entries6, Stored4, Stored6
<1> QED
  BY <1>4, <1>13, <1>14 DEF FInv

(* The sort leaves the dedupe loop ready: nothing is kept, everything is   *)
(* left in order, and no put is lost.                                      *)
LEMMA SortedIsReady ==
    ASSUME NEW es \in Seq(Entry), NEW p \in Arrangements(Len(es)), Ordered(Rearranged(es, p)),
           NEW kind, NEW L, Owns(L, es, DOMAIN es, kind)
    PROVE  /\ Owns(L, Rearranged(es, p), 1..0 \cup 1..Len(Rearranged(es, p)), kind)
           /\ Deduping(Rearranged(es, p), 0, 1)
           /\ \A k \in 1..Len(es) : \E i \in 1..Len(es) : Rearranged(es, p)[k] = es[i]
<1> DEFINE y == Rearranged(es, p)
           m == Len(es)
<1>1. m \in Nat /\ DOMAIN es = 1..m
  OBVIOUS
<1>2. \A k \in 1..m : p[k] \in 1..m /\ y[k] = es[p[k]]
  BY DEF Arrangements, Rearranged
<1>3. y \in Seq(Entry) /\ Len(y) = m
  BY <1>2 DEF Rearranged
<1>4. Owns(L, y, 1..m, kind)
  BY <1>1, OwnsRearranged
<1> HIDE DEF y, m
<1>5. 1..0 \cup 1..Len(y) = 1..m
  BY <1>1, <1>3
<1>6. \A i, j \in 1..m : i < j => ~Before(y[j], y[i])
  <2>1. Ordered(y)
    BY DEF y
  <2> QED
    BY <1>3, <2>1, OrderedAll
<1>7. Deduping(y, 0, 1)
  BY <1>3, <1>6 DEF Deduping, Strict
<1>8. \A k \in 1..m : \E i \in 1..m : y[k] = es[i]
  BY <1>2
<1> QED
  BY <1>4, <1>5, <1>7, <1>8 DEF y, m

(* Sorting the 32-bit entries changes no answer (build4).                  *)
LEMMA Sort4FInv == ASSUME IInv, FInv, Sort4 PROVE FInv'
<1>1. /\ pc = "sort4" /\ pc' = "dedupe4" /\ at' = 1 /\ kept' = 0
      /\ UNCHANGED <<intern, v6, n, built, valstate, stats, s4, s6, log>>
  BY DEF Sort4, Goto, mapstate
<1>2. PICK p \in Arrangements(Len(v4)) : Ordered(Rearranged(v4, p)) /\ v4' = Rearranged(v4, p)
  BY DEF Sort4
<1>3. v4 \in Seq(Entry)
  BY DEF IInv, TypeOK
<1>4. Owns(log, v4, DOMAIN v4, "v4") /\ Small(v4, Len(v4))
  BY <1>1 DEF FInv, Entries4, Held4
<1>5. /\ Owns(log, v4', 1..0 \cup 1..Len(v4'), "v4") /\ Deduping(v4', 0, 1)
      /\ \A k \in 1..Len(v4) : \E i \in 1..Len(v4) : v4'[k] = v4[i]
  BY <1>2, <1>3, <1>4, SortedIsReady
<1>6. Len(v4') = Len(v4)
  BY <1>2, <1>3 DEF Rearranged
<1>7. Small(v4', Len(v4'))
  BY <1>4, <1>5, <1>6 DEF Small
<1>8. Held4' = 1..0 \cup 1..Len(v4')
  BY <1>1 DEF Held4, Unsettled
<1>9. Entries4'
  BY <1>1, <1>5, <1>7, <1>8 DEF Entries4
<1>10. Stored4'
  BY <1>1 DEF FInv, Stored4
<1>11. Entries6' /\ Stored6'
  BY <1>1, SixStays DEF FInv, Earlier6
<1>12. ValuesKept'
  BY <1>1, ValuesStay DEF FInv
<1>13. Serves'
  BY <1>1 DEF Serves
<1> QED
  BY <1>9, <1>10, <1>11, <1>12, <1>13 DEF FInv

(* Sorting the 128-bit entries changes no answer (build6).                 *)
LEMMA Sort6FInv == ASSUME IInv, FInv, Sort6 PROVE FInv'
<1>1. /\ pc = "sort6" /\ pc' = "dedupe6" /\ at' = 1 /\ kept' = 0
      /\ UNCHANGED <<intern, v4, n, built, valstate, stats, s4, s6, log>>
  BY DEF Sort6, Goto, mapstate
<1>2. PICK p \in Arrangements(Len(v6)) : Ordered(Rearranged(v6, p)) /\ v6' = Rearranged(v6, p)
  BY DEF Sort6
<1>3. v6 \in Seq(Entry)
  BY DEF IInv, TypeOK
<1>4. Owns(log, v6, DOMAIN v6, "v6")
  BY <1>1 DEF FInv, Entries6, Held6
<1>5. Owns(log, v6', 1..0 \cup 1..Len(v6'), "v6") /\ Deduping(v6', 0, 1)
  BY <1>2, <1>3, <1>4, SortedIsReady
<1>6. Held6' = 1..0 \cup 1..Len(v6')
  BY <1>1 DEF Held6, Unsettled
<1>7. Entries6' /\ Stored6'
  BY <1>1, <1>5, <1>6 DEF Entries6, Stored6
<1>8. Entries4' /\ Stored4'
  BY <1>1, FourStays DEF FInv, Later4, valstate
<1>9. ValuesKept'
  BY <1>1, ValuesStay DEF FInv
<1>10. Serves'
  BY <1>1 DEF Serves
<1> QED
  BY <1>7, <1>8, <1>9, <1>10 DEF FInv

(* One turn of the 32-bit dedupe changes no answer, although it overwrites *)
(* the array it reads (build4).                                            *)
LEMMA Dedupe4FInv == ASSUME IInv, FInv, Dedupe4 PROVE FInv'
<1>1. /\ v4 \in Seq(Entry) /\ at \in Nat \ {0} /\ kept \in Nat /\ stats \in Statistics
      /\ log \in Seq(PutRecords) /\ \A k \in 1..Len(v4) : v4[k].vi < n
  BY DEF IInv, TypeOK, Bookkeeping, PutRecords
<1>2. pc = "dedupe4" /\ at <= Len(v4) /\ kept < at
  BY DEF Dedupe4, IInv, Bookkeeping
<1>3. at \in 1..Len(v4)
  BY <1>1, <1>2
<1>4. PICK j \in at..Len(v4) :
        /\ RunEnd(v4, at, j)
        /\ stats' = Dropped(v4, at, j) /\ v4' = [v4 EXCEPT ![kept + 1] = v4[j]]
        /\ kept' = kept + 1 /\ at' = j + 1
        /\ UNCHANGED <<intern, v6, n, built, valstate, s4, s6, pc, log>>
  BY <1>1, <1>3, DropSucceeds DEF Dedupe4, IInv
<1>5. /\ Small(v4, Len(v4)) /\ Owns(log, v4, 1..kept \cup at..Len(v4), "v4")
      /\ Deduping(v4, kept, at) /\ s4 = Nil4
  BY <1>2 DEF FInv, Entries4, Stored4, Held4, Unsettled
<1>6. DOMAIN log \subseteq Nat
  BY <1>1
<1>7. /\ Owns(log, v4', 1..kept + 1 \cup j + 1..Len(v4'), "v4") /\ Deduping(v4', kept + 1, j + 1)
      /\ Len(v4') = Len(v4) /\ \A x \in 1..Len(v4) : \E y \in 1..Len(v4) : v4'[x] = v4[y]
  <2> DEFINE z == [v4 EXCEPT ![kept + 1] = v4[j]]
  <2>1. RunEnd(v4, at, j)
    BY <1>4
  <2>2. Deduping(z, kept + 1, j + 1)
    BY <1>1, <1>2, <1>3, <1>5, <2>1, DedupingStep
  <2>3. Owns(log, z, 1..kept + 1 \cup j + 1..Len(v4), "v4")
    BY <1>1, <1>2, <1>3, <1>5, <1>6, <2>1, OwnsDeduped
  <2>4. Len(z) = Len(v4) /\ \A x \in 1..Len(v4) : z[x] = v4[x] \/ z[x] = v4[j]
    BY <1>1
  <2>5. j \in 1..Len(v4) /\ v4' = z
    BY <1>3, <1>4
  <2> HIDE DEF z
  <2> QED
    BY <2>2, <2>3, <2>4, <2>5
<1>8. Small(v4', Len(v4'))
  BY <1>5, <1>7 DEF Small
<1>9. Held4' = 1..kept + 1 \cup j + 1..Len(v4')
  BY <1>2, <1>4 DEF Held4, Unsettled
<1>10. Entries4' /\ Stored4'
  BY <1>2, <1>4, <1>5, <1>7, <1>8, <1>9 DEF Entries4, Stored4
<1>11. stats'.Distinct = stats.Distinct
  BY <1>1, <1>4 DEF Dropped, Statistics
<1>12. ValuesKept'
  BY <1>2, <1>4, <1>11, ValuesStay DEF FInv
<1>13. Entries6' /\ Stored6'
  BY <1>2, <1>4, SixStays DEF FInv, Earlier6
<1>14. Serves'
  BY <1>2, <1>4 DEF Serves
<1> QED
  BY <1>10, <1>12, <1>13, <1>14 DEF FInv

(* One turn of the 128-bit dedupe changes no answer, although it           *)
(* overwrites the array it reads (build6).                                 *)
LEMMA Dedupe6FInv == ASSUME IInv, FInv, Dedupe6 PROVE FInv'
<1>1. /\ v6 \in Seq(Entry) /\ at \in Nat \ {0} /\ kept \in Nat /\ stats \in Statistics
      /\ log \in Seq(PutRecords) /\ \A k \in 1..Len(v6) : v6[k].vi < n
  BY DEF IInv, TypeOK, Bookkeeping, PutRecords
<1>2. pc = "dedupe6" /\ at <= Len(v6) /\ kept < at
  BY DEF Dedupe6, IInv, Bookkeeping
<1>3. at \in 1..Len(v6)
  BY <1>1, <1>2
<1>4. PICK j \in at..Len(v6) :
        /\ RunEnd(v6, at, j)
        /\ stats' = Dropped(v6, at, j) /\ v6' = [v6 EXCEPT ![kept + 1] = v6[j]]
        /\ kept' = kept + 1 /\ at' = j + 1
        /\ UNCHANGED <<intern, v4, n, built, valstate, s4, s6, pc, log>>
  BY <1>1, <1>3, DropSucceeds DEF Dedupe6, IInv
<1>5. Owns(log, v6, 1..kept \cup at..Len(v6), "v6") /\ Deduping(v6, kept, at)
  BY <1>2 DEF FInv, Entries6, Held6, Unsettled
<1>6. DOMAIN log \subseteq Nat
  BY <1>1
<1>7. Owns(log, v6', 1..kept + 1 \cup j + 1..Len(v6'), "v6") /\ Deduping(v6', kept + 1, j + 1)
      /\ Len(v6') = Len(v6) /\ \A x \in 1..Len(v6) : \E y \in 1..Len(v6) : v6'[x] = v6[y]
  <2> DEFINE z == [v6 EXCEPT ![kept + 1] = v6[j]]
  <2>1. RunEnd(v6, at, j)
    BY <1>4
  <2>2. Deduping(z, kept + 1, j + 1)
    BY <1>1, <1>2, <1>3, <1>5, <2>1, DedupingStep
  <2>3. Owns(log, z, 1..kept + 1 \cup j + 1..Len(v6), "v6")
    BY <1>1, <1>2, <1>3, <1>5, <1>6, <2>1, OwnsDeduped
  <2>4. Len(z) = Len(v6) /\ \A x \in 1..Len(v6) : z[x] = v6[x] \/ z[x] = v6[j]
    BY <1>1
  <2>5. j \in 1..Len(v6) /\ v6' = z
    BY <1>3, <1>4
  <2> HIDE DEF z
  <2> QED
    BY <2>2, <2>3, <2>4, <2>5
<1>8. Held6' = 1..kept + 1 \cup j + 1..Len(v6')
  BY <1>2, <1>4 DEF Held6, Unsettled
<1>9. Entries6' /\ Stored6'
  BY <1>2, <1>4, <1>7, <1>8 DEF Entries6, Stored6
<1>10. stats'.Distinct = stats.Distinct /\ stats'.Addrs4 = stats.Addrs4
  BY <1>1, <1>4 DEF Dropped, Statistics
<1>11. ValuesKept'
  BY <1>2, <1>4, <1>10, ValuesStay DEF FInv
<1>12. Entries4' /\ Stored4'
  BY <1>2, <1>4, <1>10, FourStays DEF FInv, Later4, valstate
<1>13. Serves'
  BY <1>2, <1>4 DEF Serves
<1> QED
  BY <1>9, <1>11, <1>12, <1>13 DEF FInv

(* When the 32-bit dedupe is over, the kept entries own every put of the   *)
(* family, one entry per host (build4).                                    *)
LEMMA Deduped4FInv == ASSUME IInv, FInv, Deduped4 PROVE FInv'
<1>1. /\ pc = "dedupe4" /\ at > Len(v4) /\ kept < at /\ at <= Len(v4) + 1
      /\ stats' = [stats EXCEPT !.Addrs4 = kept]
      /\ pc' = (IF kept = 0 THEN "sort6" ELSE "count4")
      /\ UNCHANGED <<intern, v4, v6, n, built, valstate, s4, s6, at, kept, log>>
  BY DEF Deduped4, Goto, IInv, Bookkeeping, entries, loop
<1>2. v4 \in Seq(Entry) /\ kept \in Nat /\ at \in Nat /\ stats \in Statistics
  BY DEF IInv, TypeOK
<1>3. stats'.Addrs4 = kept /\ stats'.Distinct = stats.Distinct
  BY <1>1, <1>2 DEF Statistics
<1>4. kept <= Len(v4) /\ at = Len(v4) + 1 /\ kept \in 0..Len(v4)
  BY <1>1, <1>2
<1>5. Small(v4, Len(v4)) /\ Owns(log, v4, 1..kept \cup at..Len(v4), "v4") /\ Deduping(v4, kept, at) /\ s4 = Nil4
  BY <1>1 DEF FInv, Entries4, Stored4, Held4, Unsettled
<1>6. 1..kept \cup at..Len(v4) = 1..kept
  BY <1>2, <1>4
<1>7. Owns(log, v4, 1..kept, "v4") /\ Strict(v4, kept)
  BY <1>5, <1>6 DEF Deduping
<1>8. Held4' = 1..kept
  BY <1>1, <1>3 DEF Held4
<1>9. Entries4'
  BY <1>1, <1>2, <1>3, <1>4, <1>5, <1>7, <1>8 DEF Entries4
<1>10. Stored4'
  BY <1>1, <1>3, <1>5 DEF Stored4
<1>11. Entries6' /\ Stored6'
  BY <1>1, SixStays DEF FInv, Earlier6
<1>12. ValuesKept'
  BY <1>1, <1>3, ValuesStay DEF FInv
<1>13. Serves'
  BY <1>1 DEF Serves
<1> QED
  BY <1>9, <1>10, <1>11, <1>12, <1>13 DEF FInv

(* newValues prepares a layout without rows (builder.go).                  *)
LEMMA NoRows ==
    ASSUME IInv, NEW es, NEW L
    PROVE  RowVals(newValues, es, 0, L, intern, tab)
<1>1. CASE intern
  <2>1. newValues.direct = <<>> /\ newValues.tab = tab /\ newValues.ids = <<>>
    BY <1>1 DEF newValues, NoVals
  <2> QED
    BY <1>1, <2>1 DEF RowVals
<1>2. CASE ~intern
  <2>1. newValues.direct = <<>>
    BY <1>2 DEF newValues, NoVals
  <2> QED
    BY <1>2, <2>1 DEF RowVals
<1> QED
  BY <1>1, <1>2

(* Counting and summing the groups touches neither the values nor the      *)
(* entries (build4).                                                       *)
LEMMA FirstStays ==
    ASSUME FInv, pc \in {"count4", "sum4", "fill4"}, pc' \in {"sum4", "fill4"},
           UNCHANGED <<intern, v4, v6, n, built, valstate, stats, kept, log>>
    PROVE  ValuesKept' /\ Entries4' /\ Entries6' /\ Stored6' /\ Serves'
<1>1. Held4' = Held4
  BY DEF Held4
<1>2. Entries4'
  BY <1>1 DEF FInv, Entries4
<1>3. Entries6' /\ Stored6'
  BY SixStays DEF FInv, Earlier6
<1>4. ValuesKept'
  BY ValuesStay DEF FInv
<1>5. Serves'
  BY DEF Serves
<1> QED
  BY <1>2, <1>3, <1>4, <1>5

(* After the counting loop, counter g+1 holds the number of kept entries   *)
(* of group g, without overflow of uint32 (build4).                        *)
LEMMA Count4FInv == ASSUME IInv, FInv, Count4 PROVE FInv'
<1>1. /\ pc = "count4" /\ pc' = "sum4" /\ at' = 2
      /\ s4' = [idx |-> [i \in 1..Groups4 + 1 |->
                            U32(Cardinality({k \in 1..kept : v4[k].hi + 2 = i}))],
                suffix |-> <<>>, vals |-> newValues]
      /\ UNCHANGED <<intern, v4, v6, n, built, valstate, stats, kept, log>>
  BY DEF Count4, Goto, entries
<1>2. /\ v4 \in Seq(Entry) /\ kept \in Nat /\ Groups4 \in Nat \ {0} /\ MaxU32 \in Nat
      /\ v6 \in Seq(Entry) /\ n \in Nat /\ n <= MaxU32
  BY WidthAssumption DEF IInv, TypeOK
<1>3. kept <= Len(v4) /\ Len(v4) + Len(v6) = n
  BY <1>1 DEF IInv, Bookkeeping
<1>4. kept \in 0..Len(v4) /\ kept <= MaxU32
  <2>1. Len(v4) \in Nat /\ Len(v6) \in Nat
    BY <1>2
  <2> QED
    BY <1>2, <1>3, <2>1
<1>5. Strict(v4, kept)
  BY <1>1 DEF FInv, Entries4
<1>6. \A g \in Int : Exactly(v4, kept, g) \in 0..kept
  BY <1>2, <1>4, BelowAdds
<1>7. \A i \in 1..Groups4 + 1 : s4'.idx[i] = Exactly(v4, kept, i)
  <2> SUFFICES ASSUME NEW i \in 1..Groups4 + 1 PROVE s4'.idx[i] = Exactly(v4, kept, i)
    OBVIOUS
  <2>1. s4'.idx[i] = U32(Exactly(v4, kept, i))
    BY <1>1 DEF Exactly
  <2>2. i \in Int
    BY <1>2
  <2>3. Exactly(v4, kept, i) \in 0..MaxU32
    <3>1. Exactly(v4, kept, i) \in 0..kept
      BY <1>6, <2>2
    <3> QED
      BY <1>2, <1>4, <3>1
  <2> QED
    BY <2>1, <2>3, U32Is
<1>8. Below(v4, kept, 1) = Exactly(v4, kept, 1)
  <2>1. /\ Below(v4, kept, 1) \in 0..kept
        /\ \A k \in 1..kept : v4[k].hi + 2 <= 1 <=> k <= Below(v4, kept, 1)
    <3>1. 1 \in Int
      OBVIOUS
    <3> QED
      BY <1>2, <1>4, <1>5, <3>1, BelowCut
  <2>2. Below(v4, kept, 1) # 0 => 1 \in 1..kept /\ v4[1].hi + 2 <= 1
    <3>1. Below(v4, kept, 1) # 0 => 1 \in 1..kept /\ 1 <= Below(v4, kept, 1)
      BY <1>2, <2>1
    <3> QED
      BY <2>1, <3>1
  <2>3. \A k \in 1..kept : v4[k].hi \in Nat
    BY <1>2, <1>4, EntryIs
  <2>4. Below(v4, kept, 1) = 0
    BY <2>1, <2>2, <2>3
  <2>5. {k \in 1..kept : v4[k].hi + 2 = 1} = {}
    BY <2>3
  <2>6. Exactly(v4, kept, 1) = 0
    BY <2>5, FS_EmptySet DEF Exactly
  <2> QED
    BY <2>4, <2>6
<1>9. \A i \in 1..Groups4 + 1 : s4'.idx[i] = IF i < 2 THEN Below(v4, kept, i) ELSE Exactly(v4, kept, i)
  <2> SUFFICES ASSUME NEW i \in 1..Groups4 + 1
               PROVE  s4'.idx[i] = IF i < 2 THEN Below(v4, kept, i) ELSE Exactly(v4, kept, i)
    OBVIOUS
  <2>1. i < 2 => i = 1
    BY <1>2
  <2> QED
    BY <1>7, <1>8, <2>1
<1>10. 2 \in 2..Groups4 + 2 /\ Len(s4'.idx) = Groups4 + 1 /\ s4'.suffix = <<>> /\ s4'.vals = newValues
  BY <1>1, <1>2
<1>11. RowVals(s4'.vals, v4, 0, log, intern, tab)
  BY <1>10, NoRows
<1>12. Stored4'
  BY <1>1, <1>9, <1>10, <1>11 DEF Stored4, valstate
<1> QED
  BY <1>1, <1>12, FirstStays DEF FInv

(* One turn of the summing loop makes one more counter an offset, without  *)
(* overflow of uint32 (build4).                                            *)
LEMMA Sum4FInv == ASSUME IInv, FInv, Sum4 PROVE FInv'
<1>1. /\ pc = "sum4" /\ UNCHANGED <<intern, v4, v6, n, built, valstate, stats, kept, log>>
      /\ pc' \in {"sum4", "fill4"}
  BY DEF Sum4, Goto, entries
<1>2. /\ v4 \in Seq(Entry) /\ kept \in Nat /\ Groups4 \in Nat \ {0} /\ MaxU32 \in Nat
      /\ v6 \in Seq(Entry) /\ n \in Nat /\ n <= MaxU32 /\ s4 \in Store4
  BY WidthAssumption DEF IInv, TypeOK
<1>3. kept <= Len(v4) /\ Len(v4) + Len(v6) = n
  BY <1>1 DEF IInv, Bookkeeping
<1>4. kept \in 0..Len(v4) /\ kept <= MaxU32
  <2>1. Len(v4) \in Nat /\ Len(v6) \in Nat
    BY <1>2
  <2> QED
    BY <1>2, <1>3, <2>1
<1>5. /\ at \in 2..Groups4 + 2 /\ Len(s4.idx) = Groups4 + 1 /\ s4.suffix = <<>>
      /\ \A i \in 1..Groups4 + 1 :
            s4.idx[i] = IF i < at THEN Below(v4, kept, i) ELSE Exactly(v4, kept, i)
      /\ RowVals(s4.vals, v4, 0, log, intern, tab)
  BY <1>1 DEF FInv, Stored4
<1>6. CASE at <= Groups4 + 1
  <2>1. s4' = [s4 EXCEPT !.idx[at] = U32(s4.idx[at] + s4.idx[at - 1])] /\ at' = at + 1 /\ pc' = "sum4"
    BY <1>1, <1>6 DEF Sum4
  <2>2. at \in 2..Groups4 + 1 /\ at \in 1..Groups4 + 1 /\ at - 1 \in 1..Groups4 + 1 /\ at - 1 < at
        /\ at - 1 \in Int /\ (at - 1) + 1 = at /\ at + 1 \in 2..Groups4 + 2
    BY <1>2, <1>5, <1>6
  <2>3. s4.idx[at] = Exactly(v4, kept, at) /\ s4.idx[at - 1] = Below(v4, kept, at - 1)
    BY <1>5, <2>2
  <2>4. Below(v4, kept, at) = Exactly(v4, kept, at) + Below(v4, kept, at - 1)
    <3>1. Below(v4, kept, (at - 1) + 1) = Exactly(v4, kept, (at - 1) + 1) + Below(v4, kept, at - 1)
      BY <1>2, <1>4, <2>2, BelowAdds
    <3> QED
      BY <2>2, <3>1
  <2>5. Below(v4, kept, at) \in 0..MaxU32
    <3>1. Below(v4, kept, at) \in 0..kept
      <4>1. at \in Int
        BY <2>2
      <4> QED
        BY <1>2, <1>4, <4>1, BelowAdds
    <3> QED
      BY <1>2, <1>4, <3>1
  <2>6. U32(s4.idx[at] + s4.idx[at - 1]) = Below(v4, kept, at)
    BY <2>3, <2>4, <2>5, U32Is
  <2>7. /\ s4'.idx = [s4.idx EXCEPT ![at] = Below(v4, kept, at)]
        /\ s4'.suffix = s4.suffix /\ s4'.vals = s4.vals
    BY <1>2, <2>1, <2>6 DEF Store4
  <2>8. s4.idx \in Seq(0..MaxU32)
    BY <1>2 DEF Store4
  <2>9. /\ Len(s4'.idx) = Groups4 + 1 /\ s4'.idx[at] = Below(v4, kept, at)
        /\ \A i \in 1..Groups4 + 1 : i # at => s4'.idx[i] = s4.idx[i]
    BY <1>5, <2>2, <2>7, <2>8
  <2>10. \A i \in 1..Groups4 + 1 :
           s4'.idx[i] = IF i < at + 1 THEN Below(v4, kept, i) ELSE Exactly(v4, kept, i)
    <3> SUFFICES ASSUME NEW i \in 1..Groups4 + 1
                 PROVE  s4'.idx[i] = IF i < at + 1 THEN Below(v4, kept, i) ELSE Exactly(v4, kept, i)
      OBVIOUS
    <3>1. i = at \/ (i # at /\ (i < at <=> i < at + 1))
      BY <1>2, <2>2
    <3>2. i = at => i < at + 1
      BY <2>2
    <3> QED
      BY <1>5, <2>9, <3>1, <3>2
  <2>11. Stored4'
    BY <1>1, <1>5, <2>1, <2>2, <2>7, <2>9, <2>10 DEF Stored4, valstate
  <2> QED
    BY <1>1, <2>11, FirstStays DEF FInv
<1>7. CASE ~(at <= Groups4 + 1)
  <2>1. at' = 1 /\ s4' = s4 /\ pc' = "fill4"
    BY <1>7 DEF Sum4, Goto
  <2>2. \A i \in 1..Groups4 + 1 : i < at
    BY <1>2, <1>5, <1>7
  <2>3. \A i \in 1..Groups4 + 1 : s4.idx[i] = Below(v4, kept, i)
    BY <1>5, <2>2
  <2>4. 1 <= kept + 1 /\ Len(s4.suffix) = 1 - 1 /\ 1 - 1 = 0
    BY <1>2, <1>5
  <2>5. \A k \in 1..1 - 1 : s4.suffix[k] = v4[k].lo
    BY <2>4
  <2>6. RowVals(s4.vals, v4, 1 - 1, log, intern, tab)
    BY <1>5, <2>4
  <2>7. Stored4'
    BY <1>1, <1>5, <2>1, <2>3, <2>4, <2>5, <2>6 DEF Stored4, valstate
  <2> QED
    BY <1>1, <2>7, FirstStays DEF FInv
<1> QED
  BY <1>6, <1>7

(* An id below the number of values fits the width chosen for that number  *)
(* (idWidth in values.go).  The fourth byte needs that a uint32 fits four  *)
(* bytes.                                                                  *)
LEMMA WidthFits ==
    ASSUME NEW k \in 0..MaxU32, NEW id \in Nat, id < k
    PROVE  id < Power[idWidth(k)]
<1>1. MaxU32 \in Nat /\ k \in Nat /\ \A w \in 0..4 : Power[w] \in Nat
  BY WidthAssumption, PowerIs
<1>2. MaxU32 < Power[4]
  BY IdAssumption
<1>3. Power[1] \in Nat /\ Power[2] \in Nat /\ Power[3] \in Nat /\ Power[4] \in Nat
  BY <1>1
<1>4. CASE k <= Power[1]
  BY <1>1, <1>3, <1>4 DEF idWidth
<1>5. CASE ~(k <= Power[1]) /\ k <= Power[2]
  BY <1>1, <1>3, <1>5 DEF idWidth
<1>6. CASE ~(k <= Power[1]) /\ ~(k <= Power[2]) /\ k <= Power[3]
  BY <1>1, <1>3, <1>6 DEF idWidth
<1>7. CASE ~(k <= Power[1]) /\ ~(k <= Power[2]) /\ ~(k <= Power[3])
  <2>1. idWidth(k) = 4
    BY <1>7 DEF idWidth
  <2> QED
    BY <1>1, <1>2, <1>3, <2>1
<1> QED
  BY <1>4, <1>5, <1>6, <1>7

(* setVal writes the row of the put an entry stands for: the value, or an  *)
(* id under which the table lists it (builder.go).                         *)
LEMMA RowSet ==
    ASSUME IInv, Logged, Recalled, pc # "done",
           NEW es \in Seq(Entry), NEW m \in Nat, m + 1 \in 1..Len(es), es[m + 1].vi < n,
           NEW v \in ValsLayout, intern => v.idW = idWidth(Len(tab)),
           RowVals(v, es, m, log, intern, tab)
    PROVE  RowVals(setVal(v, es[m + 1].vi), es, m + 1, log, intern, tab)
<1> DEFINE seq == es[m + 1].vi
<1>1. /\ log \in Seq(PutRecords) /\ n \in 0..MaxU32 /\ intern \in BOOLEAN /\ Len(tab) \in Nat
      /\ MaxU32 \in Nat /\ Len(tab) <= n
  BY WidthAssumption DEF IInv, TypeOK, Bookkeeping, PutRecords
<1>2. seq \in Nat /\ seq < n
  BY EntryIs
<1>3. /\ intern => ids[seq + 1] \in 0..MaxU32 /\ ids[seq + 1] < Len(tab)
      /\ ~intern => vals[seq + 1] \in Values
  <2> HIDE DEF seq
  <2> QED
    BY <1>2, SeqReadable DEF IInv
<1>4. seq + 1 \in DOMAIN log
  <2>1. DOMAIN log = 1..n
    BY <1>1 DEF Logged
  <2> QED
    BY <1>1, <1>2, <2>1
<1>5. IF intern THEN tab[ids[seq + 1] + 1] = log[seq + 1].val ELSE vals[seq + 1] = log[seq + 1].val
  BY <1>4 DEF Recalled
<1>6. setVal(v, seq) = IF intern THEN [v EXCEPT !.ids = Append(@, Pack(v.idW, ids[seq + 1]))]
                                 ELSE [v EXCEPT !.direct = Append(@, vals[seq + 1])]
  BY DEF setVal
<1>7. CASE intern
  <2> DEFINE id == ids[seq + 1]
  <2>1. id \in Nat /\ id < Len(tab) /\ Len(tab) \in 0..MaxU32
    BY <1>1, <1>3, <1>7
  <2>2. tab[id + 1] = log[seq + 1].val
    BY <1>5, <1>7
  <2> HIDE DEF id
  <2>3. id < Power[v.idW]
    BY <1>7, <2>1, WidthFits
  <2>4. tab[id + 1] = log[es[m + 1].vi + 1].val
    BY <2>2
  <2> HIDE DEF seq
  <2>5. RowVals(IF intern THEN [v EXCEPT !.ids = Append(@, Pack(v.idW, id))]
                          ELSE [v EXCEPT !.direct = Append(@, 0)], es, m + 1, log, intern, tab)
    BY <1>1, <1>7, <2>1, <2>3, <2>4, RowAdds
  <2>6. setVal(v, seq) = [v EXCEPT !.ids = Append(@, Pack(v.idW, id))]
    BY <1>6, <1>7 DEF id
  <2>7. RowVals(setVal(v, seq), es, m + 1, log, intern, tab)
    BY <1>7, <2>5, <2>6
  <2> QED
    BY <2>7 DEF seq
<1>8. CASE ~intern
  <2> DEFINE val == vals[seq + 1]
  <2>1. val \in Values /\ val = log[es[m + 1].vi + 1].val
    BY <1>3, <1>5, <1>8
  <2> HIDE DEF seq, val
  <2>2. 0 \in Nat
    OBVIOUS
  <2>3. RowVals(IF intern THEN [v EXCEPT !.ids = Append(@, Pack(v.idW, 0))]
                          ELSE [v EXCEPT !.direct = Append(@, val)], es, m + 1, log, intern, tab)
    BY <1>1, <1>8, <2>1, <2>2, RowAdds, ZenonT(60)
  <2>4. setVal(v, seq) = [v EXCEPT !.direct = Append(@, val)]
    BY <1>6, <1>8 DEF val
  <2>5. RowVals(setVal(v, seq), es, m + 1, log, intern, tab)
    BY <1>8, <2>3, <2>4
  <2> QED
    BY <2>5 DEF seq
<1> QED
  BY <1>1, <1>7, <1>8

(* One turn of the 32-bit fill loop adds the suffix and the row of one     *)
(* kept entry (build4).                                                    *)
LEMMA Fill4FInv == ASSUME IInv, FInv, Fill4 PROVE FInv'
<1>1. pc = "fill4" /\ at <= kept
  BY DEF Fill4
<1>2. /\ v4 \in Seq(Entry) /\ kept \in Nat /\ at \in Nat \ {0} /\ s4 \in Store4
      /\ kept <= Len(v4) /\ \A k \in 1..Len(v4) : v4[k].vi < n
      /\ intern => s4.vals.idW = idWidth(Len(tab))
  BY <1>1 DEF IInv, TypeOK, Bookkeeping
<1>3. at \in 1..Len(v4) /\ at - 1 \in Nat /\ (at - 1) + 1 = at /\ at + 1 <= kept + 1 /\ (at + 1) - 1 = at
  BY <1>1, <1>2
<1>4. v4[at].vi \in Nat /\ v4[at].lo \in Nat /\ v4[at].vi < n /\ s4.vals \in ValsLayout
  BY <1>2, <1>3, EntryIs DEF Store4
<1>5. setValOk(s4.vals, v4[at].vi)
  BY <1>1, <1>2, <1>4, SetValSucceeds DEF IInv
<1>6. /\ s4' = [s4 EXCEPT !.suffix = Append(@, v4[at].lo), !.vals = setVal(@, v4[at].vi)]
      /\ at' = at + 1 /\ pc' = "fill4"
      /\ UNCHANGED <<intern, v4, v6, n, built, valstate, stats, kept, log>>
  BY <1>1, <1>5 DEF Fill4, entries
<1>7. /\ s4'.idx = s4.idx /\ s4'.suffix = Append(s4.suffix, v4[at].lo)
      /\ s4'.vals = setVal(s4.vals, v4[at].vi) /\ s4.suffix \in Seq(Nat)
  BY <1>2, <1>6 DEF Store4
<1>8. /\ Len(s4.idx) = Groups4 + 1 /\ \A i \in 1..Groups4 + 1 : s4.idx[i] = Below(v4, kept, i)
      /\ Len(s4.suffix) = at - 1 /\ \A k \in 1..at - 1 : s4.suffix[k] = v4[k].lo
      /\ RowVals(s4.vals, v4, at - 1, log, intern, tab)
  BY <1>1 DEF FInv, Stored4
<1>9. Len(s4'.suffix) = at /\ \A k \in 1..at : s4'.suffix[k] = v4[k].lo
  <2>1. /\ Len(s4'.suffix) = (at - 1) + 1 /\ s4'.suffix[(at - 1) + 1] = v4[at].lo
        /\ \A k \in 1..at - 1 : s4'.suffix[k] = s4.suffix[k]
    BY <1>3, <1>4, <1>7, <1>8, AppendIs
  <2>2. \A k \in 1..at : k = at \/ k \in 1..at - 1
    BY <1>2
  <2> QED
    BY <1>3, <1>8, <2>1, <2>2
<1>10. RowVals(s4'.vals, v4, at, log, intern, tab)
  <2> DEFINE m == at - 1
  <2>1. m \in Nat /\ m + 1 = at /\ m + 1 \in 1..Len(v4) /\ v4[m + 1].vi < n
    BY <1>3, <1>4
  <2>2. RowVals(s4.vals, v4, m, log, intern, tab)
    BY <1>8
  <2> HIDE DEF m
  <2>3. RowVals(setVal(s4.vals, v4[m + 1].vi), v4, m + 1, log, intern, tab)
    BY <1>1, <1>2, <1>4, <2>1, <2>2, RowSet DEF FInv, ValuesKept
  <2> QED
    BY <1>7, <2>1, <2>3
<1>11. Stored4'
  BY <1>3, <1>6, <1>7, <1>8, <1>9, <1>10 DEF Stored4, valstate
<1> QED
  BY <1>1, <1>6, <1>11, FirstStays DEF FInv

(* When the 32-bit fill loop is over, the store has a slot for every kept  *)
(* entry (build4).                                                         *)
LEMMA Filled4FInv == ASSUME IInv, FInv, Filled4 PROVE FInv'
<1>1. /\ pc = "fill4" /\ at > kept /\ pc' = "sort6"
      /\ UNCHANGED <<intern, v4, v6, n, built, valstate, stats, s4, s6, at, kept, log>>
  BY DEF Filled4, Goto, entries, mapstate, loop
<1>2. kept \in Nat /\ at \in Nat
  BY DEF IInv, TypeOK
<1>3. /\ at <= kept + 1 /\ Len(s4.idx) = Groups4 + 1
      /\ \A i \in 1..Groups4 + 1 : s4.idx[i] = Below(v4, kept, i)
      /\ Len(s4.suffix) = at - 1 /\ \A k \in 1..at - 1 : s4.suffix[k] = v4[k].lo
      /\ RowVals(s4.vals, v4, at - 1, log, intern, tab)
      /\ kept = stats.Addrs4 /\ kept > 0
  BY <1>1 DEF FInv, Stored4, Entries4
<1>4. at - 1 = kept
  BY <1>1, <1>2, <1>3
<1>5. Offsets4(s4, v4, stats.Addrs4) /\ RowVals(s4.vals, v4, stats.Addrs4, log, intern, tab)
  BY <1>3, <1>4 DEF Offsets4
<1>6. stats.Addrs4 # 0
  BY <1>2, <1>3
<1>7. Stored4'
  BY <1>1, <1>5, <1>6 DEF Stored4, valstate
<1>8. Held4' = 1..stats.Addrs4 /\ Held4 = 1..stats.Addrs4
  BY <1>1 DEF Held4
<1>9. Entries4'
  BY <1>1, <1>8 DEF FInv, Entries4
<1>10. Entries6' /\ Stored6'
  BY <1>1, SixStays DEF FInv, Earlier6
<1>11. ValuesKept'
  BY <1>1, ValuesStay DEF FInv
<1>12. Serves'
  BY <1>1 DEF Serves
<1> QED
  BY <1>7, <1>9, <1>10, <1>11, <1>12 DEF FInv

(* When the 128-bit dedupe is over, the kept entries own every put of the  *)
(* family, one entry per host, and the store starts empty (build6).        *)
LEMMA Deduped6FInv == ASSUME IInv, FInv, Deduped6 PROVE FInv'
<1>1. /\ pc = "dedupe6" /\ at > Len(v6) /\ kept < at /\ at <= Len(v6) + 1
      /\ stats' = [stats EXCEPT !.Addrs6 = kept] /\ s6' = [Nil6 EXCEPT !.vals = newValues]
      /\ at' = 1 /\ pc' = "fill6"
      /\ UNCHANGED <<intern, v4, v6, n, built, valstate, s4, kept, log>>
  BY DEF Deduped6, Goto, IInv, Bookkeeping, entries
<1>2. v6 \in Seq(Entry) /\ kept \in Nat /\ at \in Nat /\ stats \in Statistics
  BY DEF IInv, TypeOK
<1>3. stats'.Addrs6 = kept /\ stats'.Distinct = stats.Distinct /\ stats'.Addrs4 = stats.Addrs4
  BY <1>1, <1>2 DEF Statistics
<1>4. kept <= Len(v6) /\ at = Len(v6) + 1
  BY <1>1, <1>2
<1>5. Owns(log, v6, 1..kept \cup at..Len(v6), "v6") /\ Deduping(v6, kept, at)
  BY <1>1 DEF FInv, Entries6, Held6, Unsettled
<1>6. 1..kept \cup at..Len(v6) = 1..kept
  BY <1>2, <1>4
<1>7. Owns(log, v6, 1..kept, "v6") /\ Strict(v6, kept)
  BY <1>5, <1>6 DEF Deduping
<1>8. Held6' = 1..kept
  BY <1>1, <1>3 DEF Held6
<1>9. Entries6'
  BY <1>1, <1>3, <1>4, <1>7, <1>8 DEF Entries6
<1>10. s6'.prefix = <<>> /\ s6'.pidx = <<>> /\ s6'.suffix = <<>> /\ s6'.vals = newValues
  BY <1>1 DEF Nil6
<1>11. Filling6(s6', v6, 0)
  <2> DEFINE off == Append(s6'.pidx, 0)
  <2>1. off[1] = 0
    BY <1>10
  <2> HIDE DEF off
  <2>2. Len(s6'.prefix) = 0 /\ Len(s6'.pidx) = 0 /\ Len(s6'.suffix) = 0
    BY <1>10
  <2>3. \A i \in 1..0 + 1 : i = 1
    OBVIOUS
  <2>4. Divides(off, 0, 0, 1)
    BY <2>1, <2>3 DEF Divides
  <2>5. Grouped6(s6', off, v6, 0)
    BY <2>2, <2>4 DEF Grouped6
  <2> QED
    BY <2>2, <2>5 DEF Filling6, off
<1>12. RowVals(s6'.vals, v6, 0, log, intern, tab)
  BY <1>10, NoRows
<1>13. Stored6'
  <2>1. 1 - 1 = 0 /\ 1 <= kept + 1
    BY <1>2
  <2> QED
    BY <1>1, <1>11, <1>12, <2>1 DEF Stored6, valstate
<1>14. Entries4' /\ Stored4'
  BY <1>1, <1>3, FourStays DEF FInv, Later4, valstate
<1>15. ValuesKept'
  BY <1>1, <1>3, ValuesStay DEF FInv
<1>16. Serves'
  BY <1>1 DEF Serves
<1> QED
  BY <1>9, <1>13, <1>14, <1>15, <1>16 DEF FInv

(* What is in a sequence over S is in S.                                   *)
LEMMA SeqMember == ASSUME NEW S, NEW q \in Seq(S) PROVE \A i \in 1..Len(q) : q[i] \in S
  OBVIOUS

(* A sequence of uint32s is a sequence of natural numbers.                 *)
LEMMA SeqOfNat == ASSUME NEW q \in Seq(0..MaxU32) PROVE q \in Seq(Nat)
<1>1. MaxU32 \in Nat /\ Len(q) \in Nat /\ q = [i \in 1..Len(q) |-> q[i]]
  BY WidthAssumption
<1>2. \A i \in 1..Len(q) : q[i] \in 0..MaxU32
  BY SeqMember
<1>3. \A i \in 1..Len(q) : q[i] \in Nat
  BY <1>1, <1>2
<1> QED
  BY <1>1, <1>3

(* One turn of the 128-bit fill loop adds one kept entry, with its prefix  *)
(* and its offset when it opens a group (build6).                          *)
LEMMA Fill6FInv == ASSUME IInv, FInv, Fill6 PROVE FInv'
<1>1. pc = "fill6" /\ at <= kept
  BY DEF Fill6
<1>2. /\ v6 \in Seq(Entry) /\ kept \in Nat /\ at \in Nat \ {0} /\ s6 \in Store6
      /\ kept <= Len(v6) /\ \A k \in 1..Len(v6) : v6[k].vi < n
      /\ intern => s6.vals.idW = idWidth(Len(tab))
  BY <1>1 DEF IInv, TypeOK, Bookkeeping
<1>3. at \in 1..Len(v6) /\ at - 1 \in 0..kept - 1 /\ (at - 1) + 1 = at /\ at + 1 <= kept + 1 /\ (at + 1) - 1 = at
  BY <1>1, <1>2
<1>4. v6[at].vi \in Nat /\ v6[at].vi < n /\ s6.vals \in ValsLayout
  BY <1>2, <1>3, EntryIs DEF Store6
<1>5. setValOk(s6.vals, v6[at].vi)
  BY <1>1, <1>2, <1>4, SetValSucceeds DEF IInv
<1> DEFINE e == v6[at]
           first == at = 1 \/ v6[at - 1].hi # e.hi
<1>6. /\ s6' = [prefix |-> IF first THEN Append(s6.prefix, e.hi) ELSE s6.prefix,
                pidx   |-> IF first THEN Append(s6.pidx, U32(at - 1)) ELSE s6.pidx,
                suffix |-> Append(s6.suffix, e.lo),
                vals   |-> setVal(s6.vals, e.vi)]
      /\ at' = at + 1 /\ pc' = "fill6"
      /\ UNCHANGED <<intern, v4, v6, n, built, valstate, stats, s4, kept, log>>
  BY <1>1, <1>5 DEF Fill6, entries
<1>7. U32(at - 1) = at - 1
  <2>1. v4 \in Seq(Entry) /\ n \in 0..MaxU32 /\ MaxU32 \in Nat /\ Len(v4) + Len(v6) = n
    BY <1>1, WidthAssumption DEF IInv, TypeOK, Bookkeeping
  <2>2. Len(v4) \in Nat /\ Len(v6) \in Nat
    BY <1>2, <2>1
  <2>3. at - 1 \in 0..MaxU32
    BY <1>2, <1>3, <2>1, <2>2
  <2> QED
    BY <2>3, U32Is
<1>8. at - 1 = 0 <=> at = 1
  BY <1>2
<1>9. /\ s6'.prefix = Appended6(s6, v6, at - 1).prefix
      /\ s6'.pidx = Appended6(s6, v6, at - 1).pidx
      /\ s6'.suffix = Appended6(s6, v6, at - 1).suffix
      /\ s6'.vals = setVal(s6.vals, v6[at].vi)
  BY <1>3, <1>6, <1>7, <1>8 DEF Appended6
<1>10. /\ Strict(v6, kept) /\ Filling6(s6, v6, at - 1)
       /\ RowVals(s6.vals, v6, at - 1, log, intern, tab)
  BY <1>1 DEF FInv, Entries6, Stored6
<1>11. Filling6(s6', v6, at)
  <2> DEFINE c == at - 1
             t == s6'
  <2>1. c \in 0..kept - 1 /\ c + 1 = at /\ kept \in 0..Len(v6)
    BY <1>2, <1>3
  <2>2. s6.prefix \in Seq(Nat) /\ s6.pidx \in Seq(Nat) /\ s6.suffix \in Seq(Nat)
    <3>1. s6.pidx \in Seq(0..MaxU32)
      BY <1>2 DEF Store6
    <3>2. s6.pidx \in Seq(Nat)
      BY <3>1, SeqOfNat
    <3> QED
      BY <1>2, <3>2 DEF Store6
  <2>3. Filling6(s6, v6, c)
    BY <1>10
  <2>4. /\ t.prefix = Appended6(s6, v6, c).prefix /\ t.pidx = Appended6(s6, v6, c).pidx
        /\ t.suffix = Appended6(s6, v6, c).suffix
    BY <1>9
  <2> HIDE DEF c, t
  <2>5. Filling6(t, v6, c + 1)
    BY <1>2, <1>10, <2>1, <2>2, <2>3, <2>4, Filling6Adds
  <2> QED
    BY <2>1, <2>5 DEF t
<1>12. RowVals(s6'.vals, v6, at, log, intern, tab)
  <2> DEFINE m == at - 1
  <2>1. m \in Nat /\ m + 1 = at /\ m + 1 \in 1..Len(v6) /\ v6[m + 1].vi < n
    BY <1>3, <1>4
  <2>2. RowVals(s6.vals, v6, m, log, intern, tab)
    BY <1>10
  <2> HIDE DEF m
  <2>3. RowVals(setVal(s6.vals, v6[m + 1].vi), v6, m + 1, log, intern, tab)
    BY <1>1, <1>2, <1>4, <2>1, <2>2, RowSet DEF FInv, ValuesKept
  <2> QED
    BY <1>9, <2>1, <2>3
<1>13. Stored6'
  BY <1>3, <1>6, <1>11, <1>12 DEF Stored6, valstate
<1>14. Held6' = Held6
  BY <1>1, <1>6 DEF Held6
<1>15. Entries6'
  BY <1>1, <1>6, <1>14 DEF FInv, Entries6
<1>16. Entries4' /\ Stored4'
  BY <1>1, <1>6, FourStays DEF FInv, Later4, valstate
<1>17. ValuesKept'
  BY <1>1, <1>6, ValuesStay DEF FInv
<1>18. Serves'
  BY <1>6 DEF Serves
<1> QED
  BY <1>13, <1>15, <1>16, <1>17, <1>18 DEF FInv

(* The sentinel offset closes the last group, and the groups divide the    *)
(* kept entries (build6).                                                  *)
LEMMA Filled6FInv == ASSUME IInv, FInv, Filled6 PROVE FInv'
<1>1. /\ pc = "fill6" /\ at > kept /\ pc' = "release"
      /\ s6' = [s6 EXCEPT !.pidx = Append(s6.pidx, U32(kept))]
      /\ UNCHANGED <<intern, v4, v6, n, built, valstate, stats, s4, at, kept, log>>
  BY DEF Filled6, Goto, entries, loop
<1>2. v6 \in Seq(Entry) /\ kept \in Nat /\ at \in Nat /\ s6 \in Store6 /\ kept <= Len(v6)
  BY <1>1 DEF IInv, TypeOK, Bookkeeping
<1>3. /\ at <= kept + 1 /\ Filling6(s6, v6, at - 1)
      /\ RowVals(s6.vals, v6, at - 1, log, intern, tab)
      /\ kept = stats.Addrs6 /\ Strict(v6, kept)
  BY <1>1 DEF FInv, Stored6, Entries6
<1>4. at - 1 = kept
  BY <1>1, <1>2, <1>3
<1>5. U32(kept) = kept
  <2>1. v4 \in Seq(Entry) /\ n \in 0..MaxU32 /\ MaxU32 \in Nat /\ Len(v4) + Len(v6) = n
    BY <1>1, WidthAssumption DEF IInv, TypeOK, Bookkeeping
  <2>2. Len(v4) \in Nat /\ Len(v6) \in Nat
    BY <1>2, <2>1
  <2>3. kept \in 0..MaxU32
    BY <1>2, <2>1, <2>2
  <2> QED
    BY <2>3, U32Is
<1>6. /\ s6'.prefix = s6.prefix /\ s6'.suffix = s6.suffix /\ s6'.vals = s6.vals
      /\ s6'.pidx = Append(s6.pidx, kept)
  BY <1>1, <1>2, <1>5 DEF Store6
<1>7. Len(s6.pidx) = Len(s6.prefix) /\ Grouped6(s6, s6'.pidx, v6, kept)
  BY <1>3, <1>4, <1>6 DEF Filling6
<1>8. Len(s6'.pidx) = Len(s6'.prefix) + 1
  BY <1>2, <1>6, <1>7 DEF Store6
<1>9. Offsets6(s6', v6, kept) /\ RowVals(s6'.vals, v6, kept, log, intern, tab)
  BY <1>3, <1>4, <1>6, <1>7, <1>8 DEF Offsets6, Grouped6
<1>10. Stored6'
  BY <1>1, <1>9 DEF Stored6, valstate
<1>11. Held6' = Held6
  BY <1>1 DEF Held6
<1>12. Entries6'
  BY <1>1, <1>11 DEF FInv, Entries6
<1>13. Entries4' /\ Stored4'
  BY <1>1, FourStays DEF FInv, Later4, valstate
<1>14. ValuesKept'
  BY <1>1, ValuesStay DEF FInv
<1>15. Serves'
  BY <1>1 DEF Serves
<1> QED
  BY <1>10, <1>12, <1>13, <1>14, <1>15 DEF FInv

-----------------------------------------------------------------------------
(* Adding a pair.                                                          *)

(* An address that Add accepts or Lookup answers names a host, and a       *)
(* 32-bit one has a group and an octet in range (ipmap.go, builder.go).    *)
LEMMA HostType ==
    ASSUME NEW a \in Inputs, NamesHost(a)
    PROVE  /\ Names(a) \in AllHosts /\ Names(a) \in AddrKey
           /\ Names(a) = [kind |-> Unmap(a).kind, hi |-> Unmap(a).hi, lo |-> Unmap(a).lo]
           /\ Unmap(a).kind = "v4" => Unmap(a).hi < Groups4 /\ Unmap(a).lo < Octets
<1>1. Names(a) = [kind |-> Unmap(a).kind, hi |-> Unmap(a).hi, lo |-> Unmap(a).lo]
  BY DEF Names, Host
<1>2. Unmap(a).kind \in {"v4", "v6"} /\ Unmap(a).hi \in Nat /\ Unmap(a).lo \in Nat
  BY UnmapType DEF NamesHost
<1>3. Names(a) \in AllHosts /\ Names(a) \in AddrKey
  BY <1>1, <1>2 DEF AllHosts, AddrKey
<1>4. ASSUME Unmap(a).kind = "v4"
      PROVE  Unmap(a).hi < Groups4 /\ Unmap(a).lo < Octets
  <2>1. CASE Mapped(a)
    <3> DEFINE x == a.lo - MapBase
               gd == Groups4 * Octets
    <3>1. Octets \in Nat \ {0} /\ Groups4 \in Nat /\ MapBase \in Nat /\ gd \in Nat
      BY WidthAssumption
    <3>2. a.lo \in MapBase .. MapBase + gd - 1
      BY <2>1 DEF Mapped
    <3> HIDE DEF gd
    <3>3. x \in Nat /\ x < gd
      BY <3>1, <3>2
    <3> HIDE DEF x
    <3>4. x < Groups4 * Octets
      BY <3>3 DEF gd
    <3>5. x \div Octets < Groups4 /\ x % Octets \in 0..Octets - 1
      BY <3>1, <3>3, <3>4, QuotientBelow
    <3>6. x % Octets < Octets
      BY <3>1, <3>5
    <3>7. Unmap(a).hi = x \div Octets /\ Unmap(a).lo = x % Octets
      BY <2>1 DEF Unmap, x
    <3> QED
      BY <3>5, <3>6, <3>7
  <2>2. CASE ~Mapped(a)
    BY <1>4, <2>2, InputAssumption DEF Unmap
  <2> QED
    BY <2>1, <2>2
<1> QED
  BY <1>1, <1>3, <1>4

(* The value an accepted Add brings is found again under its sequence      *)
(* number, and the table lists each value once: a value seen before reuses *)
(* its id, a new one gets the next (Add in builder.go).                    *)
LEMMA RememberMeans ==
    ASSUME IInv, ValuesKept, pc = "open", pc' = "open", n < MaxU32, NEW val \in Values,
           NEW put \in PutRecords, put.val = val, put.host \in AllHosts, Remember(val),
           log' = Append(log, put), n' = n + 1, UNCHANGED <<intern, built, stats>>
    PROVE  ValuesKept'
<1>1. /\ vals \in Seq(Values) /\ tab \in Seq(Values) /\ ids \in Seq(0..MaxU32)
      /\ log \in Seq(PutRecords) /\ n \in Nat /\ n = Len(log) /\ MaxU32 \in Nat /\ intern \in BOOLEAN
      /\ byVal \in [DOMAIN byVal -> 0..MaxU32] /\ Len(tab) \in Nat /\ ~built
  BY WidthAssumption DEF IInv, TypeOK, ValuesKept, Logged, PutRecords
<1>2. /\ Len(log') = n + 1 /\ DOMAIN log = 1..n /\ DOMAIN log' = 1..n + 1 /\ log'[n + 1] = put
      /\ \A q \in 1..n : log'[q] = log[q]
  BY <1>1, AppendIs
<1> DEFINE known == {log[q].val : q \in DOMAIN log}
<1>3. {log'[q].val : q \in DOMAIN log'} = known \cup {val}
  <2>1. \A q \in 1..n + 1 : q = n + 1 \/ q \in 1..n
    BY <1>1
  <2>2. n + 1 \in 1..n + 1 /\ \A q \in 1..n : q \in 1..n + 1
    BY <1>1
  <2> QED
    BY <1>2, <2>1, <2>2
<1>4. Logged'
  <2>1. \A q \in 1..n + 1 : log'[q].host \in AllHosts
    <3> SUFFICES ASSUME NEW q \in 1..n + 1 PROVE log'[q].host \in AllHosts
      OBVIOUS
    <3>1. CASE q = n + 1
      BY <1>2, <3>1
    <3>2. CASE q # n + 1
      <4>1. q \in 1..n
        BY <1>1, <3>2
      <4> QED
        BY <1>2, <4>1 DEF ValuesKept, Logged
    <3> QED
      BY <3>1, <3>2
  <2> QED
    BY <1>2, <2>1 DEF Logged, AllHosts
<1>5. \A q \in 1..n : IF intern THEN tab[ids[q] + 1] = log[q].val ELSE vals[q] = log[q].val
  BY <1>2 DEF ValuesKept, Recalled
<1>6. /\ IF intern THEN Len(ids) = n ELSE Len(vals) = n
      /\ Cardinality(DOMAIN byVal) = Len(tab) /\ Len(tab) <= n
      /\ \A x \in DOMAIN byVal : byVal[x] < Len(tab)
      /\ \A k \in 1..Len(ids) : ids[k] < Len(tab)
  BY DEF IInv, Bookkeeping
<1>7. Cardinality(DOMAIN byVal') = Len(tab')
  BY RememberKeeps
<1>8. CASE ~intern
  <2>1. vals' = Append(vals, val)
    BY <1>8 DEF Remember
  <2>2. vals'[n + 1] = val /\ \A q \in 1..n : vals'[q] = vals[q]
    BY <1>1, <1>6, <1>8, <2>1, AppendIs
  <2>3. \A q \in 1..n + 1 : vals'[q] = log'[q].val
    <3> SUFFICES ASSUME NEW q \in 1..n + 1 PROVE vals'[q] = log'[q].val
      OBVIOUS
    <3>1. CASE q = n + 1
      BY <1>2, <2>2, <3>1
    <3>2. CASE q # n + 1
      <4>1. q \in 1..n
        BY <1>1, <3>2
      <4> QED
        BY <1>2, <1>5, <1>8, <2>2, <4>1
    <3> QED
      BY <3>1, <3>2
  <2>4. Recalled'
    BY <1>2, <1>8, <2>3 DEF Recalled
  <2> QED
    BY <1>1, <1>4, <1>8, <2>4 DEF ValuesKept, Tabled, Counted
<1>9. CASE intern
  <2>1. /\ DOMAIN byVal = known
        /\ \A x \in DOMAIN byVal : tab[byVal[x] + 1] = x
        /\ \A i \in 1..Len(tab) : tab[i] \in DOMAIN byVal /\ byVal[tab[i]] = i - 1
    BY <1>9 DEF ValuesKept, Tabled
  <2>2. \A q \in 1..n : ids[q] \in Nat /\ ids[q] + 1 \in 1..Len(tab)
    <3> SUFFICES ASSUME NEW q \in 1..n PROVE ids[q] \in Nat /\ ids[q] + 1 \in 1..Len(tab)
      OBVIOUS
    <3>1. ids[q] \in 0..MaxU32 /\ ids[q] < Len(tab)
      BY <1>1, <1>6, <1>9, SeqMember
    <3> QED
      BY <1>1, <3>1
  <2> HIDE DEF known
  <2>3. CASE val \in DOMAIN byVal
    <3>1. ids' = Append(ids, byVal[val]) /\ tab' = tab /\ byVal' = byVal
      BY <1>9, <2>3 DEF Remember
    <3>2. byVal[val] \in 0..MaxU32
      BY <1>1, <2>3
    <3>3. ids'[n + 1] = byVal[val] /\ \A q \in 1..n : ids'[q] = ids[q]
      BY <1>1, <1>6, <1>9, <3>1, <3>2, AppendIs
    <3>4. \A q \in 1..n + 1 : tab'[ids'[q] + 1] = log'[q].val
      <4> SUFFICES ASSUME NEW q \in 1..n + 1 PROVE tab'[ids'[q] + 1] = log'[q].val
        OBVIOUS
      <4>1. CASE q = n + 1
        BY <1>2, <2>1, <2>3, <3>1, <3>3, <4>1
      <4>2. CASE q # n + 1
        <5>1. q \in 1..n
          BY <1>1, <4>2
        <5> QED
          BY <1>2, <1>5, <1>9, <3>1, <3>3, <5>1
      <4> QED
        BY <4>1, <4>2
    <3>5. known \cup {val} = known
      BY <2>1, <2>3
    <3>6. {log'[q].val : q \in DOMAIN log'} = DOMAIN byVal'
      BY <1>3, <2>1, <3>1, <3>5
    <3>7. Recalled'
      BY <1>2, <1>9, <3>4 DEF Recalled
    <3>8. Tabled'
      BY <2>1, <3>1, <3>6 DEF Tabled
    <3>9. Counted'
      BY <1>1, <1>7, <3>6 DEF Counted
    <3> QED
      BY <1>4, <3>7, <3>8, <3>9 DEF ValuesKept
  <2>4. CASE val \notin DOMAIN byVal
    <3> DEFINE id == U32(Cardinality(DOMAIN byVal))
               t == Len(tab)
    <3>1. id = t /\ id \in 0..MaxU32 /\ t \in Nat
      BY <1>1, <1>6, U32Is
    <3>2. /\ byVal' = [x \in DOMAIN byVal \cup {val} |-> IF x = val THEN id ELSE byVal[x]]
          /\ tab' = Append(tab, val) /\ ids' = Append(ids, id)
      BY <1>9, <2>4 DEF Remember
    <3> HIDE DEF id
    <3>3. ids'[n + 1] = id /\ \A q \in 1..n : ids'[q] = ids[q]
      BY <1>1, <1>6, <1>9, <3>1, <3>2, AppendIs
    <3>4. Len(tab') = t + 1 /\ tab'[t + 1] = val /\ \A i \in 1..t : tab'[i] = tab[i]
      BY <1>1, <3>1, <3>2, AppendIs
    <3>5. /\ DOMAIN byVal' = DOMAIN byVal \cup {val} /\ byVal'[val] = id
          /\ \A x \in DOMAIN byVal : byVal'[x] = byVal[x]
      BY <2>4, <3>2
    <3>6. \A x \in DOMAIN byVal : byVal[x] + 1 \in 1..t
      <4> SUFFICES ASSUME NEW x \in DOMAIN byVal PROVE byVal[x] + 1 \in 1..t
        OBVIOUS
      <4>1. byVal[x] \in 0..MaxU32 /\ byVal[x] < t
        BY <1>1, <1>6
      <4> QED
        BY <1>1, <3>1, <4>1
    <3>7. \A q \in 1..n : ids[q] + 1 \in 1..t
      BY <2>2
    <3>8. \A i \in 1..t : tab[i] \in DOMAIN byVal /\ byVal[tab[i]] = i - 1
      BY <2>1
    <3> HIDE DEF t
    <3>9. \A q \in 1..n + 1 : tab'[ids'[q] + 1] = log'[q].val
      <4> SUFFICES ASSUME NEW q \in 1..n + 1 PROVE tab'[ids'[q] + 1] = log'[q].val
        OBVIOUS
      <4>1. CASE q = n + 1
        BY <1>2, <3>1, <3>3, <3>4, <4>1
      <4>2. CASE q # n + 1
        <5>1. q \in 1..n
          BY <1>1, <4>2
        <5>2. ids'[q] = ids[q] /\ log'[q] = log[q] /\ tab[ids[q] + 1] = log[q].val
          BY <1>2, <1>5, <1>9, <3>3, <5>1
        <5>3. tab'[ids[q] + 1] = tab[ids[q] + 1]
          BY <3>4, <3>7, <5>1
        <5> QED
          BY <5>2, <5>3
      <4> QED
        BY <4>1, <4>2
    <3>10. {log'[q].val : q \in DOMAIN log'} = DOMAIN byVal'
      BY <1>3, <2>1, <3>5
    <3>11. \A x \in DOMAIN byVal' : tab'[byVal'[x] + 1] = x
      <4> SUFFICES ASSUME NEW x \in DOMAIN byVal' PROVE tab'[byVal'[x] + 1] = x
        OBVIOUS
      <4>1. CASE x = val
        BY <3>1, <3>4, <3>5, <4>1
      <4>2. CASE x # val
        <5>1. x \in DOMAIN byVal
          BY <3>5, <4>2
        <5> QED
          BY <2>1, <3>4, <3>5, <3>6, <5>1
      <4> QED
        BY <4>1, <4>2
    <3>12. \A i \in 1..Len(tab') : tab'[i] \in DOMAIN byVal' /\ byVal'[tab'[i]] = i - 1
      <4> SUFFICES ASSUME NEW i \in 1..t + 1
                   PROVE  tab'[i] \in DOMAIN byVal' /\ byVal'[tab'[i]] = i - 1
        BY <3>4
      <4>1. CASE i = t + 1
        BY <3>1, <3>4, <3>5, <4>1
      <4>2. CASE i # t + 1
        <5>1. i \in 1..t
          BY <3>1, <4>2
        <5> QED
          BY <3>4, <3>5, <3>8, <5>1
      <4> QED
        BY <4>1, <4>2
    <3>13. Recalled'
      BY <1>2, <1>9, <3>9 DEF Recalled
    <3>14. Tabled'
      BY <3>10, <3>11, <3>12 DEF Tabled
    <3>15. Counted'
      BY <1>1, <1>7, <3>10 DEF Counted
    <3> QED
      BY <1>4, <3>13, <3>14, <3>15 DEF ValuesKept
  <2> QED
    BY <2>3, <2>4
<1> QED
  BY <1>1, <1>8, <1>9

(* An accepted Add gives its host one entry more, whose value is the one   *)
(* it brought; every other host keeps its answer (Add in builder.go).      *)
LEMMA AddFInv ==
    ASSUME IInv, FInv, NEW a \in Inputs, NEW val \in Values \cup {WrongWidth}, Add(a, val)
    PROVE  FInv'
<1> DEFINE u == Unmap(a)
           e == [hi |-> u.hi, lo |-> u.lo, vi |-> n]
           put == [host |-> Names(a), val |-> val]
<1>1. pc = "open" /\ pc' = "open" /\ UNCHANGED <<intern, built, stats, s4, s6>>
  BY DEF Add, IInv, TypeOK, mapstate
<1>2. NamesHost(a) /\ val \in Values /\ ~(n >= MaxU32)
  BY InputAssumption DEF Add, Refusal, NamesHost
<1>3. n < MaxU32 /\ n \in Nat /\ n \in 0..MaxU32 /\ U32(n) = n /\ n' = n + 1 /\ n = Len(log)
  BY <1>2, U32Is, WidthAssumption, SMTT(40) DEF IInv, TypeOK, Add, FInv, ValuesKept, Logged
<1>4. /\ v4 \in Seq(Entry) /\ v6 \in Seq(Entry) /\ log \in Seq(PutRecords)
  BY DEF IInv, TypeOK, PutRecords
<1>5. /\ Names(a) \in AllHosts /\ Names(a) \in AddrKey
      /\ Names(a) = [kind |-> u.kind, hi |-> u.hi, lo |-> u.lo]
      /\ u.kind = "v4" => u.hi < Groups4 /\ u.lo < Octets
  BY <1>2, HostType
<1>6. u.kind \in {"v4", "v6"} /\ u.hi \in Nat /\ u.lo \in Nat
  BY <1>2, UnmapType DEF NamesHost
<1>7. /\ IF u.kind = "v4" THEN v4' = Append(v4, e) /\ v6' = v6
                          ELSE v6' = Append(v6, e) /\ v4' = v4
      /\ Remember(val) /\ log' = Append(log, put)
  BY <1>3 DEF Add, StoredAs, Names
<1>8. e \in Entry /\ put \in PutRecords /\ e.vi = Len(log) /\ put.host.kind = u.kind
      /\ put.host = [kind |-> put.host.kind, hi |-> e.hi, lo |-> e.lo]
      /\ put.val = val /\ put.host \in AllHosts /\ e.hi = u.hi /\ e.lo = u.lo
  BY <1>2, <1>3, <1>5, <1>6 DEF Entry, PutRecords
<1> HIDE DEF e, put, u
<1>9. ValuesKept'
  BY <1>1, <1>2, <1>3, <1>7, <1>8, RememberMeans DEF FInv
<1>10. Owns(log, v4, DOMAIN v4, "v4") /\ Owns(log, v6, DOMAIN v6, "v6") /\ Small(v4, Len(v4))
  BY <1>1 DEF FInv, Entries4, Entries6, Held4, Held6
<1>11. /\ Owns(log', v4', DOMAIN v4', "v4") /\ Owns(log', v6', DOMAIN v6', "v6")
       /\ Small(v4', Len(v4'))
  <2>1. CASE u.kind = "v4"
    <3>1. v4' = Append(v4, e) /\ v6' = v6
      BY <1>7, <2>1
    <3>2. Owns(log', v4', DOMAIN v4', "v4")
      BY <1>4, <1>7, <1>8, <1>10, <2>1, <3>1, OwnsAppend
    <3>3. Owns(log', v6', DOMAIN v6', "v6")
      BY <1>4, <1>7, <1>8, <1>10, <2>1, <3>1, OwnsOther
    <3>4. Small(v4', Len(v4'))
      <4> DEFINE m == Len(v4)
      <4>1. m \in Nat
        BY <1>4
      <4>2. Len(v4') = m + 1 /\ v4'[m + 1] = e /\ \A i \in 1..m : v4'[i] = v4[i]
        BY <1>4, <1>8, <3>1, <4>1, AppendIs
      <4>3. \A i \in 1..m : v4[i].hi < Groups4 /\ v4[i].lo < Octets
        BY <1>10 DEF Small
      <4>4. e.hi < Groups4 /\ e.lo < Octets
        BY <1>5, <1>8, <2>1
      <4> HIDE DEF m
      <4>5. \A i \in 1..m + 1 : i = m + 1 \/ i \in 1..m
        BY <4>1
      <4>6. \A i \in 1..m + 1 : v4'[i].hi < Groups4 /\ v4'[i].lo < Octets
        BY <4>2, <4>3, <4>4, <4>5
      <4> QED
        BY <4>2, <4>6 DEF Small
    <3> QED
      BY <3>2, <3>3, <3>4
  <2>2. CASE u.kind = "v6"
    <3>1. v6' = Append(v6, e) /\ v4' = v4
      BY <1>7, <2>2
    <3>2. Owns(log', v6', DOMAIN v6', "v6")
      BY <1>4, <1>7, <1>8, <1>10, <2>2, <3>1, OwnsAppend
    <3>3. Owns(log', v4', DOMAIN v4', "v4")
      BY <1>4, <1>7, <1>8, <1>10, <2>2, <3>1, OwnsOther
    <3> QED
      BY <1>10, <3>1, <3>2, <3>3
  <2> QED
    BY <1>6, <2>1, <2>2
<1>12. Held4' = DOMAIN v4' /\ Held6' = DOMAIN v6'
  BY <1>1 DEF Held4, Held6
<1>13. Entries4' /\ Entries6'
  BY <1>1, <1>11, <1>12 DEF Entries4, Entries6
<1>14. Stored4' /\ Stored6' /\ Serves'
  BY <1>1 DEF FInv, Stored4, Stored6, Serves
<1> QED
  BY <1>9, <1>13, <1>14 DEF FInv

-----------------------------------------------------------------------------
(* The theorems about answers.                                             *)

(* Every step of a Builder keeps what it means.                            *)
LEMMA NextFInv == IInv /\ FInv /\ [Next]_vars => FInv'
<1> SUFFICES ASSUME IInv, FInv, [Next]_vars PROVE FInv'
  OBVIOUS
<1>1. ASSUME NEW a \in Inputs, NEW val \in Values \cup {WrongWidth}, Add(a, val)
      PROVE  FInv'
  BY <1>1, AddFInv
<1>2. ASSUME NEW a \in Inputs, NEW val \in Values \cup {WrongWidth}, AddRefused(a, val)
      PROVE  FInv'
  BY <1>2, QuietFInv DEF AddRefused
<1>3. CASE Build
  BY <1>3, BuildFInv
<1>4. CASE BuildStep
  BY <1>4, Sort4FInv, Dedupe4FInv, Deduped4FInv, Count4FInv, Sum4FInv, Fill4FInv,
     Filled4FInv, Sort6FInv, Dedupe6FInv, Deduped6FInv, Fill6FInv, Filled6FInv,
     ReleaseFInv DEF BuildStep
<1>5. CASE Misuse
  BY <1>5, QuietFInv DEF Misuse
<1>6. CASE UNCHANGED vars
  BY <1>6, QuietFInv DEF vars
<1> QED
  BY <1>1, <1>2, <1>3, <1>4, <1>5, <1>6 DEF Next

(* In every phase of every build the entries and the stores stand for the  *)
(* puts so far: nothing is lost by the sort, by the in-place dedupe, by    *)
(* the counting of groups or by the release, and every put finds its value *)
(* again.  The functional theorems below all follow from this invariant    *)
(* (builder.go, store.go, values.go).                                      *)
THEOREM Meaning == Spec => [](IInv /\ FInv)
<1>1. Init => IInv /\ FInv
  BY InitIInv, InitFInv
<1>2. IInv /\ FInv /\ [Next]_vars => (IInv /\ FInv)'
  BY NextIInv, NextFInv
<1> QED
  BY <1>1, <1>2, PTL DEF Spec

(* A lookup reads the two words of an address, and no more (store.go).     *)
LEMMA LookupReads ==
    ASSUME NEW s, NEW a, NEW b, a.hi = b.hi, a.lo = b.lo
    PROVE  lookup4(s, a) = lookup4(s, b) /\ lookup6(s, a) = lookup6(s, b)
<1>1. lookup4(s, a) = lookup4(s, b)
  BY DEF lookup4
<1>2. lookup6(s, a) = lookup6(s, b)
  BY DEF lookup6
<1> QED
  BY <1>1, <1>2

(* A finished Map answers with the last put of each host (store.go).       *)
LEMMA LastWinsNow == IInv /\ FInv => AnswersLastWins
<1> SUFFICES ASSUME IInv, FInv, pc = "done", NEW a \in Inputs
             PROVE  Lookup(s4, s6, a) = IF NamesHost(a) THEN Answer(Names(a)) ELSE Miss
  BY DEF AnswersLastWins
<1>1. CASE ~NamesHost(a)
  BY <1>1 DEF Lookup
<1>2. CASE NamesHost(a)
  <2> DEFINE u == Unmap(a)
             h == Names(a)
  <2>1. h \in AddrKey /\ h = [kind |-> u.kind, hi |-> u.hi, lo |-> u.lo]
        /\ (u.kind = "v4" => u.hi < Groups4) /\ u.kind \in {"v4", "v6"}
    BY <1>2, HostType, UnmapType DEF NamesHost
  <2>2. Lookup(s4, s6, a) = IF u.kind = "v4" THEN lookup4(s4, u) ELSE lookup6(s6, u)
    BY <1>2 DEF Lookup
  <2>3. Answer(h) = AnswerIn(log, h)
    BY DEF Answer, AnswerIn, PutsOf, PutsIn
  <2> HIDE DEF u, h
  <2>4. h.kind = u.kind /\ h.hi = u.hi /\ h.lo = u.lo
    BY <2>1
  <2>5. lookup4(s4, u) = lookup4(s4, h) /\ lookup6(s6, u) = lookup6(s6, h)
    BY <2>4, LookupReads
  <2>6. /\ h.kind = "v4" /\ h.hi < Groups4 => lookup4(s4, h) = AnswerIn(log, h)
        /\ h.kind = "v6" => lookup6(s6, h) = AnswerIn(log, h)
    BY <2>1 DEF FInv, Serves
  <2>7. Lookup(s4, s6, a) = Answer(h)
    BY <2>1, <2>2, <2>3, <2>4, <2>5, <2>6
  <2> QED
    BY <1>2, <2>7 DEF h
<1> QED
  BY <1>1, <1>2

(* Last added wins, for every sequence of Adds, both families, both value  *)
(* layouts and every order the sort may return: a lookup on the built map  *)
(* answers what the last accepted Add of that host carried, whichever      *)
(* spelling either used, and an address Add refuses is a miss (builder.go, *)
(* store.go).                                                              *)
THEOREM LastWins == Spec => []AnswersLastWins
  BY LastWinsNow, Meaning, PTL

(* What Build produces, Open accepts, whatever was added.  The hypothesis  *)
(* says that the /24 groups before the last do not fill uint32 (in Go,     *)
(* (2^24 - 1) * 2^8 < 2^32 - 1): no group then begins at an offset whose   *)
(* successor wraps (builder.go, validate.go).                              *)
THEOREM BuiltIsValid ==
    ASSUME (Groups4 - 1) * Octets < MaxU32
    PROVE  Spec => []BuiltStoreValid
<1>1. IInv /\ FInv => BuiltStoreValid
  BY DEF FInv, Serves, BuiltStoreValid
<1> QED
  BY <1>1, Meaning, PTL

-----------------------------------------------------------------------------
(* The refinement of AddrMap.                                              *)

(* A put changes the answer of its own host, to its own value, and no      *)
(* other answer.                                                           *)
LEMMA AnswerAdds ==
    ASSUME NEW L \in Seq(PutRecords), NEW put \in PutRecords, NEW h
    PROVE  AnswerIn(Append(L, put), h) = IF h = put.host THEN put.val ELSE AnswerIn(L, h)
<1> DEFINE M == Append(L, put)
           c == Len(L)
<1>1. c \in Nat /\ DOMAIN L = 1..c
  OBVIOUS
<1>2. DOMAIN M = 1..c + 1 /\ M[c + 1] = put /\ \A q \in 1..c : M[q] = L[q]
  BY <1>1
<1> HIDE DEF M, c
<1>3. CASE h = put.host
  <2>1. c + 1 \in PutsIn(M, h) /\ PutsIn(M, h) \in SUBSET Nat /\ \A k \in PutsIn(M, h) : k <= c + 1
    BY <1>1, <1>2, <1>3 DEF PutsIn
  <2>2. Max(PutsIn(M, h)) \in PutsIn(M, h) /\ c + 1 <= Max(PutsIn(M, h))
    <3>1. c + 1 \in Nat /\ PutsIn(M, h) # {}
      BY <1>1, <2>1
    <3> QED
      BY <2>1, <3>1, MaxIs
  <2>3. Max(PutsIn(M, h)) = c + 1
    BY <1>1, <2>1, <2>2
  <2>4. AnswerIn(M, h) = M[c + 1].val
    BY <2>1, <2>3 DEF AnswerIn
  <2> QED
    BY <1>2, <1>3, <2>4 DEF M
<1>4. CASE h # put.host
  <2>1. PutsIn(M, h) = PutsIn(L, h)
    <3>1. ASSUME NEW q \in PutsIn(M, h) PROVE q \in PutsIn(L, h)
      <4>1. q # c + 1 /\ q \in 1..c + 1
        BY <1>2, <1>4 DEF PutsIn
      <4>2. q \in 1..c
        BY <1>1, <4>1
      <4> QED
        BY <1>1, <1>2, <4>2 DEF PutsIn
    <3>2. ASSUME NEW q \in PutsIn(L, h) PROVE q \in PutsIn(M, h)
      <4>1. q \in 1..c
        BY <1>1 DEF PutsIn
      <4>2. q \in 1..c + 1
        BY <1>1, <4>1
      <4> QED
        BY <1>2, <4>1, <4>2 DEF PutsIn
    <3> QED
      BY <3>1, <3>2
  <2>2. ASSUME PutsIn(L, h) # {} PROVE M[Max(PutsIn(L, h))] = L[Max(PutsIn(L, h))]
    <3>1. PutsIn(L, h) \in SUBSET Nat /\ \A k \in PutsIn(L, h) : k <= c /\ k \in 1..c
      BY <1>1 DEF PutsIn
    <3>2. Max(PutsIn(L, h)) \in PutsIn(L, h)
      BY <1>1, <2>2, <3>1, MaxIs
    <3> QED
      BY <1>2, <3>1, <3>2
  <2>3. AnswerIn(M, h) = AnswerIn(L, h)
    BY <2>1, <2>2 DEF AnswerIn
  <2> QED
    BY <1>4, <2>3 DEF M
<1> QED
  BY <1>3, <1>4

(* Until Build returns, the value remembered for the latest live entry of  *)
(* a host is the value of the host's last put.                             *)
LEMMA LiveIsLast ==
    ASSUME IInv, FInv, pc # "done", NEW es \in Seq(Entry), NEW live \in SUBSET (1..Len(es)),
           NEW h \in AddrKey, Owns(log, es, live, h.kind)
    PROVE  LiveAnswer(es, live, h) = AnswerIn(log, h)
<1> DEFINE own == {es[k].vi : k \in {i \in live : SameAddr(es[i], h)}}
           p == Max(PutsIn(log, h))
<1>1. log \in Seq(PutRecords)
  BY DEF IInv, TypeOK, PutRecords
<1>2. /\ own = {} <=> PutsIn(log, h) = {}
      /\ own # {} => Max(own) + 1 = p /\ p \in DOMAIN log
  BY <1>1, LatestIsLast, ZenonT(60)
<1>3. LiveAnswer(es, live, h) = IF own = {} THEN Miss ELSE added(Max(own))
  BY DEF LiveAnswer
<1> HIDE DEF own
<1>4. AnswerIn(log, h) = IF PutsIn(log, h) = {} THEN Miss ELSE log[p].val
  BY DEF AnswerIn
<1>5. \A q \in DOMAIN log : IF intern THEN tab[ids[q] + 1] = log[q].val
                                      ELSE vals[q] = log[q].val
  BY DEF FInv, ValuesKept, Recalled
<1> HIDE DEF p
<1>6. own # {} => added(Max(own)) = log[p].val
  BY <1>2, <1>5 DEF added
<1> QED
  BY <1>2, <1>3, <1>4, <1>6

(* Once the 32-bit store is filled it answers with the last put of every   *)
(* 32-bit host.                                                            *)
LEMMA Served4 ==
    ASSUME IInv, FInv, pc \in Later4, NEW h \in AddrKey, h.kind = "v4", h.hi < Groups4
    PROVE  lookup4(s4, h) = AnswerIn(log, h)
<1>1. /\ v4 \in Seq(Entry) /\ log \in Seq(PutRecords) /\ intern \in BOOLEAN /\ stats.Addrs4 \in Nat
  BY DEF IInv, TypeOK, PutRecords, Statistics
<1>2. /\ Small(v4, Len(v4)) /\ Owns(log, v4, 1..stats.Addrs4, "v4")
      /\ stats.Addrs4 <= Len(v4) /\ Strict(v4, stats.Addrs4)
  BY DEF FInv, Entries4, Held4, Later4
<1>3. stats.Addrs4 \in 0..Len(v4) /\ Small(v4, stats.Addrs4)
  BY <1>1, <1>2 DEF Small
<1>4. IF stats.Addrs4 = 0 THEN s4 = Nil4
      ELSE Offsets4(s4, v4, stats.Addrs4) /\ RowVals(s4.vals, v4, stats.Addrs4, log, intern, tab)
  BY DEF FInv, Stored4, Later4
<1>5. CASE stats.Addrs4 = 0
  <2>1. \A k \in 1..stats.Addrs4 : ~SameAddr(v4[k], h)
    BY <1>5
  <2>2. AnswerIn(log, h) = Miss
    BY <1>1, <1>2, <1>3, <2>1, KeptIsLast
  <2>3. s4.idx = <<>>
    BY <1>4, <1>5 DEF Nil4
  <2> QED
    BY <2>2, <2>3 DEF lookup4
<1>6. CASE stats.Addrs4 # 0
  <2>1. stats.Addrs4 \in 1..Len(v4)
    BY <1>1, <1>3, <1>6
  <2> QED
    BY <1>1, <1>2, <1>3, <1>4, <1>6, <2>1, Answers4
<1> QED
  BY <1>5, <1>6

(* Once the 128-bit store is closed it answers with the last put of every  *)
(* 128-bit host.                                                           *)
LEMMA Served6 ==
    ASSUME IInv, FInv, pc = "release", NEW h \in AddrKey, h.kind = "v6"
    PROVE  lookup6(s6, h) = AnswerIn(log, h)
<1>1. /\ v6 \in Seq(Entry) /\ log \in Seq(PutRecords) /\ intern \in BOOLEAN /\ stats.Addrs6 \in Nat
      /\ s6.prefix \in Seq(Nat)
  BY DEF IInv, TypeOK, PutRecords, Statistics, Store6
<1>2. /\ Owns(log, v6, 1..stats.Addrs6, "v6") /\ stats.Addrs6 <= Len(v6) /\ Strict(v6, stats.Addrs6)
      /\ Offsets6(s6, v6, stats.Addrs6) /\ RowVals(s6.vals, v6, stats.Addrs6, log, intern, tab)
  BY DEF FInv, Entries6, Held6, Stored6
<1>3. stats.Addrs6 \in 0..Len(v6)
  BY <1>1, <1>2
<1> QED
  BY <1>1, <1>2, <1>3, Answers6

\* In every phase, the dictionary is what the accepted Adds make of it.
LogDict == [h \in AllHosts |-> AnswerIn(log, h)]

(* In every phase, the dictionary that the entries or the stores stand for *)
(* is the one the accepted Adds make: the refinement mapping is a function *)
(* of the history.                                                         *)
LEMMA DictIs == IInv /\ FInv => LiveDict = LogDict
<1> SUFFICES ASSUME IInv, FInv PROVE LiveDict = LogDict
  OBVIOUS
<1>1. /\ v4 \in Seq(Entry) /\ v6 \in Seq(Entry) /\ kept \in Nat /\ at \in Nat \ {0}
      /\ pc \in Phases /\ pc # "panic"
  BY DEF IInv, TypeOK, NeverPanics
<1>2. DOMAIN v4 = 1..Len(v4) /\ DOMAIN v6 = 1..Len(v6) /\ Len(v4) \in Nat /\ Len(v6) \in Nat
  BY <1>1
<1> SUFFICES ASSUME NEW h \in AllHosts
             PROVE  (IF h.kind = "v4" THEN Answer4(h) ELSE Answer6(h)) = AnswerIn(log, h)
  BY DEF LiveDict, LogDict
<1>3. h \in AddrKey /\ (h.kind = "v4" => h.hi < Groups4) /\ h.kind \in {"v4", "v6"}
  <2>1. PICK a \in Inputs : NamesHost(a) /\ h = Names(a)
    BY DEF AllHosts
  <2>2. Names(a) \in AddrKey
        /\ Names(a) = [kind |-> Unmap(a).kind, hi |-> Unmap(a).hi, lo |-> Unmap(a).lo]
        /\ (Unmap(a).kind = "v4" => Unmap(a).hi < Groups4)
    BY <2>1, HostType
  <2>3. h.kind = Unmap(a).kind /\ h.hi = Unmap(a).hi /\ h \in AddrKey
    BY <2>1, <2>2
  <2>4. h.kind \in {"v4", "v6"}
    BY <2>3 DEF AddrKey
  <2> QED
    BY <2>2, <2>3, <2>4
<1>4. ASSUME h.kind = "v4" PROVE Answer4(h) = AnswerIn(log, h)
  <2>1. CASE pc \in {"open", "sort4", "dedupe4", "count4", "sum4", "fill4"}
    <3>1. Owns(log, v4, Live4, "v4") /\ Live4 \in SUBSET (1..Len(v4))
      <4>1. CASE pc \in {"open", "sort4"}
        BY <1>2, <4>1 DEF FInv, Entries4, Held4, Live4
      <4>2. CASE pc = "dedupe4"
        <5>1. kept < at /\ at <= Len(v4) + 1
          BY <4>2 DEF IInv, Bookkeeping
        <5>2. Unsettled(v4) \in SUBSET (1..Len(v4))
          BY <1>1, <1>2, <5>1 DEF Unsettled
        <5> QED
          BY <4>2, <5>2 DEF FInv, Entries4, Held4, Live4
      <4>3. CASE pc \in {"count4", "sum4", "fill4"}
        <5>1. kept = stats.Addrs4 /\ kept <= Len(v4)
          BY <4>3 DEF FInv, Entries4
        <5>2. 1..kept \in SUBSET (1..Len(v4))
          BY <1>1, <1>2, <5>1
        <5> QED
          BY <4>3, <5>1, <5>2 DEF FInv, Entries4, Held4, Live4
      <4> QED
        BY <2>1, <4>1, <4>2, <4>3
    <3>2. LiveAnswer(v4, Live4, h) = AnswerIn(log, h)
      BY <1>1, <1>3, <1>4, <2>1, <3>1, LiveIsLast
    <3> QED
      BY <2>1, <3>2 DEF Answer4
  <2>2. CASE pc \in Later4
    <3>1. lookup4(s4, h) = AnswerIn(log, h)
      BY <1>3, <1>4, <2>2, Served4
    <3> QED
      BY <2>2, <3>1 DEF Answer4, Later4
  <2>3. CASE pc = "done"
    <3>1. lookup4(s4, h) = AnswerIn(log, h)
      BY <1>3, <1>4, <2>3 DEF FInv, Serves
    <3> QED
      BY <2>3, <3>1 DEF Answer4
  <2> QED
    BY <1>1, <2>1, <2>2, <2>3 DEF Phases, Later4
<1>5. ASSUME h.kind = "v6" PROVE Answer6(h) = AnswerIn(log, h)
  <2>1. CASE pc \notin {"release", "done"}
    <3>1. Owns(log, v6, Live6, "v6") /\ Live6 \in SUBSET (1..Len(v6))
      <4>1. CASE pc = "dedupe6"
        <5>1. kept < at /\ at <= Len(v6) + 1
          BY <4>1 DEF IInv, Bookkeeping
        <5>2. Unsettled(v6) \in SUBSET (1..Len(v6))
          BY <1>1, <1>2, <5>1 DEF Unsettled
        <5> QED
          BY <4>1, <5>2 DEF FInv, Entries6, Held6, Live6
      <4>2. CASE pc = "fill6"
        <5>1. kept = stats.Addrs6 /\ kept <= Len(v6)
          BY <4>2 DEF FInv, Entries6
        <5>2. 1..kept \in SUBSET (1..Len(v6))
          BY <1>1, <1>2, <5>1
        <5> QED
          BY <4>2, <5>1, <5>2 DEF FInv, Entries6, Held6, Live6
      <4>3. CASE pc \notin {"dedupe6", "fill6"}
        BY <1>2, <2>1, <4>3 DEF FInv, Entries6, Held6, Live6
      <4> QED
        BY <4>1, <4>2, <4>3
    <3>2. LiveAnswer(v6, Live6, h) = AnswerIn(log, h)
      BY <1>1, <1>3, <1>5, <2>1, <3>1, LiveIsLast
    <3> QED
      BY <2>1, <3>2 DEF Answer6
  <2>2. CASE pc = "release"
    <3>1. lookup6(s6, h) = AnswerIn(log, h)
      BY <1>3, <1>5, <2>2, Served6
    <3> QED
      BY <2>2, <3>1 DEF Answer6
  <2>3. CASE pc = "done"
    <3>1. lookup6(s6, h) = AnswerIn(log, h)
      BY <1>3, <1>5, <2>3 DEF FInv, Serves
    <3> QED
      BY <2>3, <3>1 DEF Answer6
  <2> QED
    BY <2>1, <2>2, <2>3
<1> QED
  BY <1>3, <1>4, <1>5

(* An empty Builder is AddrMap's empty dictionary.                         *)
LEMMA InitMapped == Init => AM!AInit
<1> SUFFICES ASSUME Init PROVE AM!AInit
  OBVIOUS
<1>1. LiveDict = [h \in AllHosts |-> AnswerIn(log, h)]
  BY InitIInv, InitFInv, DictIs DEF LogDict
<1>2. \A h : PutsIn(log, h) = {}
  BY DEF Init, PutsIn
<1>3. LiveDict = [h \in AllHosts |-> Miss]
  BY <1>1, <1>2 DEF AnswerIn
<1> QED
  BY <1>3 DEF Init, AM!AInit

(* The dictionary after a step is what the history says then.              *)
LEMMA DictIsNext == IInv' /\ FInv' => LiveDict' = LogDict'
<1>1. (IInv /\ FInv => LiveDict = LogDict)'
  BY DictIs, PTL
<1> QED
  BY <1>1

(* A step of Build before its return, a refused Add and a misuse change    *)
(* nothing that AddrMap sees.                                              *)
LEMMA QuietMapped ==
    ASSUME IInv, FInv, IInv', FInv', UNCHANGED <<n, log>>, pc' = "done" <=> pc = "done"
    PROVE  UNCHANGED AM!avars
<1>1. LiveDict = LogDict /\ LiveDict' = LogDict'
  BY DictIs, DictIsNext
<1>2. LogDict' = LogDict
  BY DEF LogDict, AllHosts, AnswerIn, PutsIn
<1> QED
  BY <1>1, <1>2 DEF AM!avars

(* An accepted Add is one Put of AddrMap, below the capacity.              *)
LEMMA AddMapped ==
    ASSUME IInv, FInv, IInv', FInv', NEW a \in Inputs, NEW val \in Values \cup {WrongWidth},
           Add(a, val)
    PROVE  AM!ANext
<1> DEFINE put == [host |-> Names(a), val |-> val]
<1>1. pc = "open" /\ pc' = "open" /\ n' = n + 1 /\ log' = Append(log, put)
  BY DEF Add, IInv, TypeOK, Names
<1>2. NamesHost(a) /\ val \in Values /\ ~(n >= MaxU32)
  BY InputAssumption DEF Add, Refusal, NamesHost
<1>3. n < MaxU32
  <2>1. n \in 0..MaxU32 /\ MaxU32 \in Nat
    BY WidthAssumption DEF IInv, TypeOK
  <2> QED
    BY <1>2, <2>1
<1>4. Names(a) \in AllHosts /\ put \in PutRecords /\ log \in Seq(PutRecords)
      /\ put.host = Names(a) /\ put.val = val
  BY <1>2, HostType DEF PutRecords, IInv, TypeOK
<1> HIDE DEF put
<1>5. \A h : AnswerIn(log', h) = IF h = Names(a) THEN val ELSE AnswerIn(log, h)
  BY <1>1, <1>4, AnswerAdds
<1>6. LiveDict = LogDict /\ LiveDict' = LogDict'
  BY DictIs, DictIsNext
<1>7. LogDict' = [h \in AllHosts |-> AnswerIn(log', h)]
  BY DEF LogDict, AllHosts, AnswerIn, PutsIn
<1>8. LogDict' = [LogDict EXCEPT ![Names(a)] = val]
  BY <1>4, <1>5, <1>7 DEF LogDict
<1>9. AM!Put(Names(a), val)
  BY <1>1, <1>3, <1>6, <1>8 DEF AM!Put
<1> QED
  BY <1>2, <1>4, <1>9 DEF AM!ANext

(* The return of Build seals AddrMap's dictionary, with the answers it     *)
(* had.                                                                    *)
LEMMA ReleaseMapped == ASSUME IInv, FInv, IInv', FInv', Release PROVE AM!ANext
<1>1. pc = "release" /\ pc' = "done" /\ n' = n /\ log' = log
  BY DEF Release, Goto
<1>2. LiveDict = LogDict /\ LiveDict' = LogDict'
  BY DictIs, DictIsNext
<1>3. LogDict' = LogDict
  BY <1>1 DEF LogDict, AllHosts, AnswerIn, PutsIn
<1> QED
  BY <1>1, <1>2, <1>3 DEF AM!ANext, AM!Seal

(* Every step of a Builder is a step of AddrMap, or changes nothing that   *)
(* AddrMap sees.                                                           *)
LEMMA NextMapped ==
    ASSUME IInv, FInv, IInv', FInv', [Next]_vars
    PROVE  [AM!ANext]_(AM!avars)
<1>1. ASSUME NEW a \in Inputs, NEW val \in Values \cup {WrongWidth}, Add(a, val)
      PROVE  AM!ANext
  BY <1>1, AddMapped
<1>2. ASSUME NEW a \in Inputs, NEW val \in Values \cup {WrongWidth}, AddRefused(a, val)
      PROVE  UNCHANGED AM!avars
  BY <1>2, QuietMapped DEF AddRefused
<1>3. CASE Build
  BY <1>3, QuietMapped DEF Build, Goto, IInv, TypeOK
<1>4. CASE Release
  BY <1>4, ReleaseMapped
<1>5. CASE \/ Sort4 \/ Dedupe4 \/ Deduped4 \/ Count4 \/ Sum4 \/ Fill4 \/ Filled4
           \/ Sort6 \/ Dedupe6 \/ Deduped6 \/ Fill6 \/ Filled6
  <2>1. UNCHANGED <<n, log>>
    BY <1>5 DEF Sort4, Dedupe4, Deduped4, Count4, Sum4, Fill4, Filled4, Sort6, Dedupe6,
       Deduped6, Fill6, Filled6, Panic
  <2>2. pc # "done" /\ pc' # "done"
    BY <1>5 DEF Sort4, Dedupe4, Deduped4, Count4, Sum4, Fill4, Filled4, Sort6, Dedupe6,
       Deduped6, Fill6, Filled6, Panic, Goto
  <2> QED
    BY <2>1, <2>2, QuietMapped
<1>6. CASE Misuse
  BY <1>6, QuietMapped DEF Misuse
<1>7. CASE UNCHANGED vars
  BY <1>7, QuietMapped DEF vars
<1> QED
  BY <1>1, <1>2, <1>3, <1>4, <1>5, <1>6, <1>7 DEF Next, BuildStep

(* A Builder and the Map it builds implement the dictionary of AddrMap,    *)
(* for every instance: an accepted Add is one Put and is taken only below  *)
(* the cap, no step of Build loses, revives or changes an answer on the    *)
(* way from the entries to the stores, and the finished map is frozen      *)
(* (builder.go, store.go).                                                 *)
THEOREM Implements == Spec => ImplementsAddrMap
<1>1. Spec => [](IInv /\ FInv)
  BY Meaning
<1>2. IInv /\ FInv /\ (IInv /\ FInv)' /\ [Next]_vars => [AM!ANext]_(AM!avars)
  BY NextMapped
<1> QED
  BY <1>1, <1>2, InitMapped, PTL DEF Spec, ImplementsAddrMap, AM!ASpec

-----------------------------------------------------------------------------
(* The statistics: a put that is gone was counted.                         *)

(* The puts of a family that no live entry stands for.                     *)
Gone(L, es, live, kind) ==
    {q \in DOMAIN L : L[q].host.kind = kind /\ \A k \in live : es[k].vi # q - 1}

(* Among puts G, those whose value is not what their host answers.         *)
Lost(L, G) == {q \in G : L[q].val # AnswerIn(L, L[q].host)}

\* The entries of a run that differ in value from its survivor.
Clashes(L, es, i, j) == {x \in i..j - 1 : L[es[x].vi + 1].val # L[es[j].vi + 1].val}

\* The hosts of a family that have a put.
HostsIn(L, kind) == {h \in AllHosts : h.kind = kind /\ PutsIn(L, h) # {}}

(* Two sets that correspond one to one have one size.                      *)
LEMMA SameCount ==
    ASSUME NEW S, IsFiniteSet(S), NEW T, NEW f \in [S -> T],
           \A x, y \in S : f[x] = f[y] => x = y, \A t \in T : \E x \in S : f[x] = t
    PROVE  IsFiniteSet(T) /\ Cardinality(T) = Cardinality(S)
<1>1. f \in Bijection(S, T)
  BY DEF Bijection, Injection, Surjection, IsInjective
<1> QED
  BY <1>1, FS_Bijection DEF ExistsBijection

(* The sizes of two disjoint sets add up.                                  *)
LEMMA DisjointCount ==
    ASSUME NEW S, IsFiniteSet(S), NEW T, IsFiniteSet(T), S \cap T = {}
    PROVE  IsFiniteSet(S \cup T) /\ Cardinality(S \cup T) = Cardinality(S) + Cardinality(T)
<1>1. Cardinality(S) \in Nat /\ Cardinality(T) \in Nat /\ Cardinality(S \cap T) = 0
  BY FS_CardinalityType, FS_EmptySet
<1>2. Cardinality(S \cup T) = Cardinality(S) + Cardinality(T) - Cardinality(S \cap T)
  BY FS_Union
<1> QED
  BY <1>1, <1>2, FS_Union

(* The puts that are gone, and those lost among them, can be counted.      *)
LEMMA GoneFinite ==
    ASSUME NEW L \in Seq(PutRecords), NEW es, NEW live, NEW kind
    PROVE  /\ IsFiniteSet(Gone(L, es, live, kind))
           /\ IsFiniteSet(Lost(L, Gone(L, es, live, kind)))
           /\ Cardinality(Gone(L, es, live, kind)) \in Nat
           /\ Cardinality(Lost(L, Gone(L, es, live, kind))) \in Nat
<1>1. IsFiniteSet(DOMAIN L)
  <2>1. Len(L) \in Nat /\ DOMAIN L = 1..Len(L)
    OBVIOUS
  <2>2. 1 \in Int /\ Len(L) \in Int
    BY <2>1
  <2> QED
    BY <2>1, <2>2, FS_Interval
<1>2. Gone(L, es, live, kind) \in SUBSET (DOMAIN L)
  BY DEF Gone
<1>3. Lost(L, Gone(L, es, live, kind)) \in SUBSET (DOMAIN L)
  BY <1>2 DEF Lost
<1>4. IsFiniteSet(Gone(L, es, live, kind)) /\ IsFiniteSet(Lost(L, Gone(L, es, live, kind)))
  BY <1>1, <1>2, <1>3, FS_Subset
<1> QED
  BY <1>4, FS_CardinalityType

(* Sorting the entries makes no put go.                                    *)
LEMMA GoneRearranged ==
    ASSUME NEW L, NEW es \in Seq(Entry), NEW kind, NEW p \in Arrangements(Len(es))
    PROVE  Gone(L, Rearranged(es, p), 1..Len(es), kind) = Gone(L, es, 1..Len(es), kind)
<1> DEFINE m == Len(es)
           y == Rearranged(es, p)
<1>1. m \in Nat
  OBVIOUS
<1>2. (\A i \in 1..m : p[i] \in 1..m) /\ (\A j \in 1..m : \E i \in 1..m : p[i] = j)
  BY <1>1, ArrangementIs
<1>3. \A i \in 1..m : y[i] = es[p[i]]
  BY DEF Rearranged
<1> HIDE DEF m, y
<1>4. \A q : (\A k \in 1..m : y[k].vi # q - 1) <=> (\A k \in 1..m : es[k].vi # q - 1)
  <2> SUFFICES ASSUME NEW q
               PROVE  (\A k \in 1..m : y[k].vi # q - 1) <=> (\A k \in 1..m : es[k].vi # q - 1)
    OBVIOUS
  <2>1. ASSUME \A k \in 1..m : y[k].vi # q - 1, NEW k \in 1..m PROVE es[k].vi # q - 1
    <3>1. PICK i \in 1..m : p[i] = k
      BY <1>2
    <3> QED
      BY <1>3, <2>1, <3>1
  <2>2. ASSUME \A k \in 1..m : es[k].vi # q - 1, NEW k \in 1..m PROVE y[k].vi # q - 1
    <3>1. p[k] \in 1..m /\ y[k] = es[p[k]]
      BY <1>2, <1>3
    <3> QED
      BY <2>2, <3>1
  <2> QED
    BY <2>1, <2>2
<1> QED
  BY <1>4 DEF Gone, m, y

(* The survivor of a run is the last put of its host, so that what differs *)
(* from it in value is what a later put overwrote (the conflict count of   *)
(* the dedupe loops).                                                      *)
LEMMA SurvivorIsLast ==
    ASSUME NEW L \in Seq(PutRecords), NEW es \in Seq(Entry), NEW kind, NEW k \in Nat,
           NEW i \in 1..Len(es), k < i, NEW j \in i..Len(es), RunEnd(es, i, j),
           Deduping(es, k, i), Owns(L, es, 1..k \cup i..Len(es), kind)
    PROVE  /\ es[j].vi + 1 \in DOMAIN L
           /\ AnswerIn(L, L[es[j].vi + 1].host) = L[es[j].vi + 1].val
<1> DEFINE m == Len(es)
           old == 1..k \cup i..m
           h == L[es[j].vi + 1].host
           own == {es[y].vi : y \in {x \in old : SameAddr(es[x], h)}}
<1>1. m \in Nat /\ i \in 1..m /\ j \in i..m /\ j \in 1..m /\ old \in SUBSET (1..m) /\ j \in old
  OBVIOUS
<1>2. \A x \in 1..m : es[x].hi \in Nat /\ es[x].lo \in Nat /\ es[x].vi \in Nat
  BY EntryIs
<1>3. es[j].vi + 1 \in DOMAIN L /\ h = [kind |-> kind, hi |-> es[j].hi, lo |-> es[j].lo]
  BY <1>1 DEF Owns
<1>4. h \in AddrKey /\ h.kind = kind /\ h.hi = es[j].hi /\ h.lo = es[j].lo
  <2>1. L[es[j].vi + 1] \in PutRecords
    BY <1>3
  <2> QED
    BY <1>3, <2>1 DEF PutRecords
<1>5. \A x \in i..j : SameAddr(es[x], es[j]) /\ es[x].vi <= es[j].vi
  BY RunSame DEF Deduping
<1>6. \A x \in 1..k : AddrLess(es[x], es[j])
  BY <1>1 DEF Deduping
<1>7. \A y \in j + 1..m : AddrLess(es[j], es[y])
  <2> DEFINE z == [es EXCEPT ![k + 1] = es[j]]
  <2>1. Deduping(z, k + 1, j + 1) /\ Len(z) = m
    BY DedupingStep
  <2>2. k + 1 \in 1..m /\ es \in [1..m -> Entry]
    BY <1>1
  <2>3. z[k + 1] = es[j] /\ \A y \in j + 1..m : z[y] = es[y]
    BY <1>1, <2>2
  <2>4. k + 1 \in 1..k + 1
    OBVIOUS
  <2> HIDE DEF z
  <2> QED
    BY <2>1, <2>3, <2>4 DEF Deduping
<1>8. (own = {} <=> PutsIn(L, h) = {}) /\
      (own # {} => /\ Max(own) \in own /\ Max(own) \in Nat
                   /\ \A x \in own : x <= Max(own)
                   /\ Max(own) + 1 = Max(PutsIn(L, h)))
  <2> HIDE DEF h
  <2>1. Owns(L, es, old, h.kind)
    BY <1>4
  <2> HIDE DEF old
  <2> QED
    BY <1>1, <1>4, <2>1, LatestIsLast DEF m
<1> HIDE DEF m
<1>9. \A y \in old : y \in i..j \/ y \in 1..k \/ y \in j + 1..m
  BY <1>1
<1> HIDE DEF h
<1>10. es[j].vi \in own
  BY <1>1, <1>4 DEF SameAddr
<1>11. \A x \in own : x <= es[j].vi
  <2> SUFFICES ASSUME NEW y \in old, SameAddr(es[y], h) PROVE es[y].vi <= es[j].vi
    OBVIOUS
  <2>1. SameAddr(es[y], es[j]) /\ y \in 1..m
    BY <1>1, <1>4 DEF SameAddr
  <2>2. y \in i..j
    BY <1>1, <1>2, <1>6, <1>7, <1>9, <2>1 DEF AddrLess, SameAddr
  <2> QED
    BY <1>5, <2>2
<1> HIDE DEF own
<1>12. Max(own) = es[j].vi
  BY <1>1, <1>2, <1>8, <1>10, <1>11
<1>13. PutsIn(L, h) # {} /\ Max(PutsIn(L, h)) = es[j].vi + 1
  BY <1>8, <1>10, <1>12
<1>14. AnswerIn(L, h) = L[es[j].vi + 1].val
  BY <1>13 DEF AnswerIn
<1> QED
  BY <1>3, <1>14 DEF h

(* One turn of a dedupe loop: as many puts go as the run is longer than    *)
(* one, and as many of them are lost as differ in value from its survivor. *)
(* No put is counted twice, over all turns (build4, build6).               *)
LEMMA GoneDeduped ==
    ASSUME NEW L \in Seq(PutRecords), NEW es \in Seq(Entry), NEW kind, NEW k \in Nat,
           NEW i \in 1..Len(es), k < i, NEW j \in i..Len(es), RunEnd(es, i, j),
           Deduping(es, k, i), Owns(L, es, 1..k \cup i..Len(es), kind)
    PROVE  LET G == Gone(L, es, 1..k \cup i..Len(es), kind)
               H == Gone(L, [es EXCEPT ![k + 1] = es[j]], 1..k + 1 \cup j + 1..Len(es), kind)
               C == Clashes(L, es, i, j)
           IN /\ Cardinality(H) = Cardinality(G) + (j - i)
              /\ Cardinality(Lost(L, H)) = Cardinality(Lost(L, G)) + Cardinality(C)
<1> DEFINE m == Len(es)
           z == [es EXCEPT ![k + 1] = es[j]]
           old == 1..k \cup i..m
           new == 1..k + 1 \cup j + 1..m
           from(x) == IF x = k + 1 THEN j ELSE x
           R == i..j - 1
           f == [x \in R |-> es[x].vi + 1]
           D == {f[x] : x \in R}
           G == Gone(L, es, old, kind)
           H == Gone(L, z, new, kind)
           C == {x \in R : L[es[x].vi + 1].val # L[es[j].vi + 1].val}
<1>1. m \in Nat /\ i \in 1..m /\ j \in i..m /\ k + 1 \in 1..m /\ j \in old
  OBVIOUS
<1>2. /\ z[k + 1] = es[j] /\ \A x \in 1..m : x # k + 1 => z[x] = es[x]
  <2>1. es \in [1..m -> Entry]
    OBVIOUS
  <2> QED
    BY <1>1, <2>1
<1>3. \A x \in 1..m : es[x].vi \in Nat
  BY EntryIs
<1>4. \A x \in i..j : SameAddr(es[x], es[j]) /\ es[x].vi <= es[j].vi
  BY RunSame DEF Deduping
<1>5. /\ es[j].vi + 1 \in DOMAIN L
      /\ AnswerIn(L, L[es[j].vi + 1].host) = L[es[j].vi + 1].val
  BY SurvivorIsLast
<1>6. Owns(L, es, old, kind)
  OBVIOUS
<1> HIDE DEF m, z
<1>7. \A x \in new : from(x) \in old /\ from(x) \notin R /\ z[x] = es[from(x)]
  <2> SUFFICES ASSUME NEW x \in new PROVE from(x) \in old /\ from(x) \notin R /\ z[x] = es[from(x)]
    OBVIOUS
  <2>1. CASE x = k + 1
    BY <1>1, <1>2, <2>1
  <2>2. CASE x # k + 1
    <3>1. x \in 1..m /\ x \in old /\ x \notin R
      BY <1>1, <2>2
    <3> QED
      BY <1>2, <2>2, <3>1
  <2> QED
    BY <2>1, <2>2
<1>8. \A y \in old : y \in R \/ \E x \in new : from(x) = y
  <2> SUFFICES ASSUME NEW y \in old, y \notin R PROVE \E x \in new : from(x) = y
    OBVIOUS
  <2>1. CASE y = j
    <3>1. k + 1 \in new /\ from(k + 1) = y
      BY <1>1, <2>1
    <3> QED
      BY <3>1
  <2>2. CASE y # j
    <3>1. y \in new /\ from(y) = y
      BY <1>1, <2>2
    <3> QED
      BY <3>1
  <2> QED
    BY <2>1, <2>2
<1>9. \A x \in R : x \in old /\ x \in i..j /\ x \in 1..m
  BY <1>1
<1>10. IsFiniteSet(R) /\ Cardinality(R) = j - i
  <2>1. i \in Int /\ j - 1 \in Int /\ (j - 1) - i + 1 = j - i /\ i <= j
    BY <1>1
  <2>2. Cardinality(R) = IF i > j - 1 THEN 0 ELSE (j - 1) - i + 1
    BY <2>1, FS_Interval
  <2>3. IsFiniteSet(R)
    BY <2>1, FS_Interval
  <2>4. i > j - 1 => j - i = 0
    BY <1>1
  <2> QED
    BY <2>1, <2>2, <2>3, <2>4
<1> HIDE DEF from, old, new, R
<1>11. \A x \in old : /\ es[x].vi + 1 \in DOMAIN L
                      /\ L[es[x].vi + 1].host = [kind |-> kind, hi |-> es[x].hi, lo |-> es[x].lo]
  BY <1>6 DEF Owns
<1>12. \A x, y \in old : es[x].vi = es[y].vi => x = y
  BY <1>6 DEF Owns
<1>13. \A x \in R : f[x] = es[x].vi + 1 /\ es[x].vi \in Nat /\ f[x] - 1 = es[x].vi
  BY <1>3, <1>9
<1>14. f \in [R -> D] /\ (\A x, y \in R : f[x] = f[y] => x = y) /\ \A t \in D : \E x \in R : f[x] = t
  BY <1>9, <1>12, <1>13
<1> HIDE DEF f
<1>15. IsFiniteSet(D) /\ Cardinality(D) = j - i
  BY <1>10, <1>14, SameCount
<1>16. \A x \in R : f[x] \in DOMAIN L /\ L[f[x]].host.kind = kind /\ L[f[x]].host = L[es[j].vi + 1].host
  <2> SUFFICES ASSUME NEW x \in R
               PROVE  f[x] \in DOMAIN L /\ L[f[x]].host.kind = kind /\ L[f[x]].host = L[es[j].vi + 1].host
    OBVIOUS
  <2>1. f[x] \in DOMAIN L /\ L[f[x]].host = [kind |-> kind, hi |-> es[x].hi, lo |-> es[x].lo]
    BY <1>9, <1>11, <1>13
  <2>2. L[es[j].vi + 1].host = [kind |-> kind, hi |-> es[j].hi, lo |-> es[j].lo]
    BY <1>1, <1>11
  <2>3. es[x].hi = es[j].hi /\ es[x].lo = es[j].lo
    BY <1>4, <1>9 DEF SameAddr
  <2> QED
    BY <2>1, <2>2, <2>3
<1>17. H = G \cup D
  <2>1. ASSUME NEW q \in H PROVE q \in G \cup D
    <3>1. q \in DOMAIN L /\ L[q].host.kind = kind /\ \A x \in new : z[x].vi # q - 1
      BY DEF Gone
    <3>2. SUFFICES ASSUME q \notin G PROVE q \in D
      OBVIOUS
    <3>3. PICK y \in old : es[y].vi = q - 1
      BY <3>1, <3>2 DEF Gone
    <3>4. y \in R
      BY <1>7, <1>8, <3>1, <3>3
    <3>5. q \in Nat
      BY <3>1
    <3>6. f[y] = q
      BY <1>13, <3>3, <3>4, <3>5
    <3> QED
      BY <3>4, <3>6
  <2>2. ASSUME NEW q \in G PROVE q \in H
    BY <1>7 DEF Gone
  <2>3. ASSUME NEW y \in R PROVE f[y] \in H
    <3>1. \A x \in new : z[x].vi # f[y] - 1
      <4> SUFFICES ASSUME NEW x \in new, z[x].vi = f[y] - 1 PROVE FALSE
        OBVIOUS
      <4>1. from(x) \in old /\ from(x) \notin R /\ es[from(x)].vi = es[y].vi
        BY <1>7, <1>13
      <4> QED
        BY <1>9, <1>12, <4>1
    <3> QED
      BY <1>16, <3>1 DEF Gone
  <2> QED
    BY <2>1, <2>2, <2>3
<1>18. G \cap D = {}
  <2> SUFFICES ASSUME NEW x \in R, f[x] \in G PROVE FALSE
    OBVIOUS
  <2>1. es[x].vi # f[x] - 1
    BY <1>9 DEF Gone
  <2> QED
    BY <1>13, <2>1
<1>19. IsFiniteSet(G) /\ IsFiniteSet(Lost(L, G)) /\ Cardinality(G) \in Nat
  BY GoneFinite
<1>20. Cardinality(H) = Cardinality(G) + (j - i)
  <2> HIDE DEF G, H, D
  <2> QED
    BY <1>15, <1>17, <1>18, <1>19, DisjointCount
<1>21. Lost(L, H) = Lost(L, G) \cup Lost(L, D) /\ Lost(L, G) \cap Lost(L, D) = {}
  <2> HIDE DEF G, H, D
  <2> QED
    BY <1>17, <1>18 DEF Lost
<1>22. IsFiniteSet(Lost(L, D)) /\ Cardinality(Lost(L, D)) = Cardinality(C)
  <2> DEFINE g == [x \in C |-> f[x]]
  <2>1. C \in SUBSET R
    OBVIOUS
  <2>2. IsFiniteSet(C)
    BY <1>10, <2>1, FS_Subset
  <2>3. \A x \in R : f[x] \in D /\ (x \in C <=> f[x] \in Lost(L, D))
    <3> SUFFICES ASSUME NEW x \in R PROVE x \in C <=> f[x] \in Lost(L, D)
      OBVIOUS
    <3>1. AnswerIn(L, L[f[x]].host) = L[es[j].vi + 1].val
      BY <1>5, <1>16
    <3>2. L[f[x]] = L[es[x].vi + 1]
      BY <1>13
    <3>3. f[x] \in D
      OBVIOUS
    <3> HIDE DEF D
    <3> QED
      BY <3>1, <3>2, <3>3 DEF Lost
  <2>4. \A t \in Lost(L, D) : t \in D
    BY DEF Lost
  <2>5. g \in [C -> Lost(L, D)]
    BY <2>1, <2>3
  <2>6. \A x, y \in C : g[x] = g[y] => x = y
    BY <1>14, <2>1
  <2>7. \A t \in Lost(L, D) : \E x \in C : g[x] = t
    <3> SUFFICES ASSUME NEW t \in Lost(L, D) PROVE \E x \in C : g[x] = t
      OBVIOUS
    <3>1. PICK x \in R : f[x] = t
      BY <2>4
    <3>2. x \in C
      BY <2>3, <3>1
    <3> QED
      BY <3>1, <3>2
  <2> HIDE DEF g, C, D
  <2> QED
    BY <2>2, <2>5, <2>6, <2>7, SameCount
<1>23. Cardinality(Lost(L, H)) = Cardinality(Lost(L, G)) + Cardinality(C)
  <2> HIDE DEF G, H, D, C
  <2> QED
    BY <1>19, <1>21, <1>22, DisjointCount
<1> QED
  BY <1>20, <1>23 DEF m, z, old, new, R, Clashes

(* When a dedupe loop is over, the puts that are gone are the superseded   *)
(* ones: those with a later put of their host.                             *)
LEMMA GoneAtEnd ==
    ASSUME NEW L \in Seq(PutRecords), NEW es \in Seq(Entry), NEW m \in 0..Len(es), NEW kind,
           Owns(L, es, 1..m, kind), Strict(es, m)
    PROVE  Gone(L, es, 1..m, kind)
             = {q \in DOMAIN L : L[q].host.kind = kind /\ q # Max(PutsIn(L, L[q].host))}
<1> SUFFICES ASSUME NEW q \in DOMAIN L, L[q].host.kind = kind
             PROVE  (\A k \in 1..m : es[k].vi # q - 1) <=> q # Max(PutsIn(L, L[q].host))
  BY DEF Gone
<1> DEFINE h == L[q].host
           c == Len(L)
<1>1. L[q] \in PutRecords /\ q \in Nat /\ c \in Nat /\ DOMAIN L = 1..c
  OBVIOUS
<1>2. h \in AddrKey /\ h.kind = kind /\ h = [kind |-> kind, hi |-> h.hi, lo |-> h.lo]
  BY <1>1 DEF PutRecords, AddrKey
<1>3. \A k \in 1..m : k \in 1..Len(es) /\ es[k].vi \in Nat
  BY EntryIs
<1>4. \A k \in 1..m : SameAddr(es[k], h) => Max(PutsIn(L, h)) = es[k].vi + 1
  <2> HIDE DEF h
  <2>1. Owns(L, es, 1..m, h.kind)
    BY <1>2
  <2> QED
    BY <1>2, <2>1, KeptIsLast
<1>5. q \in PutsIn(L, h)
  BY DEF PutsIn
<1>6. PICK k \in 1..m : SameAddr(es[k], h) /\ es[k].vi >= q - 1
  BY DEF Owns
<1>7. Max(PutsIn(L, h)) = es[k].vi + 1
  BY <1>4, <1>6
<1>8. ASSUME NEW x \in 1..m, es[x].vi = q - 1
      PROVE  q = Max(PutsIn(L, h))
  <2>1. es[x].vi + 1 = q
    BY <1>1, <1>3, <1>8
  <2>2. h = [kind |-> kind, hi |-> es[x].hi, lo |-> es[x].lo]
    BY <2>1 DEF Owns
  <2>3. SameAddr(es[x], h)
    BY <2>2 DEF SameAddr
  <2> QED
    BY <1>4, <2>1, <2>3
<1>9. ASSUME q = Max(PutsIn(L, h))
      PROVE  es[k].vi = q - 1
  BY <1>1, <1>3, <1>7, <1>9
<1> QED
  BY <1>8, <1>9

(* When a dedupe loop is over, the kept entries are as many as the hosts   *)
(* of the family that have a put (Addrs4, Addrs6 of Stats).                *)
LEMMA EntriesAreHosts ==
    ASSUME NEW L \in Seq(PutRecords), NEW es \in Seq(Entry), NEW m \in 0..Len(es), NEW kind,
           Owns(L, es, 1..m, kind), Strict(es, m), \A q \in DOMAIN L : L[q].host \in AllHosts
    PROVE  m = Cardinality(HostsIn(L, kind))
<1> DEFINE T == {h \in AllHosts : h.kind = kind /\ PutsIn(L, h) # {}}
           f == [k \in 1..m |-> L[es[k].vi + 1].host]
<1>1. m \in Nat /\ IsFiniteSet(1..m) /\ Cardinality(1..m) = m
  BY FS_Interval
<1>2. \A k \in 1..m : es[k].hi \in Nat /\ es[k].lo \in Nat /\ es[k].vi \in Nat
  BY EntryIs
<1>3. \A k \in 1..m : /\ es[k].vi + 1 \in DOMAIN L
                      /\ f[k] = [kind |-> kind, hi |-> es[k].hi, lo |-> es[k].lo]
                      /\ f[k] = L[es[k].vi + 1].host
  BY DEF Owns
<1> HIDE DEF f
<1>4. f \in [1..m -> T]
  <2>1. ASSUME NEW k \in 1..m PROVE f[k] \in T
    <3>1. f[k] = [kind |-> kind, hi |-> es[k].hi, lo |-> es[k].lo]
      BY <1>3
    <3>2. f[k].kind = kind
      BY <3>1
    <3>3. es[k].vi + 1 \in DOMAIN L /\ L[es[k].vi + 1].host = f[k]
      BY <1>3
    <3>4. f[k] \in AllHosts /\ es[k].vi + 1 \in PutsIn(L, f[k])
      BY <3>3 DEF PutsIn
    <3> QED
      BY <3>2, <3>4
  <2> QED
    BY <2>1 DEF f
<1>5. ASSUME NEW x \in 1..m, NEW y \in 1..m, f[x] = f[y]
      PROVE  x = y
  <2>1. es[x].hi = es[y].hi /\ es[x].lo = es[y].lo
    <3>1. [kind |-> kind, hi |-> es[x].hi, lo |-> es[x].lo]
            = [kind |-> kind, hi |-> es[y].hi, lo |-> es[y].lo]
      BY <1>3, <1>5
    <3>2. es[x].hi = [kind |-> kind, hi |-> es[x].hi, lo |-> es[x].lo].hi
          /\ es[x].lo = [kind |-> kind, hi |-> es[x].hi, lo |-> es[x].lo].lo
      OBVIOUS
    <3> QED
      BY <3>1, <3>2
  <2>2. ~AddrLess(es[x], es[y]) /\ ~AddrLess(es[y], es[x])
    BY <1>2, <2>1 DEF AddrLess
  <2> QED
    BY <1>1, <2>2 DEF Strict
<1>6. ASSUME NEW h \in T
      PROVE  \E k \in 1..m : f[k] = h
  <2>1. PICK q : q \in DOMAIN L /\ L[q].host = h
    BY DEF PutsIn
  <2>2. L[q] \in PutRecords
    BY <2>1
  <2>3. h = [kind |-> kind, hi |-> h.hi, lo |-> h.lo]
    BY <2>1, <2>2 DEF PutRecords, AddrKey
  <2>4. PICK k \in 1..m : SameAddr(es[k], h)
    BY <2>1 DEF Owns
  <2> QED
    BY <1>3, <2>3, <2>4 DEF SameAddr
<1> HIDE DEF T
<1>7. Cardinality(T) = m
  BY <1>1, <1>4, <1>5, <1>6, SameCount
<1> QED
  BY <1>7 DEF T, HostsIn

-----------------------------------------------------------------------------
(* The account, step by step.                                              *)

(* The puts of each family that Build has dropped so far.                  *)
Gone4 == Gone(log, v4, Held4, "v4")
Gone6 == Gone(log, v6, Held6, "v6")

(* The account while Build runs: Dups and DupConflicts count the puts that *)
(* have no entry any more, and those of them whose value differs from what *)
(* their host answers.  StatsAccount speaks of the returned Map alone; the *)
(* phases before it need the account of what has been dropped so far.      *)
SInv ==
    /\ pc = "open" => Gone4 = {} /\ Gone6 = {} /\ stats.Dups = 0 /\ stats.DupConflicts = 0
    /\ pc # "done" =>
         /\ stats.Dups = Cardinality(Gone4) + Cardinality(Gone6)
         /\ stats.DupConflicts = Cardinality(Lost(log, Gone4)) + Cardinality(Lost(log, Gone6))
    /\ StatsAccount

(* With an entry for every put and no drop counted, the account balances.  *)
LEMMA NoneGone ==
    ASSUME Gone4 = {}, Gone6 = {}, stats.Dups = 0, stats.DupConflicts = 0, pc # "done"
    PROVE  SInv
<1>1. Lost(log, Gone4) = {} /\ Lost(log, Gone6) = {}
  BY DEF Lost
<1>2. Cardinality({}) = 0
  BY FS_EmptySet
<1>3. stats.Dups = Cardinality(Gone4) + Cardinality(Gone6)
  BY <1>2
<1>4. stats.DupConflicts = Cardinality(Lost(log, Gone4)) + Cardinality(Lost(log, Gone6))
  BY <1>1, <1>2
<1> QED
  BY <1>3, <1>4 DEF SInv, StatsAccount

(* The account of an empty Builder balances.                               *)
LEMMA InitSInv == Init => SInv
<1> SUFFICES ASSUME Init PROVE SInv
  OBVIOUS
<1>1. DOMAIN log = {} /\ pc # "done" /\ stats.Dups = 0 /\ stats.DupConflicts = 0
  BY DEF Init, NoStats
<1>2. Gone4 = {} /\ Gone6 = {}
  BY <1>1 DEF Gone4, Gone6, Gone
<1> QED
  BY <1>1, <1>2, NoneGone

(* The same after a step.                                                  *)
LEMMA NoneGoneNext ==
    ASSUME Gone4' = {}, Gone6' = {}, stats'.Dups = 0, stats'.DupConflicts = 0, pc' # "done"
    PROVE  SInv'
<1>1. Lost(log', Gone4') = {} /\ Lost(log', Gone6') = {}
  BY DEF Lost
<1>2. Cardinality({}) = 0
  BY FS_EmptySet
<1>3. stats'.Dups = Cardinality(Gone4') + Cardinality(Gone6')
  BY <1>2
<1>4. stats'.DupConflicts = Cardinality(Lost(log', Gone4')) + Cardinality(Lost(log', Gone6'))
  BY <1>1, <1>2
<1> QED
  BY <1>3, <1>4 DEF SInv, StatsAccount

(* A step that touches neither the Builder nor the Map keeps the account.  *)
LEMMA QuietSInv ==
    ASSUME SInv, UNCHANGED <<intern, entries, n, built, valstate, mapstate, pc, loop, log>>
    PROVE  SInv'
<1> USE DEF entries, valstate, mapstate, loop
<1>1. Held4' = Held4 /\ Held6' = Held6
  BY DEF Held4, Held6, Unsettled
<1>2. Gone4' = Gone4 /\ Gone6' = Gone6 /\ Lost(log, Gone4)' = Lost(log, Gone4)
      /\ Lost(log, Gone6)' = Lost(log, Gone6)
  BY <1>1 DEF Gone4, Gone6, Gone, Lost, AnswerIn, PutsIn
<1>3. StatsAccount'
  BY DEF SInv, StatsAccount, Distincts, Superseded, AllHosts, PutsOf, Answer
<1> QED
  BY <1>2, <1>3 DEF SInv

(* A step of Build before its return that drops nothing keeps the account. *)
LEMMA NothingGoes ==
    ASSUME SInv, pc # "done", pc' # "open", pc' # "done", log' = log,
           Gone4' = Gone4, Gone6' = Gone6,
           stats'.Dups = stats.Dups, stats'.DupConflicts = stats.DupConflicts
    PROVE  SInv'
<1>1. Lost(log, Gone4)' = Lost(log, Gone4) /\ Lost(log, Gone6)' = Lost(log, Gone6)
  BY DEF Lost, AnswerIn, PutsIn
<1> QED
  BY <1>1 DEF SInv, StatsAccount

(* The 32-bit puts that are gone depend on the 32-bit entries and the      *)
(* history.                                                                *)
LEMMA EntriesStay4 == ASSUME UNCHANGED <<v4, log>>, Held4' = Held4 PROVE Gone4' = Gone4
  BY DEF Gone4, Gone

(* The 128-bit puts that are gone depend on the 128-bit entries and the    *)
(* history.                                                                *)
LEMMA EntriesStay6 == ASSUME UNCHANGED <<v6, log>>, Held6' = Held6 PROVE Gone6' = Gone6
  BY DEF Gone6, Gone

(* An accepted Add gives its put an entry, and takes no entry from another *)
(* put (Add in builder.go).                                                *)
LEMMA GoneAppended ==
    ASSUME NEW L \in Seq(PutRecords), NEW put \in PutRecords, NEW es \in Seq(Entry),
           NEW e \in Entry, NEW kind, Gone(L, es, DOMAIN es, kind) = {}, e.vi = Len(L)
    PROVE  /\ Gone(Append(L, put), Append(es, e), DOMAIN Append(es, e), kind) = {}
           /\ put.host.kind # kind => Gone(Append(L, put), es, DOMAIN es, kind) = {}
<1> DEFINE M == Append(L, put)
           x == Append(es, e)
           m == Len(es)
           c == Len(L)
<1>1. m \in Nat /\ c \in Nat /\ DOMAIN es = 1..m /\ DOMAIN L = 1..c
  OBVIOUS
<1>2. DOMAIN M = 1..c + 1 /\ M[c + 1] = put /\ \A q \in 1..c : M[q] = L[q]
  BY <1>1
<1>3. DOMAIN x = 1..m + 1 /\ x[m + 1] = e /\ \A k \in 1..m : x[k] = es[k]
  BY <1>1
<1>4. \A q \in 1..c : L[q].host.kind = kind => \E k \in 1..m : es[k].vi = q - 1
  BY <1>1 DEF Gone
<1>5. e.vi = c
  OBVIOUS
<1> HIDE DEF M, x, m, c
<1>6. ASSUME NEW q \in 1..c + 1, M[q].host.kind = kind
      PROVE  \E k \in 1..m + 1 : x[k].vi = q - 1
  <2>1. CASE q = c + 1
    <3>1. m + 1 \in 1..m + 1 /\ x[m + 1].vi = q - 1
      BY <1>1, <1>3, <1>5, <2>1
    <3> QED
      BY <3>1
  <2>2. CASE q # c + 1
    <3>1. q \in 1..c /\ M[q] = L[q]
      BY <1>1, <1>2, <2>2
    <3>2. PICK k \in 1..m : es[k].vi = q - 1
      BY <1>4, <1>6, <3>1
    <3>3. k \in 1..m + 1 /\ x[k] = es[k]
      BY <1>1, <1>3
    <3> QED
      BY <3>2, <3>3
  <2> QED
    BY <2>1, <2>2
<1>7. Gone(M, x, DOMAIN x, kind) = {}
  BY <1>2, <1>3, <1>6 DEF Gone
<1>8. ASSUME put.host.kind # kind PROVE Gone(M, es, DOMAIN es, kind) = {}
  <2> SUFFICES ASSUME NEW q \in 1..c + 1, M[q].host.kind = kind
               PROVE  \E k \in 1..m : es[k].vi = q - 1
    BY <1>1, <1>2 DEF Gone
  <2>1. q # c + 1
    BY <1>2, <1>8
  <2>2. q \in 1..c /\ M[q] = L[q]
    BY <1>1, <1>2, <2>1
  <2> QED
    BY <1>4, <2>2
<1> QED
  BY <1>7, <1>8 DEF M, x

(* An accepted Add keeps the account: nothing is gone while Add is legal   *)
(* (Add in builder.go).                                                    *)
LEMMA AddSInv ==
    ASSUME IInv, FInv, SInv, NEW a \in Inputs, NEW val \in Values \cup {WrongWidth}, Add(a, val)
    PROVE  SInv'
<1> DEFINE u == Unmap(a)
           e == [hi |-> u.hi, lo |-> u.lo, vi |-> n]
           put == [host |-> Names(a), val |-> val]
<1>1. pc = "open" /\ pc' = "open" /\ UNCHANGED <<stats>>
  BY DEF Add, IInv, TypeOK, mapstate
<1>2. NamesHost(a) /\ val \in Values
  BY InputAssumption DEF Add, Refusal, NamesHost
<1>3. n \in 0..MaxU32 /\ U32(n) = n /\ n = Len(log)
  BY U32Is DEF IInv, TypeOK, FInv, ValuesKept, Logged
<1>4. v4 \in Seq(Entry) /\ v6 \in Seq(Entry) /\ log \in Seq(PutRecords)
  BY DEF IInv, TypeOK, PutRecords
<1>5. Names(a) \in AddrKey /\ Names(a) = [kind |-> u.kind, hi |-> u.hi, lo |-> u.lo]
  BY <1>2, HostType
<1>6. u.kind \in {"v4", "v6"} /\ u.hi \in Nat /\ u.lo \in Nat
  BY <1>2, UnmapType DEF NamesHost
<1>7. /\ IF u.kind = "v4" THEN v4' = Append(v4, e) /\ v6' = v6
                          ELSE v6' = Append(v6, e) /\ v4' = v4
      /\ log' = Append(log, put)
  BY <1>3 DEF Add, StoredAs, Names
<1>8. e \in Entry /\ put \in PutRecords /\ e.vi = Len(log) /\ put.host.kind = u.kind
  BY <1>2, <1>3, <1>5, <1>6 DEF Entry, PutRecords
<1> HIDE DEF e, put, u
<1>9. Gone(log, v4, DOMAIN v4, "v4") = {} /\ Gone(log, v6, DOMAIN v6, "v6") = {}
      /\ stats.Dups = 0 /\ stats.DupConflicts = 0
  BY <1>1 DEF SInv, Gone4, Gone6, Held4, Held6
<1>10. Gone(log', v4', DOMAIN v4', "v4") = {} /\ Gone(log', v6', DOMAIN v6', "v6") = {}
  <2>1. CASE u.kind = "v4"
    <3>1. v4' = Append(v4, e) /\ v6' = v6
      BY <1>7, <2>1
    <3>2. Gone(log', v4', DOMAIN v4', "v4") = {}
      BY <1>4, <1>7, <1>8, <1>9, <3>1, GoneAppended
    <3>3. Gone(log', v6', DOMAIN v6', "v6") = {}
      BY <1>4, <1>7, <1>8, <1>9, <2>1, <3>1, GoneAppended
    <3> QED
      BY <3>2, <3>3
  <2>2. CASE u.kind = "v6"
    <3>1. v6' = Append(v6, e) /\ v4' = v4
      BY <1>7, <2>2
    <3>2. Gone(log', v6', DOMAIN v6', "v6") = {}
      BY <1>4, <1>7, <1>8, <1>9, <3>1, GoneAppended
    <3>3. Gone(log', v4', DOMAIN v4', "v4") = {}
      BY <1>4, <1>7, <1>8, <1>9, <2>2, <3>1, GoneAppended
    <3> QED
      BY <3>2, <3>3
  <2> QED
    BY <1>6, <2>1, <2>2
<1>11. Gone4' = {} /\ Gone6' = {}
  BY <1>1, <1>10 DEF Gone4, Gone6, Held4, Held6
<1> QED
  BY <1>1, <1>9, <1>11, NoneGoneNext

(* Calling Build keeps the account (Build in builder.go).                  *)
LEMMA BuildSInv == ASSUME IInv, SInv, Build PROVE SInv'
<1>1. /\ pc = "open" /\ pc' = "sort4" /\ UNCHANGED <<v4, v6, log>>
      /\ stats' = [stats EXCEPT !.Distinct = IF intern THEN Cardinality(DOMAIN byVal) ELSE 0]
      /\ stats \in Statistics
  BY DEF Build, Goto, IInv, TypeOK, entries
<1>2. stats'.Dups = stats.Dups /\ stats'.DupConflicts = stats.DupConflicts
  BY <1>1 DEF Statistics
<1>3. Held4' = Held4 /\ Held6' = Held6
  BY <1>1 DEF Held4, Held6
<1> QED
  BY <1>1, <1>2, <1>3, EntriesStay4, EntriesStay6, NothingGoes

(* Sorting the 32-bit entries keeps the account (build4).                  *)
LEMMA Sort4SInv == ASSUME IInv, SInv, Sort4 PROVE SInv'
<1>1. /\ pc = "sort4" /\ pc' = "dedupe4" /\ at' = 1 /\ kept' = 0
      /\ UNCHANGED <<v6, stats, log>> /\ v4 \in Seq(Entry)
  BY DEF Sort4, Goto, mapstate, IInv, TypeOK
<1>2. PICK p \in Arrangements(Len(v4)) : v4' = Rearranged(v4, p)
  BY DEF Sort4
<1>3. Held4 = 1..Len(v4) /\ Held6' = Held6
  BY <1>1 DEF Held4, Held6
<1>4. Held4' = 1..Len(v4)
  <2>1. Len(v4') = Len(v4) /\ Len(v4) \in Nat
    BY <1>1, <1>2 DEF Rearranged
  <2>2. Held4' = 1..0 \cup 1..Len(v4)
    BY <1>1, <2>1 DEF Held4, Unsettled
  <2> QED
    BY <2>1, <2>2
<1>5. Gone4' = Gone4
  BY <1>1, <1>2, <1>3, <1>4, GoneRearranged DEF Gone4
<1> QED
  BY <1>1, <1>3, <1>5, EntriesStay6, NothingGoes

(* Sorting the 128-bit entries keeps the account (build6).                 *)
LEMMA Sort6SInv == ASSUME IInv, SInv, Sort6 PROVE SInv'
<1>1. /\ pc = "sort6" /\ pc' = "dedupe6" /\ at' = 1 /\ kept' = 0
      /\ UNCHANGED <<v4, stats, log>> /\ v6 \in Seq(Entry)
  BY DEF Sort6, Goto, mapstate, IInv, TypeOK
<1>2. PICK p \in Arrangements(Len(v6)) : v6' = Rearranged(v6, p)
  BY DEF Sort6
<1>3. Held6 = 1..Len(v6) /\ Held4' = Held4
  BY <1>1 DEF Held4, Held6
<1>4. Held6' = 1..Len(v6)
  <2>1. Len(v6') = Len(v6) /\ Len(v6) \in Nat
    BY <1>1, <1>2 DEF Rearranged
  <2>2. Held6' = 1..0 \cup 1..Len(v6)
    BY <1>1, <2>1 DEF Held6, Unsettled
  <2> QED
    BY <2>1, <2>2
<1>5. Gone6' = Gone6
  BY <1>1, <1>2, <1>3, <1>4, GoneRearranged DEF Gone6
<1> QED
  BY <1>1, <1>3, <1>5, EntriesStay4, NothingGoes

(* sameVal compares the values of two puts: with intern their ids, which   *)
(* are equal exactly when the values are (builder.go).                     *)
LEMMA SameValIs ==
    ASSUME IInv, FInv, pc # "done", NEW x \in Nat, x < n, NEW y \in Nat, y < n
    PROVE  sameVal(x, y) <=> log[x + 1].val = log[y + 1].val
<1>1. /\ log \in Seq(PutRecords) /\ n \in Nat /\ n = Len(log) /\ Len(tab) \in Nat /\ MaxU32 \in Nat
      /\ ids \in Seq(0..MaxU32) /\ intern \in BOOLEAN
  BY WidthAssumption DEF IInv, TypeOK, FInv, ValuesKept, Logged, PutRecords
<1>2. x + 1 \in 1..n /\ y + 1 \in 1..n /\ DOMAIN log = 1..n
  BY <1>1
<1>3. \A q \in 1..n : IF intern THEN tab[ids[q] + 1] = log[q].val ELSE vals[q] = log[q].val
  BY <1>2 DEF FInv, ValuesKept, Recalled
<1>4. CASE ~intern
  BY <1>2, <1>3, <1>4 DEF sameVal
<1>5. CASE intern
  <2> DEFINE i == ids[x + 1]
             j == ids[y + 1]
  <2>1. i \in 0..MaxU32 /\ i < Len(tab) /\ j \in 0..MaxU32 /\ j < Len(tab)
    BY <1>5, SeqReadable DEF IInv
  <2>2. tab[i + 1] = log[x + 1].val /\ tab[j + 1] = log[y + 1].val
    BY <1>2, <1>3, <1>5
  <2>3. \A k \in 1..Len(tab) : byVal[tab[k]] = k - 1
    BY <1>5 DEF FInv, ValuesKept, Tabled
  <2>4. sameVal(x, y) <=> i = j
    BY <1>5 DEF sameVal
  <2> HIDE DEF i, j
  <2>5. i + 1 \in 1..Len(tab) /\ j + 1 \in 1..Len(tab) /\ (i + 1) - 1 = i /\ (j + 1) - 1 = j
    BY <1>1, <2>1
  <2>6. byVal[tab[i + 1]] = i /\ byVal[tab[j + 1]] = j
    BY <2>3, <2>5
  <2>7. i = j <=> tab[i + 1] = tab[j + 1]
    BY <2>6
  <2> QED
    BY <2>2, <2>4, <2>7
<1> QED
  BY <1>1, <1>4, <1>5

(* What one turn of a dedupe loop adds to Dups and DupConflicts is what    *)
(* goes and what is lost in it (builder.go).                               *)
LEMMA DroppedCounts ==
    ASSUME IInv, FInv, pc # "done", NEW es \in Seq(Entry), NEW i \in 1..Len(es),
           NEW j \in i..Len(es), \A k \in 1..Len(es) : es[k].vi < n
    PROVE  /\ Dropped(es, i, j).Dups = stats.Dups + (j - i)
           /\ Dropped(es, i, j).DupConflicts
                = stats.DupConflicts + Cardinality(Clashes(log, es, i, j))
           /\ Dropped(es, i, j).Addrs4 = stats.Addrs4
<1>1. stats \in Statistics
  BY DEF IInv, TypeOK
<1>2. ASSUME NEW x \in i..j - 1
      PROVE  sameVal(es[x].vi, es[j].vi) <=> log[es[x].vi + 1].val = log[es[j].vi + 1].val
  <2>1. x \in 1..Len(es) /\ j \in 1..Len(es)
    OBVIOUS
  <2>2. es[x].vi \in Nat /\ es[j].vi \in Nat /\ es[x].vi < n /\ es[j].vi < n
    BY <2>1, EntryIs
  <2> QED
    BY <2>2, SameValIs
<1>3. {x \in i..j - 1 : ~sameVal(es[x].vi, es[j].vi)} = Clashes(log, es, i, j)
  BY <1>2 DEF Clashes
<1> DEFINE c == Cardinality(Clashes(log, es, i, j))
<1>4. Dropped(es, i, j) = [stats EXCEPT !.Dups = @ + (j - i), !.DupConflicts = @ + c]
  BY <1>3 DEF Dropped
<1> HIDE DEF c
<1>5. /\ Dropped(es, i, j).Dups = stats.Dups + (j - i)
      /\ Dropped(es, i, j).DupConflicts = stats.DupConflicts + c
      /\ Dropped(es, i, j).Addrs4 = stats.Addrs4
  BY <1>1, <1>4 DEF Statistics
<1> QED
  BY <1>5 DEF c

(* One turn of the 32-bit dedupe keeps the account (build4).               *)
LEMMA Dedupe4SInv == ASSUME IInv, FInv, SInv, Dedupe4 PROVE SInv'
<1>1. /\ v4 \in Seq(Entry) /\ at \in Nat \ {0} /\ kept \in Nat /\ stats \in Statistics
      /\ log \in Seq(PutRecords) /\ \A k \in 1..Len(v4) : v4[k].vi < n
  BY DEF IInv, TypeOK, Bookkeeping, PutRecords
<1>2. pc = "dedupe4" /\ at <= Len(v4) /\ kept < at
  BY DEF Dedupe4, IInv, Bookkeeping
<1>3. at \in 1..Len(v4)
  BY <1>1, <1>2
<1>4. PICK j \in at..Len(v4) :
        /\ RunEnd(v4, at, j)
        /\ stats' = Dropped(v4, at, j) /\ v4' = [v4 EXCEPT ![kept + 1] = v4[j]]
        /\ kept' = kept + 1 /\ at' = j + 1
        /\ UNCHANGED <<v6, pc, log>>
  BY <1>1, <1>3, DropSucceeds DEF Dedupe4, IInv
<1>5. Owns(log, v4, 1..kept \cup at..Len(v4), "v4") /\ Deduping(v4, kept, at)
  BY <1>2 DEF FInv, Entries4, Held4, Unsettled
<1> DEFINE C == Clashes(log, v4, at, j)
<1>6. /\ stats'.Dups = stats.Dups + (j - at)
      /\ stats'.DupConflicts = stats.DupConflicts + Cardinality(C)
  BY <1>1, <1>2, <1>3, <1>4, DroppedCounts
<1>7. Held4 = 1..kept \cup at..Len(v4) /\ Held4' = 1..kept + 1 \cup j + 1..Len(v4)
  BY <1>1, <1>2, <1>4 DEF Held4, Unsettled
<1>8. /\ Cardinality(Gone4') = Cardinality(Gone4) + (j - at)
      /\ Cardinality(Lost(log, Gone4')) = Cardinality(Lost(log, Gone4)) + Cardinality(C)
  <2>1. Gone4 = Gone(log, v4, 1..kept \cup at..Len(v4), "v4")
    BY <1>7 DEF Gone4
  <2>2. Gone4' = Gone(log, [v4 EXCEPT ![kept + 1] = v4[j]], 1..kept + 1 \cup j + 1..Len(v4), "v4")
    BY <1>4, <1>7 DEF Gone4
  <2> DEFINE G == Gone(log, v4, 1..kept \cup at..Len(v4), "v4")
             H == Gone(log, [v4 EXCEPT ![kept + 1] = v4[j]], 1..kept + 1 \cup j + 1..Len(v4), "v4")
  <2>3. /\ v4 \in Seq(Entry) /\ kept \in Nat /\ log \in Seq(PutRecords)
        /\ at \in 1..Len(v4) /\ kept < at /\ j \in at..Len(v4) /\ RunEnd(v4, at, j)
    BY <1>1, <1>2, <1>3, <1>4
  <2>4. /\ Cardinality(H) = Cardinality(G) + (j - at)
        /\ Cardinality(Lost(log, H)) = Cardinality(Lost(log, G)) + Cardinality(C)
    BY ONLY <1>5, <2>3, GoneDeduped
  <2> QED
    BY <2>1, <2>2, <2>4
<1>9. Gone6' = Gone6
  <2>1. Held6' = Held6
    BY <1>2, <1>4 DEF Held6
  <2> QED
    BY <1>4, <2>1, EntriesStay6
<1> HIDE DEF C
<1>10. /\ Cardinality(Gone4) \in Nat /\ Cardinality(Lost(log, Gone4)) \in Nat
       /\ Cardinality(Gone6) \in Nat /\ Cardinality(Lost(log, Gone6)) \in Nat
  BY <1>1, GoneFinite DEF Gone4, Gone6
<1>11. /\ stats.Dups = Cardinality(Gone4) + Cardinality(Gone6)
       /\ stats.DupConflicts = Cardinality(Lost(log, Gone4)) + Cardinality(Lost(log, Gone6))
  BY <1>2 DEF SInv
<1>12. /\ Lost(log, Gone4)' = Lost(log, Gone4')
       /\ Lost(log, Gone6)' = Lost(log, Gone6)
  BY <1>4, <1>9 DEF Lost, AnswerIn, PutsIn
<1>13. C \subseteq at..j - 1 /\ IsFiniteSet(C) /\ Cardinality(C) \in Nat
  <2>1. at \in Int /\ j - 1 \in Int /\ C \in SUBSET (at..j - 1)
    BY <1>1 DEF C, Clashes
  <2>2. IsFiniteSet(at..j - 1)
    BY <2>1, FS_Interval
  <2>3. IsFiniteSet(C)
    BY <2>1, <2>2, FS_Subset
  <2> QED
    BY <2>1, <2>3, FS_CardinalityType
<1>14. /\ stats'.Dups = Cardinality(Gone4') + Cardinality(Gone6')
       /\ stats'.DupConflicts = Cardinality(Lost(log, Gone4)') + Cardinality(Lost(log, Gone6)')
  BY <1>3, <1>6, <1>8, <1>9, <1>10, <1>11, <1>12, <1>13
<1> QED
  BY <1>2, <1>4, <1>14 DEF SInv, StatsAccount

(* One turn of the 128-bit dedupe keeps the account (build6).              *)
LEMMA Dedupe6SInv == ASSUME IInv, FInv, SInv, Dedupe6 PROVE SInv'
<1>1. /\ v6 \in Seq(Entry) /\ at \in Nat \ {0} /\ kept \in Nat /\ stats \in Statistics
      /\ log \in Seq(PutRecords) /\ \A k \in 1..Len(v6) : v6[k].vi < n
  BY DEF IInv, TypeOK, Bookkeeping, PutRecords
<1>2. pc = "dedupe6" /\ at <= Len(v6) /\ kept < at
  BY DEF Dedupe6, IInv, Bookkeeping
<1>3. at \in 1..Len(v6)
  BY <1>1, <1>2
<1>4. PICK j \in at..Len(v6) :
        /\ RunEnd(v6, at, j)
        /\ stats' = Dropped(v6, at, j) /\ v6' = [v6 EXCEPT ![kept + 1] = v6[j]]
        /\ kept' = kept + 1 /\ at' = j + 1
        /\ UNCHANGED <<v4, pc, log>>
  BY <1>1, <1>3, DropSucceeds DEF Dedupe6, IInv
<1>5. Owns(log, v6, 1..kept \cup at..Len(v6), "v6") /\ Deduping(v6, kept, at)
  BY <1>2 DEF FInv, Entries6, Held6, Unsettled
<1> DEFINE C == Clashes(log, v6, at, j)
<1>6. /\ stats'.Dups = stats.Dups + (j - at)
      /\ stats'.DupConflicts = stats.DupConflicts + Cardinality(C)
      /\ stats'.Addrs4 = stats.Addrs4
  BY <1>1, <1>2, <1>3, <1>4, DroppedCounts
<1>7. Held6 = 1..kept \cup at..Len(v6) /\ Held6' = 1..kept + 1 \cup j + 1..Len(v6)
  BY <1>1, <1>2, <1>4 DEF Held6, Unsettled
<1>8. /\ Cardinality(Gone6') = Cardinality(Gone6) + (j - at)
      /\ Cardinality(Lost(log, Gone6')) = Cardinality(Lost(log, Gone6)) + Cardinality(C)
  <2>1. Gone6 = Gone(log, v6, 1..kept \cup at..Len(v6), "v6")
    BY <1>7 DEF Gone6
  <2>2. Gone6' = Gone(log, [v6 EXCEPT ![kept + 1] = v6[j]], 1..kept + 1 \cup j + 1..Len(v6), "v6")
    BY <1>4, <1>7 DEF Gone6
  <2> DEFINE G == Gone(log, v6, 1..kept \cup at..Len(v6), "v6")
             H == Gone(log, [v6 EXCEPT ![kept + 1] = v6[j]], 1..kept + 1 \cup j + 1..Len(v6), "v6")
  <2>3. /\ v6 \in Seq(Entry) /\ kept \in Nat /\ log \in Seq(PutRecords)
        /\ at \in 1..Len(v6) /\ kept < at /\ j \in at..Len(v6) /\ RunEnd(v6, at, j)
    BY <1>1, <1>2, <1>3, <1>4
  <2>4. /\ Cardinality(H) = Cardinality(G) + (j - at)
        /\ Cardinality(Lost(log, H)) = Cardinality(Lost(log, G)) + Cardinality(C)
    BY ONLY <1>5, <2>3, GoneDeduped
  <2> QED
    BY <2>1, <2>2, <2>4
<1>9. Gone4' = Gone4
  <2>1. Held4' = Held4
    BY <1>2, <1>4, <1>6 DEF Held4
  <2> QED
    BY <1>4, <2>1, EntriesStay4
<1> HIDE DEF C
<1>10. /\ Cardinality(Gone4) \in Nat /\ Cardinality(Lost(log, Gone4)) \in Nat
       /\ Cardinality(Gone6) \in Nat /\ Cardinality(Lost(log, Gone6)) \in Nat
  BY <1>1, GoneFinite DEF Gone4, Gone6
<1>11. /\ stats.Dups = Cardinality(Gone4) + Cardinality(Gone6)
       /\ stats.DupConflicts = Cardinality(Lost(log, Gone4)) + Cardinality(Lost(log, Gone6))
  BY <1>2 DEF SInv
<1>12. /\ Lost(log, Gone6)' = Lost(log, Gone6')
       /\ Lost(log, Gone4)' = Lost(log, Gone4)
  BY <1>4, <1>9 DEF Lost, AnswerIn, PutsIn
<1>13. C \subseteq at..j - 1 /\ IsFiniteSet(C) /\ Cardinality(C) \in Nat
  <2>1. at \in Int /\ j - 1 \in Int /\ C \in SUBSET (at..j - 1)
    BY <1>1 DEF C, Clashes
  <2>2. IsFiniteSet(at..j - 1)
    BY <2>1, FS_Interval
  <2>3. IsFiniteSet(C)
    BY <2>1, <2>2, FS_Subset
  <2> QED
    BY <2>1, <2>3, FS_CardinalityType
<1>14. /\ stats'.Dups = Cardinality(Gone4') + Cardinality(Gone6')
       /\ stats'.DupConflicts = Cardinality(Lost(log, Gone4)') + Cardinality(Lost(log, Gone6)')
  BY <1>3, <1>6, <1>8, <1>9, <1>10, <1>11, <1>12, <1>13
<1> QED
  BY <1>2, <1>4, <1>14 DEF SInv, StatsAccount

(* Closing the 32-bit dedupe keeps the account (build4).                   *)
LEMMA Deduped4SInv == ASSUME IInv, FInv, SInv, Deduped4 PROVE SInv'
<1>1. /\ pc = "dedupe4" /\ at > Len(v4) /\ kept < at /\ at <= Len(v4) + 1
      /\ stats' = [stats EXCEPT !.Addrs4 = kept]
      /\ pc' = (IF kept = 0 THEN "sort6" ELSE "count4")
      /\ UNCHANGED <<v4, v6, at, kept, log>>
  BY DEF Deduped4, Goto, IInv, Bookkeeping, entries, loop
<1>2. v4 \in Seq(Entry) /\ kept \in Nat /\ at \in Nat /\ stats \in Statistics
  BY DEF IInv, TypeOK
<1>3. stats'.Addrs4 = kept /\ stats'.Dups = stats.Dups /\ stats'.DupConflicts = stats.DupConflicts
  BY <1>1, <1>2 DEF Statistics
<1>4. 1..kept \cup at..Len(v4) = 1..kept
  BY <1>1, <1>2
<1>5. Held4' = Held4 /\ Held6' = Held6
  BY <1>1, <1>3, <1>4 DEF Held4, Held6, Unsettled
<1> QED
  BY <1>1, <1>3, <1>5, EntriesStay4, EntriesStay6, NothingGoes

(* Closing the 128-bit dedupe keeps the account (build6).                  *)
LEMMA Deduped6SInv == ASSUME IInv, FInv, SInv, Deduped6 PROVE SInv'
<1>1. /\ pc = "dedupe6" /\ at > Len(v6) /\ kept < at /\ at <= Len(v6) + 1
      /\ stats' = [stats EXCEPT !.Addrs6 = kept] /\ pc' = "fill6"
      /\ UNCHANGED <<v4, v6, kept, log>>
  BY DEF Deduped6, Goto, IInv, Bookkeeping, entries
<1>2. v6 \in Seq(Entry) /\ kept \in Nat /\ at \in Nat /\ stats \in Statistics
  BY DEF IInv, TypeOK
<1>3. /\ stats'.Addrs6 = kept /\ stats'.Addrs4 = stats.Addrs4
      /\ stats'.Dups = stats.Dups /\ stats'.DupConflicts = stats.DupConflicts
  BY <1>1, <1>2 DEF Statistics
<1>4. 1..kept \cup at..Len(v6) = 1..kept
  BY <1>1, <1>2
<1>5. Held4' = Held4 /\ Held6' = Held6
  BY <1>1, <1>3, <1>4 DEF Held4, Held6, Unsettled
<1> QED
  BY <1>1, <1>3, <1>5, EntriesStay4, EntriesStay6, NothingGoes

(* The counting, summing and filling loops read the entries and write the  *)
(* stores: the account stays (build4, build6).                             *)
LEMMA FillingSInv ==
    ASSUME IInv, IInv', SInv, Count4 \/ Sum4 \/ Fill4 \/ Filled4 \/ Fill6 \/ Filled6
    PROVE  SInv'
<1>1. UNCHANGED <<v4, v6, stats, log>> /\ pc' # "open" /\ pc' # "done" /\ pc # "done"
  BY DEF Count4, Sum4, Fill4, Filled4, Fill6, Filled6, Panic, Goto, entries, mapstate
<1>2. pc' # "panic"
  BY DEF IInv, NeverPanics
<1>3. Held4' = Held4 /\ Held6' = Held6
  BY <1>1, <1>2 DEF Held4, Held6, Count4, Sum4, Fill4, Filled4, Fill6, Filled6, Panic, Goto
<1> QED
  BY <1>1, <1>3, EntriesStay4, EntriesStay6, NothingGoes

(* When Build returns, the account is the statistics: the entries kept are *)
(* the hosts added, and the puts gone are the superseded ones (Build in    *)
(* builder.go).                                                            *)
LEMMA ReleaseSInv == ASSUME IInv, FInv, SInv, Release PROVE SInv'
<1>1. pc = "release" /\ pc' = "done" /\ kept = stats.Addrs6 /\ built
  BY DEF Release, Goto, FInv, Entries6, IInv, TypeOK
<1>2. UNCHANGED <<intern, stats, log>>
  BY DEF Release, mapstate
<1>3. /\ v4 \in Seq(Entry) /\ v6 \in Seq(Entry) /\ log \in Seq(PutRecords) /\ stats \in Statistics
  BY DEF IInv, TypeOK, PutRecords
<1>4. /\ Owns(log, v4, 1..stats.Addrs4, "v4") /\ Strict(v4, stats.Addrs4)
      /\ Owns(log, v6, 1..stats.Addrs6, "v6") /\ Strict(v6, stats.Addrs6)
      /\ stats.Addrs4 \in 0..Len(v4) /\ stats.Addrs6 \in 0..Len(v6)
      /\ Held4 = 1..stats.Addrs4 /\ Held6 = 1..stats.Addrs6
  BY <1>1, <1>3 DEF FInv, Entries4, Entries6, Held4, Held6, Statistics
<1>5. \A q \in DOMAIN log : log[q].host \in AllHosts
  BY DEF FInv, ValuesKept, Logged
<1>6. stats.Addrs4 = Cardinality(Distincts("v4")) /\ stats.Addrs6 = Cardinality(Distincts("v6"))
  <2>1. \A h : PutsOf(h) = PutsIn(log, h)
    BY DEF PutsOf, PutsIn
  <2>2. stats.Addrs4 = Cardinality(HostsIn(log, "v4"))
    BY <1>3, <1>4, <1>5, EntriesAreHosts
  <2>3. stats.Addrs6 = Cardinality(HostsIn(log, "v6"))
    BY <1>3, <1>4, <1>5, EntriesAreHosts
  <2> QED
    BY <2>1, <2>2, <2>3 DEF Distincts, HostsIn
<1>7. /\ Gone4 = {q \in DOMAIN log : log[q].host.kind = "v4" /\ q # Max(PutsIn(log, log[q].host))}
      /\ Gone6 = {q \in DOMAIN log : log[q].host.kind = "v6" /\ q # Max(PutsIn(log, log[q].host))}
  <2>1. Gone4 = {q \in DOMAIN log : log[q].host.kind = "v4" /\ q # Max(PutsIn(log, log[q].host))}
    BY <1>3, <1>4, GoneAtEnd DEF Gone4
  <2>2. Gone6 = {q \in DOMAIN log : log[q].host.kind = "v6" /\ q # Max(PutsIn(log, log[q].host))}
    BY <1>3, <1>4, GoneAtEnd DEF Gone6
  <2> QED
    BY <2>1, <2>2
<1>8. \A q \in DOMAIN log : log[q].host.kind \in {"v4", "v6"}
  <2>1. \A q \in DOMAIN log : log[q] \in PutRecords
    BY <1>3
  <2> QED
    BY <2>1 DEF PutRecords, AddrKey
<1>9. Superseded = Gone4 \cup Gone6 /\ Gone4 \cap Gone6 = {}
  <2>1. \A h : PutsOf(h) = PutsIn(log, h)
    BY DEF PutsOf, PutsIn
  <2>2. Superseded = {q \in DOMAIN log : q # Max(PutsIn(log, log[q].host))}
    BY <2>1 DEF Superseded
  <2> QED
    BY <1>7, <1>8, <2>2
<1>10. {k \in Superseded : log[k].val # Answer(log[k].host)}
         = Lost(log, Gone4) \cup Lost(log, Gone6)
       /\ Lost(log, Gone4) \cap Lost(log, Gone6) = {}
  <2>1. \A h : Answer(h) = AnswerIn(log, h)
    BY DEF Answer, AnswerIn, PutsOf, PutsIn
  <2> QED
    BY <1>9, <2>1 DEF Lost
<1>11. /\ IsFiniteSet(Gone4) /\ IsFiniteSet(Lost(log, Gone4))
       /\ IsFiniteSet(Gone6) /\ IsFiniteSet(Lost(log, Gone6))
  BY <1>3, GoneFinite DEF Gone4, Gone6
<1>12. /\ stats.Dups = Cardinality(Gone4) + Cardinality(Gone6)
       /\ stats.DupConflicts = Cardinality(Lost(log, Gone4)) + Cardinality(Lost(log, Gone6))
  BY <1>1 DEF SInv
<1>13. stats.Dups = Cardinality(Superseded)
  BY <1>9, <1>11, <1>12, DisjointCount
<1>14. stats.DupConflicts
         = Cardinality({k \in Superseded : log[k].val # Answer(log[k].host)})
  BY <1>10, <1>11, <1>12, DisjointCount
<1>15. stats.Distinct = IF intern THEN Cardinality({log[k].val : k \in DOMAIN log}) ELSE 0
  BY <1>1 DEF FInv, ValuesKept, Counted
<1>16. stats = [Addrs4 |-> stats.Addrs4, Addrs6 |-> stats.Addrs6, Dups |-> stats.Dups,
                DupConflicts |-> stats.DupConflicts, Distinct |-> stats.Distinct]
  BY <1>3 DEF Statistics
<1>17. stats = [Addrs4 |-> Cardinality(Distincts("v4")),
                Addrs6 |-> Cardinality(Distincts("v6")),
                Dups   |-> Cardinality(Superseded),
                DupConflicts |->
                    Cardinality({k \in Superseded : log[k].val # Answer(log[k].host)}),
                Distinct |-> IF intern
                               THEN Cardinality({log[k].val : k \in DOMAIN log})
                               ELSE 0]
  BY <1>6, <1>13, <1>14, <1>15, <1>16
<1>18. /\ Distincts("v4")' = Distincts("v4") /\ Distincts("v6")' = Distincts("v6")
       /\ Superseded' = Superseded /\ \A h : Answer(h)' = Answer(h)
  BY <1>2 DEF Distincts, Superseded, Answer, PutsOf, AllHosts
<1>19. StatsAccount'
  BY <1>2, <1>17, <1>18 DEF StatsAccount
<1> QED
  BY <1>1, <1>19 DEF SInv

(* Every step of a Builder keeps the account.                              *)
LEMMA NextSInv == IInv /\ FInv /\ IInv' /\ SInv /\ [Next]_vars => SInv'
<1> SUFFICES ASSUME IInv, FInv, IInv', SInv, [Next]_vars PROVE SInv'
  OBVIOUS
<1>1. ASSUME NEW a \in Inputs, NEW val \in Values \cup {WrongWidth}, Add(a, val)
      PROVE  SInv'
  BY <1>1, AddSInv
<1>2. ASSUME NEW a \in Inputs, NEW val \in Values \cup {WrongWidth}, AddRefused(a, val)
      PROVE  SInv'
  BY <1>2, QuietSInv DEF AddRefused
<1>3. CASE Build
  BY <1>3, BuildSInv
<1>4. CASE BuildStep
  BY <1>4, Sort4SInv, Dedupe4SInv, Deduped4SInv, FillingSInv, Sort6SInv, Dedupe6SInv,
     Deduped6SInv, ReleaseSInv DEF BuildStep
<1>5. CASE Misuse
  BY <1>5, QuietSInv DEF Misuse
<1>6. CASE UNCHANGED vars
  BY <1>6, QuietSInv DEF vars
<1> QED
  BY <1>1, <1>2, <1>3, <1>4, <1>5, <1>6 DEF Next

(* The statistics of a build account for every accepted Add, for every     *)
(* instance: it is stored, or counted once as a duplicate, and it is a     *)
(* conflict exactly when its value is not the one that survived for its    *)
(* host; Distinct counts the values ever added, superseded ones included,  *)
(* and only when interning (builder.go).                                   *)
THEOREM Accounts == Spec => []StatsAccount
<1>1. IInv /\ FInv /\ (IInv /\ FInv)' /\ SInv /\ [Next]_vars => SInv'
  BY NextSInv
<1>2. SInv => StatsAccount
  BY DEF SInv
<1> QED
  BY <1>1, <1>2, InitSInv, Meaning, PTL DEF Spec

=============================================================================
