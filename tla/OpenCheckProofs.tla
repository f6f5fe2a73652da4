-------------------------- MODULE OpenCheckProofs --------------------------
(***************************************************************************)
(* What validate accepts, Map.Lookup reads without error, for every        *)
(* address: for any number of rows, groups and values, any widths and any  *)
(* contents of the sections.                                               *)
(***************************************************************************)
EXTENDS OpenCheck, StoreProofs

\* What every state knows of the sections: the lengths fit the header.
SomeSections ==
    \E k \in 1..MaxRows, table \in Tables :
       \/ /\ s4 \in Sections4(k, table)
          /\ s6 = Nil6
          /\ stats = Counts(k, 0, Len(table))
       \/ /\ \E np \in 1..k : s6 \in Sections6(k, np, table)
          /\ s4 = Nil4
          /\ stats = Counts(0, k, Len(table))

IInv == SomeSections /\ verdict \in {"unread", validate(stats, s4, s6)}

LEMMA IInvHolds == Spec => []IInv
<1>1. Init => IInv
  BY DEF Init, IInv, SomeSections
<1>2. IInv /\ [Next]_vars => IInv'
  BY DEF IInv, SomeSections, Next, OpenSections, vars
<1> QED
  BY <1>1, <1>2, PTL DEF Spec

-----------------------------------------------------------------------------
(* The value section.                                                      *)

\* No row of an accepted value section faults.
LEMMA ValueIsThere ==
    ASSUME NEW k \in Nat \ {0}, NEW table \in Tables, NEW v \in mkvals(k, table),
           Len(table) = 0 \/ checkIDs(v, k, Len(table)) = "ok", NEW p \in 0..k - 1
    PROVE  get(v, p) # Fault
<1>1. p + 1 \in 1..k
  OBVIOUS
<1>2. CASE table = <<>>
  <2>1. PICK d \in [1..k -> Values] : v = [NoVals EXCEPT !.direct = d]
    BY <1>2 DEF mkvals
  <2>2. v.direct = d
    BY <2>1 DEF NoVals
  <2>3. d # <<>>
    <3>1. DOMAIN d = 1..k /\ 1 \in 1..k
      OBVIOUS
    <3>2. DOMAIN <<>> = {}
      OBVIOUS
    <3> QED
      BY <3>1, <3>2
  <2> QED
    BY <1>1, <2>2, <2>3, AnswerAssumption DEF get
<1>3. CASE table # <<>>
  <2> DEFINE w == idWidth(Len(table))
  <2>1. PICK x \in [1..k -> [1..w -> 0..ByteSize - 1]] :
          v = [direct |-> <<>>, tab |-> table, ids |-> x, idW |-> w]
    BY <1>3 DEF mkvals
  <2>2. PICK d \in 1..MaxTable : table \in [1..d -> Values]
    BY <1>3 DEF Tables
  <2>3. d \in Nat /\ Len(table) = d /\ d # 0
    BY <2>2, BoundAssumption
  <2>4. w \in 0..4
    BY DEF idWidth
  <2> HIDE DEF w
  <2> DEFINE slot == x[p + 1]
  <2>5. slot \in [1..w -> 0..ByteSize - 1]
    BY <1>1, <2>1
  <2>6. Unpack(slot) \in Nat
    <3> HIDE DEF slot
    <3>1. \A b \in 1..w : slot[b] \in Nat
      BY <2>5
    <3>2. Len(slot) = w
      BY <2>4, <2>5
    <3> QED
      BY <2>4, <3>1, <3>2, UnpackNat
  <2>7. v.direct = <<>> /\ v.tab = table /\ v.ids = x
    BY <2>1
  <2>8. Unpack(slot) < Len(table)
    <3>1. \A i \in 1..k : Unpack(v.ids[i]) < Len(table)
      BY <2>3 DEF checkIDs
    <3> QED
      BY <1>1, <2>7, <3>1
  <2> DEFINE u == Unpack(slot)
  <2>9. get(v, p) = IF u < Len(table) THEN table[u + 1] ELSE Fault
    BY <2>7 DEF get
  <2>10. u \in Nat /\ u < d
    BY <2>3, <2>6, <2>8
  <2> HIDE DEF u, slot
  <2>11. table[u + 1] \in Values
    BY <2>2, <2>3, <2>10
  <2> QED
    BY <2>3, <2>9, <2>10, <2>11, AnswerAssumption
<1> QED
  BY <1>2, <1>3

\* Rows that number 0..n-1 are n rows.
LEMMA RowCount ==
    ASSUME NEW rows, NEW n \in Nat, \A r \in rows : r.at \in 0..n - 1,
           \A p \in 0..n - 1 : \E r \in rows : r.at = p,
           \A r, q \in rows : r.at = q.at => r = q
    PROVE  Cardinality(rows) = n
<1> DEFINE f == [p \in 0..n - 1 |-> CHOOSE r \in rows : r.at = p]
<1>1. \A p \in 0..n - 1 : f[p] \in rows /\ f[p].at = p
  OBVIOUS
<1>2. \A r \in rows : f[r.at] = r
  BY <1>1
<1>3. f \in [0..n - 1 -> rows]
  BY <1>1
<1> HIDE DEF f
<1>4. f \in Surjection(0..n - 1, rows)
  BY <1>2, <1>3 DEF Surjection
<1>5. f \in Injection(0..n - 1, rows)
  BY <1>1, <1>3 DEF Injection, IsInjective
<1>6. ExistsBijection(0..n - 1, rows)
  BY <1>4, <1>5 DEF Bijection, ExistsBijection
<1>7. IsFiniteSet(0..n - 1) /\ Cardinality(0..n - 1) = n
  BY FS_Interval
<1> QED
  BY <1>6, <1>7, FS_Bijection

\* Two rows of one group with one suffix are one.
LEMMA OneRow ==
    ASSUME NEW offsets, NEW m \in Nat, NEW n \in Nat, NEW minGroup \in Nat, NEW suffix,
           Divides(offsets, m, n, minGroup), Ascend(offsets, m, suffix),
           \A j \in 1..n : suffix[j] \in Int, NEW i \in 1..m,
           NEW p \in Run(offsets, i), NEW q \in Run(offsets, i), suffix[p + 1] = suffix[q + 1]
    PROVE  p = q
<1> DEFINE lo == offsets[i]
           hi == offsets[i + 1]
<1>1. lo \in 0..n /\ hi \in 0..n
  <2>1. i \in 1..m + 1 /\ i + 1 \in 1..m + 1
    OBVIOUS
  <2> QED
    BY <2>1, OffsetsClimb
<1>2. \A j \in lo + 1 .. hi - 1 : suffix[j] < suffix[j + 1]
  BY DEF Ascend
<1>3. p \in lo .. hi - 1 /\ q \in lo .. hi - 1
  BY DEF Run
<1> HIDE DEF lo, hi
<1>4. \A j, k \in lo + 1 .. hi : j < k => suffix[j] < suffix[k]
  <2>1. lo + 1 \in Nat /\ hi \in Nat /\ \A j \in lo + 1 .. hi : suffix[j] \in Int
    BY <1>1
  <2> QED
    BY <1>2, <2>1, ClimbsStrictly
<1>5. p + 1 \in lo + 1 .. hi /\ q + 1 \in lo + 1 .. hi /\ p + 1 \in 1..n
  BY <1>1, <1>3
<1>6. suffix[p + 1] \in Int
  BY <1>5
<1>7. ~(p + 1 < q + 1) /\ ~(q + 1 < p + 1)
  BY <1>4, <1>5, <1>6
<1> QED
  BY <1>1, <1>3, <1>7

-----------------------------------------------------------------------------
(* The 32-bit family.                                                      *)

LEMMA Accepted4 ==
    ASSUME NEW k \in 1..MaxRows, NEW table \in Tables, s4 \in Sections4(k, table),
           stats = Counts(k, 0, Len(table)), validate(stats, s4, s6) = "ok"
    PROVE  /\ Cardinality(Rows4) = k
           /\ \A g \in 0..Groups4 - 1, o \in 0..Octets - 1 :
                LET key == [hi |-> g, lo |-> o]
                IN AgreesWith(Rows4, key, s4.vals, lookup4(s4, key))
           /\ \A r \in Rows4 : r.hi \in 0..Groups4 - 1 /\ r.lo \in 0..Octets - 1
<1> DEFINE x == s4.idx
           f == s4.suffix
<1>1. k \in Nat \ {0} /\ Groups4 \in Nat \ {0} /\ 0 \in Nat /\ MaxU32 \in Nat /\ Octets \in Nat
  BY BoundAssumption, WidthAssumption
<1>2. stats.Addrs4 = k /\ stats.Addrs6 = 0 /\ stats.Distinct = Len(table)
  BY DEF Counts
<1>3. /\ x \in [1..Groups4 + 1 -> 0..MaxU32] /\ f \in [1..k -> 0..Octets - 1]
      /\ s4.vals \in mkvals(k, table)
  BY DEF Sections4
<1>4. validate4(stats, s4) = "ok" /\ validateIDs(stats, s4, s6) = "ok"
  BY DEF validate, Then
<1>5. checkGroups(x, f, k, 0) = "ok"
  BY <1>1, <1>2, <1>4 DEF validate4
<1>6. Len(table) = 0 \/ checkIDs(s4.vals, k, Len(table)) = "ok"
  BY <1>1, <1>2, <1>4 DEF validateIDs, Then
<1>7. Len(x) = Groups4 + 1 /\ Len(f) = k
  BY <1>1, <1>3
<1>8. /\ \A i \in 1..Groups4 + 1 : x[i] \in 0..MaxU32
      /\ \A j \in 1..k : f[j] \in Nat /\ f[j] \in Int
  <2> HIDE DEF x, f
  <2> QED
    BY <1>1, <1>3
<1> HIDE DEF x, f
<1>9. k \in 0..MaxU32
  <2>1. x[Len(x)] = k
    BY <1>5 DEF checkGroups
  <2>2. Groups4 + 1 \in 1..Groups4 + 1
    BY <1>1
  <2> QED
    BY <1>7, <1>8, <2>1, <2>2
<1>10. Divides(x, Groups4, k, 0) /\ Ascend(x, Groups4, f)
  BY <1>1, <1>5, <1>7, <1>8, <1>9, GroupsAccepted
<1>11. \A i \in 1..Groups4 + 1 : x[i] \in 0..k
  BY <1>1, <1>10, OffsetsClimb
<1> DEFINE Row(g, p) == [hi |-> g, lo |-> f[p + 1], at |-> p]
<1>12. \A r : r \in Rows4 <=> \E g \in 0..Groups4 - 1 : \E p \in Run(x, g + 1) : r = Row(g, p)
  <2>1. s4.idx # <<>>
    BY <1>1, <1>7 DEF x
  <2> QED
    BY <2>1 DEF Rows4, x, f
<1>13. ASSUME NEW g \in 0..Groups4 - 1, NEW p \in Run(x, g + 1)
       PROVE  g + 1 \in 1..Groups4 /\ p \in 0..k - 1 /\ p \in x[g + 1] .. x[(g + 1) + 1] - 1
  <2>1. g + 1 \in 1..Groups4 /\ g + 1 \in 1..Groups4 + 1 /\ (g + 1) + 1 \in 1..Groups4 + 1
    BY <1>1
  <2>2. x[g + 1] \in 0..k /\ x[(g + 1) + 1] \in 0..k
    BY <1>11, <2>1
  <2> QED
    BY <2>1, <2>2 DEF Run
<1>14. ASSUME NEW g \in 0..Groups4 - 1, NEW p \in Run(x, g + 1),
              NEW h \in 0..Groups4 - 1, p \in Run(x, h + 1)
       PROVE  g = h
  <2>1. \E i \in 1..Groups4 : \A j \in 1..Groups4 : p \in x[j] .. x[j + 1] - 1 => j = i
    <3>1. p \in 0..k - 1
      BY <1>13
    <3> QED
      BY <1>1, <1>10, <3>1, RowHasGroup
  <2>2. g + 1 = h + 1
    <3>1. g + 1 \in 1..Groups4 /\ p \in x[g + 1] .. x[(g + 1) + 1] - 1
      BY <1>13
    <3>2. h + 1 \in 1..Groups4 /\ p \in x[h + 1] .. x[(h + 1) + 1] - 1
      BY <1>13, <1>14
    <3> QED
      BY <2>1, <3>1, <3>2
  <2> QED
    BY <2>2
<1>15. Cardinality(Rows4) = k
  <2>1. \A r \in Rows4 : r.at \in 0..k - 1
    BY <1>12, <1>13
  <2>2. ASSUME NEW p \in 0..k - 1
        PROVE  \E r \in Rows4 : r.at = p
    <3>1. PICK i \in 1..Groups4 : p \in x[i] .. x[i + 1] - 1
      BY <1>1, <1>10, RowHasGroup
    <3>2. i - 1 \in 0..Groups4 - 1 /\ (i - 1) + 1 = i
      BY <1>1
    <3>3. p \in Run(x, (i - 1) + 1)
      BY <3>1, <3>2 DEF Run
    <3>4. Row(i - 1, p) \in Rows4 /\ Row(i - 1, p).at = p
      BY <1>12, <3>2, <3>3
    <3> QED
      BY <3>4
  <2>3. ASSUME NEW r \in Rows4, NEW q \in Rows4, r.at = q.at
        PROVE  r = q
    <3>1. PICK g \in 0..Groups4 - 1 : \E p \in Run(x, g + 1) : r = Row(g, p)
      BY <1>12
    <3>2. PICK p \in Run(x, g + 1) : r = Row(g, p)
      BY <3>1
    <3>3. PICK h \in 0..Groups4 - 1 : \E u \in Run(x, h + 1) : q = Row(h, u)
      BY <1>12
    <3>4. PICK u \in Run(x, h + 1) : q = Row(h, u)
      BY <3>3
    <3>5. p = u
      BY <2>3, <3>2, <3>4
    <3>6. g = h
      BY <1>14, <3>5
    <3> QED
      BY <3>2, <3>4, <3>5, <3>6
  <2> QED
    BY <1>1, <2>1, <2>2, <2>3, RowCount
<1>16. ASSUME NEW g \in 0..Groups4 - 1, NEW o \in 0..Octets - 1
       PROVE  LET key == [hi |-> g, lo |-> o]
              IN AgreesWith(Rows4, key, s4.vals, lookup4(s4, key))
  <2> DEFINE key == [hi |-> g, lo |-> o]
             answer == lookup4(s4, key)
             own == {r \in Rows4 : r.hi = key.hi /\ r.lo = key.lo}
  <2>1. g + 2 = (g + 1) + 1 /\ o \in Nat
    OBVIOUS
  <2>2. /\ \A p \in Run(x, g + 1) : f[p + 1] = o => answer = get(s4.vals, p)
        /\ (\A p \in Run(x, g + 1) : f[p + 1] # o) => answer = Miss
    <3>1. s4.idx # <<>>
      BY <1>1, <1>7 DEF x
    <3>2. Len(s4.suffix) = k /\ \A j \in 1..k : s4.suffix[j] \in Nat
      BY <1>7, <1>8 DEF f
    <3>3. Divides(s4.idx, Groups4, k, 0) /\ Ascend(s4.idx, Groups4, s4.suffix)
      BY <1>10 DEF x, f
    <3>4. key.hi = g /\ key.lo = o
      OBVIOUS
    <3> HIDE DEF key
    <3>5. LET run == s4.idx[key.hi + 1] .. s4.idx[key.hi + 2] - 1
          IN /\ \A p \in run : s4.suffix[p + 1] = key.lo => lookup4(s4, key) = get(s4.vals, p)
             /\ (\A p \in run : s4.suffix[p + 1] # key.lo) => lookup4(s4, key) = Miss
      BY <1>1, <2>1, <3>1, <3>2, <3>3, <3>4, Lookup4Finds
    <3> QED
      BY <2>1, <3>4, <3>5 DEF x, f, Run
  <2> HIDE DEF answer
  <2>3. \A r : r \in own <=> \E p \in Run(x, g + 1) : f[p + 1] = o /\ r = Row(g, p)
    BY <1>12
  <2>4. CASE own = {}
    <3>1. \A p \in Run(x, g + 1) : f[p + 1] # o
      BY <2>3, <2>4
    <3> QED
      BY <2>2, <2>4, <3>1 DEF AgreesWith, answer
  <2>5. CASE own # {}
    <3>1. PICK r \in own : TRUE
      BY <2>5
    <3>2. PICK p \in Run(x, g + 1) : f[p + 1] = o /\ r = Row(g, p)
      BY <2>3, <3>1
    <3>3. ASSUME NEW q \in own
          PROVE  q = r
      <4>1. PICK u \in Run(x, g + 1) : f[u + 1] = o /\ q = Row(g, u)
        BY <2>3
      <4>2. g + 1 \in 1..Groups4
        BY <1>1
      <4>3. p = u
        BY <1>1, <1>8, <1>10, <3>2, <4>1, <4>2, OneRow
      <4> QED
        BY <3>2, <4>1, <4>3
    <3>4. own = {r}
      BY <3>1, <3>3
    <3>5. answer = get(s4.vals, p) /\ r.at = p
      BY <2>2, <3>2
    <3>6. get(s4.vals, p) # Fault
      <4>1. p \in 0..k - 1
        BY <1>13
      <4> QED
        BY <1>1, <1>3, <1>6, <4>1, ValueIsThere
    <3> QED
      BY <2>5, <3>1, <3>4, <3>5, <3>6 DEF AgreesWith, answer
  <2> QED
    BY <2>4, <2>5
<1>17. ASSUME NEW r \in Rows4 PROVE r.hi \in 0..Groups4 - 1 /\ r.lo \in 0..Octets - 1
  <2>1. PICK g \in 0..Groups4 - 1 : \E p \in Run(x, g + 1) : r = Row(g, p)
    BY <1>12
  <2>2. PICK p \in Run(x, g + 1) : r = Row(g, p)
    BY <2>1
  <2>3. p + 1 \in 1..k
    <3>1. p \in 0..k - 1
      BY <1>13
    <3> QED
      BY <1>1, <3>1
  <2>4. f[p + 1] \in 0..Octets - 1
    BY <1>3, <2>3
  <2> QED
    BY <2>2, <2>4
<1> QED
  BY <1>15, <1>16, <1>17

-----------------------------------------------------------------------------
(* The 128-bit family.                                                     *)

LEMMA Accepted6 ==
    ASSUME NEW k \in 1..MaxRows, NEW m \in 1..k, NEW table \in Tables,
           s6 \in Sections6(k, m, table),
           stats = Counts(0, k, Len(table)), validate(stats, s4, s6) = "ok"
    PROVE  /\ Cardinality(Rows6) = k
           /\ \A h, l \in Nat :
                LET key == [hi |-> h, lo |-> l]
                IN AgreesWith(Rows6, key, s6.vals, lookup6(s6, key))
           /\ \A r \in Rows6 : r.hi \in Words /\ r.lo \in Words
<1> DEFINE x == s6.pidx
           f == s6.suffix
           pre == s6.prefix
<1>1. k \in Nat \ {0} /\ m \in Nat \ {0} /\ 1 \in Nat /\ MaxU32 \in Nat
  BY BoundAssumption, WidthAssumption
<1>2. stats.Addrs6 = k /\ stats.Addrs4 = 0 /\ stats.Distinct = Len(table)
  BY DEF Counts
<1>3. /\ x \in [1..m + 1 -> 0..MaxU32] /\ f \in [1..k -> Words]
      /\ pre \in [1..m -> Words] /\ s6.vals \in mkvals(k, table)
  BY DEF Sections6
<1>4. validate6(stats, s6) = "ok" /\ validateIDs(stats, s4, s6) = "ok"
  BY DEF validate, Then
<1>5. checkGroups(x, f, k, 1) = "ok" /\ prefixOrder(pre) = "ok"
  BY <1>1, <1>2, <1>4 DEF validate6, Then
<1>6. Len(table) = 0 \/ checkIDs(s6.vals, k, Len(table)) = "ok"
  BY <1>1, <1>2, <1>4 DEF validateIDs, Then
<1> HIDE DEF x, f, pre
<1>7. Len(x) = m + 1 /\ Len(f) = k /\ Len(pre) = m
  BY <1>1, <1>3
<1>8. /\ \A i \in 1..m + 1 : x[i] \in 0..MaxU32
      /\ \A j \in 1..k : f[j] \in Nat /\ f[j] \in Int
      /\ \A i \in 1..m : pre[i] \in Nat /\ pre[i] \in Int
  <2>1. \A i \in 1..m + 1 : x[i] \in 0..MaxU32
    BY <1>3
  <2>2. (\A j \in 1..k : f[j] \in Words) /\ \A i \in 1..m : pre[i] \in Words
    BY <1>3
  <2>3. \A w \in Words : w \in Nat /\ w \in Int
    BY BoundAssumption
  <2> QED
    BY <2>1, <2>2, <2>3
<1>9. k \in 0..MaxU32
  <2>1. x[Len(x)] = k
    BY <1>5 DEF checkGroups
  <2>2. m + 1 \in 1..m + 1
    BY <1>1
  <2> QED
    BY <1>7, <1>8, <2>1, <2>2
<1>10. Divides(x, m, k, 1) /\ Ascend(x, m, f)
  BY <1>1, <1>5, <1>7, <1>8, <1>9, GroupsAccepted
<1>11. \A i \in 1..m + 1 : x[i] \in 0..k
  BY <1>1, <1>10, OffsetsClimb
<1>12. \A i \in 1..m - 1 : pre[i] < pre[i + 1]
  <2>1. \A i \in 2..m : pre[i - 1] < pre[i]
    BY <1>5, <1>7 DEF prefixOrder
  <2>2. ASSUME NEW i \in 1..m - 1
        PROVE  pre[i] < pre[i + 1]
    <3>1. i + 1 \in 2..m /\ (i + 1) - 1 = i
      BY <1>1
    <3>2. pre[(i + 1) - 1] < pre[i + 1]
      BY <2>1, <3>1
    <3> QED
      BY <3>1, <3>2
  <2> QED
    BY <2>2
<1>13. \A i, j \in 1..m : pre[i] = pre[j] => i = j
  <2>1. \A i, j \in 1..m : i < j => pre[i] < pre[j]
    BY <1>1, <1>8, <1>12, ClimbsStrictly
  <2>2. ASSUME NEW i \in 1..m, NEW j \in 1..m, pre[i] = pre[j]
        PROVE  i = j
    <3>1. ~(i < j) /\ ~(j < i)
      BY <1>8, <2>1, <2>2
    <3> QED
      BY <1>1, <3>1
  <2> QED
    BY <2>2
<1> DEFINE Row(i, p) == [hi |-> pre[i], lo |-> f[p + 1], at |-> p]
<1>14. \A r : r \in Rows6 <=> \E i \in 1..m : \E p \in Run(x, i) : r = Row(i, p)
  BY <1>7 DEF Rows6, x, f, pre
<1>15. ASSUME NEW i \in 1..m, NEW p \in Run(x, i)
       PROVE  p \in 0..k - 1 /\ p \in x[i] .. x[i + 1] - 1
  <2>1. i \in 1..m + 1 /\ i + 1 \in 1..m + 1
    BY <1>1
  <2>2. x[i] \in 0..k /\ x[i + 1] \in 0..k
    BY <1>11, <2>1
  <2> QED
    BY <2>2 DEF Run
<1>16. ASSUME NEW i \in 1..m, NEW p \in Run(x, i), NEW j \in 1..m, p \in Run(x, j)
       PROVE  i = j
  <2>1. p \in 0..k - 1 /\ p \in x[i] .. x[i + 1] - 1 /\ p \in x[j] .. x[j + 1] - 1
    BY <1>15, <1>16
  <2>2. \E g \in 1..m : \A e \in 1..m : p \in x[e] .. x[e + 1] - 1 => e = g
    BY <1>1, <1>10, <2>1, RowHasGroup
  <2> QED
    BY <2>1, <2>2
<1>17. Cardinality(Rows6) = k
  <2>1. \A r \in Rows6 : r.at \in 0..k - 1
    BY <1>14, <1>15
  <2>2. ASSUME NEW p \in 0..k - 1
        PROVE  \E r \in Rows6 : r.at = p
    <3>1. PICK i \in 1..m : p \in x[i] .. x[i + 1] - 1
      BY <1>1, <1>10, RowHasGroup
    <3>2. p \in Run(x, i)
      BY <3>1 DEF Run
    <3>3. Row(i, p) \in Rows6 /\ Row(i, p).at = p
      BY <1>14, <3>2
    <3> QED
      BY <3>3
  <2>3. ASSUME NEW r \in Rows6, NEW q \in Rows6, r.at = q.at
        PROVE  r = q
    <3>1. PICK i \in 1..m : \E p \in Run(x, i) : r = Row(i, p)
      BY <1>14
    <3>2. PICK p \in Run(x, i) : r = Row(i, p)
      BY <3>1
    <3>3. PICK j \in 1..m : \E u \in Run(x, j) : q = Row(j, u)
      BY <1>14
    <3>4. PICK u \in Run(x, j) : q = Row(j, u)
      BY <3>3
    <3>5. p = u
      BY <2>3, <3>2, <3>4
    <3>6. i = j
      BY <1>16, <3>5
    <3> QED
      BY <3>2, <3>4, <3>5, <3>6
  <2> QED
    BY <1>1, <2>1, <2>2, <2>3, RowCount
<1>18. ASSUME NEW h \in Nat, NEW l \in Nat
       PROVE  LET key == [hi |-> h, lo |-> l]
              IN AgreesWith(Rows6, key, s6.vals, lookup6(s6, key))
  <2> DEFINE key == [hi |-> h, lo |-> l]
             answer == lookup6(s6, key)
             own == {r \in Rows6 : r.hi = key.hi /\ r.lo = key.lo}
  <2>1. h \in Nat /\ l \in Nat
    OBVIOUS
  <2>2. /\ \A i \in 1..m : \A p \in Run(x, i) :
             pre[i] = h /\ f[p + 1] = l => answer = get(s6.vals, p)
        /\ (\A i \in 1..m : \A p \in Run(x, i) : ~(pre[i] = h /\ f[p + 1] = l)) => answer = Miss
    <3>1. Len(s6.suffix) = k /\ \A j \in 1..k : s6.suffix[j] \in Nat
      BY <1>7, <1>8 DEF f
    <3>2. Len(s6.prefix) = m /\ (\A i \in 1..m : s6.prefix[i] \in Nat)
          /\ \A i \in 1..m - 1 : s6.prefix[i] < s6.prefix[i + 1]
      BY <1>7, <1>8, <1>12 DEF pre
    <3>3. Divides(s6.pidx, m, k, 1) /\ Ascend(s6.pidx, m, s6.suffix)
      BY <1>10 DEF x, f
    <3>4. key.hi = h /\ key.lo = l
      OBVIOUS
    <3> HIDE DEF key
    <3>5. /\ \A i \in 1..m : \A p \in s6.pidx[i] .. s6.pidx[i + 1] - 1 :
               s6.prefix[i] = key.hi /\ s6.suffix[p + 1] = key.lo
                  => lookup6(s6, key) = get(s6.vals, p)
          /\ (\A i \in 1..m : \A p \in s6.pidx[i] .. s6.pidx[i + 1] - 1 :
               ~(s6.prefix[i] = key.hi /\ s6.suffix[p + 1] = key.lo))
                  => lookup6(s6, key) = Miss
      BY <1>1, <2>1, <3>1, <3>2, <3>3, <3>4, Lookup6Finds
    <3> QED
      BY <3>4, <3>5 DEF x, f, pre, Run
  <2> HIDE DEF answer
  <2>3. \A r : r \in own <=> \E i \in 1..m : \E p \in Run(x, i) :
                                pre[i] = h /\ f[p + 1] = l /\ r = Row(i, p)
    BY <1>14
  <2>4. CASE own = {}
    <3>1. \A i \in 1..m : \A p \in Run(x, i) : ~(pre[i] = h /\ f[p + 1] = l)
      BY <2>3, <2>4
    <3> QED
      BY <2>2, <2>4, <3>1 DEF AgreesWith, answer
  <2>5. CASE own # {}
    <3>1. PICK r \in own : TRUE
      BY <2>5
    <3>2. PICK i \in 1..m : \E p \in Run(x, i) : pre[i] = h /\ f[p + 1] = l /\ r = Row(i, p)
      BY <2>3, <3>1
    <3>3. PICK p \in Run(x, i) : pre[i] = h /\ f[p + 1] = l /\ r = Row(i, p)
      BY <3>2
    <3>4. ASSUME NEW q \in own
          PROVE  q = r
      <4>1. PICK j \in 1..m : \E u \in Run(x, j) : pre[j] = h /\ f[u + 1] = l /\ q = Row(j, u)
        BY <2>3
      <4>2. PICK u \in Run(x, j) : pre[j] = h /\ f[u + 1] = l /\ q = Row(j, u)
        BY <4>1
      <4>3. i = j
        BY <1>13, <3>3, <4>2
      <4>4. u \in Run(x, i) /\ f[p + 1] = f[u + 1]
        BY <3>3, <4>2, <4>3
      <4>5. p = u
        BY <1>1, <1>8, <1>10, <4>4, OneRow
      <4> QED
        BY <3>3, <4>2, <4>3, <4>5
    <3>5. own = {r}
      BY <3>1, <3>4
    <3>6. answer = get(s6.vals, p) /\ r.at = p
      BY <2>2, <3>3
    <3>7. get(s6.vals, p) # Fault
      <4>1. p \in 0..k - 1
        BY <1>15
      <4> QED
        BY <1>1, <1>3, <1>6, <4>1, ValueIsThere
    <3> QED
      BY <2>5, <3>1, <3>5, <3>6, <3>7 DEF AgreesWith, answer
  <2> QED
    BY <2>4, <2>5
<1>19. ASSUME NEW r \in Rows6 PROVE r.hi \in Words /\ r.lo \in Words
  <2>1. PICK i \in 1..m : \E p \in Run(x, i) : r = Row(i, p)
    BY <1>14
  <2>2. PICK p \in Run(x, i) : r = Row(i, p)
    BY <2>1
  <2>3. p + 1 \in 1..k
    <3>1. p \in 0..k - 1
      BY <1>15
    <3> QED
      BY <1>1, <3>1
  <2>4. f[p + 1] \in Words /\ pre[i] \in Words
    BY <1>3, <2>3
  <2> QED
    BY <2>2, <2>4
<1> QED
  BY <1>17, <1>18, <1>19

-----------------------------------------------------------------------------
(* From addresses to keys.                                                 *)

Key(u) == [hi |-> u.hi, lo |-> u.lo]
Group4(u) == u.hi \in 0..Groups4 - 1 /\ u.lo \in 0..Octets - 1

\* The answers of a Map for the keys of its families, and for the others none.
Keyed4 == \A u : u.kind = "v4" /\ Group4(u)
                    => AgreesWith(Rows4, u, s4.vals, lookup4(s4, u))
Keyed6 == \A u : u.kind = "v6" /\ u.hi \in Nat /\ u.lo \in Nat
                    => AgreesWith(Rows6, u, s6.vals, lookup6(s6, u))

\* The words a 4-in-6 address may have are numbers.
LEMMA MappedWords ==
    ASSUME NEW w \in MapBase .. MapBase + Groups4 * Octets - 1
    PROVE  w \in Nat
<1>1. MapBase \in Nat /\ Groups4 * Octets \in Nat
  BY WidthAssumption
<1> DEFINE span == Groups4 * Octets
<1>2. span \in Nat /\ w \in MapBase .. MapBase + span - 1
  BY <1>1
<1> HIDE DEF span
<1> QED
  BY <1>1, <1>2

\* An address that is asked for is unmapped to a key of one family.
LEMMA UnmappedKey ==
    ASSUME NEW a \in Asked
    PROVE  /\ Unmap(a).kind \in {"v4", "v6"}
           /\ Unmap(a).kind = "v4" => Group4(Unmap(a))
           /\ Unmap(a).kind = "v6" => Unmap(a) = a /\ ~Mapped(a)
                                      /\ a.hi \in Nat /\ a.lo \in Nat
<1>1. CASE a \in Asked4
  <2>1. a.kind = "v4" /\ a.hi \in 0..Groups4 - 1 /\ a.lo \in 0..Octets - 1
    BY <1>1 DEF Asked4
  <2>2. Unmap(a) = a
    BY <2>1 DEF Unmap, Mapped
  <2> QED
    BY <2>1, <2>2 DEF Group4
<1>2. CASE a \in Asked6 /\ Mapped(a)
  <2> DEFINE x == a.lo - MapBase
             span == Groups4 * Octets
  <2>1. Octets \in Nat \ {0} /\ Groups4 \in Nat /\ MapBase \in Nat /\ span \in Nat
    BY WidthAssumption
  <2>2. a.lo \in MapBase .. MapBase + span - 1
    BY <1>2 DEF Mapped
  <2> HIDE DEF span
  <2>3. x \in Nat /\ x < span
    BY <2>1, <2>2
  <2> HIDE DEF x
  <2>4. x < Groups4 * Octets
    BY <2>3 DEF span
  <2>5. x \div Octets < Groups4 /\ x \div Octets \in Nat /\ x % Octets \in 0..Octets - 1
    BY <2>1, <2>3, <2>4, QuotientBelow
  <2>6. x \div Octets \in 0..Groups4 - 1
    BY <2>1, <2>5
  <2>7. Unmap(a).kind = "v4" /\ Unmap(a).hi = x \div Octets /\ Unmap(a).lo = x % Octets
    BY <1>2 DEF Unmap, x
  <2> QED
    BY <2>5, <2>6, <2>7 DEF Group4
<1>3. CASE a \in Asked6 /\ ~Mapped(a)
  <2>1. /\ a.kind = "v6" /\ a.hi \in Words \cup {0}
        /\ a.lo \in Words \cup (MapBase .. MapBase + Groups4 * Octets - 1)
    BY <1>3 DEF Asked6
  <2>2. a.hi \in Nat /\ a.lo \in Nat
    <3>1. a.hi \in Nat
      <4>1. \A w \in Words \cup {0} : w \in Nat
        BY BoundAssumption
      <4>2. a.hi \in Words \cup {0}
        BY <2>1
      <4> QED
        BY <4>1, <4>2, Zenon
    <3>2. CASE a.lo \in Words
      BY <3>1, <3>2, BoundAssumption
    <3>3. CASE a.lo \in MapBase .. MapBase + Groups4 * Octets - 1
      <4>1. a.lo \in Nat
        BY <3>3, MappedWords
      <4> QED
        BY <3>1, <4>1
    <3> QED
      BY <2>1, <3>2, <3>3, Zenon
  <2> QED
    BY <1>3, <2>1, <2>2 DEF Unmap
<1> QED
  BY <1>1, <1>2, <1>3 DEF Asked

\* With the answers for the keys, the answers for the addresses.
LEMMA AnswersForAll ==
    ASSUME Keyed4, Keyed6, NEW a \in Asked
    PROVE  AnswersFor(a)
<1>1. CASE ~NamesHost(a)
  BY <1>1 DEF AnswersFor, Lookup
<1>2. CASE NamesHost(a) /\ Unmap(a).kind = "v4"
  <2>1. Lookup(s4, s6, a) = lookup4(s4, Unmap(a))
    BY <1>2 DEF Lookup
  <2>2. Group4(Unmap(a))
    BY <1>2, UnmappedKey
  <2>3. AgreesWith(Rows4, Unmap(a), s4.vals, lookup4(s4, Unmap(a)))
    BY <1>2, <2>2 DEF Keyed4
  <2> QED
    BY <1>2, <2>1, <2>3 DEF AnswersFor
<1>3. CASE NamesHost(a) /\ Unmap(a).kind = "v6"
  <2>1. Lookup(s4, s6, a) = lookup6(s6, Unmap(a))
    BY <1>3 DEF Lookup
  <2>2. Unmap(a).hi \in Nat /\ Unmap(a).lo \in Nat
    BY <1>3, UnmappedKey
  <2>3. AgreesWith(Rows6, Unmap(a), s6.vals, lookup6(s6, Unmap(a)))
    BY <1>3, <2>2 DEF Keyed6
  <2> QED
    BY <1>3, <2>1, <2>3 DEF AnswersFor
<1> QED
  BY <1>1, <1>2, <1>3, UnmappedKey

\* A family without rows misses.
LEMMA Missing4 ==
    ASSUME s4 = Nil4
    PROVE  Rows4 = {} /\ Keyed4
<1>1. s4.idx = <<>>
  BY DEF Nil4
<1>2. Rows4 = {} /\ \A u : lookup4(s4, u) = Miss
  BY <1>1 DEF Rows4, lookup4
<1> QED
  BY <1>2 DEF Keyed4, AgreesWith

LEMMA Missing6 ==
    ASSUME s6 = Nil6
    PROVE  Rows6 = {} /\ Keyed6
<1>1. s6.prefix = <<>> /\ Len(s6.prefix) = 0
  BY DEF Nil6
<1>2. Rows6 = {}
  BY <1>1 DEF Rows6
<1>3. ASSUME NEW holds PROVE Search(0, holds) = 0
  <2>1. 0 \in Nat /\ 0 \in 0..0 /\ \A k \in 0..0 - 1 : holds[k] <=> k >= 0
    OBVIOUS
  <2> QED
    BY <2>1, SearchFinds
<1>4. ASSUME NEW u PROVE lookup6(s6, u) = Miss
  <2> DEFINE holds == [k \in 0..0 - 1 |-> s6.prefix[k + 1] >= u.hi]
  <2>1. Search(0, holds) = 0
    BY <1>3
  <2> QED
    BY <1>1, <2>1 DEF lookup6
<1> QED
  BY <1>2, <1>4 DEF Keyed6, AgreesWith

\* A row of the 32-bit store is reached by its own address.
LEMMA Reached4 ==
    ASSUME NEW r, r.hi \in 0..Groups4 - 1, r.lo \in 0..Octets - 1
    PROVE  Reached("v4", r)
<1> DEFINE a == [kind |-> "v4", hi |-> r.hi, lo |-> r.lo, zone |-> FALSE]
<1>1. a \in Asked
  BY DEF Asked, Asked4
<1>2. NamesHost(a) /\ Unmap(a) = a
  BY DEF NamesHost, Unmap, Mapped
<1> QED
  BY <1>1, <1>2 DEF Reached

\* A row of the 128-bit store is reached unless its address is a 4-in-6 one.
LEMMA Reached6 ==
    ASSUME NEW r, r.hi \in Words, r.lo \in Words
    PROVE  Reached("v6", r) <=> ~Masked(r)
<1> DEFINE a == [kind |-> "v6", hi |-> r.hi, lo |-> r.lo, zone |-> FALSE]
<1>1. a \in Asked
  BY DEF Asked, Asked6
<1>2. NamesHost(a) /\ (Mapped(a) <=> Masked(r))
  BY DEF NamesHost, Masked
<1>3. ASSUME ~Masked(r) PROVE Reached("v6", r)
  <2>1. Unmap(a) = a
    BY <1>2, <1>3 DEF Unmap
  <2> QED
    BY <1>1, <1>2, <2>1 DEF Reached
<1>4. ASSUME Reached("v6", r) PROVE ~Masked(r)
  <2>1. PICK c \in Asked : /\ NamesHost(c) /\ Unmap(c).kind = "v6"
                           /\ Unmap(c).hi = r.hi /\ Unmap(c).lo = r.lo
    BY <1>4 DEF Reached
  <2>2. Unmap(c) = c /\ ~Mapped(c)
    BY <2>1, UnmappedKey
  <2> QED
    BY <2>1, <2>2 DEF Mapped, Masked
<1> QED
  BY <1>3, <1>4

-----------------------------------------------------------------------------
(* The theorem.                                                            *)

LEMMA AcceptedAnswersHolds == IInv => AcceptedAnswers
<1> SUFFICES ASSUME IInv, verdict = "ok" PROVE AcceptedAnswers
  BY DEF AcceptedAnswers
<1>1. validate(stats, s4, s6) = "ok"
  BY DEF IInv
<1>2. PICK k \in 1..MaxRows, table \in Tables :
         \/ s4 \in Sections4(k, table) /\ s6 = Nil6 /\ stats = Counts(k, 0, Len(table))
         \/ /\ \E np \in 1..k : s6 \in Sections6(k, np, table)
            /\ s4 = Nil4 /\ stats = Counts(0, k, Len(table))
  BY DEF IInv, SomeSections
<1>3. CASE s4 \in Sections4(k, table) /\ s6 = Nil6 /\ stats = Counts(k, 0, Len(table))
  <2>1. stats.Addrs4 = k /\ stats.Addrs6 = 0
    BY <1>3 DEF Counts
  <2>2. /\ Cardinality(Rows4) = k
        /\ \A g \in 0..Groups4 - 1, o \in 0..Octets - 1 :
             LET key == [hi |-> g, lo |-> o]
             IN AgreesWith(Rows4, key, s4.vals, lookup4(s4, key))
        /\ \A r \in Rows4 : r.hi \in 0..Groups4 - 1 /\ r.lo \in 0..Octets - 1
    BY <1>1, <1>3, Accepted4
  <2>3. Rows6 = {} /\ Keyed6
    BY <1>3, Missing6
  <2>4. Keyed4
    <3> SUFFICES ASSUME NEW u, Group4(u)
                 PROVE  AgreesWith(Rows4, u, s4.vals, lookup4(s4, u))
      BY DEF Keyed4
    <3>1. AgreesWith(Rows4, Key(u), s4.vals, lookup4(s4, Key(u)))
      BY <2>2 DEF Group4, Key
    <3>2. Key(u).hi = u.hi /\ Key(u).lo = u.lo
      BY DEF Key
    <3>3. lookup4(s4, Key(u)) = lookup4(s4, u)
      BY <3>2, Zenon DEF lookup4
    <3> QED
      BY <3>1, <3>2, <3>3, Zenon DEF AgreesWith
  <2>5. \A r \in Rows4 : Reached("v4", r)
    BY <2>2, Reached4
  <2>6. Cardinality(Rows6) = 0
    BY <2>3, FS_EmptySet
  <2>7. \A a \in Asked : AnswersFor(a)
    BY <2>3, <2>4, AnswersForAll
  <2> QED
    BY <2>1, <2>2, <2>3, <2>5, <2>6, <2>7 DEF AcceptedAnswers
<1>4. CASE /\ \E np \in 1..k : s6 \in Sections6(k, np, table)
           /\ s4 = Nil4 /\ stats = Counts(0, k, Len(table))
  <2>1. stats.Addrs4 = 0 /\ stats.Addrs6 = k
    BY <1>4 DEF Counts
  <2>2. /\ Cardinality(Rows6) = k
        /\ \A h, l \in Nat :
             LET key == [hi |-> h, lo |-> l]
             IN AgreesWith(Rows6, key, s6.vals, lookup6(s6, key))
        /\ \A r \in Rows6 : r.hi \in Words /\ r.lo \in Words
    BY <1>1, <1>4, Accepted6
  <2>3. Rows4 = {} /\ Keyed4
    BY <1>4, Missing4
  <2>4. Keyed6
    <3> SUFFICES ASSUME NEW u, u.hi \in Nat, u.lo \in Nat
                 PROVE  AgreesWith(Rows6, u, s6.vals, lookup6(s6, u))
      BY DEF Keyed6
    <3>1. AgreesWith(Rows6, Key(u), s6.vals, lookup6(s6, Key(u)))
      BY <2>2 DEF Key
    <3>2. Key(u).hi = u.hi /\ Key(u).lo = u.lo
      BY DEF Key
    <3>3. lookup6(s6, Key(u)) = lookup6(s6, u)
      BY <3>2, Zenon DEF lookup6
    <3> QED
      BY <3>1, <3>2, <3>3, Zenon DEF AgreesWith
  <2>5. \A r \in Rows6 : Reached("v6", r) <=> ~Masked(r)
    BY <2>2, Reached6
  <2>6. Cardinality(Rows4) = 0
    BY <2>3, FS_EmptySet
  <2>7. \A a \in Asked : AnswersFor(a)
    BY <2>3, <2>4, AnswersForAll
  <2> QED
    BY <2>1, <2>2, <2>3, <2>5, <2>6, <2>7 DEF AcceptedAnswers
<1> QED
  BY <1>2, <1>3, <1>4

(* A file that Open accepts answers every lookup with the one row of its   *)
(* unmapped address, or misses when there is none; every row is reached,   *)
(* but for a 128-bit row under a 4-in-6 address (format.go, validate;      *)
(* store.go, Map.Lookup).                                                  *)
THEOREM AcceptedAnswer == Spec => []AcceptedAnswers
  BY IInvHolds, AcceptedAnswersHolds, PTL

=============================================================================
