------------------------------ MODULE Builder ------------------------------
(***************************************************************************)
(* builder.go: a Builder takes (address, value) pairs in any order, and    *)
(* Build compiles them into the two stores of a Map.                       *)
(*                                                                         *)
(* A Builder is used by one goroutine: one step of the model is one call   *)
(* of Add, or one turn of a loop of Build.  The sort is a library call:    *)
(* any arrangement it may return.  The in-place dedupe (kept := b.v4[:0])  *)
(* writes the array it reads, as the code does.                            *)
(***************************************************************************)
EXTENDS Validate

CONSTANTS Inputs,       \* the netip.Addr values callers pass to Add and Lookup
          WrongWidth,   \* stands for every value that is not ValLen bytes long
          MaxValLen     \* the widest value NewBuilder makes a Builder for

ASSUME InputAssumption ==
    /\ Inputs \subseteq [kind : {"invalid", "v4", "v6"}, hi : Nat, lo : Nat,
                         zone : BOOLEAN]
    /\ \A a \in Inputs :
          a.kind = "v4" => a.hi < Groups4 /\ a.lo < Octets /\ ~a.zone
ASSUME IdAssumption == MaxU32 < Power[4]   \* a uint32 fits four bytes
ASSUME WrongWidthAssumption == WrongWidth \notin Values /\ MaxValLen \in Nat \ {0}

VARIABLES intern,             \* Options.Intern
          v4, v6,             \* Builder.v4, Builder.v6: entries in Add order
          n,                  \* Builder.n
          built,              \* Builder.built
          vals,               \* Builder.vals: one ValLen-byte value per Add
          tab, byVal, ids,    \* Builder.tab, Builder.byVal, Builder.ids
          stats, s4, s6,      \* the fields of the Map Build returns
          pc,                 \* where Build is; "open" before it is called
          at, kept,           \* its loop index, and len(kept)
          ret,                \* what the last call returned
          log                 \* history: the accepted Adds, in order

entries  == <<v4, v6>>
valstate == <<vals, tab, byVal, ids>>
mapstate == <<stats, s4, s6>>
loop     == <<at, kept>>
vars     == <<intern, entries, n, built, valstate, mapstate, pc, loop, ret, log>>

Host(a) == [kind |-> a.kind, hi |-> a.hi, lo |-> a.lo]
NoStats == [Addrs4 |-> 0, Addrs6 |-> 0, Dups |-> 0, DupConflicts |-> 0,
            Distinct |-> 0]
Phases  == {"open", "sort4", "dedupe4", "count4", "sum4", "fill4", "sort6",
            "dedupe6", "fill6", "release", "done", "panic"}

Init == /\ intern \in BOOLEAN
        /\ v4 = <<>> /\ v6 = <<>> /\ n = 0 /\ built = FALSE
        /\ vals = <<>> /\ tab = <<>> /\ byVal = <<>> /\ ids = <<>>
        /\ stats = NoStats /\ s4 = Nil4 /\ s6 = Nil6
        /\ pc = "open" /\ at = 1 /\ kept = 0
        /\ ret = "none" /\ log = <<>>

-----------------------------------------------------------------------------
(* Add.                                                                    *)

\* Mutant: the cap lets one Add too many through.
RefusalCapLate(a, val) ==
    IF a.kind = "invalid" THEN "invalid"
    ELSE IF a.zone THEN "zone"
    ELSE IF val = WrongWidth THEN "width"
    ELSE IF n > MaxU32 THEN "cap" ELSE "ok"

\* The checks of Add, in their order.
Refusal(a, val) ==
    IF a.kind = "invalid" THEN "invalid"
    ELSE IF a.zone THEN "zone"
    ELSE IF val = WrongWidth THEN "width"
    ELSE IF n >= MaxU32 THEN "cap" ELSE "ok"

AddRefused(a, val) ==
    /\ ~built
    /\ Refusal(a, val) # "ok"
    /\ ret' = Refusal(a, val)
    /\ UNCHANGED <<intern, entries, n, built, valstate, mapstate, pc, loop, log>>

\* The value of one Add: a row of vals, or an id for a new or a known value.
Remember(val) ==
    IF ~intern
      THEN vals' = Append(vals, val) /\ UNCHANGED <<tab, byVal, ids>>
      ELSE /\ UNCHANGED vals
           /\ IF val \in DOMAIN byVal
                THEN ids' = Append(ids, byVal[val]) /\ UNCHANGED <<tab, byVal>>
                ELSE LET id == U32(Cardinality(DOMAIN byVal))
                     IN /\ byVal' = [x \in DOMAIN byVal \cup {val} |->
                                        IF x = val THEN id ELSE byVal[x]]
                        /\ tab' = Append(tab, val)
                        /\ ids' = Append(ids, id)

\* Mutant: the two spellings of a mapped address stay two keys.
StoredAsSpelled(a) == a

\* The address that is stored: both spellings of a mapped one are one key.
StoredAs(a) == Unmap(a)

Add(a, val) ==
    /\ ~built
    /\ Refusal(a, val) = "ok"
    /\ LET u == StoredAs(a)
           e == [hi |-> u.hi, lo |-> u.lo, vi |-> U32(n)]
       IN IF u.kind = "v4" THEN v4' = Append(v4, e) /\ v6' = v6
                           ELSE v6' = Append(v6, e) /\ v4' = v4
    /\ Remember(val)
    /\ n' = n + 1
    /\ ret' = "ok"
    /\ log' = Append(log, [host |-> Host(Unmap(a)), val |-> val])
    /\ UNCHANGED <<intern, built, mapstate, pc, loop>>

\* Add and Build panic on a Builder that Build has consumed.
Misuse ==
    /\ built /\ pc = "done"
    /\ ret' = "panic"
    /\ UNCHANGED <<intern, entries, n, built, valstate, mapstate, pc, loop, log>>

-----------------------------------------------------------------------------
(* Helpers of the two builds.                                              *)

Goto(l) == pc' = l
SameAddr(x, y) == x.hi = y.hi /\ x.lo = y.lo

\* Mutant: the order of insertion is no tie-break.
BeforeByAddress(x, y) == x.hi < y.hi \/ (x.hi = y.hi /\ x.lo < y.lo)

\* The order of the sort: by address, then by sequence number.
Before(x, y) == \/ x.hi < y.hi
                \/ x.hi = y.hi /\ x.lo < y.lo
                \/ SameAddr(x, y) /\ x.vi < y.vi

Arrangements(k) == {p \in [1..k -> 1..k] : \A j \in 1..k : \E i \in 1..k : p[i] = j}

\* What sorting may leave: nothing before its predecessor.
Ordered(es) == \A i \in 2..Len(es) : ~Before(es[i], es[i - 1])
Rearranged(es, p) == [i \in 1..Len(es) |-> es[p[i]]]

\* vals[seq*ValLen : (seq+1)*ValLen] is a panic when the uint32 seq+1 wraps.
Readable(seq) == intern \/ U32(seq + 1) = seq + 1

sameVal(vi, vj) == IF intern THEN ids[vi + 1] = ids[vj + 1]
                             ELSE vals[vi + 1] = vals[vj + 1]

\* Mutant: the id width follows the entries kept, not the distinct values.
newValuesByEntries ==
    IF intern THEN [NoVals EXCEPT !.tab = tab, !.idW = idWidth(kept)] ELSE NoVals

newValues == IF intern
               THEN [NoVals EXCEPT !.tab = tab, !.idW = idWidth(Cardinality(DOMAIN byVal))]
               ELSE NoVals

\* setVal, for the next slot of v.
setVal(v, seq) ==
    IF intern THEN [v EXCEPT !.ids = Append(@, Pack(v.idW, ids[seq + 1]))]
              ELSE [v EXCEPT !.direct = Append(@, vals[seq + 1])]
setValOk(v, seq) == IF intern THEN Fits(v.idW, ids[seq + 1]) ELSE Readable(seq)

\* j is the survivor of the run of equal addresses that starts at i.
RunEnd(es, i, j) ==
    /\ j \in i..Len(es)
    /\ \A k \in i..j - 1 : SameAddr(es[k + 1], es[k])
    /\ j < Len(es) => ~SameAddr(es[j + 1], es[j])

\* Mutant: a conflict is a value that differs from its successor's.
DroppedByNeighbour(es, i, j) ==
    [stats EXCEPT
       !.Dups = @ + (j - i),
       !.DupConflicts =
           @ + Cardinality({k \in i..j - 1 : ~sameVal(es[k].vi, es[k + 1].vi)})]

\* What dropping es[i..j-1] in favour of es[j] adds to the statistics.
Dropped(es, i, j) ==
    [stats EXCEPT
       !.Dups = @ + (j - i),
       !.DupConflicts =
           @ + Cardinality({k \in i..j - 1 : ~sameVal(es[k].vi, es[j].vi)})]

\* The reads of Dropped panic on a sequence number at the top of uint32.
DropReadable(es, i, j) == j > i => \A k \in i..j : Readable(es[k].vi)

-----------------------------------------------------------------------------
(* Build.                                                                  *)

Build ==
    /\ ~built
    /\ built' = TRUE
    /\ stats' = [stats EXCEPT !.Distinct = IF intern THEN Cardinality(DOMAIN byVal)
                                                     ELSE 0]
    /\ ret' = "none"
    /\ Goto("sort4")
    /\ UNCHANGED <<intern, entries, n, valstate, s4, s6, loop, log>>

Panic == /\ Goto("panic")
         /\ UNCHANGED <<intern, entries, n, built, valstate, mapstate, loop, ret, log>>

(* build4 *)

Sort4 ==
    /\ pc = "sort4"
    /\ \E p \in Arrangements(Len(v4)) :
          /\ Ordered(Rearranged(v4, p))
          /\ v4' = Rearranged(v4, p)
    /\ at' = 1 /\ kept' = 0
    /\ Goto("dedupe4")
    /\ UNCHANGED <<intern, v6, n, built, valstate, mapstate, ret, log>>

\* One turn of the dedupe loop: the run at `at' shrinks to its last entry.
Dedupe4 ==
    /\ pc = "dedupe4" /\ at <= Len(v4)
    /\ \E j \in at..Len(v4) :
          /\ RunEnd(v4, at, j)
          /\ IF DropReadable(v4, at, j)
               THEN /\ stats' = Dropped(v4, at, j)
                    /\ v4' = [v4 EXCEPT ![kept + 1] = v4[j]]
                    /\ kept' = kept + 1
                    /\ at' = j + 1
                    /\ UNCHANGED <<intern, v6, n, built, valstate, s4, s6, pc, ret, log>>
               ELSE Panic

\* The loop is over: a map with no 32-bit entries keeps a nil index.
Deduped4 ==
    /\ pc = "dedupe4" /\ at > Len(v4)
    /\ stats' = [stats EXCEPT !.Addrs4 = kept]
    /\ Goto(IF kept = 0 THEN "sort6" ELSE "count4")
    /\ UNCHANGED <<intern, entries, n, built, valstate, s4, s6, loop, ret, log>>

\* Mutant: s.idx[e>>40]++, without the shift by one.
Count4Unshifted ==
    /\ pc = "count4"
    /\ s4' = [idx |-> [i \in 1..Groups4 + 1 |->
                          U32(Cardinality({k \in 1..kept : v4[k].hi + 1 = i}))],
              suffix |-> <<>>, vals |-> newValues]
    /\ at' = 2
    /\ Goto("sum4")
    /\ UNCHANGED <<intern, entries, n, built, valstate, stats, s6, kept, ret, log>>

\* s.idx[e>>40+1]++ over all kept entries.
Count4 ==
    /\ pc = "count4"
    /\ s4' = [idx |-> [i \in 1..Groups4 + 1 |->
                          U32(Cardinality({k \in 1..kept : v4[k].hi + 2 = i}))],
              suffix |-> <<>>, vals |-> newValues]
    /\ at' = 2
    /\ Goto("sum4")
    /\ UNCHANGED <<intern, entries, n, built, valstate, stats, s6, kept, ret, log>>

\* s.idx[i] += s.idx[i-1]
Sum4 ==
    /\ pc = "sum4"
    /\ IF at <= Groups4 + 1
         THEN /\ s4' = [s4 EXCEPT !.idx[at] = U32(@ + s4.idx[at - 1])]
              /\ at' = at + 1
              /\ pc' = pc
         ELSE at' = 1 /\ s4' = s4 /\ Goto("fill4")
    /\ UNCHANGED <<intern, entries, n, built, valstate, stats, s6, kept, ret, log>>

Fill4 ==
    /\ pc = "fill4" /\ at <= kept
    /\ IF setValOk(s4.vals, v4[at].vi)
         THEN /\ s4' = [s4 EXCEPT !.suffix = Append(@, v4[at].lo),
                                  !.vals = setVal(@, v4[at].vi)]
              /\ at' = at + 1
              /\ UNCHANGED <<intern, entries, n, built, valstate, stats, s6, kept,
                             pc, ret, log>>
         ELSE Panic

Filled4 ==
    /\ pc = "fill4" /\ at > kept
    /\ Goto("sort6")
    /\ UNCHANGED <<intern, entries, n, built, valstate, mapstate, loop, ret, log>>

(* build6 *)

Sort6 ==
    /\ pc = "sort6"
    /\ \E p \in Arrangements(Len(v6)) :
          /\ Ordered(Rearranged(v6, p))
          /\ v6' = Rearranged(v6, p)
    /\ at' = 1 /\ kept' = 0
    /\ Goto("dedupe6")
    /\ UNCHANGED <<intern, v4, n, built, valstate, mapstate, ret, log>>

Dedupe6 ==
    /\ pc = "dedupe6" /\ at <= Len(v6)
    /\ \E j \in at..Len(v6) :
          /\ RunEnd(v6, at, j)
          /\ IF DropReadable(v6, at, j)
               THEN /\ stats' = Dropped(v6, at, j)
                    /\ v6' = [v6 EXCEPT ![kept + 1] = v6[j]]
                    /\ kept' = kept + 1
                    /\ at' = j + 1
                    /\ UNCHANGED <<intern, v4, n, built, valstate, s4, s6, pc, ret, log>>
               ELSE Panic

Deduped6 ==
    /\ pc = "dedupe6" /\ at > Len(v6)
    /\ stats' = [stats EXCEPT !.Addrs6 = kept]
    /\ s6' = [Nil6 EXCEPT !.vals = newValues]
    /\ at' = 1
    /\ Goto("fill6")
    /\ UNCHANGED <<intern, entries, n, built, valstate, s4, kept, ret, log>>

\* A prefix is listed at the first entry of its group.
Fill6 ==
    /\ pc = "fill6" /\ at <= kept
    /\ IF setValOk(s6.vals, v6[at].vi)
         THEN /\ LET e == v6[at]
                     first == at = 1 \/ v6[at - 1].hi # e.hi
                 IN s6' = [prefix |-> IF first THEN Append(s6.prefix, e.hi)
                                               ELSE s6.prefix,
                           pidx   |-> IF first THEN Append(s6.pidx, U32(at - 1))
                                               ELSE s6.pidx,
                           suffix |-> Append(s6.suffix, e.lo),
                           vals   |-> setVal(s6.vals, e.vi)]
              /\ at' = at + 1
              /\ UNCHANGED <<intern, entries, n, built, valstate, stats, s4, kept,
                             pc, ret, log>>
         ELSE Panic

\* The sentinel offset closes the last group.
Filled6 ==
    /\ pc = "fill6" /\ at > kept
    /\ s6' = [s6 EXCEPT !.pidx = Append(@, U32(kept))]
    /\ Goto("release")
    /\ UNCHANGED <<intern, entries, n, built, valstate, stats, s4, loop, ret, log>>

\* Build drops its intermediates (tab stays: the stores share it) and returns.
Release ==
    /\ pc = "release"
    /\ v4' = <<>> /\ v6' = <<>> /\ vals' = <<>> /\ byVal' = <<>> /\ ids' = <<>>
    /\ at' = 1 /\ kept' = 0
    /\ Goto("done")
    /\ UNCHANGED <<intern, n, built, tab, mapstate, ret, log>>

BuildStep == \/ Sort4 \/ Dedupe4 \/ Deduped4 \/ Count4 \/ Sum4 \/ Fill4 \/ Filled4
             \/ Sort6 \/ Dedupe6 \/ Deduped6 \/ Fill6 \/ Filled6 \/ Release

Next == \/ \E a \in Inputs, val \in Values \cup {WrongWidth} :
              Add(a, val) \/ AddRefused(a, val)
        \/ Build
        \/ BuildStep
        \/ Misuse

Spec     == Init /\ [][Next]_vars
FairSpec == Spec /\ WF_vars(BuildStep)

-----------------------------------------------------------------------------
(* Properties.                                                             *)

Entry   == [hi : Nat, lo : Nat, vi : 0..MaxU32]
AddrKey == [kind : {"v4", "v6"}, hi : Nat, lo : Nat]
Statistics == [Addrs4 : Nat, Addrs6 : Nat, Dups : Nat, DupConflicts : Nat,
               Distinct : Nat]
ValsLayout == [direct : Seq(Values), tab : Seq(Values), ids : Seq(Seq(Nat)), idW : 0..4]
Store4 == [idx : Seq(0..MaxU32), suffix : Seq(Nat), vals : ValsLayout]
Store6 == [prefix : Seq(Nat), pidx : Seq(0..MaxU32), suffix : Seq(Nat),
           vals : ValsLayout]

(* The variables hold what their Go types and the state of Build allow:    *)
(* sequence numbers and offsets are uint32, values have the right width.   *)
TypeOK ==
    /\ intern \in BOOLEAN /\ built \in BOOLEAN /\ n \in 0..MaxU32
    /\ v4 \in Seq(Entry) /\ v6 \in Seq(Entry)
    /\ vals \in Seq(Values) /\ tab \in Seq(Values) /\ ids \in Seq(0..MaxU32)
    /\ DOMAIN byVal \subseteq Values /\ byVal \in [DOMAIN byVal -> 0..MaxU32]
    /\ IsFiniteSet(DOMAIN byVal)
    /\ stats \in Statistics /\ s4 \in Store4 /\ s6 \in Store6
    /\ pc \in Phases /\ at \in Nat \ {0} /\ kept \in Nat
    /\ built <=> pc # "open"
    /\ ret \in {"none", "ok", "invalid", "zone", "width", "cap", "panic"}
    /\ log \in Seq([host : AddrKey, val : Values])

(* The parallel arrays of the Builder stay aligned through both builds:    *)
(* every entry has its value, every id its row of the table, the in-place  *)
(* compaction stays behind the cursor that reads the same array, and the   *)
(* id width is that of the whole table.  NeverPanics follows from it.      *)
Bookkeeping ==
    /\ \A k \in 1..Len(v4) : v4[k].vi < n
    /\ \A k \in 1..Len(v6) : v6[k].vi < n
    /\ pc # "done" => /\ Len(v4) + Len(v6) = n
                      /\ IF intern THEN Len(ids) = n ELSE Len(vals) = n
                      /\ Cardinality(DOMAIN byVal) = Len(tab)
                      /\ Len(tab) <= n
    /\ \A x \in DOMAIN byVal : byVal[x] < Len(tab)
    /\ \A k \in 1..Len(ids) : ids[k] < Len(tab)
    /\ pc = "dedupe4" => kept < at /\ at <= Len(v4) + 1
    /\ pc = "dedupe6" => kept < at /\ at <= Len(v6) + 1
    /\ pc \in {"count4", "sum4", "fill4"} => kept <= Len(v4)
    /\ pc \in {"fill6", "release"} => kept <= Len(v6)
    /\ pc = "sum4" => at > 1 /\ Len(s4.idx) = Groups4 + 1
    /\ pc \in {"sum4", "fill4"} /\ intern => s4.vals.idW = idWidth(Len(tab))
    /\ pc = "fill6" /\ intern => s6.vals.idW = idWidth(Len(tab))

Names(a)  == Host(Unmap(a))
AllHosts  == {Names(a) : a \in {x \in Inputs : NamesHost(x)}}
PutsOf(h) == {k \in DOMAIN log : log[k].host = h}
Answer(h) == IF PutsOf(h) = {} THEN Miss ELSE log[Max(PutsOf(h))].val

(* Last added wins, over both families, both value layouts and every order *)
(* of insertion: a lookup on the built map answers what the last accepted  *)
(* Add of that host carried, whichever spelling either of them used, and   *)
(* an address Add refuses is a miss.                                       *)
AnswersLastWins ==
    pc = "done" =>
      \A a \in Inputs :
         Lookup(s4, s6, a) = IF NamesHost(a) THEN Answer(Names(a)) ELSE Miss

Distincts(kind) == {h \in AllHosts : h.kind = kind /\ PutsOf(h) # {}}
Superseded == {k \in DOMAIN log : k # Max(PutsOf(log[k].host))}

(* The statistics of a build account for every accepted Add: it is stored, *)
(* or counted as a duplicate, and it is a conflict exactly when its value  *)
(* is not the one that survived for its host.  Distinct counts the values  *)
(* ever added, superseded ones included, and only when interning.          *)
StatsAccount ==
    pc = "done" =>
      stats = [Addrs4 |-> Cardinality(Distincts("v4")),
               Addrs6 |-> Cardinality(Distincts("v6")),
               Dups   |-> Cardinality(Superseded),
               DupConflicts |->
                   Cardinality({k \in Superseded : log[k].val # Answer(log[k].host)}),
               Distinct |-> IF intern
                              THEN Cardinality({log[k].val : k \in DOMAIN log})
                              ELSE 0]

(* What Build produces, Open accepts: the validator's view of the group    *)
(* offsets, of the order of prefixes and suffixes and of the ids agrees    *)
(* with the builder's, up to a full builder.                               *)
BuiltStoreValid == pc = "done" => validate(stats, s4, s6) = "ok"

(* No sequence of legal calls makes Build panic: ids fit the width chosen  *)
(* for them, and no sequence number is at the top of uint32.               *)
NeverPanics == pc # "panic"

-----------------------------------------------------------------------------
(* The refinement of AddrMap.  Until a store is filled, the answer for a   *)
(* host is the value of its entry with the highest sequence number among   *)
(* the entries that are still to be read or already kept.                  *)

Unsettled(es) == 1..kept \cup at..Len(es)
Live4 == IF pc \in {"open", "sort4"} THEN DOMAIN v4
         ELSE IF pc = "dedupe4" THEN Unsettled(v4) ELSE 1..kept
Live6 == IF pc = "dedupe6" THEN Unsettled(v6)
         ELSE IF pc = "fill6" THEN 1..kept ELSE DOMAIN v6

added(seq) == IF intern THEN tab[ids[seq + 1] + 1] ELSE vals[seq + 1]

LiveAnswer(es, live, h) ==
    LET own == {es[k].vi : k \in {i \in live : SameAddr(es[i], h)}}
    IN IF own = {} THEN Miss ELSE added(Max(own))

Answer4(h) == IF pc \in {"open", "sort4", "dedupe4", "count4", "sum4", "fill4"}
                THEN LiveAnswer(v4, Live4, h) ELSE lookup4(s4, h)
Answer6(h) == IF pc \in {"release", "done"}
                THEN lookup6(s6, h) ELSE LiveAnswer(v6, Live6, h)

LiveDict == [h \in AllHosts |-> IF h.kind = "v4" THEN Answer4(h) ELSE Answer6(h)]

AM == INSTANCE AddrMap WITH Hosts <- AllHosts, Capacity <- MaxU32,
                            dict <- LiveDict, puts <- n, sealed <- (pc = "done")

(* A Builder and the Map it builds are the dictionary of AddrMap: an       *)
(* accepted Add is one Put and is taken only below the cap, no step of     *)
(* Build loses, revives or changes an answer on the way from the entries   *)
(* to the stores, and the finished map is frozen.                          *)
ImplementsAddrMap == AM!ASpec

(* Once called, Build returns: none of its loops runs for ever or stalls.  *)
BuildReturns == built ~> pc = "done"
=============================================================================
