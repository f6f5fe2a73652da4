------------------------------ MODULE Validate ------------------------------
(***************************************************************************)
(* Map.validate (format.go): the structural check Open runs on the         *)
(* sections of an artifact, after the header, the section geometry and the *)
(* checksums were accepted.  A check ends in one of three ways: "ok",      *)
(* "corrupt" (an error return) or "panic" (an index out of range).         *)
(***************************************************************************)
EXTENDS Store

\* Mutant: equal neighbours pass as ascending.
StopsDescending(suffix, lo, hi) ==
    {j \in U32(lo + 1) .. hi - 1 :
        \/ j >= Len(suffix)
        \/ U32(j - 1 + MaxU32 + 1) >= Len(suffix)
        \/ suffix[j] > suffix[j + 1]}

\* The positions at which the ascending check of a group [lo, hi) stops: out
\* of range, or out of order.  j counts in uint32, and so does j-1.
Stops(suffix, lo, hi) ==
    {j \in U32(lo + 1) .. hi - 1 :
        \/ j >= Len(suffix)
        \/ U32(j - 1 + MaxU32 + 1) >= Len(suffix)
        \/ suffix[j] >= suffix[j + 1]}

InRange(suffix, j) == j < Len(suffix) /\ U32(j - 1 + MaxU32 + 1) < Len(suffix)

checkGroup(suffix, lo, hi, minGroup) ==
    IF hi < lo \/ hi - lo < minGroup THEN "corrupt"
    ELSE LET stops == Stops(suffix, lo, hi)
         IN IF stops = {} THEN "ok"
            ELSE IF InRange(suffix, Min(stops)) THEN "corrupt" ELSE "panic"

\* The groups are checked in order; the first that is not fine decides.
checkGroups(idx, suffix, n, minGroup) ==
    IF idx[1] # 0 \/ idx[Len(idx)] # n THEN "corrupt"
    ELSE LET Group(i) == checkGroup(suffix, idx[i], idx[i + 1], minGroup)
             bad == {i \in 1..Len(idx) - 1 : Group(i) # "ok"}
         IN IF bad = {} THEN "ok" ELSE Group(Min(bad))

checkIDs(v, n, distinct) ==
    IF \A i \in 1..n : Unpack(v.ids[i]) < distinct THEN "ok" ELSE "corrupt"

prefixOrder(prefix) ==
    IF \A i \in 2..Len(prefix) : prefix[i - 1] < prefix[i] THEN "ok" ELSE "corrupt"

\* The first verdict that is not "ok" is validate's.
Then(first, second) == IF first = "ok" THEN second ELSE first

validate4(stats, s4) ==
    IF stats.Addrs4 = 0 THEN "ok" ELSE checkGroups(s4.idx, s4.suffix, stats.Addrs4, 0)

validate6(stats, s6) ==
    IF stats.Addrs6 = 0 THEN "ok"
    ELSE Then(prefixOrder(s6.prefix), checkGroups(s6.pidx, s6.suffix, stats.Addrs6, 1))

validateIDs(stats, s4, s6) ==
    IF stats.Distinct = 0 THEN "ok"
    ELSE Then(IF stats.Addrs4 = 0 THEN "ok"
              ELSE checkIDs(s4.vals, stats.Addrs4, stats.Distinct),
              IF stats.Addrs6 = 0 THEN "ok"
              ELSE checkIDs(s6.vals, stats.Addrs6, stats.Distinct))

validate(stats, s4, s6) ==
    Then(validate4(stats, s4),
         Then(validate6(stats, s6), validateIDs(stats, s4, s6)))
=============================================================================
