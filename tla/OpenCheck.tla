----------------------------- MODULE OpenCheck -----------------------------
(***************************************************************************)
(* Open on sections whose checksums are right and whose lengths fit the    *)
(* header's counts, with any content (format.go, from the views on):       *)
(* validate gives its verdict, and a Map it accepts is read by Map.Lookup. *)
(* What a file of that kind says is defined by its rows, without any       *)
(* search.                                                                 *)
(***************************************************************************)
EXTENDS Validate

CONSTANTS MaxRows,     \* bound: entries per family
          MaxTable,    \* bound: rows of the interned value table
          Words        \* the 64-bit words that occur, a set of naturals

ASSUME BoundAssumption == MaxRows \in Nat /\ MaxTable \in Nat /\ Words \subseteq Nat

VARIABLES stats, s4, s6,   \* the Map openBytes assembles from the sections
          verdict          \* "unread", then what validate said

vars == <<stats, s4, s6, verdict>>

\* mkvals: the value section of k rows, direct or as ids into a shared table.
mkvals(k, table) ==
    IF table = <<>>
      THEN {[NoVals EXCEPT !.direct = d] : d \in [1..k -> Values]}
      ELSE LET w == idWidth(Len(table))
           IN {[direct |-> <<>>, tab |-> table, ids |-> x, idW |-> w] :
                  x \in [1..k -> [1..w -> 0..ByteSize - 1]]}

\* The sections of one family with k > 0 rows: any offsets, suffixes, values.
Sections4(k, table) ==
    [idx : [1..Groups4 + 1 -> 0..MaxU32], suffix : [1..k -> 0..Octets - 1],
     vals : mkvals(k, table)]
Sections6(k, np, table) ==
    [prefix : [1..np -> Words], pidx : [1..np + 1 -> 0..MaxU32],
     suffix : [1..k -> Words], vals : mkvals(k, table)]

Counts(n4, n6, distinct) ==
    [Addrs4 |-> n4, Addrs6 |-> n6, Dups |-> 0, DupConflicts |-> 0,
     Distinct |-> distinct]

Tables == {<<>>} \cup UNION {[1..d -> Values] : d \in 1..MaxTable}

\* One family at a time: the checks of the two share nothing but the table.
Init ==
    /\ verdict = "unread"
    /\ \E k \in 1..MaxRows, table \in Tables :
          \/ /\ s4 \in Sections4(k, table)
             /\ s6 = Nil6
             /\ stats = Counts(k, 0, Len(table))
          \/ /\ \E np \in 1..k : s6 \in Sections6(k, np, table)
             /\ s4 = Nil4
             /\ stats = Counts(0, k, Len(table))

OpenSections == /\ verdict = "unread"
                /\ verdict' = validate(stats, s4, s6)
                /\ UNCHANGED <<stats, s4, s6>>

Next == OpenSections
Spec == Init /\ [][Next]_vars

-----------------------------------------------------------------------------
(* Properties.                                                             *)

Run(offsets, i) == offsets[i] .. offsets[i + 1] - 1
Rows4 == IF s4.idx = <<>> THEN {}
         ELSE UNION {{[hi |-> g, lo |-> s4.suffix[p + 1], at |-> p] :
                         p \in Run(s4.idx, g + 1)} : g \in 0..Groups4 - 1}
Rows6 == UNION {{[hi |-> s6.prefix[i], lo |-> s6.suffix[p + 1], at |-> p] :
                    p \in Run(s6.pidx, i)} : i \in 1..Len(s6.prefix)}

\* What Lookup may be asked for: 32-bit addresses, and 128-bit ones over the
\* words of the file and of the mapped range, with and without a zone.
Asked4 == [kind : {"v4"}, hi : 0..Groups4 - 1, lo : 0..Octets - 1, zone : {FALSE}]
Asked6 == [kind : {"v6"}, hi : Words \cup {0},
           lo : Words \cup (MapBase .. MapBase + Groups4 * Octets - 1), zone : BOOLEAN]
Asked  == Asked4 \cup Asked6

\* The answer for a key agrees with the rows that carry the key.
AgreesWith(rows, key, vals, answer) ==
    LET own == {r \in rows : r.hi = key.hi /\ r.lo = key.lo}
    IN IF own = {} THEN answer = Miss
       ELSE \E r \in own : own = {r} /\ answer = get(vals, r.at) /\ answer # Fault

\* A lookup reads the rows of the family its address is in once it is unmapped.
AnswersFor(a) ==
    LET u == Unmap(a)
        answer == Lookup(s4, s6, a)
    IN IF ~NamesHost(a) THEN answer = Miss
       ELSE IF u.kind = "v4" THEN AgreesWith(Rows4, u, s4.vals, answer)
                             ELSE AgreesWith(Rows6, u, s6.vals, answer)

\* Some address leads to the key.
Reached(kind, key) ==
    \E a \in Asked : /\ NamesHost(a) /\ Unmap(a).kind = kind
                     /\ Unmap(a).hi = key.hi /\ Unmap(a).lo = key.lo

\* A 128-bit row under a 4-in-6 address.
Masked(r) == Mapped([kind |-> "v6", hi |-> r.hi, lo |-> r.lo, zone |-> FALSE])

(* A file that Open accepts cannot produce an access out of bounds or an   *)
(* answer that is not in it: every lookup finds the one row of its         *)
(* unmapped address, or misses when there is none, and the rows are as     *)
(* many as the header says.  Every row can be reached, but for one         *)
(* exception that validate lets pass: a 128-bit row under a 4-in-6 address *)
(* is in the file and no lookup reads it, as the address names a 32-bit    *)
(* host (store.go:59).  No build writes such a row.                        *)
AcceptedAnswers ==
    verdict = "ok" =>
      /\ Cardinality(Rows4) = stats.Addrs4 /\ Cardinality(Rows6) = stats.Addrs6
      /\ \A a \in Asked : AnswersFor(a)
      /\ \A r \in Rows4 : Reached("v4", r)
      /\ \A r \in Rows6 : Reached("v6", r) <=> ~Masked(r)

(* Damaged sections are refused, not fatal: validate itself ends with a    *)
(* verdict on every content.                                               *)
ValidateNeverPanics == verdict # "panic"
=============================================================================
