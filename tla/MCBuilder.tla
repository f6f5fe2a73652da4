----------------------------- MODULE MCBuilder -----------------------------
(***************************************************************************)
(* Builder on small instances: a 32-bit space of two groups of two         *)
(* addresses, the low words 1..4 of the high word 0 standing for the       *)
(* 4-in-6 mapped range, two-valued bytes and a uint32 whose top is 3 or 4. *)
(***************************************************************************)
EXTENDS Builder, TLC

V4(g, o) == [kind |-> "v4", hi |-> g, lo |-> o, zone |-> FALSE]
V6(h, l) == [kind |-> "v6", hi |-> h, lo |-> l, zone |-> FALSE]
Zoned(a) == [a EXCEPT !.zone = TRUE]
Invalid  == [kind |-> "invalid", hi |-> 0, lo |-> 0, zone |-> FALSE]

\* Both spellings of 0.0 and of 1.1, the neighbours of the mapped range, two
\* 128-bit groups, and the addresses Add refuses.
AllSpellings == {V4(0, 0), V4(1, 1), V6(0, 1), V6(0, 4), V6(0, 0), V6(0, 5),
                 V6(1, 5), Zoned(V6(0, 5)), Zoned(V6(0, 1)), Invalid}

\* Few hosts and many entries: the dedupe loops meet runs of every length.
FewHosts == {V4(0, 1), V4(1, 0), V6(1, 0), V6(1, 5)}

ValueSymmetry == Permutations(Values)
=============================================================================
