------------------------------ MODULE MCWords ------------------------------
(***************************************************************************)
(* The parts that stand alone: bit layouts, addresses as words, and the    *)
(* parsers of address texts.  They share no state and no call, so each     *)
(* behaviour runs one part, and the other two rest where they start.       *)
(*                                                                         *)
(* Words of four bits in a uint of four; addresses of two words of two     *)
(* two-valued bytes; texts of four groups, octets of up to two binary      *)
(* digits, groups of up to two digits of radix three.  "a" is a digit in   *)
(* hexadecimal only and stands, in a quad, for every character out of      *)
(* place.                                                                  *)
(***************************************************************************)
EXTENDS Bits, Addr6, AddrParse, SequencesExt

Hex   == [c \in {"0", "1", "a"} |-> CASE c = "0" -> 0 [] c = "1" -> 1 [] c = "a" -> 2]
Chars == {"0", "1", "a", ".", ":"}

CONSTANT MaxLen   \* bound: the texts of up to this length are all tried

\* The plainest spellings, and the texts one edit away from them and from the quads.
Count(c, s) == Cardinality({k \in DOMAIN s : s[k] = c})
Plainest(texts) == {s \in texts : Len(s) <= 11 /\ Count("1", s) = 0 /\ Count("a", s) <= 1}
Edited(s) ==
    {[s EXCEPT ![k] = c] : k \in DOMAIN s, c \in Chars}
      \cup {SubSeq(s, 1, k) \o <<c>> \o SubSeq(s, k + 1, Len(s)) : k \in 0..Len(s), c \in Chars}
      \cup {RemoveAt(s, k) : k \in DOMAIN s}

\* A group too many in front: a quad that comes too late.
Longer(s) == <<"0", ":">> \o s

MCInputs == {[1..k -> Chars] : k \in 0..MaxLen} \cup Texts6 \cup {Texts4}
              \cup {{Longer(s) : s \in Plainest(texts)} : texts \in Texts6}
              \cup UNION {{Edited(s) : s \in Plainest(texts)} : texts \in Texts6}
              \cup {Edited(s) : s \in Texts4}

-----------------------------------------------------------------------------
VARIABLE part   \* which of the three runs

Init == \/ part = "bits"  /\ BitsInit /\ WalkInit /\ b = <<>> /\ TextInit
        \/ part = "walk"  /\ word = {} /\ BitsInit /\ WalkInit /\ b = <<>> /\ TextInit
        \/ part = "parse" /\ word = {} /\ BitsInit /\ WalkInit /\ TextInit

Next == \/ part = "bits"  /\ BitsNext /\ UNCHANGED <<part, a, pvars>>
        \/ part = "walk"  /\ Step     /\ UNCHANGED <<part, bvars, pvars>>
        \/ part = "parse" /\ TextNext /\ UNCHANGED <<part, bvars, a>>

Spec == Init /\ [][Next]_<<part, bvars, a, pvars>>
=============================================================================
