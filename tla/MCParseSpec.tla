---------------------------- MODULE MCParseSpec ----------------------------
(***************************************************************************)
(* parseSpec over every spec of up to four lines, one family and width 1   *)
(* or 2 per entry, a value limit of 2 bytes and a Builder of two entries.  *)
(***************************************************************************)
EXTENDS ParseSpec, TLC

A4 == [kind |-> "v4", hi |-> 0, lo |-> 1, zone |-> FALSE]
A4mapped == [kind |-> "v6", hi |-> 0, lo |-> MapBase + 1, zone |-> FALSE]
A6zoned == [kind |-> "v6", hi |-> 1, lo |-> 0, zone |-> TRUE]
SpecAddrs == {A4, A4mapped, A6zoned}

Line(k, a, w, v) == [fields |-> k, addr |-> a, width |-> w, val |-> v]
AValue == CHOOSE v \in Values : TRUE

\* Every width of a value, from none to one byte over the limit.
SpecLines ==
    {Line(0, A4, 0, BadHex), Line(3, A4, 1, AValue), Line(2, BadAddr, 1, AValue),
     Line(2, A4, 1, BadHex), Line(2, A6zoned, 1, AValue)}
    \cup {Line(2, a, 1, v) : a \in {A4, A4mapped}, v \in Values}
    \cup {Line(2, A4, w, AValue) : w \in 0..MaxValLen + 1}
=============================================================================
