--------------------------- MODULE MCBuildCommand ---------------------------
(***************************************************************************)
(* Specs of up to four lines over both families, a mapped spelling and    *)
(* every way a line can be refused; values of three two-valued bytes, so   *)
(* that every kind of section may need padding to two cells and three      *)
(* distinct values need ids of two bytes.                                  *)
(***************************************************************************)
EXTENDS BuildCommand

V4(g, o) == [kind |-> "v4", hi |-> g, lo |-> o, zone |-> FALSE]
V6(h, l) == [kind |-> "v6", hi |-> h, lo |-> l, zone |-> FALSE]

Host4   == V4(1, 0)
Mapped4 == V6(0, MapBase + Octets)
Low6    == V6(0, 5)
High6   == V6(1, 5)
Zoned6  == [High6 EXCEPT !.zone = TRUE]
MCInputs == {Host4, Mapped4, Low6, High6, Zoned6}

X == <<0, 1, 0>>
Y == <<1, 0, 0>>
Z == <<1, 1, 0>>
MCValues == {X, Y, Z}

Line(k, a, w, v) == [fields |-> k, addr |-> a, width |-> w, val |-> v]

MCLines ==
    {Line(0, Host4, 0, BadHex), Line(3, Host4, ValLen, X), Line(2, BadAddr, ValLen, X),
     Line(2, Host4, ValLen, BadHex), Line(2, Zoned6, ValLen, X)}
    \cup {Line(2, Host4, w, X) : w \in {0, ValLen - 1, ValLen, MaxValLen + 1}}
    \cup {Line(2, Host4, ValLen, Y), Line(2, Mapped4, ValLen, X),
          Line(2, Low6, ValLen, X), Line(2, High6, ValLen, Z)}

\* The scalar fields of a header: flags, id width, n4, n6, prefixes, distinct.
Scalars(flags, idw, n4, n6, np, distinct) ==
    <<Magic, 1, flags, ValLen, idw, Epoch, n4, n6, np, distinct, 1, 0>>

\* One entry of either family in either layout, two rows that share a table of
\* one value, prefixes too few and too many, and a table with nothing to use it.
SmallFiles == {Scalars(0, 0, 1, 0, 0, 0), Scalars(0, 0, 0, 1, 1, 0),
               Scalars(1, 1, 1, 0, 0, 1), Scalars(1, 1, 0, 1, 1, 1),
               Scalars(1, 1, 2, 0, 0, 1),
               Scalars(1, 1, 0, 0, 0, 1), Scalars(1, 2, 1, 0, 0, 1),
               Scalars(0, 0, 0, 1, 0, 0), Scalars(0, 0, 1, 0, 1, 0)}
=============================================================================
