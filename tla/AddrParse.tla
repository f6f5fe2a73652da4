----------------------------- MODULE AddrParse -----------------------------
(***************************************************************************)
(* parseAddr4 and parseAddr6 (addr.go), the parsers of addresses in byte   *)
(* slices, against the spellings that net/netip gives an address.          *)
(*                                                                         *)
(* A text is a sequence of characters.  The code has 8 groups of up to 4   *)
(* hex digits, and a quad of four octets of up to 3 decimal digits that    *)
(* stands for two groups; the radices, the digit counts and the number of  *)
(* groups are constants here, so that all short texts can be tried.        *)
(***************************************************************************)
EXTENDS Integers, Sequences, FiniteSets

CONSTANTS HexVal,        \* the characters isHex accepts, with their values
          HexRadix, Radix,
          OctetTop,      \* 255
          OctetDigits,   \* 3
          GroupDigits,   \* 4
          NGroups,       \* 8
          Alphabet,      \* the characters of a text
          Inputs         \* the texts to parse, as a family of sets

OctetSize == OctetTop + 1
GroupSize == OctetSize * OctetSize

ASSUME ParseAssumption ==
    /\ {HexRadix, Radix, OctetTop, OctetDigits, GroupDigits} \subseteq Nat \ {0}
    /\ NGroups \in Nat \ {0} /\ NGroups % 2 = 0 /\ Radix <= HexRadix
    /\ HexVal \in [DOMAIN HexVal -> 0..HexRadix - 1]

\* A group has as many values as its digits spell, so none is cut off.
ASSUME GroupAssumption == HexRadix^GroupDigits = GroupSize

\* What separates groups and octets is no digit.
ASSUME TextAssumption ==
    /\ DOMAIN HexVal \cup {":", "."} \subseteq Alphabet /\ {":", ".", ""} \cap DOMAIN HexVal = {}
    /\ \A texts \in Inputs : texts \subseteq Seq(Alphabet)

VARIABLES b,        \* the text
          i,        \* the position parseAddr6 is at; b[i] of the code is b[i+1]
          groups, n, gap,
          pc,       \* "start", "loop", "fit", "done"
          result    \* "none", "ok", "bad" or "panic"

pvars == <<b, i, groups, n, gap, pc, result>>

isHex   == DOMAIN HexVal
isDigit == {c \in isHex : HexVal[c] < Radix}

\* The number the digits ds spell, most significant first, and that of a text.
Positional(ds, radix) ==
    LET v[k \in 0..Len(ds)] == IF k = 0 THEN 0 ELSE v[k - 1] * radix + ds[k]
    IN v[Len(ds)]
Number(s, radix) == Positional([k \in 1..Len(s) |-> HexVal[s[k]]], radix)

\* The end of the run of characters of `chars' that starts at position p.
RunEnd(s, p, chars) ==
    CHOOSE q \in p..Len(s) : /\ \A k \in p + 1..q : s[k] \in chars
                             /\ q < Len(s) => s[q + 1] \notin chars

-----------------------------------------------------------------------------
(* parseAddr4.                                                             *)

Refused == [ok |-> FALSE, ip |-> 0]

\* Mutant: a zero in front of an octet is let through.
octetAnyZeros(s) == Len(s) \in 1..OctetDigits /\ Number(s, Radix) <= OctetTop

\* The octet a run of digits spells; the loop gives up at the first digit too
\* many, which is one too many of the whole run.
octet(s) == /\ Len(s) \in 1..OctetDigits
            /\ Number(s, Radix) <= OctetTop
            /\ Len(s) > 1 => s[1] # "0"

\* One turn of the loop, from the octets read so far: all but the first have a
\* "." in front.
turn(s, first, so) ==
    LET from == IF first THEN so.at ELSE so.at + 1
        to   == RunEnd(s, from, isDigit)
        run  == SubSeq(s, from + 1, to)
    IN IF /\ so.ok /\ so.at < Len(s)
          /\ first \/ s[so.at + 1] = "."
          /\ octet(run)
         THEN [ok |-> TRUE, at |-> to, ip |-> so.ip * OctetSize + Number(run, Radix)]
         ELSE [so EXCEPT !.ok = FALSE]

\* Four turns, which must end where the text ends.
parseAddr4(s) ==
    LET after[k \in 0..4] == IF k = 0 THEN [ok |-> TRUE, at |-> 0, ip |-> 0]
                             ELSE turn(s, k = 1, after[k - 1])
    IN IF after[4].ok /\ after[4].at = Len(s) THEN [ok |-> TRUE, ip |-> after[4].ip]
       ELSE Refused

-----------------------------------------------------------------------------
(* parseAddr6.                                                             *)

TextInit == /\ \E texts \in Inputs : b \in texts
            /\ i = 0 /\ n = 0 /\ gap = -1
            /\ groups = [k \in 0..NGroups - 1 |-> 0]
            /\ pc = "start" /\ result = "none"

Done(r) == pc' = "done" /\ result' = r /\ UNCHANGED <<b, i, groups, n, gap>>

\* Character k of the text, counted from zero; "" past its end.
Char(k) == IF k < Len(b) THEN b[k + 1] ELSE ""

Start ==
    /\ pc = "start"
    /\ IF Len(b) < 2 \/ (Char(0) = ":" /\ Char(1) # ":") THEN Done("bad")
       ELSE IF Char(0) # ":" THEN pc' = "loop" /\ UNCHANGED <<b, i, groups, n, gap, result>>
       ELSE IF Len(b) = 2 THEN Done("ok")
       ELSE gap' = 0 /\ i' = 2 /\ pc' = "loop" /\ UNCHANGED <<b, groups, n, result>>

Rest == SubSeq(b, i + 1, Len(b))

\* A quad is the whole rest of the text and fills two groups.
Quad ==
    /\ pc = "loop" /\ i < Len(b) /\ parseAddr4(Rest).ok
    /\ IF n > NGroups - 2 THEN Done("bad")
       ELSE IF n + 1 >= NGroups THEN Done("panic")
       ELSE LET v4 == parseAddr4(Rest).ip
            IN /\ groups' = [groups EXCEPT ![n] = v4 \div GroupSize,
                                           ![n + 1] = v4 % GroupSize]
               /\ n' = n + 2 /\ pc' = "fit"
               /\ UNCHANGED <<b, i, gap, result>>

\* Mutant: a second "::" moves the gap.
SeparatorAnyGaps(to, hasGap) ==
    IF to = Len(b) THEN "end"
    ELSE IF Char(to) # ":" THEN "bad"
    ELSE IF Char(to + 1) = ":" THEN "gap"
    ELSE IF to + 1 = Len(b) THEN "bad" ELSE "colon"

\* What follows a group that ends at position `to'.
Separator(to, hasGap) ==
    IF to = Len(b) THEN "end"
    ELSE IF Char(to) # ":" THEN "bad"
    ELSE IF Char(to + 1) = ":" THEN IF hasGap THEN "bad" ELSE "gap"
    ELSE IF to + 1 = Len(b) THEN "bad" ELSE "colon"

\* One turn of the loop that reads a group and what separates it.
Group ==
    /\ pc = "loop" /\ i < Len(b) /\ ~parseAddr4(Rest).ok
    /\ LET to  == RunEnd(b, i, isHex)
           sep == Separator(to, gap >= 0)
       IN IF to - i \notin 1..GroupDigits \/ n = NGroups THEN Done("bad")
          ELSE IF n >= NGroups THEN Done("panic")
          ELSE IF sep = "bad" THEN Done("bad")
          ELSE /\ groups' = [groups EXCEPT ![n] = Number(SubSeq(b, i + 1, to), HexRadix)]
               /\ n' = n + 1
               /\ gap' = IF sep = "gap" THEN n + 1 ELSE gap
               /\ i' = to + (CASE sep = "end" -> 0 [] sep = "colon" -> 1 [] sep = "gap" -> 2)
               /\ pc' = IF sep = "end" THEN "fit" ELSE "loop"
               /\ UNCHANGED <<b, result>>

\* A trailing "::" ends the loop at its guard.
Exhausted == /\ pc = "loop" /\ i = Len(b)
             /\ pc' = "fit" /\ UNCHANGED <<b, i, groups, n, gap, result>>

\* The groups after the gap move to the end, leaving zeros.
Fit ==
    /\ pc = "fit"
    /\ IF IF gap < 0 THEN n # NGroups ELSE n >= NGroups THEN Done("bad")
       ELSE LET shift == NGroups - n
            IN /\ groups' = IF gap < 0 THEN groups
                            ELSE [k \in 0..NGroups - 1 |->
                                    IF k < gap THEN groups[k]
                                    ELSE IF k < gap + shift THEN 0 ELSE groups[k - shift]]
               /\ pc' = "done" /\ result' = "ok"
               /\ UNCHANGED <<b, i, n, gap>>

TextNext == Start \/ Quad \/ Group \/ Exhausted \/ Fit
Parser == TextInit /\ [][TextNext]_pvars

\* The two words of the address.
Half(first) == Positional([k \in 1..NGroups \div 2 |-> groups[first + k - 1]], GroupSize)
Address == [hi |-> Half(0), lo |-> Half(NGroups \div 2)]

-----------------------------------------------------------------------------
(* The spellings of an address, defined by writing and not by parsing.     *)

TextsOver(C, max) == UNION {[1..k -> C] : k \in 1..max}
GroupTexts == TextsOver(isHex, GroupDigits)
OctetTexts == {t \in TextsOver(isDigit, OctetDigits) :
                 Number(t, Radix) <= OctetTop /\ (t[1] = "0" => Len(t) = 1)}

Joined(c, ts) ==
    LET j[k \in 0..Len(ts)] == IF k = 0 THEN <<>>
                               ELSE IF k = 1 THEN ts[1] ELSE j[k - 1] \o <<c>> \o ts[k]
    IN j[Len(ts)]

QuadOf(os) == Positional([k \in 1..4 |-> Number(os[k], Radix)], OctetSize)
Spellings4 == {[text |-> Joined(".", os), ip |-> QuadOf(os)] : os \in [1..4 -> OctetTexts]}

\* k groups, separated by colons.
Plain[k \in 0..NGroups] ==
    {[text |-> Joined(":", gs), groups |-> [j \in 1..k |-> Number(gs[j], HexRadix)]] :
       gs \in [1..k -> GroupTexts]}

\* The same at the end of a text, where a quad may stand for the last two.
WithQuad[k \in 2..NGroups] ==
    {[text |-> p.text \o (IF k = 2 THEN <<>> ELSE <<":">>) \o q.text,
      groups |-> p.groups \o <<q.ip \div GroupSize, q.ip % GroupSize>>] :
       p \in Plain[k - 2], q \in Spellings4}

\* A text has all groups, or "::" for one or more zero groups after the first
\* `left' ones; `right' groups end it, the last two perhaps as a quad.
Forms == {f \in [left : 0..NGroups, right : 0..NGroups, gap : BOOLEAN, quad : BOOLEAN] :
            /\ f.quad => f.right >= 2
            /\ IF f.gap THEN f.left + f.right < NGroups
                        ELSE f.left = 0 /\ f.right = NGroups}

Spellings6(f) ==
    {[text |-> p.text \o (IF f.gap THEN <<":", ":">> ELSE <<>>) \o e.text,
      groups |-> p.groups \o [j \in 1..NGroups - f.left - f.right |-> 0] \o e.groups] :
       p \in Plain[f.left], e \in IF f.quad THEN WithQuad[f.right] ELSE Plain[f.right]}

\* The texts, and the texts with their numbers; for addresses, one set per form.
Texts4    == {s.text : s \in Spellings4}
Meanings4 == {<<s.text, s.ip>> : s \in Spellings4}
Texts6    == {{s.text : s \in Spellings6(f)} : f \in Forms}
Meanings6 == {{<<s.text, Positional(s.groups, GroupSize)>> : s \in Spellings6(f)} : f \in Forms}

Spells(t)   == \E texts \in Texts6 : t \in texts
Means(t, v) == \E meanings \in Meanings6 : <<t, v>> \in meanings
\* GroupSize to the power of NGroups \div 2.
HalfSize == LET p[k \in 0..NGroups \div 2] == IF k = 0 THEN 1 ELSE GroupSize * p[k - 1]
            IN p[NGroups \div 2]

-----------------------------------------------------------------------------
(* Properties.                                                             *)

(* parseAddr4 accepts a text exactly when it is how four octets are        *)
(* written, and returns those octets.                                      *)
QuadsAgree ==
    pc = "start" => LET r == parseAddr4(b)
                    IN IF r.ok THEN <<b, r.ip>> \in Meanings4
                               ELSE b \notin Texts4 /\ r.ip = 0

(* parseAddr6 accepts a text exactly when it spells an address, in full or *)
(* with one "::" and with or without a quad, and returns that address; no  *)
(* text makes it write a group past the last.                              *)
AddressesAgree ==
    pc = "done" =>
      /\ result # "panic"
      /\ IF result = "ok" THEN Means(b, Address.hi * HalfSize + Address.lo)
                          ELSE ~Spells(b)
=============================================================================
