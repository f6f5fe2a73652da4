------------------------------ MODULE Artifact ------------------------------
(***************************************************************************)
(* The artifact (format.go): WriteTo turns the Map of Builder.tla into a   *)
(* file, openBytes turns a file back into a Map or refuses it.  In between *)
(* the writer may stop anywhere, and the file may be damaged.              *)
(*                                                                         *)
(* A file is a sequence of cells.  A header field, a byte and a uint32 are *)
(* one cell each, a uint64 of a section is two, low half first, and Align  *)
(* stands for the 8 of pad8; offsets and lengths count cells.  A checksum  *)
(* is the cells it is taken of: CRCs that collide are left out.            *)
(***************************************************************************)
EXTENDS Builder

CONSTANTS ValLen,       \* Options.ValLen; Values are sequences of that many bytes
          MaxInt64, Align,
          Epoch,        \* Options.Epoch, as Build stamps it
          Magic,        \* the first cell of an artifact
          BadCells,     \* what a damaged cell may hold
          Forgeries     \* headers of well-checksummed files of other writers

ASSUME ArtifactAssumption ==
    /\ ValLen \in 1..MaxValLen /\ MaxInt64 \in Nat
    /\ Align \in Nat \ {0} /\ Epoch \in Nat
    /\ Values \subseteq [1..ValLen -> 0..ByteSize - 1]
    /\ Magic \in Nat \ BadCells /\ BadCells \subseteq Nat

VARIABLES file,      \* the cells on disk
          piece,     \* how many of header and sections are written; -1 when a write failed
          harm,      \* history: what happened to the file
          verdict,   \* "unread", then what openBytes returned
          opened     \* the Map it returned

avars == <<file, piece, harm, verdict, opened>>

-----------------------------------------------------------------------------
(* Cells.                                                                  *)

Slots       == 1..8    \* s4Idx .. sTab
TableStart  == 12      \* the twelve scalar fields come first
HeaderSize  == TableStart + 4 * 8 + 2
CrcCell     == HeaderSize - 1

\* The header is as long as its own padding, as 280 bytes are with pad8; an int
\* holds a uint32, and a uint32 a byte.
ASSUME SizeAssumption == /\ HeaderSize % Align = 0 /\ MaxU32 <= MaxInt64
                         /\ ByteSize - 1 <= MaxU32

\* A header has its twelve numbers, and none of them has a sign.
ASSUME ForgeryAssumption == Forgeries \subseteq [1..TableStart -> Nat]

Row(i)      == TableStart + 4 * (i - 1)    \* the cell before offset, length, crc, pad

Pad(k) == ((k + Align - 1) \div Align) * Align
Zeros(k) == [i \in 1..k |-> 0]
Padded(s) == s \o Zeros(Pad(Len(s)) - Len(s))
Checksum(s) == s

\* A sequence of blocks of w cells, laid end to end, and back.
Blocks(s, w)   == [i \in 1..Len(s) * w |-> s[(i - 1) \div w + 1][((i - 1) % w) + 1]]
Unblock(b, w)  == [k \in 1..Len(b) \div w |-> SubSeq(b, (k - 1) * w + 1, k * w)]

\* u64bytes, u64view: a 64-bit word is two cells, least significant first.
u64bytes(s) == Blocks([k \in DOMAIN s |-> <<s[k] % (MaxU32 + 1), s[k] \div (MaxU32 + 1)>>], 2)
u64view(b)  == [k \in 1..Len(b) \div 2 |-> b[2 * k - 1] + (MaxU32 + 1) * b[2 * k]]

-----------------------------------------------------------------------------
(* WriteTo.                                                                *)

BuiltMap == [valLen |-> ValLen, epoch |-> Epoch, stats |-> stats, s4 |-> s4, s6 |-> s6]

interned(m) == m.stats.Distinct > 0
idW(m) == IF interned(m) THEN idWidth(m.stats.Distinct) ELSE 0

payload(m, v) == IF v.direct # <<>> THEN Blocks(v.direct, m.valLen)
                                    ELSE Blocks(v.ids, v.idW)
tabBytes(m) == Blocks(IF m.s4.vals.tab # <<>> THEN m.s4.vals.tab ELSE m.s6.vals.tab,
                      m.valLen)

\* Mutant: the sentinel offset is left out.
sectionsNoSentinel(m) ==
    LET If(cond, s) == IF cond THEN s ELSE <<>>
        has4 == m.stats.Addrs4 > 0
        has6 == m.stats.Addrs6 > 0
    IN <<If(has4, m.s4.idx), If(has4, m.s4.suffix), If(has4, payload(m, m.s4.vals)),
         If(has6, u64bytes(m.s6.prefix)),
         If(has6, SubSeq(m.s6.pidx, 1, Len(m.s6.prefix))),
         If(has6, u64bytes(m.s6.suffix)), If(has6, payload(m, m.s6.vals)),
         If(interned(m), tabBytes(m))>>

\* The payload of each slot; u32bytes is the array itself.
sections(m) ==
    LET If(cond, s) == IF cond THEN s ELSE <<>>
        has4 == m.stats.Addrs4 > 0
        has6 == m.stats.Addrs6 > 0
    IN <<If(has4, m.s4.idx), If(has4, m.s4.suffix), If(has4, payload(m, m.s4.vals)),
         If(has6, u64bytes(m.s6.prefix)),
         If(has6, SubSeq(m.s6.pidx, 1, Len(m.s6.prefix) + 1)),
         If(has6, u64bytes(m.s6.suffix)), If(has6, payload(m, m.s6.vals)),
         If(interned(m), tabBytes(m))>>

Fields(m) == <<Magic, 1, IF interned(m) THEN 1 ELSE 0, m.valLen, idW(m), m.epoch,
               m.stats.Addrs4, m.stats.Addrs6, Len(m.s6.prefix), m.stats.Distinct,
               m.stats.Dups, m.stats.DupConflicts>>

\* Where sections of the given lengths start, each padded, and (9) where they end.
Starts(lens) ==
    LET o2 == HeaderSize + Pad(lens[1])
        o3 == o2 + Pad(lens[2])
        o4 == o3 + Pad(lens[3])
        o5 == o4 + Pad(lens[4])
        o6 == o5 + Pad(lens[5])
        o7 == o6 + Pad(lens[6])
        o8 == o7 + Pad(lens[7])
        o9 == o8 + Pad(lens[8])
    IN <<HeaderSize, o2, o3, o4, o5, o6, o7, o8, o9>>

Lens(secs) == [i \in Slots |-> Len(secs[i])]

\* The section table: offset, length, checksum and reserved word of each slot.
Table(secs) ==
    LET start == Starts(Lens(secs))
    IN Blocks([i \in Slots |-> <<start[i], Len(secs[i]), Checksum(secs[i]), 0>>], 4)

Header(fields, secs) ==
    fields \o Table(secs) \o <<Checksum(fields \o Table(secs)), 0>>

\* The bytes of a file with the given fields and sections.
Sealed(fields, secs) ==
    Header(fields, secs)
      \o Padded(secs[1]) \o Padded(secs[2]) \o Padded(secs[3]) \o Padded(secs[4])
      \o Padded(secs[5]) \o Padded(secs[6]) \o Padded(secs[7]) \o Padded(secs[8])

Serialised(m) == Sealed(Fields(m), sections(m))

FileInit == /\ file = <<>> /\ piece = 0 /\ harm = "none"
            /\ verdict = "unread" /\ opened = <<>>

Writing == pc = "done" /\ piece \in 0..8 /\ verdict = "unread" /\ harm = "none"

\* One forward pass: the header first, then in each turn of the loop a section
\* and its padding.
WriteTo == /\ Writing
           /\ file' = SubSeq(Serialised(BuiltMap), 1,
                             Starts(Lens(sections(BuiltMap)))[piece + 1])
           /\ piece' = piece + 1
           /\ UNCHANGED <<vars, harm, verdict, opened>>

\* A Write that returns an error may have written some of its bytes, or all.
WriteFails == /\ Writing
              /\ \E c \in Len(file)..Starts(Lens(sections(BuiltMap)))[piece + 1] :
                    file' = SubSeq(Serialised(BuiltMap), 1, c)
              /\ piece' = -1
              /\ UNCHANGED <<vars, harm, verdict, opened>>

-----------------------------------------------------------------------------
(* openBytes.  Every Err* verdict is an error return; "panic" is a slice   *)
(* out of range.                                                           *)

Refused == {"ErrFormat", "ErrVersion", "ErrCorrupt"}

\* The header's numbers, as openBytes reads them out of f.
numbers(f) == [interned |-> f[3] = 1, valLen |-> f[4], idW |-> f[5], epoch |-> f[6],
            n4 |-> f[7], n6 |-> f[8], np |-> f[9], distinct |-> f[10],
            dups |-> f[11], confl |-> f[12]]

\* Mutant: a value table with no entries passes.
countsTableAlone(h) ==
    /\ h.valLen \in 1..MaxValLen
    /\ h.n4 <= MaxU32 /\ h.n6 <= MaxU32 /\ h.np <= h.n6
    /\ h.n6 > 0 => h.np > 0
    /\ h.dups <= MaxInt64 /\ h.confl <= h.dups
    /\ IF h.interned THEN h.distinct \in 1..MaxU32 /\ h.idW = idWidth(h.distinct)
                     ELSE h.idW = 0 /\ h.distinct = 0

\* The switch over the counts.
counts(h) ==
    /\ h.valLen \in 1..MaxValLen
    /\ h.n4 <= MaxU32 /\ h.n6 <= MaxU32 /\ h.np <= h.n6
    /\ h.n6 > 0 => h.np > 0
    /\ h.dups <= MaxInt64 /\ h.confl <= h.dups
    /\ IF h.interned
         THEN /\ h.distinct \in 1..MaxU32 /\ h.idW = idWidth(h.distinct)
              /\ h.n4 + h.n6 > 0
         ELSE h.idW = 0 /\ h.distinct = 0

\* The section lengths the counts call for.
expect(h) ==
    LET If(cond, k) == IF cond THEN k ELSE 0
        perVal == IF h.interned THEN h.idW ELSE h.valLen
    IN <<If(h.n4 > 0, Groups4 + 1), If(h.n4 > 0, h.n4), If(h.n4 > 0, h.n4 * perVal),
         If(h.n6 > 0, 2 * h.np), If(h.n6 > 0, h.np + 1), If(h.n6 > 0, 2 * h.n6),
         If(h.n6 > 0, h.n6 * perVal), If(h.interned, h.distinct * h.valLen)>>

header(f) ==
    IF Len(f) < HeaderSize \/ f[1] # Magic THEN "ErrFormat"
    ELSE IF Checksum(SubSeq(f, 1, CrcCell - 1)) # f[CrcCell] THEN "ErrCorrupt"
    ELSE IF f[2] # 1 \/ f[3] \notin {0, 1} THEN "ErrVersion"
    ELSE IF \/ \E i \in Slots : f[Row(i) + 4] # 0
            \/ f[HeaderSize] # 0
            \/ ~counts(numbers(f)) THEN "ErrCorrupt"
    ELSE "ok"

\* Mutant: the bound is the end of the section, not of its padding.
geometryUnpadded(f, i, o, l) ==
    LET lens == expect(numbers(f))
    IN l = lens[i] /\ o = Starts(lens)[i] /\ o % Align = 0 /\ o + l <= Len(f)

\* A section lies where its predecessors end, padding included, and has the
\* expected length; so o + Pad(l) cannot wrap and padEnd < o never holds.
geometry(f, i, o, l) ==
    LET lens == expect(numbers(f))
    IN l = lens[i] /\ o = Starts(lens)[i] /\ o % Align = 0 /\ o + Pad(l) <= Len(f)

\* Mutant: the padding is not looked at.
sectionAnyPadding(f, i) ==
    LET o == f[Row(i) + 1]
        l == f[Row(i) + 2]
    IN IF ~geometry(f, i, o, l) THEN "ErrCorrupt"
       ELSE IF Checksum(SubSeq(f, o + 1, o + l)) # f[Row(i) + 3] THEN "ErrCorrupt"
       ELSE "ok"

\* One turn of the walk over the section table.
section(f, i) ==
    LET o == f[Row(i) + 1]
        l == f[Row(i) + 2]
    IN IF ~geometry(f, i, o, l) THEN "ErrCorrupt"
       ELSE IF o + l > Len(f) THEN "panic"
       ELSE IF Checksum(SubSeq(f, o + 1, o + l)) # f[Row(i) + 3] THEN "ErrCorrupt"
       ELSE IF o + Pad(l) > Len(f) THEN "panic"
       ELSE IF \E j \in o + l + 1..o + Pad(l) : f[j] # 0 THEN "ErrCorrupt"
       ELSE "ok"

\* The sections in order, and nothing after them.
walk(f) ==
    LET bad == {i \in Slots : section(f, i) # "ok"}
        first == CHOOSE i \in bad : \A j \in bad : i <= j
    IN IF bad # {} THEN section(f, first)
       ELSE IF Starts(expect(numbers(f)))[9] # Len(f) THEN "ErrCorrupt" ELSE "ok"

\* The Map that views the sections of f.
assemble(f) ==
    LET h == numbers(f)
        sec(i) == SubSeq(f, f[Row(i) + 1] + 1, f[Row(i) + 1] + f[Row(i) + 2])
        mkvals(s) ==
          IF h.interned THEN [direct |-> <<>>, tab |-> Unblock(sec(8), h.valLen),
                              ids |-> Unblock(s, h.idW), idW |-> h.idW]
                        ELSE [NoVals EXCEPT !.direct = Unblock(s, h.valLen)]
    IN [valLen |-> h.valLen, epoch |-> h.epoch,
        stats |-> [Addrs4 |-> h.n4, Addrs6 |-> h.n6, Dups |-> h.dups,
                   DupConflicts |-> h.confl, Distinct |-> h.distinct],
        s4 |-> IF h.n4 = 0 THEN Nil4
               ELSE [idx |-> sec(1), suffix |-> sec(2), vals |-> mkvals(sec(3))],
        s6 |-> IF h.n6 = 0 THEN Nil6
               ELSE [prefix |-> u64view(sec(4)), pidx |-> sec(5),
                     suffix |-> u64view(sec(6)), vals |-> mkvals(sec(7))]]

validated(m) == LET v == validate(m.stats, m.s4, m.s6)
                IN IF v = "corrupt" THEN "ErrCorrupt" ELSE v

openBytes(f) ==
    IF header(f) # "ok" THEN header(f)
    ELSE IF walk(f) # "ok" THEN walk(f) ELSE validated(assemble(f))

\* Anybody may open the file at any time, a half-written one too.  mapFile gives
\* no bytes for an empty one, and there is none before the Map is compiled.
OpenFile == /\ pc # "done" => file # <<>>
            /\ verdict = "unread"
            /\ verdict' = openBytes(file)
            /\ opened' = IF verdict' = "ok" THEN assemble(file) ELSE opened
            /\ UNCHANGED <<vars, file, piece, harm>>

-----------------------------------------------------------------------------
(* What becomes of a file.                                                 *)

Harm(what) == /\ piece = 9 /\ verdict = "unread" /\ harm = "none"
              /\ harm' = what
              /\ UNCHANGED <<vars, piece, verdict, opened>>

IsCrc(k) == \/ k = CrcCell
            \/ k \in TableStart + 1..CrcCell - 1 /\ (k - TableStart) % 4 = 3

\* What cell k of the file may become: a checksum becomes another checksum.
Other(k) == IF IsCrc(k) THEN {Append(file[k], 0)} ELSE BadCells \ {file[k]}

Flip == /\ Harm("flipped")
        /\ \E k \in DOMAIN file : \E c \in Other(k) : file' = [file EXCEPT ![k] = c]

Grow == /\ Harm("grown")
        /\ \E k \in 1..Align : file' = file \o Zeros(k)

\* One cell of the header changes, and the header is checksummed anew.
Reseal == /\ Harm("resealed")
          /\ \E k \in 1..HeaderSize \ {CrcCell} : \E c \in Other(k) :
                LET f == [file EXCEPT ![k] = c]
                IN file' = [f EXCEPT ![CrcCell] = Checksum(SubSeq(f, 1, CrcCell - 1))]

\* What a cell of each section can hold: an offset and either half of a 64-bit
\* word are a uint32, the rest are bytes.
CellsOf == <<0..MaxU32, 0..Octets - 1, 0..ByteSize - 1,
             0..MaxU32, 0..MaxU32, 0..MaxU32, 0..ByteSize - 1, 0..ByteSize - 1>>

\* All there can be in eight sections of the given lengths.
Contents(lens) ==
    LET Of(i) == [1..lens[i] -> CellsOf[i]]
    IN Of(1) \X Of(2) \X Of(3) \X Of(4) \X Of(5) \X Of(6) \X Of(7) \X Of(8)

\* Another writer's file: sections of the lengths its header calls for, with
\* anything in them that their cells can hold, and every checksum right.
Forge == /\ pc = "open" /\ n = 0 /\ intern /\ file = <<>>
         /\ \E fields \in Forgeries : \E secs \in Contents(expect(numbers(fields))) :
               file' = Sealed(fields, secs)
         /\ piece' = 9 /\ harm' = "forged"
         /\ UNCHANGED <<vars, verdict, opened>>

FileNext == WriteTo \/ WriteFails \/ OpenFile \/ Flip \/ Grow \/ Reseal

-----------------------------------------------------------------------------
(* Properties.                                                             *)

Read == verdict # "unread"
Whole == file = Serialised(BuiltMap)

(* A file that a writer left unfinished, at whatever byte, is refused with *)
(* an error and never crashes Open; this includes one that is empty, and   *)
(* one that lacks nothing but some of the padding of its last section.     *)
TornIsRefused == Read /\ harm = "none" /\ ~Whole => verdict \in Refused

(* No byte of a file escapes the checks: one changed anywhere, reserved    *)
(* words and padding included, or zeros added at the end, are an error.    *)
DamageIsRefused == Read /\ harm \in {"flipped", "grown"} => verdict \in Refused

(* Accepted implies canonical: whoever wrote the file, and with whatever   *)
(* valid checksums, if Open accepts it then WriteTo of the Map it returned *)
(* gives the same file.                                                    *)
AcceptedIsCanonical == verdict = "ok" => Serialised(opened) = file
=============================================================================
