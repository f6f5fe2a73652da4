----------------------------- MODULE ParseSpec -----------------------------
(***************************************************************************)
(* parseSpec (app/ipmap/main.go): a text spec, read line by line, becomes  *)
(* a Builder, or an error and no Builder.  Its entries go through the Add  *)
(* of Builder.tla.                                                         *)
(*                                                                         *)
(* A line is what the parser can tell about it: the number of its fields   *)
(* (0 for a blank or a comment), the address, and the value as a width in  *)
(* bytes and a payload.  The reader is bufio.Scanner over a file or stdin: *)
(* when a read fails it still delivers what it has of the line it was in,  *)
(* and only then ends.                                                     *)
(***************************************************************************)
EXTENDS Builder

CONSTANTS Lines,       \* the lines specs are made of
          BadAddr,     \* a field netip.ParseAddr refuses
          BadHex,      \* a field hex.DecodeString refuses
          MaxLines     \* bound: lines of a spec

ASSUME LineAssumption ==
    /\ BadAddr \notin Inputs /\ BadHex \notin Values
    /\ MaxLines \in Nat
    /\ \A l \in Lines : /\ l.fields \in Nat /\ l.width \in Nat
                        /\ l.addr \in Inputs \cup {BadAddr}
                        /\ l.val \in Values \cup {BadHex}

VARIABLES src,       \* the reader: "open", "torn" (failed inside a line),
                     \* "failed", "ended"
          lineNo,    \* the lines scanned
          valLen,    \* the Builder's ValLen; 0 while b is nil
          outcome,   \* what parseSpec returned: [is, line], line 0 for none
          text       \* history: the lines scanned

parser == <<src, lineNo, valLen, outcome, text>>
pvars  == <<vars, parser>>

Running == [is |-> "running", line |-> 0]
Err(k)  == [is |-> "error", line |-> k]

ParseInit == /\ Init
             /\ src = "open" /\ lineNo = 0 /\ valLen = 0
             /\ outcome = Running /\ text = <<>>

-----------------------------------------------------------------------------
(* One line.                                                               *)

\* Mutant: blanks and comments are not counted.
ScanUncounted(l) ==
    /\ outcome = Running /\ src \in {"open", "torn"} /\ Len(text) < MaxLines
    /\ lineNo' = IF l.fields = 0 THEN lineNo ELSE lineNo + 1
    /\ text' = Append(text, l)
    /\ src' = IF src = "torn" THEN "failed" ELSE src

\* sc.Scan() delivers a line; after a failed read there is at most one more.
Scan(l) ==
    /\ outcome = Running /\ src \in {"open", "torn"} /\ Len(text) < MaxLines
    /\ lineNo' = lineNo + 1
    /\ text' = Append(text, l)
    /\ src' = IF src = "torn" THEN "failed" ELSE src

Malformed(l) == l.fields # 2 \/ l.addr = BadAddr \/ l.val = BadHex

Skip(l) == /\ Scan(l)
           /\ l.fields = 0
           /\ UNCHANGED <<vars, valLen, outcome>>

Refuse(l) == /\ Scan(l)
             /\ l.fields # 0
             /\ \/ Malformed(l)
                \/ ~Malformed(l) /\ valLen = 0 /\ l.width = 0
             /\ outcome' = Err(lineNo')
             /\ UNCHANGED <<vars, valLen>>

\* Mutant: every entry brings its own width.
WidthOfLine(l) == l.width

\* The first entry sets the width, and makes the Builder.
WidthAt(l) == IF valLen = 0 THEN l.width ELSE valLen

\* Mutant: NewBuilder takes any width.
ValidWidthUnbounded(w) == w >= 1

\* The widths NewBuilder takes; it panics on any other (builder.go).
ValidWidth(w) == w \in 1..MaxValLen

PanicAt(l) == /\ Scan(l)
              /\ l.fields # 0 /\ ~Malformed(l)
              /\ valLen = 0 /\ l.width > 0 /\ ~ValidWidth(l.width)
              /\ outcome' = [is |-> "panic", line |-> 0]
              /\ UNCHANGED <<vars, valLen>>

\* The value as Add sees it in a Builder of width w.
Given(l, w) == IF l.width = w THEN l.val ELSE WrongWidth

EntryLine(l) ==
    /\ Scan(l)
    /\ l.fields # 0 /\ ~Malformed(l)
    /\ ValidWidth(WidthAt(l))
    /\ valLen' = WidthAt(l)
    /\ \/ Add(l.addr, Given(l, WidthAt(l))) /\ UNCHANGED outcome
       \/ AddRefused(l.addr, Given(l, WidthAt(l))) /\ outcome' = Err(lineNo')

-----------------------------------------------------------------------------
(* The end of the input.                                                   *)

\* A read fails, or a line is longer than the scanner's buffer.
ReadFails == /\ outcome = Running /\ src = "open"
             /\ \/ src' = "torn" /\ Len(text) < MaxLines
                \/ src' = "failed"
             /\ UNCHANGED <<vars, lineNo, valLen, outcome, text>>

EndOfFile == /\ outcome = Running /\ src = "open"
             /\ src' = "ended"
             /\ UNCHANGED <<vars, lineNo, valLen, outcome, text>>

\* Mutant: sc.Err() is not asked.
ReturnUnasked ==
    /\ outcome = Running /\ src \in {"failed", "ended"}
    /\ outcome' = IF valLen = 0 THEN Err(0) ELSE [is |-> "ok", line |-> 0]
    /\ UNCHANGED <<vars, src, lineNo, valLen, text>>

\* After the loop: the scanner's error, a spec of no entries, or the Builder.
Return ==
    /\ outcome = Running /\ src \in {"failed", "ended"}
    /\ outcome' = IF src = "failed" \/ valLen = 0 THEN Err(0)
                                                  ELSE [is |-> "ok", line |-> 0]
    /\ UNCHANGED <<vars, src, lineNo, valLen, text>>

ParseNext == \/ \E l \in Lines : Skip(l) \/ Refuse(l) \/ PanicAt(l) \/ EntryLine(l)
             \/ ReadFails \/ EndOfFile \/ Return

Parsing == ParseInit /\ [][ParseNext]_pvars

-----------------------------------------------------------------------------
(* Properties.                                                             *)

Outcomes == {Running, [is |-> "panic", line |-> 0], [is |-> "ok", line |-> 0]}
              \cup {Err(k) : k \in 0..MaxLines}

(* The parser's variables hold what their Go types and NewBuilder allow.   *)
ParseTypeOK == /\ src \in {"open", "torn", "failed", "ended"}
               /\ lineNo \in 0..MaxLines
               /\ valLen \in 0..MaxValLen
               /\ outcome \in Outcomes
               /\ text \in Seq(Lines)

\* What a text says, without running the parser.
EntryAt(k)  == text[k].fields # 0
EntriesTo(k) == {j \in 1..k : EntryAt(j)}
GoodLine(k) ==
    EntryAt(k) =>
      /\ ~Malformed(text[k])
      /\ NamesHost(text[k].addr)
      /\ text[k].width \in 1..MaxValLen
      /\ text[k].width = text[Min(EntriesTo(k))].width
      /\ Cardinality(EntriesTo(k)) <= MaxU32
BadLines == {k \in DOMAIN text : ~GoodLine(k)}

(* An error names the first line of the text that cannot stand: fields,    *)
(* address, value, the width set by the first entry, a zone and the cap of *)
(* the Builder are all judged at their own line, blanks and comments       *)
(* counted, and no line after it is read.                                  *)
ErrorsNameFirstBadLine ==
    IF BadLines = {} THEN outcome.is # "panic" /\ outcome.line = 0
    ELSE /\ BadLines = {Len(text)}
         /\ outcome.is \in {"error", "panic"}
         /\ outcome.is = "error" => outcome.line = Len(text)

PutOf(l) == [host |-> Host(Unmap(l.addr)), val |-> l.val]

(* A Builder is returned only for a spec that was read to its end, and it  *)
(* holds every entry of it, in the order of the lines: a read that fails,  *)
(* even one that cuts a line into a shorter legal one, or a spec without   *)
(* an entry, leaves no Builder.                                            *)
SuccessIsWhole ==
    outcome.is = "ok" =>
      /\ src = "ended" /\ log # <<>>
      /\ Len(log) = Cardinality(EntriesTo(Len(text)))
      /\ \A k \in DOMAIN text :
            EntryAt(k) => log[Cardinality(EntriesTo(k))] = PutOf(text[k])

(* parseSpec never panics (app/ipmap/main_test.go:245).                    *)
ParseNeverPanics == outcome.is # "panic"
=============================================================================
