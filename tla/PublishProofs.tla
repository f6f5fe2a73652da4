---------------------------- MODULE PublishProofs ----------------------------
(***************************************************************************)
(* What publishing by rename guarantees when the builds of one artifact    *)
(* do not overlap, for any number of readers, runs and pieces, with a      *)
(* crash or an error at any step.                                          *)
(***************************************************************************)
EXTENDS Publish, TLAPS

(* The premise: at most one build process writes to this name at a time.   *)
OneBuilder == \A b, c \in Builders : b = c

Written(b) == content[fd[b]] = [k \in 1..pos[b] |-> art[b]]

(* Why the name serves.  The temporary name and the final name are never   *)
(* the same file, and no reader has the temporary one open; the build that *)
(* is writing has the temporary file as its descriptor, and has written    *)
(* exactly its own pieces there; what it renames, and so what a reader     *)
(* opens, is whole.                                                        *)
Apart ==
    /\ names["tmp"] # 0 => names["tmp"] # names["out"]
    /\ \A r \in Readers : rfd[r] # 0 => rfd[r] # names["tmp"]
Opened ==
    \A r \in Readers : /\ rpc[r] # "idle" <=> rfd[r] # 0
                       /\ rfd[r] # 0 => WholeOfSome(content[rfd[r]])
OwnFile ==
    \A b \in Builders :
       /\ pc[b] \in {"write", "rename"} => fd[b] = names["tmp"] /\ fd[b] # 0 /\ Written(b)
       /\ pc[b] = "rename" => pos[b] = Pieces
       /\ pc[b] = "done" => fd[b] = names["out"] /\ fd[b] # 0 /\ Whole(content[fd[b]], art[b])
       /\ pc[b] # "idle" => art[b] \in 1..MaxRuns

IInv == TypeOK /\ Apart /\ Opened /\ OwnFile /\ NameImpliesServes

(* Contents.                                                               *)

(* A finite function into S is a sequence over S.                          *)
LEMMA SeqOfFunction == ASSUME NEW S, NEW k \in Nat, NEW f, f \in [1..k -> S]
                       PROVE  f \in Seq(S) /\ Len(f) = k
  OBVIOUS

(* A write leaves a sequence of pieces.                                    *)
LEMMA OverlayType == ASSUME NEW c \in Seq(Nat), NEW o \in Nat, NEW p \in Nat
                     PROVE  Overlay(c, o, p) \in Seq(Nat)
<1> DEFINE m == IF Len(c) > o THEN Len(c) ELSE o + 1
<1>1. m \in Nat
  OBVIOUS
<1>2. Overlay(c, o, p) \in [1..m -> Nat]
  BY DEF Overlay, Hole
<1> QED BY <1>1, <1>2, SeqOfFunction

(* A write at the end of what this run wrote is one piece more of it.      *)
LEMMA OverlayExtends == ASSUME NEW a, NEW o \in Nat
                        PROVE  Overlay([k \in 1..o |-> a], o, a) = [k \in 1..o + 1 |-> a]
<1> DEFINE c == [k \in 1..o |-> a]
<1>1. c \in Seq({a}) /\ Len(c) = o
  <2>1. c \in [1..o -> {a}]
    OBVIOUS
  <2> QED BY <2>1, SeqOfFunction
<1>2. Overlay(c, o, a) = [k \in 1..o + 1 |-> IF k = o + 1 THEN a
                                             ELSE IF k <= o THEN c[k] ELSE Hole]
  BY <1>1 DEF Overlay
<1>3. \A k \in 1..o + 1 : (IF k = o + 1 THEN a ELSE IF k <= o THEN c[k] ELSE Hole) = a
  OBVIOUS
<1> QED BY <1>2, <1>3

(* Replacing what one inode holds leaves the others.                       *)
LEMMA InodeReplaced ==
    ASSUME TypeOK, NEW i \in Inodes, NEW c \in Seq(Nat),
           content' = [content EXCEPT ![i] = c]
    PROVE  /\ content' \in Seq(Seq(Nat)) /\ Len(content') = Len(content)
           /\ content'[i] = c
           /\ \A j \in Inodes : j # i => content'[j] = content[j]
  BY DEF TypeOK, Inodes

-----------------------------------------------------------------------------
(* The steps.                                                              *)

(* Nothing is published at first.                                          *)
LEMMA InitIInv == Init => IInv
<1> SUFFICES ASSUME Init PROVE IInv
  OBVIOUS
<1>1. content \in Seq(Seq(Nat)) /\ Len(content) = 0
  BY DEF Init
<1>2. runs \in 0..MaxRuns
  BY MaxRunsAssumption DEF Init
<1>3. pos \in [Builders -> 0..Pieces]
  BY PiecesAssumption DEF Init
<1>4. TypeOK
  BY <1>1, <1>2, <1>3 DEF Init, TypeOK, BuilderPhases, ReaderPhases, Inodes
<1>5. Apart /\ Opened /\ OwnFile /\ NameImpliesServes
  BY DEF Init, Apart, Opened, OwnFile, NameImpliesServes
<1> QED BY <1>4, <1>5 DEF IInv

(* A run begins.                                                           *)
LEMMA StartIInv == ASSUME OneBuilder, IInv, NEW b \in Builders, Start(b) PROVE IInv'
<1> USE DEF IInv
<1>1. runs + 1 \in 1..MaxRuns /\ runs' = runs + 1
  BY MaxRunsAssumption DEF Start, TypeOK
<1>2. art' \in [Builders -> 0..runs'] /\ art'[b] = runs + 1
  BY <1>1 DEF Start, TypeOK
<1>3. seen' = seen
  BY DEF Start, reader
<1>4. TypeOK'
  BY <1>1, <1>2, <1>3 DEF Start, TypeOK, disk, reader, BuilderPhases, Inodes
<1>5. Apart' /\ Opened' /\ NameImpliesServes'
  BY DEF Start, Apart, Opened, NameImpliesServes, disk, reader, WholeOfSome, Whole
<1>6. pc'[b] = "create"
  BY DEF Start, TypeOK
<1>7. OwnFile'
  BY <1>1, <1>2, <1>6 DEF OneBuilder, OwnFile
<1> QED BY <1>4, <1>5, <1>7

(* The temporary file is created, or cut to nothing: it is not <out>, and  *)
(* no reader has it open.                                                  *)
LEMMA CreateIInv == ASSUME OneBuilder, IInv, NEW b \in Builders, Create(b) PROVE IInv'
<1> USE DEF IInv
<1> DEFINE t == names'["tmp"]
<1>1. /\ content' \in Seq(Seq(Nat)) /\ Len(content') >= Len(content)
      /\ t \in 1..Len(content') /\ content'[t] = <<>>
      /\ names' \in [{"tmp", "out"} -> 0..Len(content')]
      /\ names'["out"] = names["out"]
      /\ names["out"] # t /\ \A r \in Readers : rfd[r] # t
      /\ \A j \in Inodes : j # t => content'[j] = content[j]
  <2>1. CASE names["tmp"] = 0
    <3>1. content' = Append(content, <<>>)
      BY <2>1 DEF Create
    <3>2. content \in Seq(Seq(Nat)) /\ <<>> \in Seq(Nat)
      BY DEF TypeOK
    <3>3. /\ content' \in Seq(Seq(Nat)) /\ Len(content') = Len(content) + 1
          /\ content'[Len(content')] = <<>>
          /\ \A j \in Inodes : content'[j] = content[j]
      BY <3>1, <3>2 DEF Inodes
    <3>4. names' = [names EXCEPT !["tmp"] = Len(content')]
      BY <2>1 DEF Create
    <3>5. t = Len(content')
      BY <3>4 DEF TypeOK
    <3>6. Len(content) \in Nat
      BY <3>2
    <3>7. /\ names \in [{"tmp", "out"} -> 0..Len(content)]
          /\ rfd \in [Readers -> 0..Len(content)]
      BY <3>6 DEF TypeOK, Inodes
    <3>8. /\ names' \in [{"tmp", "out"} -> 0..Len(content')]
          /\ names'["out"] = names["out"] /\ names["out"] # t
      BY <3>3, <3>4, <3>5, <3>6, <3>7
    <3>9. \A r \in Readers : rfd[r] # t
      BY <3>3, <3>5, <3>6, <3>7
    <3>10. t \in 1..Len(content') /\ Len(content') >= Len(content)
      BY <3>3, <3>5, <3>6
    <3> HIDE DEF t
    <3> QED BY <3>3, <3>5, <3>8, <3>9, <3>10
  <2>2. CASE names["tmp"] # 0
    <3>1. /\ content' = [content EXCEPT ![names["tmp"]] = <<>>]
          /\ names' = names /\ names["tmp"] \in Inodes
      BY <2>2 DEF Create, TypeOK
    <3>2. <<>> \in Seq(Nat)
      OBVIOUS
    <3>3. /\ content' \in Seq(Seq(Nat)) /\ Len(content') = Len(content)
          /\ content'[names["tmp"]] = <<>>
          /\ \A j \in Inodes : j # names["tmp"] => content'[j] = content[j]
      BY <3>1, <3>2, InodeReplaced
    <3>4. Len(content) \in Nat
      BY DEF TypeOK
    <3> QED BY <2>2, <3>1, <3>3, <3>4 DEF TypeOK, Apart, Inodes
  <2> QED BY <2>1, <2>2
<1>2. /\ fd' = [fd EXCEPT ![b] = t] /\ pos' = [pos EXCEPT ![b] = 0]
      /\ pc' = [pc EXCEPT ![b] = "write"] /\ UNCHANGED <<runs, art, rpc, rfd, seen>>
      /\ pc[b] = "create"
  BY DEF Create, Step, reader
<1>3. Len(content) \in Nat /\ Len(content') \in Nat
  BY <1>1 DEF TypeOK
<1> HIDE DEF t
<1>4. TypeOK'
  <2>1. /\ fd \in [Builders -> 0..Len(content)] /\ rfd \in [Readers -> 0..Len(content)]
        /\ pos \in [Builders -> 0..Pieces] /\ pc \in [Builders -> BuilderPhases]
    BY <1>3 DEF TypeOK, Inodes
  <2>2. 0..Len(content) \subseteq 0..Len(content') /\ t \in 0..Len(content')
    BY <1>1, <1>3
  <2>3. /\ fd' \in [Builders -> 0..Len(content')] /\ rfd' \in [Readers -> 0..Len(content')]
    BY <1>2, <2>1, <2>2
  <2>4. pos' \in [Builders -> 0..Pieces] /\ pc' \in [Builders -> BuilderPhases]
    BY <1>2, <2>1, PiecesAssumption DEF BuilderPhases
  <2>5. Inodes' \cup {0} = 0..Len(content')
    BY <1>3 DEF Inodes
  <2> QED BY <1>1, <1>2, <2>3, <2>4, <2>5 DEF TypeOK
<1>5. Apart'
  BY <1>1, <1>2 DEF Apart, t
<1>6. NameImpliesServes' /\ Opened'
  <2>1. names["out"] # 0 => names["out"] \in Inodes /\ names["out"] # t
    BY <1>1 DEF TypeOK
  <2>2. \A r \in Readers : rfd[r] # 0 => rfd[r] \in Inodes /\ rfd[r] # t
    BY <1>1 DEF TypeOK
  <2>3. NameImpliesServes'
    BY <1>1, <2>1 DEF NameImpliesServes, WholeOfSome, Whole
  <2>4. rpc' = rpc /\ rfd' = rfd
    BY <1>2
  <2>5. ASSUME NEW r \in Readers, rfd[r] # 0 PROVE content'[rfd[r]] = content[rfd[r]]
    BY <1>1, <2>2, <2>5
  <2>6. Opened'
    BY <2>4, <2>5 DEF Opened, WholeOfSome, Whole
  <2> QED BY <2>3, <2>6
<1>7. /\ pc'[b] = "write" /\ fd'[b] = t /\ pos'[b] = 0 /\ art'[b] \in 1..MaxRuns
  BY <1>2 DEF TypeOK, OwnFile
<1>8. Written(b)'
  BY <1>1, <1>7 DEF Written
<1>9. OwnFile'
  BY <1>1, <1>7, <1>8 DEF OneBuilder, OwnFile, t
<1> QED BY <1>4, <1>5, <1>6, <1>9

(* What a write changes: the file of the descriptor, which is neither      *)
(* <out> nor open in any reader.                                           *)
LEMMA WriteKeeps ==
    ASSUME IInv, NEW b \in Builders, pc[b] = "write", NEW c \in Seq(Nat),
           content' = [content EXCEPT ![fd[b]] = c], UNCHANGED <<names, reader>>
    PROVE  /\ content' \in Seq(Seq(Nat)) /\ Len(content') = Len(content)
           /\ content'[fd[b]] = c
           /\ Apart' /\ Opened' /\ NameImpliesServes'
           /\ \A r \in Readers : rfd[r] # 0 => content'[rfd[r]] = content[rfd[r]]
<1> USE DEF IInv
<1>1. fd[b] \in Inodes /\ fd[b] = names["tmp"] /\ names["tmp"] # names["out"]
  BY DEF OwnFile, Apart, TypeOK
<1>2. /\ content' \in Seq(Seq(Nat)) /\ Len(content') = Len(content)
      /\ content'[fd[b]] = c
      /\ \A j \in Inodes : j # fd[b] => content'[j] = content[j]
  BY <1>1, InodeReplaced
<1>3. Apart'
  BY DEF Apart, reader
<1>4. NameImpliesServes'
  BY <1>1, <1>2 DEF NameImpliesServes, WholeOfSome, Whole, TypeOK, Inodes
<1>5. \A r \in Readers : rfd[r] # 0 => content'[rfd[r]] = content[rfd[r]]
  BY <1>1, <1>2 DEF Apart, TypeOK
<1>6. Opened'
  BY <1>5 DEF Opened, WholeOfSome, Whole, reader
<1> QED BY <1>2, <1>3, <1>4, <1>5, <1>6

(* The overlay a write or a failing write leaves.                          *)
LEMMA WrittenOverlay ==
    ASSUME IInv, NEW b \in Builders, pc[b] = "write", NEW p \in Nat
    PROVE  Overlay(content[fd[b]], pos[b], p) \in Seq(Nat)
<1>1. fd[b] \in Inodes /\ content \in Seq(Seq(Nat)) /\ pos[b] \in Nat
  BY PiecesAssumption DEF IInv, OwnFile, TypeOK
<1>2. content[fd[b]] \in Seq(Nat)
  BY <1>1 DEF Inodes
<1> QED BY <1>1, <1>2, OverlayType

(* One piece is written.                                                   *)
LEMMA WriteIInv == ASSUME OneBuilder, IInv, NEW b \in Builders, Write(b) PROVE IInv'
<1> USE DEF IInv
<1> DEFINE c == Overlay(content[fd[b]], pos[b], art[b])
<1>1. /\ pc[b] = "write" /\ pos[b] < Pieces /\ pos[b] \in Nat /\ art[b] \in Nat
      /\ content' = [content EXCEPT ![fd[b]] = c]
      /\ pos' = [pos EXCEPT ![b] = pos[b] + 1]
      /\ UNCHANGED <<names, runs, pc, fd, art, reader>>
  BY PiecesAssumption, MaxRunsAssumption DEF Write, TypeOK
<1>2. c \in Seq(Nat)
  BY <1>1, WrittenOverlay
<1>3. c = [k \in 1..pos[b] + 1 |-> art[b]]
  <2>1. content[fd[b]] = [k \in 1..pos[b] |-> art[b]]
    BY <1>1 DEF OwnFile, Written
  <2> QED BY <1>1, <2>1, OverlayExtends
<1> HIDE DEF c
<1>4. /\ content' \in Seq(Seq(Nat)) /\ Len(content') = Len(content)
      /\ content'[fd[b]] = c /\ Apart' /\ Opened' /\ NameImpliesServes'
  BY <1>1, <1>2, WriteKeeps
<1>5. pos' \in [Builders -> 0..Pieces] /\ pos'[b] = pos[b] + 1
  BY <1>1, PiecesAssumption DEF TypeOK
<1>6. TypeOK'
  BY <1>1, <1>4, <1>5 DEF TypeOK, Inodes, reader
<1>7. Written(b)'
  BY <1>1, <1>3, <1>4, <1>5 DEF Written
<1>8. OwnFile'
  BY <1>1, <1>7 DEF OneBuilder, OwnFile
<1> QED BY <1>4, <1>6, <1>8

(* A write fails, perhaps half way through its piece.                      *)
LEMMA WriteFailsIInv ==
    ASSUME OneBuilder, IInv, NEW b \in Builders, WriteFails(b) PROVE IInv'
<1> USE DEF IInv
<1>1. /\ pc[b] = "write" /\ pc' = [pc EXCEPT ![b] = "cleanup"]
      /\ UNCHANGED <<names, runs, fd, pos, art, reader>>
  BY DEF WriteFails, Step
<1>2. /\ content' \in Seq(Seq(Nat)) /\ Len(content') = Len(content)
      /\ Apart' /\ Opened' /\ NameImpliesServes'
  <2>1. CASE content' = content
    BY <1>1, <2>1 DEF TypeOK, Apart, Opened, NameImpliesServes, WholeOfSome, Whole,
                      reader
  <2>2. CASE content' = [content EXCEPT ![fd[b]] = Overlay(@, pos[b], Torn)]
    <3>1. Overlay(content[fd[b]], pos[b], Torn) \in Seq(Nat)
      BY <1>1, WrittenOverlay, MaxRunsAssumption DEF Torn
    <3> QED BY <1>1, <2>2, <3>1, WriteKeeps
  <2> QED BY <2>1, <2>2 DEF WriteFails
<1>3. TypeOK'
  BY <1>1, <1>2 DEF TypeOK, Inodes, reader, BuilderPhases
<1>4. OwnFile'
  BY <1>1 DEF OneBuilder, OwnFile, TypeOK
<1> QED BY <1>2, <1>3, <1>4

(* The temporary file is closed: it is whole, or the close failed.         *)
LEMMA CloseTmpIInv ==
    ASSUME OneBuilder, IInv, NEW b \in Builders, CloseTmp(b) PROVE IInv'
<1> USE DEF IInv
<1>1. /\ pc[b] = "write" /\ pos[b] = Pieces
      /\ \E to \in {"rename", "cleanup"} : pc' = [pc EXCEPT ![b] = to]
      /\ UNCHANGED <<names, content, runs, fd, pos, art, rpc, rfd, seen>>
  BY DEF CloseTmp, Step, disk, reader
<1>2. TypeOK'
  BY <1>1 DEF TypeOK, Inodes, BuilderPhases
<1>3. Apart' /\ Opened' /\ NameImpliesServes'
  BY <1>1 DEF Apart, Opened, NameImpliesServes, WholeOfSome, Whole
<1>4. Written(b)'
  BY <1>1 DEF OwnFile, Written
<1>5. OwnFile'
  BY <1>1, <1>4 DEF OneBuilder, OwnFile, TypeOK
<1> QED BY <1>2, <1>3, <1>5

(* The rename puts a whole artifact under the name, in one step.           *)
LEMMA RenameIInv ==
    ASSUME OneBuilder, IInv, NEW b \in Builders, Rename(b) PROVE IInv'
<1> USE DEF IInv
<1>1. /\ pc[b] = "rename" /\ pc' = [pc EXCEPT ![b] = "done"]
      /\ names["tmp"] # 0
      /\ names' = [names EXCEPT !["tmp"] = 0, !["out"] = names["tmp"]]
      /\ UNCHANGED <<content, runs, fd, pos, art, rpc, rfd, seen>>
  BY DEF Rename, Step, reader
<1>2. names'["tmp"] = 0 /\ names'["out"] = names["tmp"]
  BY <1>1 DEF TypeOK
<1>3. TypeOK'
  BY <1>1 DEF TypeOK, Inodes, BuilderPhases
<1>4. Whole(content[fd[b]], art[b]) /\ art[b] \in 1..MaxRuns /\ fd[b] = names["tmp"]
  BY <1>1 DEF OwnFile, Written, Whole
<1>5. Apart' /\ Opened'
  BY <1>1, <1>2 DEF Apart, Opened, WholeOfSome, Whole
<1>6. NameImpliesServes'
  BY <1>1, <1>2, <1>4 DEF NameImpliesServes, WholeOfSome, Whole
<1>7. Whole(content[fd[b]], art[b])'
  BY <1>1, <1>4 DEF Whole
<1>8. pc'[b] = "done"
  BY <1>1 DEF TypeOK
<1>9. OwnFile'
  BY <1>1, <1>2, <1>4, <1>7, <1>8 DEF OneBuilder, OwnFile
<1> QED BY <1>3, <1>5, <1>6, <1>9

(* A build that gives up, or is killed, leaves <out> alone.                *)
LEMMA GiveUpIInv ==
    ASSUME OneBuilder, IInv, NEW b \in Builders,
           CreateFails(b) \/ RenameFails(b) \/ Cleanup(b) \/ Crash(b)
    PROVE  IInv'
<1> USE DEF IInv
<1>1. /\ \E to \in {"failed", "cleanup", "crashed"} : pc' = [pc EXCEPT ![b] = to]
      /\ pc[b] # "idle"
      /\ names' = names \/ names' = [names EXCEPT !["tmp"] = 0]
      /\ UNCHANGED <<content, runs, fd, pos, art, rpc, rfd, seen>>
  BY DEF CreateFails, RenameFails, Cleanup, Crash, Step, disk, reader
<1>2. names'["tmp"] \in {0, names["tmp"]} /\ names'["out"] = names["out"]
  BY <1>1 DEF TypeOK
<1>3. TypeOK'
  BY <1>1 DEF TypeOK, Inodes, BuilderPhases
<1>4. Apart' /\ Opened'
  BY <1>1, <1>2 DEF Apart, Opened, WholeOfSome, Whole, TypeOK
<1>5. NameImpliesServes'
  BY <1>1, <1>2 DEF NameImpliesServes, WholeOfSome, Whole
<1>6. pc'[b] \in {"failed", "cleanup", "crashed"}
  BY <1>1 DEF TypeOK
<1>7. OwnFile'
  BY <1>1, <1>6 DEF OneBuilder, OwnFile
<1> QED BY <1>3, <1>4, <1>5, <1>7

(* Readers change nothing on disk, and open only the final name.           *)
LEMMA ReaderIInv == ASSUME IInv, NEW r \in Readers, ReaderStep(r) PROVE IInv'
<1> USE DEF IInv
<1>1. UNCHANGED <<names, content, runs, pc, fd, pos, art>>
  BY DEF ReaderStep, OpenOut, Verify, Accept, Refuse, CloseOut, disk, builder
<1>2. NameImpliesServes' /\ OwnFile'
  BY <1>1 DEF NameImpliesServes, WholeOfSome, Whole, OwnFile, Written
<1>3. TypeOK' /\ Apart' /\ Opened'
  <2>1. CASE OpenOut(r)
    <3>1. TypeOK'
      BY <1>1, <2>1 DEF OpenOut, TypeOK, Inodes, ReaderPhases
    <3>2. Apart'
      BY <1>1, <2>1 DEF OpenOut, Apart, TypeOK
    <3>3. Opened'
      BY <1>1, <2>1 DEF OpenOut, Opened, NameImpliesServes, WholeOfSome, Whole, TypeOK
    <3> QED BY <3>1, <3>2, <3>3
  <2>2. CASE Verify(r)
    <3>1. rfd' = rfd /\ rpc[r] \in {"opened", "short"}
          /\ \E to \in {"serving", "refused"} : rpc' = [rpc EXCEPT ![r] = to]
      BY <2>2 DEF Verify, Accept, Refuse
    <3>2. seen' = seen \/ \E a \in 1..MaxRuns : seen' = [seen EXCEPT ![r] = a]
      BY <2>2 DEF Verify, Accept, Refuse
    <3>3. seen' \in [Readers -> 0..MaxRuns]
      <4>1. seen \in [Readers -> 0..MaxRuns] /\ 1..MaxRuns \subseteq 0..MaxRuns
        BY MaxRunsAssumption DEF TypeOK
      <4> QED BY <3>2, <4>1
    <3>4. TypeOK'
      <4>1. rpc' \in [Readers -> ReaderPhases]
        BY <3>1 DEF TypeOK, ReaderPhases
      <4> QED BY <1>1, <3>1, <3>3, <4>1 DEF TypeOK, Inodes
    <3>5. Apart' /\ Opened'
      BY <1>1, <3>1 DEF Apart, Opened, WholeOfSome, Whole, TypeOK
    <3> QED BY <3>4, <3>5
  <2>3. CASE CloseOut(r)
    <3>1. TypeOK'
      <4>1. 0 \in 0..MaxRuns
        BY MaxRunsAssumption
      <4>2. seen' \in [Readers -> 0..MaxRuns]
        BY <2>3, <4>1 DEF CloseOut, TypeOK
      <4>3. /\ rpc' \in [Readers -> ReaderPhases]
            /\ rfd' \in [Readers -> Inodes \cup {0}]
        BY <2>3 DEF CloseOut, TypeOK, ReaderPhases
      <4> QED BY <1>1, <4>2, <4>3 DEF TypeOK, Inodes
    <3>2. Apart' /\ Opened'
      BY <1>1, <2>3 DEF CloseOut, Apart, Opened, WholeOfSome, Whole, TypeOK
    <3> QED BY <3>1, <3>2
  <2> QED BY <2>1, <2>2, <2>3 DEF ReaderStep
<1> QED BY <1>2, <1>3

(* Every step keeps the invariant.                                         *)
LEMMA NextIInv == ASSUME OneBuilder PROVE IInv /\ [Next]_vars => IInv'
<1> SUFFICES ASSUME IInv, [Next]_vars PROVE IInv'
  OBVIOUS
<1>1. ASSUME NEW b \in Builders, Start(b) \/ BuilderStep(b) \/ Crash(b) PROVE IInv'
  BY <1>1, StartIInv, CreateIInv, WriteIInv, WriteFailsIInv, CloseTmpIInv, RenameIInv,
     GiveUpIInv DEF BuilderStep
<1>2. ASSUME NEW r \in Readers, ReaderStep(r) PROVE IInv'
  BY <1>2, ReaderIInv
<1>3. CASE UNCHANGED vars
  <2>1. UNCHANGED <<names, content, runs, pc, fd, pos, art, rpc, rfd, seen>>
    BY <1>3 DEF vars, disk, builder, reader
  <2>2. TypeOK'
    BY <2>1 DEF IInv, TypeOK, Inodes
  <2>3. Apart' /\ Opened' /\ NameImpliesServes'
    BY <2>1 DEF IInv, Apart, Opened, NameImpliesServes, WholeOfSome, Whole
  <2>4. OwnFile'
    BY <2>1 DEF IInv, OwnFile, Written, Whole
  <2> QED BY <2>2, <2>3, <2>4 DEF IInv
<1> QED BY <1>1, <1>2, <1>3 DEF Next

-----------------------------------------------------------------------------
(* The theorems.                                                           *)

(* The invariant holds throughout.                                         *)
THEOREM InvariantHolds == ASSUME OneBuilder PROVE Spec => []IInv
<1>1. IInv /\ [Next]_vars => IInv'
  BY NextIInv
<1> QED BY <1>1, InitIInv, PTL DEF Spec

(* A name that exists implies a file that serves, whatever crashed or      *)
(* failed before (app/ipmap/main.go): the promise of the comment in build, *)
(* which needs the premise that builds of one name do not overlap.         *)
THEOREM NameServes == ASSUME OneBuilder PROVE Spec => []NameImpliesServes
<1>1. IInv => NameImpliesServes
  BY DEF IInv
<1> QED BY <1>1, InvariantHolds, PTL

(* A build that reports success has put its own artifact under the name.   *)
THEOREM SuccessPublishes == ASSUME OneBuilder PROVE Spec => []SuccessIsPublished
<1>1. IInv => SuccessIsPublished
  BY DEF IInv, OwnFile, SuccessIsPublished
<1> QED BY <1>1, InvariantHolds, PTL

(* The bytes a reader answers from never change while it has them mapped.  *)
THEOREM ServedIsStable == ASSUME OneBuilder PROVE Spec => ServedNeverChanges
<1>1. IInv /\ [Next]_vars =>
        [\A r \in Readers :
            rpc[r] = "serving" => content'[rfd[r]] = content[rfd[r]]]_vars
  <2> SUFFICES ASSUME IInv, Next, NEW r \in Readers, rpc[r] = "serving"
               PROVE  content'[rfd[r]] = content[rfd[r]]
    OBVIOUS
  <2>1. rfd[r] \in Inodes /\ rfd[r] # names["tmp"] /\ content \in Seq(Seq(Nat))
    BY DEF IInv, Apart, Opened, TypeOK
  <2>2. ASSUME NEW q \in Readers, ReaderStep(q) PROVE content' = content
    BY <2>2 DEF ReaderStep, OpenOut, Verify, Accept, Refuse, CloseOut, disk
  <2>3. ASSUME NEW b \in Builders, Start(b) \/ CloseTmp(b) \/ CreateFails(b) \/ Rename(b)
                                    \/ RenameFails(b) \/ Cleanup(b) \/ Crash(b)
        PROVE  content' = content
    BY <2>3 DEF Start, CloseTmp, CreateFails, Rename, RenameFails, Cleanup, Crash, disk
  <2>4. ASSUME NEW b \in Builders, Write(b) \/ WriteFails(b)
        PROVE  content'[rfd[r]] = content[rfd[r]]
    <3>1. fd[b] = names["tmp"]
      BY <2>4 DEF IInv, OwnFile, Write, WriteFails, Step
    <3>2. content' = content \/ \E c : content' = [content EXCEPT ![fd[b]] = c]
      BY <2>4 DEF Write, WriteFails
    <3> QED BY <2>1, <3>1, <3>2 DEF Inodes
  <2>5. ASSUME NEW b \in Builders, Create(b) PROVE content'[rfd[r]] = content[rfd[r]]
    <3>1. CASE content' = Append(content, <<>>)
      <4>1. <<>> \in Seq(Nat)
        OBVIOUS
      <4> QED BY <2>1, <3>1, <4>1 DEF Inodes
    <3>2. CASE content' = [content EXCEPT ![names["tmp"]] = <<>>]
      BY <2>1, <3>2 DEF Inodes
    <3> QED BY <2>5, <3>1, <3>2 DEF Create
  <2> QED BY <2>2, <2>3, <2>4, <2>5 DEF Next, BuilderStep
<1> QED BY <1>1, InvariantHolds, PTL DEF Spec, ServedNeverChanges

-----------------------------------------------------------------------------
(* The refinement of AtomicFile.                                           *)

(* The first piece of a whole artifact names its run.                      *)
LEMMA FirstPiece == ASSUME NEW c, WholeOfSome(c) PROVE c[1] \in 1..MaxRuns
  BY PiecesAssumption DEF WholeOfSome, Whole

(* Readers and the name show what they showed, unless the step is one of   *)
(* the abstract ones.                                                      *)
LEMMA SameFiles ==
    ASSUME IInv, names'["out"] = names["out"], rfd' = rfd,
           names["out"] # 0 => content'[names["out"]] = content[names["out"]],
           \A r \in Readers : rfd[r] # 0 => content'[rfd[r]] = content[rfd[r]]
    PROVE  UNCHANGED AF!fvars
<1>1. Published' = Published
  BY DEF Published
<1>2. \A r \in Readers : View(r)' = View(r)
  BY DEF View
<1> QED BY <1>1, <1>2 DEF AF!fvars

(* At first nothing is published or open.                                  *)
LEMMA InitMapped == Init => AF!FInit
  BY DEF Init, AF!FInit, Published, View

(* A write touches neither <out> nor a file a reader has open.             *)
LEMMA WriteMapped ==
    ASSUME IInv, NEW b \in Builders, Write(b) \/ WriteFails(b) PROVE UNCHANGED AF!fvars
<1>1. fd[b] = names["tmp"] /\ fd[b] # 0 /\ UNCHANGED <<names, reader>>
  BY DEF IInv, OwnFile, Write, WriteFails, Step
<1>2. content' = content \/ \E c : content' = [content EXCEPT ![fd[b]] = c]
  BY DEF Write, WriteFails
<1>3. \A j \in Inodes : j # fd[b] => content'[j] = content[j]
  BY <1>2 DEF IInv, TypeOK, Inodes
<1>4. names["out"] # 0 => names["out"] \in Inodes /\ names["out"] # fd[b]
  BY <1>1 DEF IInv, TypeOK, Apart
<1>5. \A r \in Readers : rfd[r] # 0 => rfd[r] \in Inodes /\ rfd[r] # fd[b]
  BY <1>1 DEF IInv, TypeOK, Apart
<1> QED BY <1>1, <1>3, <1>4, <1>5, SameFiles DEF reader

(* Nor does the creation, or the truncation, of the temporary file.        *)
LEMMA CreateMapped ==
    ASSUME IInv, NEW b \in Builders, Create(b) PROVE UNCHANGED AF!fvars
<1>1. names'["out"] = names["out"] /\ rfd' = rfd
  BY DEF IInv, TypeOK, Create, reader
<1>2. content \in Seq(Seq(Nat)) /\ <<>> \in Seq(Nat)
  BY DEF IInv, TypeOK
<1>3. \A j \in Inodes : j # names["tmp"] => content'[j] = content[j]
  <2>1. CASE content' = Append(content, <<>>)
    BY <1>2, <2>1 DEF Inodes
  <2>2. CASE content' = [content EXCEPT ![names["tmp"]] = <<>>]
    BY <1>2, <2>2 DEF Inodes
  <2> QED BY <2>1, <2>2 DEF Create
<1>4. names["out"] # 0 => names["out"] \in Inodes /\ names["out"] # names["tmp"]
  BY DEF IInv, TypeOK, Apart
<1>5. \A r \in Readers : rfd[r] # 0 => rfd[r] \in Inodes /\ rfd[r] # names["tmp"]
  BY DEF IInv, TypeOK, Apart
<1> QED BY <1>1, <1>3, <1>4, <1>5, SameFiles

(* The rename is the publication.                                          *)
LEMMA RenameMapped ==
    ASSUME IInv, NEW b \in Builders, Rename(b)
    PROVE  \E a \in 1..MaxRuns : AF!Publish(a)
<1>1. /\ names'["out"] = names["tmp"] /\ names["tmp"] # 0
      /\ content' = content /\ rfd' = rfd /\ fd[b] = names["tmp"]
  BY DEF IInv, TypeOK, OwnFile, Rename, Step, reader
<1>2. Whole(content[fd[b]], art[b]) /\ art[b] \in 1..MaxRuns
  BY DEF IInv, OwnFile, Written, Whole, Rename, Step
<1>3. Published' = art[b]
  BY <1>1, <1>2, PiecesAssumption DEF Published, Whole
<1>4. \A r \in Readers : View(r)' = View(r)
  BY <1>1 DEF View
<1> QED BY <1>2, <1>3, <1>4 DEF AF!Publish

(* A reader opens what is published, keeps it, and lets go of it.          *)
LEMMA ReaderMapped ==
    ASSUME IInv, NEW r \in Readers, ReaderStep(r)
    PROVE  AF!OpenFile(r) \/ AF!CloseFile(r) \/ UNCHANGED AF!fvars
<1> DEFINE view == [q \in Readers |-> View(q)]
<1>1. UNCHANGED <<names, content>> /\ Published' = Published
  BY DEF ReaderStep, OpenOut, Verify, Accept, Refuse, CloseOut, disk, Published
<1>2. CASE OpenOut(r)
  <2>1. rpc[r] = "idle" /\ names["out"] # 0 /\ rfd' = [rfd EXCEPT ![r] = names["out"]]
    BY <1>2 DEF OpenOut
  <2>2. View(r) = 0
    BY <2>1 DEF IInv, Opened, View
  <2>3. Published # 0
    <3>1. content[names["out"]][1] \in 1..MaxRuns
      BY <2>1, FirstPiece DEF IInv, NameImpliesServes
    <3> QED BY <2>1, <3>1, MaxRunsAssumption DEF Published
  <2>4. \A q \in Readers : View(q)' = IF q = r THEN Published ELSE View(q)
    BY <1>1, <2>1 DEF View, Published, IInv, TypeOK
  <2>5. view' = [view EXCEPT ![r] = Published]
    BY <2>4
  <2> QED BY <1>1, <2>2, <2>3, <2>5 DEF AF!OpenFile
<1>3. CASE Verify(r)
  <2>1. rfd' = rfd
    BY <1>3 DEF Verify, Accept, Refuse
  <2> QED BY <1>1, <2>1, SameFiles
<1>4. CASE CloseOut(r)
  <2>1. rpc[r] # "idle" /\ rfd' = [rfd EXCEPT ![r] = 0]
    BY <1>4 DEF CloseOut
  <2>2. View(r) # 0
    <3>1. rfd[r] # 0 /\ content[rfd[r]][1] \in 1..MaxRuns
      BY <2>1, FirstPiece DEF IInv, Opened
    <3> QED BY <3>1, MaxRunsAssumption DEF View
  <2>3. \A q \in Readers : View(q)' = IF q = r THEN 0 ELSE View(q)
    BY <1>1, <2>1 DEF View, IInv, TypeOK
  <2>4. view' = [view EXCEPT ![r] = 0]
    BY <2>3
  <2> QED BY <1>1, <2>2, <2>4 DEF AF!CloseFile
<1> QED BY <1>2, <1>3, <1>4 DEF ReaderStep

(* Every step is a step of the atomic file, or leaves it as it is.         *)
LEMMA NextMapped ==
    ASSUME IInv, [Next]_vars PROVE [AF!FNext]_(AF!fvars)
<1>1. ASSUME NEW b \in Builders,
             Start(b) \/ CloseTmp(b) \/ CreateFails(b) \/ RenameFails(b) \/ Cleanup(b)
             \/ Crash(b)
      PROVE  UNCHANGED AF!fvars
  <2>1. /\ names' = names \/ names' = [names EXCEPT !["tmp"] = 0]
        /\ content' = content /\ rfd' = rfd
    BY <1>1 DEF Start, CloseTmp, CreateFails, RenameFails, Cleanup, Crash, disk, reader
  <2>2. names'["out"] = names["out"]
    BY <2>1 DEF IInv, TypeOK
  <2> QED BY <2>1, <2>2, SameFiles
<1>2. ASSUME NEW b \in Builders, Create(b) \/ Write(b) \/ WriteFails(b)
      PROVE  UNCHANGED AF!fvars
  BY <1>2, CreateMapped, WriteMapped
<1>3. ASSUME NEW b \in Builders, Rename(b) PROVE AF!FNext
  BY <1>3, RenameMapped DEF AF!FNext
<1>4. ASSUME NEW r \in Readers, ReaderStep(r) PROVE [AF!FNext]_(AF!fvars)
  BY <1>4, ReaderMapped DEF AF!FNext
<1>5. CASE UNCHANGED vars
  BY <1>5, SameFiles DEF vars, disk, reader
<1> QED BY <1>1, <1>2, <1>3, <1>4, <1>5 DEF Next, BuilderStep

(* Builders that do not overlap, and readers, implement the atomic file:   *)
(* the name changes from one whole artifact to the next in one step, and a *)
(* reader answers from the one it opened until it closes it.               *)
THEOREM PublishRefines == ASSUME OneBuilder PROVE Spec => ImplementsAtomicFile
<1>1. IInv /\ [Next]_vars => [AF!FNext]_(AF!fvars)
  BY NextMapped
<1> QED BY <1>1, InitMapped, InvariantHolds, PTL DEF Spec, ImplementsAtomicFile, AF!FSpec

(* The disk, the builders and the readers are well typed: each name is an  *)
(* inode or free, whatever failed or crashed (app/ipmap/main.go).          *)
THEOREM TypeCorrect == ASSUME OneBuilder PROVE Spec => []TypeOK
<1>1. IInv => TypeOK
  BY DEF IInv
<1> QED BY <1>1, InvariantHolds, PTL
=============================================================================
