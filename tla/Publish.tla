------------------------------ MODULE Publish ------------------------------
(***************************************************************************)
(* How an artifact gets its name, and how it is opened.  Each builder is   *)
(* one `ipmap build' process (app/ipmap/main.go) that creates <out>.tmp,   *)
(* writes the artifact into it piece by piece (Map.WriteTo), closes it and *)
(* renames it to <out>.  Each reader is a process that calls Open on <out> *)
(* (format.go, file_unix.go), answers from the mapping and closes it.      *)
(*                                                                         *)
(* A builder may crash between any two steps, and any system call of it    *)
(* may fail.  A file is an inode with a content; a name is bound to an     *)
(* inode or to none; a descriptor or a mapping keeps its inode when the    *)
(* name moves on.  A content is a sequence of pieces, each labelled with   *)
(* the run that wrote it.                                                  *)
(***************************************************************************)
EXTENDS Naturals, Sequences

CONSTANTS Builders, Readers,
          Pieces,     \* how many writes make one artifact
          MaxRuns     \* bound: how many times `ipmap build' is started

ASSUME PiecesAssumption == Pieces \in Nat \ {0}
ASSUME MaxRunsAssumption == MaxRuns \in Nat

VARIABLES names,      \* "tmp", "out" -> inode number, 0 when there is no file
          content,    \* content[i] is what inode i holds
          runs,       \* how many builds were started
          pc, fd, pos, art,   \* per builder: step, inode written, offset, run
          rpc, rfd, seen      \* per reader: step, inode open, run verified

disk    == <<names, content>>
builder == <<runs, pc, fd, pos, art>>
reader  == <<rpc, rfd, seen>>
vars    == <<disk, builder, reader>>

Hole == 0                            \* a piece nobody wrote
Torn == MaxRuns + 1                  \* a piece a failing write cut short
Whole(c, a) == c = [k \in 1..Pieces |-> a]
WholeOfSome(c) == \E a \in 1..MaxRuns : Whole(c, a)

Init == /\ names = [x \in {"tmp", "out"} |-> 0]
        /\ content = <<>>
        /\ runs = 0
        /\ pc = [b \in Builders |-> "idle"]
        /\ fd = [b \in Builders |-> 0]
        /\ pos = [b \in Builders |-> 0]
        /\ art = [b \in Builders |-> 0]
        /\ rpc = [r \in Readers |-> "idle"]
        /\ rfd = [r \in Readers |-> 0]
        /\ seen = [r \in Readers |-> 0]

-----------------------------------------------------------------------------
(* The builders.                                                           *)

Step(b, from, to) == pc[b] = from /\ pc' = [pc EXCEPT ![b] = to]

\* A run begins: the spec is parsed and compiled, nothing is on disk yet.
Start(b) == /\ pc[b] \in {"idle", "done", "failed", "crashed"}
            /\ runs < MaxRuns
            /\ runs' = runs + 1
            /\ art' = [art EXCEPT ![b] = runs + 1]
            /\ pc' = [pc EXCEPT ![b] = "create"]
            /\ UNCHANGED <<disk, fd, pos, reader>>

\* Mutant: the artifact is written in place, under its final name.
CreateInPlace(b) ==
    /\ Step(b, "create", "write")
    /\ IF names["out"] = 0
         THEN /\ content' = Append(content, <<>>)
              /\ names' = [names EXCEPT !["out"] = Len(content')]
         ELSE /\ content' = [content EXCEPT ![names["out"]] = <<>>]
              /\ UNCHANGED names
    /\ fd' = [fd EXCEPT ![b] = names'["out"]]
    /\ pos' = [pos EXCEPT ![b] = 0]
    /\ UNCHANGED <<runs, art, reader>>

\* os.Create: a fresh file, or the one that is there, cut to nothing.
Create(b) ==
    /\ Step(b, "create", "write")
    /\ IF names["tmp"] = 0
         THEN /\ content' = Append(content, <<>>)
              /\ names' = [names EXCEPT !["tmp"] = Len(content')]
         ELSE /\ content' = [content EXCEPT ![names["tmp"]] = <<>>]
              /\ UNCHANGED names
    /\ fd' = [fd EXCEPT ![b] = names'["tmp"]]
    /\ pos' = [pos EXCEPT ![b] = 0]
    /\ UNCHANGED <<runs, art, reader>>

CreateFails(b) == /\ Step(b, "create", "failed")
                  /\ UNCHANGED <<disk, runs, fd, pos, art, reader>>

\* c with piece p at offset o; what lies between its end and o reads as zero.
Overlay(c, o, p) ==
    [k \in 1..(IF Len(c) > o THEN Len(c) ELSE o + 1) |->
        IF k = o + 1 THEN p ELSE IF k <= Len(c) THEN c[k] ELSE Hole]

\* Mutant: one piece more than the artifact has.
WriteTooMuch(b) ==
    /\ pc[b] = "write" /\ pos[b] <= Pieces
    /\ content' = [content EXCEPT ![fd[b]] = Overlay(@, pos[b], art[b])]
    /\ pos' = [pos EXCEPT ![b] = @ + 1]
    /\ UNCHANGED <<names, runs, pc, fd, art, reader>>

\* One Write of WriteTo, at the descriptor's own offset.
Write(b) ==
    /\ pc[b] = "write" /\ pos[b] < Pieces
    /\ content' = [content EXCEPT ![fd[b]] = Overlay(@, pos[b], art[b])]
    /\ pos' = [pos EXCEPT ![b] = @ + 1]
    /\ UNCHANGED <<names, runs, pc, fd, art, reader>>

\* Mutant: the error of WriteTo is not looked at.
WriteErrorIgnored(b) ==
    /\ pos[b] < Pieces
    /\ Step(b, "write", "rename")
    /\ \/ content' = [content EXCEPT ![fd[b]] = Overlay(@, pos[b], Torn)]
       \/ content' = content
    /\ UNCHANGED <<names, runs, fd, pos, art, reader>>

\* A write that fails may have put down part of its piece.
WriteFails(b) ==
    /\ pos[b] < Pieces
    /\ Step(b, "write", "cleanup")
    /\ \/ content' = [content EXCEPT ![fd[b]] = Overlay(@, pos[b], Torn)]
       \/ content' = content
    /\ UNCHANGED <<names, runs, fd, pos, art, reader>>

CloseTmp(b) == /\ pos[b] = Pieces
               /\ \/ Step(b, "write", "rename")
                  \/ Step(b, "write", "cleanup")
               /\ UNCHANGED <<disk, runs, fd, pos, art, reader>>

\* os.Rename replaces <out> in one step; it fails when <out>.tmp is gone.
Rename(b) == /\ names["tmp"] # 0
             /\ Step(b, "rename", "done")
             /\ names' = [names EXCEPT !["tmp"] = 0, !["out"] = names["tmp"]]
             /\ UNCHANGED <<content, runs, fd, pos, art, reader>>

\* Mutant: the error of the rename is not looked at.
RenameErrorIgnored(b) == /\ Step(b, "rename", "done")
                         /\ UNCHANGED <<disk, runs, fd, pos, art, reader>>

RenameFails(b) == /\ Step(b, "rename", "cleanup")
                  /\ UNCHANGED <<disk, runs, fd, pos, art, reader>>

\* Mutant: the cleanup removes <out>.
CleanupOut(b) == /\ Step(b, "cleanup", "failed")
                 /\ names' = [names EXCEPT !["out"] = 0]
                 /\ UNCHANGED <<content, runs, fd, pos, art, reader>>

\* os.Remove of <out>.tmp, whose own error is ignored.
Cleanup(b) == /\ Step(b, "cleanup", "failed")
              /\ \/ names' = [names EXCEPT !["tmp"] = 0]
                 \/ names' = names
              /\ UNCHANGED <<content, runs, fd, pos, art, reader>>

Crash(b) == /\ pc[b] \in {"create", "write", "rename", "cleanup"}
            /\ pc' = [pc EXCEPT ![b] = "crashed"]
            /\ UNCHANGED <<disk, runs, fd, pos, art, reader>>

BuilderStep(b) == \/ Create(b) \/ CreateFails(b) \/ Write(b) \/ WriteFails(b)
                  \/ CloseTmp(b) \/ Rename(b) \/ RenameFails(b) \/ Cleanup(b)

-----------------------------------------------------------------------------
(* The readers.                                                            *)

\* mapFile: the file is opened, measured and mapped as long as it is now; if one
\* of the three fails nothing is left open.  What is shorter than an artifact, or
\* empty and so not mapped at all, is refused, also if it grows later.
OpenOut(r) == /\ rpc[r] = "idle" /\ names["out"] # 0
              /\ rpc' = [rpc EXCEPT ![r] = IF Len(content[names["out"]]) >= Pieces
                                           THEN "opened" ELSE "short"]
              /\ rfd' = [rfd EXCEPT ![r] = names["out"]]
              /\ UNCHANGED <<disk, builder, seen>>

Accept(r) == /\ rpc[r] = "opened"
             /\ \E a \in 1..MaxRuns :
                   /\ Whole(content[rfd[r]], a)
                   /\ seen' = [seen EXCEPT ![r] = a]
             /\ rpc' = [rpc EXCEPT ![r] = "serving"]
             /\ UNCHANGED <<disk, builder, rfd>>

\* Mutant: who is refused verifies the same mapping again.
RefuseAndRetry(r) ==
    /\ \/ rpc[r] = "short"
       \/ rpc[r] = "opened" /\ ~WholeOfSome(content[rfd[r]])
    /\ rpc' = [rpc EXCEPT ![r] = "opened"]
    /\ UNCHANGED <<disk, builder, rfd, seen>>

Refuse(r) == /\ \/ rpc[r] = "short"
                \/ rpc[r] = "opened" /\ ~WholeOfSome(content[rfd[r]])
             /\ rpc' = [rpc EXCEPT ![r] = "refused"]
             /\ UNCHANGED <<disk, builder, rfd, seen>>

\* openBytes over the mapping: all of the file, or an error and no Map.
Verify(r) == Accept(r) \/ Refuse(r)

\* Map.Close, or giving up after a refusal.
CloseOut(r) == /\ rpc[r] \in {"serving", "refused"}
               /\ rpc' = [rpc EXCEPT ![r] = "idle"]
               /\ rfd' = [rfd EXCEPT ![r] = 0]
               /\ seen' = [seen EXCEPT ![r] = 0]
               /\ UNCHANGED <<disk, builder>>

ReaderStep(r) == OpenOut(r) \/ Verify(r) \/ CloseOut(r)

Next == \/ \E b \in Builders : Start(b) \/ BuilderStep(b) \/ Crash(b)
        \/ \E r \in Readers : ReaderStep(r)

Spec == Init /\ [][Next]_vars
FairSpec == Spec /\ \A b \in Builders : WF_vars(BuilderStep(b))
                 /\ \A r \in Readers : WF_vars(Verify(r) \/ CloseOut(r))

-----------------------------------------------------------------------------
(* Properties.                                                             *)

BuilderPhases == {"idle", "create", "write", "rename", "cleanup", "done",
                  "failed", "crashed"}
ReaderPhases  == {"idle", "opened", "short", "serving", "refused"}
Inodes        == 1..Len(content)

(* Names and descriptors stand for inodes that exist, no build writes past *)
(* its artifact or belongs to a run that was not started.                  *)
TypeOK ==
    /\ names \in [{"tmp", "out"} -> Inodes \cup {0}]
    /\ content \in Seq(Seq(Nat))
    /\ runs \in 0..MaxRuns
    /\ pc \in [Builders -> BuilderPhases]
    /\ fd \in [Builders -> Inodes \cup {0}]
    /\ pos \in [Builders -> 0..Pieces]
    /\ art \in [Builders -> 0..runs]
    /\ rpc \in [Readers -> ReaderPhases]
    /\ rfd \in [Readers -> Inodes \cup {0}]
    /\ seen \in [Readers -> 0..MaxRuns]

(* A name that exists implies a file that serves: whatever is under <out>, *)
(* after any number of crashed, failed and successful builds, is one whole *)
(* artifact of one run.                                                    *)
NameImpliesServes == names["out"] # 0 => WholeOfSome(content[names["out"]])

(* A build that reports success has published its own artifact.            *)
SuccessIsPublished ==
    \A b \in Builders :
       pc[b] = "done" => /\ names["out"] = fd[b]
                         /\ Whole(content[fd[b]], art[b])

(* The bytes under a mapping that answers lookups never change: not when a *)
(* later build truncates its temporary file, nor when it is renamed over   *)
(* the name the mapping was opened under.                                  *)
ServedNeverChanges ==
    [][\A r \in Readers :
          rpc[r] = "serving" => content'[rfd[r]] = content[rfd[r]]]_vars

Published == IF names["out"] = 0 THEN 0 ELSE content[names["out"]][1]
View(r) == IF rfd[r] = 0 THEN 0 ELSE content[rfd[r]][1]

AF == INSTANCE AtomicFile WITH Artifacts <- 1..MaxRuns, Nothing <- 0,
                               published <- Published,
                               view <- [r \in Readers |-> View(r)]

(* Through the two names, the temporary writes, the failures and the       *)
(* crashes, builders and readers implement the atomic file.                *)
ImplementsAtomicFile == AF!FSpec

Over == {"idle", "done", "failed", "crashed"}

(* Whatever overlapping, failing and crashing builds did to the two names  *)
(* and to one another's file, the system settles: every build comes to an  *)
(* end, and every reader gets its verdict, also on a file torn or cut      *)
(* under it, and does not stay with one that was superseded.               *)
Settles == <>[](/\ \A b \in Builders : pc[b] \in Over
                /\ \A r \in Readers : rfd[r] \in {0, names["out"]})
=============================================================================
