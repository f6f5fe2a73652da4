---------------------------- MODULE BuildCommand ----------------------------
(***************************************************************************)
(* From a text spec to answers: the CLI's build (app/ipmap/main.go) feeds  *)
(* parseSpec to the Builder, compiles it and writes the artifact, and      *)
(* whoever opens that file looks addresses up in it.  Composes ParseSpec,  *)
(* Builder and Artifact; how the file gets its name is Publish.            *)
(*                                                                         *)
(* Values have one width in Artifact: a spec of another width is parsed    *)
(* here and goes no further.                                               *)
(***************************************************************************)
EXTENDS ParseSpec, Artifact

CommandInit == ParseInit /\ FileInit

Parse == harm = "none" /\ ParseNext /\ UNCHANGED avars

\* build: an error of parseSpec ends it, and a Builder is compiled.
Compile == /\ outcome.is = "ok" /\ valLen = ValLen
           /\ Build \/ BuildStep
           /\ UNCHANGED <<parser, avars>>

\* A file of another writer is opened instead, before anything is parsed.
Foreign == text = <<>> /\ src = "open" /\ Forge /\ UNCHANGED parser

CommandNext == Parse \/ Compile \/ (FileNext /\ UNCHANGED parser) \/ Foreign

Command == CommandInit /\ [][CommandNext]_<<pvars, avars>>

-----------------------------------------------------------------------------
(* Properties.                                                             *)

LinesNaming(a) == {k \in DOMAIN text : /\ EntryAt(k) /\ NamesHost(a)
                                       /\ Names(text[k].addr) = Names(a)}
Specified(a) == IF LinesNaming(a) = {} THEN Miss ELSE text[Max(LinesNaming(a))].val

(* What the spec says is what is served: the file of a build that wrote it *)
(* to its end is accepted, it has the statistics and the epoch of the Map  *)
(* that was compiled, and each lookup answers the last line of the text    *)
(* that names the address, in whichever spelling, or misses.               *)
SpecIsServed ==
    Read /\ harm = "none" /\ Whole =>
      /\ verdict = "ok"
      /\ opened.stats = stats /\ opened.epoch = Epoch /\ opened.valLen = ValLen
      /\ \A a \in Inputs : Lookup(opened.s4, opened.s6, a) = Specified(a)
=============================================================================
