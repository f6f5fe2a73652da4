----------------------------- MODULE CloseOnce -----------------------------
(***************************************************************************)
(* The life of one mapping: Open maps the file, hands it to openBytes, and *)
(* gives the Map the closer, or calls the closer itself when the bytes are *)
(* refused (format.go).  After that any number of goroutines may call      *)
(* Close, each any number of times, and the sync.Once decides who unmaps.  *)
(* A Map from Build has no mapping and no closer.                          *)
(***************************************************************************)
EXTENDS Naturals

CONSTANTS Callers, MaxCalls   \* bound: how often each goroutine calls Close

ASSUME MaxCallsAssumption == MaxCalls \in Nat

VARIABLES opc,       \* where Open is; "ready" when there is a Map
          closer,    \* TRUE when m.close is set
          mapped,    \* TRUE while the memory mapping exists
          unmaps,    \* history: how many times munmap was called
          leaked,    \* history: munmap returned an error, which nobody reads
          once,      \* the sync.Once: "fresh", "running" or "done"
          pc, calls  \* per goroutine: where its Close is, calls made

vars == <<opc, closer, mapped, unmaps, leaked, once, pc, calls>>

\* Open is called, or the Map is one from Build and there already.
Init == /\ opc \in {"map", "ready"} /\ closer = FALSE
        /\ mapped = FALSE /\ unmaps = 0 /\ leaked = FALSE
        /\ once = "fresh"
        /\ pc = [c \in Callers |-> "out"]
        /\ calls = [c \in Callers |-> 0]

-----------------------------------------------------------------------------
(* Open.                                                                   *)

\* Mutant: the closer is set before the bytes are verified.
MapFileSetsCloser ==
    /\ opc = "map"
    /\ \/ opc' = "failed" /\ mapped' = mapped
       \/ opc' = "verify" /\ mapped' \in BOOLEAN
    /\ closer' = mapped'
    /\ UNCHANGED <<unmaps, leaked, once, pc, calls>>

\* mapFile: an error, or a mapping, which an empty file has none of.
MapFile == /\ opc = "map"
           /\ \/ opc' = "failed" /\ mapped' = mapped
              \/ opc' = "verify" /\ mapped' \in BOOLEAN
           /\ UNCHANGED <<closer, unmaps, leaked, once, pc, calls>>

\* The closer: munmap, whose error is dropped by both of its callers.
Munmap == /\ unmaps' = unmaps + 1
          /\ \/ mapped' = FALSE /\ UNCHANGED leaked
             \/ mapped' = mapped /\ leaked' = TRUE

\* openBytes refuses the bytes: Open unmaps them and returns no Map.
Refuse == /\ opc = "verify"
          /\ opc' = "failed"
          /\ IF mapped THEN Munmap ELSE UNCHANGED <<mapped, unmaps, leaked>>
          /\ UNCHANGED <<closer, once, pc, calls>>

\* openBytes panics (OpenCheck shows how): nothing is deferred that would unmap.
VerifyPanics == /\ opc = "verify" /\ mapped
                /\ opc' = "panicked"
                /\ UNCHANGED <<closer, mapped, unmaps, leaked, once, pc, calls>>

Accept == /\ opc = "verify" /\ mapped
          /\ opc' = "ready"
          /\ closer' = TRUE
          /\ UNCHANGED <<mapped, unmaps, leaked, once, pc, calls>>

-----------------------------------------------------------------------------
(* Close, in the goroutine c.                                              *)

Enter(c) == /\ opc = "ready" /\ pc[c] = "out" /\ calls[c] < MaxCalls
            /\ calls' = [calls EXCEPT ![c] = @ + 1]
            /\ pc' = [pc EXCEPT ![c] = "do"]
            /\ UNCHANGED <<opc, closer, mapped, unmaps, leaked, once>>

\* Mutants: a flag that is read and set later; a compare-and-swap, where the
\* loser does not wait.
DoCheckThenAct(c) ==
    /\ pc[c] = "do"
    /\ pc' = [pc EXCEPT ![c] = IF once = "done" THEN "return"
                               ELSE IF closer THEN "unmap" ELSE "finish"]
    /\ UNCHANGED <<opc, closer, mapped, unmaps, leaked, once, calls>>
DoNoWaiting(c) ==
    /\ pc[c] = "do"
    /\ IF once = "fresh"
         THEN /\ once' = "running"
              /\ pc' = [pc EXCEPT ![c] = IF closer THEN "unmap" ELSE "finish"]
         ELSE pc' = [pc EXCEPT ![c] = "return"] /\ UNCHANGED once
    /\ UNCHANGED <<opc, closer, mapped, unmaps, leaked, calls>>

\* Once.Do: the first caller runs the function, a later one waits for it.
Do(c) == /\ pc[c] = "do"
         /\ \/ /\ once = "fresh"
               /\ once' = "running"
               /\ pc' = [pc EXCEPT ![c] = IF closer THEN "unmap" ELSE "finish"]
            \/ /\ once = "done"
               /\ pc' = [pc EXCEPT ![c] = "return"]
               /\ UNCHANGED once
         /\ UNCHANGED <<opc, closer, mapped, unmaps, leaked, calls>>

\* m.close()
Unmap(c) == /\ pc[c] = "unmap"
            /\ Munmap
            /\ pc' = [pc EXCEPT ![c] = "finish"]
            /\ UNCHANGED <<opc, closer, once, calls>>

\* Mutant: the Once is never marked done.
FinishForgotten(c) == /\ pc[c] = "finish"
                      /\ pc' = [pc EXCEPT ![c] = "return"]
                      /\ UNCHANGED <<opc, closer, mapped, unmaps, leaked, once, calls>>

Finish(c) == /\ pc[c] = "finish"
             /\ once' = "done"
             /\ pc' = [pc EXCEPT ![c] = "return"]
             /\ UNCHANGED <<opc, closer, mapped, unmaps, leaked, calls>>

Return(c) == /\ pc[c] = "return"
             /\ pc' = [pc EXCEPT ![c] = "out"]
             /\ UNCHANGED <<opc, closer, mapped, unmaps, leaked, once, calls>>

CloseStep(c) == Do(c) \/ Unmap(c) \/ Finish(c) \/ Return(c)

OpenStep == MapFile \/ Refuse \/ VerifyPanics \/ Accept

Next == OpenStep \/ \E c \in Callers : Enter(c) \/ CloseStep(c)

Spec == Init /\ [][Next]_vars
FairSpec == Spec /\ WF_vars(OpenStep) /\ \A c \in Callers : WF_vars(CloseStep(c))

-----------------------------------------------------------------------------
(* Properties.                                                             *)

(* Program counters, flags and counts are in range, and nobody has a Map,  *)
(* or a closer to call, before Open has accepted the bytes.                *)
TypeOK == /\ opc \in {"map", "verify", "ready", "failed", "panicked"}
          /\ closer \in BOOLEAN /\ mapped \in BOOLEAN
          /\ closer \/ once # "fresh" => opc = "ready"
          /\ unmaps \in Nat /\ leaked \in BOOLEAN
          /\ once \in {"fresh", "running", "done"}
          /\ pc \in [Callers -> {"out", "do", "unmap", "finish", "return"}]
          /\ calls \in [Callers -> 0..MaxCalls]

(* Racing and repeated Closes release the mapping exactly once: munmap is  *)
(* never called a second time, on memory that may be something else's.     *)
UnmapsAtMostOnce == unmaps <= 1

(* Whoever returns from Close, also the goroutine that lost the race, may  *)
(* rely on munmap being over and the mapping gone, and a refused artifact  *)
(* leaves none; only an error of munmap itself passes unseen.              *)
ReturnMeansUnmapped ==
    /\ \A c \in Callers : pc[c] = "return" => ~mapped \/ leaked
    /\ opc = "failed" => ~mapped \/ leaked

(* No Close waits for ever for the one that runs the closer.               *)
EveryCloseReturns == \A c \in Callers : pc[c] = "do" ~> pc[c] = "out"
=============================================================================
