------------------------------- MODULE Reload -------------------------------
(***************************************************************************)
(* The zero-downtime reload (example/lookup/main.go): readers query        *)
(* through one atomic pointer while the main goroutine publishes a new     *)
(* artifact, opens it, swaps the pointer, waits until a reader answered    *)
(* from it, stops the readers, and only then closes the old Map.           *)
(*                                                                         *)
(* An opened Map is a memory mapping.  Lookup, and the slice it returns,   *)
(* read that memory: a read after Close is a fault.                        *)
(***************************************************************************)
EXTENDS Naturals, FiniteSets

CONSTANTS Readers,    \* the query goroutines
          SawCap      \* the capacity of the channel sawNew

ASSUME SawCapAssumption == SawCap \in Nat \ {0}

VARIABLES mpc,        \* where the main goroutine is
          cur,        \* the atomic pointer
          mapping,    \* Map -> "unopened", "open" or "closed"
          stop,       \* TRUE once the channel stop is closed
          sawNew,     \* how many tokens are in the channel sawNew
          rpc,        \* where each reader is
          held        \* the Map each reader loaded last

main == <<mpc, cur, mapping, stop>>
vars == <<main, sawNew, rpc, held>>

Maps == {"old", "new"}

\* The first artifact is open and stored before any reader starts.
Init == /\ mpc = "spawn"
        /\ cur = "old"
        /\ mapping = [x \in Maps |-> IF x = "old" THEN "open" ELSE "unopened"]
        /\ stop = FALSE
        /\ sawNew = 0
        /\ rpc = [r \in Readers |-> "unborn"]
        /\ held = [r \in Readers |-> "old"]

\* log.Fatal and the return of main end every goroutine.
Running == mpc \notin {"fatal", "exit"}

-----------------------------------------------------------------------------
(* A reader.                                                               *)

Step(r, from, to) == Running /\ rpc[r] = from /\ rpc' = [rpc EXCEPT ![r] = to]

\* Mutant: the select on stop has no default.
PollBlocks(r) == /\ stop
                 /\ Step(r, "poll", "exited")
                 /\ UNCHANGED <<main, sawNew, held>>

\* select on stop, with a default.
Poll(r) == /\ Step(r, "poll", IF stop THEN "exited" ELSE "load")
           /\ UNCHANGED <<main, sawNew, held>>

\* Mutant: a load that may still return the pointer of before the swap.
LoadStale(r) == /\ Step(r, "load", "lookup")
                /\ \E x \in {"old", cur} : held' = [held EXCEPT ![r] = x]
                /\ UNCHANGED <<main, sawNew>>

Load(r) == /\ Step(r, "load", "lookup")
           /\ held' = [held EXCEPT ![r] = cur]
           /\ UNCHANGED <<main, sawNew>>

\* Reading the memory of a Map, in Lookup and through the value it returned.
Touch(r, from, to) ==
    Step(r, from, IF mapping[held[r]] = "open" THEN to ELSE "faulted")

Query(r) == /\ Touch(r, "lookup", "inspect")
            /\ UNCHANGED <<main, sawNew, held>>

\* v[0] == 0xBB
Inspect(r) == /\ Touch(r, "inspect", IF held[r] = "new" THEN "send" ELSE "poll")
              /\ UNCHANGED <<main, sawNew, held>>

\* Mutant: a send that waits for room.
SendBlocks(r) == /\ Step(r, "send", "poll")
                 /\ sawNew < SawCap
                 /\ sawNew' = sawNew + 1
                 /\ UNCHANGED <<main, held>>

\* select on sending to sawNew, with a default: a full channel drops the token.
Send(r) == /\ Step(r, "send", "poll")
           /\ sawNew' = IF sawNew < SawCap THEN sawNew + 1 ELSE sawNew
           /\ UNCHANGED <<main, held>>

ReaderStep(r) == Poll(r) \/ Load(r) \/ Query(r) \/ Inspect(r) \/ Send(r)

-----------------------------------------------------------------------------
(* The main goroutine.                                                     *)

MStep(from, to) == mpc = from /\ mpc' = to

Spawn == /\ mpc = "spawn"
         /\ \E r \in Readers :
               /\ rpc[r] = "unborn"
               /\ rpc' = [rpc EXCEPT ![r] = "poll"]
               /\ mpc' = IF \E q \in Readers \ {r} : rpc[q] = "unborn"
                           THEN "spawn" ELSE "open"
         /\ UNCHANGED <<cur, mapping, stop, sawNew, held>>

\* Mutant: the pointer is swapped before the error is looked at.
SwapUnchecked == /\ \/ /\ MStep("open", "await") /\ cur' = "new"
                       /\ mapping' = [mapping EXCEPT !["new"] = "open"]
                    \/ MStep("open", "fatal") /\ cur' = "nil" /\ UNCHANGED mapping
                 /\ UNCHANGED <<stop, sawNew, rpc, held>>

\* Publish the second artifact and Open it; an error of either is fatal.
OpenNew == /\ \/ /\ MStep("open", "swap")
                 /\ mapping' = [mapping EXCEPT !["new"] = "open"]
              \/ MStep("open", "fatal") /\ UNCHANGED mapping
           /\ UNCHANGED <<cur, stop, sawNew, rpc, held>>

Swap == /\ MStep("swap", "await")
        /\ cur' = "new"
        /\ UNCHANGED <<mapping, stop, sawNew, rpc, held>>

Await == /\ MStep("await", "stop")
         /\ sawNew > 0
         /\ sawNew' = sawNew - 1
         /\ UNCHANGED <<cur, mapping, stop, rpc, held>>

Stop == /\ MStep("stop", "wait")
        /\ stop' = TRUE
        /\ UNCHANGED <<cur, mapping, sawNew, rpc, held>>

\* Mutant: the old Map is closed without waiting for its readers.
NoWait == /\ MStep("wait", "close")
          /\ UNCHANGED <<cur, mapping, stop, sawNew, rpc, held>>

\* wg.Wait
Wait == /\ MStep("wait", "close")
        /\ \A r \in Readers : rpc[r] = "exited"
        /\ UNCHANGED <<cur, mapping, stop, sawNew, rpc, held>>

CloseOld == /\ MStep("close", "last")
            /\ mapping' = [mapping EXCEPT !["old"] = "closed"]
            /\ UNCHANGED <<cur, stop, sawNew, rpc, held>>

\* One more lookup through the pointer, then the deferred Close of the new Map.
Last == /\ MStep("last", IF mapping[cur] = "open" THEN "exit" ELSE "fatal")
        /\ mapping' = [mapping EXCEPT !["new"] = "closed"]
        /\ UNCHANGED <<cur, stop, sawNew, rpc, held>>

MainStep == \/ Spawn \/ OpenNew \/ Swap \/ Await \/ Stop \/ Wait \/ CloseOld \/ Last

Next == MainStep \/ \E r \in Readers : ReaderStep(r)

Spec == Init /\ [][Next]_vars
FairSpec == Spec /\ WF_vars(MainStep) /\ \A r \in Readers : WF_vars(ReaderStep(r))

-----------------------------------------------------------------------------
(* Properties.                                                             *)

ReaderPhases == {"unborn", "poll", "load", "lookup", "inspect", "send",
                 "exited", "faulted"}
MainPhases   == {"spawn", "open", "swap", "await", "stop", "wait", "close",
                 "last", "exit", "fatal"}

(* Program counters, the mappings and the channel hold what they may, and  *)
(* the pointer is one of the two Maps, never the nil that a failed Open    *)
(* returns and that the readers would dereference.                         *)
TypeOK == /\ mpc \in MainPhases
          /\ cur \in Maps
          /\ mapping \in [Maps -> {"unopened", "open", "closed"}]
          /\ stop \in BOOLEAN
          /\ sawNew \in 0..SawCap
          /\ rpc \in [Readers -> ReaderPhases]
          /\ held \in [Readers -> Maps]

(* No reader touches a mapping that is not there: neither the new one      *)
(* before it is opened, nor the old one after Close, also through a value  *)
(* that a lookup returned before the swap.                                 *)
NoUseAfterClose == \A r \in Readers : rpc[r] # "faulted"

(* No reader ever locks or blocks: while the process runs, every reader    *)
(* that was started and has not left its loop has a step to take, with the *)
(* channel full as with the swap half done.                                *)
ReadersNeverBlock ==
    \A r \in Readers :
       Running /\ rpc[r] \notin {"unborn", "exited"} => ENABLED ReaderStep(r)

(* Once a reader has answered from the new Map it never answers from the   *)
(* old one again.                                                          *)
NoReaderGoesBack ==
    [][\A r \in Readers : held[r] = "new" => held'[r] = "new"]_vars

(* The cutover completes: unless opening the new artifact fails, the token *)
(* main waits for arrives, all readers drain, and both mappings are gone   *)
(* when main returns.                                                      *)
ReloadCompletes ==
    <>(mpc = "fatal" \/ (mpc = "exit" /\ \A x \in Maps : mapping[x] = "closed"))
=============================================================================
