---------------------------- MODULE ReloadProofs ----------------------------
(***************************************************************************)
(* The safety of the reload for any number of readers and any capacity of  *)
(* the channel: no reader touches a mapping that is not open, and none     *)
(* goes back to the old Map.                                               *)
(***************************************************************************)
EXTENDS Reload, TLAPS

Swapped == {"await", "stop", "wait", "close", "last", "exit", "fatal"}

(* Why a reader's mapping is open.  All readers are gone before the main   *)
(* goroutine is past wg.Wait; until it has closed it, the old mapping is   *)
(* open; the new one is open from before the swap to the end of main; and  *)
(* whoever holds the new Map found it behind the pointer.                  *)
Cutover ==
    /\ mpc \in {"close", "last", "exit"} => \A r \in Readers : rpc[r] = "exited"
    /\ mpc \notin {"last", "exit", "fatal"} => mapping["old"] = "open"
    /\ mpc \in {"swap", "await", "stop", "wait", "close", "last"} =>
          mapping["new"] = "open"
    /\ cur = "new" => mpc \in Swapped
    /\ \A r \in Readers : held[r] = "new" => cur = "new"

IInv == TypeOK /\ Cutover /\ NoUseAfterClose

(* main stores the open first Map before it starts a reader.               *)
LEMMA InitIInv == Init => IInv
<1> SUFFICES ASSUME Init PROVE IInv
  OBVIOUS
<1>1. /\ mapping \in [Maps -> {"unopened", "open", "closed"}]
      /\ mapping["old"] = "open"
  BY DEF Init, Maps
<1>2. rpc \in [Readers -> ReaderPhases] /\ held \in [Readers -> Maps]
  BY DEF Init, Maps, ReaderPhases
<1>3. sawNew \in 0..SawCap
  BY SawCapAssumption DEF Init
<1>4. TypeOK
  BY <1>1, <1>2, <1>3 DEF Init, TypeOK, Maps, MainPhases
<1>5. Cutover /\ NoUseAfterClose
  BY <1>1 DEF Init, Cutover, NoUseAfterClose
<1> QED BY <1>4, <1>5 DEF IInv

(* What a reader that is about to read holds is open.                      *)
LEMMA HeldIsOpen == ASSUME IInv, NEW r \in Readers, Running,
                           rpc[r] \in {"lookup", "inspect"}
                    PROVE  mapping[held[r]] = "open"
<1>1. mpc \notin {"close", "last", "exit", "fatal"}
  BY DEF IInv, Cutover, Running
<1>2. CASE held[r] = "old"
  BY <1>1, <1>2 DEF IInv, Cutover
<1>3. CASE held[r] = "new"
  BY <1>1, <1>3 DEF IInv, Cutover, Swapped
<1> QED BY <1>2, <1>3 DEF IInv, TypeOK, Maps

(* A turn of a reader's loop.                                              *)
LEMMA ReaderStepIInv == ASSUME IInv, NEW r \in Readers, ReaderStep(r)
                        PROVE  IInv'
<1> USE DEF IInv
<1>1. /\ Running /\ rpc[r] # "exited" /\ UNCHANGED main
      /\ mpc \notin {"close", "last", "exit", "fatal"}
  <2>1. Running /\ rpc[r] # "exited" /\ UNCHANGED main
    BY DEF ReaderStep, Poll, Load, Query, Inspect, Send, Touch, Step
  <2> QED BY <2>1 DEF Cutover, Running
<1>2. \E to \in ReaderPhases \ {"faulted"} : rpc' = [rpc EXCEPT ![r] = to]
  <2>1. CASE Poll(r)
    BY <2>1 DEF Poll, Step, ReaderPhases
  <2>2. CASE Load(r)
    BY <2>2 DEF Load, Step, ReaderPhases
  <2>3. CASE Query(r)
    <3>1. mapping[held[r]] = "open"
      BY <2>3, HeldIsOpen DEF Query, Touch, Step
    <3> QED BY <2>3, <3>1 DEF Query, Touch, Step, ReaderPhases
  <2>4. CASE Inspect(r)
    <3>1. mapping[held[r]] = "open"
      BY <2>4, HeldIsOpen DEF Inspect, Touch, Step
    <3> QED BY <2>4, <3>1 DEF Inspect, Touch, Step, ReaderPhases
  <2>5. CASE Send(r)
    BY <2>5 DEF Send, Step, ReaderPhases
  <2> QED BY <2>1, <2>2, <2>3, <2>4, <2>5 DEF ReaderStep
<1>3. held' = held \/ held' = [held EXCEPT ![r] = cur]
  BY DEF ReaderStep, Poll, Load, Query, Inspect, Send, Touch, Step
<1>4. sawNew' \in 0..SawCap
  BY SawCapAssumption
  DEF ReaderStep, Poll, Load, Query, Inspect, Send, Touch, Step, TypeOK
<1>5. TypeOK'
  BY <1>1, <1>2, <1>3, <1>4 DEF TypeOK, main
<1>6. Cutover'
  BY <1>1, <1>3 DEF Cutover, TypeOK, main
<1>7. NoUseAfterClose'
  BY <1>2 DEF NoUseAfterClose, TypeOK
<1> QED BY <1>5, <1>6, <1>7

(* A step of the main goroutine.                                           *)
LEMMA MainStepIInv == ASSUME IInv, MainStep PROVE IInv'
<1> USE DEF IInv, TypeOK, Cutover, NoUseAfterClose, MStep, MainPhases, Maps, Swapped
<1>1. CASE Spawn
  BY <1>1 DEF Spawn, ReaderPhases
<1>2. CASE OpenNew
  BY <1>2 DEF OpenNew
<1>3. CASE Swap
  BY <1>3 DEF Swap
<1>4. CASE Await
  <2>1. sawNew' \in 0..SawCap
    BY <1>4, SawCapAssumption DEF Await
  <2> QED BY <1>4, <2>1 DEF Await
<1>5. CASE Stop
  BY <1>5 DEF Stop
<1>6. CASE Wait
  BY <1>6 DEF Wait
<1>7. CASE CloseOld
  BY <1>7 DEF CloseOld
<1>8. CASE Last
  BY <1>8 DEF Last
<1> QED
  BY <1>1, <1>2, <1>3, <1>4, <1>5, <1>6, <1>7, <1>8 DEF MainStep

(* Every step keeps the invariant.                                         *)
LEMMA NextIInv == IInv /\ [Next]_vars => IInv'
<1> SUFFICES ASSUME IInv, [Next]_vars PROVE IInv'
  OBVIOUS
<1>1. CASE MainStep
  BY <1>1, MainStepIInv
<1>2. ASSUME NEW r \in Readers, ReaderStep(r) PROVE IInv'
  BY <1>2, ReaderStepIInv
<1>3. CASE UNCHANGED vars
  BY <1>3 DEF vars, main, IInv, TypeOK, Cutover, NoUseAfterClose
<1> QED BY <1>1, <1>2, <1>3 DEF Next

(* The invariant holds throughout.                                         *)
THEOREM InvariantHolds == Spec => []IInv
  BY InitIInv, NextIInv, PTL DEF Spec

(* No reader touches an unmapped Map, however many readers there are and   *)
(* wherever they are when the pointer is swapped (example/lookup/main.go). *)
THEOREM ReadersAreSafe == Spec => []NoUseAfterClose
<1>1. IInv => NoUseAfterClose
  BY DEF IInv
<1> QED BY <1>1, InvariantHolds, PTL

(* A reader that has loaded the new Map never answers from the old one     *)
(* again (example/lookup/main.go).                                         *)
THEOREM CutoverIsMonotone == Spec => NoReaderGoesBack
<1>1. IInv /\ [Next]_vars =>
        [\A r \in Readers : held[r] = "new" => held'[r] = "new"]_vars
  <2> SUFFICES ASSUME IInv, Next, NEW r \in Readers, held[r] = "new"
               PROVE  held'[r] = "new"
    OBVIOUS
  <2>1. CASE MainStep
    BY <2>1 DEF MainStep, Spawn, OpenNew, Swap, Await, Stop, Wait, CloseOld, Last
  <2>2. ASSUME NEW q \in Readers, ReaderStep(q) PROVE held'[r] = "new"
    <3>1. held' = held \/ held' = [held EXCEPT ![q] = cur]
      BY <2>2 DEF ReaderStep, Poll, Load, Query, Inspect, Send, Touch, Step
    <3> QED BY <3>1 DEF IInv, TypeOK, Cutover
  <2> QED BY <2>1, <2>2 DEF Next
<1> QED BY <1>1, InvariantHolds, PTL DEF Spec, NoReaderGoesBack

(* main, the two Maps and the readers are well typed, for any number of    *)
(* readers (example/lookup/main.go).                                       *)
THEOREM TypeCorrect == Spec => []TypeOK
<1>1. IInv => TypeOK
  BY DEF IInv
<1> QED BY <1>1, InvariantHolds, PTL
=============================================================================
