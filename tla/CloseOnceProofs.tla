--------------------------- MODULE CloseOnceProofs ---------------------------
(***************************************************************************)
(* The mapping is released exactly once, for any number of goroutines and  *)
(* of calls of Close.                                                      *)
(***************************************************************************)
EXTENDS CloseOnce, TLAPS

Inside(c) == pc[c] \in {"unmap", "finish"}

(* Before there is a Map nobody closes it; a Map with a closer is mapped   *)
(* until that one unmap.                                                   *)
Mapping ==
    /\ opc \in {"map", "verify", "failed", "panicked"} =>
          once = "fresh" /\ ~closer /\ \A c \in Callers : pc[c] = "out"
    /\ opc = "map" => ~mapped /\ unmaps = 0
    /\ opc \in {"verify", "panicked"} => unmaps = 0
    /\ opc = "failed" => (~mapped \/ leaked) /\ unmaps <= 1
    /\ opc = "ready" => unmaps <= 1 /\ (mapped <=> closer /\ (unmaps = 0 \/ leaked))
    /\ leaked => unmaps = 1
    /\ opc = "ready" /\ once = "fresh" => unmaps = 0

(* The Once admits one goroutine, ever: it is running while that one is    *)
(* inside, and done only when the mapping is gone.                         *)
Exclusion ==
    /\ \A c \in Callers : Inside(c) => once = "running"
    /\ \A c, d \in Callers : Inside(c) /\ Inside(d) => c = d
    /\ \A c \in Callers : pc[c] = "unmap" => mapped /\ unmaps = 0
    /\ \A c \in Callers : pc[c] = "finish" => ~mapped \/ leaked
    /\ once = "done" => ~mapped \/ leaked
    /\ \A c \in Callers : pc[c] = "return" => once = "done"

IInv == TypeOK /\ Mapping /\ Exclusion

(* Nobody is in Close before Open has returned.                            *)
LEMMA InitIInv == Init => IInv
<1> SUFFICES ASSUME Init PROVE IInv
  OBVIOUS
<1>1. calls \in [Callers -> 0..MaxCalls] /\ unmaps \in Nat
  BY MaxCallsAssumption DEF Init
<1>2. pc \in [Callers -> {"out", "do", "unmap", "finish", "return"}]
  BY DEF Init
<1>3. TypeOK
  BY <1>1, <1>2 DEF Init, TypeOK
<1>4. Mapping
  BY DEF Init, Mapping
<1>5. Exclusion
  BY DEF Init, Exclusion, Inside
<1> QED BY <1>3, <1>4, <1>5 DEF IInv

(* Open maps, and keeps or releases the mapping.                           *)
LEMMA OpenStepIInv == ASSUME IInv, OpenStep PROVE IInv'
<1> USE DEF IInv
<1>1. /\ unmaps' \in Nat /\ UNCHANGED <<once, pc, calls>>
      /\ opc' \in {"verify", "ready", "failed", "panicked"} /\ mapped' \in BOOLEAN
      /\ closer' \in BOOLEAN /\ leaked' \in BOOLEAN
  <2>1. CASE MapFile
    BY <2>1 DEF MapFile, TypeOK
  <2>2. CASE Refuse
    <3>1. /\ unmaps' = unmaps \/ unmaps' = unmaps + 1
          /\ leaked' = leaked \/ leaked' = TRUE
          /\ mapped' = mapped \/ mapped' = FALSE
      BY <2>2 DEF Refuse, Munmap
    <3>2. /\ unmaps' \in Nat
          /\ leaked' \in BOOLEAN /\ mapped' \in BOOLEAN
      <4>1. unmaps' \in Nat
        BY <3>1, SMT DEF TypeOK
      <4>2. leaked' \in BOOLEAN /\ mapped' \in BOOLEAN
        BY <3>1, Zenon DEF TypeOK
      <4> QED BY <4>1, <4>2
    <3>3. /\ opc' = "failed"
          /\ closer' = closer /\ UNCHANGED <<once, pc, calls>>
      BY <2>2 DEF Refuse
    <3>4. closer \in BOOLEAN
      BY DEF TypeOK
    <3> QED BY <3>2, <3>3, <3>4
  <2>3. CASE Accept
    BY <2>3 DEF Accept, TypeOK
  <2>4. CASE VerifyPanics
    BY <2>4 DEF VerifyPanics, TypeOK
  <2> QED BY <2>1, <2>2, <2>3, <2>4 DEF OpenStep
<1>2. /\ opc \in {"map", "verify"} /\ once = "fresh" /\ ~closer
      /\ \A c \in Callers : pc[c] = "out"
  BY DEF OpenStep, MapFile, Refuse, VerifyPanics, Accept, Mapping
<1>3. TypeOK' /\ Exclusion'
  <2>1. closer' => opc' = "ready"
    BY <1>2 DEF OpenStep, MapFile, Refuse, VerifyPanics, Accept
  <2> QED BY <1>1, <1>2, <2>1 DEF TypeOK, Exclusion, Inside
<1>4. Mapping'
  <2>1. CASE MapFile
    BY <1>1, <1>2, <2>1 DEF MapFile, Mapping
  <2>2. CASE Refuse
    <3>1. unmaps = 0 /\ ~leaked
      BY <2>2 DEF Refuse, Mapping
    <3>2. /\ opc' = "failed" /\ closer' = closer
          /\ \/ ~mapped' /\ unmaps' \in {0, 1} /\ ~leaked'
             \/ leaked' /\ unmaps' = 1
      BY <2>2, <3>1 DEF Refuse, Munmap, TypeOK
    <3> QED BY <1>1, <1>2, <3>1, <3>2, <2>2 DEF Refuse, Munmap, Mapping
  <2>3. CASE Accept
    BY <1>1, <1>2, <2>3 DEF Accept, Mapping
  <2>4. CASE VerifyPanics
    BY <1>1, <1>2, <2>4 DEF VerifyPanics, Mapping
  <2> QED BY <2>1, <2>2, <2>3, <2>4 DEF OpenStep
<1> QED BY <1>3, <1>4

(* A goroutine is in Close only when there is a Map.                       *)
LEMMA CloseMeansReady ==
    ASSUME IInv, NEW c \in Callers, pc[c] # "out" PROVE opc = "ready"
  BY DEF IInv, Mapping, TypeOK

(* A goroutine enters Close.                                               *)
LEMMA EnterIInv == ASSUME IInv, NEW c \in Callers, Enter(c) PROVE IInv'
<1> USE DEF IInv
<1>1. /\ opc = "ready" /\ pc' = [pc EXCEPT ![c] = "do"]
      /\ UNCHANGED <<opc, closer, mapped, unmaps, leaked, once>>
  BY DEF Enter
<1>2. calls' \in [Callers -> 0..MaxCalls]
  BY MaxCallsAssumption DEF Enter, TypeOK
<1>3. TypeOK'
  BY <1>1, <1>2 DEF TypeOK
<1>4. Mapping'
  BY <1>1 DEF Mapping
<1>5. Exclusion'
  BY <1>1 DEF Exclusion, Inside, TypeOK
<1> QED BY <1>3, <1>4, <1>5

(* A goroutine goes on in Close.                                           *)
LEMMA CloseStepIInv == ASSUME IInv, NEW c \in Callers, CloseStep(c) PROVE IInv'
<1> USE DEF IInv
<1>1. opc = "ready" /\ UNCHANGED <<opc, closer, calls>>
  BY CloseMeansReady DEF CloseStep, Do, Unmap, Finish, Return
<1>2. CASE Do(c)
  <2>1. TypeOK'
    BY <1>1, <1>2 DEF Do, TypeOK
  <2>2. Mapping'
    BY <1>1, <1>2 DEF Do, Mapping
  <2>3. Exclusion'
    <3>1. CASE once = "fresh"
      <4>1. \A d \in Callers : pc[d] \in {"out", "do"}
        BY <3>1 DEF Exclusion, Inside, TypeOK
      <4>2. /\ once' = "running" /\ UNCHANGED <<mapped, unmaps, leaked>>
            /\ pc' = [pc EXCEPT ![c] = IF closer THEN "unmap" ELSE "finish"]
        BY <1>2, <3>1 DEF Do
      <4>3. unmaps = 0 /\ (mapped <=> closer)
        <5>1. unmaps = 0 /\ (mapped <=> closer /\ (unmaps = 0 \/ leaked))
          BY <1>1, <3>1 DEF Mapping
        <5> QED BY <5>1
      <4> QED BY <4>1, <4>2, <4>3 DEF Exclusion, Inside, TypeOK
    <3>2. CASE once = "done"
      BY <1>2, <3>2 DEF Do, Exclusion, Inside, TypeOK
    <3> QED BY <1>2, <3>1, <3>2 DEF Do
  <2> QED BY <2>1, <2>2, <2>3
<1>3. CASE Unmap(c)
  <2>1. /\ pc[c] = "unmap" /\ unmaps' = unmaps + 1
        /\ \/ mapped' = FALSE /\ leaked' = leaked
           \/ mapped' = mapped /\ leaked' = TRUE
        /\ pc' = [pc EXCEPT ![c] = "finish"] /\ once' = once
    BY <1>3 DEF Unmap, Munmap
  <2>2. mapped /\ once = "running" /\ closer /\ unmaps = 0
    BY <1>1, <2>1 DEF Exclusion, Inside, Mapping
  <2>3. TypeOK'
    <3>1. unmaps' \in Nat
      BY <2>1 DEF TypeOK
    <3>2. pc' \in [Callers -> {"out", "do", "unmap", "finish", "return"}]
      BY <2>1 DEF TypeOK
    <3>3. mapped' \in BOOLEAN /\ leaked' \in BOOLEAN
      BY <2>1 DEF TypeOK
    <3> QED BY <1>1, <2>1, <3>1, <3>2, <3>3 DEF TypeOK
  <2>4. Mapping'
    <3>1. unmaps' = 1
      BY <2>1, <2>2
    <3>2. closer' /\ opc' = "ready" /\ once' = "running"
      BY <1>1, <2>1, <2>2
    <3>3. mapped' <=> leaked'
      <4>1. ~leaked
        BY <2>2 DEF Mapping
      <4>2. CASE mapped' = FALSE /\ leaked' = leaked
        BY <4>1, <4>2, Zenon
      <4>3. CASE mapped' = mapped /\ leaked' = TRUE
        <5>1. mapped
          BY <2>2
        <5> QED BY <5>1, <4>3, Zenon
      <4> QED BY <2>1, <4>2, <4>3, Zenon
    <3> QED BY <3>1, <3>2, <3>3 DEF Mapping
  <2>5. Exclusion'
    BY <2>1, <2>2 DEF Exclusion, Inside, TypeOK
  <2> QED BY <2>3, <2>4, <2>5
<1>4. CASE Finish(c)
  BY <1>1, <1>4 DEF Finish, TypeOK, Mapping, Exclusion, Inside
<1>5. CASE Return(c)
  BY <1>1, <1>5 DEF Return, TypeOK, Mapping, Exclusion, Inside
<1> QED BY <1>2, <1>3, <1>4, <1>5 DEF CloseStep

(* Every step keeps the invariant.                                         *)
LEMMA NextIInv == IInv /\ [Next]_vars => IInv'
<1> SUFFICES ASSUME IInv, [Next]_vars PROVE IInv'
  OBVIOUS
<1>1. CASE UNCHANGED vars
  BY <1>1 DEF vars, IInv, TypeOK, Mapping, Exclusion, Inside
<1> QED BY <1>1, OpenStepIInv, EnterIInv, CloseStepIInv DEF Next

(* The invariant holds throughout.                                         *)
THEOREM InvariantHolds == Spec => []IInv
  BY InitIInv, NextIInv, PTL DEF Spec

(* munmap is called at most once for a mapping, however many goroutines    *)
(* close the Map and however often (format.go).                            *)
THEOREM UnmapsOnce == Spec => []UnmapsAtMostOnce
<1>1. IInv => UnmapsAtMostOnce
  BY DEF IInv, TypeOK, Mapping, UnmapsAtMostOnce
<1> QED BY <1>1, InvariantHolds, PTL

(* When Close returns to anyone the mapping is gone, and a refused file    *)
(* leaves none behind (format.go).                                         *)
THEOREM CloseReleases == Spec => []ReturnMeansUnmapped
<1>1. IInv => ReturnMeansUnmapped
  BY DEF IInv, Mapping, Exclusion, ReturnMeansUnmapped
<1> QED BY <1>1, InvariantHolds, PTL

(* The mapping, the once and every caller of Close are well typed, for any *)
(* number of goroutines and calls (format.go).                             *)
THEOREM TypeCorrect == Spec => []TypeOK
<1>1. IInv => TypeOK
  BY DEF IInv
<1> QED BY <1>1, InvariantHolds, PTL
=============================================================================
