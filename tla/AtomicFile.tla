----------------------------- MODULE AtomicFile -----------------------------
(***************************************************************************)
(* What publishing an artifact promises to the processes that open it: the *)
(* name changes from one complete artifact to the next in a single step,   *)
(* an open finds the artifact of that moment, and keeps answering from it  *)
(* whatever is published later.                                            *)
(***************************************************************************)
CONSTANTS Artifacts, Readers, Nothing   \* Nothing is no artifact

VARIABLES published,   \* the artifact under the name, or Nothing
          view         \* view[r] is the artifact reader r answers from

fvars == <<published, view>>

FInit == /\ published = Nothing
         /\ view = [r \in Readers |-> Nothing]

Publish(a) == published' = a /\ UNCHANGED view

OpenFile(r) == /\ view[r] = Nothing /\ published # Nothing
               /\ view' = [view EXCEPT ![r] = published]
               /\ UNCHANGED published

CloseFile(r) == /\ view[r] # Nothing
                /\ view' = [view EXCEPT ![r] = Nothing]
                /\ UNCHANGED published

FNext == \/ \E a \in Artifacts : Publish(a)
         \/ \E r \in Readers : OpenFile(r) \/ CloseFile(r)

FSpec == FInit /\ [][FNext]_fvars
=============================================================================
