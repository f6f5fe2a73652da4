------------------------------ MODULE AddrMap ------------------------------
(***************************************************************************)
(* What the ipmap library promises, with no representation in sight: a     *)
(* dictionary from hosts to values that is written while it is open, where *)
(* the value put last for a host wins, and that never changes once it is   *)
(* sealed.  Builder.tla shows that Add, Build and Lookup implement it.     *)
(***************************************************************************)
EXTENDS Naturals

CONSTANTS Hosts,      \* the addresses after 4-in-6 unmapping: one per host
          Values,     \* the values of exactly ValLen bytes
          Miss,       \* the answer for a host nothing was put for
          Capacity    \* the number of puts one map takes (2^32 - 1 in the code)

VARIABLES dict,    \* dict[h] is the answer for h
          puts,    \* how many puts were taken, superseded ones included
          sealed   \* TRUE once the map answers lookups

avars == <<dict, puts, sealed>>

Absent(h) == dict[h] = Miss

AInit == /\ dict = [h \in Hosts |-> Miss]
         /\ puts = 0
         /\ sealed = FALSE

\* One more put, for a new host or one that has a value already: last wins.
Put(h, v) == /\ ~sealed
             /\ puts < Capacity
             /\ dict' = [dict EXCEPT ![h] = v]
             /\ puts' = puts + 1
             /\ UNCHANGED sealed

Seal == /\ ~sealed
        /\ sealed' = TRUE
        /\ UNCHANGED <<dict, puts>>

ANext == \/ \E h \in Hosts, v \in Values : Put(h, v)
         \/ Seal

ASpec == AInit /\ [][ANext]_avars
=============================================================================
