-------------------------- MODULE WriterAuthority --------------------------
(***************************************************************************)
(* What writer fencing promises of one workspace: writers hold it one at a *)
(* time, each under a generation no earlier writer had, and a durable      *)
(* write is always the current holder's.                                   *)
(***************************************************************************)
EXTENDS Naturals

VARIABLES
    generation,  \* the newest generation ever allocated
    held,        \* a writer holds that generation
    lastWriter   \* the generation of the last durable write

authorityVars == <<generation, held, lastWriter>>

Grant == ~held /\ held' = TRUE /\ generation' = generation + 1 /\ UNCHANGED lastWriter

\* An acquisition that fails after its generation was stored.
Burn == ~held /\ generation' = generation + 1 /\ UNCHANGED <<held, lastWriter>>

Write == held /\ lastWriter' = generation /\ UNCHANGED <<generation, held>>

Release == held /\ held' = FALSE /\ UNCHANGED <<generation, lastWriter>>

Init == generation \in Nat /\ held \in BOOLEAN /\ lastWriter = 0

Next == Grant \/ Burn \/ Write \/ Release

Spec == Init /\ [][Next]_authorityVars
=============================================================================
