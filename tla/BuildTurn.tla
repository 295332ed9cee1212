------------------------------ MODULE BuildTurn ------------------------------
(***************************************************************************)
(* What the build queue promises, without its queues: one turn, which at   *)
(* most one build has; a build that asks for it waits until it has it or   *)
(* gives up; and no build that keeps waiting is passed over for ever.      *)
(***************************************************************************)
CONSTANTS
    Builds,  \* builds that ask for the turn, again and again
    NoBuild  \* stands for "the turn is free"

VARIABLES
    holder,  \* the build that has the turn
    waiting  \* the builds waiting for it

vars == <<holder, waiting>>

Init == holder = NoBuild /\ waiting = {}

\* A build finds the turn free.
Take(b) ==
    /\ holder = NoBuild
    /\ b \notin waiting
    /\ holder' = b
    /\ UNCHANGED waiting

Wait(b) ==
    /\ b \notin waiting
    /\ b # holder
    /\ waiting' = waiting \cup {b}
    /\ UNCHANGED holder

GiveUp(b) ==
    /\ b \in waiting
    /\ waiting' = waiting \ {b}
    /\ UNCHANGED holder

Grant(b) ==
    /\ holder = NoBuild
    /\ b \in waiting
    /\ holder' = b
    /\ waiting' = waiting \ {b}

Release ==
    /\ holder # NoBuild
    /\ holder' = NoBuild
    /\ UNCHANGED waiting

Next ==
    \/ \E b \in Builds : Take(b) \/ Wait(b) \/ GiveUp(b) \/ Grant(b)
    \/ Release

Spec == Init /\ [][Next]_vars

\* A turn ends, and a build that does not give up is served in the end.
FairSpec ==
    /\ Spec
    /\ WF_vars(Release)
    /\ \A b \in Builds : WF_vars(Grant(b) \/ GiveUp(b))
==============================================================================
