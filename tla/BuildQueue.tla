----------------------------- MODULE BuildQueue -----------------------------
(***************************************************************************)
(* The build queue (apps/piqueld/src/docker/build_queue.rs): one image     *)
(* build at a time, environments before previews.                          *)
(*                                                                         *)
(* The state behind the mutex is `running', the two queues and             *)
(* `overtaken'.  A waiting build is woken through a oneshot channel whose  *)
(* sender is in a queue.  The channel is not guarded by the mutex: a build *)
(* is cancelled, and closes its receiver, also while another build is in   *)
(* the middle of `pass', between choosing it and sending to it.  So `pass' *)
(* is two steps here, taken by the build that holds the mutex, `turn' is   *)
(* one, and closing a receiver needs no mutex.                             *)
(*                                                                         *)
(* Builds are tokens that ask for a turn again and again; a token is used  *)
(* again only once the sender of its last wait has been dropped.           *)
(***************************************************************************)
EXTENDS Naturals, Sequences, FiniteSets

CONSTANTS
    Environments,      \* builds of environments
    Previews,          \* builds of previews
    EnvironmentBurst,  \* ENVIRONMENT_BURST
    NoBuild

Builds == Environments \cup Previews

ASSUME QueuesAssumption == Environments \cap Previews = {} /\ NoBuild \notin Builds
ASSUME PreviewsAssumption == IsFiniteSet(Previews)
ASSUME BurstAssumption == EnvironmentBurst \in Nat \ {0}

VARIABLES
    running,       \* Waiting.running: a build has the turn
    environments,  \* Waiting.environments
    previews,      \* Waiting.previews
    overtaken,     \* Waiting.overtaken
    channel,       \* the oneshot channel of each build
    stage,         \* where each build is
    passer,        \* the build inside `pass', which holds the mutex
    picked,        \* the build `pass' is about to wake
    ahead,         \* history: preview builds queued before this one when it came
    passedBy       \* history: environment builds that got the turn before it since

vars == <<running, environments, previews, overtaken, channel, stage,
          passer, picked, ahead, passedBy>>
queues == <<environments, previews, overtaken>>
history == <<ahead, passedBy>>

\* A channel that carries the turn was "sent"; "closed" is a dropped receiver
\* whose sender is still in a queue.
Channels == {"none", "open", "sent", "closed"}

\* "leaving" is a dropped wait, between `close' and `try_recv'.
Stages == {"idle", "waiting", "running", "leaving", "passing"}

BTypeOK ==
    /\ running \in BOOLEAN
    /\ environments \in Seq(Environments)
    /\ previews \in Seq(Previews)
    /\ overtaken \in 0 .. EnvironmentBurst
    /\ channel \in [Builds -> Channels]
    /\ stage \in [Builds -> Stages]
    /\ passer \in Builds \cup {NoBuild}
    /\ picked \in Builds \cup {NoBuild}
    /\ ahead \in [Previews -> 0 .. Cardinality(Previews)]
    /\ passedBy \in [Previews -> Nat]

Init ==
    /\ running = FALSE
    /\ environments = <<>>
    /\ previews = <<>>
    /\ overtaken = 0
    /\ channel = [b \in Builds |-> "none"]
    /\ stage = [b \in Builds |-> "idle"]
    /\ passer = NoBuild
    /\ picked = NoBuild
    /\ ahead = [b \in Previews |-> 0]
    /\ passedBy = [b \in Previews |-> 0]

-----------------------------------------------------------------------------
(***************************************************************************)
(* turn                                                                    *)
(***************************************************************************)
MutexFree == passer = NoBuild

TakeTurn(b) ==
    /\ MutexFree
    /\ stage[b] = "idle" /\ channel[b] = "none"
    /\ ~running
    /\ running' = TRUE
    /\ stage' = [stage EXCEPT ![b] = "running"]
    /\ UNCHANGED <<queues, channel, passer, picked, history>>

WaitForTurn(b) ==
    /\ MutexFree
    /\ stage[b] = "idle" /\ channel[b] = "none"
    /\ running
    /\ channel' = [channel EXCEPT ![b] = "open"]
    /\ stage' = [stage EXCEPT ![b] = "waiting"]
    /\ IF b \in Environments
       THEN /\ environments' = Append(environments, b)
            /\ UNCHANGED <<previews, history>>
       ELSE /\ previews' = Append(previews, b)
            /\ ahead' = [ahead EXCEPT ![b] = Len(previews)]
            /\ passedBy' = [passedBy EXCEPT ![b] = 0]
            /\ UNCHANGED environments
    /\ UNCHANGED <<running, overtaken, passer, picked>>

\* The await returns: the build has the turn.
Wake(b) ==
    /\ stage[b] = "waiting" /\ channel[b] = "sent"
    /\ channel' = [channel EXCEPT ![b] = "none"]
    /\ stage' = [stage EXCEPT ![b] = "running"]
    /\ UNCHANGED <<running, queues, passer, picked, history>>

(***************************************************************************)
(* Dropping a Wait before it is woken: close, then try_recv.               *)
(***************************************************************************)
Cancel(b) ==
    /\ stage[b] = "waiting"
    /\ channel' = [channel EXCEPT ![b] = IF @ = "open" THEN "closed" ELSE @]
    /\ stage' = [stage EXCEPT ![b] = "leaving"]
    /\ UNCHANGED <<running, queues, passer, picked, history>>

\* Mutant: leaving without looking for a turn handed over meanwhile.
LeaveQueueUnread(b) ==
    /\ stage[b] = "leaving"
    /\ stage' = [stage EXCEPT ![b] = "idle"]
    /\ channel' = [channel EXCEPT ![b] = IF @ = "sent" THEN "none" ELSE @]
    /\ UNCHANGED <<running, queues, passer, picked, history>>

LeaveQueue(b) ==
    /\ stage[b] = "leaving" /\ channel[b] # "sent"
    /\ stage' = [stage EXCEPT ![b] = "idle"]
    /\ UNCHANGED <<running, queues, channel, passer, picked, history>>

\* Mutant: waiting with the turn until a build asks for it again.
PassOnLater(b) == FALSE

\* `try_recv' finds the turn that was handed over meanwhile.
PassOn(b) == stage[b] = "leaving" /\ channel[b] = "sent"

-----------------------------------------------------------------------------
(***************************************************************************)
(* pass                                                                    *)
(***************************************************************************)
\* Dropping the Turn, or a Wait that was handed the turn, takes the mutex.
BeginPass(b) ==
    /\ stage[b] = "running" \/ PassOn(b)
    /\ MutexFree
    /\ passer' = b
    /\ stage' = [stage EXCEPT ![b] = "passing"]
    /\ channel' = [channel EXCEPT ![b] = "none"]
    /\ UNCHANGED <<running, queues, picked, history>>

\* `retain' keeps, in their order, the senders whose receiver is not closed:
\* kept[n] is what it keeps of the first n.
Retain(queue) ==
    LET kept[n \in 0 .. Len(queue)] ==
            IF n = 0 THEN <<>>
            ELSE IF channel[queue[n]] = "closed" THEN kept[n - 1]
            ELSE Append(kept[n - 1], queue[n])
    IN  kept[Len(queue)]

\* The senders that are not retained are dropped.
DropClosed == channel' = [b \in Builds |->
                             IF channel[b] = "closed" THEN "none" ELSE channel[b]]

EnvironmentGoes(waitingEnvironments, waitingPreviews) ==
    /\ waitingPreviews = <<>> \/ overtaken < EnvironmentBurst
    /\ waitingEnvironments # <<>>

\* Mutant: an environment build that goes is not counted.
OvertakenUncounted(waitingPreviews) == overtaken

Overtaken(waitingPreviews) ==
    IF waitingPreviews # <<>> THEN overtaken + 1 ELSE overtaken

\* One build leaves a queue: `Waiting::next'.
Pick ==
    LET es == Retain(environments)
        ps == Retain(previews)
    IN  /\ passer # NoBuild /\ picked = NoBuild
        /\ es # <<>> \/ ps # <<>>
        /\ DropClosed
        /\ IF EnvironmentGoes(es, ps)
           THEN /\ \E b \in Builds : b = Head(es) /\ picked' = b
                /\ environments' = Tail(es)
                /\ previews' = ps
                /\ overtaken' = Overtaken(ps)
           ELSE /\ \E b \in Builds : b = Head(ps) /\ picked' = b
                /\ environments' = es
                /\ previews' = Tail(ps)
                /\ overtaken' = 0
        /\ UNCHANGED <<running, stage, passer, history>>

\* The mutex is released.
EndPass ==
    /\ passer' = NoBuild
    /\ stage' = [stage EXCEPT ![passer] = "idle"]

\* The preview builds that wait while the build b goes.
PassedOver(b) ==
    IF b \in Environments
    THEN {p \in Previews : stage[p] = "waiting" /\ channel[p] = "open"}
    ELSE {}

Send ==
    /\ picked # NoBuild /\ channel[picked] = "open"
    /\ channel' = [channel EXCEPT ![picked] = "sent"]
    /\ picked' = NoBuild
    /\ passedBy' = [p \in Previews |-> IF p \in PassedOver(picked)
                                       THEN passedBy[p] + 1 ELSE passedBy[p]]
    /\ EndPass
    /\ UNCHANGED <<running, queues, ahead>>

\* The build was cancelled after it was picked: `send' fails and `pass' goes on.
SendFails ==
    /\ picked # NoBuild /\ channel[picked] # "open"
    /\ channel' = [channel EXCEPT ![picked] = "none"]
    /\ picked' = NoBuild
    /\ UNCHANGED <<running, queues, stage, passer, history>>

\* Nobody waits: `next' resets `overtaken' and finds no preview build.
FreeTurn ==
    /\ passer # NoBuild /\ picked = NoBuild
    /\ Retain(environments) = <<>> /\ Retain(previews) = <<>>
    /\ environments' = <<>> /\ previews' = <<>>
    /\ overtaken' = 0
    /\ DropClosed
    /\ running' = FALSE
    /\ EndPass
    /\ UNCHANGED <<picked, history>>

-----------------------------------------------------------------------------
PassStep == Pick \/ Send \/ SendFails \/ FreeTurn
WaitStep(b) == Wake(b) \/ LeaveQueue(b) \/ BeginPass(b)

Next ==
    \/ PassStep
    \/ \E b \in Builds : WaitStep(b) \/ TakeTurn(b) \/ WaitForTurn(b) \/ Cancel(b)

Spec == Init /\ [][Next]_vars

(***************************************************************************)
(* The runtime polls a woken or dropped future, a critical section ends,   *)
(* and a build ends, by itself or by its timeout.  Nothing makes a build   *)
(* ask for a turn or be cancelled.                                         *)
(***************************************************************************)
FairSpec ==
    /\ Spec
    /\ WF_vars(PassStep)
    /\ \A b \in Builds : WF_vars(WaitStep(b))

-----------------------------------------------------------------------------
(***************************************************************************)
(* The turn is with the builds that run, that were sent it, or that are    *)
(* passing it on.                                                          *)
(***************************************************************************)
Owners == {b \in Builds : stage[b] \in {"running", "passing"} \/ channel[b] = "sent"}

\* One image build at a time, and a turn that is never lost: `running' is set
\* exactly while one build runs, is being woken, or is passing the turn on,
\* however cancellations fall between choosing a build and waking it.
TurnHasOneOwner ==
    /\ \A a, b \in Owners : a = b
    /\ running <=> Owners # {}

\* ENVIRONMENT_BURST bounds how often a waiting preview build is passed over:
\* at most that often for each preview build queued before it, and for itself,
\* also when the ones before it are cancelled.
PreviewsAreNotStarved ==
    /\ BTypeOK
    /\ \A p \in Previews :
        stage[p] = "waiting" => passedBy[p] <= EnvironmentBurst * (ahead[p] + 1)

\* The builds that run or were sent the turn, and the ones that wait for it.
Holders == {b \in Builds : stage[b] = "running" \/ channel[b] = "sent"}
Holder == IF Holders = {} THEN NoBuild ELSE CHOOSE b \in Holders : TRUE
Waiters == {b \in Builds : stage[b] = "waiting" /\ channel[b] = "open"}

Turn == INSTANCE BuildTurn WITH holder <- Holder, waiting <- Waiters

\* The queue implements one turn that is never given to two builds.
ImplementsTurn == Turn!Spec

\* The queue implements one fair turn: a running build ends, a turn handed to
\* a cancelled build goes on, and a build that keeps waiting, of either queue,
\* gets its turn.
ImplementsFairTurn == Turn!FairSpec
==============================================================================
