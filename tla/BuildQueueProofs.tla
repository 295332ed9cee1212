-------------------------- MODULE BuildQueueProofs --------------------------
(***************************************************************************)
(* For any builds and any burst: the turn always has one owner, the queue  *)
(* implements the abstract turn, and previews are not starved.             *)
(*                                                                         *)
(* TurnHasOneOwner alone is not inductive: that waking a build makes it    *)
(* the only owner needs to know that the passing build holds the turn,     *)
(* that an open channel belongs to a waiting build, and that a build that  *)
(* runs or passes has no channel.  QInv adds those facts.  None of them    *)
(* depends on which build the queues choose.                               *)
(***************************************************************************)
EXTENDS BuildQueue, FiniteSetTheorems, WellFoundedInduction, TLAPS

QTypes ==
    /\ running \in BOOLEAN
    /\ channel \in [Builds -> Channels]
    /\ stage \in [Builds -> Stages]
    /\ passer \in Builds \cup {NoBuild}
    /\ picked \in Builds \cup {NoBuild}

QChannels ==
    \A b \in Builds :
        /\ stage[b] \in {"running", "passing"} => channel[b] = "none"
        /\ channel[b] = "open" => stage[b] = "waiting"
        /\ channel[b] = "sent" => stage[b] \in {"waiting", "leaving"}
        /\ stage[b] = "waiting" => channel[b] \in {"open", "sent"}

QMutex ==
    /\ \A b \in Builds : stage[b] = "passing" <=> passer = b
    /\ picked # NoBuild => passer # NoBuild

QInv == QTypes /\ QChannels /\ QMutex /\ TurnHasOneOwner

\* An empty queue nobody runs in satisfies the invariant.
LEMMA InitQInv == Init => QInv
  BY QueuesAssumption
  DEF Init, QInv, QTypes, QChannels, QMutex, TurnHasOneOwner, Owners, Channels, Stages

\* Asking for the turn: taking it when it is free, or waiting for it.
LEMMA AskingKeepsQInv ==
  ASSUME QInv, NEW b \in Builds, TakeTurn(b) \/ WaitForTurn(b)
  PROVE  QInv'
  <1>1. CASE TakeTurn(b)
    BY <1>1, QueuesAssumption
    DEF TakeTurn, MutexFree, queues, history, QInv, QTypes, QChannels, QMutex,
        TurnHasOneOwner, Owners, Channels, Stages
  <1>2. CASE WaitForTurn(b)
    BY <1>2, QueuesAssumption
    DEF WaitForTurn, MutexFree, queues, history, QInv, QTypes, QChannels, QMutex,
        TurnHasOneOwner, Owners, Channels, Stages
  <1> QED BY <1>1, <1>2

\* Waking, being cancelled, leaving and starting to pass the turn on.
LEMMA WaitingKeepsQInv ==
  ASSUME QInv, NEW b \in Builds, WaitStep(b) \/ Cancel(b)
  PROVE  QInv'
  <1> USE DEF queues, history, QInv, QTypes, QChannels, QMutex,
              TurnHasOneOwner, Owners, Channels, Stages
  <1>1. CASE Wake(b)
    BY <1>1 DEF Wake
  <1>2. CASE Cancel(b)
    BY <1>2 DEF Cancel
  <1>3. CASE LeaveQueue(b)
    BY <1>3 DEF LeaveQueue
  <1>4. CASE BeginPass(b)
    BY <1>4, QueuesAssumption DEF BeginPass, MutexFree, PassOn
  <1> QED BY <1>1, <1>2, <1>3, <1>4 DEF WaitStep

\* Inside `pass': whatever is chosen, the passer hands over the turn it owns.
LEMMA PassingKeepsQInv ==
  ASSUME QInv, PassStep
  PROVE  QInv'
  <1> USE QueuesAssumption
      DEF queues, history, QInv, QTypes, QChannels, QMutex,
          TurnHasOneOwner, Owners, Channels, Stages
  <1>1. CASE Pick
    <2>1. picked' \in Builds /\ DropClosed /\ passer # NoBuild
          /\ UNCHANGED <<running, stage, passer>>
      BY <1>1 DEF Pick
    <2> QED BY <2>1 DEF DropClosed
  <1>2. CASE Send
    BY <1>2 DEF Send, EndPass
  <1>3. CASE SendFails
    BY <1>3 DEF SendFails
  <1>4. CASE FreeTurn
    <2>1. /\ passer \in Builds /\ passer' = NoBuild /\ picked' = NoBuild
          /\ running' = FALSE
          /\ stage' = [stage EXCEPT ![passer] = "idle"]
          /\ channel' = [b \in Builds |->
                            IF channel[b] = "closed" THEN "none" ELSE channel[b]]
      BY <1>4 DEF FreeTurn, EndPass, DropClosed
    <2>2. QTypes'
      BY <2>1
    <2>3. QChannels'
      BY <2>1
    <2>4. QMutex'
      BY <2>1
    <2>5. Owners = {passer}
      BY <2>1
    <2>6. Owners' = {}
      BY <2>1, <2>5
    <2> QED BY <2>1, <2>2, <2>3, <2>4, <2>6
  <1> QED BY <1>1, <1>2, <1>3, <1>4 DEF PassStep

\* Every behaviour of the queue satisfies the inductive invariant.
THEOREM QueueInvariant == Spec => []QInv
  <1>1. QInv /\ [Next]_vars => QInv'
    <2> SUFFICES ASSUME QInv, [Next]_vars PROVE QInv'
      OBVIOUS
    <2>1. CASE UNCHANGED vars
      BY <2>1 DEF vars, QInv, QTypes, QChannels, QMutex, TurnHasOneOwner, Owners
    <2> QED
      BY <2>1, AskingKeepsQInv, WaitingKeepsQInv, PassingKeepsQInv DEF Next
  <1> QED BY <1>1, InitQInv, PTL DEF Spec

\* For any builds and burst, at most one build has the turn of the build
\* queue, and `running' is never left set without one.
THEOREM OneBuildAtATime == Spec => []TurnHasOneOwner
  <1>1. QInv => TurnHasOneOwner
    BY DEF QInv
  <1> QED BY <1>1, QueueInvariant, PTL
-----------------------------------------------------------------------------
(***************************************************************************)
(* Refinement: every step of the queue is a step of the abstract turn, or  *)
(* leaves its holder and waiters alone.                                    *)
(***************************************************************************)
\* The build that holds the turn is the one the mapping names.
LEMMA HolderIsUnique ==
  ASSUME QInv, NEW b \in Holders
  PROVE  Holder = b
  BY DEF Holder, Holders, QInv, TurnHasOneOwner, Owners

\* The same of the state after a step.
LEMMA HolderIsUniquePrimed ==
  ASSUME QInv', NEW b \in Holders'
  PROVE  Holder' = b
  BY DEF Holder, Holders, QInv, TurnHasOneOwner, Owners

\* Taking the free turn, or waiting for it, is taking or waiting for the
\* abstract one.
LEMMA AskingRefines ==
  ASSUME QInv, QInv', NEW b \in Builds, TakeTurn(b) \/ WaitForTurn(b)
  PROVE  [Turn!Next]_(Turn!vars)
  <1>1. CASE TakeTurn(b)
    <2>1. Holders = {} /\ b \in Holders' /\ Waiters' = Waiters /\ b \notin Waiters
      BY <1>1 DEF TakeTurn, Holders, Waiters, QInv, QTypes, TurnHasOneOwner, Owners
    <2>2. Holder = NoBuild /\ Holder' = b
      BY <2>1, HolderIsUniquePrimed DEF Holder
    <2> QED BY <2>1, <2>2 DEF Turn!Take, Turn!Next
  <1>2. CASE WaitForTurn(b)
    <2>1. Holders' = Holders /\ Waiters' = Waiters \cup {b} /\ b \notin Waiters
      BY <1>2 DEF WaitForTurn, Holders, Waiters, QInv, QTypes, Channels, Stages
    <2>2. b # Holder
      <3>1. b \notin Holders
        BY <1>2 DEF WaitForTurn, Holders
      <3> QED BY <3>1, QueuesAssumption DEF Holder
    <2>3. Holder' = Holder
      BY <2>1 DEF Holder
    <2> QED BY <2>1, <2>2, <2>3 DEF Turn!Wait, Turn!Next
  <1> QED BY <1>1, <1>2

\* A cancelled build gives up waiting, or keeps the turn it was sent until it
\* passes it on, which releases it.
LEMMA WaitingRefines ==
  ASSUME QInv, QInv', NEW b \in Builds, WaitStep(b) \/ Cancel(b)
  PROVE  [Turn!Next]_(Turn!vars)
  <1> USE DEF QInv, QTypes, QChannels, Channels, Stages
  <1>1. CASE Wake(b)
    <2>1. Holders' = Holders /\ Waiters' = Waiters
      BY <1>1 DEF Wake, Holders, Waiters
    <2> QED BY <2>1 DEF Holder, Turn!vars
  <1>2. CASE Cancel(b)
    <2>1. Holders' = Holders /\ Waiters' = Waiters \ {b}
      BY <1>2 DEF Cancel, Holders, Waiters
    <2>2. Holder' = Holder
      BY <2>1 DEF Holder
    <2>3. CASE b \in Waiters
      BY <2>1, <2>2, <2>3 DEF Turn!GiveUp, Turn!Next
    <2>4. CASE b \notin Waiters
      <3>1. Waiters' = Waiters
        BY <2>1, <2>4
      <3> QED BY <3>1, <2>2 DEF Turn!vars
    <2> QED BY <2>3, <2>4
  <1>3. CASE LeaveQueue(b)
    <2>1. Holders' = Holders /\ Waiters' = Waiters
      BY <1>3 DEF LeaveQueue, Holders, Waiters
    <2> QED BY <2>1 DEF Holder, Turn!vars
  <1>4. CASE BeginPass(b)
    <2>1. b \in Holders /\ Waiters' = Waiters
      BY <1>4 DEF BeginPass, PassOn, Holders, Waiters
    <2>2. Holders' = {}
      BY <1>4 DEF BeginPass, PassOn, Holders, TurnHasOneOwner, Owners
    <2>3. Holder = b /\ Holder' = NoBuild
      BY <2>1, <2>2, HolderIsUnique DEF Holder
    <2> QED BY <2>1, <2>3, QueuesAssumption DEF Turn!Release, Turn!Next
  <1> QED BY <1>1, <1>2, <1>3, <1>4 DEF WaitStep

\* Sending the turn grants it; nothing else in `pass' is visible.
LEMMA PassingRefines ==
  ASSUME QInv, QInv', PassStep
  PROVE  [Turn!Next]_(Turn!vars)
  <1> USE QueuesAssumption DEF QInv, QTypes, QChannels, QMutex, Channels, Stages
  <1>1. CASE Pick
    <2>1. DropClosed /\ UNCHANGED stage
      BY <1>1 DEF Pick
    <2>2. Holders' = Holders /\ Waiters' = Waiters
      BY <2>1 DEF DropClosed, Holders, Waiters
    <2> QED BY <2>2 DEF Holder, Turn!vars
  <1>2. CASE Send
    <2>1. Holders = {} /\ picked \in Builds
      BY <1>2 DEF Send, Holders, TurnHasOneOwner, Owners
    <2>2. picked \in Holders' /\ picked \in Waiters /\ Waiters' = Waiters \ {picked}
      BY <1>2, <2>1 DEF Send, EndPass, Holders, Waiters
    <2>3. Holder = NoBuild /\ Holder' = picked
      BY <2>1, <2>2, HolderIsUniquePrimed DEF Holder
    <2> QED BY <2>1, <2>2, <2>3 DEF Turn!Grant, Turn!Next
  <1>3. CASE SendFails
    <2>1. Holders' = Holders /\ Waiters' = Waiters
      BY <1>3 DEF SendFails, Holders, Waiters, TurnHasOneOwner, Owners
    <2> QED BY <2>1 DEF Holder, Turn!vars
  <1>4. CASE FreeTurn
    <2>1. Holders' = Holders /\ Waiters' = Waiters
      BY <1>4 DEF FreeTurn, EndPass, DropClosed, Holders, Waiters
    <2> QED BY <2>1 DEF Holder, Turn!vars
  <1> QED BY <1>1, <1>2, <1>3, <1>4 DEF PassStep

\* For any builds and burst, the two queues, the channels and the cancellations
\* implement one turn: BuildTurn without its fairness.
THEOREM QueueImplementsTurn == Spec => ImplementsTurn
  <1>1. Init => Turn!Init
    BY DEF Init, Turn!Init, Holder, Holders, Waiters
  <1>2. QInv /\ QInv' /\ [Next]_vars => [Turn!Next]_(Turn!vars)
    <2> SUFFICES ASSUME QInv, QInv', [Next]_vars PROVE [Turn!Next]_(Turn!vars)
      OBVIOUS
    <2>1. CASE UNCHANGED vars
      BY <2>1 DEF vars, Turn!vars, Holder, Holders, Waiters
    <2> QED
      BY <2>1, AskingRefines, WaitingRefines, PassingRefines DEF Next
  <1> QED
    BY <1>1, <1>2, QueueInvariant, PTL DEF Spec, ImplementsTurn, Turn!Spec

-----------------------------------------------------------------------------
(***************************************************************************)
(* What `retain' keeps.  It is a recursive function; that it exists, and   *)
(* what it computes, is shown by induction on the length of the prefix,    *)
(* with the induction principle stated for sets of naturals.               *)
(***************************************************************************)
\* A set of naturals that holds 0 and every successor holds them all.
LEMMA NatSetInduction ==
  ASSUME NEW T \in SUBSET Nat, 0 \in T, \A n \in T : n + 1 \in T
  PROVE  T = Nat
  <1> SUFFICES ASSUME Nat \ T # {} PROVE FALSE
    OBVIOUS
  <1>1. PICK x \in Nat \ T : \A y \in Nat \ T : ~ (<<y, x>> \in OpToRel(<, Nat))
    BY NatLessThanWellFounded, WFMin, Zenon
  <1>2. \A y \in Nat \ T : ~ (y < x)
    BY <1>1 DEF OpToRel
  <1>3. x # 0 /\ x - 1 \in Nat /\ x - 1 < x /\ (x - 1) + 1 = x
    OBVIOUS
  <1> QED BY <1>2, <1>3

\* One step of `retain', over what it kept before.
Keeps(queue, f, n) ==
    IF n = 0 THEN <<>>
    ELSE IF channel[queue[n]] = "closed" THEN f[n - 1]
    ELSE Append(f[n - 1], queue[n])

\* The recursion of Retain defines a function on every prefix.
LEMMA KeptExists ==
  ASSUME NEW queue, NEW m \in Nat
  PROVE  \E f : f = [n \in 0 .. m |-> Keeps(queue, f, n)]
  <1> DEFINE T == {k \in Nat : \E f : f = [n \in 0 .. k |-> Keeps(queue, f, n)]}
  <1>1. 0 \in T
    <2> DEFINE g == [n \in 0 .. 0 |-> <<>>]
    <2>1. \A n \in 0 .. 0 : n = 0
      OBVIOUS
    <2>2. g = [n \in 0 .. 0 |-> Keeps(queue, g, n)]
      BY <2>1 DEF Keeps
    <2> QED BY <2>2
  <1>2. ASSUME NEW k \in T PROVE k + 1 \in T
    <2>1. PICK f : f = [n \in 0 .. k |-> Keeps(queue, f, n)]
      OBVIOUS
    <2> DEFINE g == [n \in 0 .. (k + 1) |->
                        IF n = k + 1 THEN Keeps(queue, f, n) ELSE f[n]]
    <2>2. ASSUME NEW n \in 0 .. (k + 1) PROVE g[n] = Keeps(queue, g, n)
      <3>1. CASE n = 0
        BY <3>1, <2>1 DEF Keeps
      <3>2. CASE n # 0
        <4>1. n - 1 \in 0 .. (k + 1) /\ n - 1 # k + 1
          BY <3>2
        <4>2. g[n - 1] = f[n - 1]
          BY <4>1
        <4>3. Keeps(queue, g, n) = Keeps(queue, f, n)
          BY <4>2 DEF Keeps
        <4>4. CASE n = k + 1
          BY <4>3, <4>4
        <4>5. CASE n # k + 1
          BY <4>3, <4>5, <2>1
        <4> QED BY <4>4, <4>5
      <3> QED BY <3>1, <3>2
    <2>3. g = [n \in 0 .. (k + 1) |-> Keeps(queue, g, n)]
      BY <2>2
    <2>4. \E h : h = [n \in 0 .. (k + 1) |-> Keeps(queue, h, n)]
      <3> HIDE DEF g
      <3> QED BY <2>3
    <2>5. k + 1 \in Nat
      OBVIOUS
    <2> QED BY <2>4, <2>5
  <1>3. T = Nat
    BY <1>1, <1>2, NatSetInduction
  <1> QED BY <1>3

\* Retain is the last value of such a function.
LEMMA RetainIsKept ==
  ASSUME NEW queue, Len(queue) \in Nat
  PROVE  \E f : /\ f = [n \in 0 .. Len(queue) |-> Keeps(queue, f, n)]
                /\ Retain(queue) = f[Len(queue)]
  <1> DEFINE K == CHOOSE f : f = [n \in 0 .. Len(queue) |-> Keeps(queue, f, n)]
  <1>1. K = [n \in 0 .. Len(queue) |-> Keeps(queue, K, n)]
    BY KeptExists
  <1>2. Retain(queue) = K[Len(queue)]
    BY DEF Retain, Keeps
  <1> QED BY <1>1, <1>2

Distinct(s) == \A i, j \in 1 .. Len(s) : s[i] = s[j] => i = j

\* What `retain' has kept in s of the first n of a queue: only senders that are
\* not closed, all of those, none of them further back than before, and none
\* twice.
KeptOf(queue, n, s) ==
    /\ Len(s) <= n
    /\ \A k \in 1 .. Len(s) : \E i \in 1 .. n :
          /\ k <= i
          /\ s[k] = queue[i]
          /\ channel[queue[i]] # "closed"
    /\ \A i \in 1 .. n : channel[queue[i]] # "closed" =>
          \E k \in 1 .. Len(s) : k <= i /\ s[k] = queue[i]
    /\ Distinct(queue) => Distinct(s)

\* The induction step: one more sender.
LEMMA KeptOfNext ==
  ASSUME NEW S, NEW queue \in Seq(S), NEW n \in Nat, n + 1 <= Len(queue),
         NEW s \in Seq(S), KeptOf(queue, n, s)
  PROVE  /\ channel[queue[n + 1]] = "closed" => KeptOf(queue, n + 1, s)
         /\ channel[queue[n + 1]] # "closed" =>
              KeptOf(queue, n + 1, Append(s, queue[n + 1]))
  <1> DEFINE q == queue[n + 1]
             t == Append(s, q)
  <1>0. q \in S /\ n + 1 \in 1 .. Len(queue) /\ Len(s) \in Nat /\ Len(s) <= n
    BY DEF KeptOf
  <1>1. ASSUME channel[q] = "closed" PROVE KeptOf(queue, n + 1, s)
    <2>1. \A k \in 1 .. Len(s) : \E i \in 1 .. (n + 1) :
             k <= i /\ s[k] = queue[i] /\ channel[queue[i]] # "closed"
      BY <1>0 DEF KeptOf
    <2>2. ASSUME NEW i \in 1 .. (n + 1), channel[queue[i]] # "closed"
          PROVE  \E k \in 1 .. Len(s) : k <= i /\ s[k] = queue[i]
      <3>1. i \in 1 .. n
        BY <1>1, <2>2
      <3> QED BY <3>1, <2>2 DEF KeptOf
    <2> QED BY <1>0, <2>1, <2>2 DEF KeptOf
  <1>2. ASSUME channel[q] # "closed" PROVE KeptOf(queue, n + 1, t)
    <2>1. /\ t \in Seq(S) /\ Len(t) = Len(s) + 1 /\ t[Len(s) + 1] = q
          /\ \A k \in 1 .. Len(s) : t[k] = s[k]
      BY <1>0
    <2> HIDE DEF t
    <2>2. ASSUME NEW k \in 1 .. Len(t)
          PROVE  \E i \in 1 .. (n + 1) :
                    k <= i /\ t[k] = queue[i] /\ channel[queue[i]] # "closed"
      <3>1. CASE k = Len(s) + 1
        BY <3>1, <2>1, <1>0, <1>2
      <3>2. CASE k # Len(s) + 1
        <4>1. k \in 1 .. Len(s)
          BY <3>2, <2>1, <1>0
        <4>2. PICK i \in 1 .. n :
                k <= i /\ s[k] = queue[i] /\ channel[queue[i]] # "closed"
          BY <4>1 DEF KeptOf
        <4>3. i \in 1 .. (n + 1) /\ t[k] = s[k]
          BY <4>1, <2>1
        <4> QED BY <4>2, <4>3
      <3> QED BY <3>1, <3>2
    <2>3. ASSUME NEW i \in 1 .. (n + 1), channel[queue[i]] # "closed"
          PROVE  \E k \in 1 .. Len(t) : k <= i /\ t[k] = queue[i]
      <3>1. CASE i = n + 1
        BY <3>1, <2>1, <1>0
      <3>2. CASE i # n + 1
        <4>1. i \in 1 .. n
          BY <3>2
        <4>2. PICK k \in 1 .. Len(s) : k <= i /\ s[k] = queue[i]
          BY <4>1, <2>3 DEF KeptOf
        <4>3. k \in 1 .. Len(t) /\ t[k] = s[k]
          BY <2>1, <1>0
        <4> QED BY <4>2, <4>3
      <3> QED BY <3>1, <3>2
    <2>4. ASSUME Distinct(queue), NEW i \in 1 .. Len(t), NEW j \in 1 .. Len(t),
                 t[i] = t[j]
          PROVE  i = j
      <3>1. ASSUME NEW k \in 1 .. Len(s) PROVE t[k] # q
        <4>1. PICK m \in 1 .. n : s[k] = queue[m]
          BY DEF KeptOf
        <4>2. m \in 1 .. Len(queue) /\ m # n + 1
          BY <1>0
        <4> QED BY <4>1, <4>2, <2>4, <2>1, <1>0 DEF Distinct
      <3>2. CASE i \in 1 .. Len(s) /\ j \in 1 .. Len(s)
        BY <3>2, <2>1, <2>4 DEF KeptOf, Distinct
      <3>3. \A k \in 1 .. Len(t) : k \in 1 .. Len(s) \/ k = Len(s) + 1
        BY <2>1, <1>0
      <3> QED BY <3>1, <3>2, <3>3, <2>1, <2>4
    <2>5. Len(t) <= n + 1
      BY <1>0, <2>1
    <2> QED BY <2>2, <2>3, <2>4, <2>5 DEF KeptOf, Distinct
  <1> QED BY <1>1, <1>2

\* `retain' keeps, in a queue of the same builds, what KeptOf says.
LEMMA RetainKeeps ==
  ASSUME NEW S, NEW queue \in Seq(S)
  PROVE  Retain(queue) \in Seq(S) /\ KeptOf(queue, Len(queue), Retain(queue))
  <1>0. Len(queue) \in Nat
    OBVIOUS
  <1>1. PICK f : /\ f = [n \in 0 .. Len(queue) |-> Keeps(queue, f, n)]
                 /\ Retain(queue) = f[Len(queue)]
    BY <1>0, RetainIsKept
  <1>2. \A n \in 0 .. Len(queue) : f[n] = Keeps(queue, f, n)
    BY <1>1
  <1> DEFINE T == {n \in Nat : n <= Len(queue) =>
                                 f[n] \in Seq(S) /\ KeptOf(queue, n, f[n])}
  <1>3. 0 \in T
    <2>1. f[0] = <<>>
      BY <1>2, <1>0 DEF Keeps
    <2>2. KeptOf(queue, 0, <<>>)
      BY DEF KeptOf, Distinct
    <2>3. f[0] \in Seq(S) /\ KeptOf(queue, 0, f[0])
      BY <2>1, <2>2
    <2> HIDE DEF KeptOf
    <2> QED BY <2>3
  <1>4. ASSUME NEW n \in T PROVE n + 1 \in T
    <2>1. n \in Nat /\ n + 1 \in Nat
      OBVIOUS
    <2>2. ASSUME n + 1 <= Len(queue)
          PROVE  f[n + 1] \in Seq(S) /\ KeptOf(queue, n + 1, f[n + 1])
      <3>1. f[n] \in Seq(S) /\ KeptOf(queue, n, f[n])
        BY <2>1, <2>2, <1>0
      <3>2. n + 1 \in 0 .. Len(queue) /\ n + 1 # 0 /\ (n + 1) - 1 = n
        BY <2>1, <2>2, <1>0
      <3>3. f[n + 1] = IF channel[queue[n + 1]] = "closed" THEN f[n]
                       ELSE Append(f[n], queue[n + 1])
        BY <1>2, <3>2 DEF Keeps
      <3>4. queue[n + 1] \in S
        BY <3>2, <1>0, <2>1
      <3>5. Append(f[n], queue[n + 1]) \in Seq(S)
        BY <3>1, <3>4
      <3> QED BY <2>1, <2>2, <3>1, <3>3, <3>5, KeptOfNext
    <2> QED BY <2>1, <2>2
  <1>5. T = Nat
    BY <1>3, <1>4, NatSetInduction
  <1>6. Len(queue) \in T
    BY <1>5, <1>0
  <1> QED BY <1>6, <1>1, <1>0
-----------------------------------------------------------------------------
(***************************************************************************)
(* Previews are not starved.  PreviewsAreNotStarved bounds passedBy, which *)
(* only history knows; what the code keeps is `overtaken' and the order of *)
(* the queue.  OvertakenInv connects them.  A preview build at place i has *)
(* seen ahead + 1 - i builds go or give up before it, each after at most   *)
(* one burst, and the burst in progress is `overtaken'; an environment     *)
(* build that was picked is counted there before it is sent the turn.      *)
(***************************************************************************)
\* The previews queue holds distinct builds that can still be woken or were
\* cancelled, and every preview build that can be woken is there or picked.
PreviewsInv ==
    /\ environments \in Seq(Environments)
    /\ previews \in Seq(Previews)
    /\ Distinct(previews)
    /\ \A i \in 1 .. Len(previews) :
          channel[previews[i]] \in {"open", "closed"} /\ previews[i] # picked
    /\ \A p \in Previews : channel[p] = "open" =>
          p = picked \/ \E i \in 1 .. Len(previews) : previews[i] = p

HistoryTypes ==
    /\ overtaken \in 0 .. EnvironmentBurst
    /\ ahead \in [Previews -> 0 .. Cardinality(Previews)]
    /\ passedBy \in [Previews -> Nat]

\* The environment build that was picked and not yet sent the turn.
Pending == IF picked \in Environments THEN 1 ELSE 0

\* p waits at place i after at most this many environment builds.
Within(p, i) ==
    /\ i <= ahead[p] + 1
    /\ passedBy[p] + Pending <= EnvironmentBurst * (ahead[p] + 1 - i) + overtaken

OvertakenInv ==
    \A i \in 1 .. Len(previews) :
        channel[previews[i]] = "open" => Within(previews[i], i)

NotPassedTooOften ==
    \A p \in Previews :
        stage[p] = "waiting" => passedBy[p] <= EnvironmentBurst * (ahead[p] + 1)

BInv == PreviewsInv /\ HistoryTypes /\ OvertakenInv /\ NotPassedTooOften

\* Bursts add up: the places before i allow a burst more than those before a
\* later one.
LEMMA BurstPerPlace ==
  ASSUME NEW a \in Nat, NEW i \in Nat, NEW j \in Nat, i <= j, j <= a + 1
  PROVE  /\ EnvironmentBurst * (a + 1 - j) \in Nat
         /\ EnvironmentBurst * (a + 1 - i) \in Nat
         /\ EnvironmentBurst * (a + 1 - j) <= EnvironmentBurst * (a + 1 - i)
         /\ i < j => EnvironmentBurst * (a + 1 - j) + EnvironmentBurst
                        <= EnvironmentBurst * (a + 1 - i)
  <1>0. EnvironmentBurst \in Nat
    BY BurstAssumption
  <1>1. ASSUME NEW x \in Nat, NEW y \in Nat, x <= y
        PROVE  /\ EnvironmentBurst * x \in Nat /\ EnvironmentBurst * y \in Nat
               /\ EnvironmentBurst * x <= EnvironmentBurst * y
    <2>1. y - x \in Nat /\ y = x + (y - x)
      BY <1>1
    <2>2. EnvironmentBurst * y = EnvironmentBurst * x + EnvironmentBurst * (y - x)
      BY <1>0, <2>1
    <2>3. /\ EnvironmentBurst * x \in Nat /\ EnvironmentBurst * y \in Nat
          /\ EnvironmentBurst * (y - x) \in Nat
      BY <1>0, <2>1
    <2> QED BY <2>2, <2>3
  <1>2. ASSUME NEW x \in Nat
        PROVE  EnvironmentBurst * (x + 1) = EnvironmentBurst * x + EnvironmentBurst
    BY <1>0
  <1>3. a + 1 - j \in Nat /\ a + 1 - i \in Nat /\ a + 1 - j <= a + 1 - i
    OBVIOUS
  <1>4. ASSUME i < j
        PROVE  EnvironmentBurst * (a + 1 - j) + EnvironmentBurst
                  <= EnvironmentBurst * (a + 1 - i)
    <2>1. (a + 1 - j) + 1 \in Nat /\ (a + 1 - j) + 1 <= a + 1 - i
      BY <1>3, <1>4
    <2>2. EnvironmentBurst * ((a + 1 - j) + 1) <= EnvironmentBurst * (a + 1 - i)
      BY <1>1, <1>3, <2>1
    <2>3. EnvironmentBurst * ((a + 1 - j) + 1)
            = EnvironmentBurst * (a + 1 - j) + EnvironmentBurst
      BY <1>2, <1>3
    <2> QED BY <2>2, <2>3
  <1> QED BY <1>1, <1>3, <1>4

\* A preview build that is within its bound at its place was passed over at
\* most a burst for each build queued before it, and for itself.
LEMMA WithinIsEnough ==
  ASSUME HistoryTypes, NEW p \in Previews, NEW i \in Nat \ {0}, Within(p, i)
  PROVE  passedBy[p] + Pending <= EnvironmentBurst * (ahead[p] + 1)
  <1>1. /\ ahead[p] \in Nat /\ passedBy[p] \in Nat /\ overtaken \in Nat
        /\ overtaken <= EnvironmentBurst /\ EnvironmentBurst \in Nat /\ Pending \in Nat
    BY BurstAssumption DEF HistoryTypes, Pending
  <1>2. /\ EnvironmentBurst * (ahead[p] + 1 - i) + EnvironmentBurst
              <= EnvironmentBurst * (ahead[p] + 1 - 0)
        /\ EnvironmentBurst * (ahead[p] + 1 - i) \in Nat
        /\ EnvironmentBurst * (ahead[p] + 1 - 0) \in Nat
    BY <1>1, BurstPerPlace DEF Within
  <1>3. ahead[p] + 1 - 0 = ahead[p] + 1
    BY <1>1
  <1>4. passedBy[p] + Pending <= EnvironmentBurst * (ahead[p] + 1 - i) + overtaken
    BY DEF Within
  <1> QED BY <1>1, <1>2, <1>3, <1>4

\* The previews `retain' keeps are open, distinct, within their bound at their
\* new places, and are all that can be woken.
LEMMA RetainedPreviews ==
  ASSUME QInv, BInv, picked = NoBuild
  PROVE  LET ps == Retain(previews)
         IN  /\ ps \in Seq(Previews)
             /\ Distinct(ps)
             /\ \A k \in 1 .. Len(ps) :
                   /\ channel[ps[k]] = "open"
                   /\ Within(ps[k], k)
             /\ \A p \in Previews : channel[p] = "open" =>
                   \E k \in 1 .. Len(ps) : ps[k] = p
  <1> DEFINE ps == Retain(previews)
  <1>1. ps \in Seq(Previews) /\ KeptOf(previews, Len(previews), ps)
    BY RetainKeeps DEF BInv, PreviewsInv
  <1>2. Distinct(ps)
    BY <1>1 DEF KeptOf, BInv, PreviewsInv
  <1> HIDE DEF ps
  <1>3. ASSUME NEW k \in 1 .. Len(ps)
        PROVE  channel[ps[k]] = "open" /\ Within(ps[k], k)
    <2>1. PICK i \in 1 .. Len(previews) :
            k <= i /\ ps[k] = previews[i] /\ channel[previews[i]] # "closed"
      BY <1>1 DEF KeptOf
    <2>2. channel[previews[i]] = "open"
      BY <2>1 DEF BInv, PreviewsInv
    <2>3. Within(previews[i], i)
      BY <2>2 DEF BInv, OvertakenInv
    <2> DEFINE p == previews[i]
    <2>4. p \in Previews /\ k \in Nat /\ i \in Nat
      BY DEF BInv, PreviewsInv
    <2>5. ahead[p] \in Nat /\ passedBy[p] \in Nat /\ overtaken \in Nat /\ Pending \in Nat
      BY <2>4 DEF BInv, HistoryTypes, Pending
    <2> HIDE DEF p
    <2>6. /\ EnvironmentBurst * (ahead[p] + 1 - i) <= EnvironmentBurst * (ahead[p] + 1 - k)
          /\ EnvironmentBurst * (ahead[p] + 1 - i) \in Nat
          /\ EnvironmentBurst * (ahead[p] + 1 - k) \in Nat
      BY <2>1, <2>3, <2>4, <2>5, BurstPerPlace DEF Within, p
    <2>7. Within(p, k)
      <3>1. /\ i <= ahead[p] + 1
            /\ passedBy[p] + Pending <= EnvironmentBurst * (ahead[p] + 1 - i) + overtaken
        BY <2>3 DEF Within, p
      <3>2. k <= ahead[p] + 1
        BY <3>1, <2>1, <2>4, <2>5
      <3>3. passedBy[p] + Pending <= EnvironmentBurst * (ahead[p] + 1 - k) + overtaken
        BY <3>1, <2>5, <2>6
      <3> QED BY <3>2, <3>3 DEF Within
    <2> QED BY <2>1, <2>2, <2>7 DEF p
  <1>4. ASSUME NEW p \in Previews, channel[p] = "open"
        PROVE  \E k \in 1 .. Len(ps) : ps[k] = p
    <2>1. p # picked
      BY QueuesAssumption DEF Builds
    <2>2. PICK i \in 1 .. Len(previews) : previews[i] = p
      BY <1>4, <2>1 DEF BInv, PreviewsInv
    <2> QED BY <1>1, <1>4, <2>2 DEF KeptOf
  <1> QED BY <1>1, <1>2, <1>3, <1>4 DEF ps

\* OvertakenInv of the state after a step, spelled out.
LEMMA OvertakenNext ==
  ASSUME \A i \in 1 .. Len(previews') : channel'[previews'[i]] = "open" =>
            /\ i <= ahead'[previews'[i]] + 1
            /\ passedBy'[previews'[i]] + Pending'
                 <= EnvironmentBurst * (ahead'[previews'[i]] + 1 - i) + overtaken'
  PROVE  OvertakenInv'
  BY DEF OvertakenInv, Within

\* An empty queue satisfies the invariant.
LEMMA InitBInv == Init => BInv
  <1> SUFFICES ASSUME Init PROVE BInv
    OBVIOUS
  <1>1. EnvironmentBurst \in Nat /\ 0 \in 0 .. EnvironmentBurst
    BY BurstAssumption
  <1>2. 0 \in 0 .. Cardinality(Previews)
    BY PreviewsAssumption, FS_CardinalityType
  <1>3. PreviewsInv /\ OvertakenInv
    BY DEF Init, PreviewsInv, OvertakenInv, Distinct, Builds
  <1>4. HistoryTypes
    BY <1>1, <1>2 DEF Init, HistoryTypes
  <1>5. NotPassedTooOften
    BY DEF Init, NotPassedTooOften, Builds
  <1> QED BY <1>3, <1>4, <1>5 DEF BInv

\* Steps that leave the queues alone: a build that is in the previews queue can
\* at most be cancelled by them.
LEMMA QuietKeepsBInv ==
  ASSUME BInv, UNCHANGED <<queues, picked, history>>,
         \A p \in Previews :
            /\ channel[p] \in {"open", "closed"} => channel'[p] \in {channel[p], "closed"}
            /\ channel'[p] = "open" => channel[p] = "open"
            /\ stage'[p] = "waiting" => stage[p] = "waiting"
  PROVE  BInv'
  <1> USE DEF queues, history
  <1>0. \A i \in 1 .. Len(previews) : previews[i] \in Previews
    BY DEF BInv, PreviewsInv
  <1>1. PreviewsInv'
    BY <1>0 DEF BInv, PreviewsInv, Distinct
  <1>2. HistoryTypes'
    BY DEF BInv, HistoryTypes
  <1>3. OvertakenInv'
    BY <1>0 DEF BInv, OvertakenInv, Within, Pending
  <1>4. NotPassedTooOften'
    BY DEF BInv, NotPassedTooOften
  <1> QED BY <1>1, <1>2, <1>3, <1>4 DEF BInv

\* Taking the turn, waking, being cancelled, leaving, starting to pass it on.
LEMMA BuildKeepsBInv ==
  ASSUME QInv, BInv, NEW b \in Builds, TakeTurn(b) \/ WaitStep(b) \/ Cancel(b)
  PROVE  BInv'
  <1> USE DEF QInv, QTypes, QChannels, Builds
  <1>1. CASE TakeTurn(b)
    <2>1. stage' = [stage EXCEPT ![b] = "running"] /\ channel' = channel
      BY <1>1 DEF TakeTurn
    <2> QED BY <1>1, <2>1, QuietKeepsBInv DEF TakeTurn, Channels
  <1>2. CASE Wake(b)
    BY <1>2, QuietKeepsBInv DEF Wake, Channels
  <1>3. CASE Cancel(b)
    BY <1>3, QuietKeepsBInv DEF Cancel, Channels
  <1>4. CASE LeaveQueue(b)
    BY <1>4, QuietKeepsBInv DEF LeaveQueue, Channels
  <1>5. CASE BeginPass(b)
    BY <1>5, QuietKeepsBInv DEF BeginPass, PassOn, Channels
  <1> QED BY <1>1, <1>2, <1>3, <1>4, <1>5 DEF WaitStep

\* A queue of distinct previews is no longer than there are previews.
LEMMA QueueIsBounded ==
  ASSUME PreviewsInv
  PROVE  Len(previews) \in 0 .. Cardinality(Previews)
  <1>1. previews \in Injection(1 .. Len(previews), Previews)
    BY DEF PreviewsInv, Distinct, Injection, IsInjective
  <1>2. Len(previews) \in Nat
    BY DEF PreviewsInv
  <1>3. Cardinality(1 .. Len(previews)) <= Cardinality(Previews)
    BY <1>1, PreviewsAssumption, FS_Injection
  <1>4. Cardinality(1 .. Len(previews)) = Len(previews)
    <2>1. Cardinality(1 .. Len(previews))
            = IF 1 > Len(previews) THEN 0 ELSE Len(previews) - 1 + 1
      BY <1>2, FS_Interval
    <2> QED BY <1>2, <2>1
  <1>5. Cardinality(Previews) \in Nat
    BY PreviewsAssumption, FS_CardinalityType
  <1> QED BY <1>2, <1>3, <1>4, <1>5

\* A build that starts to wait goes to the end of its queue.
LEMMA WaitForTurnKeepsBInv ==
  ASSUME QInv, BInv, NEW b \in Builds, WaitForTurn(b)
  PROVE  BInv'
  <1> USE DEF QInv, QTypes, BInv
  <1>0. /\ channel[b] = "none" /\ stage[b] = "idle" /\ picked = NoBuild
        /\ channel' = [channel EXCEPT ![b] = "open"]
        /\ stage' = [stage EXCEPT ![b] = "waiting"]
        /\ overtaken' = overtaken /\ picked' = picked
    BY QueuesAssumption DEF WaitForTurn, MutexFree, QMutex
  <1>1. CASE b \in Environments
    <2>1. /\ b \notin Previews
          /\ environments' = Append(environments, b)
          /\ previews' = previews /\ ahead' = ahead /\ passedBy' = passedBy
      BY <1>1, QueuesAssumption DEF WaitForTurn, history
    <2>2. environments' \in Seq(Environments)
      BY <1>1, <2>1 DEF PreviewsInv
    <2>3. \A p \in Previews : channel'[p] = channel[p] /\ stage'[p] = stage[p]
      BY <1>0, <2>1 DEF Builds
    <2>4. \A i \in 1 .. Len(previews) : previews[i] \in Previews
      BY DEF PreviewsInv
    <2>5. PreviewsInv'
      BY <1>0, <2>1, <2>2, <2>3, <2>4 DEF PreviewsInv, Distinct
    <2>6. HistoryTypes' /\ NotPassedTooOften'
      BY <1>0, <2>1, <2>3 DEF HistoryTypes, NotPassedTooOften
    <2>7. OvertakenInv'
      BY <1>0, <2>1, <2>3, <2>4 DEF OvertakenInv, Within, Pending
    <2> QED BY <2>5, <2>6, <2>7
  <1>2. CASE b \in Previews
    <2>1. /\ b \notin Environments
          /\ previews' = Append(previews, b)
          /\ ahead' = [ahead EXCEPT ![b] = Len(previews)]
          /\ passedBy' = [passedBy EXCEPT ![b] = 0]
          /\ environments' = environments
      BY <1>2, QueuesAssumption DEF WaitForTurn
    <2> DEFINE n == Len(previews)
    <2>2. /\ n \in Nat /\ previews' \in Seq(Previews)
          /\ Len(previews') = n + 1 /\ previews'[n + 1] = b
          /\ \A i \in 1 .. n : previews'[i] = previews[i] /\ previews[i] \in Previews
      BY <1>2, <2>1 DEF PreviewsInv
    <2>3. \A i \in 1 .. n : previews[i] # b
      BY <1>0 DEF PreviewsInv
    <2>4. \A i \in 1 .. (n + 1) : i \in 1 .. n \/ i = n + 1
      BY <2>2
    <2>5. n \in 0 .. Cardinality(Previews)
      BY QueueIsBounded
    <2> HIDE DEF n
    <2>6. /\ \A p \in Previews \ {b} :
                /\ channel'[p] = channel[p] /\ stage'[p] = stage[p]
                /\ ahead'[p] = ahead[p] /\ passedBy'[p] = passedBy[p]
          /\ channel'[b] = "open" /\ ahead'[b] = n /\ passedBy'[b] = 0
      BY <1>0, <1>2, <2>1 DEF HistoryTypes, Builds, n
    <2>7. Distinct(previews)'
      <3>1. ASSUME NEW i \in 1 .. (n + 1), NEW j \in 1 .. (n + 1),
                   previews'[i] = previews'[j]
            PROVE  i = j
        BY <3>1, <2>2, <2>3, <2>4 DEF PreviewsInv, Distinct, n
      <3> QED BY <3>1, <2>2 DEF Distinct
    <2>8. \A i \in 1 .. (n + 1) :
             channel'[previews'[i]] \in {"open", "closed"} /\ previews'[i] # picked'
      <3>1. \A i \in 1 .. n :
               channel[previews[i]] \in {"open", "closed"} /\ previews[i] # picked
        BY DEF PreviewsInv, n
      <3>2. b # picked
        BY <1>0, <1>2, QueuesAssumption DEF Builds
      <3> QED BY <1>0, <2>2, <2>3, <2>4, <2>6, <3>1, <3>2
    <2>9. ASSUME NEW p \in Previews, channel'[p] = "open"
          PROVE  p = picked' \/ \E i \in 1 .. (n + 1) : previews'[i] = p
      <3>1. CASE p = b
        BY <3>1, <2>2
      <3>2. CASE p # b
        <4>1. p = picked \/ \E i \in 1 .. n : previews[i] = p
          BY <3>2, <2>6, <2>9 DEF PreviewsInv, n
        <4> QED BY <4>1, <1>0, <2>2
      <3> QED BY <3>1, <3>2
    <2>10. PreviewsInv'
      BY <2>1, <2>2, <2>7, <2>8, <2>9 DEF PreviewsInv
    <2>11. HistoryTypes'
      BY <1>0, <2>1, <2>5 DEF HistoryTypes, n
    <2>12. OvertakenInv'
      <3>1. Pending' = Pending /\ Pending = 0
        BY <1>0, QueuesAssumption DEF Pending, Builds
      <3>2. ASSUME NEW i \in 1 .. (n + 1), channel'[previews'[i]] = "open"
            PROVE  /\ i <= ahead'[previews'[i]] + 1
                   /\ passedBy'[previews'[i]] + Pending'
                        <= EnvironmentBurst * (ahead'[previews'[i]] + 1 - i) + overtaken'
        <4>1. CASE i = n + 1
          <5>1. EnvironmentBurst * (n + 1 - i) = 0 /\ overtaken \in Nat
            BY <4>1, <2>2, BurstAssumption DEF HistoryTypes
          <5>2. /\ previews'[i] = b /\ ahead'[b] = n /\ passedBy'[b] = 0
                /\ Pending' = 0 /\ overtaken' = overtaken
            BY <4>1, <2>2, <2>6, <1>0, <3>1
          <5> QED BY <4>1, <5>1, <5>2, <2>2
        <4>2. CASE i # n + 1
          <5>1. i \in 1 .. n /\ previews'[i] = previews[i] /\ previews[i] \in Previews \ {b}
            BY <4>2, <2>2, <2>3, <2>4
          <5>2. Within(previews[i], i)
            BY <5>1, <3>2, <2>6 DEF OvertakenInv, n
          <5> QED BY <5>1, <5>2, <3>1, <2>6, <1>0 DEF Within
        <4> QED BY <4>1, <4>2
      <3> QED BY <3>2, <2>2, OvertakenNext
    <2>13. NotPassedTooOften'
      <3>1. 0 <= EnvironmentBurst * (n + 1)
        BY <2>2, BurstAssumption
      <3> QED BY <3>1, <2>6 DEF NotPassedTooOften
    <2> QED BY <2>10, <2>11, <2>12, <2>13
  <1> QED BY <1>1, <1>2 DEF Builds

\* `next' picks a build: an environment build counts as one more that overtook
\* the previews that wait, a preview build starts a new burst for the others,
\* each of which is a place further.
LEMMA PickKeepsBInv ==
  ASSUME QInv, BInv, Pick
  PROVE  BInv'
  <1> DEFINE es == Retain(environments)
             ps == Retain(previews)
  <1> USE DEF QInv, QTypes
  <1>0. /\ picked = NoBuild
        /\ es # <<>> \/ ps # <<>>
        /\ channel' = [b \in Builds |->
                          IF channel[b] = "closed" THEN "none" ELSE channel[b]]
        /\ stage' = stage /\ ahead' = ahead /\ passedBy' = passedBy
    BY DEF Pick, DropClosed, history
  <1>1. es \in Seq(Environments)
    BY RetainKeeps DEF BInv, PreviewsInv
  <1>2. /\ ps \in Seq(Previews)
        /\ Distinct(ps)
        /\ \A k \in 1 .. Len(ps) : channel[ps[k]] = "open" /\ Within(ps[k], k)
        /\ \A p \in Previews : channel[p] = "open" =>
              \E k \in 1 .. Len(ps) : ps[k] = p
    BY <1>0, RetainedPreviews
  <1>3. Pending = 0
    BY <1>0, QueuesAssumption DEF Pending, Builds
  <1>4. \A p \in Previews : channel'[p] = "open" <=> channel[p] = "open"
    BY <1>0 DEF Builds
  <1>5. /\ ahead \in [Previews -> Nat] /\ passedBy \in [Previews -> Nat]
        /\ overtaken \in Nat /\ overtaken <= EnvironmentBurst
        /\ EnvironmentBurst \in Nat
    BY BurstAssumption DEF BInv, HistoryTypes
  <1>6. NotPassedTooOften'
    BY <1>0 DEF BInv, NotPassedTooOften
  <1>7. CASE EnvironmentGoes(es, ps)
    <2>1. /\ es # <<>> /\ picked' = Head(es) /\ environments' = Tail(es)
          /\ previews' = ps /\ overtaken' = Overtaken(ps)
          /\ ps = <<>> \/ overtaken < EnvironmentBurst
      BY <1>7 DEF Pick, EnvironmentGoes
    <2> HIDE DEF es, ps
    <2>2. picked' \in Environments /\ environments' \in Seq(Environments)
      BY <1>1, <2>1
    <2>3. Pending' = 1
      BY <2>2 DEF Pending
    <2>4. \A k \in 1 .. Len(ps) : ps[k] \in Previews /\ ps[k] # picked'
      BY <1>2, <2>2, QueuesAssumption
    <2>5. PreviewsInv'
      BY <1>2, <1>4, <2>1, <2>2, <2>4 DEF PreviewsInv
    <2>6. /\ ps # <<>> => overtaken' = overtaken + 1
          /\ overtaken' \in 0 .. EnvironmentBurst
      BY <2>1, <1>5 DEF Overtaken
    <2>7. HistoryTypes'
      BY <1>0, <2>6 DEF BInv, HistoryTypes
    <2>8. OvertakenInv'
      <3>1. ASSUME NEW k \in 1 .. Len(ps)
            PROVE  /\ k <= ahead'[ps[k]] + 1
                   /\ passedBy'[ps[k]] + Pending'
                        <= EnvironmentBurst * (ahead'[ps[k]] + 1 - k) + overtaken'
        <4>1. ps # <<>>
          BY <1>2
        <4>2. /\ k <= ahead[ps[k]] + 1
              /\ passedBy[ps[k]] + 0
                   <= EnvironmentBurst * (ahead[ps[k]] + 1 - k) + overtaken
          BY <1>2, <1>3 DEF Within
        <4>3. EnvironmentBurst * (ahead[ps[k]] + 1 - k) \in Nat
          <5>1. k \in Nat /\ k <= k /\ ahead[ps[k]] \in Nat
            BY <2>4, <1>5
          <5> QED BY <5>1, <4>2, BurstPerPlace
        <4>4. passedBy[ps[k]] + 1
                <= EnvironmentBurst * (ahead[ps[k]] + 1 - k) + (overtaken + 1)
          BY <4>2, <4>3, <2>4, <1>5
        <4>5. /\ ahead' = ahead /\ passedBy' = passedBy
              /\ overtaken' = overtaken + 1 /\ Pending' = 1
          BY <1>0, <2>3, <2>6, <4>1
        <4> QED BY <4>2, <4>4, <4>5
      <3> QED BY <3>1, <2>1, OvertakenNext
    <2> QED BY <1>6, <2>5, <2>7, <2>8 DEF BInv
  <1>8. CASE ~ EnvironmentGoes(es, ps)
    <2>1. /\ picked' = Head(ps) /\ environments' = es
          /\ previews' = Tail(ps) /\ overtaken' = 0
      BY <1>8 DEF Pick
    <2>2. ps # <<>>
      BY <1>0, <1>8 DEF EnvironmentGoes
    <2> HIDE DEF es, ps
    <2>3. /\ picked' = ps[1] /\ 1 \in 1 .. Len(ps)
          /\ previews' \in Seq(Previews) /\ Len(previews') = Len(ps) - 1
          /\ Len(ps) \in Nat
          /\ \A k \in 1 .. (Len(ps) - 1) :
                previews'[k] = ps[k + 1] /\ k + 1 \in 1 .. Len(ps) /\ ps[k + 1] \in Previews
      BY <1>2, <2>1, <2>2
    <2>4. Pending' = 0
      BY <1>2, <2>3, QueuesAssumption DEF Pending
    <2>5. Distinct(previews)'
      <3>1. ASSUME NEW i \in 1 .. (Len(ps) - 1), NEW j \in 1 .. (Len(ps) - 1),
                   previews'[i] = previews'[j]
            PROVE  i = j
        <4>1. i + 1 = j + 1
          BY <3>1, <2>3, <1>2 DEF Distinct
        <4> QED BY <4>1
      <3> QED BY <3>1, <2>3 DEF Distinct
    <2>6. \A k \in 1 .. (Len(ps) - 1) :
             channel'[previews'[k]] \in {"open", "closed"} /\ previews'[k] # picked'
      <3>1. ASSUME NEW k \in 1 .. (Len(ps) - 1)
            PROVE  ps[k + 1] # ps[1] /\ channel'[ps[k + 1]] = "open"
        <4>1. k + 1 # 1
          OBVIOUS
        <4> QED BY <4>1, <2>3, <1>2, <1>4 DEF Distinct
      <3> QED BY <3>1, <2>3
    <2>7. ASSUME NEW p \in Previews, channel'[p] = "open"
          PROVE  p = picked' \/ \E i \in 1 .. (Len(ps) - 1) : previews'[i] = p
      <3>1. PICK k \in 1 .. Len(ps) : ps[k] = p
        BY <2>7, <1>2, <1>4
      <3>2. CASE k = 1
        BY <3>1, <3>2, <2>3
      <3>3. CASE k # 1
        <4>1. k - 1 \in 1 .. (Len(ps) - 1) /\ (k - 1) + 1 = k
          BY <3>3, <2>3
        <4> QED BY <4>1, <3>1, <2>3
      <3> QED BY <3>2, <3>3
    <2>8. PreviewsInv'
      BY <1>1, <2>1, <2>3, <2>5, <2>6, <2>7 DEF PreviewsInv
    <2>9. HistoryTypes'
      BY <1>0, <1>5, <2>1 DEF BInv, HistoryTypes
    <2>10. OvertakenInv'
      <3>1. ASSUME NEW k \in 1 .. (Len(ps) - 1)
            PROVE  /\ k <= ahead'[previews'[k]] + 1
                   /\ passedBy'[previews'[k]] + Pending'
                        <= EnvironmentBurst * (ahead'[previews'[k]] + 1 - k) + overtaken'
        <4> DEFINE p == ps[k + 1]
        <4>1. /\ p \in Previews /\ previews'[k] = p /\ k \in Nat /\ k + 1 \in Nat
              /\ k < k + 1 /\ k <= k + 1
          BY <2>3
        <4>2. /\ k + 1 <= ahead[p] + 1
              /\ passedBy[p] + 0 <= EnvironmentBurst * (ahead[p] + 1 - (k + 1)) + overtaken
          BY <1>2, <1>3, <2>3 DEF Within
        <4> HIDE DEF p
        <4>3. ahead[p] \in Nat /\ passedBy[p] \in Nat
          BY <4>1, <1>5
        <4>4. /\ EnvironmentBurst * (ahead[p] + 1 - (k + 1)) \in Nat
              /\ EnvironmentBurst * (ahead[p] + 1 - k) \in Nat
              /\ EnvironmentBurst * (ahead[p] + 1 - (k + 1)) + EnvironmentBurst
                    <= EnvironmentBurst * (ahead[p] + 1 - k)
          BY <4>1, <4>2, <4>3, BurstPerPlace
        <4>5. passedBy[p] + 0 <= EnvironmentBurst * (ahead[p] + 1 - k) + 0
          BY <4>2, <4>3, <4>4, <1>5
        <4>6. k <= ahead[p] + 1
          BY <4>1, <4>2, <4>3
        <4>7. /\ ahead' = ahead /\ passedBy' = passedBy
              /\ overtaken' = 0 /\ Pending' = 0
          BY <1>0, <2>1, <2>4
        <4> QED BY <4>1, <4>5, <4>6, <4>7
      <3> QED BY <3>1, <2>3, OvertakenNext
    <2> QED BY <1>6, <2>8, <2>9, <2>10 DEF BInv
  <1> QED BY <1>7, <1>8

\* The turn is sent: if to an environment build, the previews that wait were
\* passed over, which their bound had already counted.
LEMMA SendKeepsBInv ==
  ASSUME QInv, BInv, Send
  PROVE  BInv'
  <1> USE DEF QInv, QTypes, BInv
  <1>0. /\ picked \in Builds /\ channel[picked] = "open"
        /\ channel' = [channel EXCEPT ![picked] = "sent"]
        /\ picked' = NoBuild
        /\ passedBy' = [p \in Previews |-> IF p \in PassedOver(picked)
                                           THEN passedBy[p] + 1 ELSE passedBy[p]]
        /\ stage' = [stage EXCEPT ![passer] = "idle"]
        /\ environments' = environments /\ previews' = previews
        /\ overtaken' = overtaken /\ ahead' = ahead
    BY DEF Send, EndPass, queues
  <1>1. /\ \A p \in Previews : stage'[p] = "waiting" => stage[p] = "waiting"
        /\ \A b \in Builds : b # picked => channel'[b] = channel[b]
        /\ channel'[picked] = "sent"
    BY <1>0 DEF Builds
  <1>2. \A i \in 1 .. Len(previews) :
           previews[i] \in Previews /\ previews[i] \in Builds /\ previews[i] # picked
    BY DEF PreviewsInv, Builds
  <1>3. PreviewsInv'
    <2>1. \A i \in 1 .. Len(previews) :
             channel'[previews[i]] \in {"open", "closed"} /\ previews[i] # NoBuild
      BY <1>1, <1>2, QueuesAssumption DEF PreviewsInv
    <2>2. ASSUME NEW p \in Previews, channel'[p] = "open"
          PROVE  \E i \in 1 .. Len(previews) : previews[i] = p
      <3>1. p # picked /\ channel[p] = "open"
        BY <2>2, <1>1 DEF Builds
      <3> QED BY <3>1 DEF PreviewsInv
    <2> QED BY <1>0, <2>1, <2>2 DEF PreviewsInv, Distinct
  <1>4. \A p \in Previews : passedBy[p] \in Nat /\ ahead[p] \in Nat
    BY DEF HistoryTypes
  <1>5. HistoryTypes'
    BY <1>0, <1>4 DEF HistoryTypes
  <1>6. \A p \in Previews : passedBy'[p] <= passedBy[p] + Pending
    BY <1>0, <1>4 DEF PassedOver, Pending
  <1>7. Pending' = 0 /\ Pending \in Nat
    BY <1>0, QueuesAssumption DEF Pending, Builds
  <1>8. OvertakenInv'
    <2>1. ASSUME NEW i \in 1 .. Len(previews), channel'[previews[i]] = "open"
          PROVE  /\ i <= ahead[previews[i]] + 1
                 /\ passedBy'[previews[i]] + 0
                      <= EnvironmentBurst * (ahead[previews[i]] + 1 - i) + overtaken
      <3> DEFINE p == previews[i]
      <3>1. p \in Previews /\ Within(p, i)
        BY <2>1, <1>1, <1>2 DEF OvertakenInv
      <3> HIDE DEF p
      <3>2. EnvironmentBurst * (ahead[p] + 1 - i) \in Nat /\ overtaken \in Nat
        <4>1. i \in Nat /\ i <= i /\ ahead[p] \in Nat /\ i <= ahead[p] + 1
          BY <3>1, <1>4 DEF Within
        <4>2. overtaken \in Nat
          BY DEF HistoryTypes
        <4> QED BY <4>1, <4>2, BurstPerPlace
      <3>3. passedBy'[p] + 0 <= EnvironmentBurst * (ahead[p] + 1 - i) + overtaken
        <4>1. passedBy'[p] \in Nat /\ passedBy[p] \in Nat
          BY <1>4, <1>5, <3>1 DEF HistoryTypes
        <4>2. passedBy[p] + Pending <= EnvironmentBurst * (ahead[p] + 1 - i) + overtaken
          BY <3>1 DEF Within
        <4> QED BY <4>1, <4>2, <1>6, <1>7, <3>1, <3>2
      <3>4. i <= ahead[p] + 1
        BY <3>1 DEF Within
      <3> QED BY <3>3, <3>4 DEF p
    <2> QED BY <2>1, <1>0, <1>7, OvertakenNext
  <1>9. NotPassedTooOften'
    <2>1. ASSUME NEW p \in Previews, stage'[p] = "waiting"
          PROVE  passedBy'[p] <= EnvironmentBurst * (ahead[p] + 1)
      <3>1. passedBy[p] <= EnvironmentBurst * (ahead[p] + 1)
        BY <2>1, <1>1 DEF NotPassedTooOften
      <3>2. CASE p \notin PassedOver(picked)
        BY <3>1, <3>2, <1>0
      <3>3. CASE p \in PassedOver(picked)
        <4>1. picked \in Environments /\ channel[p] = "open" /\ p # picked
          BY <3>3, QueuesAssumption DEF PassedOver
        <4>2. PICK i \in 1 .. Len(previews) : previews[i] = p
          BY <4>1 DEF PreviewsInv
        <4>3. Within(p, i) /\ i \in Nat \ {0}
          BY <4>1, <4>2 DEF OvertakenInv
        <4>4. passedBy[p] + Pending <= EnvironmentBurst * (ahead[p] + 1)
          BY <4>3, WithinIsEnough
        <4>5. Pending = 1 /\ passedBy'[p] = passedBy[p] + 1
          BY <3>3, <4>1, <1>0 DEF Pending
        <4> QED BY <4>4, <4>5
      <3> QED BY <3>2, <3>3
    <2> QED BY <2>1, <1>0 DEF NotPassedTooOften
  <1> QED BY <1>3, <1>5, <1>8, <1>9

\* The picked build is gone, or nobody waits.
LEMMA OtherPassingKeepsBInv ==
  ASSUME QInv, BInv, SendFails \/ FreeTurn
  PROVE  BInv'
  <1> USE DEF QInv, QTypes, BInv
  <1>1. CASE SendFails
    <2>1. /\ picked \in Builds /\ channel[picked] # "open" /\ picked' = NoBuild
          /\ channel' = [channel EXCEPT ![picked] = "none"]
          /\ environments' = environments /\ previews' = previews
          /\ overtaken' = overtaken /\ ahead' = ahead /\ passedBy' = passedBy
          /\ stage' = stage
      BY <1>1 DEF SendFails, queues, history
    <2>2. \A i \in 1 .. Len(previews) :
             /\ previews[i] \in Previews /\ previews[i] \in Builds
             /\ previews[i] # picked /\ previews[i] # NoBuild
      BY QueuesAssumption DEF PreviewsInv, Builds
    <2>3. \A b \in Builds : channel'[b] = IF b = picked THEN "none" ELSE channel[b]
      BY <2>1
    <2>4. PreviewsInv'
      <3>1. ASSUME NEW p \in Previews, channel'[p] = "open"
            PROVE  \E i \in 1 .. Len(previews) : previews[i] = p
        <4>1. p # picked /\ channel[p] = "open"
          BY <3>1, <2>3 DEF Builds
        <4> QED BY <4>1 DEF PreviewsInv
      <3> QED BY <3>1, <2>1, <2>2, <2>3 DEF PreviewsInv, Distinct
    <2>5. Pending' = 0 /\ Pending \in Nat /\ 0 <= Pending
      BY <2>1, QueuesAssumption DEF Pending, Builds
    <2>6. HistoryTypes' /\ NotPassedTooOften'
      BY <2>1 DEF HistoryTypes, NotPassedTooOften
    <2>7. OvertakenInv'
      <3>1. ASSUME NEW i \in 1 .. Len(previews), channel'[previews[i]] = "open"
            PROVE  /\ i <= ahead[previews[i]] + 1
                   /\ passedBy[previews[i]] + 0
                        <= EnvironmentBurst * (ahead[previews[i]] + 1 - i) + overtaken
        <4> DEFINE p == previews[i]
        <4>1. p \in Previews /\ Within(p, i)
          BY <3>1, <2>2, <2>3 DEF OvertakenInv
        <4>2. ahead[p] \in Nat /\ passedBy[p] \in Nat /\ overtaken \in Nat
          BY <4>1 DEF HistoryTypes
        <4> HIDE DEF p
        <4>3. EnvironmentBurst * (ahead[p] + 1 - i) \in Nat
          <5>1. i \in Nat /\ i <= i /\ i <= ahead[p] + 1
            BY <4>1 DEF Within
          <5> QED BY <5>1, <4>2, BurstPerPlace
        <4>4. passedBy[p] + 0 <= EnvironmentBurst * (ahead[p] + 1 - i) + overtaken
          BY <4>1, <4>2, <4>3, <2>5 DEF Within
        <4>5. i <= ahead[p] + 1
          BY <4>1 DEF Within
        <4> QED BY <4>4, <4>5 DEF p
      <3> QED BY <3>1, <2>1, <2>5, OvertakenNext
    <2> QED BY <2>4, <2>6, <2>7
  <1>2. CASE FreeTurn
    <2>1. /\ picked = NoBuild /\ picked' = picked /\ Retain(previews) = <<>>
          /\ environments' = <<>> /\ previews' = <<>> /\ overtaken' = 0
          /\ channel' = [b \in Builds |->
                            IF channel[b] = "closed" THEN "none" ELSE channel[b]]
          /\ stage' = [stage EXCEPT ![passer] = "idle"]
          /\ ahead' = ahead /\ passedBy' = passedBy
      BY <1>2 DEF FreeTurn, DropClosed, EndPass, history
    <2>2. \A p \in Previews : channel[p] # "open"
      <3>1. \A p \in Previews : channel[p] = "open" =>
               \E k \in 1 .. Len(Retain(previews)) : Retain(previews)[k] = p
        BY <2>1, RetainedPreviews
      <3>2. 1 .. Len(Retain(previews)) = {}
        BY <2>1
      <3> QED BY <3>1, <3>2
    <2>3. \A p \in Previews : channel'[p] # "open"
      BY <2>1, <2>2 DEF Builds
    <2>4. PreviewsInv' /\ OvertakenInv'
      BY <2>1, <2>3 DEF PreviewsInv, OvertakenInv, Distinct
    <2>5. HistoryTypes'
      BY <2>1, BurstAssumption DEF HistoryTypes
    <2>6. NotPassedTooOften'
      BY <2>1 DEF NotPassedTooOften, Builds
    <2> QED BY <2>4, <2>5, <2>6
  <1> QED BY <1>1, <1>2

\* Every behaviour of the queue keeps its order and its count of bursts.
THEOREM QueueOrder == Spec => [](QInv /\ BInv)
  <1>1. QInv /\ BInv /\ [Next]_vars => BInv'
    <2> SUFFICES ASSUME QInv, BInv, [Next]_vars PROVE BInv'
      OBVIOUS
    <2>1. CASE UNCHANGED vars
      BY <2>1, QuietKeepsBInv DEF vars, queues, history
    <2>2. CASE PassStep
      BY <2>2, PickKeepsBInv, SendKeepsBInv, OtherPassingKeepsBInv DEF PassStep
    <2>3. ASSUME NEW b \in Builds,
                 WaitStep(b) \/ TakeTurn(b) \/ WaitForTurn(b) \/ Cancel(b)
          PROVE  BInv'
      BY <2>3, BuildKeepsBInv, WaitForTurnKeepsBInv
    <2> QED BY <2>1, <2>2, <2>3 DEF Next
  <1> QED BY <1>1, InitBInv, QueueInvariant, PTL DEF Spec

\* For any finite set of previews and any burst, ENVIRONMENT_BURST bounds how
\* often a waiting preview build is passed over: a burst for each preview build
\* that was queued before it and one for itself, whoever is cancelled when.
THEOREM PreviewsNotStarved == Spec => []PreviewsAreNotStarved
  <1>1. QInv /\ BInv => PreviewsAreNotStarved
    <2> SUFFICES ASSUME QInv, BInv PROVE PreviewsAreNotStarved
      OBVIOUS
    <2>1. BTypeOK
      BY DEF BTypeOK, QInv, QTypes, BInv, PreviewsInv, HistoryTypes
    <2> QED BY <2>1 DEF PreviewsAreNotStarved, BInv, NotPassedTooOften
  <1> QED BY <1>1, QueueOrder, PTL
==============================================================================
