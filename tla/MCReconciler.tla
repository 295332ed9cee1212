----------------------------- MODULE MCReconciler -----------------------------
(* Instances of Reconciler for TLC. *)
EXTENDS Reconciler

\* Two services, of which the second target drops one.
TwoServices == {"web", "worker"}
WantedOfTwo == [t \in Ops |-> IF t = 2 THEN {"web"} ELSE TwoServices]

\* One service that every target declares.
OneService == {"web"}
WantedOfOne == [t \in Ops |-> OneService]

\* Clients request two operations; what comes after these are rollbacks.  No
\* step of the daemon is cut off: a rollback is the only operation it requests.
TwoRequests == count' > 2 => rolledBack'[count'] # 0
RollbackSpec == Init /\ [][Next /\ TwoRequests]_vars /\ Fairness

=============================================================================
