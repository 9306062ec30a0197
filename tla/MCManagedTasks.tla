--------------------------- MODULE MCManagedTasks ---------------------------
(* Instances of ManagedTasks for TLC. *)
EXTENDS ManagedTasks, TLC

\* Runs and actions are interchangeable identities.
Interchangeable == Permutations(Runs) \cup Permutations(Actions) \cup Permutations(Tasks)

\* Bounds of the safety run.  One task has two actions and may be cancelled, or two
\* tasks have one action: then the scan of one and the claim of the other interfere
\* with one open effect, which a cancellation only takes out of the scan.
TwoTasksOrTwoActions ==
    \/ \E t \in Tasks : status[t] = "none"
    \/ everCancelled = {} /\ \E a \in Actions : action[a] = "none"

\* Bounds of the live run.  One task with an action, which may be cancelled; or two
\* tasks that compete for the window of the scan, without actions and cancellations.
\* The first task is created first: names do not matter.  Nothing that is left out
\* is under a fairness condition.
First == CHOOSE t \in Tasks : TRUE
OneTaskOrTwoPlain ==
    \/ \A t \in Tasks \ {First} : status'[t] = "none"
    \/ /\ status'[First] # "none" /\ everCancelled' = {}
       /\ \A a \in Actions : action'[a] = "none"
LiveSpec == Init /\ [][Next /\ OneTaskOrTwoPlain]_vars /\ Fairness
=============================================================================
