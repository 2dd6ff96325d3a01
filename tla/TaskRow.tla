------------------------------- MODULE TaskRow -------------------------------
(***************************************************************************)
(* What a client of GET /api/v1/sync/tasks/{id} can observe of a task: its *)
(* status and how it changes.  SyncTask implements this specification.     *)
(***************************************************************************)
CONSTANT TaskId

VARIABLE row    \* "none" before the request, "gone" when there is no row
                \* and never will be one

Settled == {"completed", "failed", "cancelled"}

TypeOK == row \in [TaskId -> {"none", "running", "gone"} \cup Settled]

Init == row = [t \in TaskId |-> "none"]

Begin(t) == /\ row[t] = "none"
            /\ row' = [row EXCEPT ![t] = "running"]

Settle(t) == /\ row[t] = "running"
             /\ \E s \in Settled : row' = [row EXCEPT ![t] = s]

(* A cancellation that was sent while the task ran arrives after it has    *)
(* recorded its success, or the last look at the row fails then.           *)
Overrule(t) == /\ row[t] = "completed"
               /\ \E s \in {"cancelled", "failed"} : row' = [row EXCEPT ![t] = s]

(* Deleting a source removes all its rows at once; a request that is       *)
(* refused, or dies with the process, never has a row.                     *)
Vanish(T) == row' = [t \in TaskId |-> IF t \in T THEN "gone" ELSE row[t]]

Next == \/ \E t \in TaskId : Begin(t) \/ Settle(t) \/ Overrule(t)
        \/ \E T \in SUBSET TaskId : Vanish(T)

Spec == Init /\ [][Next]_row
=============================================================================
