------------------------------ MODULE SyncTask ------------------------------
(***************************************************************************)
(* The life of a synchronisation task: the sync_task row, the asyncio      *)
(* coroutine that works for it, the in-memory registry _running_tasks, and *)
(* the three API handlers that touch them (trigger, cancel, delete source).*)
(*                                                                         *)
(* All actors run on one event loop, so a stretch of code between two      *)
(* awaits is one action, and every await is a place where the others may   *)
(* step in, where a cancellation arrives, and where the process may die.   *)
(* A task identifier stands for one trigger request: trigger t always asks *)
(* for the source SourceOf[t].  What the work in the middle does to files  *)
(* is left out here; it may end well or raise, and a dry run is the case   *)
(* where it does nothing.                                                  *)
(***************************************************************************)
EXTENDS FiniteSets

CONSTANTS
    TaskId,         \* trigger requests, each one a future sync_task row
    SourceId,       \* repository_source rows present at the start
    SourceOf,       \* the source a trigger request names
    Faults          \* what may interfere, see FaultKind

ASSUME SourceOfType == SourceOf \in [TaskId -> SourceId]

(* "cancel": administrators cancel tasks; "crash": the process dies and is *)
(* restarted; "locked": a commit fails because another transaction holds   *)
(* SQLite's write lock for longer than the busy timeout; "unread": a read  *)
(* of the database fails, for want of a connection or otherwise, the       *)
(* refresh after a commit included; "recovery": the health checker finds a *)
(* source up again that it had declared down.                              *)
FaultKind == {"cancel", "crash", "locked", "unread", "recovery"}
ASSUME FaultsType == Faults \subseteq FaultKind

VARIABLES
    sources,        \* ids of the repository_source rows
    lastSync,       \* committed repository_source.last_sync_status
    status,         \* committed sync_task.status, "absent" without a row
    pc,             \* where the trigger handler, then the coroutine, stands
    registry,       \* keys of SyncEngine._running_tasks
    cancelSent,     \* coroutines with a CancelledError on its way
    sawFailed,      \* tasks whose except block has read a source that
                    \* already carried "failed"
    cancelRead,     \* tasks whose cancel handler has passed the status check
    deleting        \* sources whose delete handler has passed the count check

vars == <<sources, lastSync, status, pc, registry,
          cancelSent, sawFailed, cancelRead, deleting>>

(* What a coroutine's steps seldom touch: what its except block has read,  *)
(* and the other requests in flight.                                       *)
handlers == <<sawFailed, cancelRead, deleting>>

Terminal == {"completed", "failed", "cancelled"}
Status   == {"absent", "running"} \cup Terminal

(***************************************************************************)
(* Places of a coroutine.  Body is the try block of _execute, Handlers its *)
(* two except blocks; in all of them the coroutine is suspended at an      *)
(* await.  "completed", "cancelled" and "failed" are the await that        *)
(* follows the commit of that status.                                      *)
(***************************************************************************)
Body     == {"fetching", "working", "completed"}
Handlers == {"cancelling", "cancelled", "failing", "failed"}
Live     == {"created"} \cup Body \cup Handlers
Trigger  == {"checked", "inserted"}
Ended    == {"refused",     \* the trigger request ended with an error
             "unstarted",   \* ... after it had committed the row
             "done",        \* the coroutine ran to its end
             "neverRan",    \* cancelled before its first step
             "aborted",     \* an except block was interrupted
             "lost"}        \* the process died
Place    == {"idle"} \cup Trigger \cup Live \cup Ended

TypeOK ==
    /\ sources \subseteq SourceId
    /\ lastSync \in [SourceId -> {"never", "success", "failed"}]
    /\ status \in [TaskId -> Status]
    /\ pc \in [TaskId -> Place]
    /\ registry \subseteq TaskId
    /\ cancelSent \subseteq TaskId
    /\ sawFailed \subseteq TaskId
    /\ cancelRead \subseteq TaskId
    /\ deleting \subseteq SourceId

Init ==
    /\ sources = SourceId
    /\ lastSync = [s \in SourceId |-> "never"]
    /\ status = [t \in TaskId |-> "absent"]
    /\ pc = [t \in TaskId |-> "idle"]
    /\ registry = {}
    /\ cancelSent = {}
    /\ sawFailed = {}
    /\ cancelRead = {}
    /\ deleting = {}

HasRow(t)    == status[t] # "absent"
HasSource(t) == SourceOf[t] \in sources
Goto(t, p)   == pc' = [pc EXCEPT ![t] = p]
Commit(t, s) == status' = [status EXCEPT ![t] = s]

(* Mutant of Leave: no finally block, the registry keeps its entry. *)
LeaveRegistered(t, p) == Goto(t, p) /\ UNCHANGED registry

(* The finally block of _execute. *)
Leave(t, p) == /\ Goto(t, p)
               /\ registry' = registry \ {t}

-----------------------------------------------------------------------------
(* POST /sync/trigger, or the scheduler's sync_job, and SyncEngine.run. *)

(* session.get(RepositorySource): a missing or disabled source ends the    *)
(* request, and so does a missing or disabled policy a scheduled one.      *)
TriggerRead(t) ==
    /\ pc[t] = "idle"
    /\ \/ HasSource(t) /\ Goto(t, "checked")
       \/ Goto(t, "refused")
    /\ UNCHANGED <<sources, lastSync, status, registry, cancelSent, handlers>>

(* INSERT and commit.  PRAGMA foreign_keys is set on one connection of the *)
(* pool only, so the insert also succeeds for a source deleted meanwhile.  *)
TriggerInsert(t) ==
    /\ pc[t] = "checked"
    /\ Commit(t, "running")
    /\ Goto(t, "inserted")
    /\ UNCHANGED <<sources, lastSync, registry, cancelSent, handlers>>

(* ... unless the connection is the one that enforces the foreign key, or  *)
(* the commit fails.                                                       *)
TriggerRejected(t) ==
    /\ pc[t] = "checked"
    /\ ~HasSource(t) \/ "locked" \in Faults
    /\ Goto(t, "refused")
    /\ UNCHANGED <<sources, lastSync, status, registry, cancelSent, handlers>>

(* A row that was committed is read again, and that may raise. *)
RefreshRaises(t) == ~HasRow(t) \/ "unread" \in Faults

(* After session.refresh, create_task and the registration happen without  *)
(* an await between them.  If it raises, run ends and nobody is left to    *)
(* settle the row.                                                         *)
TriggerStart(t) ==
    /\ pc[t] = "inserted"
    /\ \/ HasRow(t) /\ Goto(t, "created") /\ registry' = registry \cup {t}
       \/ RefreshRaises(t) /\ Goto(t, "unstarted") /\ UNCHANGED registry
    /\ UNCHANGED <<sources, lastSync, status, cancelSent, handlers>>

-----------------------------------------------------------------------------
(* The coroutine _execute.  A step needs that no cancellation is pending.  *)

Runs(t, p) == pc[t] = p /\ t \notin cancelSent

(* First step: read source and task.  When one is missing the code calls   *)
(* _update_task(None, ...), which raises into the except block.            *)
Start(t) ==
    /\ Runs(t, "created")
    /\ Goto(t, IF HasRow(t) /\ HasSource(t) THEN "fetching" ELSE "failing")
    /\ UNCHANGED <<sources, lastSync, status, registry, cancelSent, handlers>>

(* Index fetched and filtered, total committed: an UPDATE of a row that is *)
(* gone raises StaleDataError.                                             *)
RecordTotal(t) ==
    /\ Runs(t, "fetching")
    /\ Goto(t, IF HasRow(t) THEN "working" ELSE "failing")
    /\ UNCHANGED <<sources, lastSync, status, registry, cancelSent, handlers>>

(* Any other exception of the body: network, HTTP status, JSON, database. *)
BodyRaises(t) ==
    /\ Runs(t, "fetching") \/ Runs(t, "working")
    /\ Goto(t, "failing")
    /\ UNCHANGED <<sources, lastSync, status, registry, cancelSent, handlers>>

Complete(t) ==
    /\ Runs(t, "working")
    /\ IF HasRow(t)
         THEN Commit(t, "completed") /\ Goto(t, "completed")
         ELSE UNCHANGED status /\ Goto(t, "failing")
    /\ UNCHANGED <<sources, lastSync, registry, cancelSent, handlers>>

(* session.refresh, then source.last_sync_status = "success" on an object  *)
(* of a session that is closed without another commit: nothing is stored.  *)
(* A refresh that raises takes a task that has recorded its success into   *)
(* except Exception.                                                       *)
Finish(t) ==
    /\ Runs(t, "completed")
    /\ \/ HasRow(t) /\ Leave(t, "done")
       \/ RefreshRaises(t) /\ Goto(t, "failing") /\ UNCHANGED registry
    /\ UNCHANGED <<sources, lastSync, status, cancelSent, handlers>>

(* Mutant of FailTask: the source row is all that the failure is told to. *)
FailQuietly(t) ==
    /\ Runs(t, "failing")
    /\ Goto(t, "failed")
    /\ UNCHANGED <<sources, lastSync, status, registry, cancelSent, handlers>>

(* Mutant of FailTask: the body's last assignment, "completed", is what    *)
(* the commit stores.                                                      *)
FailCompletes(t) ==
    /\ Runs(t, "failing")
    /\ IF HasRow(t) THEN Commit(t, "completed") ELSE UNCHANGED status
    /\ Goto(t, "failed")
    /\ UNCHANGED <<sources, lastSync, registry, cancelSent, handlers>>

(* except Exception: both rows are read, the task row committed first,     *)
(* whatever it says,                                                       *)
FailTask(t) ==
    /\ Runs(t, "failing")
    /\ IF HasRow(t) THEN Commit(t, "failed") ELSE UNCHANGED status
    /\ Goto(t, "failed")
    /\ sawFailed' = IF lastSync[SourceOf[t]] = "failed" THEN sawFailed \cup {t}
                                                       ELSE sawFailed \ {t}
    /\ UNCHANGED <<sources, lastSync, registry, cancelSent, cancelRead, deleting>>

(* Mutant of FailSource: its session is closed without the commit. *)
FailSourceUnsaved(t) ==
    /\ Runs(t, "failed")
    /\ Leave(t, "done")
    /\ UNCHANGED <<sources, lastSync, status, cancelSent, handlers>>

(* then the source row, in a commit of its own; the status column is not   *)
(* part of the UPDATE when it read "failed" already.                       *)
FailSource(t) ==
    /\ Runs(t, "failed")
    /\ Leave(t, "done")
    /\ lastSync' = IF HasSource(t) /\ t \notin sawFailed
                     THEN [lastSync EXCEPT ![SourceOf[t]] = "failed"]
                     ELSE lastSync
    /\ UNCHANGED <<sources, status, cancelSent, handlers>>

(* Mutant of CancelTask: the misspelt status that no column check rejects. *)
CancelMisspelt(t) ==
    /\ Runs(t, "cancelling")
    /\ IF HasRow(t) THEN Commit(t, "canceled") ELSE UNCHANGED status
    /\ Goto(t, "cancelled")
    /\ UNCHANGED <<sources, lastSync, registry, cancelSent, handlers>>

(* Mutant of CancelTask: the task ends without recording why. *)
CancelUnrecorded(t) ==
    /\ Runs(t, "cancelling")
    /\ Goto(t, "cancelled")
    /\ UNCHANGED <<sources, lastSync, status, registry, cancelSent, handlers>>

(* except CancelledError *)
CancelTask(t) ==
    /\ Runs(t, "cancelling")
    /\ IF HasRow(t) THEN Commit(t, "cancelled") ELSE UNCHANGED status
    /\ Goto(t, "cancelled")
    /\ UNCHANGED <<sources, lastSync, registry, cancelSent, handlers>>

CancelLeave(t) ==
    /\ Runs(t, "cancelled")
    /\ Leave(t, "done")
    /\ UNCHANGED <<sources, lastSync, status, cancelSent, handlers>>

(* Inside an except block a read or a commit fails, the refresh after the  *)
(* commit included, or the row it updates has been deleted since it was    *)
(* read: the exception leaves the coroutine through the finally block.     *)
HandlerRaises(t) ==
    /\ \E p \in Handlers : Runs(t, p)
    /\ RefreshRaises(t) \/ ("locked" \in Faults /\ pc[t] # "cancelled")
    /\ Leave(t, "aborted")
    /\ UNCHANGED <<sources, lastSync, status, cancelSent, handlers>>

(* Mutant of CancelArrives: the cancellation is recorded wherever it       *)
(* arrives, after a failure too.                                           *)
CancelOverrules(t) ==
    /\ t \in cancelSent
    /\ cancelSent' = cancelSent \ {t}
    /\ \/ pc[t] = "created" /\ Goto(t, "neverRan") /\ UNCHANGED registry
       \/ pc[t] \in Body \cup Handlers /\ Goto(t, "cancelling") /\ UNCHANGED registry
    /\ UNCHANGED <<sources, lastSync, status, handlers>>

(* Mutant of CancelArrives: a coroutine that has not started keeps waiting. *)
CancelAwaited(t) ==
    /\ t \in cancelSent
    /\ \/ pc[t] = "created" /\ UNCHANGED <<pc, registry, cancelSent>>
       \/ /\ cancelSent' = cancelSent \ {t}
          /\ \/ pc[t] \in Body /\ Goto(t, "cancelling") /\ UNCHANGED registry
             \/ pc[t] \in Handlers /\ Leave(t, "aborted")
    /\ UNCHANGED <<sources, lastSync, status, handlers>>

(* The event loop throws CancelledError into the coroutine.  One that has  *)
(* not started is closed without entering the try block; one inside an     *)
(* except block leaves it at once, through the finally block.              *)
CancelArrives(t) ==
    /\ t \in cancelSent
    /\ cancelSent' = cancelSent \ {t}
    /\ \/ pc[t] = "created" /\ Goto(t, "neverRan") /\ UNCHANGED registry
       \/ pc[t] \in Body /\ Goto(t, "cancelling") /\ UNCHANGED registry
       \/ pc[t] \in Handlers /\ Leave(t, "aborted")
    /\ UNCHANGED <<sources, lastSync, status, handlers>>

-----------------------------------------------------------------------------
(* POST /sync/cancel/{id}: the status is read, then, after an await,       *)
(* SyncEngine.cancel looks the coroutine up in the registry.               *)

CancelRead(t) ==
    /\ "cancel" \in Faults
    /\ status[t] = "running"
    /\ cancelRead' = cancelRead \cup {t}
    /\ UNCHANGED <<sources, lastSync, status, pc, registry, cancelSent, sawFailed,
                   deleting>>

Cancellable(t) == t \in registry /\ pc[t] \in Live

CancelSend(t) ==
    /\ t \in cancelRead
    /\ cancelRead' = cancelRead \ {t}
    /\ cancelSent' = IF Cancellable(t) THEN cancelSent \cup {t} ELSE cancelSent
    /\ UNCHANGED <<sources, lastSync, status, pc, registry, sawFailed, deleting>>

(* DELETE /sources/{id}: counts the running tasks, then, after an await,   *)
(* deletes all task rows of the source and the source in one transaction.  *)
DeleteCheck(s) ==
    /\ s \in sources
    /\ \A t \in TaskId : SourceOf[t] = s => status[t] # "running"
    /\ deleting' = deleting \cup {s}
    /\ UNCHANGED <<sources, lastSync, status, pc, registry, cancelSent, sawFailed,
                   cancelRead>>

DeleteCommit(s) ==
    /\ s \in deleting
    /\ deleting' = deleting \ {s}
    /\ sources' = sources \ {s}
    /\ status' = [t \in TaskId |-> IF SourceOf[t] = s THEN "absent" ELSE status[t]]
    /\ UNCHANGED <<lastSync, pc, registry, cancelSent, sawFailed, cancelRead>>

(* The transaction fails and rolls back when a policy names the source. *)
DeleteRollback(s) ==
    /\ s \in deleting
    /\ deleting' = deleting \ {s}
    /\ UNCHANGED <<sources, lastSync, status, pc, registry, cancelSent, sawFailed,
                   cancelRead>>

(* run_health_check: a source that was down answers again, and its         *)
(* last_sync_status becomes "success" whatever its last task has left.     *)
HealthRecovers(s) ==
    /\ "recovery" \in Faults
    /\ s \in sources
    /\ lastSync' = [lastSync EXCEPT ![s] = "success"]
    /\ UNCHANGED <<sources, status, pc, registry, cancelSent, handlers>>

(* The process dies and starts again: memory is empty, rows stay, and the  *)
(* start-up code looks at no sync_task row.                                *)
Crash ==
    /\ "crash" \in Faults
    /\ pc' = [t \in TaskId |-> IF pc[t] \in Live \cup Trigger THEN "lost" ELSE pc[t]]
    /\ registry' = {}
    /\ cancelSent' = {}
    /\ sawFailed' = {}
    /\ cancelRead' = {}
    /\ deleting' = {}
    /\ UNCHANGED <<sources, lastSync, status>>

-----------------------------------------------------------------------------
TriggerStep(t) == \/ TriggerInsert(t) \/ TriggerRejected(t) \/ TriggerStart(t)

CoroutineStep(t) == \/ Start(t) \/ RecordTotal(t) \/ BodyRaises(t)
                    \/ Complete(t) \/ Finish(t)
                    \/ FailTask(t) \/ FailSource(t)
                    \/ CancelTask(t) \/ CancelLeave(t)
                    \/ HandlerRaises(t) \/ CancelArrives(t)

SourceStep(s) == \/ DeleteCheck(s) \/ DeleteCommit(s) \/ DeleteRollback(s)
                 \/ HealthRecovers(s)

Next ==
    \/ \E t \in TaskId : \/ TriggerRead(t) \/ TriggerStep(t)
                         \/ CoroutineStep(t)
                         \/ CancelRead(t) \/ CancelSend(t)
    \/ \E s \in SourceId : SourceStep(s)
    \/ Crash

Spec == Init /\ [][Next]_vars

(* The event loop resumes every coroutine whose await is over, and every   *)
(* await is (HTTP calls carry a total timeout, SQLite a busy timeout).     *)
(* Administrators, deletions and crashes are under no obligation.          *)
Fairness ==
    /\ \A t \in TaskId : /\ WF_vars(TriggerStep(t))
                         /\ WF_vars(CoroutineStep(t))
                         /\ WF_vars(CancelSend(t))

FairSpec == Spec /\ Fairness

-----------------------------------------------------------------------------
(* Safety. *)

(* Every coroutine that is still alive is in the registry, so an accepted  *)
(* cancellation request always finds it; and the registry never holds an   *)
(* ended coroutine, except one cancelled before its first step, whose      *)
(* finally block never runs and whose entry stays for good.                *)
RegistryFindsLive ==
    \A t \in TaskId :
        /\ pc[t] \in Live => t \in registry
        /\ t \in registry => pc[t] \in Live \cup {"neverRan"}

(* A row can read "running" with no coroutine left to settle it only when  *)
(* the request that committed it failed before it made the coroutine, or   *)
(* the coroutine was cancelled before it started, was interrupted inside   *)
(* an except block, or died with the process.  A coroutine that ends by    *)
(* itself never leaves its row behind in that state.                       *)
StuckOnlyIfInterrupted ==
    \A t \in TaskId :
        status[t] = "running" =>
            pc[t] \in Live \cup {"inserted", "unstarted", "neverRan", "aborted", "lost"}

(* The statuses a row can have while its coroutine stands at a place.      *)
(* Deletion of the source can remove the row at any time; apart from that  *)
(* the coroutine is the only writer of its row.                            *)
StatusAt ==
    [p \in Place |->
        CASE p \in {"idle", "checked", "refused"} -> {"absent"}
          [] p \in {"completed", "cancelled", "failed"} -> {"absent", p}
          [] p \in {"cancelling", "failing"} -> {"absent", "running", "completed"}
          [] p = "done" -> {"absent"} \cup Terminal
          [] p \in {"aborted", "lost"} -> Status
          [] OTHER -> {"absent", "running"}]

StatusFitsPlace == \A t \in TaskId : status[t] \in StatusAt[pc[t]]

(* The task row and the source row are written in two commits; a coroutine *)
(* that failed and ended by itself has made both, and only a health check  *)
(* can overwrite what it has told the source.                              *)
FailureReachesSource ==
    \A t \in TaskId :
        (pc[t] = "done" /\ status[t] = "failed" /\ HasSource(t))
            => \/ lastSync[SourceOf[t]] = "failed"
               \/ "recovery" \in Faults /\ lastSync[SourceOf[t]] = "success"

(* What a client that polls the task sees: the row as TaskRow describes it. *)
RowOf(t) == IF HasRow(t) THEN status[t]
            ELSE IF pc[t] \in {"idle", "checked"} THEN "none" ELSE "gone"

Row == INSTANCE TaskRow WITH row <- [t \in TaskId |-> RowOf(t)]

(* The rows behave as TaskRow allows: a settled row never runs again, the  *)
(* only settled row that still changes is a completed one that a late      *)
(* cancellation or a late failure overrules, and a removed row is never    *)
(* written again.                                                          *)
ImplementsRow == Row!Spec

-----------------------------------------------------------------------------
(* Liveness, under Fairness. *)

(* Whatever is cancelled, deleted or crashes: every coroutine ends. *)
CoroutinesEnd == \A t \in TaskId : (pc[t] \in Live) ~> (pc[t] \in Ended)

(* A cancellation that reaches a coroutine inside its try block is         *)
(* recorded in the row, unless the row is deleted or the recording itself  *)
(* is interrupted.                                                         *)
CancelIsRecorded ==
    \A t \in TaskId :
        (t \in cancelSent /\ pc[t] \in Body)
            ~> (status[t] \in {"cancelled", "absent"} \/ pc[t] \in {"aborted", "lost"})

(* Every running row is settled or removed, unless its coroutine was never *)
(* made, or was interrupted: cancelled before it started or inside an      *)
(* except block, stopped there by a failing read or commit, or lost with   *)
(* the process.                                                            *)
RunningSettles ==
    \A t \in TaskId :
        (status[t] = "running")
            ~> \/ status[t] # "running"
               \/ pc[t] \in {"unstarted", "neverRan", "aborted", "lost"}

-----------------------------------------------------------------------------
(* What the documentation, the comments and the replies of the handlers    *)
(* say, and the code does not do.                                          *)

(* docs/sync.md: a completed, failed or cancelled task cannot be cancelled. *)
SettledCannotBeCancelled ==
    [][\A t \in TaskId :
         status[t] \in Terminal => (status'[t] = "cancelled" => status[t] = "cancelled")]_vars

(* delete_source: refuses while a synchronisation task is running. *)
DeleteSparesRunning ==
    [][\A t \in TaskId : status[t] = "running" => status'[t] # "absent"]_vars
=============================================================================
