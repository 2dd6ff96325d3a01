----------------------------- MODULE PolicyJobs -----------------------------
(***************************************************************************)
(* Synchronisation policies and the jobs the scheduler runs for them: the  *)
(* sync_policy rows, the three handlers that change them (create, update,  *)
(* delete), reload_jobs with the task it leaves behind, and sync_job.      *)
(*                                                                         *)
(* reload_jobs removes every job at once, and a task of its own reads the  *)
(* rows and adds the jobs again.  Two such loads may be under way together *)
(* and end in either order.  Jobs live in memory, rows in the database.    *)
(***************************************************************************)
EXTENDS FiniteSets, Naturals

CONSTANTS
  PolicyId,     \* every id that a policy of this run has or will have
  Schedule,     \* what policies.schedule may hold
  Parsable,     \* ... and from_crontab accepts
  Unset,        \* NULL in the row; of a job: there is none
  Request,      \* requests of administrators, each served once
  Load,         \* tasks running _load
  FirstRows,    \* rows a policy may have at the start
  AskedRows,    \* rows the requests ask for
  MaxRestarts   \* bound: restarts of the process

Row == [schedule : Schedule, enabled : BOOLEAN]

ASSUME PolicyJobsAssumption ==
  /\ Parsable \subseteq Schedule /\ Unset \in Schedule \ Parsable
  /\ FirstRows \subseteq Row /\ AskedRows \subseteq Row
  /\ MaxRestarts \in Nat
  /\ Load # {}

\* Enough tasks for one load of every request and the one of the start.
ASSUME EnoughLoads == Cardinality(Load) > Cardinality(Request)

VARIABLES
  policies,  \* ids of the sync_policy rows
  born,      \* ids in use so far: a new policy gets a fresh one
  row,       \* what the row of a policy holds, or held last
  req,       \* the requests: where they are, what they read and ask for
  jobs,      \* the schedule of each policy's job, or Unset
  load,      \* where each task is: "idle", "started", "read"
  seen,      \* the jobs a task is about to add
  newest,    \* the task that the last reload_jobs started
  outcome,   \* ... and how it ended: "pending", "done", "failed"
  late,      \* policies whose job was added by a task already overtaken
  fired,     \* sync_job of each policy: "idle", "reading", "starting"
  orphan,    \* policies whose job fired when their row was gone
  unheard,   \* policies whose handler ended between its commit and its
             \* reload, since the last reload
  restarts

database  == <<policies, born, row>>
scheduler == <<jobs, load, seen, newest, outcome, late>>
firing    == <<fired, orphan>>
history   == <<unheard, restarts>>
vars == <<database, req, scheduler, firing, history>>

Op == {"create", "update", "delete"}

\* The job a policy should have: _load skips policies that are disabled, have
\* no schedule, or one that from_crontab rejects.
Wanted(p) ==
  IF p \in policies /\ row[p].enabled /\ row[p].schedule \in Parsable
    THEN row[p].schedule ELSE Unset

NoJobs == [p \in PolicyId |-> Unset]

\* Which task object a load gets is of no interest; FreeLoad is one not in use.
FreeLoad  == CHOOSE l \in Load : load[l] = "idle"
FirstLoad == CHOOSE l \in Load : TRUE
OnlyFirst == [l \in Load |-> IF l = FirstLoad THEN "started" ELSE "idle"]

-----------------------------------------------------------------------------
(* Loading the jobs.                                                       *)

\* Mutant of Reload: the jobs are replaced one by one, but never removed.
ReloadKeepsJobs(l) ==
  /\ l \in Load /\ load[l] = "idle"
  /\ load' = [load EXCEPT ![l] = "started"]
  /\ newest' = l /\ outcome' = "pending"
  /\ UNCHANGED <<jobs, late, seen>>

\* reload_jobs: no await between removing the jobs and starting the task.
Reload(l) ==
  /\ l \in Load /\ load[l] = "idle"
  /\ load' = [load EXCEPT ![l] = "started"]
  /\ newest' = l /\ outcome' = "pending"
  /\ jobs' = NoJobs /\ late' = {}
  /\ UNCHANGED seen

\* Mutant of LoadRead: a schedule is registered without being parsed.
LoadReadUnparsed(l) ==
  /\ load[l] = "started"
  /\ load' = [load EXCEPT ![l] = "read"]
  /\ seen' = [seen EXCEPT ![l] = [p \in PolicyId |->
                IF p \in policies /\ row[p].enabled THEN row[p].schedule ELSE Unset]]
  /\ UNCHANGED <<database, req, jobs, newest, outcome, late, firing, history>>

\* The SELECT of a task: a snapshot, carried over the awaits that follow.
LoadRead(l) ==
  /\ load[l] = "started"
  /\ load' = [load EXCEPT ![l] = "read"]
  /\ seen' = [seen EXCEPT ![l] = [p \in PolicyId |-> Wanted(p)]]
  /\ UNCHANGED <<database, req, jobs, newest, outcome, late, firing, history>>

Registered(l) == {p \in PolicyId : seen[l][p] # Unset}

\* add_job with replace_existing for all of them, in one go.
LoadAdd(l) ==
  /\ load[l] = "read"
  /\ load' = [load EXCEPT ![l] = "idle"]
  /\ jobs' = [p \in PolicyId |-> IF p \in Registered(l) THEN seen[l][p] ELSE jobs[p]]
  /\ outcome' = IF l = newest THEN "done" ELSE outcome
  /\ late' = IF l = newest THEN late \ Registered(l) ELSE late \cup Registered(l)
  /\ seen' = [seen EXCEPT ![l] = NoJobs]
  /\ UNCHANGED <<database, req, newest, firing, history>>

\* The query raises, in a task nobody waits for.
LoadFail(l) ==
  /\ load[l] = "started"
  /\ load' = [load EXCEPT ![l] = "idle"]
  /\ outcome' = IF l = newest THEN "failed" ELSE outcome
  /\ UNCHANGED <<database, req, jobs, seen, newest, late, firing, history>>

-----------------------------------------------------------------------------
(* The handlers.  They read a row, commit the change, and reload the jobs. *)

Saved(r) == req' = [req EXCEPT ![r].at = "saved"]
Answer(r) == req' = [req EXCEPT ![r] = [at |-> "ended"]]

\* create_policy finds its source, update_policy and delete_policy their row.
Read(r) ==
  /\ req[r].at = "idle"
  /\ \E op \in Op, p \in PolicyId : \E asks \in AskedRows \cup {row[p]} :
       /\ IF op = "create" THEN p \notin born ELSE p \in policies
       /\ op = "delete" => asks = row[p]
       /\ req' = [req EXCEPT ![r] = [at |-> "read", op |-> op, id |-> p,
                                     got |-> row[p], asks |-> asks]]
       /\ born' = born \cup {p}
  /\ UNCHANGED <<policies, row, scheduler, firing, history>>

\* Mutant of Written: the whole row is written back.
WrittenWhole(now, got, asks) == asks

\* The UPDATE names only the columns in which the body differs from the row
\* that was read; a switch in the list asks for enabled alone.
Written(now, got, asks) ==
  [schedule |-> IF asks.schedule = got.schedule THEN now.schedule ELSE asks.schedule,
   enabled  |-> IF asks.enabled = got.enabled THEN now.enabled ELSE asks.enabled]

\* The commit of a request.
SaveCreate(r) ==
  /\ req[r].at = "read" /\ req[r].op = "create"
  /\ policies' = policies \cup {req[r].id}
  /\ row' = [row EXCEPT ![req[r].id] = req[r].asks]
  /\ Saved(r)
  /\ UNCHANGED <<born, scheduler, firing, history>>

\* An UPDATE of a row that is gone meanwhile raises; without a column to write
\* there is no UPDATE.
SaveUpdate(r) ==
  /\ req[r].at = "read" /\ req[r].op = "update"
  /\ LET p == req[r].id IN
     IF p \in policies
       THEN /\ row' = [row EXCEPT ![p] = Written(@, req[r].got, req[r].asks)]
            /\ Saved(r)
       ELSE /\ IF req[r].asks = req[r].got THEN Saved(r) ELSE Answer(r)
            /\ UNCHANGED row
  /\ UNCHANGED <<policies, born, scheduler, firing, history>>

\* A DELETE of a row that is gone meanwhile is only warned about.
SaveDelete(r) ==
  /\ req[r].at = "read" /\ req[r].op = "delete"
  /\ policies' = policies \ {req[r].id}
  /\ Saved(r)
  /\ UNCHANGED <<born, row, scheduler, firing, history>>

\* The commit fails (the database is locked): the handler raises.
SaveFails(r) ==
  /\ req[r].at = "read"
  /\ Answer(r)
  /\ UNCHANGED <<database, scheduler, firing, history>>

\* Mutant of Finish: a new policy waits for the next reload.
FinishCreateSilent(r) ==
  /\ req[r].at = "saved"
  /\ IF req[r].op = "create" THEN UNCHANGED <<scheduler, unheard>>
                             ELSE Reload(FreeLoad) /\ unheard' = {}
  /\ Answer(r)
  /\ UNCHANGED <<database, firing, restarts>>

\* The handler goes on after its commit.  create_policy and update_policy
\* refresh the row first, which raises when it is gone or cannot be read; the
\* change is stored then, and the scheduler is not told.
Finish(r) ==
  /\ req[r].at = "saved"
  /\ \/ Reload(FreeLoad) /\ unheard' = {}
     \/ /\ req[r].op # "delete"
        /\ unheard' = unheard \cup ({req[r].id} \cap policies)
        /\ UNCHANGED scheduler
  /\ Answer(r)
  /\ UNCHANGED <<database, firing, restarts>>

-----------------------------------------------------------------------------
(* A job fires.  APScheduler runs at most one instance of it (external).   *)

Fire(p) ==
  /\ jobs[p] # Unset /\ fired[p] = "idle"
  /\ fired' = [fired EXCEPT ![p] = "reading"]
  /\ orphan' = IF p \in policies THEN orphan ELSE orphan \cup {p}
  /\ UNCHANGED <<database, req, scheduler, history>>

\* Mutant of JobRead: sync_job relies on the job having been removed.
JobReadUnchecked(p) ==
  /\ fired[p] = "reading"
  /\ fired' = [fired EXCEPT ![p] = "starting"]
  /\ UNCHANGED <<database, req, scheduler, orphan, history>>

\* sync_job reads the policy again, and skips it if it is gone or disabled.
JobRead(p) ==
  /\ fired[p] = "reading"
  /\ fired' = [fired EXCEPT ![p] =
                 IF p \in policies /\ row[p].enabled THEN "starting" ELSE "idle"]
  /\ orphan' = IF fired'[p] = "idle" THEN orphan \ {p} ELSE orphan
  /\ UNCHANGED <<database, req, scheduler, history>>

\* SyncEngine.run has created its task, or raised: sync_job returns.
JobEnd(p) ==
  /\ fired[p] = "starting"
  /\ fired' = [fired EXCEPT ![p] = "idle"]
  /\ orphan' = orphan \ {p}
  /\ UNCHANGED <<database, req, scheduler, history>>

-----------------------------------------------------------------------------
(* The process starts, and is started again after a crash.                 *)

Init ==
  /\ policies \in SUBSET PolicyId
  /\ born = policies
  /\ row \in [PolicyId -> FirstRows]
  /\ req = [r \in Request |-> [at |-> "idle"]]
  /\ jobs = NoJobs
  /\ newest = FirstLoad /\ load = OnlyFirst
  /\ seen = [l \in Load |-> NoJobs]
  /\ outcome = "pending" /\ late = {}
  /\ fired = [p \in PolicyId |-> "idle"] /\ orphan = {}
  /\ unheard = {} /\ restarts = 0

Restart ==
  /\ restarts < MaxRestarts
  /\ restarts' = restarts + 1
  /\ req' = [r \in Request |->
               IF req[r].at = "idle" THEN req[r] ELSE [at |-> "ended"]]
  /\ jobs' = NoJobs
  /\ newest' = FirstLoad /\ load' = OnlyFirst
  /\ seen' = [l \in Load |-> NoJobs]
  /\ outcome' = "pending" /\ late' = {}
  /\ fired' = [p \in PolicyId |-> "idle"]
  /\ orphan' = {} /\ unheard' = {}
  /\ UNCHANGED database

LoadStep(l)  == LoadRead(l) \/ LoadAdd(l) \/ LoadFail(l)
SaveStep(r)  == SaveCreate(r) \/ SaveUpdate(r) \/ SaveDelete(r) \/ SaveFails(r)
JobStep(p)   == JobRead(p) \/ JobEnd(p)

Next ==
  \/ \E l \in Load : LoadStep(l)
  \/ \E r \in Request : Read(r) \/ SaveStep(r) \/ Finish(r)
  \/ \E p \in PolicyId : Fire(p) \/ JobStep(p)
  \/ Restart

\* The event loop runs what it has been given; nobody has to send a request,
\* and no job has to fire within the time looked at.
Fairness ==
  /\ \A l \in Load : WF_vars(LoadStep(l))
  /\ \A r \in Request : WF_vars(SaveStep(r) \/ Finish(r))
  /\ \A p \in PolicyId : WF_vars(JobStep(p))

Spec == Init /\ [][Next]_vars /\ Fairness

-----------------------------------------------------------------------------
(* Properties.                                                             *)

Job == Parsable \cup {Unset}

\* The types; in particular a job has a trigger that could be parsed.
TypeOK ==
  /\ policies \subseteq born /\ born \subseteq PolicyId
  /\ row \in [PolicyId -> Row]
  /\ req \in [Request -> [at : {"idle", "ended"}] \cup
                         [at : {"read", "saved"}, op : Op, id : born,
                          got : Row, asks : Row]]
  /\ jobs \in [PolicyId -> Job]
  /\ load \in [Load -> {"idle", "started", "read"}]
  /\ seen \in [Load -> [PolicyId -> Job]]
  /\ newest \in Load
  /\ outcome \in {"pending", "done", "failed"}
  /\ late \subseteq PolicyId
  /\ fired \in [PolicyId -> {"idle", "reading", "starting"}]
  /\ orphan \subseteq PolicyId
  /\ unheard \subseteq PolicyId
  /\ restarts \in 0..MaxRestarts

\* No handler is between its commit and its reload.
Quiet == \A r \in Request : req[r].at # "saved"

\* Handlers commit and reload in any order, and loads overlap.  Once no handler
\* is in between and the newest load is through, the jobs are those of the rows.
\* Wrong is at most a job that a load added after a newer one had been started,
\* and that of a policy whose handler failed after its commit and which no
\* reload has followed since.
JobsCurrent ==
  Quiet /\ outcome = "done" =>
    \A p \in PolicyId : jobs[p] = Wanted(p) \/ p \in late \cup unheard

\* An overtaken load can leave a job behind for a policy that was deleted.  The
\* job fires in vain: no synchronisation starts for it.
OrphansNeverStart ==
  \A p \in PolicyId : fired[p] = "starting" => p \notin orphan

\* Two administrators: one disables a policy while the other saves its form,
\* opened when it was enabled.  Only a request that has read the policy as
\* disabled makes it run again.
DisabledStaysDisabled ==
  [][\A p \in policies : ~row[p].enabled /\ row'[p].enabled =>
       \E r \in Request : /\ req[r].at = "read" /\ req'[r].at = "saved"
                          /\ req[r].id = p /\ ~req[r].got.enabled]_vars

\* A policy that stays enabled with a usable schedule has its job in the end,
\* whatever happens to the others, unless the last load failed, or its own
\* handler did and nobody has reloaded since.
EventuallyScheduled ==
  \A p \in PolicyId :
    <>[](Wanted(p) # Unset)
      => <>[](jobs[p] # Unset \/ outcome = "failed" \/ p \in unheard)
=============================================================================
