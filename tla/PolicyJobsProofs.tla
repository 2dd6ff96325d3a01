-------------------------- MODULE PolicyJobsProofs --------------------------
(***************************************************************************)
(* Theorems about PolicyJobs, for any policies, requests, loads, schedules *)
(* and any number of restarts.                                             *)
(***************************************************************************)
EXTENDS PolicyJobs, TLAPS

LEMMA FirstLoadType == FirstLoad \in Load
  BY PolicyJobsAssumption DEF FirstLoad

LEMMA WantedType ==
    ASSUME TypeOK, NEW p \in PolicyId
    PROVE  Wanted(p) \in Job
  BY DEF TypeOK, Wanted, Job

-----------------------------------------------------------------------------
(* Types. *)

(* Rows, requests, jobs and loads keep their types. *)
THEOREM Typing == Spec => []TypeOK
<1>1. Init => TypeOK
  <2> SUFFICES ASSUME Init PROVE TypeOK
    OBVIOUS
  <2>1. row \in [PolicyId -> Row]
    BY PolicyJobsAssumption DEF Init
  <2> QED BY <2>1, FirstLoadType, PolicyJobsAssumption
          DEF Init, TypeOK, NoJobs, OnlyFirst, Job
<1>2. TypeOK /\ [Next]_vars => TypeOK'
  <2> SUFFICES ASSUME TypeOK, [Next]_vars PROVE TypeOK'
    OBVIOUS
  <2> USE DEF TypeOK, database, scheduler, firing, history
  <2>1. ASSUME NEW l \in Load, LoadStep(l) PROVE TypeOK'
    <3>1. CASE LoadRead(l)
      BY <3>1, WantedType DEF LoadRead
    <3>2. CASE LoadAdd(l)
      <4>1. jobs' \in [PolicyId -> Job]
        BY <3>2 DEF LoadAdd
      <4>2. seen' \in [Load -> [PolicyId -> Job]]
        BY <3>2 DEF LoadAdd, NoJobs, Job
      <4> QED BY <3>2, <4>1, <4>2 DEF LoadAdd, Registered
    <3>3. CASE LoadFail(l)
      BY <3>3 DEF LoadFail
    <3> QED BY <2>1, <3>1, <3>2, <3>3 DEF LoadStep
  <2>2. ASSUME NEW r \in Request, Read(r) PROVE TypeOK'
    <3>1. PICK op \in Op, p \in PolicyId : \E asks \in AskedRows \cup {row[p]} :
            /\ req' = [req EXCEPT ![r] = [at |-> "read", op |-> op, id |-> p,
                                          got |-> row[p], asks |-> asks]]
            /\ born' = born \cup {p}
      BY <2>2 DEF Read
    <3>2. AskedRows \cup {row[p]} \subseteq Row
      BY PolicyJobsAssumption
    <3> QED BY <2>2, <3>1, <3>2 DEF Read
  <2>3. ASSUME NEW r \in Request, SaveStep(r) PROVE TypeOK'
    <3>1. CASE SaveCreate(r)
      BY <3>1 DEF SaveCreate, Saved
    <3>2. CASE SaveUpdate(r)
      <4>1. row' \in [PolicyId -> Row]
        BY <3>2 DEF SaveUpdate, Written, Row
      <4>2. Saved(r) \/ Answer(r)
        BY <3>2 DEF SaveUpdate
      <4>3. req[r] \in [at : {"read", "saved"}, op : Op, id : born, got : Row, asks : Row]
        BY <3>2 DEF SaveUpdate
      <4>4. CASE Saved(r)
        BY <3>2, <4>1, <4>3, <4>4 DEF SaveUpdate, Saved
      <4>5. CASE Answer(r)
        BY <3>2, <4>1, <4>5 DEF SaveUpdate, Answer
      <4> QED BY <4>2, <4>4, <4>5
    <3>3. CASE SaveDelete(r)
      BY <3>3 DEF SaveDelete, Saved
    <3>4. CASE SaveFails(r)
      BY <3>4 DEF SaveFails, Answer
    <3> QED BY <2>3, <3>1, <3>2, <3>3, <3>4 DEF SaveStep
  <2>4. ASSUME NEW r \in Request, Finish(r) PROVE TypeOK'
    <3>1. CASE Reload(FreeLoad)
      BY <2>4, <3>1 DEF Finish, Reload, Answer, NoJobs, Job
    <3>2. CASE UNCHANGED scheduler
      BY <2>4, <3>2 DEF Finish, Answer
    <3> QED BY <2>4, <3>1, <3>2 DEF Finish
  <2>5. ASSUME NEW p \in PolicyId, Fire(p) \/ JobStep(p) PROVE TypeOK'
    BY <2>5 DEF Fire, JobStep, JobRead, JobEnd
  <2>6. CASE Restart
    BY <2>6, FirstLoadType, PolicyJobsAssumption DEF Restart, NoJobs, OnlyFirst, Job
  <2>7. CASE UNCHANGED vars
    BY <2>7 DEF vars
  <2> QED BY <2>1, <2>2, <2>3, <2>4, <2>5, <2>6, <2>7 DEF Next
<1> QED BY <1>1, <1>2, PTL DEF Spec

-----------------------------------------------------------------------------
(* Jobs of policies that are gone. *)

Creating(r) == req[r].at = "read" /\ req[r].op = "create"

(* Two requests never create one policy; a policy that is not there yet has  *)
(* no job, and no load is about to add one; one that an orphan fired for     *)
(* never comes back.                                                         *)
Fresh(p) == /\ p \notin policies
            /\ jobs[p] = Unset
            /\ \A l \in Load : seen[l][p] = Unset
            /\ p \notin orphan

OInv ==
  /\ \A p \in PolicyId \ born : Fresh(p)
  /\ \A r \in Request : Creating(r) => Fresh(req[r].id)
  /\ \A r, u \in Request :
       Creating(r) /\ Creating(u) /\ req[r].id = req[u].id => r = u
  /\ orphan \cap policies = {}
  /\ OrphansNeverStart

LEMMA OrphanStep ==
    ASSUME TypeOK, TypeOK', OInv, [Next]_vars
    PROVE  OInv'
<1> USE DEF TypeOK, OInv, Fresh, Creating, OrphansNeverStart, database, scheduler, firing
<1>1. ASSUME NEW l \in Load, LoadStep(l) PROVE OInv'
  <2>1. CASE LoadRead(l)
    BY <2>1 DEF LoadRead, Wanted
  <2>2. CASE LoadAdd(l)
    <3>1. ASSUME NEW p \in PolicyId, seen[l][p] = Unset PROVE jobs'[p] = jobs[p]
      BY <2>2, <3>1 DEF LoadAdd, Registered
    <3>2. ASSUME NEW p \in PolicyId, NEW k \in Load, seen[k][p] = Unset
          PROVE  seen'[k][p] = Unset
      BY <2>2, <3>2 DEF LoadAdd, NoJobs
    <3>3. \A p \in PolicyId : Fresh(p) => Fresh(p)'
      BY <2>2, <3>1, <3>2 DEF LoadAdd
    <3>4. \A u \in Request : Creating(u) => req[u].id \in PolicyId
      OBVIOUS
    <3>5. UNCHANGED <<req, born, policies, orphan, fired>>
      BY <2>2 DEF LoadAdd
    <3> HIDE DEF Fresh
    <3> QED BY <3>3, <3>4, <3>5
  <2>3. CASE LoadFail(l)
    BY <2>3 DEF LoadFail
  <2> QED BY <1>1, <2>1, <2>2, <2>3 DEF LoadStep
<1>2. ASSUME NEW r \in Request, Read(r) PROVE OInv'
  <2>1. PICK op \in Op, p \in PolicyId : \E asks \in AskedRows \cup {row[p]} :
          /\ IF op = "create" THEN p \notin born ELSE p \in policies
          /\ req' = [req EXCEPT ![r] = [at |-> "read", op |-> op, id |-> p,
                                        got |-> row[p], asks |-> asks]]
          /\ born' = born \cup {p}
    BY <1>2 DEF Read
  <2>2. \A u \in Request : Creating(u) => req[u].id \in born
    OBVIOUS
  <2> QED BY <1>2, <2>1, <2>2 DEF Read
<1>3. ASSUME NEW r \in Request, SaveStep(r) PROVE OInv'
  <2>1. CASE SaveCreate(r)
    BY <2>1 DEF SaveCreate, Saved
  <2>2. CASE SaveUpdate(r)
    <3>1. Saved(r) \/ Answer(r)
      BY <2>2 DEF SaveUpdate
    <3>2. \A u \in Request : Creating(u)' => Creating(u) /\ req'[u] = req[u]
      BY <3>1 DEF Saved, Answer
    <3> QED BY <2>2, <3>2 DEF SaveUpdate
  <2>3. CASE SaveDelete(r)
    BY <2>3 DEF SaveDelete, Saved
  <2>4. CASE SaveFails(r)
    BY <2>4 DEF SaveFails, Answer
  <2> QED BY <1>3, <2>1, <2>2, <2>3, <2>4 DEF SaveStep
<1>4. ASSUME NEW r \in Request, Finish(r) PROVE OInv'
  <2>1. \A u \in Request : Creating(u)' => Creating(u) /\ req'[u] = req[u]
    BY <1>4 DEF Finish, Answer
  <2>2. CASE Reload(FreeLoad)
    BY <1>4, <2>1, <2>2 DEF Finish, Reload, NoJobs
  <2>3. CASE UNCHANGED scheduler
    BY <1>4, <2>1, <2>3 DEF Finish
  <2> QED BY <1>4, <2>2, <2>3 DEF Finish
<1>5. ASSUME NEW p \in PolicyId, Fire(p) PROVE OInv'
  <2>1. PolicyId \ born \subseteq PolicyId \ {p}
    BY <1>5 DEF Fire
  <2>2. \A r \in Request : Creating(r) => req[r].id # p
    BY <1>5 DEF Fire
  <2> QED BY <1>5, <2>1, <2>2 DEF Fire
<1>6. ASSUME NEW p \in PolicyId, JobStep(p) PROVE OInv'
  BY <1>6 DEF JobStep, JobRead, JobEnd
<1>7. CASE Restart
  BY <1>7 DEF Restart, NoJobs
<1>8. CASE UNCHANGED vars
  BY <1>8 DEF vars
<1> QED BY <1>1, <1>2, <1>3, <1>4, <1>5, <1>6, <1>7, <1>8 DEF Next

LEMMA Orphans == Spec => []OInv
<1>1. Init => OInv
  BY DEF Init, OInv, Fresh, Creating, OrphansNeverStart, NoJobs
<1>2. TypeOK /\ TypeOK' /\ OInv /\ [Next]_vars => OInv'
  BY OrphanStep
<1> QED BY <1>1, <1>2, Typing, PTL DEF Spec

(* A job that fires for a deleted policy starts no synchronisation.          *)
THEOREM OrphansInVain == Spec => []OrphansNeverStart
<1>1. OInv => OrphansNeverStart
  BY DEF OInv
<1> QED BY <1>1, Orphans, PTL

-----------------------------------------------------------------------------
(* Enabling a policy. *)

(* Only a request that has read the policy as disabled enables it: the rows  *)
(* of new policies are never those of old ones, and an UPDATE carries only   *)
(* the columns that differ from what was read.                               *)
THEOREM DisabledStays == Spec => DisabledStaysDisabled
<1> DEFINE Enables(p) == \E r \in Request :
                            /\ req[r].at = "read" /\ req'[r].at = "saved"
                            /\ req[r].id = p /\ ~req[r].got.enabled
           Goal == \A p \in policies :
                     ~row[p].enabled /\ row'[p].enabled => Enables(p)
<1>1. ASSUME TypeOK, OInv, Next PROVE Goal
  <2> USE <1>1 DEF TypeOK, OInv, Fresh, Creating, database, scheduler, firing
  <2> SUFFICES ASSUME NEW p \in policies, ~row[p].enabled, row'[p].enabled
               PROVE  Enables(p)
    OBVIOUS
  <2>1. PICK r \in Request : SaveCreate(r) \/ SaveUpdate(r)
    BY DEF Next, LoadStep, LoadRead, LoadAdd, LoadFail, Read, SaveStep, SaveDelete,
           SaveFails, Finish, Fire, JobStep, JobRead, JobEnd, Restart
  <2>2. CASE SaveCreate(r)
    BY <2>2 DEF SaveCreate
  <2>3. CASE SaveUpdate(r)
    <3>1. req[r].id = p /\ p \in policies /\ row' = [row EXCEPT ![p] = Written(row[p], req[r].got, req[r].asks)] /\ Saved(r)
      BY <2>3 DEF SaveUpdate
    <3>2. row[p] \in Row /\ req[r].got \in Row /\ req[r].asks \in Row
      BY <2>3 DEF SaveUpdate
    <3>3. ~req[r].got.enabled
      BY <3>1, <3>2 DEF Written, Row
    <3> QED BY <2>3, <3>1, <3>3 DEF SaveUpdate, Saved
  <2> QED BY <2>1, <2>2, <2>3
<1>2. TypeOK /\ OInv /\ [Next]_vars => [Goal]_vars
  BY <1>1
<1> QED BY <1>2, Typing, Orphans, PTL DEF Spec, DisabledStaysDisabled

-----------------------------------------------------------------------------
(* The jobs and the rows. *)

(* The change of a policy that no reload has followed yet, as its handler is *)
(* still at work or has failed.  An update of a policy that was deleted      *)
(* since does not count: it may never reload.                                *)
Unfollowed(p) ==
  \/ p \in unheard
  \/ \E r \in Request : /\ req[r].at = "saved" /\ req[r].id = p
                        /\ p \in policies \/ req[r].op = "delete"

(* JobsCurrent once the newest load is through; before that, what the load   *)
(* has read is what the rows say, and only overtaken loads have added jobs.  *)
JInv ==
  /\ outcome = "pending" <=> load[newest] \in {"started", "read"}
  /\ load[newest] = "read" =>
       \A p \in PolicyId : seen[newest][p] = Wanted(p) \/ Unfollowed(p)
  /\ outcome = "pending" => \A p \in PolicyId \ late : jobs[p] = Unset
  /\ outcome = "done" =>
       \A p \in PolicyId \ late : jobs[p] = Wanted(p) \/ Unfollowed(p)

(* A step of the requests or the rows leaves JInv alone if each policy that  *)
(* it changes is Unfollowed afterwards, and no policy stops to be.           *)
LEMMA RowsStep ==
    ASSUME TypeOK, TypeOK', JInv, UNCHANGED scheduler,
           \A p \in PolicyId : Unfollowed(p) => Unfollowed(p)',
           \A p \in PolicyId : Wanted(p)' = Wanted(p) \/ Unfollowed(p)'
    PROVE  JInv'
  BY DEF TypeOK, JInv, scheduler

LEMMA JobsStep ==
    ASSUME TypeOK, TypeOK', OInv, JInv, [Next]_vars
    PROVE  JInv'
<1> USE DEF TypeOK, history
<1>1. ASSUME NEW l \in Load, LoadStep(l) PROVE JInv'
  <2>1. ASSUME UNCHANGED <<database, req, history>>, NEW p \in PolicyId
        PROVE  Wanted(p)' = Wanted(p) /\ Unfollowed(p)' = Unfollowed(p)
    BY <2>1 DEF database, history, Wanted, Unfollowed
  <2>2. CASE LoadRead(l)
    <3>1. \A p \in PolicyId : seen'[l][p] = Wanted(p)
      BY <2>2 DEF LoadRead
    <3> QED BY <2>1, <2>2, <3>1 DEF LoadRead, JInv
  <2>3. CASE LoadAdd(l)
    <3>1. CASE l = newest
      <4>1. load[l] = "read" /\ outcome = "pending" /\ load'[newest'] = "idle" /\ outcome' = "done"
        BY <2>3, <3>1 DEF LoadAdd, JInv
      <4>2. ASSUME NEW p \in PolicyId \ late' PROVE jobs'[p] = seen[l][p]
        <5>1. CASE p \in Registered(l)
          BY <2>3, <5>1 DEF LoadAdd
        <5>2. CASE p \notin Registered(l)
          <6>1. seen[l][p] = Unset /\ p \notin late
            BY <2>3, <3>1, <4>2, <5>2 DEF LoadAdd, Registered
          <6> QED BY <2>3, <3>1, <4>1, <5>2, <6>1 DEF LoadAdd, JInv
        <5> QED BY <5>1, <5>2
      <4>3. \A p \in PolicyId \ late' : jobs'[p] = Wanted(p) \/ Unfollowed(p)
        BY <3>1, <4>1, <4>2 DEF JInv
      <4> QED BY <2>1, <2>3, <4>1, <4>3 DEF LoadAdd, JInv
    <3>2. CASE l # newest
      <4>1. \A p \in PolicyId \ late' : p \in PolicyId \ late /\ jobs'[p] = jobs[p]
        BY <2>3, <3>2 DEF LoadAdd
      <4>2. UNCHANGED <<newest, outcome>> /\ load'[newest] = load[newest]
              /\ seen'[newest] = seen[newest]
        BY <2>3, <3>2 DEF LoadAdd
      <4> QED BY <2>1, <2>3, <4>1, <4>2 DEF LoadAdd, JInv
    <3> QED BY <3>1, <3>2
  <2>4. CASE LoadFail(l)
    BY <2>1, <2>4 DEF LoadFail, JInv
  <2> QED BY <1>1, <2>2, <2>3, <2>4 DEF LoadStep
<1>2. ASSUME NEW r \in Request, Read(r) PROVE JInv'
  <2>1. \A p \in PolicyId : Wanted(p)' = Wanted(p)
    BY <1>2 DEF Read, Wanted
  <2>2. \A p \in PolicyId : Unfollowed(p) => Unfollowed(p)'
    BY <1>2 DEF Read, Unfollowed
  <2> QED BY <1>2, <2>1, <2>2, RowsStep DEF Read
<1>3. ASSUME NEW r \in Request, SaveStep(r) PROVE JInv'
  <2>0. req[r].at = "read" /\ UNCHANGED scheduler
    BY <1>3 DEF SaveStep, SaveCreate, SaveUpdate, SaveDelete, SaveFails
  <2>q. PICK q \in PolicyId : q = req[r].id
    BY <2>0
  <2>1. CASE SaveCreate(r)
    <3>1. Unfollowed(q)'
      BY <2>1, <2>q DEF SaveCreate, Saved, Unfollowed
    <3>2. \A p \in PolicyId \ {q} : Wanted(p)' = Wanted(p)
      BY <2>1, <2>q DEF SaveCreate, Wanted
    <3>3. \A p \in PolicyId : Unfollowed(p) => Unfollowed(p)'
      BY <2>1, <2>q DEF SaveCreate, Saved, Unfollowed
    <3> QED BY <2>0, <3>1, <3>2, <3>3, RowsStep
  <2>2. CASE SaveUpdate(r)
    <3>1. \A p \in PolicyId \ {q} : Wanted(p)' = Wanted(p)
      BY <2>2, <2>q DEF SaveUpdate, Wanted
    <3>2. CASE q \in policies
      <4>1. Unfollowed(q)'
        BY <2>2, <2>q, <3>2 DEF SaveUpdate, Saved, Unfollowed
      <4>2. \A p \in PolicyId : Unfollowed(p) => Unfollowed(p)'
        BY <2>2, <2>q, <3>2 DEF SaveUpdate, Saved, Unfollowed
      <4> QED BY <2>0, <3>1, <4>1, <4>2, RowsStep
    <3>3. CASE q \notin policies
      <4>1. Wanted(q)' = Wanted(q)
        BY <2>2, <2>q, <3>3 DEF SaveUpdate, Wanted
      <4>2. Saved(r) \/ Answer(r)
        BY <2>2, <2>q, <3>3 DEF SaveUpdate
      <4>3. \A u \in Request \ {r} : req'[u] = req[u]
        BY <4>2 DEF Saved, Answer
      <4>4. \A p \in PolicyId : Unfollowed(p) => Unfollowed(p)'
        BY <2>0, <2>2, <4>3 DEF SaveUpdate, Unfollowed
      <4> QED BY <2>0, <3>1, <4>1, <4>4, RowsStep
    <3> QED BY <3>2, <3>3
  <2>3. CASE SaveDelete(r)
    <3>1. Unfollowed(q)'
      BY <2>3, <2>q DEF SaveDelete, Saved, Unfollowed
    <3>2. \A p \in PolicyId \ {q} : Wanted(p)' = Wanted(p)
      BY <2>3, <2>q DEF SaveDelete, Wanted
    <3>3. \A p \in PolicyId \ {q} : Unfollowed(p) => Unfollowed(p)'
      BY <2>3, <2>q DEF SaveDelete, Saved, Unfollowed
    <3> QED BY <2>0, <3>1, <3>2, <3>3, RowsStep
  <2>4. CASE SaveFails(r)
    <3>1. \A p \in PolicyId : Wanted(p)' = Wanted(p)
      BY <2>4 DEF SaveFails, database, Wanted
    <3>2. \A p \in PolicyId : Unfollowed(p) => Unfollowed(p)'
      BY <2>4 DEF SaveFails, Answer, database, Unfollowed
    <3> QED BY <2>0, <3>1, <3>2, RowsStep
  <2> QED BY <1>3, <2>1, <2>2, <2>3, <2>4 DEF SaveStep
<1>4. ASSUME NEW r \in Request, Finish(r) PROVE JInv'
  <2>1. CASE Reload(FreeLoad)
    BY <2>1 DEF Reload, NoJobs, JInv
  <2>2. CASE /\ req[r].op # "delete" /\ UNCHANGED scheduler
             /\ unheard' = unheard \cup ({req[r].id} \cap policies)
    <3>1. \A p \in PolicyId : Wanted(p)' = Wanted(p)
      BY <1>4 DEF Finish, database, Wanted
    <3>2. \A p \in PolicyId : Unfollowed(p) => Unfollowed(p)'
      <4>1. UNCHANGED policies /\ \A u \in Request \ {r} : req'[u] = req[u]
        BY <1>4 DEF Finish, Answer, database
      <4>2. \A p \in PolicyId : p = req[r].id /\ Unfollowed(p) => Unfollowed(p)'
        BY <2>2, <4>1 DEF Unfollowed
      <4> QED BY <2>2, <4>1 DEF Unfollowed
    <3> QED BY <2>2, <3>1, <3>2, RowsStep
  <2> QED BY <1>4, <2>1, <2>2 DEF Finish
<1>5. ASSUME NEW p \in PolicyId, Fire(p) \/ JobStep(p) PROVE JInv'
  <2>1. UNCHANGED <<database, req, scheduler, history>>
    BY <1>5 DEF Fire, JobStep, JobRead, JobEnd
  <2>2. \A q \in PolicyId : Wanted(q)' = Wanted(q) /\ Unfollowed(q)' = Unfollowed(q)
    BY <2>1 DEF database, Wanted, Unfollowed
  <2> QED BY <2>1, <2>2, RowsStep
<1>6. CASE Restart
  BY <1>6, FirstLoadType DEF Restart, OnlyFirst, NoJobs, JInv
<1>7. CASE UNCHANGED vars
  <2>1. \A q \in PolicyId : Wanted(q)' = Wanted(q) /\ Unfollowed(q)' = Unfollowed(q)
    BY <1>7 DEF vars, database, Wanted, Unfollowed
  <2> QED BY <1>7, <2>1, RowsStep DEF vars
<1> QED BY <1>1, <1>2, <1>3, <1>4, <1>5, <1>6, <1>7 DEF Next

(* Whatever order handlers commit and reload in, and however loads overlap:  *)
(* once no handler is in between and the newest load is done, wrong is only  *)
(* a job of an overtaken load, or of a policy whose handler has failed after *)
(* its commit and before its reload.                                         *)
THEOREM JobsAreCurrent == Spec => []JobsCurrent
<1>1. Init => JInv
  BY FirstLoadType DEF Init, OnlyFirst, NoJobs, JInv
<1>2. TypeOK /\ TypeOK' /\ OInv /\ JInv /\ [Next]_vars => JInv'
  BY JobsStep
<1>3. JInv => JobsCurrent
  BY DEF JInv, JobsCurrent, Quiet, Unfollowed
<1> QED BY <1>1, <1>2, <1>3, Typing, Orphans, PTL DEF Spec
=============================================================================
