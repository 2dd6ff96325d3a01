--------------------------- MODULE SyncTaskProofs ---------------------------
(***************************************************************************)
(* Proofs about SyncTask, for any finite or infinite set of tasks and      *)
(* sources, any assignment of sources to tasks and any combination of      *)
(* faults.                                                                 *)
(***************************************************************************)
EXTENDS SyncTask, TLAPS

(* TypeOK holds in every reachable state. *)
THEOREM Typing == Spec => []TypeOK
<1> USE DEF TypeOK, Status, Terminal, Place, Trigger, Live, Body, Handlers, Ended,
            Goto, Commit, Leave, handlers
<1>1. Init => TypeOK
  BY DEF Init
<1>2. TypeOK /\ [Next]_vars => TypeOK'
  <2> SUFFICES ASSUME TypeOK, [Next]_vars PROVE TypeOK'
    OBVIOUS
  <2>1. ASSUME NEW t \in TaskId, TriggerRead(t) PROVE TypeOK'
    BY <2>1 DEF TriggerRead
  <2>2. ASSUME NEW t \in TaskId, TriggerStep(t) PROVE TypeOK'
    BY <2>2 DEF TriggerStep, TriggerInsert, TriggerRejected, TriggerStart
  <2>3. ASSUME NEW t \in TaskId, CoroutineStep(t) PROVE TypeOK'
    <3>1. CASE Start(t) \/ RecordTotal(t) \/ BodyRaises(t)
      BY <3>1 DEF Start, RecordTotal, BodyRaises
    <3>2. CASE Complete(t) \/ FailTask(t) \/ CancelTask(t)
      BY <3>2 DEF Complete, FailTask, CancelTask
    <3>3. CASE Finish(t) \/ CancelLeave(t) \/ HandlerRaises(t)
      BY <3>3 DEF Finish, CancelLeave, HandlerRaises
    <3>4. CASE FailSource(t)
      BY <3>4 DEF FailSource
    <3>5. CASE CancelArrives(t)
      BY <3>5 DEF CancelArrives
    <3> QED BY <2>3, <3>1, <3>2, <3>3, <3>4, <3>5 DEF CoroutineStep
  <2>4. ASSUME NEW t \in TaskId, CancelRead(t) \/ CancelSend(t) PROVE TypeOK'
    BY <2>4 DEF CancelRead, CancelSend
  <2>5. ASSUME NEW s \in SourceId, SourceStep(s)
        PROVE TypeOK'
    BY <2>5 DEF SourceStep, DeleteCheck, DeleteCommit, DeleteRollback, HealthRecovers
  <2>6. CASE Crash
    BY <2>6 DEF Crash
  <2>7. CASE UNCHANGED vars
    BY <2>7 DEF vars
  <2> QED BY <2>1, <2>2, <2>3, <2>4, <2>5, <2>6, <2>7 DEF Next
<1> QED BY <1>1, <1>2, PTL DEF Spec

-----------------------------------------------------------------------------
(* A source that an except block has seen failed is never untold again, and *)
(* no task ever tells a source "success": only a health check does.         *)
SourceTold == /\ \A t \in sawFailed : lastSync[SourceOf[t]] # "never"
              /\ \A s \in SourceId : lastSync[s] = "success" => "recovery" \in Faults

(* Where a coroutine stands bounds what its row can say, and a source whose *)
(* task has failed and ended has been told.                                 *)
IInv == TypeOK /\ StatusFitsPlace /\ SourceTold /\ FailureReachesSource

(* What StatusFitsPlace says, place by place. *)
LEMMA StatusByPlace ==
    ASSUME NEW p \in Place
    PROVE  /\ p \in {"idle", "checked", "refused"} => StatusAt[p] = {"absent"}
           /\ p \in {"completed", "cancelled", "failed"} => StatusAt[p] = {"absent", p}
           /\ p \in {"cancelling", "failing"} => StatusAt[p] = {"absent", "running", "completed"}
           /\ p = "done" => StatusAt[p] = {"absent"} \cup Terminal
           /\ p \in {"aborted", "lost"} => StatusAt[p] = Status
           /\ p \in {"inserted", "unstarted", "created", "fetching", "working", "neverRan"}
                => StatusAt[p] = {"absent", "running"}
           /\ "absent" \in StatusAt[p]
  BY DEF StatusAt, Place, Trigger, Live, Body, Handlers, Ended, Status, Terminal

LEMMA StatusStep ==
    ASSUME IInv, [Next]_vars, TypeOK'
    PROVE  StatusFitsPlace'
<1> USE StatusByPlace
<1> USE DEF IInv, TypeOK, StatusFitsPlace, Goto, Commit, Leave, HasRow, handlers
<1> SUFFICES ASSUME NEW t \in TaskId PROVE (status[t] \in StatusAt[pc[t]])'
  OBVIOUS
<1>1. ASSUME NEW u \in TaskId, TriggerRead(u) PROVE status'[t] \in StatusAt[pc'[t]]
  BY <1>1 DEF TriggerRead
<1>2. ASSUME NEW u \in TaskId, TriggerStep(u) PROVE status'[t] \in StatusAt[pc'[t]]
  BY <1>2 DEF TriggerStep, TriggerInsert, TriggerRejected, TriggerStart
<1>3. ASSUME NEW u \in TaskId, CoroutineStep(u) PROVE status'[t] \in StatusAt[pc'[t]]
  <2> USE DEF Runs
  <2>1. CASE Start(u) \/ RecordTotal(u) \/ BodyRaises(u)
    BY <2>1 DEF Start, RecordTotal, BodyRaises
  <2>2. CASE Complete(u)
    BY <2>2 DEF Complete
  <2>3. CASE Finish(u)
    BY <2>3 DEF Finish, Terminal
  <2>4. CASE FailTask(u) \/ CancelTask(u)
    BY <2>4 DEF FailTask, CancelTask
  <2>5. CASE FailSource(u) \/ CancelLeave(u)
    BY <2>5 DEF FailSource, CancelLeave, Terminal
  <2>6. CASE HandlerRaises(u)
    BY <2>6 DEF HandlerRaises
  <2>7. CASE CancelArrives(u)
    BY <2>7 DEF CancelArrives, Body, Handlers
  <2> QED BY <1>3, <2>1, <2>2, <2>3, <2>4, <2>5, <2>6, <2>7 DEF CoroutineStep
<1>4. ASSUME NEW u \in TaskId, CancelRead(u) \/ CancelSend(u)
      PROVE status'[t] \in StatusAt[pc'[t]]
  BY <1>4 DEF CancelRead, CancelSend
<1>5. ASSUME NEW s \in SourceId, SourceStep(s)
      PROVE status'[t] \in StatusAt[pc'[t]]
  BY <1>5 DEF SourceStep, DeleteCheck, DeleteCommit, DeleteRollback, HealthRecovers
<1>6. CASE Crash
  BY <1>6 DEF Crash
<1>7. CASE UNCHANGED vars
  BY <1>7 DEF vars
<1> QED BY <1>1, <1>2, <1>3, <1>4, <1>5, <1>6, <1>7 DEF Next

(* No step of a task or a handler writes "never" or "success" to a source.  *)
LEMMA ToldStep ==
    ASSUME IInv, [Next]_vars, TypeOK'
    PROVE  SourceTold'
<1> USE SourceOfType DEF IInv, TypeOK, SourceTold, Goto, Commit, Leave, handlers
<1>1. ASSUME NEW u \in TaskId, TriggerRead(u) \/ TriggerStep(u) PROVE SourceTold'
  BY <1>1 DEF TriggerRead, TriggerStep, TriggerInsert, TriggerRejected, TriggerStart
<1>2. ASSUME NEW u \in TaskId, CoroutineStep(u) PROVE SourceTold'
  <2>1. CASE Start(u) \/ RecordTotal(u) \/ BodyRaises(u) \/ Complete(u) \/ Finish(u)
    BY <2>1 DEF Start, RecordTotal, BodyRaises, Complete, Finish
  <2>2. CASE FailTask(u)
    BY <2>2 DEF FailTask
  <2>3. CASE FailSource(u)
    BY <2>3 DEF FailSource
  <2>4. CASE CancelTask(u) \/ CancelLeave(u) \/ HandlerRaises(u) \/ CancelArrives(u)
    BY <2>4 DEF CancelTask, CancelLeave, HandlerRaises, CancelArrives
  <2> QED BY <1>2, <2>1, <2>2, <2>3, <2>4 DEF CoroutineStep
<1>3. ASSUME NEW u \in TaskId, CancelRead(u) \/ CancelSend(u) PROVE SourceTold'
  BY <1>3 DEF CancelRead, CancelSend
<1>4. ASSUME NEW s \in SourceId, SourceStep(s) PROVE SourceTold'
  BY <1>4 DEF SourceStep, DeleteCheck, DeleteCommit, DeleteRollback, HealthRecovers
<1>5. CASE Crash
  BY <1>5 DEF Crash
<1>6. CASE UNCHANGED vars
  BY <1>6 DEF vars
<1> QED BY <1>1, <1>2, <1>3, <1>4, <1>5, <1>6 DEF Next

(* The only step into "done" from a failed task writes the source, or leaves *)
(* it as the except block has seen it, and only a health check takes "failed" *)
(* back from a source.                                                       *)
LEMMA FailureStep ==
    ASSUME IInv, [Next]_vars, TypeOK'
    PROVE  FailureReachesSource'
<1> USE StatusByPlace, SourceOfType
<1> USE DEF IInv, TypeOK, StatusFitsPlace, SourceTold, FailureReachesSource, HasSource,
            Goto, Commit, Leave, handlers
<1> DEFINE Goal(t) == (pc'[t] = "done" /\ status'[t] = "failed" /\ SourceOf[t] \in sources')
                        => \/ lastSync'[SourceOf[t]] = "failed"
                           \/ "recovery" \in Faults /\ lastSync'[SourceOf[t]] = "success"
<1> SUFFICES ASSUME NEW t \in TaskId PROVE Goal(t)
  OBVIOUS
<1>1. ASSUME NEW u \in TaskId, TriggerRead(u) PROVE Goal(t)
  BY <1>1 DEF TriggerRead
<1>2. ASSUME NEW u \in TaskId, TriggerStep(u) PROVE Goal(t)
  BY <1>2 DEF TriggerStep, TriggerInsert, TriggerRejected, TriggerStart
<1>3. ASSUME NEW u \in TaskId, CoroutineStep(u) PROVE Goal(t)
  <2> USE DEF Runs
  <2>1. CASE Start(u) \/ RecordTotal(u) \/ BodyRaises(u)
    BY <2>1 DEF Start, RecordTotal, BodyRaises
  <2>2. CASE Complete(u) \/ FailTask(u) \/ CancelTask(u)
    BY <2>2 DEF Complete, FailTask, CancelTask
  <2>3. CASE Finish(u) \/ CancelLeave(u)
    BY <2>3 DEF Finish, CancelLeave
  <2>4. CASE FailSource(u)
    BY <2>4 DEF FailSource
  <2>5. CASE HandlerRaises(u) \/ CancelArrives(u)
    BY <2>5 DEF HandlerRaises, CancelArrives
  <2> QED BY <1>3, <2>1, <2>2, <2>3, <2>4, <2>5 DEF CoroutineStep
<1>4. ASSUME NEW u \in TaskId, CancelRead(u) \/ CancelSend(u) PROVE Goal(t)
  BY <1>4 DEF CancelRead, CancelSend
<1>5. ASSUME NEW s \in SourceId, SourceStep(s)
      PROVE Goal(t)
  BY <1>5 DEF SourceStep, DeleteCheck, DeleteCommit, DeleteRollback, HealthRecovers
<1>6. CASE Crash
  BY <1>6 DEF Crash
<1>7. CASE UNCHANGED vars
  BY <1>7 DEF vars
<1> QED BY <1>1, <1>2, <1>3, <1>4, <1>5, <1>6, <1>7 DEF Next

(* The inductive invariant holds in every reachable state. *)
THEOREM Invariance == Spec => []IInv
<1>1. Init /\ TypeOK => IInv
  BY StatusByPlace, SourceOfType
     DEF Init, IInv, TypeOK, StatusFitsPlace, SourceTold, FailureReachesSource, Place
<1>2. IInv /\ [Next]_vars /\ TypeOK' => IInv'
  BY StatusStep, ToldStep, FailureStep DEF IInv
<1> QED BY <1>1, <1>2, Typing, PTL DEF Spec

(* A row stays "running" without a coroutine only if run ended before it   *)
(* had made one, or after an interruption: a coroutine that ends by itself *)
(* has settled its row, whatever happens around it.                        *)
THEOREM NeverStuckUninterrupted == Spec => []StuckOnlyIfInterrupted
<1>1. IInv => StuckOnlyIfInterrupted
  BY StatusByPlace DEF IInv, TypeOK, StatusFitsPlace, StuckOnlyIfInterrupted, Place,
     Trigger, Ended, Terminal
<1> QED BY <1>1, Invariance, PTL

(* A failed synchronisation that ended by itself is visible on its source. *)
THEOREM FailureVisible == Spec => []FailureReachesSource
<1>1. IInv => FailureReachesSource
  BY DEF IInv
<1> QED BY <1>1, Invariance, PTL

(* A row says what the place of its coroutine allows, in particular a settled *)
(* row has no coroutine that still works.                                    *)
THEOREM StatusFits == Spec => []StatusFitsPlace
<1>1. IInv => StatusFitsPlace
  BY DEF IInv
<1> QED BY <1>1, Invariance, PTL

-----------------------------------------------------------------------------
(* A cancellation always finds a live coroutine in the registry. *)
THEOREM CancelFindsLive == Spec => []RegistryFindsLive
<1> USE DEF TypeOK, RegistryFindsLive, Goto, Commit, Leave, handlers,
            Live, Body, Handlers
<1>1. Init => RegistryFindsLive
  BY DEF Init
<1>2. TypeOK /\ RegistryFindsLive /\ [Next]_vars => RegistryFindsLive'
  <2> SUFFICES ASSUME TypeOK, RegistryFindsLive, [Next]_vars PROVE RegistryFindsLive'
    OBVIOUS
  <2>1. ASSUME NEW u \in TaskId, TriggerRead(u) \/ TriggerStep(u) PROVE RegistryFindsLive'
    BY <2>1 DEF TriggerRead, TriggerStep, TriggerInsert, TriggerRejected, TriggerStart
  <2>2. ASSUME NEW u \in TaskId, CoroutineStep(u) PROVE RegistryFindsLive'
    <3> USE DEF Runs
    <3>1. CASE Start(u) \/ RecordTotal(u) \/ BodyRaises(u)
      BY <3>1 DEF Start, RecordTotal, BodyRaises
    <3>2. CASE Complete(u) \/ FailTask(u) \/ CancelTask(u)
      BY <3>2 DEF Complete, FailTask, CancelTask
    <3>3. CASE Finish(u) \/ FailSource(u) \/ CancelLeave(u) \/ HandlerRaises(u)
      BY <3>3 DEF Finish, FailSource, CancelLeave, HandlerRaises
    <3>4. CASE CancelArrives(u)
      BY <3>4 DEF CancelArrives
    <3> QED BY <2>2, <3>1, <3>2, <3>3, <3>4 DEF CoroutineStep
  <2>3. ASSUME NEW u \in TaskId, CancelRead(u) \/ CancelSend(u) PROVE RegistryFindsLive'
    BY <2>3 DEF CancelRead, CancelSend
  <2>4. ASSUME NEW s \in SourceId, SourceStep(s)
        PROVE RegistryFindsLive'
    BY <2>4 DEF SourceStep, DeleteCheck, DeleteCommit, DeleteRollback, HealthRecovers
  <2>5. CASE Crash
    BY <2>5 DEF Crash, Trigger
  <2>6. CASE UNCHANGED vars
    BY <2>6 DEF vars
  <2> QED BY <2>1, <2>2, <2>3, <2>4, <2>5, <2>6 DEF Next
<1> QED BY <1>1, <1>2, Typing, PTL DEF Spec

-----------------------------------------------------------------------------
(* Refinement: the rows behave as TaskRow specifies. *)

RowBar == [t \in TaskId |-> RowOf(t)]

(* A step that moves one task, and its row at most as TaskRow allows.      *)
LEMMA OneRowStep ==
    ASSUME TypeOK, NEW u \in TaskId,
           \A t \in TaskId \ {u} : RowOf(t)' = RowOf(t),
           \/ RowOf(u)' = RowOf(u)
           \/ RowOf(u) = "none" /\ RowOf(u)' = "running"
           \/ RowOf(u) = "running" /\ RowOf(u)' \in Row!Settled
           \/ RowOf(u) = "completed" /\ RowOf(u)' \in {"cancelled", "failed"}
           \/ RowOf(u)' = "gone"
    PROVE  [Row!Next]_RowBar
<1>0. \A s : RowOf(u)' = s => RowBar' = [RowBar EXCEPT ![u] = s]
  BY DEF RowBar
<1>1. CASE RowOf(u)' = RowOf(u)
  BY <1>1 DEF RowBar
<1>2. CASE RowOf(u) = "none" /\ RowOf(u)' = "running"
  <2>1. RowBar[u] = "none" /\ RowBar' = [RowBar EXCEPT ![u] = "running"]
    BY <1>0, <1>2 DEF RowBar
  <2>2. Row!Begin(u)
    BY <2>1 DEF Row!Begin, RowBar
  <2> QED BY <2>2 DEF Row!Next
<1>3. CASE RowOf(u) = "running" /\ RowOf(u)' \in Row!Settled
  <2>1. Row!Settle(u)
    BY <1>3 DEF Row!Settle
  <2> QED BY <2>1 DEF Row!Next
<1>4. CASE RowOf(u) = "completed" /\ RowOf(u)' \in {"cancelled", "failed"}
  <2>1. /\ RowBar[u] = "completed"
        /\ \E s \in {"cancelled", "failed"} : RowBar' = [RowBar EXCEPT ![u] = s]
    BY <1>0, <1>4 DEF RowBar
  <2>2. Row!Overrule(u)
    BY <2>1 DEF Row!Overrule, RowBar
  <2> QED BY <2>2 DEF Row!Next
<1>5. CASE RowOf(u)' = "gone"
  <2>1. Row!Vanish({u})
    BY <1>5 DEF Row!Vanish
  <2> QED BY <2>1 DEF Row!Next
<1> QED BY <1>1, <1>2, <1>3, <1>4, <1>5

(* The same for a step that removes many rows at once. *)
LEMMA ManyRowsStep ==
    ASSUME NEW T \in SUBSET TaskId,
           \A t \in TaskId : RowOf(t)' = IF t \in T THEN "gone" ELSE RowOf(t)
    PROVE  [Row!Next]_RowBar
<1>1. Row!Vanish(T)
  BY DEF Row!Vanish
<1> QED BY <1>1 DEF Row!Next

LEMMA RowStep ==
    ASSUME IInv, IInv', [Next]_vars
    PROVE  [Row!Next]_RowBar
<1> USE StatusByPlace
<1> USE DEF IInv, TypeOK, StatusFitsPlace, RowOf, HasRow, Goto, Commit, Leave, handlers
<1>1. ASSUME NEW u \in TaskId, TriggerRead(u) \/ TriggerStep(u) PROVE [Row!Next]_RowBar
  <2>1. \A t \in TaskId \ {u} : RowOf(t)' = RowOf(t)
    BY <1>1 DEF TriggerRead, TriggerStep, TriggerInsert, TriggerRejected, TriggerStart
  <2>2. CASE TriggerInsert(u)
    <3>1. RowOf(u) = "none" /\ RowOf(u)' = "running"
      BY <2>2 DEF TriggerInsert, Place, Trigger
    <3> QED BY <2>1, <3>1, OneRowStep
  <2>3. CASE TriggerStart(u)
    <3>1. RowOf(u)' = RowOf(u)
      BY <2>3 DEF TriggerStart
    <3> QED BY <2>1, <3>1, OneRowStep
  <2>4. CASE TriggerRead(u) \/ TriggerRejected(u)
    <3>1. RowOf(u)' = RowOf(u) \/ RowOf(u)' = "gone"
      BY <2>4 DEF TriggerRead, TriggerRejected, Place, Trigger
    <3> QED BY <2>1, <3>1, OneRowStep
  <2> QED BY <1>1, <2>2, <2>3, <2>4 DEF TriggerStep
<1>2. ASSUME NEW u \in TaskId, CoroutineStep(u) PROVE [Row!Next]_RowBar
  <2> USE DEF Runs
  <2>1. CASE \/ Start(u) \/ RecordTotal(u) \/ BodyRaises(u) \/ Finish(u)
             \/ FailSource(u) \/ CancelLeave(u) \/ HandlerRaises(u) \/ CancelArrives(u)
    <3>1. \A t \in TaskId : RowOf(t)' = RowOf(t)
      BY <2>1 DEF Start, RecordTotal, BodyRaises, Finish, FailSource, CancelLeave,
         HandlerRaises, CancelArrives, Body, Handlers
    <3> QED BY <3>1 DEF RowBar
  <2>2. CASE Complete(u)
    <3>1. \A t \in TaskId \ {u} : RowOf(t)' = RowOf(t)
      BY <2>2 DEF Complete
    <3>2. RowOf(u)' = RowOf(u) \/ (RowOf(u) = "running" /\ RowOf(u)' = "completed")
      BY <2>2 DEF Complete, Place, Live, Body
    <3> QED BY <3>1, <3>2, OneRowStep DEF Row!Settled
  <2>3. CASE FailTask(u)
    <3>1. \A t \in TaskId \ {u} : RowOf(t)' = RowOf(t)
      BY <2>3 DEF FailTask
    <3>2. \/ RowOf(u)' = RowOf(u)
          \/ RowOf(u) \in {"running", "completed"} /\ RowOf(u)' = "failed"
      BY <2>3 DEF FailTask, Place, Live, Handlers
    <3> QED BY <3>1, <3>2, OneRowStep DEF Row!Settled
  <2>4. CASE CancelTask(u)
    <3>1. \A t \in TaskId \ {u} : RowOf(t)' = RowOf(t)
      BY <2>4 DEF CancelTask
    <3>2. \/ RowOf(u)' = RowOf(u)
          \/ RowOf(u) \in {"running", "completed"} /\ RowOf(u)' = "cancelled"
      BY <2>4 DEF CancelTask, Place, Live, Handlers
    <3> QED BY <3>1, <3>2, OneRowStep DEF Row!Settled
  <2> QED BY <1>2, <2>1, <2>2, <2>3, <2>4 DEF CoroutineStep
<1>3. ASSUME NEW u \in TaskId, CancelRead(u) \/ CancelSend(u) PROVE [Row!Next]_RowBar
  BY <1>3 DEF CancelRead, CancelSend, RowBar
<1>4. ASSUME NEW s \in SourceId, DeleteCommit(s) PROVE [Row!Next]_RowBar
  <2> DEFINE T == {t \in TaskId : SourceOf[t] = s /\ pc[t] \notin {"idle", "checked"}}
  <2>1. \A t \in TaskId : RowOf(t)' = IF t \in T THEN "gone" ELSE RowOf(t)
    BY <1>4 DEF DeleteCommit, Place
  <2> HIDE DEF T
  <2>2. T \in SUBSET TaskId
    BY DEF T
  <2> QED BY <2>1, <2>2, ManyRowsStep
<1>5. ASSUME NEW s \in SourceId, DeleteCheck(s) \/ DeleteRollback(s) \/ HealthRecovers(s)
      PROVE [Row!Next]_RowBar
  BY <1>5 DEF DeleteCheck, DeleteRollback, HealthRecovers, RowBar
<1>6. CASE Crash
  <2> DEFINE T == {t \in TaskId : pc[t] = "checked"}
  <2>1. \A t \in TaskId : RowOf(t)' = IF t \in T THEN "gone" ELSE RowOf(t)
    BY <1>6 DEF Crash, Place, Trigger, Live, Body, Handlers
  <2> HIDE DEF T
  <2>2. T \in SUBSET TaskId
    BY DEF T
  <2> QED BY <2>1, <2>2, ManyRowsStep
<1>7. CASE UNCHANGED vars
  BY <1>7 DEF vars, RowBar
<1> QED BY <1>1, <1>2, <1>3, <1>4, <1>5, <1>6, <1>7 DEF Next, SourceStep

(* What a client polls behaves as TaskRow specifies: the row settles once, *)
(* only a completed one is ever overruled, by a cancellation that was sent *)
(* while it ran or a failure right after, and a removed one stays away.    *)
THEOREM Refinement == Spec => ImplementsRow
<1>1. Init => Row!Init
  BY DEF Init, Row!Init, RowOf, HasRow
<1>2. IInv /\ IInv' /\ [Next]_vars => [Row!Next]_RowBar
  BY RowStep
<1> QED BY <1>1, <1>2, Invariance, PTL DEF Spec, ImplementsRow, Row!Spec, RowBar
=============================================================================
