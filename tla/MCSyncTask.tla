----------------------------- MODULE MCSyncTask -----------------------------
(***************************************************************************)
(* Instances of SyncTask: two triggers for one source, so that overlapping *)
(* tasks, their cancellation and the deletion of the source meet.          *)
(***************************************************************************)
EXTENDS SyncTask

CONSTANTS t1, t2, s1

MCSourceOf == [t \in TaskId |-> s1]
=============================================================================
