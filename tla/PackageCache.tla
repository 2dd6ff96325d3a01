---------------------------- MODULE PackageCache ----------------------------
(***************************************************************************)
(* The package files under repo_dir and the extension_build rows that      *)
(* describe them, with those that write both: proxied requests,            *)
(* synchronisation, eviction, and the administrator's delete, redownload   *)
(* and repair.  Publishing, which adds custom packages, and the batch      *)
(* deletion of rows are not among the activities.  No activity holds a     *)
(* lock.  Each reads rows, suspends, touches files, suspends, and commits; *)
(* an UPDATE carries only the columns whose value differs from what its    *)
(* session read.                                                           *)
(*                                                                         *)
(* Downloads go to a private temporary file that os.replace puts in place, *)
(* so only the redownload, which writes to the final path, can leave a     *)
(* truncated file there.                                                   *)
(***************************************************************************)
EXTENDS Naturals, SequencesExt

CONSTANTS
    Pkg,            \* packages, each with one path below repo_dir
    Request,        \* concurrent HTTP requests for packages
    Task,           \* synchronisation tasks that may overlap, of one source
                    \* or of several; each can be triggered again and again
    Index,          \* packages the index.json that the task fetches lists
    Selected,       \* those of them that pass the filters of the task
    RoundTrip,      \* packages whose row, when created from the file name
                    \* alone, has the key a synchronisation looks up
    ProxyMode,      \* settings.proxy_mode
    Activity,       \* what happens in this instance, see ActivityKind
    MaxRows         \* bound: no request creates a row beyond this many

ActivityKind == {"request", "pullFails", "markFails", "sync", "syncAborts",
                 "evict", "delete", "redownload", "repair"}

ASSUME ActivityType == Activity \subseteq ActivityKind
ASSUME ModeType == ProxyMode \in {"hybrid", "strict", "proxy_only"}
ASSUME IndexType == Index \in [Task -> SUBSET Pkg]
ASSUME SelectedType == /\ Selected \in [Task -> SUBSET Pkg]
                       /\ \A t \in Task : Selected[t] \subseteq Index[t]
ASSUME BoundType == RoundTrip \subseteq Pkg /\ MaxRows \in Nat

VARIABLES
    file,           \* "none", "part" (truncated, maybe empty) or "full"
    rows,           \* extension_build, in order of insertion
    req,            \* handle_package_request, one record per request
    reply,          \* what the last answer to a request carried
    sync,           \* SyncEngine._execute, one record per task
    evict,          \* the eviction job
    admin,          \* the administrator's delete or redownload
    repair          \* repair_consistency

vars == <<file, rows, req, reply, sync, evict, admin, repair>>

NoPath == "noPath"                      \* package_path = ""
NoPkg  == "noPkg"

ASSUME NameType == Pkg \cap {NoPath, NoPkg} = {}

(* keyed: its version and build columns are those the index yields. *)
Row == [pkg : Pkg, keyed : BOOLEAN, path : Pkg \cup {NoPath}, cached : BOOLEAN]

Id        == DOMAIN rows
ByPath(p) == {i \in Id : rows[i].path = p}
ByKey(p)  == {i \in Id : rows[i].pkg = p /\ rows[i].keyed}

NewRow(p, keyed, cached) ==
    [pkg |-> p, keyed |-> keyed, path |-> p, cached |-> cached]

(* UPDATE of column "cached", sent only when it differs from the value     *)
(* "seen" that the session has read.                                       *)
SetCached(i, seen, value) ==
    IF seen = value THEN rows ELSE [rows EXCEPT ![i].cached = value]

-----------------------------------------------------------------------------
(* A request for a package. *)

ReqIdle == [pc |-> "idle", pkg |-> NoPkg, row |-> 0, seen |-> FALSE]

ReqPc == {"idle", "hit", "pulling", "placed", "marking", "creating"}

ReqRec == [pc : ReqPc, pkg : Pkg \cup {NoPkg}, row : Nat, seen : BOOLEAN]

ReqGoto(r, pc) == req' = [req EXCEPT ![r].pc = pc]

(* main.py: an answer is the file when it is there, otherwise 404. *)
Answer(r, content) ==
    /\ req' = [req EXCEPT ![r] = ReqIdle]
    /\ reply' = [reply EXCEPT ![r] = IF content = "none" THEN "404" ELSE content]

(* A file of size zero counts as absent, a truncated one does not. *)
Lookup(r, p) ==
    /\ "request" \in Activity
    /\ req[r].pc = "idle"
    /\ \/ /\ file[p] # "none"
          /\ req' = [req EXCEPT ![r] = [ReqIdle EXCEPT !.pc = "hit", !.pkg = p]]
          /\ UNCHANGED reply
       \/ /\ file[p] # "full"
          /\ IF ProxyMode = "strict"
               THEN Answer(r, "none")
               ELSE /\ req' = [req EXCEPT ![r] = [ReqIdle EXCEPT !.pc = "pulling", !.pkg = p]]
                    /\ UNCHANGED reply
    /\ UNCHANGED <<file, rows, sync, evict, admin, repair>>

(* Mutant of HitAnswer: the file is not looked at again. *)
HitTrusts(r) ==
    /\ req[r].pc = "hit"
    /\ Answer(r, "full")
    /\ UNCHANGED <<file, rows, sync, evict, admin, repair>>

(* _update_access_time has returned; the file may be gone by now. *)
HitAnswer(r) ==
    /\ req[r].pc = "hit"
    /\ Answer(r, file[req[r].pkg])
    /\ UNCHANGED <<file, rows, sync, evict, admin, repair>>

(* The upstream answers 404, or there is no upstream. *)
PullRefused(r) ==
    /\ req[r].pc = "pulling"
    /\ Answer(r, "none")
    /\ UNCHANGED <<file, rows, sync, evict, admin, repair>>

(* Mutant of PullFails: the download writes to the final path. *)
PullLeavesPart(r) ==
    /\ "pullFails" \in Activity
    /\ req[r].pc = "pulling"
    /\ file' = [file EXCEPT ![req[r].pkg] = "part"]
    /\ Answer(r, "none")
    /\ UNCHANGED <<rows, sync, evict, admin, repair>>

(* An exception: whatever is at the final path is deleted. *)
PullFails(r) ==
    /\ "pullFails" \in Activity
    /\ req[r].pc = "pulling"
    /\ file' = [file EXCEPT ![req[r].pkg] = "none"]
    /\ Answer(r, "none")
    /\ UNCHANGED <<rows, sync, evict, admin, repair>>

PullPlaced(r) ==
    /\ req[r].pc = "pulling"
    /\ file' = [file EXCEPT ![req[r].pkg] = "full"]
    /\ ReqGoto(r, "placed")
    /\ UNCHANGED <<rows, reply, sync, evict, admin, repair>>

(* _mark_cached: the row by its path.  Several such rows raise             *)
(* MultipleResultsFound, which is swallowed.                               *)
MarkRead(r) ==
    LET found == ByPath(req[r].pkg) IN
    /\ req[r].pc = "placed"
    /\ \/ /\ found = {}
          /\ ReqGoto(r, "creating")
          /\ UNCHANGED reply
       \/ \E i \in found :
            /\ found = {i}
            /\ req' = [req EXCEPT ![r].pc = "marking", ![r].row = i,
                                  ![r].seen = rows[i].cached]
            /\ UNCHANGED reply
       \/ Cardinality(found) > 1 /\ Answer(r, file[req[r].pkg])
    /\ UNCHANGED <<file, rows, sync, evict, admin, repair>>

MarkCommit(r) ==
    /\ req[r].pc = "marking"
    /\ rows' = SetCached(req[r].row, req[r].seen, TRUE)
    /\ Answer(r, file[req[r].pkg])
    /\ UNCHANGED <<file, sync, evict, admin, repair>>

MarkCreate(r) ==
    LET p == req[r].pkg IN
    /\ req[r].pc = "creating"
    /\ Len(rows) < MaxRows
    /\ rows' = Append(rows, NewRow(p, p \in RoundTrip, TRUE))
    /\ Answer(r, file[p])
    /\ UNCHANGED <<file, sync, evict, admin, repair>>

(* The name cannot be parsed, or a write fails: no row, same answer. *)
MarkSwallowed(r) ==
    /\ "markFails" \in Activity
    /\ req[r].pc \in {"marking", "creating"}
    /\ Answer(r, file[req[r].pkg])
    /\ UNCHANGED <<file, rows, sync, evict, admin, repair>>

-----------------------------------------------------------------------------
(* A synchronisation task, from the fetched index to the updated index.    *)
(*   todo     packages the current stage has still to look at              *)
(*   pulling  packages with a download under way                           *)
(*   at       the package the task is busy with; there: it was on disk     *)
(*   plan     the changes held by the session until its commit             *)

SyncIdle == [pc |-> "idle", todo |-> {}, pulling |-> {}, at |-> NoPkg,
             there |-> FALSE, plan |-> {}]

SyncPc == {"idle", "meta1", "download", "mark", "marking", "list", "clean",
           "uncache", "uncaching", "meta2"}

(* A change to one row: row 0 is a row to insert; path and seen are what   *)
(* the session read, exists what it found on disk.                         *)
Change == [pkg : Pkg, row : Nat, path : Pkg \cup {NoPath}, seen : BOOLEAN,
           exists : BOOLEAN]

SyncRec == [pc : SyncPc, todo : SUBSET Pkg, pulling : SUBSET Pkg,
            at : Pkg \cup {NoPkg}, there : BOOLEAN, plan : SUBSET Change]

NewChange(p, exists) ==
    [pkg |-> p, row |-> 0, path |-> p, seen |-> FALSE, exists |-> exists]
ChangeOf(i, p, exists) ==
    [pkg |-> p, row |-> i, path |-> rows[i].path, seen |-> rows[i].cached,
     exists |-> exists]

(* Mutant of Updated: an existing row only has its path refreshed. *)
UpdatedPathOnly(i, plan) ==
    IF \E c \in plan : c.row = i THEN [rows[i] EXCEPT !.path = rows[i].pkg] ELSE rows[i]

(* The UPDATE of row i by a plan: a column that had the value to write when *)
(* it was read is left alone.                                               *)
Updated(i, plan) ==
    IF \E c \in plan : c.row = i
      THEN LET c == CHOOSE c \in plan : c.row = i IN
           [rows[i] EXCEPT !.path   = IF c.path = c.pkg THEN @ ELSE c.pkg,
                           !.cached = IF c.seen = c.exists THEN @ ELSE c.exists]
      ELSE rows[i]

Inserted(plan) ==
    SetToSeq({NewRow(c.pkg, TRUE, c.exists) : c \in {c \in plan : c.row = 0}})

Flushed(plan) == [i \in Id |-> Updated(i, plan)] \o Inserted(plan)

SyncStage(t, pc, todo) ==
    sync' = [sync EXCEPT ![t] = [SyncIdle EXCEPT !.pc = pc, !.todo = todo]]

In(t, pc, p) == sync[t].pc = pc /\ p \in sync[t].todo

OnDisk(P) == {p \in P : file[p] # "none"}

SyncBegin(t) ==
    /\ "sync" \in Activity
    /\ sync[t].pc = "idle"
    /\ SyncStage(t, "meta1", Index[t])
    /\ UNCHANGED <<file, rows, req, reply, evict, admin, repair>>

(* _update_db_metadata looks at one package after the other: first at the  *)
(* file,                                                                   *)
MetaStat(t, p) ==
    /\ In(t, "meta1", p) \/ In(t, "meta2", p)
    /\ sync[t].at = NoPkg
    /\ sync' = [sync EXCEPT ![t].todo = @ \ {p}, ![t].at = p,
                            ![t].there = file[p] # "none"]
    /\ UNCHANGED <<file, rows, req, reply, evict, admin, repair>>

(* then, after an await, at the row with its key.                          *)
Plan(t, c) == sync' = [sync EXCEPT ![t].at = NoPkg, ![t].plan = @ \cup {c}]

InMeta(t) == sync[t].pc \in {"meta1", "meta2"} /\ sync[t].at # NoPkg

\* Mutant of MetaPlan: the row is inserted without looking for it.
MetaPlanBlind(t) ==
    /\ InMeta(t)
    /\ Plan(t, NewChange(sync[t].at, sync[t].there))
    /\ UNCHANGED <<file, rows, req, reply, evict, admin, repair>>

MetaPlan(t) ==
    LET p == sync[t].at
        there == sync[t].there
    IN
    /\ InMeta(t)
    /\ \/ ByKey(p) = {} /\ Plan(t, NewChange(p, there))
       \/ \E i \in ByKey(p) : ByKey(p) = {i} /\ Plan(t, ChangeOf(i, p, there))
    /\ UNCHANGED <<file, rows, req, reply, evict, admin, repair>>

(* Mutant of MetaAmbiguous: the first of the rows is taken. *)
MetaTakesFirst(t) ==
    LET p == sync[t].at IN
    /\ InMeta(t)
    /\ Cardinality(ByKey(p)) > 1
    /\ Plan(t, ChangeOf(CHOOSE i \in ByKey(p) : \A j \in ByKey(p) : i <= j,
                        p, sync[t].there))
    /\ UNCHANGED <<file, rows, req, reply, evict, admin, repair>>

(* scalar_one_or_none raises: the task fails, its session rolls back. *)
MetaAmbiguous(t) ==
    /\ InMeta(t)
    /\ Cardinality(ByKey(sync[t].at)) > 1
    /\ SyncStage(t, "idle", {})
    /\ UNCHANGED <<file, rows, req, reply, evict, admin, repair>>

(* After the second pass the index is written and the task completes. *)
MetaCommit(t) ==
    /\ sync[t].todo = {} /\ sync[t].at = NoPkg
    /\ \/ sync[t].pc = "meta1" /\ SyncStage(t, "download", Selected[t])
       \/ sync[t].pc = "meta2" /\ SyncStage(t, "idle", {})
    /\ rows' = Flushed(sync[t].plan)
    /\ UNCHANGED <<file, req, reply, evict, admin, repair>>

(* download_one: a file that is there is skipped, a truncated one too      *)
(* unless it is empty.                                                     *)
DownloadCheck(t, p) ==
    /\ In(t, "download", p)
    /\ \/ file[p] # "none" /\ sync' = [sync EXCEPT ![t].todo = @ \ {p}]
       \/ file[p] # "full" /\ sync' = [sync EXCEPT ![t].todo = @ \ {p},
                                                   ![t].pulling = @ \cup {p}]
    /\ UNCHANGED <<file, rows, req, reply, evict, admin, repair>>

(* The download ends: in place, or counted as failed. *)
DownloadEnd(t, p) ==
    /\ p \in sync[t].pulling
    /\ file' \in {file, [file EXCEPT ![p] = "full"]}
    /\ sync' = [sync EXCEPT ![t].pulling = @ \ {p}]
    /\ UNCHANGED <<rows, req, reply, evict, admin, repair>>

(* _mark_cached: lists the selected files that are there, *)
SyncMarkList(t) ==
    /\ sync[t].pc = "download"
    /\ sync[t].todo = {} /\ sync[t].pulling = {}
    /\ IF OnDisk(Selected[t]) = {}
         THEN SyncStage(t, "list", {})
         ELSE SyncStage(t, "mark", OnDisk(Selected[t]))
    /\ UNCHANGED <<file, rows, req, reply, evict, admin, repair>>

(* reads their rows, and changes those whose file is still there. *)
SyncMarkRead(t) ==
    LET there == {i \in Id : rows[i].path \in OnDisk(sync[t].todo)} IN
    /\ sync[t].pc = "mark"
    /\ sync' = [sync EXCEPT ![t].pc = "marking",
                            ![t].plan = {ChangeOf(i, rows[i].path, TRUE) : i \in there}]
    /\ UNCHANGED <<file, rows, req, reply, evict, admin, repair>>

SyncMarkCommit(t) ==
    /\ sync[t].pc = "marking"
    /\ rows' = Flushed(sync[t].plan)
    /\ SyncStage(t, "list", {})
    /\ UNCHANGED <<file, req, reply, evict, admin, repair>>

(* _cleanup_removed_packages: of the files of every publisher that is not  *)
(* custom, those the task has not selected.  The packages of an instance   *)
(* lie in one directory, which is listed once.                             *)
CleanList(t) ==
    /\ sync[t].pc = "list"
    /\ SyncStage(t, "clean", OnDisk(Pkg \ Selected[t]))
    /\ UNCHANGED <<file, rows, req, reply, evict, admin, repair>>

(* They are unlinked one at a time; one that is gone meanwhile is skipped. *)
CleanUnlink(t, p) ==
    /\ In(t, "clean", p)
    /\ IF file[p] = "none"
         THEN sync' = [sync EXCEPT ![t].todo = @ \ {p}] /\ UNCHANGED file
         ELSE /\ file' = [file EXCEPT ![p] = "none"]
              /\ sync' = [sync EXCEPT ![t].todo = @ \ {p}, ![t].pc = "uncache",
                                      ![t].at = p]
    /\ UNCHANGED <<rows, req, reply, evict, admin, repair>>

(* _uncache_build: the row by path; several raise, which is swallowed. *)
CleanRead(t) ==
    LET found == ByPath(sync[t].at) IN
    /\ sync[t].pc = "uncache"
    /\ \/ \E i \in found :
            /\ found = {i}
            /\ sync' = [sync EXCEPT ![t].pc = "uncaching",
                                    ![t].plan = {ChangeOf(i, sync[t].at, FALSE)}]
       \/ /\ Cardinality(found) # 1
          /\ sync' = [sync EXCEPT ![t].pc = "clean", ![t].at = NoPkg]
    /\ UNCHANGED <<file, rows, req, reply, evict, admin, repair>>

Uncached(t) == sync' = [sync EXCEPT ![t].pc = "clean", ![t].at = NoPkg, ![t].plan = {}]

(* Mutant of CleanUncache: the row keeps its mark. *)
CleanForgets(t) ==
    /\ sync[t].pc = "uncaching"
    /\ Uncached(t)
    /\ UNCHANGED <<file, rows, req, reply, evict, admin, repair>>

(* Its commit, which may fail like any other and is swallowed as well. *)
CleanUncache(t) ==
    /\ sync[t].pc = "uncaching"
    /\ \/ \E c \in sync[t].plan : rows' = SetCached(c.row, c.seen, FALSE)
       \/ "markFails" \in Activity /\ UNCHANGED rows
    /\ Uncached(t)
    /\ UNCHANGED <<file, req, reply, evict, admin, repair>>

CleanEnd(t) ==
    /\ sync[t].pc = "clean"
    /\ sync[t].todo = {}
    /\ SyncStage(t, "meta2", Index[t])
    /\ UNCHANGED <<file, rows, req, reply, evict, admin, repair>>

(* Cancelled, failed, or an exception anywhere: what is committed stays. *)
SyncAborts(t) ==
    /\ "syncAborts" \in Activity
    /\ sync[t].pc # "idle"
    /\ SyncStage(t, "idle", {})
    /\ UNCHANGED <<file, rows, req, reply, evict, admin, repair>>

-----------------------------------------------------------------------------
(* Eviction.  Which of the cached rows go, by age, by version or by disk   *)
(* usage, is left open.  The rows are read (evict_old_versions reads one   *)
(* version after the other), their files unlinked with awaits in between,  *)
(* and all of it is recorded in one commit.                                *)
(*   todo   the rows still to evict, each with the path that was read      *)
(*   gone   the rows whose file has been unlinked                          *)

EvictIdle == [todo |-> {}, gone |-> {}]

Evicting == {v.row : v \in evict.todo} \cup evict.gone

EvictRead ==
    /\ "evict" \in Activity
    /\ \E ids \in (SUBSET {i \in Id : rows[i].cached}) \ {{}} :
         /\ ids \cap Evicting = {}
         /\ evict' = [evict EXCEPT !.todo = @ \cup
                                   {[row |-> i, path |-> rows[i].path] : i \in ids}]
    /\ UNCHANGED <<file, rows, req, reply, sync, admin, repair>>

EvictUnlink(v) ==
    /\ v \in evict.todo
    /\ v.path # NoPath
    /\ file' = [file EXCEPT ![v.path] = "none"]
    /\ evict' = [evict EXCEPT !.todo = @ \ {v}, !.gone = @ \cup {v.row}]
    /\ UNCHANGED <<rows, req, reply, sync, admin, repair>>

(* A row without a path names repo_dir itself; unlinking a directory       *)
(* raises, and nothing is committed for the files that are gone.           *)
EvictBreaks ==
    /\ \E v \in evict.todo : v.path = NoPath
    /\ evict' = EvictIdle
    /\ UNCHANGED <<file, rows, req, reply, sync, admin, repair>>

\* Mutant of EvictCommit: the path becomes NULL, which the column forbids.
EvictToNull ==
    /\ evict.todo = {} /\ evict.gone # {}
    /\ rows' = [i \in Id |-> IF i \in evict.gone
                               THEN [rows[i] EXCEPT !.cached = FALSE, !.path = NoPkg]
                               ELSE rows[i]]
    /\ evict' = EvictIdle
    /\ UNCHANGED <<file, req, reply, sync, admin, repair>>

EvictCommit ==
    /\ evict.todo = {} /\ evict.gone # {}
    /\ rows' = [i \in Id |-> IF i \in evict.gone
                               THEN [rows[i] EXCEPT !.cached = FALSE, !.path = NoPath]
                               ELSE rows[i]]
    /\ evict' = EvictIdle
    /\ UNCHANGED <<file, req, reply, sync, admin, repair>>

-----------------------------------------------------------------------------
(* The administrator: delete a package, or download it again.              *)

AdminIdle == [pc |-> "idle", row |-> 0, pkg |-> NoPkg, seen |-> FALSE]

AdminPc == {"idle", "deleting", "fetching", "writing", "recording"}

AdminRec == [pc : AdminPc, row : Nat, pkg : Pkg \cup {NoPkg}, seen : BOOLEAN]

AdminTakes(i, pc) ==
    admin' = [pc |-> pc, row |-> i, pkg |-> rows[i].path, seen |-> rows[i].cached]

(* delete_package: a missing file is a 404, an empty path an OSError. *)
Delete(i) ==
    /\ "delete" \in Activity /\ admin.pc = "idle"
    /\ rows[i].path # NoPath /\ file[rows[i].path] # "none"
    /\ file' = [file EXCEPT ![rows[i].path] = "none"]
    /\ AdminTakes(i, "deleting")
    /\ UNCHANGED <<rows, req, reply, sync, evict, repair>>

DeleteCommit ==
    /\ admin.pc = "deleting"
    /\ rows' = SetCached(admin.row, admin.seen, FALSE)
    /\ admin' = AdminIdle
    /\ UNCHANGED <<file, req, reply, sync, evict, repair>>

(* redownload_package reads the row and asks the upstream. *)
Redownload(i) ==
    /\ "redownload" \in Activity /\ admin.pc = "idle"
    /\ rows[i].path # NoPath
    /\ AdminTakes(i, "fetching")
    /\ UNCHANGED <<file, rows, req, reply, sync, evict, repair>>

(* The answer arrives: open(local_file, "wb") truncates the final path. *)
RedownloadOpen ==
    /\ admin.pc = "fetching"
    /\ file' = [file EXCEPT ![admin.pkg] = "part"]
    /\ admin' = [admin EXCEPT !.pc = "writing"]
    /\ UNCHANGED <<rows, req, reply, sync, evict, repair>>

(* The upstream refuses or the network fails: what was written stays. *)
RedownloadFails ==
    /\ admin.pc \in {"fetching", "writing"}
    /\ admin' = AdminIdle
    /\ UNCHANGED <<file, rows, req, reply, sync, evict, repair>>

(* The path may have been replaced meanwhile, or be gone, which raises     *)
(* when the file is opened again for its digest.                           *)
RedownloadWritten ==
    /\ admin.pc = "writing"
    /\ IF file[admin.pkg] = "none"
         THEN admin' = AdminIdle /\ UNCHANGED file
         ELSE /\ admin' = [admin EXCEPT !.pc = "recording"]
              /\ file' = [file EXCEPT ![admin.pkg] = "full"]
    /\ UNCHANGED <<rows, req, reply, sync, evict, repair>>

RedownloadCommit ==
    /\ admin.pc = "recording"
    /\ rows' = SetCached(admin.row, admin.seen, TRUE)
    /\ admin' = AdminIdle
    /\ UNCHANGED <<file, req, reply, sync, evict, repair>>

-----------------------------------------------------------------------------
(* repair_consistency: a row for every file that no cached row names.      *)
(*   known  the paths of the cached rows when it started                   *)
(*   todo   the listed files still to look at                              *)

RepairIdle == [pc |-> "idle", known |-> {}, todo |-> {}]

RepairBegin ==
    /\ "repair" \in Activity /\ repair.pc = "idle"
    /\ repair' = [pc |-> "walking", todo |-> OnDisk(Pkg),
                  known |-> {rows[i].path : i \in {i \in Id : rows[i].cached}}]
    /\ UNCHANGED <<file, rows, req, reply, sync, evict, admin>>

(* Each row is committed at once.  A name that cannot be parsed, or a      *)
(* failing commit, is counted and passed over.                             *)
RepairFile(p) ==
    /\ repair.pc = "walking" /\ p \in repair.todo
    /\ repair' = [repair EXCEPT !.todo = @ \ {p}]
    /\ \/ /\ p \notin repair.known
          /\ Len(rows) < MaxRows
          /\ rows' = Append(rows, NewRow(p, p \in RoundTrip, TRUE))
       \/ /\ p \in repair.known \/ "markFails" \in Activity
          /\ UNCHANGED rows
    /\ UNCHANGED <<file, req, reply, sync, evict, admin>>

RepairEnd ==
    /\ repair.pc = "walking" /\ repair.todo = {}
    /\ repair' = RepairIdle
    /\ UNCHANGED <<file, rows, req, reply, sync, evict, admin>>

-----------------------------------------------------------------------------
Init ==
    /\ file = [p \in Pkg |-> "none"]
    /\ rows = <<>>
    /\ req = [r \in Request |-> ReqIdle]
    /\ reply = [r \in Request |-> "none"]
    /\ sync = [t \in Task |-> SyncIdle]
    /\ evict = EvictIdle
    /\ admin = AdminIdle
    /\ repair = RepairIdle

RequestStep(r) == \/ HitAnswer(r) \/ PullRefused(r) \/ PullFails(r) \/ PullPlaced(r)
                  \/ MarkRead(r) \/ MarkCommit(r) \/ MarkCreate(r) \/ MarkSwallowed(r)

SyncStep(t) == \/ \E p \in Pkg : \/ MetaStat(t, p)
                                 \/ DownloadCheck(t, p) \/ DownloadEnd(t, p)
                                 \/ CleanUnlink(t, p)
               \/ MetaPlan(t) \/ MetaAmbiguous(t) \/ MetaCommit(t)
               \/ SyncMarkList(t) \/ SyncMarkRead(t) \/ SyncMarkCommit(t)
               \/ CleanList(t) \/ CleanRead(t) \/ CleanUncache(t) \/ CleanEnd(t)

EvictStep == \/ EvictRead \/ (\E v \in evict.todo : EvictUnlink(v))
             \/ EvictBreaks \/ EvictCommit

AdminStep == \/ \E i \in Id : Delete(i) \/ Redownload(i)
             \/ DeleteCommit
             \/ RedownloadOpen \/ RedownloadFails
             \/ RedownloadWritten \/ RedownloadCommit

RepairStep == RepairBegin \/ (\E p \in Pkg : RepairFile(p)) \/ RepairEnd

Next == \/ \E r \in Request : \/ \E p \in Pkg : Lookup(r, p)
                              \/ RequestStep(r)
        \/ \E t \in Task : SyncBegin(t) \/ SyncStep(t) \/ SyncAborts(t)
        \/ EvictStep
        \/ AdminStep
        \/ RepairStep

Spec == Init /\ [][Next]_vars

(* A handler and a task run on; a source is synchronised again and again   *)
(* because the scheduler triggers it at every interval.                    *)
Fairness ==
    /\ \A r \in Request : WF_vars(RequestStep(r))
    /\ \A t \in Task : WF_vars(SyncBegin(t)) /\ WF_vars(SyncStep(t))

FairSpec == Spec /\ Fairness

-----------------------------------------------------------------------------
TypeOK ==
    /\ file \in [Pkg -> {"none", "part", "full"}]
    /\ rows \in Seq(Row)
    /\ req \in [Request -> ReqRec]
    /\ reply \in [Request -> {"none", "404", "part", "full"}]
    /\ sync \in [Task -> SyncRec]
    /\ evict \in [todo : SUBSET [row : Nat, path : Pkg \cup {NoPath}], gone : SUBSET Nat]
    /\ admin \in AdminRec
    /\ repair \in [pc : {"idle", "walking"}, known : SUBSET (Pkg \cup {NoPath}),
                   todo : SUBSET Pkg]

(* No client ever receives a truncated package, whatever is evicted,       *)
(* deleted or fails while it is served: every writer goes through a        *)
(* private file and os.replace.  Only a redownload breaks this.            *)
ServedIsWhole == \A r \in Request : reply[r] # "part"

(* What a client sees of it, as PackageStore describes it. *)
Store == INSTANCE PackageStore
           WITH there  <- OnDisk(Pkg),
                want   <- [r \in Request |-> req[r].pkg],
                missed <- {r \in Request : req[r].pc = "pulling"},
                got    <- reply

(* Clients are served as PackageStore allows: a client gets the package it *)
(* asked for only while the whole of it is there, and a 404 only if it was *)
(* not there at some moment between question and answer, although the file *)
(* is looked at several times, with awaits in between, while others place  *)
(* and remove it.  Only a redownload breaks this.                          *)
ImplementsStore == Store!Spec

(* A synchronisation finds at most one row for a package of its index.     *)
OneRowPerKey == \A p \in Pkg : \A i, j \in ByKey(p) : i = j

(* When nothing is under way, the rows marked as cached have their file.   *)
AtRest == /\ \A r \in Request : req[r].pc = "idle"
          /\ \A t \in Task : sync[t].pc = "idle"
          /\ evict = EvictIdle
          /\ admin.pc = "idle"
          /\ repair.pc = "idle"

CachedIsOnDisk ==
    AtRest => \A i \in Id : rows[i].cached => rows[i].path \in OnDisk(Pkg)

(* Synchronisations that never overlap, of one source or of several whose  *)
(* cleanups remove each other's packages, leave no row that claims a       *)
(* missing file.  Overlapping ones do: one marks what the other removes.   *)
OneAtATime ==
    \A t, u \in Task : t # u => "idle" \in {sync[t].pc, sync[u].pc}

SequentialIsExact == []OneAtATime => []CachedIsOnDisk

(* Nobody evicts or repairs, if a file name can give a row the key of an   *)
(* index.                                                                  *)
Calm == RoundTrip # {} => evict = EvictIdle /\ repair.pc = "idle"

TakeTurns ==
    /\ Calm /\ OneAtATime
    /\ \A r, s \in Request : r # s => "idle" \in {req[r].pc, req[s].pc}
    /\ \A r \in Request, t \in Task : "idle" \in {req[r].pc, sync[t].pc}

(* Requests make rows by path, synchronisations by key, and nothing in the *)
(* schema keeps either from making a second row of one key.  As long as    *)
(* none of them overlaps with another they do not, aborted or failing,     *)
(* although each finds what the others made in another way.  Where a file  *)
(* name gives the key of an index that takes Calm: an eviction clears the  *)
(* path by which requests look, and a repair looks at marked rows only, so *)
(* a package that is requested again, or repaired while it is downloaded,  *)
(* gets a second row.                                                      *)
TurnsKeepKeys == []TakeTurns => []OneRowPerKey

(* Two rows with one key are final: no activity here removes either (an    *)
(* administrator has to find and batch-delete one of them), and from then  *)
(* on every task whose index lists the package fails in its first pass.    *)
Duplicated(t) == \E p \in Index[t] : Cardinality(ByKey(p)) > 1

DuplicateIsFinal ==
    \A t \in Task : Duplicated(t) ~> [](sync[t].pc \in {"idle", "meta1"})

(* Whatever requests, evictions, administrators and aborted tasks have     *)
(* left behind: once they stop and a task is triggered again and again,    *)
(* from some point on, between its runs, the rows of its index tell the    *)
(* path of their package and whether its file is there.  There is one      *)
(* thing it cannot repair: two rows of one key, which rows made from file  *)
(* names bring about for the packages of RoundTrip; see DuplicateIsFinal.  *)
Agrees(t) ==
    \A p \in Index[t] : \E i \in ByKey(p) :
        rows[i].path = p /\ (rows[i].cached <=> file[p] # "none")

SyncHeals ==
    \A t \in Task :
        <>[][SyncBegin(t) \/ SyncStep(t)]_vars
            => <>[](sync[t].pc = "idle" => Agrees(t)) \/ <>[]Duplicated(t)
=============================================================================
