----------------------- MODULE PackageCacheSyncProofs -----------------------
(***************************************************************************)
(* What synchronisations leave behind, for any packages, tasks, indexes    *)
(* and filters: when they do not overlap, when a key has two rows, and     *)
(* when a run is not disturbed.                                            *)
(***************************************************************************)
EXTENDS PackageCacheProofs

-----------------------------------------------------------------------------
(* Synchronisations that do not overlap.                                   *)

\* Nothing but the tasks of a source is under way.
OnlySync == /\ req = [r \in Request |-> ReqIdle] /\ evict = EvictIdle
            /\ admin = AdminIdle /\ repair = RepairIdle

\* One row a package, with the package's path and the key of the index.
RowsOfIndex ==
    /\ \A i \in Id : rows[i].keyed /\ rows[i].path = rows[i].pkg
    /\ \A i, j \in Id : rows[i].pkg = rows[j].pkg => i = j

\* The file of p is gone, and the task that removed it is about to say so.
Unmarking(p) == \E t \in Task : sync[t].pc \in {"uncache", "uncaching"} /\ sync[t].at = p

MarksAreTrue ==
    \A i \in Id : rows[i].cached => file[rows[i].path] # "none" \/ Unmarking(rows[i].path)

\* A change that says of row i what is true of it, but for the mark.
TrueOfRow(c) ==
    /\ c.row # 0 => /\ c.row \in Id /\ rows[c.row].pkg = c.pkg
                    /\ rows[c.row].cached = c.seen
    /\ c.path = c.pkg

\* What a session holds until its commit.
PlanExact(t) ==
    LET s == sync[t] IN
    /\ s.pulling # {} => s.pc = "download"
    /\ s.pc \in {"meta1", "meta2", "marking"} =>
         \A c \in s.plan : TrueOfRow(c) /\ (c.exists => file[c.pkg] # "none")
    /\ s.pc \in {"meta1", "meta2"} =>
         /\ \A c, d \in s.plan : c.pkg = d.pkg => c = d
         /\ \A c \in s.plan : c.pkg \notin s.todo
         /\ s.at # NoPkg => /\ s.at \notin s.todo
                            /\ \A c \in s.plan : c.pkg # s.at
                            /\ s.there => file[s.at] # "none"
         /\ \A c \in s.plan : c.row = 0 => \A i \in Id : rows[i].pkg # c.pkg
    /\ s.pc = "marking" => \A c \in s.plan : c.row # 0
    /\ s.pc = "uncaching" => \A c \in s.plan :
         TrueOfRow(c) /\ c.row # 0 /\ c.pkg = s.at

ExactInv == OnlySync /\ RowsOfIndex /\ MarksAreTrue /\ \A t \in Task : PlanExact(t)

-----------------------------------------------------------------------------
(* A commit of a plan that is true of the rows it changes.                 *)

LEMMA FlushedRows ==
    ASSUME rows \in Seq(Row), NEW plan \in SUBSET Change, IsFiniteSet(plan)
    PROVE  \A i \in Id : Flushed(plan)[i] = Updated(i, plan)
<1> DEFINE U == [i \in Id |-> Updated(i, plan)]
           I == Inserted(plan)
<1>1. Id = 1 .. Len(rows) /\ Len(rows) \in Nat
  BY DEF Id
<1>2. U = [i \in 1 .. Len(rows) |-> Updated(i, plan)]
  BY <1>1
<1>3. I \in Seq(Row)
  BY InsertedFacts
<1>4. Flushed(plan) = U \o I
  BY DEF Flushed
<1> HIDE DEF I
<1>5. \A i \in 1 .. Len(rows) : (U \o I)[i] = Updated(i, plan)
  BY <1>1, <1>2, <1>3
<1> QED BY <1>1, <1>4, <1>5

LEMMA UpdatedFacts ==
    ASSUME rows \in Seq(Row), NEW plan \in SUBSET Change, NEW i \in Id,
           rows[i].path = rows[i].pkg, \A c \in plan : TrueOfRow(c)
    PROVE  /\ Updated(i, plan).pkg = rows[i].pkg
           /\ Updated(i, plan).keyed = rows[i].keyed
           /\ Updated(i, plan).path = rows[i].path
           /\ \/ Updated(i, plan).cached = rows[i].cached /\ \A c \in plan : c.row # i
              \/ \E c \in plan : /\ c.row = i /\ c.pkg = rows[i].pkg
                                 /\ Updated(i, plan).cached = c.exists
<1>1. rows[i] \in Row /\ i # 0
  BY DEF Id
<1>2. CASE \E c \in plan : c.row = i
  <2> DEFINE c == CHOOSE c \in plan : c.row = i
  <2>1. c \in plan /\ c.row = i
    BY <1>2
  <2>2. Updated(i, plan) =
         [rows[i] EXCEPT !.path   = IF c.path = c.pkg THEN @ ELSE c.pkg,
                         !.cached = IF c.seen = c.exists THEN @ ELSE c.exists]
    BY <1>2 DEF Updated
  <2> HIDE DEF c
  <2>3. c.path = c.pkg /\ c.pkg = rows[i].pkg /\ c.seen = rows[i].cached
    BY <1>1, <2>1 DEF TrueOfRow
  <2> QED BY <1>1, <2>1, <2>2, <2>3 DEF Row
<1>3. CASE ~ \E c \in plan : c.row = i
  BY <1>1, <1>3 DEF Updated
<1> QED BY <1>2, <1>3

(* The commit of a metadata pass, or of the marks: the table stays one row *)
(* a package, and every mark of it is true.                                *)
LEMMA FlushIsExact ==
    ASSUME rows \in Seq(Row), NEW plan \in SUBSET Change, IsFiniteSet(plan),
           RowsOfIndex, UNCHANGED file, rows' = Flushed(plan),
           \A i \in Id : rows[i].cached => file[rows[i].path] # "none",
           \A c \in plan : TrueOfRow(c) /\ (c.exists => file[c.pkg] # "none"),
           \A c, d \in plan : c.row = 0 /\ d.row = 0 /\ c.pkg = d.pkg => c = d,
           \A c \in plan : c.row = 0 => \A i \in Id : rows[i].pkg # c.pkg
    PROVE  /\ RowsOfIndex'
           /\ \A i \in Id' : rows'[i].cached => file'[rows'[i].path] # "none"
<1> DEFINE I == Inserted(plan)
           n == Len(rows)
<1>1. /\ I \in Seq(Row) /\ IsInjective(I)
      /\ \A k \in DOMAIN I : \E c \in plan : c.row = 0 /\ I[k] = NewRow(c.pkg, TRUE, c.exists)
  BY InsertedFacts
<1>2. /\ rows' \in Seq(Row) /\ Len(rows') = n + Len(I)
      /\ \A i \in Id : rows'[i] = Updated(i, plan)
      /\ \A k \in DOMAIN I : rows'[n + k] = I[k]
  BY FlushedFacts, FlushedRows
<1>3. n \in Nat /\ Id = 1 .. n /\ Len(I) \in Nat /\ DOMAIN I = 1 .. Len(I)
  BY <1>1 DEF Id
<1>4. \A i \in Id : rows[i].path = rows[i].pkg /\ rows[i].keyed
  BY DEF RowsOfIndex
<1> HIDE DEF I, n
<1>5. Id' = 1 .. (n + Len(I))
  BY <1>2 DEF Id
<1>6. ASSUME NEW i \in Id
      PROVE  /\ rows'[i].pkg = rows[i].pkg /\ rows'[i].path = rows[i].pkg
             /\ rows'[i].keyed
             /\ rows'[i].cached => file'[rows'[i].path] # "none"
  BY <1>2, <1>4, UpdatedFacts
<1>7. ASSUME NEW i \in Id' \ Id
      PROVE  /\ i - n \in DOMAIN I /\ rows'[i] = I[i - n]
             /\ \E c \in plan : c.row = 0 /\ rows'[i] = NewRow(c.pkg, TRUE, c.exists)
  <2>1. i - n \in 1 .. Len(I) /\ i = n + (i - n)
    BY <1>3, <1>5
  <2> DEFINE k == i - n
  <2>2. k \in DOMAIN I /\ rows'[i] = I[k]
    BY <1>2, <1>3, <2>1
  <2> HIDE DEF k
  <2>3. \E c \in plan : c.row = 0 /\ I[k] = NewRow(c.pkg, TRUE, c.exists)
    BY <1>1, <2>2
  <2>4. \E c \in plan : c.row = 0 /\ rows'[i] = NewRow(c.pkg, TRUE, c.exists)
    BY <2>2, <2>3
  <2> QED BY <2>2, <2>4 DEF k
<1>8. ASSUME NEW i \in Id' \ Id
      PROVE  /\ rows'[i].path = rows'[i].pkg /\ rows'[i].keyed
             /\ rows'[i].cached => file'[rows'[i].path] # "none"
             /\ \A j \in Id : rows[j].pkg # rows'[i].pkg
  <2>1. PICK c \in plan : c.row = 0 /\ rows'[i] = NewRow(c.pkg, TRUE, c.exists)
    BY <1>7
  <2>2. /\ rows'[i].path = c.pkg /\ rows'[i].pkg = c.pkg /\ rows'[i].keyed
        /\ rows'[i].cached = c.exists
    BY <2>1 DEF NewRow
  <2> QED BY <2>1, <2>2
<1>9. ASSUME NEW i \in Id', NEW j \in Id', rows'[i].pkg = rows'[j].pkg
      PROVE  i = j
  <2>1. CASE i \in Id /\ j \in Id
    BY <1>6, <1>9, <2>1 DEF RowsOfIndex
  <2>2. CASE i \in Id /\ j \notin Id
    BY <1>6, <1>8, <1>9, <2>2
  <2>3. CASE i \notin Id /\ j \in Id
    BY <1>6, <1>8, <1>9, <2>3
  <2>4. CASE i \notin Id /\ j \notin Id
    <3>1. PICK c \in plan : c.row = 0 /\ rows'[i] = NewRow(c.pkg, TRUE, c.exists)
      BY <1>7, <2>4
    <3>2. PICK d \in plan : d.row = 0 /\ rows'[j] = NewRow(d.pkg, TRUE, d.exists)
      BY <1>7, <2>4
    <3>3. c = d
      BY <1>9, <3>1, <3>2 DEF NewRow
    <3>4. /\ i - n \in DOMAIN I /\ rows'[i] = I[i - n]
          /\ j - n \in DOMAIN I /\ rows'[j] = I[j - n]
      BY <1>7, <2>4
    <3>5. I[i - n] = I[j - n]
      BY <3>1, <3>2, <3>3, <3>4
    <3>6. i - n = j - n
      BY <1>1, <3>4, <3>5 DEF IsInjective
    <3> QED BY <1>3, <1>5, <3>6
  <2> QED BY <2>1, <2>2, <2>3, <2>4
<1> QED BY <1>6, <1>8, <1>9, <1>4 DEF RowsOfIndex

(* Setting a mark to what is true, or taking it away.                      *)
LEMMA UncacheIsExact ==
    ASSUME rows \in Seq(Row), RowsOfIndex, UNCHANGED file,
           NEW i \in Id, NEW p, rows[i].pkg = p,
           \A j \in Id : rows[j].cached => file[rows[j].path] # "none" \/ rows[j].path = p,
           rows' = SetCached(i, rows[i].cached, FALSE)
    PROVE  /\ RowsOfIndex'
           /\ \A j \in Id' : rows'[j].cached => file'[rows'[j].path] # "none"
<1>1. \A j \in Id : rows[j] \in Row /\ rows[j].path = rows[j].pkg
  BY DEF Id, RowsOfIndex
<1>2. \A j \in Id : rows[j].path = p => j = i
  BY <1>1 DEF RowsOfIndex
<1>3. CASE rows[i].cached = FALSE
  <2>1. rows' = rows
    BY <1>3 DEF SetCached
  <2> QED BY <1>2, <1>3, <2>1 DEF RowsOfIndex, Id
<1>4. CASE rows[i].cached = TRUE
  <2> DEFINE x == [rows[i] EXCEPT !.cached = FALSE]
  <2>1. rows' = [rows EXCEPT ![i] = x]
    BY <1>4 DEF SetCached
  <2>2. /\ x.pkg = rows[i].pkg /\ x.keyed = rows[i].keyed /\ x.path = rows[i].path
        /\ x.cached = FALSE
    BY <1>1 DEF Row
  <2> HIDE DEF x
  <2>3. Id' = Id /\ \A j \in Id : rows'[j] = IF j = i THEN x ELSE rows[j]
    BY <2>1 DEF Id
  <2>4. \A j \in Id : /\ rows'[j].pkg = rows[j].pkg
                      /\ rows'[j].path = rows[j].path
                      /\ rows'[j].cached => j # i /\ rows[j].cached
    BY <2>2, <2>3
  <2>5. RowsOfIndex'
    <3>1. \A j \in Id : rows'[j].keyed
      BY <2>2, <2>3 DEF RowsOfIndex
    <3>2. \A j \in Id : rows'[j].path = rows'[j].pkg
      BY <1>1, <2>4
    <3>3. ASSUME NEW j \in Id, NEW k \in Id, rows'[j].pkg = rows'[k].pkg PROVE j = k
      <4>1. rows[j].pkg = rows[k].pkg
        BY <2>4, <3>3
      <4> QED BY <4>1 DEF RowsOfIndex
    <3>4. /\ \A j \in Id' : rows'[j].keyed /\ rows'[j].path = rows'[j].pkg
          /\ \A j, k \in Id' : rows'[j].pkg = rows'[k].pkg => j = k
      <4>1. Id' = Id
        BY <2>3
      <4> QED BY <3>1, <3>2, <3>3, <4>1
    <3> QED BY <3>4 DEF RowsOfIndex
  <2>6. ASSUME NEW j \in Id, rows'[j].cached PROVE file'[rows'[j].path] # "none"
    BY <1>2, <2>4, <2>6
  <2> QED BY <2>3, <2>5, <2>6
<1> QED BY <1>1, <1>3, <1>4 DEF Row

-----------------------------------------------------------------------------
(* The steps of the one task that is not idle.                             *)

\* What OneAtATime says of the other tasks.
Alone(t) == \A u \in Task : u # t => sync[u].pc = "idle"

\* What a step of t owes: the rows, the marks and its own plan.  The plans of
\* the other tasks are none of its concern while they are idle.
LEMMA OwnStepSuffices ==
    ASSUME ExactInv, NEW t \in Task, Alone(t), sync \in [Task -> SyncRec],
           NEW s, sync' = [sync EXCEPT ![t] = s],
           OnlySync', RowsOfIndex', MarksAreTrue', PlanExact(t)'
    PROVE  ExactInv'
<1>1. ASSUME NEW u \in Task, u # t PROVE PlanExact(u)'
  <2>1. sync'[u] = sync[u] /\ sync[u].pc = "idle" /\ PlanExact(u)
    BY <1>1 DEF Alone, ExactInv
  <2> QED BY <2>1 DEF PlanExact
<1> QED BY <1>1 DEF ExactInv

LEMMA SameRows ==
    ASSUME RowsOfIndex, rows' = rows
    PROVE  RowsOfIndex' /\ Id' = Id /\ \A c : TrueOfRow(c)' = TrueOfRow(c)
  BY DEF RowsOfIndex, TrueOfRow, Id

AllTrue == \A i \in Id : rows[i].cached => file[rows[i].path] # "none"

LEMMA MarksOfOwn ==
    ASSUME MarksAreTrue, NEW t \in Task, Alone(t)
    PROVE  /\ sync[t].pc \notin {"uncache", "uncaching"} => AllTrue
           /\ \A i \in Id : rows[i].cached =>
                file[rows[i].path] # "none" \/ rows[i].path = sync[t].at
  BY DEF MarksAreTrue, Unmarking, Alone, AllTrue

LEMMA AllTrueSuffices ==
    ASSUME \A i \in Id' : rows'[i].cached => file'[rows'[i].path] # "none"
    PROVE  MarksAreTrue'
  BY DEF MarksAreTrue

\* Everything about the state before that the cases need.
Before(t) ==
    /\ file \in [Pkg -> {"none", "part", "full"}]
    /\ rows \in Seq(Row)
    /\ sync \in [Task -> SyncRec] /\ sync[t] \in SyncRec
    /\ IsFiniteSet(sync[t].plan)
    /\ ExactInv /\ Alone(t)

LEMMA BeforeIs ==
    ASSUME TInv, ExactInv, NEW t \in Task, Alone(t)
    PROVE  Before(t)
  BY DEF TInv, TypeOK, FinitePlans, Before

(* Steps that begin a stage with the files and the rows as they were.      *)
LEMMA StageIsExact ==
    ASSUME NEW t \in Task, Before(t), NEW pc \in SyncPc, NEW T \in SUBSET Pkg,
           SyncStage(t, pc, T), UNCHANGED <<req, evict, admin, repair>>,
           RowsOfIndex', \A i \in Id' : rows'[i].cached => file'[rows'[i].path] # "none"
    PROVE  ExactInv'
<1> DEFINE s == [SyncIdle EXCEPT !.pc = pc, !.todo = T]
<1>1. sync' = [sync EXCEPT ![t] = s]
  BY DEF SyncStage
<1>2. s.pc = pc /\ s.plan = {} /\ s.at = NoPkg /\ s.pulling = {}
  BY DEF SyncIdle
<1> HIDE DEF s
<1>3. sync'[t] = s
  BY <1>1 DEF Before
<1>4. PlanExact(t)'
  BY <1>2, <1>3 DEF PlanExact
<1>5. OnlySync'
  BY DEF Before, ExactInv, OnlySync
<1> QED BY <1>1, <1>4, <1>5, AllTrueSuffices, OwnStepSuffices DEF Before

LEMMA BeginIsExact ==
    ASSUME NEW t \in Task, Before(t),
           SyncBegin(t) \/ MetaAmbiguous(t) \/ SyncMarkList(t) \/ CleanList(t) \/ CleanEnd(t)
    PROVE  ExactInv'
<1>1. UNCHANGED <<file, rows, req, evict, admin, repair>>
  BY DEF SyncBegin, MetaAmbiguous, SyncMarkList, CleanList, CleanEnd
<1>2. sync[t].pc \notin {"uncache", "uncaching"}
  BY DEF SyncBegin, MetaAmbiguous, InMeta, SyncMarkList, CleanList, CleanEnd
<1>3. RowsOfIndex'
  BY <1>1, SameRows DEF Before, ExactInv
<1>4. \A i \in Id' : rows'[i].cached => file'[rows'[i].path] # "none"
  <2>1. AllTrue
    BY <1>2, MarksOfOwn DEF Before, ExactInv
  <2> QED BY <1>1, <2>1 DEF AllTrue, Id
<1>5. \E pc \in SyncPc, T \in SUBSET Pkg : SyncStage(t, pc, T)
  <2>1. OnDisk(Selected[t]) \in SUBSET Pkg /\ OnDisk(Pkg \ Selected[t]) \in SUBSET Pkg
          /\ Index[t] \in SUBSET Pkg
    BY IndexType, SelectedType DEF OnDisk
  <2> QED BY <2>1 DEF SyncBegin, MetaAmbiguous, SyncMarkList, CleanList, CleanEnd, SyncPc
<1> QED BY <1>1, <1>3, <1>4, <1>5, StageIsExact

LEMMA MetaStatIsExact ==
    ASSUME NEW t \in Task, Before(t), NEW p \in Pkg, MetaStat(t, p)
    PROVE  ExactInv'
<1> DEFINE b == (file[p] # "none")
           s == [sync[t] EXCEPT !.todo = @ \ {p}, !.at = p, !.there = b]
<1>1. UNCHANGED <<file, rows, req, evict, admin, repair>> /\ sync' = [sync EXCEPT ![t] = s]
  BY DEF MetaStat, Before
<1>2. /\ sync[t].pc \in {"meta1", "meta2"} /\ sync[t].at = NoPkg /\ p \in sync[t].todo
  BY DEF MetaStat, In
<1>3. /\ s.pc = sync[t].pc /\ s.plan = sync[t].plan /\ s.pulling = sync[t].pulling
      /\ s.todo = sync[t].todo \ {p} /\ s.at = p /\ (s.there => file[p] # "none")
  BY DEF Before, SyncRec
<1> HIDE DEF s, b
<1>4. sync'[t] = s
  BY <1>1 DEF Before
<1>5. RowsOfIndex' /\ Id' = Id /\ \A c : TrueOfRow(c)' = TrueOfRow(c)
  BY <1>1, SameRows DEF Before, ExactInv
<1>6. PlanExact(t)'
  <2>1. PlanExact(t)
    BY DEF Before, ExactInv
  <2> QED BY <1>1, <1>2, <1>3, <1>4, <1>5, <2>1 DEF PlanExact
<1>7. MarksAreTrue'
  <2>1. AllTrue
    BY <1>2, MarksOfOwn DEF Before, ExactInv
  <2> QED BY <1>1, <1>5, <2>1, AllTrueSuffices DEF AllTrue
<1>8. OnlySync'
  BY <1>1 DEF Before, ExactInv, OnlySync
<1> QED BY <1>1, <1>5, <1>6, <1>7, <1>8, OwnStepSuffices DEF Before

LEMMA MetaPlanIsExact ==
    ASSUME NEW t \in Task, Before(t), MetaPlan(t)
    PROVE  ExactInv'
<1> DEFINE p == sync[t].at
           there == sync[t].there
<1>1. /\ UNCHANGED <<file, rows, req, evict, admin, repair>>
      /\ sync[t].pc \in {"meta1", "meta2"} /\ sync[t].at # NoPkg
  BY DEF MetaPlan, InMeta
<1>2. /\ \A i \in Id : rows[i].keyed /\ rows[i].path = rows[i].pkg
      /\ Id = 1 .. Len(rows)
  BY DEF Before, ExactInv, RowsOfIndex, Id
<1>3. PICK c : /\ Plan(t, c) /\ c.pkg = p /\ c.exists = there /\ TrueOfRow(c)
               /\ c.row = 0 => \A i \in Id : rows[i].pkg # p
  <2>1. CASE ByKey(p) = {} /\ Plan(t, NewChange(p, there))
    <3>1. \A i \in Id : rows[i].pkg # p
      BY <1>2, <2>1 DEF ByKey
    <3> QED BY <2>1, <3>1 DEF NewChange, TrueOfRow
  <2>2. ASSUME NEW i \in ByKey(p), Plan(t, ChangeOf(i, p, there))
        PROVE  \E c : /\ Plan(t, c) /\ c.pkg = p /\ c.exists = there /\ TrueOfRow(c)
                      /\ c.row = 0 => \A j \in Id : rows[j].pkg # p
    <3>1. i \in Id /\ i # 0 /\ rows[i].pkg = p /\ rows[i].path = p
      BY <1>2 DEF ByKey
    <3> QED BY <2>2, <3>1 DEF ChangeOf, TrueOfRow
  <2> QED BY <2>1, <2>2 DEF MetaPlan
<1> DEFINE s == [sync[t] EXCEPT !.at = NoPkg, !.plan = @ \cup {c}]
<1>4. sync' = [sync EXCEPT ![t] = s]
  BY <1>3 DEF Plan, Before
<1>5. /\ s.pc = sync[t].pc /\ s.plan = sync[t].plan \cup {c} /\ s.pulling = sync[t].pulling
      /\ s.todo = sync[t].todo /\ s.at = NoPkg
  BY DEF Before, SyncRec
<1> HIDE DEF s
<1>6. sync'[t] = s
  BY <1>4 DEF Before
<1>7. RowsOfIndex' /\ Id' = Id /\ \A d : TrueOfRow(d)' = TrueOfRow(d)
  BY <1>1, SameRows DEF Before, ExactInv
<1>8. PlanExact(t)'
  <2>1. PlanExact(t)
    BY DEF Before, ExactInv
  <2>2. c.exists => file[c.pkg] # "none"
    BY <1>1, <1>3, <2>1 DEF PlanExact
  <2>3. p \notin sync[t].todo /\ \A d \in sync[t].plan : d.pkg # p
    BY <1>1, <2>1 DEF PlanExact
  <2> QED BY <1>1, <1>3, <1>5, <1>6, <1>7, <2>1, <2>2, <2>3 DEF PlanExact
<1>9. MarksAreTrue'
  <2>1. AllTrue
    BY <1>1, MarksOfOwn DEF Before, ExactInv
  <2> QED BY <1>1, <1>7, <2>1, AllTrueSuffices DEF AllTrue
<1>10. OnlySync'
  BY <1>1 DEF Before, ExactInv, OnlySync
<1> QED BY <1>4, <1>7, <1>8, <1>9, <1>10, OwnStepSuffices DEF Before

LEMMA CommitIsExact ==
    ASSUME NEW t \in Task, Before(t), MetaCommit(t) \/ SyncMarkCommit(t)
    PROVE  ExactInv'
<1> DEFINE plan == sync[t].plan
<1>1. /\ UNCHANGED <<file, req, evict, admin, repair>> /\ rows' = Flushed(plan)
      /\ sync[t].pc \in {"meta1", "meta2", "marking"}
  BY DEF MetaCommit, SyncMarkCommit
<1>2. plan \in SUBSET Change /\ IsFiniteSet(plan) /\ PlanExact(t)
  BY DEF Before, SyncRec, ExactInv
<1>3. /\ \A c \in plan : TrueOfRow(c) /\ (c.exists => file[c.pkg] # "none")
      /\ \A c, d \in plan : c.row = 0 /\ d.row = 0 /\ c.pkg = d.pkg => c = d
      /\ \A c \in plan : c.row = 0 => \A i \in Id : rows[i].pkg # c.pkg
  BY <1>1, <1>2 DEF PlanExact
<1>4. AllTrue /\ RowsOfIndex /\ rows \in Seq(Row)
  BY <1>1, MarksOfOwn DEF Before, ExactInv
<1> HIDE DEF plan
<1>5. /\ RowsOfIndex'
      /\ \A i \in Id' : rows'[i].cached => file'[rows'[i].path] # "none"
  BY <1>1, <1>2, <1>3, <1>4, FlushIsExact DEF AllTrue
<1>6. \E pc \in SyncPc, T \in SUBSET Pkg : SyncStage(t, pc, T)
  <2>1. Selected[t] \in SUBSET Pkg
    BY SelectedType
  <2> QED BY <2>1 DEF MetaCommit, SyncMarkCommit, SyncPc
<1> QED BY <1>1, <1>5, <1>6, StageIsExact

LEMMA DownloadIsExact ==
    ASSUME NEW t \in Task, Before(t), NEW p \in Pkg, DownloadCheck(t, p) \/ DownloadEnd(t, p)
    PROVE  ExactInv'
<1>1. /\ UNCHANGED <<rows, req, evict, admin, repair>>
      /\ PlanExact(t) /\ sync[t].pc = "download"
  BY DEF DownloadCheck, DownloadEnd, In, Before, ExactInv, PlanExact
<1>2. \A q : file[q] # "none" => file'[q] # "none"
  <2>1. CASE file' = file
    BY <2>1
  <2>2. CASE file' = [file EXCEPT ![p] = "full"]
    BY <2>2 DEF Before
  <2> QED BY <2>1, <2>2 DEF DownloadCheck, DownloadEnd
<1>3. PICK s \in SyncRec : sync' = [sync EXCEPT ![t] = s] /\ s.pc = "download"
  <2> DEFINE s1 == [sync[t] EXCEPT !.todo = @ \ {p}]
             s2 == [sync[t] EXCEPT !.todo = @ \ {p}, !.pulling = @ \cup {p}]
             s3 == [sync[t] EXCEPT !.pulling = @ \ {p}]
  <2>1. s1 \in SyncRec /\ s2 \in SyncRec /\ s3 \in SyncRec
    BY SyncRecFacts DEF Before
  <2>2. s1.pc = "download" /\ s2.pc = "download" /\ s3.pc = "download"
    BY <1>1 DEF Before, SyncRec
  <2>3. \/ sync' = [sync EXCEPT ![t] = s1] \/ sync' = [sync EXCEPT ![t] = s2]
        \/ sync' = [sync EXCEPT ![t] = s3]
    BY DEF DownloadCheck, DownloadEnd, Before
  <2> HIDE DEF s1, s2, s3
  <2> QED BY <2>1, <2>2, <2>3
<1>4. sync'[t] = s
  BY <1>3 DEF Before
<1>5. PlanExact(t)'
  BY <1>3, <1>4 DEF PlanExact
<1>6. RowsOfIndex' /\ Id' = Id
  BY <1>1, SameRows DEF Before, ExactInv
<1>7. MarksAreTrue'
  <2>1. AllTrue
    BY <1>1, MarksOfOwn DEF Before, ExactInv
  <2> QED BY <1>1, <1>2, <1>6, <2>1, AllTrueSuffices DEF AllTrue
<1>8. OnlySync'
  BY <1>1 DEF Before, ExactInv, OnlySync
<1> QED BY <1>3, <1>5, <1>6, <1>7, <1>8, OwnStepSuffices DEF Before

LEMMA MarkReadIsExact ==
    ASSUME NEW t \in Task, Before(t), SyncMarkRead(t)
    PROVE  ExactInv'
<1> DEFINE I == {i \in Id : rows[i].path \in OnDisk(sync[t].todo)}
           P == {ChangeOf(i, rows[i].path, TRUE) : i \in I}
           s == [sync[t] EXCEPT !.pc = "marking", !.plan = P]
<1>1. /\ UNCHANGED <<file, rows, req, evict, admin, repair>>
      /\ sync[t].pc = "mark" /\ sync' = [sync EXCEPT ![t] = s]
  BY DEF SyncMarkRead, Before
<1>2. s.pc = "marking" /\ s.plan = P /\ s.pulling = sync[t].pulling
  BY DEF Before, SyncRec
<1> HIDE DEF s
<1>3. sync'[t] = s
  BY <1>1 DEF Before
<1>4. RowsOfIndex' /\ Id' = Id /\ \A c : TrueOfRow(c)' = TrueOfRow(c)
  BY <1>1, SameRows DEF Before, ExactInv
<1>5. \A c \in P : TrueOfRow(c) /\ c.row # 0 /\ file[c.pkg] # "none"
  <2> SUFFICES ASSUME NEW i \in I
               PROVE  LET c == ChangeOf(i, rows[i].path, TRUE)
                      IN TrueOfRow(c) /\ c.row # 0 /\ file[c.pkg] # "none"
    OBVIOUS
  <2>1. i \in Id /\ i # 0 /\ rows[i].path = rows[i].pkg /\ file[rows[i].path] # "none"
    BY DEF OnDisk, Before, ExactInv, RowsOfIndex, Id
  <2> QED BY <2>1 DEF ChangeOf, TrueOfRow
<1> HIDE DEF P
<1>6. PlanExact(t)'
  <2>1. s.pulling = {}
    BY <1>1, <1>2 DEF Before, ExactInv, PlanExact
  <2> QED BY <1>1, <1>2, <1>3, <1>4, <1>5, <2>1 DEF PlanExact
<1>7. MarksAreTrue'
  <2>1. AllTrue
    BY <1>1, MarksOfOwn DEF Before, ExactInv
  <2> QED BY <1>1, <1>4, <2>1, AllTrueSuffices DEF AllTrue
<1>8. OnlySync'
  BY <1>1 DEF Before, ExactInv, OnlySync
<1> QED BY <1>1, <1>4, <1>6, <1>7, <1>8, OwnStepSuffices DEF Before

LEMMA CleanUnlinkIsExact ==
    ASSUME NEW t \in Task, Before(t), NEW p \in Pkg, CleanUnlink(t, p)
    PROVE  ExactInv'
<1>1. UNCHANGED <<rows, req, evict, admin, repair>> /\ sync[t].pc = "clean"
  BY DEF CleanUnlink, In
<1>2. AllTrue /\ OnlySync' /\ RowsOfIndex' /\ Id' = Id /\ sync[t].pulling = {}
  <2>1. AllTrue
    BY <1>1, MarksOfOwn DEF Before, ExactInv
  <2> QED BY <1>1, <2>1, SameRows DEF Before, ExactInv, OnlySync, PlanExact
<1>3. CASE file[p] = "none"
  <2> DEFINE s == [sync[t] EXCEPT !.todo = @ \ {p}]
  <2>1. sync' = [sync EXCEPT ![t] = s] /\ UNCHANGED file
    BY <1>3 DEF CleanUnlink, Before
  <2>2. s.pc = "clean" /\ s.pulling = {}
    BY <1>1, <1>2 DEF Before, SyncRec
  <2> HIDE DEF s
  <2>3. sync'[t] = s
    BY <2>1 DEF Before
  <2>4. PlanExact(t)'
    BY <2>2, <2>3 DEF PlanExact
  <2>5. MarksAreTrue'
    BY <1>1, <1>2, <2>1, AllTrueSuffices DEF AllTrue
  <2> QED BY <1>2, <2>1, <2>4, <2>5, OwnStepSuffices DEF Before
<1>4. CASE file[p] # "none"
  <2> DEFINE s == [sync[t] EXCEPT !.todo = @ \ {p}, !.pc = "uncache", !.at = p]
  <2>1. sync' = [sync EXCEPT ![t] = s] /\ file' = [file EXCEPT ![p] = "none"]
    BY <1>4 DEF CleanUnlink, Before
  <2>2. s.pc = "uncache" /\ s.pulling = {} /\ s.at = p
    BY <1>1, <1>2 DEF Before, SyncRec
  <2> HIDE DEF s
  <2>3. sync'[t] = s
    BY <2>1 DEF Before
  <2>4. PlanExact(t)'
    BY <2>2, <2>3 DEF PlanExact
  <2>5. MarksAreTrue'
    <3>1. Unmarking(p)'
      BY <2>2, <2>3 DEF Unmarking
    <3>2. \A q : q # p => file'[q] = file[q]
      BY <2>1 DEF Before
    <3>3. ASSUME NEW i \in Id', rows'[i].cached
          PROVE  file'[rows'[i].path] # "none" \/ rows'[i].path = p
      BY <1>1, <1>2, <3>2, <3>3 DEF AllTrue
    <3> QED BY <3>1, <3>3 DEF MarksAreTrue
  <2> QED BY <1>2, <2>1, <2>4, <2>5, OwnStepSuffices DEF Before
<1> QED BY <1>3, <1>4

LEMMA CleanReadIsExact ==
    ASSUME NEW t \in Task, Before(t), CleanRead(t)
    PROVE  ExactInv'
<1> DEFINE p == sync[t].at
           found == ByPath(p)
<1>1. UNCHANGED <<file, rows, req, evict, admin, repair>> /\ sync[t].pc = "uncache"
  BY DEF CleanRead
<1>2. OnlySync' /\ RowsOfIndex' /\ Id' = Id /\ sync[t].pulling = {}
        /\ \A c : TrueOfRow(c)' = TrueOfRow(c)
  BY <1>1, SameRows DEF Before, ExactInv, OnlySync, PlanExact
<1>3. \A i \in Id : rows[i].cached => file[rows[i].path] # "none" \/ rows[i].path = p
  BY MarksOfOwn DEF Before, ExactInv
<1>4. \A i \in found : /\ i \in Id /\ i # 0 /\ rows[i].path = p /\ rows[i].pkg = p
                       /\ \A j \in found : j = i
  BY DEF ByPath, Before, ExactInv, RowsOfIndex, Id
<1>5. ASSUME NEW i \in found,
             sync' = [sync EXCEPT ![t].pc = "uncaching", ![t].plan = {ChangeOf(i, p, FALSE)}]
      PROVE  ExactInv'
  <2> DEFINE c == ChangeOf(i, p, FALSE)
             s == [sync[t] EXCEPT !.pc = "uncaching", !.plan = {c}]
  <2>1. sync' = [sync EXCEPT ![t] = s]
    BY <1>5 DEF Before
  <2>2. s.pc = "uncaching" /\ s.pulling = {} /\ s.at = p /\ s.plan = {c}
    BY <1>2 DEF Before, SyncRec
  <2>3. TrueOfRow(c) /\ c.row # 0 /\ c.pkg = p
    BY <1>4 DEF TrueOfRow, ChangeOf
  <2> HIDE DEF s, c
  <2>4. sync'[t] = s
    BY <2>1 DEF Before
  <2>5. PlanExact(t)'
    BY <1>2, <2>2, <2>3, <2>4 DEF PlanExact
  <2>6. MarksAreTrue'
    <3>1. PICK q : q = p
      OBVIOUS
    <3>2. Unmarking(q)'
      BY <2>2, <2>4, <3>1 DEF Unmarking
    <3>3. \A j \in Id : rows[j].cached => file[rows[j].path] # "none" \/ rows[j].path = q
      BY <1>3, <3>1
    <3> QED BY <1>1, <1>2, <3>2, <3>3 DEF MarksAreTrue
  <2> QED BY <1>2, <2>1, <2>5, <2>6, OwnStepSuffices DEF Before
<1>6. ASSUME Cardinality(found) # 1,
             sync' = [sync EXCEPT ![t].pc = "clean", ![t].at = NoPkg]
      PROVE  ExactInv'
  <2> DEFINE s == [sync[t] EXCEPT !.pc = "clean", !.at = NoPkg]
  <2>1. sync' = [sync EXCEPT ![t] = s]
    BY <1>6 DEF Before
  <2>2. s.pc = "clean" /\ s.pulling = {}
    BY <1>2 DEF Before, SyncRec
  <2> HIDE DEF s
  <2>3. sync'[t] = s
    BY <2>1 DEF Before
  <2>4. PlanExact(t)'
    BY <2>2, <2>3 DEF PlanExact
  <2>5. found = {}
    <3>1. \A i \in found : found = {i}
      BY <1>4
    <3>2. \A i : Cardinality({i}) = 1
      BY FS_Singleton
    <3> QED BY <1>6, <3>1, <3>2
  <2>6. AllTrue
    BY <1>3, <2>5 DEF AllTrue, ByPath
  <2>7. MarksAreTrue'
    BY <1>1, <1>2, <2>6, AllTrueSuffices DEF AllTrue
  <2> QED BY <1>2, <2>1, <2>4, <2>7, OwnStepSuffices DEF Before
<1> QED BY <1>5, <1>6 DEF CleanRead

LEMMA CleanUncacheIsExact ==
    ASSUME NEW t \in Task, Before(t), CleanUncache(t), "markFails" \notin Activity
    PROVE  ExactInv'
<1>1. UNCHANGED <<file, req, evict, admin, repair>> /\ sync[t].pc = "uncaching"
  BY DEF CleanUncache
<1>2. PICK c \in sync[t].plan : rows' = SetCached(c.row, c.seen, FALSE)
  BY DEF CleanUncache
<1> DEFINE p == sync[t].at
           i == c.row
<1>3. i \in Id /\ rows[i].pkg = p /\ rows[i].cached = c.seen /\ PlanExact(t)
  BY <1>1 DEF Before, ExactInv, PlanExact, TrueOfRow
<1>4. \A j \in Id : rows[j].cached => file[rows[j].path] # "none" \/ rows[j].path = p
  BY MarksOfOwn DEF Before, ExactInv
<1>5. rows \in Seq(Row) /\ RowsOfIndex /\ UNCHANGED file
        /\ rows' = SetCached(i, rows[i].cached, FALSE)
  BY <1>1, <1>2, <1>3 DEF Before, ExactInv
<1> HIDE DEF i, p
<1>6. /\ RowsOfIndex'
      /\ \A j \in Id' : rows'[j].cached => file'[rows'[j].path] # "none"
  BY <1>3, <1>4, <1>5, UncacheIsExact
<1> DEFINE s == [sync[t] EXCEPT !.pc = "clean", !.at = NoPkg, !.plan = {}]
<1>7. sync' = [sync EXCEPT ![t] = s]
  BY DEF CleanUncache, Uncached, Before
<1>8. s.pc = "clean" /\ s.pulling = {}
  BY <1>1, <1>3 DEF Before, SyncRec, PlanExact
<1> HIDE DEF s
<1>9. sync'[t] = s
  BY <1>7 DEF Before
<1>10. PlanExact(t)'
  BY <1>8, <1>9 DEF PlanExact
<1>11. OnlySync'
  BY <1>1 DEF Before, ExactInv, OnlySync
<1> QED BY <1>6, <1>7, <1>10, <1>11, AllTrueSuffices, OwnStepSuffices DEF Before

LEMMA StepIsExact ==
    ASSUME TInv, ExactInv, Activity \subseteq {"sync"}, OneAtATime, OneAtATime',
           [Next]_vars
    PROVE  ExactInv'
<1>1. CASE UNCHANGED vars
  <2>1. RowsOfIndex' /\ Id' = Id /\ \A c : TrueOfRow(c)' = TrueOfRow(c)
    BY <1>1, SameRows DEF ExactInv, vars
  <2>2. \A t \in Task : PlanExact(t)'
    BY <1>1, <2>1 DEF ExactInv, PlanExact, vars
  <2>3. OnlySync' /\ MarksAreTrue'
    BY <1>1, <2>1 DEF ExactInv, OnlySync, MarksAreTrue, Unmarking, vars
  <2> QED BY <2>1, <2>2, <2>3 DEF ExactInv
<1>2. ASSUME NEW t \in Task, SyncBegin(t) \/ SyncStep(t) PROVE ExactInv'
  <2>1. sync \in [Task -> SyncRec] /\ PlanExact(t)
    BY DEF TInv, TypeOK, ExactInv
  <2>2. sync[t].pc # "idle" => Alone(t)
    BY DEF OneAtATime, Alone
  <2>3. SyncStep(t) => sync[t].pc # "idle"
    BY <2>1 DEF SyncStep, MetaStat, DownloadCheck, DownloadEnd, CleanUnlink, MetaPlan,
       MetaAmbiguous, MetaCommit, SyncMarkList, SyncMarkRead, SyncMarkCommit, CleanList,
       CleanRead, CleanUncache, CleanEnd, In, InMeta, PlanExact
  <2>4. SyncBegin(t) => Alone(t)
    <3> SUFFICES ASSUME SyncBegin(t), NEW u \in Task, u # t PROVE sync[u].pc = "idle"
      BY DEF Alone
    <3>1. sync'[t].pc = "meta1" /\ sync'[u] = sync[u]
      BY <2>1 DEF SyncBegin, SyncStage, SyncIdle
    <3> QED BY <3>1 DEF OneAtATime
  <2>5. Before(t)
    BY <1>2, <2>2, <2>3, <2>4, BeforeIs
  <2>6. "markFails" \notin Activity
    OBVIOUS
  <2> QED BY <1>2, <2>5, <2>6, BeginIsExact, MetaStatIsExact, MetaPlanIsExact, CommitIsExact,
             DownloadIsExact, MarkReadIsExact, CleanUnlinkIsExact, CleanReadIsExact,
             CleanUncacheIsExact DEF SyncStep
<1>3. Next => \E t \in Task : SyncBegin(t) \/ SyncStep(t)
  <2>1. OnlySync
    BY DEF ExactInv
  <2>2. \A r \in Request : req[r].pc = "idle"
    BY <2>1 DEF OnlySync, ReqIdle
  <2>3. \A r \in Request : ~RequestStep(r) /\ \A p \in Pkg : ~Lookup(r, p)
    BY <2>2 DEF RequestStep, HitAnswer, PullRefused, PullFails, PullPlaced, MarkRead,
       MarkCommit, MarkCreate, MarkSwallowed, Lookup
  <2>4. ~EvictStep
    BY <2>1 DEF OnlySync, EvictIdle, EvictStep, EvictRead, EvictUnlink, EvictBreaks, EvictCommit
  <2>5. ~AdminStep
    BY <2>1 DEF OnlySync, AdminIdle, AdminStep, Delete, Redownload, DeleteCommit,
       RedownloadOpen, RedownloadFails, RedownloadWritten, RedownloadCommit
  <2>6. ~RepairStep
    BY <2>1 DEF OnlySync, RepairIdle, RepairStep, RepairBegin, RepairFile, RepairEnd
  <2>7. \A t \in Task : ~SyncAborts(t)
    BY DEF SyncAborts
  <2> QED BY <2>3, <2>4, <2>5, <2>6, <2>7 DEF Next
<1> QED BY <1>1, <1>2, <1>3

(* As long as no two synchronisations overlap, and nothing else writes, no *)
(* row claims a missing file between them, whichever packages the tasks    *)
(* list, select, and remove from each other.                               *)
THEOREM SequentialExact ==
    ASSUME Activity \subseteq {"sync"}
    PROVE  Spec => SequentialIsExact
<1>1. Init => ExactInv
  <2>1. Init => Id = {}
    BY DEF Init, Id
  <2>2. Init => \A t \in Task : PlanExact(t)
    BY DEF Init, PlanExact, SyncIdle
  <2> QED BY <2>1, <2>2 DEF Init, ExactInv, OnlySync, RowsOfIndex, MarksAreTrue
<1>2. TInv /\ ExactInv /\ OneAtATime /\ OneAtATime' /\ [Next]_vars => ExactInv'
  BY StepIsExact
<1>3. TInv /\ ExactInv => CachedIsOnDisk
  <2> SUFFICES ASSUME TInv, ExactInv, AtRest, NEW i \in Id, rows[i].cached
               PROVE  rows[i].path \in OnDisk(Pkg)
    BY DEF CachedIsOnDisk
  <2>1. rows[i].path \in Pkg
    <3>1. rows[i] \in Row /\ rows[i].path = rows[i].pkg
      BY DEF TInv, TypeOK, ExactInv, RowsOfIndex, Id
    <3> QED BY <3>1 DEF Row
  <2>2. file[rows[i].path] # "none"
    BY DEF ExactInv, MarksAreTrue, Unmarking, AtRest
  <2> QED BY <2>1, <2>2 DEF OnDisk
<1>4. Spec => ([]OneAtATime => []CachedIsOnDisk)
  BY <1>1, <1>2, <1>3, Invariance, PTL DEF Spec
<1> QED BY <1>4 DEF SequentialIsExact

-----------------------------------------------------------------------------
(* Two rows with one key.                                                  *)

(* No activity removes a row or changes the key of one.                    *)
KeysStay == \A i \in Id : /\ i \in Id' /\ rows'[i].pkg = rows[i].pkg
                          /\ (rows[i].keyed => rows'[i].keyed)

LEMMA AppendStays ==
    ASSUME rows \in Seq(Row), NEW x \in Row, rows' = Append(rows, x)
    PROVE  KeysStay
<1>1. /\ Id = 1 .. Len(rows) /\ Id' = 1 .. Len(rows) + 1
      /\ \A i \in 1 .. Len(rows) : rows'[i] = rows[i]
  BY DEF Id
<1> QED BY <1>1 DEF KeysStay

LEMMA KeptStays == KeysKept => KeysStay
  BY DEF KeysKept, KeysStay

LEMMA SetCachedStays ==
    ASSUME rows \in Seq(Row), NEW i \in Nat, NEW seen, NEW value \in BOOLEAN,
           rows' = SetCached(i, seen, value)
    PROVE  KeysStay
  BY SetCachedKeepsKeys, KeptStays

LEMMA FlushStays ==
    ASSUME rows \in Seq(Row), NEW plan \in SUBSET Change, IsFiniteSet(plan),
           rows' = Flushed(plan)
    PROVE  KeysStay
<1> DEFINE n == Len(rows)
           m == Len(Inserted(plan))
<1>1. /\ rows' \in Seq(Row) /\ Len(rows') = n + m
      /\ \A i \in Id : rows'[i].pkg = rows[i].pkg /\ rows'[i].keyed = rows[i].keyed
  BY FlushedFacts
<1>2. n \in Nat /\ m \in Nat /\ Id = 1 .. n
  BY InsertedFacts DEF Id
<1> HIDE DEF n, m
<1>3. Id' = 1 .. (n + m)
  BY <1>1 DEF Id
<1> QED BY <1>1, <1>2, <1>3 DEF KeysStay

LEMMA StepKeysStay ==
    ASSUME TInv, [Next]_vars
    PROVE  KeysStay
<1>1. rows \in Seq(Row)
  BY DEF TInv, TypeOK
<1>2. CASE rows' = rows
  BY <1>2 DEF KeysStay, Id
<1>3. ASSUME NEW r \in Request, (\E p \in Pkg : Lookup(r, p)) \/ RequestStep(r)
      PROVE  KeysStay
  <2>1. CASE MarkCommit(r)
    <3>1. req[r].row \in Nat
      BY DEF TInv, TypeOK, ReqRec
    <3> QED BY <1>1, <2>1, <3>1, SetCachedStays DEF MarkCommit
  <2>2. CASE MarkCreate(r)
    <3> DEFINE x == NewRow(req[r].pkg, req[r].pkg \in RoundTrip, TRUE)
    <3>1. x \in Row /\ rows' = Append(rows, x)
      BY <2>2, CreatedType DEF TInv, ServingPkg, MarkCreate
    <3> HIDE DEF x
    <3> QED BY <1>1, <3>1, AppendStays
  <2> QED BY <1>2, <1>3, <2>1, <2>2 DEF Lookup, RequestStep, HitAnswer, PullRefused,
           PullFails, PullPlaced, MarkRead, MarkSwallowed
<1>4. ASSUME NEW t \in Task, SyncBegin(t) \/ SyncStep(t) \/ SyncAborts(t)
      PROVE  KeysStay
  <2>1. /\ sync[t].plan \in SUBSET Change /\ IsFiniteSet(sync[t].plan)
        /\ \A c \in sync[t].plan : c.row \in Nat
    BY DEF TInv, TypeOK, FinitePlans, SyncRec, Change
  <2>2. CASE MetaCommit(t) \/ SyncMarkCommit(t)
    BY <1>1, <2>1, <2>2, FlushStays DEF MetaCommit, SyncMarkCommit
  <2>3. CASE CleanUncache(t)
    BY <1>1, <1>2, <2>1, <2>3, SetCachedStays DEF CleanUncache
  <2> QED BY <1>2, <1>4, <2>2, <2>3 DEF SyncBegin, SyncStep, SyncAborts, MetaStat, MetaPlan,
           MetaAmbiguous, DownloadCheck, DownloadEnd, SyncMarkList, SyncMarkRead, CleanList,
           CleanUnlink, CleanRead, CleanEnd
<1>5. CASE EvictStep
  BY <1>5, EvictKeepsKeys, KeptStays
<1>6. CASE AdminStep
  BY <1>6, AdminKeepsKeys, KeptStays
<1>7. CASE RepairStep
  <2>1. ASSUME NEW p \in Pkg, RepairFile(p) PROVE KeysStay
    <3> DEFINE x == NewRow(p, p \in RoundTrip, TRUE)
    <3>1. x \in Row
      BY CreatedType
    <3>2. rows' = Append(rows, x) \/ rows' = rows
      BY <2>1 DEF RepairFile
    <3> HIDE DEF x
    <3> QED BY <1>1, <1>2, <3>1, <3>2, AppendStays
  <2> QED BY <1>2, <1>7, <2>1 DEF RepairStep, RepairBegin, RepairEnd
<1> QED BY <1>2, <1>3, <1>4, <1>5, <1>6, <1>7 DEF Next, vars

\* Two rows for package p, said without counting.
Twice(p) == \E i, j \in ByKey(p) : i # j

LEMMA TwiceIsMany ==
    ASSUME rows \in Seq(Row), NEW p
    PROVE  Twice(p) <=> Cardinality(ByKey(p)) > 1
<1>1. IsFiniteSet(ByKey(p)) /\ Cardinality(ByKey(p)) \in Nat
  <2>1. IsFiniteSet(1 .. Len(rows)) /\ ByKey(p) \subseteq 1 .. Len(rows)
    BY FS_Interval DEF ByKey, Id
  <2> QED BY <2>1, FS_Subset, FS_CardinalityType
<1>2. ASSUME Twice(p) PROVE Cardinality(ByKey(p)) > 1
  <2>1. PICK i \in ByKey(p), j \in ByKey(p) : i # j
    BY <1>2 DEF Twice
  <2>2. IsFiniteSet({i}) /\ Cardinality({i}) = 1 /\ {i} \subseteq ByKey(p) /\ {i} # ByKey(p)
    BY <2>1, FS_Singleton
  <2> QED BY <1>1, <2>2, FS_Subset
<1>3. ASSUME ~Twice(p) PROVE ~(Cardinality(ByKey(p)) > 1)
  <2>1. CASE ByKey(p) = {}
    BY <2>1, FS_EmptySet
  <2>2. ASSUME NEW i \in ByKey(p) PROVE Cardinality(ByKey(p)) = 1
    <3>1. ByKey(p) = {i}
      BY <1>3 DEF Twice
    <3> QED BY <3>1, FS_Singleton
  <2> QED BY <2>1, <2>2
<1> QED BY <1>2, <1>3

LEMMA TwiceStays ==
    ASSUME KeysStay, NEW p, Twice(p)
    PROVE  Twice(p)'
<1>1. PICK i \in ByKey(p), j \in ByKey(p) : i # j
  BY DEF Twice
<1>2. i \in ByKey(p)' /\ j \in ByKey(p)'
  BY <1>1 DEF KeysStay, ByKey
<1> QED BY <1>1, <1>2 DEF Twice

(* A package of the index has two rows, and the task is idle, or its first *)
(* pass has that package still before it.                                  *)
Blocked(t) ==
    \E p \in Index[t] :
        /\ Twice(p)
        /\ \/ sync[t].pc = "idle"
           \/ sync[t].pc = "meta1" /\ (p \in sync[t].todo \/ sync[t].at = p)

LEMMA OthersLeave ==
    ASSUME TInv, NEW t \in Task,
           [Next]_vars, ~(SyncBegin(t) \/ SyncStep(t) \/ SyncAborts(t))
    PROVE  sync'[t] = sync[t]
<1>0. sync \in [Task -> SyncRec]
  BY DEF TInv, TypeOK
<1>1. ASSUME NEW u \in Task, u # t, SyncBegin(u) \/ SyncStep(u) \/ SyncAborts(u)
      PROVE  sync'[t] = sync[t]
  BY <1>0, <1>1 DEF SyncBegin, SyncStep, SyncAborts, SyncStage, MetaStat, MetaPlan, Plan,
     MetaAmbiguous, MetaCommit, DownloadCheck, DownloadEnd, SyncMarkList, SyncMarkRead,
     SyncMarkCommit, CleanList, CleanUnlink, CleanRead, CleanUncache, Uncached, CleanEnd
<1>2. ASSUME NEW r \in Request, (\E p \in Pkg : Lookup(r, p)) \/ RequestStep(r)
      PROVE  sync' = sync
  BY <1>2 DEF Lookup, RequestStep, HitAnswer, PullRefused, PullFails, PullPlaced, MarkRead,
     MarkCommit, MarkCreate, MarkSwallowed
<1>3. EvictStep => sync' = sync
  BY DEF EvictStep, EvictRead, EvictUnlink, EvictBreaks, EvictCommit
<1>4. AdminStep => sync' = sync
  BY DEF AdminStep, Delete, Redownload, DeleteCommit, RedownloadOpen, RedownloadFails,
     RedownloadWritten, RedownloadCommit
<1>5. RepairStep => sync' = sync
  BY DEF RepairStep, RepairBegin, RepairFile, RepairEnd
<1> QED BY <1>1, <1>2, <1>3, <1>4, <1>5 DEF Next, vars

LEMMA BlockedStays ==
    ASSUME TInv, NEW t \in Task, Blocked(t), [Next]_vars
    PROVE  Blocked(t)'
<1>1. PICK p \in Index[t] :
        /\ Twice(p)
        /\ \/ sync[t].pc = "idle"
           \/ sync[t].pc = "meta1" /\ (p \in sync[t].todo \/ sync[t].at = p)
  BY DEF Blocked
<1>2. Twice(p)' /\ p # NoPkg
  <2>1. p \in Pkg
    BY IndexType
  <2> QED BY <1>1, <2>1, StepKeysStay, TwiceStays, NameType
<1>3. sync \in [Task -> SyncRec] /\ sync[t] \in SyncRec /\ rows \in Seq(Row)
  BY DEF TInv, TypeOK
<1> DEFINE StillAhead == sync'[t].pc = "meta1" /\ (p \in sync'[t].todo \/ sync'[t].at = p)
<1>4. ASSUME sync'[t].pc = "idle" \/ StillAhead PROVE Blocked(t)'
  BY <1>2, <1>4 DEF Blocked
<1>5. CASE ~(SyncBegin(t) \/ SyncStep(t) \/ SyncAborts(t))
  BY <1>1, <1>4, <1>5, OthersLeave
<1>6. CASE SyncBegin(t)
  <2>1. sync'[t].pc = "meta1" /\ sync'[t].todo = Index[t]
    BY <1>3, <1>6 DEF SyncBegin, SyncStage, SyncIdle
  <2> QED BY <1>4, <2>1
<1>7. CASE SyncAborts(t) \/ MetaAmbiguous(t)
  <2>1. sync'[t].pc = "idle"
    BY <1>3, <1>7 DEF SyncAborts, MetaAmbiguous, SyncStage, SyncIdle
  <2> QED BY <1>4, <2>1
<1>8. ASSUME NEW q \in Pkg, MetaStat(t, q) PROVE Blocked(t)'
  <2>1. sync[t].at = NoPkg /\ sync[t].pc = "meta1" /\ p \in sync[t].todo
    BY <1>1, <1>2, <1>8 DEF MetaStat, In
  <2> DEFINE b == (file[q] # "none")
             s == [sync[t] EXCEPT !.todo = @ \ {q}, !.at = q, !.there = b]
  <2>2. sync' = [sync EXCEPT ![t] = s]
    BY <1>3, <1>8 DEF MetaStat
  <2>3. s.pc = "meta1" /\ s.todo = sync[t].todo \ {q} /\ s.at = q
    BY <1>3, <2>1 DEF SyncRec
  <2> HIDE DEF s, b
  <2>4. sync'[t] = s
    BY <1>3, <2>2
  <2> QED BY <1>4, <2>1, <2>3, <2>4
<1>9. CASE MetaPlan(t)
  <2>1. sync[t].pc = "meta1" /\ (p \in sync[t].todo \/ sync[t].at = p)
    BY <1>1, <1>9 DEF MetaPlan, InMeta
  <2>2. sync[t].at # p
    BY <1>1, <1>9 DEF MetaPlan, Twice
  <2>3. sync'[t].pc = "meta1" /\ sync'[t].todo = sync[t].todo
    BY <1>3, <1>9, <2>1 DEF MetaPlan, Plan, SyncRec
  <2> QED BY <1>4, <2>1, <2>2, <2>3
<1>10. ASSUME NEW q \in Pkg, DownloadEnd(t, q) PROVE Blocked(t)'
  <2>1. /\ sync'[t].pc = sync[t].pc /\ sync'[t].todo = sync[t].todo
        /\ sync'[t].at = sync[t].at
    BY <1>3, <1>10 DEF DownloadEnd, SyncRec
  <2> QED BY <1>1, <1>4, <2>1
<1>11. ~MetaCommit(t)
  BY <1>1, <1>2 DEF MetaCommit
<1>12. /\ \A q \in Pkg : ~DownloadCheck(t, q) /\ ~CleanUnlink(t, q)
       /\ ~SyncMarkList(t) /\ ~SyncMarkRead(t) /\ ~SyncMarkCommit(t)
       /\ ~CleanList(t) /\ ~CleanRead(t) /\ ~CleanUncache(t) /\ ~CleanEnd(t)
  BY <1>1 DEF DownloadCheck, CleanUnlink, In, SyncMarkList, SyncMarkRead, SyncMarkCommit,
     CleanList, CleanRead, CleanUncache, CleanEnd
<1> QED BY <1>5, <1>6, <1>7, <1>8, <1>9, <1>10, <1>11, <1>12 DEF SyncStep

(* Once a package has two rows for its key it keeps them, whichever        *)
(* request, task, eviction, repair or administrator acts.                  *)
THEOREM DuplicateStays ==
    ASSUME NEW t \in Task
    PROVE  Spec => [][Duplicated(t) => Duplicated(t)']_vars
<1>1. ASSUME TInv, TInv', [Next]_vars, Duplicated(t) PROVE Duplicated(t)'
  <2>1. PICK p \in Index[t] : Cardinality(ByKey(p)) > 1
    BY <1>1 DEF Duplicated
  <2>2. Twice(p)'
    BY <1>1, <2>1, TwiceIsMany, StepKeysStay, TwiceStays DEF TInv, TypeOK
  <2>3. Cardinality(ByKey(p))' > 1
    <3>1. /\ IsFiniteSet(ByKey(p)') /\ Cardinality(ByKey(p)') \in Nat
      <4>1. IsFiniteSet(1 .. Len(rows')) /\ ByKey(p)' \subseteq 1 .. Len(rows')
        <5>1. rows' \in Seq(Row)
          BY <1>1 DEF TInv, TypeOK
        <5>2. Len(rows') \in Nat /\ DOMAIN rows' = 1 .. Len(rows')
          BY <5>1
        <5>3. IsFiniteSet(1 .. Len(rows'))
          BY <5>2, FS_Interval
        <5>4. ByKey(p)' \subseteq 1 .. Len(rows')
          BY <5>2 DEF ByKey, Id
        <5> QED BY <5>3, <5>4
      <4> QED BY <4>1, FS_Subset, FS_CardinalityType
    <3>2. PICK i \in ByKey(p)', j \in ByKey(p)' : i # j
      BY <2>2 DEF Twice
    <3>3. /\ IsFiniteSet({i}) /\ Cardinality({i}) = 1
          /\ {i} \subseteq ByKey(p)' /\ {i} # ByKey(p)'
      BY <3>2, FS_Singleton
    <3> QED BY <3>1, <3>3, FS_Subset
  <2> QED BY <2>3 DEF Duplicated
<1> QED BY <1>1, Invariance, PTL DEF Spec

(* And a task that is idle at such a moment never again gets past its      *)
(* first pass, however often it is triggered.                              *)
THEOREM DuplicateBlocks ==
    ASSUME NEW t \in Task
    PROVE  Spec => [](Duplicated(t) /\ sync[t].pc = "idle"
                        => [](sync[t].pc \in {"idle", "meta1"}))
<1>1. TInv /\ Duplicated(t) /\ sync[t].pc = "idle" => Blocked(t)
  <2> SUFFICES ASSUME TInv, Duplicated(t), sync[t].pc = "idle" PROVE Blocked(t)
    OBVIOUS
  <2>1. PICK p \in Index[t] : Cardinality(ByKey(p)) > 1
    BY DEF Duplicated
  <2> QED BY <2>1, TwiceIsMany DEF TInv, TypeOK, Blocked
<1>2. TInv /\ Blocked(t) /\ [Next]_vars => Blocked(t)'
  BY BlockedStays
<1>3. Blocked(t) => sync[t].pc \in {"idle", "meta1"}
  BY DEF Blocked
<1> QED BY <1>1, <1>2, <1>3, Invariance, PTL DEF Spec

-----------------------------------------------------------------------------
(* A run whose second pass nobody disturbs.                                *)

(* No element of a finite set is missing from its sequence. *)
LEMMA SetToSeqOnto ==
    ASSUME NEW S, IsFiniteSet(S), NEW x \in S
    PROVE  \E k \in DOMAIN SetToSeq(S) : SetToSeq(S)[k] = x
<1> DEFINE n == Cardinality(S)
           q == SetToSeq(S)
<1>1. n \in Nat /\ ExistsBijection(1 .. n, S)
  BY FS_CardinalityType
<1>2. PICK g \in [1 .. n -> S] : IsInjective(g)
  BY <1>1 DEF ExistsBijection, Bijection, Injection, IsInjective
<1>3. q \in [1 .. n -> S] /\ IsInjective(q)
  BY <1>2 DEF SetToSeq
<1>4. q \in Injection(1 .. n, S)
  BY <1>3 DEF Injection, IsInjective
<1>5. Cardinality(1 .. n) = n
  BY <1>1, FS_Interval
<1> HIDE DEF q
<1>6. q \in Surjection(1 .. n, S)
  BY <1>4, <1>5, FS_Injection
<1> QED BY <1>3, <1>6 DEF Surjection, q

LEMMA InsertedOnto ==
    ASSUME NEW plan \in SUBSET Change, IsFiniteSet(plan),
           NEW c \in plan, c.row = 0
    PROVE  \E k \in DOMAIN Inserted(plan) :
              Inserted(plan)[k] = NewRow(c.pkg, TRUE, c.exists)
<1> DEFINE D == {d \in plan : d.row = 0}
           N == {NewRow(d.pkg, TRUE, d.exists) : d \in D}
           f == [d \in D |-> NewRow(d.pkg, TRUE, d.exists)]
<1>1. IsFiniteSet(D)
  BY FS_Subset
<1>2. f \in Surjection(D, N)
  BY DEF Surjection
<1>3. IsFiniteSet(N)
  BY <1>1, <1>2, FS_Surjection
<1>4. NewRow(c.pkg, TRUE, c.exists) \in N
  OBVIOUS
<1>5. Inserted(plan) = SetToSeq(N)
  BY DEF Inserted
<1> HIDE DEF N
<1> QED BY <1>3, <1>4, <1>5, SetToSeqOnto

\* A change that says of its package and of its row what is the case.
TrueNow(c) ==
    /\ c.exists <=> file[c.pkg] # "none"
    /\ c.row # 0 => /\ c.row \in Id
                    /\ rows[c.row].pkg = c.pkg /\ rows[c.row].keyed
                    /\ rows[c.row].path = c.path /\ rows[c.row].cached = c.seen

(* In the second pass each package of the index is still to be looked at,  *)
(* is being looked at, or has a change in the plan.                        *)
SecondPass(t) ==
    sync[t].pc = "meta2" =>
        /\ sync[t].pulling = {}
        /\ \A p \in Index[t] : \/ p \in sync[t].todo \/ sync[t].at = p
                               \/ \E c \in sync[t].plan : c.pkg = p
        /\ sync[t].at # NoPkg => (sync[t].there <=> file[sync[t].at] # "none")
        /\ \A c \in sync[t].plan : TrueNow(c)

LEMMA UpdatedAgrees ==
    ASSUME rows \in Seq(Row), NEW plan \in SUBSET Change, NEW i \in Id,
           \A c \in plan : TrueNow(c), \E c \in plan : c.row = i
    PROVE  /\ Updated(i, plan).keyed
           /\ \E c \in plan : /\ c.row = i /\ Updated(i, plan).pkg = c.pkg
                              /\ Updated(i, plan).path = c.pkg
                              /\ (Updated(i, plan).cached <=> c.exists)
<1>1. rows[i] \in Row /\ i # 0
  BY DEF Id
<1> DEFINE c == CHOOSE c \in plan : c.row = i
<1>2. c \in plan /\ c.row = i
  OBVIOUS
<1>3. Updated(i, plan) =
       [rows[i] EXCEPT !.path   = IF c.path = c.pkg THEN @ ELSE c.pkg,
                       !.cached = IF c.seen = c.exists THEN @ ELSE c.exists]
  BY DEF Updated
<1> HIDE DEF c
<1>4. /\ c.pkg = rows[i].pkg /\ c.path = rows[i].path /\ c.seen = rows[i].cached
      /\ rows[i].keyed
  BY <1>1, <1>2 DEF TrueNow
<1>5. c.exists \in BOOLEAN /\ c.seen \in BOOLEAN
  BY <1>2 DEF Change
<1> DEFINE x == Updated(i, plan)
<1>6. /\ x.pkg = rows[i].pkg /\ x.keyed = rows[i].keyed
      /\ x.path = IF c.path = c.pkg THEN rows[i].path ELSE c.pkg
      /\ x.cached = IF c.seen = c.exists THEN rows[i].cached ELSE c.exists
  BY <1>1, <1>3 DEF Row
<1> HIDE DEF x
<1>7. x.path = c.pkg /\ x.pkg = c.pkg /\ x.keyed
  BY <1>4, <1>6
<1>8. x.cached = c.exists
  BY <1>4, <1>6
<1> QED BY <1>2, <1>7, <1>8 DEF x

LEMMA CommitAgrees ==
    ASSUME TInv, NEW t \in Task, SecondPass(t), sync[t].pc = "meta2", MetaCommit(t)
    PROVE  Agrees(t)'
<1> DEFINE plan == sync[t].plan
<1>1. /\ rows' = Flushed(plan) /\ file' = file
      /\ sync[t].todo = {} /\ sync[t].at = NoPkg
  BY DEF MetaCommit
<1>2. plan \in SUBSET Change /\ IsFiniteSet(plan) /\ rows \in Seq(Row)
        /\ \A c \in plan : c.exists \in BOOLEAN
  BY DEF TInv, TypeOK, FinitePlans, SyncRec, Change
<1>3. \A c \in plan : TrueNow(c)
  BY DEF SecondPass
<1>4. \A p \in Index[t] : \E c \in plan : c.pkg = p
  <2>1. \A p \in Index[t] : p # NoPkg
    BY IndexType, NameType
  <2> QED BY <1>1, <2>1 DEF SecondPass
<1> HIDE DEF plan
<1> DEFINE n == Len(rows)
           I == Inserted(plan)
<1>5. /\ rows' \in Seq(Row) /\ Len(rows') = n + Len(I)
      /\ \A i \in Id : rows'[i] = Updated(i, plan)
      /\ \A k \in DOMAIN I : rows'[n + k] = I[k]
  BY <1>1, <1>2, FlushedFacts, FlushedRows
<1>6. I \in Seq(Row)
  BY <1>2, InsertedFacts
<1> HIDE DEF I
<1>7. n \in Nat /\ Id = 1 .. n /\ Len(I) \in Nat /\ DOMAIN I = 1 .. Len(I)
  BY <1>2, <1>6 DEF Id
<1> HIDE DEF n
<1>8. Id' = 1 .. (n + Len(I))
  BY <1>5 DEF Id
<1>9. ASSUME NEW p \in Index[t]
      PROVE  \E i \in Id' : /\ rows'[i].pkg = p /\ rows'[i].keyed /\ rows'[i].path = p
                            /\ (rows'[i].cached <=> file'[p] # "none")
  <2>1. PICK c \in plan : c.pkg = p
    BY <1>4
  <2>2. c.exists <=> file'[p] # "none"
    BY <1>1, <1>3, <2>1 DEF TrueNow
  <2>3. CASE c.row = 0
    <3>1. PICK k \in DOMAIN I : I[k] = NewRow(c.pkg, TRUE, c.exists)
      BY <1>2, <2>1, <2>3, InsertedOnto DEF I
    <3>2. n + k \in Id' /\ rows'[n + k] = NewRow(p, TRUE, c.exists)
      <4>1. k \in 1 .. Len(I)
        BY <1>7, <3>1
      <4>2. n + k \in 1 .. (n + Len(I))
        BY <1>7, <4>1
      <4>3. rows'[n + k] = I[k]
        BY <1>5, <3>1
      <4> QED BY <1>8, <2>1, <3>1, <4>2, <4>3
    <3>3. /\ rows'[n + k].pkg = p /\ rows'[n + k].keyed /\ rows'[n + k].path = p
          /\ rows'[n + k].cached = c.exists
      BY <3>2 DEF NewRow
    <3> QED BY <2>2, <3>2, <3>3
  <2>4. CASE c.row # 0
    <3>1. PICK i : i = c.row
      OBVIOUS
    <3>2. i \in Id /\ rows[i].pkg = p /\ i # 0
      BY <1>3, <2>1, <2>4, <3>1 DEF TrueNow
    <3>3. rows'[i] = Updated(i, plan) /\ i \in Id'
      BY <1>5, <1>7, <1>8, <3>2
    <3>4. /\ rows'[i].keyed
          /\ \E d \in plan : /\ d.row = i /\ rows'[i].pkg = d.pkg
                             /\ rows'[i].path = d.pkg
                             /\ (rows'[i].cached <=> d.exists)
      BY <1>2, <1>3, <2>1, <3>1, <3>2, <3>3, UpdatedAgrees
    <3>5. PICK d \in plan : /\ d.row = i /\ rows'[i].pkg = d.pkg
                            /\ rows'[i].path = d.pkg
                            /\ (rows'[i].cached <=> d.exists)
      BY <3>4
    <3>6. d.pkg = p /\ (d.exists <=> file'[p] # "none")
      BY <1>1, <1>3, <3>2, <3>5 DEF TrueNow
    <3> QED BY <3>3, <3>4, <3>5, <3>6
  <2> QED BY <2>3, <2>4
<1> QED BY <1>9 DEF Agrees, ByKey

LEMMA SecondPassStays ==
    ASSUME TInv, NEW t \in Task, SecondPass(t), [SyncBegin(t) \/ SyncStep(t)]_vars
    PROVE  SecondPass(t)'
<1>1. sync \in [Task -> SyncRec] /\ sync[t] \in SyncRec /\ rows \in Seq(Row)
  BY DEF TInv, TypeOK
<1>2. ASSUME sync'[t].pc # "meta2" PROVE SecondPass(t)'
  BY <1>2 DEF SecondPass
<1>3. CASE UNCHANGED vars
  BY <1>3 DEF vars, SecondPass, TrueNow, Id
<1>4. CASE SyncBegin(t) \/ MetaAmbiguous(t) \/ MetaCommit(t) \/ SyncMarkList(t)
             \/ SyncMarkCommit(t) \/ CleanList(t)
  <2>1. sync'[t].pc # "meta2"
    BY <1>1, <1>4 DEF SyncBegin, MetaAmbiguous, MetaCommit, SyncMarkList, SyncMarkCommit,
       CleanList, SyncStage, SyncIdle
  <2> QED BY <1>2, <2>1
<1>5. CASE CleanEnd(t)
  <2>1. /\ sync'[t].pulling = {} /\ sync'[t].todo = Index[t]
        /\ sync'[t].at = NoPkg /\ sync'[t].plan = {}
    BY <1>1, <1>5 DEF CleanEnd, SyncStage, SyncIdle
  <2> QED BY <2>1 DEF SecondPass
<1>6. ASSUME NEW p \in Pkg, DownloadCheck(t, p) \/ CleanUnlink(t, p)
      PROVE  SecondPass(t)'
  <2>1. sync'[t].pc # "meta2"
    BY <1>1, <1>6 DEF DownloadCheck, CleanUnlink, In, SyncRec
  <2> QED BY <1>2, <2>1
<1>7. CASE SyncMarkRead(t) \/ CleanRead(t) \/ CleanUncache(t)
  <2>1. ASSUME SyncMarkRead(t) PROVE sync'[t].pc # "meta2"
    <3>1. PICK P : sync' = [sync EXCEPT ![t].pc = "marking", ![t].plan = P]
      BY <2>1 DEF SyncMarkRead
    <3> QED BY <1>1, <3>1 DEF SyncRec
  <2>2. ASSUME CleanRead(t) PROVE sync'[t].pc # "meta2"
    <3>1. PICK P : \/ sync' = [sync EXCEPT ![t].pc = "uncaching", ![t].plan = P]
                   \/ sync' = [sync EXCEPT ![t].pc = "clean", ![t].at = NoPkg]
      BY <2>2 DEF CleanRead
    <3> QED BY <1>1, <3>1 DEF SyncRec
  <2>3. ASSUME CleanUncache(t) PROVE sync'[t].pc # "meta2"
    BY <1>1, <2>3 DEF CleanUncache, Uncached, SyncRec
  <2> QED BY <1>2, <1>7, <2>1, <2>2, <2>3
<1>8. ASSUME NEW p \in Pkg, DownloadEnd(t, p) PROVE SecondPass(t)'
  <2>1. sync'[t].pc = sync[t].pc /\ sync[t].pulling # {}
    BY <1>1, <1>8 DEF DownloadEnd, SyncRec
  <2> QED BY <1>2, <2>1 DEF SecondPass
<1>9. ASSUME NEW p \in Pkg, MetaStat(t, p), sync[t].pc = "meta2" PROVE SecondPass(t)'
  <2> DEFINE b == (file[p] # "none")
             s == [sync[t] EXCEPT !.todo = @ \ {p}, !.at = p, !.there = b]
  <2>1. sync' = [sync EXCEPT ![t] = s] /\ file' = file /\ rows' = rows
    BY <1>1, <1>9 DEF MetaStat
  <2>2. /\ s.plan = sync[t].plan /\ s.pulling = sync[t].pulling
        /\ s.todo = sync[t].todo \ {p} /\ s.at = p /\ (s.there <=> file[p] # "none")
    BY <1>1 DEF SyncRec
  <2> HIDE DEF s, b
  <2>3. sync'[t] = s
    BY <1>1, <2>1
  <2>4. \A c : TrueNow(c)' <=> TrueNow(c)
    BY <2>1 DEF TrueNow, Id
  <2>5. sync[t].at = NoPkg
    BY <1>9 DEF MetaStat
  <2>6. \A q \in Index[t] : \/ q \in sync'[t].todo \/ sync'[t].at = q
                            \/ \E c \in sync'[t].plan : c.pkg = q
    <3>1. \A q \in Index[t] : q \in sync[t].todo \/ \E c \in sync[t].plan : c.pkg = q
      <4>1. \A q \in Index[t] : q # NoPkg
        BY IndexType, NameType
      <4> QED BY <1>9, <2>5, <4>1 DEF SecondPass
    <3> QED BY <2>2, <2>3, <3>1
  <2>7. sync'[t].there <=> file'[sync'[t].at] # "none"
    BY <2>1, <2>2, <2>3
  <2>8. sync'[t].pulling = {} /\ \A c \in sync'[t].plan : TrueNow(c)'
    BY <1>9, <2>2, <2>3, <2>4 DEF SecondPass
  <2> QED BY <2>6, <2>7, <2>8 DEF SecondPass
<1>10. ASSUME MetaPlan(t), sync[t].pc = "meta2" PROVE SecondPass(t)'
  <2>1. PICK p : p = sync[t].at
    OBVIOUS
  <2>2. /\ p # NoPkg /\ file' = file /\ rows' = rows
        /\ (sync[t].there <=> file[p] # "none")
    BY <1>10, <2>1 DEF MetaPlan, InMeta, SecondPass
  <2>3. PICK c : Plan(t, c) /\ c.pkg = p /\ TrueNow(c)
    <3> DEFINE there == sync[t].there
    <3>1. CASE Plan(t, NewChange(p, there))
      <4>1. TrueNow(NewChange(p, there)) /\ NewChange(p, there).pkg = p
        BY <2>2 DEF NewChange, TrueNow
      <4> QED BY <3>1, <4>1
    <3>2. ASSUME NEW i \in ByKey(p), Plan(t, ChangeOf(i, p, there))
          PROVE  \E c : Plan(t, c) /\ c.pkg = p /\ TrueNow(c)
      <4>1. i \in Id /\ rows[i].pkg = p /\ rows[i].keyed
        BY DEF ByKey
      <4>2. TrueNow(ChangeOf(i, p, there)) /\ ChangeOf(i, p, there).pkg = p
        BY <2>2, <4>1 DEF ChangeOf, TrueNow
      <4> QED BY <3>2, <4>2
    <3> QED BY <1>10, <2>1, <3>1, <3>2 DEF MetaPlan
  <2> DEFINE s == [sync[t] EXCEPT !.at = NoPkg, !.plan = @ \cup {c}]
  <2>4. sync' = [sync EXCEPT ![t] = s]
    BY <1>1, <2>3 DEF Plan
  <2>5. /\ s.plan = sync[t].plan \cup {c} /\ s.pulling = sync[t].pulling
        /\ s.todo = sync[t].todo /\ s.at = NoPkg
    BY <1>1 DEF SyncRec
  <2> HIDE DEF s
  <2>6. sync'[t] = s
    BY <1>1, <2>4
  <2>7. \A d : TrueNow(d)' <=> TrueNow(d)
    BY <2>2 DEF TrueNow, Id
  <2> QED BY <1>10, <2>1, <2>3, <2>5, <2>6, <2>7 DEF SecondPass
<1>11. ASSUME sync[t].pc # "meta2", MetaPlan(t) \/ \E p \in Pkg : MetaStat(t, p)
       PROVE  SecondPass(t)'
  <2>1. ASSUME MetaPlan(t) PROVE sync'[t].pc = sync[t].pc
    <3>1. PICK c : Plan(t, c)
      BY <2>1 DEF MetaPlan
    <3> QED BY <1>1, <3>1 DEF Plan, SyncRec
  <2>2. ASSUME NEW p \in Pkg, MetaStat(t, p) PROVE sync'[t].pc = sync[t].pc
    <3>1. PICK b : sync' = [sync EXCEPT ![t].todo = @ \ {p}, ![t].at = p, ![t].there = b]
      BY <2>2 DEF MetaStat
    <3> QED BY <1>1, <3>1 DEF SyncRec
  <2> QED BY <1>2, <1>11, <2>1, <2>2
<1> QED BY <1>3, <1>4, <1>5, <1>6, <1>7, <1>8, <1>9, <1>10, <1>11 DEF SyncStep

(* Whatever state requests, evictions, administrators, aborted tasks and   *)
(* overlapping ones have left: when a task runs undisturbed from before    *)
(* its second pass on, then at each of its completions there is, for every *)
(* package of its index, a row that tells the package's path and whether   *)
(* its file is there.                                                      *)
THEOREM UndisturbedHeals ==
    ASSUME NEW t \in Task
    PROVE  Spec => [](sync[t].pc # "meta2" /\ [][SyncBegin(t) \/ SyncStep(t)]_vars
                        => [][sync[t].pc = "meta2" /\ MetaCommit(t) => Agrees(t)']_vars)
<1>1. sync[t].pc # "meta2" => SecondPass(t)
  BY DEF SecondPass
<1>2. TInv /\ SecondPass(t) /\ [SyncBegin(t) \/ SyncStep(t)]_vars => SecondPass(t)'
  BY SecondPassStays
<1>3. TInv /\ SecondPass(t) /\ sync[t].pc = "meta2" /\ MetaCommit(t) => Agrees(t)'
  BY CommitAgrees
<1> QED BY <1>1, <1>2, <1>3, Invariance, PTL
=============================================================================
