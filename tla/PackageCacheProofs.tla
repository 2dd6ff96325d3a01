------------------------- MODULE PackageCacheProofs -------------------------
(***************************************************************************)
(* Proofs about PackageCache, for any packages, requests, tasks and mix of *)
(* activities.                                                             *)
(***************************************************************************)
EXTENDS PackageCache, FiniteSetTheorems, TLAPS

(* A finite set has a sequence of its elements, each of them once. *)
LEMMA SetToSeqFacts ==
    ASSUME NEW S, IsFiniteSet(S)
    PROVE  /\ SetToSeq(S) \in Seq(S)
           /\ IsInjective(SetToSeq(S))
<1>1. /\ Cardinality(S) \in Nat
      /\ ExistsBijection(1..Cardinality(S), S)
  BY FS_CardinalityType
<1>2. PICK f \in [1..Cardinality(S) -> S] : IsInjective(f)
  BY <1>1 DEF ExistsBijection, Bijection, Injection, IsInjective
<1>3. SetToSeq(S) \in [1..Cardinality(S) -> S] /\ IsInjective(SetToSeq(S))
  BY <1>2 DEF SetToSeq
<1> QED BY <1>1, <1>3

(* A sequence over a set is one over any larger set. *)
LEMMA SeqMonotonic ==
    ASSUME NEW S, NEW T, S \subseteq T, NEW q \in Seq(S)
    PROVE  q \in Seq(T)
OBVIOUS

(* A sequence of which one element changes, or each of them. *)
LEMMA SeqUpdate ==
    ASSUME NEW S, NEW q \in Seq(S), NEW i \in 1 .. Len(q), NEW x \in S
    PROVE  [q EXCEPT ![i] = x] \in Seq(S)
OBVIOUS

LEMMA SeqOfFunction ==
    ASSUME NEW S, NEW n \in Nat, NEW f \in [1 .. n -> S]
    PROVE  f \in Seq(S)
OBVIOUS

(* What a plan inserts, and what its flush leaves in the table. *)
LEMMA InsertedFacts ==
    ASSUME NEW plan \in SUBSET Change, IsFiniteSet(plan)
    PROVE  /\ Inserted(plan) \in Seq(Row)
           /\ IsInjective(Inserted(plan))
           /\ \A k \in DOMAIN Inserted(plan) :
                \E c \in plan : c.row = 0 /\ Inserted(plan)[k] = NewRow(c.pkg, TRUE, c.exists)
<1> DEFINE D == {c \in plan : c.row = 0}
           N == {NewRow(c.pkg, TRUE, c.exists) : c \in D}
           f == [c \in D |-> NewRow(c.pkg, TRUE, c.exists)]
<1>1. IsFiniteSet(D)
  BY FS_Subset
<1>2. f \in Surjection(D, N)
  BY DEF Surjection
<1>3. IsFiniteSet(N)
  BY <1>1, <1>2, FS_Surjection
<1>4. SetToSeq(N) \in Seq(N) /\ IsInjective(SetToSeq(N))
  BY <1>3, SetToSeqFacts
<1>5. ASSUME NEW n \in N
      PROVE  n \in Row /\ \E c \in plan : c.row = 0 /\ n = NewRow(c.pkg, TRUE, c.exists)
  <2>1. PICK c \in D : n = NewRow(c.pkg, TRUE, c.exists)
    OBVIOUS
  <2>2. c.pkg \in Pkg /\ c.exists \in BOOLEAN
    BY DEF Change
  <2> QED BY <2>1, <2>2 DEF NewRow, Row
<1>6. Inserted(plan) = SetToSeq(N)
  BY DEF Inserted
<1> HIDE DEF N
<1>7. SetToSeq(N) \in Seq(Row)
  <2>1. N \subseteq Row
    BY <1>5
  <2> QED BY <2>1, <1>4, SeqMonotonic
<1>8. \A k \in DOMAIN SetToSeq(N) : SetToSeq(N)[k] \in N
  BY <1>4
<1>9. ASSUME NEW k \in DOMAIN Inserted(plan)
      PROVE  \E c \in plan : c.row = 0 /\ Inserted(plan)[k] = NewRow(c.pkg, TRUE, c.exists)
  BY <1>5, <1>6, <1>8
<1> QED BY <1>4, <1>6, <1>7, <1>9

LEMMA FlushedFacts ==
    ASSUME rows \in Seq(Row), NEW plan \in SUBSET Change, IsFiniteSet(plan)
    PROVE  /\ Flushed(plan) \in Seq(Row)
           /\ Len(Flushed(plan)) = Len(rows) + Len(Inserted(plan))
           /\ \A i \in Id : /\ Flushed(plan)[i].pkg = rows[i].pkg
                            /\ Flushed(plan)[i].keyed = rows[i].keyed
           /\ \A k \in DOMAIN Inserted(plan) :
                Flushed(plan)[Len(rows) + k] = Inserted(plan)[k]
<1>1. ASSUME NEW i \in Id
      PROVE  /\ Updated(i, plan) \in Row
             /\ Updated(i, plan).pkg = rows[i].pkg
             /\ Updated(i, plan).keyed = rows[i].keyed
  <2>1. rows[i] \in Row
    BY <1>1 DEF Id
  <2>2. CASE \E c \in plan : c.row = i
    <3> DEFINE c == CHOOSE c \in plan : c.row = i
    <3>1. c \in Change
      BY <2>2
    <3>2. Updated(i, plan) =
           [rows[i] EXCEPT !.path   = IF c.path = c.pkg THEN @ ELSE c.pkg,
                           !.cached = IF c.seen = c.exists THEN @ ELSE c.exists]
      BY <2>2 DEF Updated
    <3> HIDE DEF c
    <3> QED BY <2>1, <3>1, <3>2 DEF Row, Change
  <2>3. CASE ~ \E c \in plan : c.row = i
    BY <2>1, <2>3 DEF Updated
  <2> QED BY <2>2, <2>3
<1> DEFINE U == [i \in Id |-> Updated(i, plan)]
<1>2. U \in Seq(Row) /\ Len(U) = Len(rows)
  BY <1>1 DEF Id
<1>3. Inserted(plan) \in Seq(Row)
  BY InsertedFacts
<1>4. Flushed(plan) = U \o Inserted(plan)
  BY DEF Flushed
<1>5. \A i \in Id : U[i].pkg = rows[i].pkg /\ U[i].keyed = rows[i].keyed
  BY <1>1
<1> DEFINE I == Inserted(plan)
<1> HIDE DEF U, I
<1>6. I \in Seq(Row)
  BY <1>3 DEF I
<1>7. /\ U \o I \in Seq(Row)
      /\ Len(U \o I) = Len(rows) + Len(I)
      /\ \A i \in 1 .. Len(rows) : (U \o I)[i] = U[i]
      /\ \A k \in 1 .. Len(I) : (U \o I)[Len(rows) + k] = I[k]
  BY <1>2, <1>6
<1>8. Id = 1 .. Len(rows) /\ DOMAIN I = 1 .. Len(I)
  BY <1>6 DEF Id
<1> QED BY <1>4, <1>5, <1>7, <1>8 DEF I

-----------------------------------------------------------------------------
(* Type correctness.  The changes a task holds are finitely many, or their *)
(* insertion would not be a sequence.                                      *)
FinitePlans == \A t \in Task : IsFiniteSet(sync[t].plan)

(* A request that is under way has a package. *)
ServingPkg == \A r \in Request : req[r].pc # "idle" => req[r].pkg \in Pkg

TInv == TypeOK /\ FinitePlans /\ ServingPkg

(* The tables that a commit of a single row leaves. *)
LEMMA RowType ==
    /\ \A x \in Row, v \in BOOLEAN : [x EXCEPT !.cached = v] \in Row
    /\ \A x \in Row : [x EXCEPT !.cached = FALSE, !.path = NoPath] \in Row
    /\ \A p \in Pkg, k, v \in BOOLEAN : NewRow(p, k, v) \in Row
BY DEF Row, NewRow

LEMMA CreatedType == \A p \in Pkg : NewRow(p, p \in RoundTrip, TRUE) \in Row
<1> TAKE p \in Pkg
<1>1. CASE p \in RoundTrip
  <2>1. (p \in RoundTrip) = TRUE
    BY <1>1
  <2> QED BY <2>1, RowType
<1>2. CASE p \notin RoundTrip
  <2>1. (p \in RoundTrip) = FALSE
    BY <1>2
  <2> QED BY <2>1, RowType
<1> QED BY <1>1, <1>2

LEMMA SetCachedType ==
    ASSUME rows \in Seq(Row), NEW i \in Nat, NEW seen, NEW value \in BOOLEAN
    PROVE  SetCached(i, seen, value) \in Seq(Row)
<1>1. CASE seen = value
  BY <1>1 DEF SetCached
<1>2. CASE seen # value /\ i \in 1 .. Len(rows)
  <2>1. rows[i] \in Row
    BY <1>2
  <2>2. SetCached(i, seen, value) = [rows EXCEPT ![i] = [rows[i] EXCEPT !.cached = value]]
    BY <1>2 DEF SetCached
  <2>3. [rows[i] EXCEPT !.cached = value] \in Row
    BY <2>1, RowType
  <2> QED BY <1>2, <2>2, <2>3, SeqUpdate
<1>3. CASE seen # value /\ i \notin 1 .. Len(rows)
  <2>1. SetCached(i, seen, value) = rows
    BY <1>3 DEF SetCached
  <2> QED BY <2>1
<1> QED BY <1>1, <1>2, <1>3

(* Records whose fields change one at a time. *)
LEMMA ReqRecFacts ==
    /\ ReqIdle \in ReqRec
    /\ \A x \in ReqRec, pc \in ReqPc : [x EXCEPT !.pc = pc] \in ReqRec
    /\ \A p \in Pkg, pc \in ReqPc : [ReqIdle EXCEPT !.pc = pc, !.pkg = p] \in ReqRec
    /\ \A x \in ReqRec, i \in Nat, b \in BOOLEAN :
         [x EXCEPT !.pc = "marking", !.row = i, !.seen = b] \in ReqRec
BY DEF ReqRec, ReqIdle, ReqPc

LEMMA RequestTyping ==
    ASSUME TInv, NEW r \in Request, (\E q \in Pkg : Lookup(r, q)) \/ RequestStep(r)
    PROVE  TInv'
<1> DEFINE Content == {"none", "part", "full"}
           Requests == /\ req' \in [Request -> ReqRec] /\ ServingPkg'
                       /\ reply' \in [Request -> {"none", "404"} \cup Content]
<1>1. UNCHANGED <<sync, evict, admin, repair>>
  BY DEF Lookup, RequestStep, HitAnswer, PullRefused, PullFails, PullPlaced, MarkRead,
         MarkCommit, MarkCreate, MarkSwallowed
<1>2. FinitePlans'
  BY <1>1 DEF TInv, FinitePlans
<1>3. /\ file \in [Pkg -> Content] /\ rows \in Seq(Row)
      /\ req \in [Request -> ReqRec] /\ ServingPkg
      /\ reply \in [Request -> {"none", "404"} \cup Content]
  BY DEF TInv, TypeOK
<1>4. req[r] \in ReqRec /\ req[r].row \in Nat /\ (req[r].pc # "idle" => req[r].pkg \in Pkg)
  BY <1>3 DEF ServingPkg, ReqRec
<1>5. file' \in [Pkg -> Content]
  BY <1>3 DEF Lookup, RequestStep, HitAnswer, PullRefused, PullFails, PullPlaced, MarkRead,
         MarkCommit, MarkCreate, MarkSwallowed
<1>6. rows' \in Seq(Row)
  <2>1. CASE MarkCommit(r)
    BY <1>3, <1>4, <2>1, SetCachedType DEF MarkCommit
  <2>2. CASE MarkCreate(r)
    <3> DEFINE x == NewRow(req[r].pkg, req[r].pkg \in RoundTrip, TRUE)
    <3>1. x \in Row
      BY <1>4, <2>2, CreatedType DEF MarkCreate
    <3>2. rows' = Append(rows, x)
      BY <2>2 DEF MarkCreate
    <3> HIDE DEF x
    <3> QED BY <1>3, <3>1, <3>2
  <2> QED BY <1>3, <2>1, <2>2 DEF Lookup, RequestStep, HitAnswer, PullRefused, PullFails,
           PullPlaced, MarkRead, MarkSwallowed
<1>7. ASSUME NEW c \in Content, Answer(r, c) PROVE Requests
  BY <1>3, <1>7, ReqRecFacts DEF Answer, ServingPkg, ReqIdle
<1>8. ASSUME UNCHANGED reply, NEW x \in ReqRec, x.pkg \in Pkg, req' = [req EXCEPT ![r] = x]
      PROVE  Requests
  BY <1>3, <1>8 DEF ServingPkg
<1>9. Requests
  <2>1. ASSUME NEW q \in Pkg, Lookup(r, q) PROVE Requests
    <3>1. \A pc \in ReqPc : [ReqIdle EXCEPT !.pc = pc, !.pkg = q].pkg = q
      BY DEF ReqIdle
    <3> QED BY <1>7, <1>8, <2>1, <3>1, ReqRecFacts DEF Lookup, ReqPc
  <2>2. CASE HitAnswer(r) \/ PullRefused(r) \/ PullFails(r) \/ MarkCommit(r) \/ MarkCreate(r)
             \/ MarkSwallowed(r)
    <3>1. req[r].pc # "idle" /\ file[req[r].pkg] \in Content
      BY <1>3, <1>4, <2>2 DEF HitAnswer, PullRefused, PullFails, MarkCommit, MarkCreate,
         MarkSwallowed
    <3> QED BY <1>7, <2>2, <3>1 DEF HitAnswer, PullRefused, PullFails, MarkCommit, MarkCreate,
             MarkSwallowed
  <2>3. CASE PullPlaced(r)
    <3>1. req' = [req EXCEPT ![r] = [req[r] EXCEPT !.pc = "placed"]]
      BY <2>3 DEF PullPlaced, ReqGoto
    <3>2. [req[r] EXCEPT !.pc = "placed"].pkg = req[r].pkg /\ req[r].pkg \in Pkg
      BY <1>4, <2>3 DEF PullPlaced, ReqRec
    <3> QED BY <1>4, <1>8, <2>3, <3>1, <3>2, ReqRecFacts DEF PullPlaced, ReqPc
  <2>4. CASE MarkRead(r)
    <3>1. req[r].pkg \in Pkg /\ file[req[r].pkg] \in Content
      BY <1>3, <1>4, <2>4 DEF MarkRead
    <3>2. CASE req' = [req EXCEPT ![r] = [req[r] EXCEPT !.pc = "creating"]] /\ UNCHANGED reply
      <4>1. [req[r] EXCEPT !.pc = "creating"].pkg = req[r].pkg
        BY <1>4 DEF ReqRec
      <4> QED BY <1>4, <1>8, <3>1, <3>2, <4>1, ReqRecFacts DEF ReqPc
    <3>3. ASSUME NEW i \in Id, UNCHANGED reply,
                 req' = [req EXCEPT ![r] = [req[r] EXCEPT !.pc = "marking", !.row = i,
                                                         !.seen = rows[i].cached]]
          PROVE  Requests
      <4>1. i \in Nat /\ rows[i].cached \in BOOLEAN
        <5>1. i \in 1 .. Len(rows) /\ rows[i] \in Row
          BY <1>3 DEF Id
        <5> QED BY <5>1 DEF Row
      <4> DEFINE x == [req[r] EXCEPT !.pc = "marking", !.row = i, !.seen = rows[i].cached]
      <4>2. x \in ReqRec /\ x.pkg = req[r].pkg
        BY <1>4, <4>1, ReqRecFacts DEF ReqRec
      <4> QED BY <1>8, <3>1, <3>3, <4>2
    <3> QED BY <1>7, <2>4, <3>1, <3>2, <3>3 DEF MarkRead, ReqGoto, ByPath
  <2> QED BY <2>1, <2>2, <2>3, <2>4 DEF RequestStep
<1> QED BY <1>1, <1>2, <1>5, <1>6, <1>9 DEF TInv, TypeOK

(* A task record whose fields change, and stays one of finitely many plans. *)
LEMMA SyncRecFacts ==
    /\ \A pc \in SyncPc, T \in SUBSET Pkg :
         /\ [SyncIdle EXCEPT !.pc = pc, !.todo = T] \in SyncRec
         /\ [SyncIdle EXCEPT !.pc = pc, !.todo = T].plan = {}
    /\ \A x \in SyncRec, p \in Pkg, b \in BOOLEAN :
         /\ [x EXCEPT !.todo = @ \ {p}] \in SyncRec
         /\ [x EXCEPT !.todo = @ \ {p}, !.pulling = @ \cup {p}] \in SyncRec
         /\ [x EXCEPT !.pulling = @ \ {p}] \in SyncRec
         /\ [x EXCEPT !.todo = @ \ {p}, !.at = p, !.there = b] \in SyncRec
         /\ [x EXCEPT !.todo = @ \ {p}, !.pc = "uncache", !.at = p] \in SyncRec
    /\ \A x \in SyncRec :
         /\ [x EXCEPT !.pc = "clean", !.at = NoPkg] \in SyncRec
         /\ [x EXCEPT !.pc = "clean", !.at = NoPkg, !.plan = {}] \in SyncRec
    /\ \A x \in SyncRec, c \in Change :
         [x EXCEPT !.at = NoPkg, !.plan = @ \cup {c}] \in SyncRec
    /\ \A x \in SyncRec, P \in SUBSET Change :
         /\ [x EXCEPT !.pc = "marking", !.plan = P] \in SyncRec
         /\ [x EXCEPT !.pc = "uncaching", !.plan = P] \in SyncRec
<1>1. ASSUME NEW pc \in SyncPc, NEW T \in SUBSET Pkg
      PROVE  /\ [SyncIdle EXCEPT !.pc = pc, !.todo = T] \in SyncRec
             /\ [SyncIdle EXCEPT !.pc = pc, !.todo = T].plan = {}
  BY DEF SyncRec, SyncIdle
<1>2. ASSUME NEW x \in SyncRec, NEW p \in Pkg, NEW b \in BOOLEAN
      PROVE  /\ [x EXCEPT !.todo = @ \ {p}] \in SyncRec
             /\ [x EXCEPT !.pulling = @ \ {p}] \in SyncRec
             /\ [x EXCEPT !.todo = @ \ {p}, !.at = p, !.there = b] \in SyncRec
             /\ [x EXCEPT !.todo = @ \ {p}, !.pc = "uncache", !.at = p] \in SyncRec
  BY DEF SyncRec, SyncPc
<1>3. ASSUME NEW x \in SyncRec, NEW p \in Pkg
      PROVE  [x EXCEPT !.todo = @ \ {p}, !.pulling = @ \cup {p}] \in SyncRec
  BY DEF SyncRec
<1>4. \A x \in SyncRec :
         /\ [x EXCEPT !.pc = "clean", !.at = NoPkg] \in SyncRec
         /\ [x EXCEPT !.pc = "clean", !.at = NoPkg, !.plan = {}] \in SyncRec
  BY DEF SyncRec, SyncPc
<1>5. ASSUME NEW x \in SyncRec, NEW c \in Change
      PROVE  [x EXCEPT !.at = NoPkg, !.plan = @ \cup {c}] \in SyncRec
  BY DEF SyncRec
<1>6. ASSUME NEW x \in SyncRec, NEW P \in SUBSET Change
      PROVE  /\ [x EXCEPT !.pc = "marking", !.plan = P] \in SyncRec
             /\ [x EXCEPT !.pc = "uncaching", !.plan = P] \in SyncRec
  BY DEF SyncRec, SyncPc
<1> QED BY <1>1, <1>2, <1>3, <1>4, <1>5, <1>6

LEMMA ChangeType ==
    ASSUME rows \in Seq(Row), NEW p \in Pkg, NEW b \in BOOLEAN
    PROVE  /\ NewChange(p, b) \in Change
           /\ \A i \in Id : ChangeOf(i, p, b) \in Change
<1>1. NewChange(p, b) \in Change
  BY DEF NewChange, Change
<1>2. ASSUME NEW i \in Id PROVE ChangeOf(i, p, b) \in Change
  <2>1. i \in Nat /\ rows[i] \in Row
    BY DEF Id
  <2>2. rows[i].path \in Pkg \cup {NoPath} /\ rows[i].cached \in BOOLEAN
    BY <2>1 DEF Row
  <2> QED BY <2>1, <2>2 DEF ChangeOf, Change
<1> QED BY <1>1, <1>2

(* What _mark_cached reads is finite. *)
LEMMA MarkPlanType ==
    ASSUME rows \in Seq(Row), NEW I \in SUBSET Id, \A i \in I : rows[i].path \in Pkg
    PROVE  LET P == {ChangeOf(i, rows[i].path, TRUE) : i \in I} IN
           P \in SUBSET Change /\ IsFiniteSet(P)
<1> DEFINE P == {ChangeOf(i, rows[i].path, TRUE) : i \in I}
           f == [i \in I |-> ChangeOf(i, rows[i].path, TRUE)]
<1>1. IsFiniteSet(1 .. Len(rows)) /\ Id = 1 .. Len(rows)
  BY FS_Interval DEF Id
<1>2. IsFiniteSet(I)
  BY <1>1, FS_Subset
<1>3. f \in Surjection(I, P)
  BY DEF Surjection
<1>4. IsFiniteSet(P)
  BY <1>2, <1>3, FS_Surjection
<1>5. P \in SUBSET Change
  BY ChangeType
<1> QED BY <1>4, <1>5

LEMMA SyncTyping ==
    ASSUME TInv, NEW t \in Task, SyncBegin(t) \/ SyncStep(t) \/ SyncAborts(t)
    PROVE  TInv'
<1> DEFINE Tasks == sync' \in [Task -> SyncRec] /\ FinitePlans'
<1>1. /\ file \in [Pkg -> {"none", "part", "full"}] /\ rows \in Seq(Row)
      /\ sync \in [Task -> SyncRec] /\ FinitePlans
      /\ \A u \in Task : Selected[u] \in SUBSET Pkg /\ Index[u] \in SUBSET Pkg
  BY IndexType, SelectedType DEF TInv, TypeOK
<1>2. /\ sync[t] \in SyncRec /\ IsFiniteSet(sync[t].plan)
      /\ sync[t].plan \in SUBSET Change
  BY <1>1 DEF FinitePlans, SyncRec
<1>3. ASSUME NEW x \in SyncRec, IsFiniteSet(x.plan), sync' = [sync EXCEPT ![t] = x]
      PROVE  Tasks
  BY <1>1, <1>3 DEF FinitePlans
<1>4. ASSUME NEW pc \in SyncPc, NEW T \in SUBSET Pkg, SyncStage(t, pc, T)
      PROVE  Tasks
  <2>1. IsFiniteSet({})
    BY FS_EmptySet
  <2> QED BY <1>3, <1>4, <2>1, SyncRecFacts DEF SyncStage
<1>5. ASSUME UNCHANGED <<file, rows, req, reply, evict, admin, repair>>, Tasks PROVE TInv'
  BY <1>5 DEF TInv, TypeOK, ServingPkg
<1>6. \A P \in SUBSET Pkg : OnDisk(P) \in SUBSET Pkg
  BY DEF OnDisk
<1>7. CASE SyncBegin(t) \/ MetaAmbiguous(t) \/ SyncMarkList(t) \/ CleanList(t) \/ CleanEnd(t)
           \/ SyncAborts(t)
  BY <1>1, <1>4, <1>5, <1>6, <1>7 DEF SyncBegin, MetaAmbiguous, SyncMarkList, CleanList,
     CleanEnd, SyncAborts, SyncPc
<1>8. ASSUME NEW p \in Pkg,
             MetaStat(t, p) \/ DownloadCheck(t, p) \/ DownloadEnd(t, p) \/ CleanUnlink(t, p)
      PROVE  TInv'
  <2>1. Tasks
    <3>1. CASE MetaStat(t, p)
      <4>0. PICK b \in BOOLEAN : b = (file[p] # "none")
        <5>1. CASE file[p] # "none"
          BY <5>1
        <5>2. CASE file[p] = "none"
          BY <5>2
        <5> QED BY <5>1, <5>2
      <4> DEFINE x == [sync[t] EXCEPT !.todo = @ \ {p}, !.at = p, !.there = b]
      <4>1. x \in SyncRec /\ x.plan = sync[t].plan
        <5>1. x \in SyncRec
          BY <1>2, SyncRecFacts
        <5> QED BY <1>2, <5>1 DEF SyncRec
      <4>2. sync' = [sync EXCEPT ![t] = x]
        BY <3>1, <4>0 DEF MetaStat
      <4> QED BY <1>2, <1>3, <4>1, <4>2
    <3>2. CASE DownloadCheck(t, p)
      <4> DEFINE x == [sync[t] EXCEPT !.todo = @ \ {p}]
                 y == [sync[t] EXCEPT !.todo = @ \ {p}, !.pulling = @ \cup {p}]
      <4>1. x \in SyncRec /\ x.plan = sync[t].plan /\ y \in SyncRec /\ y.plan = sync[t].plan
        BY <1>2, SyncRecFacts DEF SyncRec
      <4>2. sync' = [sync EXCEPT ![t] = x] \/ sync' = [sync EXCEPT ![t] = y]
        BY <3>2 DEF DownloadCheck
      <4> QED BY <1>2, <1>3, <4>1, <4>2
    <3>3. CASE DownloadEnd(t, p)
      <4> DEFINE x == [sync[t] EXCEPT !.pulling = @ \ {p}]
      <4>1. x \in SyncRec /\ x.plan = sync[t].plan
        BY <1>2, SyncRecFacts DEF SyncRec
      <4>2. sync' = [sync EXCEPT ![t] = x]
        BY <3>3 DEF DownloadEnd
      <4> QED BY <1>2, <1>3, <4>1, <4>2
    <3>4. CASE CleanUnlink(t, p)
      <4> DEFINE x == [sync[t] EXCEPT !.todo = @ \ {p}]
                 y == [sync[t] EXCEPT !.todo = @ \ {p}, !.pc = "uncache", !.at = p]
      <4>1. x \in SyncRec /\ x.plan = sync[t].plan /\ y \in SyncRec /\ y.plan = sync[t].plan
        <5>1. x \in SyncRec /\ y \in SyncRec
          BY <1>2, SyncRecFacts
        <5> QED BY <1>2, <5>1 DEF SyncRec
      <4>2. sync' = [sync EXCEPT ![t] = x] \/ sync' = [sync EXCEPT ![t] = y]
        BY <3>4 DEF CleanUnlink
      <4> QED BY <1>2, <1>3, <4>1, <4>2
    <3> QED BY <1>8, <3>1, <3>2, <3>3, <3>4
  <2>2. file' \in [Pkg -> {"none", "part", "full"}]
    BY <1>1, <1>8 DEF MetaStat, DownloadCheck, DownloadEnd, CleanUnlink
  <2>3. UNCHANGED <<rows, req, reply, evict, admin, repair>>
    BY <1>8 DEF MetaStat, DownloadCheck, DownloadEnd, CleanUnlink
  <2> QED BY <2>1, <2>2, <2>3 DEF TInv, TypeOK, ServingPkg
<1>9. CASE MetaPlan(t)
  <2>1. sync[t].at \in Pkg /\ sync[t].there \in BOOLEAN
    BY <1>2, <1>9 DEF MetaPlan, InMeta, SyncRec
  <2>2. PICK c \in Change : Plan(t, c)
    BY <1>1, <1>9, <2>1, ChangeType DEF MetaPlan, ByKey
  <2> DEFINE x == [sync[t] EXCEPT !.at = NoPkg, !.plan = @ \cup {c}]
  <2>3. x \in SyncRec /\ x.plan = sync[t].plan \cup {c}
    BY <1>2, SyncRecFacts DEF SyncRec
  <2>4. IsFiniteSet(x.plan)
    BY <1>2, <2>3, FS_AddElement
  <2>5. sync' = [sync EXCEPT ![t] = x]
    BY <2>2 DEF Plan
  <2>6. Tasks
    BY <1>3, <2>3, <2>4, <2>5
  <2> QED BY <1>5, <1>9, <2>6 DEF MetaPlan
<1>10. CASE SyncMarkRead(t)
  <2> DEFINE I == {i \in Id : rows[i].path \in OnDisk(sync[t].todo)}
             P == {ChangeOf(i, rows[i].path, TRUE) : i \in I}
             x == [sync[t] EXCEPT !.pc = "marking", !.plan = P]
  <2>1. \A i \in I : rows[i].path \in Pkg
    BY <1>2 DEF OnDisk, SyncRec
  <2>2. P \in SUBSET Change /\ IsFiniteSet(P)
    BY <1>1, <2>1, MarkPlanType
  <2>3. sync' = [sync EXCEPT ![t] = x]
    BY <1>10 DEF SyncMarkRead
  <2> HIDE DEF P
  <2>4. x \in SyncRec /\ x.plan = P
    BY <1>2, <2>2, SyncRecFacts DEF SyncRec
  <2>5. Tasks
    BY <1>3, <2>2, <2>3, <2>4
  <2> QED BY <1>5, <1>10, <2>5 DEF SyncMarkRead
<1>11. CASE MetaCommit(t) \/ SyncMarkCommit(t)
  <2>1. rows' \in Seq(Row)
    BY <1>1, <1>2, <1>11, FlushedFacts DEF MetaCommit, SyncMarkCommit
  <2>2. Tasks
    BY <1>1, <1>4, <1>11 DEF MetaCommit, SyncMarkCommit, SyncPc
  <2>3. UNCHANGED <<file, req, reply, evict, admin, repair>>
    BY <1>11 DEF MetaCommit, SyncMarkCommit
  <2> QED BY <2>1, <2>2, <2>3 DEF TInv, TypeOK, ServingPkg
<1>12. CASE CleanRead(t)
  <2> DEFINE x == [sync[t] EXCEPT !.pc = "clean", !.at = NoPkg]
  <2>1. CASE sync' = [sync EXCEPT ![t] = x]
    <3>1. x \in SyncRec /\ x.plan = sync[t].plan
      BY <1>2, SyncRecFacts DEF SyncRec
    <3>2. Tasks
      BY <1>2, <1>3, <2>1, <3>1
    <3> QED BY <1>5, <1>12, <3>2 DEF CleanRead
  <2>2. ASSUME NEW i \in ByPath(sync[t].at), NEW P,
               P = {ChangeOf(i, sync[t].at, FALSE)},
               sync' = [sync EXCEPT ![t].pc = "uncaching", ![t].plan = P]
        PROVE  Tasks
    <3>1. i \in Id /\ rows[i] \in Row /\ rows[i].path = sync[t].at
      BY <1>1, <2>2 DEF ByPath, Id
    <3>2. sync[t].at \in Pkg
      BY <1>2, <3>1 DEF Row, SyncRec, NoPath, NoPkg
    <3>3. P \in SUBSET Change
      BY <1>1, <2>2, <3>1, <3>2, ChangeType
    <3>4. IsFiniteSet(P)
      BY <2>2, FS_Singleton
    <3> DEFINE y == [sync[t] EXCEPT !.pc = "uncaching", !.plan = P]
    <3>5. y \in SyncRec /\ y.plan = P
      BY <1>2, <3>3, SyncRecFacts DEF SyncRec
    <3>6. sync' = [sync EXCEPT ![t] = y]
      BY <2>2
    <3> QED BY <1>3, <3>4, <3>5, <3>6
  <2> QED BY <1>5, <1>12, <2>1, <2>2 DEF CleanRead
<1>13. CASE CleanUncache(t)
  <2>1. ASSUME NEW c \in sync[t].plan PROVE c.row \in Nat
    BY <1>2, <2>1 DEF SyncRec, Change
  <2>2. rows' \in Seq(Row)
    BY <1>1, <1>13, <2>1, SetCachedType DEF CleanUncache
  <2> DEFINE x == [sync[t] EXCEPT !.pc = "clean", !.at = NoPkg, !.plan = {}]
  <2>3. x \in SyncRec /\ x.plan = {}
    BY <1>2, SyncRecFacts DEF SyncRec
  <2>4. sync' = [sync EXCEPT ![t] = x]
    BY <1>13 DEF CleanUncache, Uncached
  <2>5. Tasks
    BY <1>3, <2>3, <2>4, FS_EmptySet
  <2>6. UNCHANGED <<file, req, reply, evict, admin, repair>>
    BY <1>13 DEF CleanUncache
  <2> QED BY <2>2, <2>5, <2>6 DEF TInv, TypeOK, ServingPkg
<1> QED BY <1>7, <1>8, <1>9, <1>10, <1>11, <1>12, <1>13 DEF SyncStep

LEMMA EvictTyping ==
    ASSUME TInv, EvictStep
    PROVE  TInv'
<1> DEFINE EvictRec == [todo : SUBSET [row : Nat, path : Pkg \cup {NoPath}], gone : SUBSET Nat]
<1>1. /\ file \in [Pkg -> {"none", "part", "full"}] /\ rows \in Seq(Row)
      /\ evict \in EvictRec
  BY DEF TInv, TypeOK
<1>2. UNCHANGED <<req, reply, sync, admin, repair>>
  BY DEF EvictStep, EvictRead, EvictUnlink, EvictBreaks, EvictCommit
<1>3. file' \in [Pkg -> {"none", "part", "full"}]
  BY <1>1 DEF EvictStep, EvictRead, EvictUnlink, EvictBreaks, EvictCommit
<1>4. rows' \in Seq(Row)
  <2>1. CASE EvictCommit
    <3> DEFINE R(i) == IF i \in evict.gone THEN [rows[i] EXCEPT !.cached = FALSE, !.path = NoPath]
                                          ELSE rows[i]
    <3>1. ASSUME NEW i \in Id PROVE R(i) \in Row
      <4>1. rows[i] \in Row
        BY <1>1 DEF Id
      <4> QED BY <4>1, RowType
    <3>2. rows' = [i \in Id |-> R(i)]
      BY <2>1 DEF EvictCommit
    <3>3. Id = 1 .. Len(rows) /\ Len(rows) \in Nat
      BY <1>1 DEF Id
    <3> HIDE DEF R
    <3>4. rows' \in [1 .. Len(rows) -> Row]
      BY <3>1, <3>2, <3>3
    <3> QED BY <3>3, <3>4, SeqOfFunction
  <2> QED BY <1>1, <2>1 DEF EvictStep, EvictRead, EvictUnlink, EvictBreaks
<1>5. evict' \in EvictRec
  <2>1. CASE EvictRead
    <3>1. PICK ids \in SUBSET {i \in Id : rows[i].cached} :
            evict' = [evict EXCEPT !.todo = @ \cup
                                   {[row |-> i, path |-> rows[i].path] : i \in ids}]
      BY <2>1 DEF EvictRead
    <3>2. ASSUME NEW i \in ids
          PROVE  [row |-> i, path |-> rows[i].path] \in [row : Nat, path : Pkg \cup {NoPath}]
      <4>1. i \in Nat /\ rows[i] \in Row
        BY <1>1 DEF Id
      <4> QED BY <4>1 DEF Row
    <3> QED BY <1>1, <3>1, <3>2
  <2>2. ASSUME NEW v \in evict.todo, EvictUnlink(v) PROVE evict' \in EvictRec
    <3>1. v.row \in Nat
      BY <1>1
    <3> QED BY <1>1, <2>2, <3>1 DEF EvictUnlink
  <2>3. EvictIdle \in EvictRec
    BY DEF EvictIdle
  <2> QED BY <2>1, <2>2, <2>3 DEF EvictStep, EvictBreaks, EvictCommit
<1> QED BY <1>2, <1>3, <1>4, <1>5 DEF TInv, TypeOK, FinitePlans, ServingPkg

LEMMA AdminTyping ==
    ASSUME TInv, AdminStep
    PROVE  TInv'
<1>1. /\ file \in [Pkg -> {"none", "part", "full"}] /\ rows \in Seq(Row)
      /\ admin \in AdminRec /\ admin.row \in Nat
  BY DEF TInv, TypeOK, AdminRec
<1>2. UNCHANGED <<req, reply, sync, evict, repair>>
  BY DEF AdminStep, Delete, Redownload, DeleteCommit, RedownloadOpen, RedownloadFails,
         RedownloadWritten, RedownloadCommit
<1>3. file' \in [Pkg -> {"none", "part", "full"}]
  BY <1>1 DEF AdminStep, Delete, Redownload, DeleteCommit, RedownloadOpen, RedownloadFails,
         RedownloadWritten, RedownloadCommit
<1>4. rows' \in Seq(Row)
  <2>1. CASE DeleteCommit \/ RedownloadCommit
    BY <1>1, <2>1, SetCachedType DEF DeleteCommit, RedownloadCommit
  <2> QED BY <1>1, <2>1 DEF AdminStep, Delete, Redownload, RedownloadOpen, RedownloadFails,
           RedownloadWritten
<1>5. admin' \in AdminRec
  <2>1. ASSUME NEW i \in Id, Delete(i) \/ Redownload(i) PROVE admin' \in AdminRec
    <3>1. i \in Nat /\ rows[i] \in Row
      BY <1>1 DEF Id
    <3>2. rows[i].path \in Pkg /\ rows[i].cached \in BOOLEAN
      BY <2>1, <3>1 DEF Row, Delete, Redownload
    <3>3. PICK pc \in AdminPc : AdminTakes(i, pc)
      BY <2>1 DEF Delete, Redownload, AdminPc
    <3> QED BY <3>1, <3>2, <3>3 DEF AdminTakes, AdminRec
  <2>2. AdminIdle \in AdminRec
    BY DEF AdminIdle, AdminRec, AdminPc
  <2>3. \A pc \in AdminPc : [admin EXCEPT !.pc = pc] \in AdminRec
    BY <1>1 DEF AdminRec
  <2> QED BY <2>1, <2>2, <2>3 DEF AdminStep, DeleteCommit, RedownloadOpen, RedownloadFails,
           RedownloadWritten, RedownloadCommit, AdminPc
<1> QED BY <1>2, <1>3, <1>4, <1>5 DEF TInv, TypeOK, FinitePlans, ServingPkg

LEMMA RepairTyping ==
    ASSUME TInv, RepairStep
    PROVE  TInv'
<1> DEFINE RepairRec == [pc : {"idle", "walking"}, known : SUBSET (Pkg \cup {NoPath}),
                         todo : SUBSET Pkg]
<1>1. rows \in Seq(Row) /\ repair \in RepairRec
  BY DEF TInv, TypeOK
<1>2. UNCHANGED <<file, req, reply, sync, evict, admin>>
  BY DEF RepairStep, RepairBegin, RepairFile, RepairEnd
<1>3. rows' \in Seq(Row)
  <2>1. ASSUME NEW p \in Pkg, RepairFile(p) PROVE rows' \in Seq(Row)
    <3> DEFINE x == NewRow(p, p \in RoundTrip, TRUE)
    <3>1. x \in Row
      BY CreatedType
    <3>2. rows' = Append(rows, x) \/ rows' = rows
      BY <2>1 DEF RepairFile
    <3> HIDE DEF x
    <3> QED BY <1>1, <3>1, <3>2
  <2> QED BY <1>1, <2>1 DEF RepairStep, RepairBegin, RepairEnd
<1>4. repair' \in RepairRec
  <2>1. CASE RepairBegin
    <3>1. {rows[i].path : i \in {i \in Id : rows[i].cached}} \in SUBSET (Pkg \cup {NoPath})
      <4>1. \A i \in Id : rows[i] \in Row
        BY <1>1 DEF Id
      <4> QED BY <4>1 DEF Row
    <3>2. OnDisk(Pkg) \in SUBSET Pkg
      BY DEF OnDisk
    <3> QED BY <2>1, <3>1, <3>2 DEF RepairBegin
  <2>2. ASSUME NEW p \in Pkg, RepairFile(p) PROVE repair' \in RepairRec
    BY <1>1, <2>2 DEF RepairFile
  <2>3. RepairIdle \in RepairRec
    BY DEF RepairIdle
  <2> QED BY <2>1, <2>2, <2>3 DEF RepairStep, RepairEnd
<1> QED BY <1>2, <1>3, <1>4 DEF TInv, TypeOK, FinitePlans, ServingPkg

LEMMA Invariance == Spec => []TInv
<1>1. Init => TInv
  <2>1. IsFiniteSet({})
    BY FS_EmptySet
  <2>2. ReqIdle \in ReqRec /\ SyncIdle \in SyncRec /\ ReqIdle.pc = "idle" /\ SyncIdle.plan = {}
    BY DEF ReqIdle, ReqRec, ReqPc, SyncIdle, SyncRec, SyncPc
  <2>3. AdminIdle \in AdminRec
    BY DEF AdminIdle, AdminRec, AdminPc
  <2>4. EvictIdle \in [todo : SUBSET [row : Nat, path : Pkg \cup {NoPath}], gone : SUBSET Nat]
    BY DEF EvictIdle
  <2>5. RepairIdle \in [pc : {"idle", "walking"}, known : SUBSET (Pkg \cup {NoPath}),
                        todo : SUBSET Pkg]
    BY DEF RepairIdle
  <2>6. << >> \in Seq(Row)
    OBVIOUS
  <2>7. Init => FinitePlans /\ ServingPkg
    BY <2>1, <2>2 DEF Init, FinitePlans, ServingPkg
  <2>8. Init => TypeOK
    BY <2>2, <2>3, <2>4, <2>5, <2>6 DEF Init, TypeOK
  <2> QED BY <2>7, <2>8 DEF TInv
<1>2. TInv /\ [Next]_vars => TInv'
  <2>1. ASSUME TInv, UNCHANGED vars PROVE TInv'
    BY <2>1 DEF vars, TInv, TypeOK, FinitePlans, ServingPkg
  <2>2. ASSUME TInv, Next PROVE TInv'
    BY <2>2, RequestTyping, SyncTyping, EvictTyping, AdminTyping, RepairTyping DEF Next
  <2> QED BY <2>1, <2>2
<1> QED BY <1>1, <1>2, PTL DEF Spec

(* Type correctness, for any packages, requests and tasks. *)
THEOREM Typing == Spec => []TypeOK
<1>1. TInv => TypeOK
  BY DEF TInv
<1> QED BY <1>1, Invariance, PTL

-----------------------------------------------------------------------------
(* Nothing but a redownload truncates a file: no file is ever truncated,   *)
(* no redownload is under way, and no answer was cut short.                *)
AllWhole ==
    /\ \A p \in Pkg : file[p] # "part"
    /\ admin.pc \notin {"fetching", "writing"}
    /\ ServedIsWhole

LEMMA RequestServesWhole ==
    ASSUME TInv, AllWhole, NEW r \in Request, (\E q \in Pkg : Lookup(r, q)) \/ RequestStep(r)
    PROVE  AllWhole'
<1>1. /\ file \in [Pkg -> {"none", "part", "full"}]
      /\ reply \in [Request -> {"none", "404", "part", "full"}]
      /\ \A x \in Request : reply[x] # "part"
      /\ \A p \in Pkg : file[p] # "part"
  BY DEF TInv, TypeOK, AllWhole, ServedIsWhole
<1>2. UNCHANGED admin
  BY DEF Lookup, RequestStep, HitAnswer, PullRefused, PullFails, PullPlaced, MarkRead,
         MarkCommit, MarkCreate, MarkSwallowed
<1>3. (\A p \in Pkg : file[p] # "part")'
  BY <1>1 DEF Lookup, RequestStep, HitAnswer, PullRefused, PullFails, PullPlaced, MarkRead,
         MarkCommit, MarkCreate, MarkSwallowed
<1>4. ASSUME NEW c, c # "part", Answer(r, c) PROVE ServedIsWhole'
  BY <1>1, <1>4 DEF Answer, ServedIsWhole
<1>5. req[r].pc # "idle" => file[req[r].pkg] # "part"
  BY <1>1 DEF TInv, ServingPkg
<1>6. ServedIsWhole'
  <2>1. ASSUME UNCHANGED reply PROVE ServedIsWhole'
    BY <1>1, <2>1 DEF ServedIsWhole
  <2> QED BY <1>4, <1>5, <2>1 DEF Lookup, RequestStep, HitAnswer, PullRefused, PullFails,
           PullPlaced, MarkRead, MarkCommit, MarkCreate, MarkSwallowed, ReqGoto
<1> QED BY <1>2, <1>3, <1>6 DEF AllWhole

LEMMA WholeInvariance ==
    ASSUME "redownload" \notin Activity
    PROVE  Spec => []AllWhole
<1>1. Init => AllWhole
  BY DEF Init, AllWhole, ServedIsWhole, AdminIdle
<1>2. TInv /\ AllWhole /\ [Next]_vars => AllWhole'
  <2> SUFFICES ASSUME TInv, AllWhole, [Next]_vars PROVE AllWhole'
    OBVIOUS
  <2>1. /\ file \in [Pkg -> {"none", "part", "full"}]
        /\ \A p \in Pkg : file[p] # "part"
    BY DEF TInv, TypeOK, AllWhole
  <2>2. CASE UNCHANGED vars
    BY <2>2 DEF vars, AllWhole, ServedIsWhole
  <2>3. CASE \E r \in Request : (\E p \in Pkg : Lookup(r, p)) \/ RequestStep(r)
    BY <2>3, RequestServesWhole
  <2>4. ASSUME NEW t \in Task, SyncBegin(t) \/ SyncStep(t) \/ SyncAborts(t)
        PROVE  AllWhole'
    <3>1. UNCHANGED <<reply, admin>>
      BY <2>4 DEF SyncBegin, SyncStep, SyncAborts, MetaStat, MetaPlan, MetaAmbiguous, MetaCommit,
         DownloadCheck, DownloadEnd, SyncMarkList, SyncMarkRead, SyncMarkCommit, CleanList,
         CleanUnlink, CleanRead, CleanUncache, CleanEnd
    <3>2. (\A p \in Pkg : file[p] # "part")'
      BY <2>1, <2>4 DEF SyncBegin, SyncStep, SyncAborts, MetaStat, MetaPlan, MetaAmbiguous,
         MetaCommit, DownloadCheck, DownloadEnd, SyncMarkList, SyncMarkRead, SyncMarkCommit,
         CleanList, CleanUnlink, CleanRead, CleanUncache, CleanEnd
    <3> QED BY <3>1, <3>2 DEF AllWhole, ServedIsWhole
  <2>5. CASE EvictStep
    <3>1. (\A p \in Pkg : file[p] # "part")'
      BY <2>1, <2>5 DEF EvictStep, EvictRead, EvictUnlink, EvictBreaks, EvictCommit
    <3> QED BY <2>5, <3>1 DEF EvictStep, EvictRead, EvictUnlink, EvictBreaks, EvictCommit,
             AllWhole, ServedIsWhole
  <2>6. CASE AdminStep
    <3>1. CASE \E i \in Id : Delete(i)
      <4>1. (\A p \in Pkg : file[p] # "part")'
        BY <2>1, <3>1 DEF Delete
      <4>2. admin'.pc = "deleting"
        BY <3>1 DEF Delete, AdminTakes
      <4> QED BY <3>1, <4>1, <4>2 DEF Delete, AllWhole, ServedIsWhole
    <3>2. CASE DeleteCommit \/ RedownloadCommit
      <4>1. admin' = AdminIdle /\ UNCHANGED <<file, reply>>
        BY <3>2 DEF DeleteCommit, RedownloadCommit
      <4> QED BY <4>1 DEF AdminIdle, AllWhole, ServedIsWhole
    <3> QED BY <2>6, <3>1, <3>2 DEF AdminStep, Redownload, RedownloadOpen, RedownloadFails,
             RedownloadWritten, AllWhole
  <2>7. CASE RepairStep
    BY <2>7 DEF RepairStep, RepairBegin, RepairFile, RepairEnd, AllWhole, ServedIsWhole
  <2> QED BY <2>2, <2>3, <2>4, <2>5, <2>6, <2>7 DEF Next
<1> QED BY <1>1, <1>2, Invariance, PTL DEF Spec

(* As long as nobody redownloads, no client receives a truncated package,  *)
(* whatever fails, is evicted, deleted or synchronised meanwhile.          *)
THEOREM NothingTruncated ==
    ASSUME "redownload" \notin Activity
    PROVE  Spec => []ServedIsWhole
<1>1. AllWhole => ServedIsWhole
  BY DEF AllWhole
<1> QED BY <1>1, WholeInvariance, PTL

-----------------------------------------------------------------------------
(* PackageCache implements PackageStore.                                   *)

\* Between its requests a client asks for nothing.
IdleAsksNothing == \A r \in Request : req[r].pc = "idle" => req[r].pkg = NoPkg

\* What the refinement needs of a state.
Servable == TInv /\ IdleAsksNothing /\ AllWhole

LEMMA IdleInvariance == Spec => []IdleAsksNothing
<1>1. Init => IdleAsksNothing
  BY DEF Init, IdleAsksNothing, ReqIdle
<1>2. TInv /\ IdleAsksNothing /\ [Next]_vars => IdleAsksNothing'
  <2> SUFFICES ASSUME TInv, IdleAsksNothing, [Next]_vars PROVE IdleAsksNothing'
    OBVIOUS
  <2>1. req \in [Request -> ReqRec] /\ ReqIdle.pkg = NoPkg
    BY DEF TInv, TypeOK, ReqIdle
  <2>2. CASE req' = req
    BY <2>2 DEF IdleAsksNothing
  <2>3. ASSUME NEW r \in Request, NEW content, Answer(r, content) PROVE IdleAsksNothing'
    BY <2>1, <2>3 DEF Answer, IdleAsksNothing
  <2>4. ASSUME NEW r \in Request, NEW p \in Pkg, Lookup(r, p) PROVE IdleAsksNothing'
    BY <2>1, <2>3, <2>4 DEF Lookup, IdleAsksNothing, ReqIdle
  <2>5. ASSUME NEW r \in Request, RequestStep(r) PROVE IdleAsksNothing'
    <3>1. CASE PullPlaced(r)
      BY <2>1, <3>1 DEF PullPlaced, ReqGoto, IdleAsksNothing, ReqRec
    <3>2. CASE MarkRead(r)
      BY <2>1, <2>3, <3>2 DEF MarkRead, ReqGoto, IdleAsksNothing, ReqRec
    <3> QED BY <2>3, <2>5, <3>1, <3>2 DEF RequestStep, HitAnswer, PullRefused, PullFails,
             MarkCommit, MarkCreate, MarkSwallowed
  <2>6. ASSUME NEW t \in Task, SyncBegin(t) \/ SyncStep(t) \/ SyncAborts(t) PROVE req' = req
    BY <2>6 DEF SyncBegin, SyncStep, SyncAborts, MetaStat, MetaPlan, MetaAmbiguous, MetaCommit,
       DownloadCheck, DownloadEnd, SyncMarkList, SyncMarkRead, SyncMarkCommit, CleanList,
       CleanUnlink, CleanRead, CleanUncache, CleanEnd
  <2>7. EvictStep \/ AdminStep \/ RepairStep => req' = req
    BY DEF EvictStep, EvictRead, EvictUnlink, EvictBreaks, EvictCommit, AdminStep, Delete,
       Redownload, DeleteCommit, RedownloadOpen, RedownloadFails, RedownloadWritten,
       RedownloadCommit, RepairStep, RepairBegin, RepairFile, RepairEnd
  <2> QED BY <2>2, <2>4, <2>5, <2>6, <2>7 DEF Next, vars
<1> QED BY <1>1, <1>2, Invariance, PTL DEF Spec

StoreBar == <<OnDisk(Pkg), [r \in Request |-> req[r].pkg],
              {r \in Request : req[r].pc = "pulling"}, reply>>

(* Whoever else places or removes a file. *)
LEMMA FileStep ==
    ASSUME Servable, UNCHANGED <<req, reply>>,
           \/ file' = file
           \/ \E p \in Pkg, x \in {"none", "full"} : file' = [file EXCEPT ![p] = x]
    PROVE  [Store!Next]_StoreBar
<1>1. file \in [Pkg -> {"none", "part", "full"}]
  BY DEF Servable, TInv, TypeOK
<1>2. CASE file' = file
  BY <1>2 DEF StoreBar, OnDisk
<1>3. ASSUME NEW p \in Pkg, NEW x \in {"none", "full"}, file' = [file EXCEPT ![p] = x]
      PROVE  [Store!Next]_StoreBar
  <2>1. OnDisk(Pkg)' \in {OnDisk(Pkg) \cup {p}, OnDisk(Pkg) \ {p}}
    <3>1. CASE x = "none"
      <4>1. OnDisk(Pkg)' = OnDisk(Pkg) \ {p}
        BY <1>1, <1>3, <3>1 DEF OnDisk
      <4> QED BY <4>1
    <3>2. CASE x = "full"
      <4>1. OnDisk(Pkg)' = OnDisk(Pkg) \cup {p}
        BY <1>1, <1>3, <3>2 DEF OnDisk
      <4> QED BY <4>1
    <3> QED BY <3>1, <3>2
  <2>2. Store!ComesOrGoes(p)
    BY <2>1 DEF Store!ComesOrGoes
  <2> QED BY <2>2 DEF Store!Next
<1> QED BY <1>2, <1>3

(* An answer that ends a request. *)
LEMMA AnswerStep ==
    ASSUME Servable, NEW r \in Request, req[r].pc # "idle", UNCHANGED file,
           NEW content \in {"none", "full"}, Answer(r, content),
           content = "full" => req[r].pc # "pulling" /\ file[req[r].pkg] # "none",
           content = "none" => req[r].pc = "pulling" \/ file[req[r].pkg] = "none"
    PROVE  [Store!Next]_StoreBar
<1>1. /\ req \in [Request -> ReqRec] /\ req[r].pkg \in Pkg /\ req[r].pkg # NoPkg
      /\ reply \in [Request -> {"none", "404", "part", "full"}]
  BY NameType DEF Servable, TInv, TypeOK, ServingPkg
<1>2. /\ req' = [req EXCEPT ![r] = ReqIdle] /\ ReqIdle.pkg = NoPkg /\ ReqIdle.pc = "idle"
      /\ reply' = [reply EXCEPT ![r] = IF content = "none" THEN "404" ELSE content]
  BY DEF Answer, ReqIdle
<1> DEFINE want == [x \in Request |-> req[x].pkg]
           missed == {x \in Request : req[x].pc = "pulling"}
<1>3. want' = [want EXCEPT ![r] = NoPkg]
  BY <1>1, <1>2
<1>4. missed' = missed \ {r}
  BY <1>1, <1>2
<1>5. OnDisk(Pkg)' = OnDisk(Pkg) /\ want[r] = req[r].pkg
        /\ (req[r].pkg \in OnDisk(Pkg) <=> file[req[r].pkg] # "none")
        /\ (r \in missed <=> req[r].pc = "pulling")
  BY <1>1 DEF OnDisk
<1>6. CASE content = "full"
  <2>1. Store!Tell(r, "full")
    BY <1>1, <1>2, <1>3, <1>4, <1>5, <1>6 DEF Store!Tell
  <2>2. Store!Serve(r)
    BY <1>5, <1>6, <2>1 DEF Store!Serve
  <2> QED BY <2>2 DEF Store!Next
<1>7. CASE content = "none"
  <2>1. Store!Tell(r, "404")
    BY <1>1, <1>2, <1>3, <1>4, <1>5, <1>7 DEF Store!Tell
  <2>2. Store!Miss(r)
    BY <1>5, <1>7, <2>1 DEF Store!Miss
  <2> QED BY <2>2 DEF Store!Next
<1> QED BY <1>6, <1>7

(* A request that is between its question and its answer. *)
LEMMA ServedStep ==
    ASSUME Servable, NEW r \in Request, RequestStep(r)
    PROVE  [Store!Next]_StoreBar
<1>1. /\ req \in [Request -> ReqRec] /\ file \in [Pkg -> {"none", "part", "full"}]
      /\ req[r].pc # "idle" => req[r].pkg \in Pkg /\ req[r].pkg # NoPkg
      /\ \A p \in Pkg : file[p] # "part"
      /\ reply \in [Request -> {"none", "404", "part", "full"}]
  BY NameType DEF Servable, TInv, TypeOK, ServingPkg, AllWhole
<1>2. ASSUME req[r].pc \notin {"idle", "pulling"}, UNCHANGED file,
             Answer(r, file[req[r].pkg])
      PROVE  [Store!Next]_StoreBar
  BY <1>1, <1>2, AnswerStep
<1>3. CASE HitAnswer(r) \/ MarkCommit(r) \/ MarkCreate(r) \/ MarkSwallowed(r)
  BY <1>2, <1>3 DEF HitAnswer, MarkCommit, MarkCreate, MarkSwallowed
<1>4. CASE PullRefused(r)
  BY <1>1, <1>4, AnswerStep DEF PullRefused
<1>5. ASSUME req[r].pc = "placed", UNCHANGED <<file, reply>>,
             NEW x \in ReqRec, req' = [req EXCEPT ![r] = x], x.pkg = req[r].pkg,
             x.pc \in {"creating", "marking"}
      PROVE  [Store!Next]_StoreBar
  <2>1. \A y \in Request : /\ req'[y].pkg = req[y].pkg
                           /\ (req'[y].pc = "pulling" <=> req[y].pc = "pulling")
    BY <1>1, <1>5
  <2>2. [y \in Request |-> req'[y].pkg] = [y \in Request |-> req[y].pkg]
    BY <2>1
  <2>3. {y \in Request : req'[y].pc = "pulling"} = {y \in Request : req[y].pc = "pulling"}
    BY <2>1
  <2> QED BY <1>5, <2>2, <2>3 DEF StoreBar, OnDisk
<1>6. CASE MarkRead(r)
  <2>1. CASE ReqGoto(r, "creating") /\ UNCHANGED reply
    <3> DEFINE x == [req[r] EXCEPT !.pc = "creating"]
    <3>1. x \in ReqRec /\ x.pkg = req[r].pkg /\ x.pc = "creating"
      BY <1>1 DEF ReqRec, ReqPc
    <3>2. req' = [req EXCEPT ![r] = x]
      BY <1>1, <2>1 DEF ReqGoto
    <3> HIDE DEF x
    <3> QED BY <1>5, <1>6, <2>1, <3>1, <3>2 DEF MarkRead
  <2>2. ASSUME NEW i \in ByPath(req[r].pkg), UNCHANGED reply,
               req' = [req EXCEPT ![r].pc = "marking", ![r].row = i,
                                  ![r].seen = rows[i].cached]
        PROVE  [Store!Next]_StoreBar
    <3> DEFINE x == [req[r] EXCEPT !.pc = "marking", !.row = i, !.seen = rows[i].cached]
    <3>1. rows[i] \in Row /\ i \in Nat
      BY DEF ByPath, Id, Servable, TInv, TypeOK
    <3>2. x \in ReqRec /\ x.pkg = req[r].pkg /\ x.pc = "marking"
      BY <1>1, <3>1 DEF ReqRec, ReqPc, Row
    <3>3. req' = [req EXCEPT ![r] = x]
      BY <1>1, <2>2
    <3> HIDE DEF x
    <3> QED BY <1>5, <1>6, <2>2, <3>2, <3>3 DEF MarkRead
  <2>3. CASE Answer(r, file[req[r].pkg])
    BY <1>2, <1>6, <2>3 DEF MarkRead
  <2> QED BY <1>6, <2>1, <2>2, <2>3 DEF MarkRead
<1> DEFINE want == [y \in Request |-> req[y].pkg]
           missed == {y \in Request : req[y].pc = "pulling"}
<1>7. CASE PullPlaced(r)
  <2> DEFINE x == [req[r] EXCEPT !.pc = "placed"]
  <2>1. x.pkg = req[r].pkg /\ x.pc = "placed"
    BY <1>1 DEF ReqRec
  <2>2. req' = [req EXCEPT ![r] = x] /\ req[r].pc = "pulling" /\ UNCHANGED reply
    BY <1>1, <1>7 DEF PullPlaced, ReqGoto
  <2> HIDE DEF x
  <2>3. want' = want
    BY <1>1, <2>1, <2>2
  <2>4. missed' = missed \ {r} /\ r \in missed
    BY <1>1, <2>1, <2>2
  <2>5. OnDisk(Pkg)' = OnDisk(Pkg) \cup {want[r]}
    BY <1>1, <1>7, <2>2 DEF PullPlaced, OnDisk
  <2>6. Store!Fetched(r)
    BY <2>2, <2>3, <2>4, <2>5 DEF Store!Fetched
  <2> QED BY <2>6 DEF Store!Next
<1>8. CASE PullFails(r)
  <2>1. /\ req[r].pc = "pulling" /\ req[r].pkg \in Pkg /\ req[r].pkg # NoPkg
        /\ file' = [file EXCEPT ![req[r].pkg] = "none"]
        /\ req' = [req EXCEPT ![r] = ReqIdle] /\ ReqIdle.pkg = NoPkg /\ ReqIdle.pc = "idle"
        /\ reply' = [reply EXCEPT ![r] = "404"]
    BY <1>1, <1>8 DEF PullFails, Answer, ReqIdle
  <2>2. want' = [want EXCEPT ![r] = NoPkg] /\ want[r] # NoPkg
    BY <1>1, <2>1
  <2>3. missed' = missed \ {r} /\ r \in missed
    BY <1>1, <2>1
  <2>4. OnDisk(Pkg)' = OnDisk(Pkg) \ {want[r]}
    BY <1>1, <2>1 DEF OnDisk
  <2>5. Store!FetchFails(r)
    BY <2>1, <2>2, <2>3, <2>4 DEF Store!FetchFails, Store!Tell
  <2> QED BY <2>5 DEF Store!Next
<1> QED BY <1>3, <1>4, <1>6, <1>7, <1>8 DEF RequestStep

(* A request arrives. *)
LEMMA AskStep ==
    ASSUME Servable, NEW r \in Request, NEW p \in Pkg, Lookup(r, p)
    PROVE  [Store!Next]_StoreBar
<1>1. /\ req \in [Request -> ReqRec] /\ file[p] # "part"
      /\ file[p] \in {"none", "part", "full"}
      /\ req[r].pc = "idle" /\ req[r].pkg = NoPkg
      /\ reply \in [Request -> {"none", "404", "part", "full"}]
      /\ UNCHANGED file
  BY DEF Servable, TInv, TypeOK, AllWhole, IdleAsksNothing, Lookup
<1> DEFINE want == [y \in Request |-> req[y].pkg]
           missed == {y \in Request : req[y].pc = "pulling"}
<1>2. OnDisk(Pkg)' = OnDisk(Pkg) /\ (p \in OnDisk(Pkg) <=> file[p] # "none")
        /\ want[r] = NoPkg
  BY <1>1 DEF OnDisk
<1>3. ASSUME NEW pc, req' = [req EXCEPT ![r] = [ReqIdle EXCEPT !.pc = pc, !.pkg = p]],
             UNCHANGED reply, IF file[p] # "none" THEN pc = "hit" ELSE pc = "pulling"
      PROVE  [Store!Next]_StoreBar
  <2> DEFINE x == [ReqIdle EXCEPT !.pc = pc, !.pkg = p]
  <2>1. x.pc = pc /\ x.pkg = p
    BY DEF ReqIdle
  <2>2. req' = [req EXCEPT ![r] = x]
    BY <1>3
  <2> HIDE DEF x
  <2>3. want' = [want EXCEPT ![r] = p]
    BY <1>1, <2>1, <2>2
  <2>4. missed' = IF p \in OnDisk(Pkg) THEN missed ELSE missed \cup {r}
    BY <1>1, <1>2, <1>3, <2>1, <2>2
  <2>5. Store!Ask(r, p)
    BY <1>2, <1>3, <2>3, <2>4 DEF Store!Ask
  <2> QED BY <2>5 DEF Store!Next
<1>4. ASSUME Answer(r, "none"), file[p] = "none" PROVE [Store!Next]_StoreBar
  <2>1. /\ req' = [req EXCEPT ![r] = ReqIdle] /\ ReqIdle.pkg = NoPkg /\ ReqIdle.pc = "idle"
        /\ reply' = [reply EXCEPT ![r] = "404"]
    BY <1>4 DEF Answer, ReqIdle
  <2>2. want' = want
    BY <1>1, <2>1
  <2>3. missed' = missed
    BY <1>1, <2>1
  <2>4. Store!Refuse(r, p)
    BY <1>2, <1>4, <2>1, <2>2, <2>3 DEF Store!Refuse
  <2> QED BY <2>4 DEF Store!Next
<1> QED BY <1>1, <1>3, <1>4 DEF Lookup

LEMMA StoreStep ==
    ASSUME Servable, "redownload" \notin Activity, [Next]_vars
    PROVE  [Store!Next]_StoreBar
<1>1. CASE UNCHANGED vars
  BY <1>1, FileStep DEF vars
<1>2. ASSUME NEW t \in Task, SyncBegin(t) \/ SyncStep(t) \/ SyncAborts(t)
      PROVE  [Store!Next]_StoreBar
  <2>1. UNCHANGED <<req, reply>>
    BY <1>2 DEF SyncBegin, SyncStep, SyncAborts, MetaStat, MetaPlan, MetaAmbiguous, MetaCommit,
       DownloadCheck, DownloadEnd, SyncMarkList, SyncMarkRead, SyncMarkCommit, CleanList,
       CleanUnlink, CleanRead, CleanUncache, CleanEnd
  <2>2. \/ file' = file
        \/ \E p \in Pkg, x \in {"none", "full"} : file' = [file EXCEPT ![p] = x]
    BY <1>2 DEF SyncBegin, SyncStep, SyncAborts, MetaStat, MetaPlan, MetaAmbiguous, MetaCommit,
       DownloadCheck, DownloadEnd, SyncMarkList, SyncMarkRead, SyncMarkCommit, CleanList,
       CleanUnlink, CleanRead, CleanUncache, CleanEnd
  <2> QED BY <2>1, <2>2, FileStep
<1>3. CASE EvictStep
  <2>1. ASSUME NEW v \in evict.todo, EvictUnlink(v) PROVE [Store!Next]_StoreBar
    <3>1. v.path \in Pkg
      BY <2>1 DEF EvictUnlink, Servable, TInv, TypeOK
    <3> QED BY <2>1, <3>1, FileStep DEF EvictUnlink
  <2> QED BY <1>3, <2>1, FileStep DEF EvictStep, EvictRead, EvictBreaks, EvictCommit
<1>4. CASE AdminStep
  <2>1. ASSUME NEW i \in Id, Delete(i) PROVE [Store!Next]_StoreBar
    <3>1. rows[i].path \in Pkg
      <4>1. rows[i] \in Row
        BY DEF Servable, TInv, TypeOK, Id
      <4> QED BY <2>1, <4>1 DEF Delete, Row
    <3> QED BY <2>1, <3>1, FileStep DEF Delete
  <2>2. ~RedownloadOpen /\ ~RedownloadFails /\ ~RedownloadWritten
    BY DEF Servable, AllWhole, RedownloadOpen, RedownloadFails, RedownloadWritten
  <2> QED BY <1>4, <2>1, <2>2, FileStep DEF AdminStep, Redownload, DeleteCommit, RedownloadCommit
<1>5. CASE RepairStep
  BY <1>5, FileStep DEF RepairStep, RepairBegin, RepairFile, RepairEnd
<1> QED BY <1>1, <1>2, <1>3, <1>4, <1>5, ServedStep, AskStep DEF Next

(* As long as nobody redownloads, requests are answered as from a store of *)
(* whole packages: with the package only while it is there, with 404 only  *)
(* if it was missing at some moment since the question, however often the  *)
(* file was looked at and whoever placed or removed it in between.         *)
THEOREM StoreRefinement ==
    ASSUME "redownload" \notin Activity
    PROVE  Spec => ImplementsStore
<1>1. Init => Store!Init
  BY DEF Init, Store!Init, OnDisk, ReqIdle
<1>2. Servable /\ [Next]_vars => [Store!Next]_StoreBar
  BY StoreStep
<1> QED BY <1>1, <1>2, Invariance, IdleInvariance, WholeInvariance, PTL
        DEF Spec, ImplementsStore, Store!Spec, Store!store, StoreBar, Servable

-----------------------------------------------------------------------------
(* Keys.  Most steps keep the key of every row and add none of their own.  *)
KeysKept ==
    /\ \A i \in Id : /\ i \in Id' /\ rows'[i].pkg = rows[i].pkg
                     /\ rows'[i].keyed = rows[i].keyed
    /\ \A i \in Id' \ Id : ~ rows'[i].keyed

(* What a task has planned while it holds no lock: one change a package,   *)
(* for packages it is done with, and a row to insert only where there is   *)
(* none.  Only a metadata pass inserts.                                    *)
PlanSound(t) ==
    LET s == sync[t] IN
    /\ s.pc \in {"meta1", "meta2"} =>
         /\ \A c, d \in s.plan : c.pkg = d.pkg => c = d
         /\ \A c \in s.plan : c.pkg \notin s.todo
         /\ s.at # NoPkg => s.at \notin s.todo /\ \A c \in s.plan : c.pkg # s.at
         /\ \A c \in s.plan : c.row = 0 => ByKey(c.pkg) = {}
    /\ s.pc = "marking" => \A c \in s.plan : c.row # 0
    /\ s.pc = "idle" => s.pulling = {}
    /\ s.pc \in {"meta1", "meta2", "marking"} /\ RoundTrip # {} =>
         \A c \in s.plan : c.row # 0 => c.row \in Id /\ rows[c.row].pkg = c.pkg

(* A request that is about to insert a row with a key has looked for it by *)
(* path, which finds every row of its package as long as no path is        *)
(* cleared.                                                                *)
NewToTable(r) ==
    req[r].pc = "creating" /\ req[r].pkg \in RoundTrip => ByKey(req[r].pkg) = {}

PathsKept == RoundTrip # {} => \A i \in Id : rows[i].path = rows[i].pkg

KeyInv == /\ OneRowPerKey /\ PathsKept
          /\ \A t \in Task : PlanSound(t)
          /\ \A r \in Request : NewToTable(r)

LEMMA ByKeyKept ==
    ASSUME KeysKept, NEW p
    PROVE  ByKey(p)' = ByKey(p)
BY DEF KeysKept, ByKey

LEMMA PlanSoundKept ==
    ASSUME KeysKept, NEW t \in Task, PlanSound(t), sync'[t] = sync[t]
    PROVE  PlanSound(t)'
BY ByKeyKept DEF PlanSound, KeysKept

(* A step that keeps the keys, and neither a task nor a request makes.     *)
LEMMA KeyInvKept ==
    ASSUME KeyInv, KeysKept, UNCHANGED <<sync, req>>, PathsKept'
    PROVE  KeyInv'
<1>1. OneRowPerKey'
  BY ByKeyKept DEF KeyInv, OneRowPerKey
<1>2. \A t \in Task : PlanSound(t)'
  BY PlanSoundKept DEF KeyInv
<1>3. \A r \in Request : NewToTable(r)'
  BY ByKeyKept DEF KeyInv, NewToTable
<1> QED BY <1>1, <1>2, <1>3 DEF KeyInv

LEMMA SameRowsKeepKeys ==
    ASSUME rows' = rows
    PROVE  KeysKept
BY DEF KeysKept, Id

LEMMA SetCachedKeepsKeys ==
    ASSUME rows \in Seq(Row), NEW i \in Nat, NEW seen, NEW value \in BOOLEAN,
           rows' = SetCached(i, seen, value)
    PROVE  KeysKept
<1>1. \A j \in Id : rows[j] \in Row
  BY DEF Id
<1>2. CASE rows' = rows
  BY <1>2, SameRowsKeepKeys
<1>3. CASE rows' = [rows EXCEPT ![i].cached = value]
  BY <1>1, <1>3 DEF KeysKept, Id, Row
<1> QED BY <1>2, <1>3 DEF SetCached

LEMMA CreatedKeepsKeys ==
    ASSUME rows \in Seq(Row), NEW x \in Row, ~ x.keyed, rows' = Append(rows, x)
    PROVE  KeysKept
<1>1. /\ Id = 1 .. Len(rows) /\ Id' = 1 .. Len(rows) + 1
      /\ \A i \in 1 .. Len(rows) : rows'[i] = rows[i]
      /\ rows'[Len(rows) + 1] = x
  BY DEF Id
<1>2. \A i \in Id' \ Id : i = Len(rows) + 1
  BY <1>1
<1> QED BY <1>1, <1>2 DEF KeysKept

(* Paths.  Without evictions and repairs, whoever changes a row leaves its *)
(* path that of its package.                                               *)
LEMMA SetCachedKeepsPaths ==
    ASSUME rows \in Seq(Row), NEW i \in Nat, NEW seen, NEW value \in BOOLEAN,
           rows' = SetCached(i, seen, value), \A j \in Id : rows[j].path = rows[j].pkg
    PROVE  \A j \in Id' : rows'[j].path = rows'[j].pkg
<1>1. \A j \in Id : rows[j] \in Row
  BY DEF Id
<1> QED BY <1>1 DEF SetCached, Id, Row

LEMMA FlushKeepsPaths ==
    ASSUME rows \in Seq(Row), NEW plan \in SUBSET Change, IsFiniteSet(plan),
           \A j \in Id : rows[j].path = rows[j].pkg,
           \A c \in plan : c.row # 0 => c.row \in Id /\ rows[c.row].pkg = c.pkg,
           rows' = Flushed(plan)
    PROVE  \A j \in Id' : rows'[j].path = rows'[j].pkg
<1> DEFINE U == [i \in Id |-> Updated(i, plan)]
           I == Inserted(plan)
<1>1. Id = 1 .. Len(rows) /\ Len(rows) \in Nat /\ \A i \in Id : rows[i] \in Row
  BY DEF Id
<1>2. ASSUME NEW i \in Id PROVE U[i].path = U[i].pkg
  <2>1. CASE \E c \in plan : c.row = i
    <3> DEFINE c == CHOOSE c \in plan : c.row = i
    <3>1. c \in plan /\ c.row = i /\ i # 0
      BY <1>1, <2>1
    <3>2. Updated(i, plan) =
           [rows[i] EXCEPT !.path   = IF c.path = c.pkg THEN @ ELSE c.pkg,
                           !.cached = IF c.seen = c.exists THEN @ ELSE c.exists]
      BY <2>1 DEF Updated
    <3> HIDE DEF c
    <3>3. c.pkg = rows[i].pkg /\ rows[i].path = rows[i].pkg
      BY <3>1
    <3> QED BY <1>1, <3>2, <3>3 DEF Row
  <2>2. CASE ~ \E c \in plan : c.row = i
    BY <2>2 DEF Updated
  <2> QED BY <2>1, <2>2
<1>3. /\ I \in Seq(Row)
      /\ \A k \in DOMAIN I : \E c \in plan : I[k] = NewRow(c.pkg, TRUE, c.exists)
  BY InsertedFacts
<1>4. \A k \in 1 .. Len(I) : I[k].path = I[k].pkg
  BY <1>3 DEF NewRow
<1>5. rows' = U \o I
  BY DEF Flushed
<1>6. U = [i \in 1 .. Len(rows) |-> Updated(i, plan)]
  BY <1>1
<1>7. DOMAIN U = 1 .. Len(rows) /\ Len(I) \in Nat
  BY <1>1, <1>3
<1>8. Len(U) = Len(rows)
  BY <1>1, <1>6
<1> HIDE DEF I, U
<1>9. ASSUME NEW k \in 1 .. Len(rows) + Len(I)
      PROVE  (U \o I)[k].path = (U \o I)[k].pkg
  <2>1. (U \o I)[k] = IF k <= Len(rows) THEN U[k] ELSE I[k - Len(rows)]
    BY <1>1, <1>7, <1>8, <1>9
  <2>2. CASE k <= Len(rows)
    BY <1>1, <1>2, <2>1, <2>2
  <2>3. CASE ~(k <= Len(rows))
    <3>1. k - Len(rows) \in 1 .. Len(I)
      BY <1>1, <1>7, <2>3
    <3> QED BY <1>4, <2>1, <2>3, <3>1
  <2> QED BY <2>2, <2>3
<1>10. DOMAIN (U \o I) = 1 .. Len(rows) + Len(I)
  BY <1>1, <1>7, <1>8
<1> QED BY <1>5, <1>9, <1>10 DEF Id

LEMMA PathsStep ==
    ASSUME TInv, KeyInv, Calm, Calm', [Next]_vars
    PROVE  PathsKept'
<1> DEFINE Goal == \A i \in Id' : rows'[i].path = rows'[i].pkg
<1> SUFFICES ASSUME RoundTrip # {} PROVE Goal
  BY DEF PathsKept
<1>1. /\ \A i \in Id : rows[i].path = rows[i].pkg
      /\ evict = EvictIdle /\ repair.pc = "idle" /\ rows \in Seq(Row)
      /\ evict' = EvictIdle /\ repair'.pc = "idle"
  BY DEF KeyInv, PathsKept, Calm, TInv, TypeOK
<1>2. rows' = rows => Goal
  BY <1>1 DEF Id
<1>3. ~EvictStep /\ ~RepairStep
  <2>1. ASSUME EvictRead PROVE FALSE
    <3>1. PICK ids \in (SUBSET {i \in Id : rows[i].cached}) \ {{}} :
            evict' = [evict EXCEPT !.todo = @ \cup
                                   {[row |-> i, path |-> rows[i].path] : i \in ids}]
      BY <2>1 DEF EvictRead
    <3>2. evict'.todo = {[row |-> i, path |-> rows[i].path] : i \in ids}
      BY <1>1, <3>1 DEF EvictIdle
    <3>3. evict'.todo = {} /\ ids # {}
      BY <1>1 DEF EvictIdle
    <3> QED BY <3>2, <3>3
  <2>2. ~RepairBegin
    BY <1>1 DEF RepairBegin
  <2> QED BY <1>1, <2>1, <2>2 DEF EvictStep, EvictUnlink, EvictBreaks, EvictCommit, EvictIdle,
             RepairStep, RepairFile, RepairEnd
<1>4. ASSUME NEW r \in Request, (\E q \in Pkg : Lookup(r, q)) \/ RequestStep(r)
      PROVE  Goal
  <2>2. CASE MarkCommit(r)
    <3>1. req[r].row \in Nat
      BY DEF TInv, TypeOK, ReqRec
    <3> QED BY <1>1, <2>2, <3>1, SetCachedKeepsPaths DEF MarkCommit
  <2>3. CASE MarkCreate(r)
    <3> DEFINE x == NewRow(req[r].pkg, req[r].pkg \in RoundTrip, TRUE)
    <3>1. x.path = x.pkg /\ rows' = Append(rows, x)
      BY <2>3 DEF MarkCreate, NewRow
    <3>2. x \in Row
      BY <2>3, CreatedType DEF TInv, ServingPkg, MarkCreate
    <3> HIDE DEF x
    <3>3. /\ Id = 1 .. Len(rows) /\ Id' = 1 .. Len(rows) + 1
          /\ \A i \in 1 .. Len(rows) : rows'[i] = rows[i]
          /\ rows'[Len(rows) + 1] = x
      BY <1>1, <3>1, <3>2 DEF Id
    <3>4. \A i \in Id' : i \in Id \/ i = Len(rows) + 1
      BY <1>1, <3>3
    <3> QED BY <1>1, <3>1, <3>3, <3>4
  <2>4. CASE ~MarkCommit(r) /\ ~MarkCreate(r)
    <3>1. rows' = rows
      BY <1>4, <2>4 DEF Lookup, RequestStep, HitAnswer, PullRefused, PullFails, PullPlaced,
         MarkRead, MarkSwallowed
    <3> QED BY <1>2, <3>1
  <2> QED BY <2>2, <2>3, <2>4
<1>5. ASSUME NEW t \in Task, SyncBegin(t) \/ SyncStep(t) \/ SyncAborts(t)
      PROVE  Goal
  <2>2. /\ sync[t].plan \in SUBSET Change /\ IsFiniteSet(sync[t].plan)
        /\ \A c \in sync[t].plan : c.row \in Nat
    BY DEF TInv, TypeOK, FinitePlans, SyncRec, Change
  <2>3. CASE MetaCommit(t) \/ SyncMarkCommit(t)
    <3>1. rows' = Flushed(sync[t].plan) /\ sync[t].pc \in {"meta1", "meta2", "marking"}
      BY <2>3 DEF MetaCommit, SyncMarkCommit
    <3>2. \A c \in sync[t].plan : c.row # 0 => c.row \in Id /\ rows[c.row].pkg = c.pkg
      BY <3>1 DEF KeyInv, PlanSound
    <3> QED BY <1>1, <2>2, <3>1, <3>2, FlushKeepsPaths
  <2>4. CASE CleanUncache(t)
    BY <1>1, <1>2, <2>2, <2>4, SetCachedKeepsPaths DEF CleanUncache
  <2>5. CASE rows' = rows
    BY <1>2, <2>5
  <2> QED BY <1>5, <2>3, <2>4, <2>5 DEF SyncBegin, SyncStep, SyncAborts, MetaStat, MetaPlan,
             MetaAmbiguous, DownloadCheck, DownloadEnd, SyncMarkList, SyncMarkRead, CleanList,
             CleanUnlink, CleanRead, CleanEnd
<1>6. CASE AdminStep
  <2>2. CASE DeleteCommit \/ RedownloadCommit
    <3>1. admin.row \in Nat
      BY DEF TInv, TypeOK, AdminRec
    <3> QED BY <1>1, <2>2, <3>1, SetCachedKeepsPaths DEF DeleteCommit, RedownloadCommit
  <2>3. CASE rows' = rows
    BY <1>2, <2>3
  <2> QED BY <1>6, <2>2, <2>3 DEF AdminStep, Delete, Redownload, RedownloadOpen,
             RedownloadFails, RedownloadWritten
<1>7. CASE UNCHANGED vars
  BY <1>1, <1>2, <1>7 DEF vars
<1> QED BY <1>1, <1>3, <1>4, <1>5, <1>6, <1>7 DEF Next

(* The one row that may carry a key is that of a package without one.      *)
LEMMA CreatedIsUnique ==
    ASSUME rows \in Seq(Row), OneRowPerKey, NEW x \in Row,
           x.keyed => ByKey(x.pkg) = {}, rows' = Append(rows, x)
    PROVE  OneRowPerKey'
<1>1. /\ Id = 1 .. Len(rows) /\ Id' = 1 .. Len(rows) + 1 /\ Len(rows) \in Nat
      /\ \A i \in 1 .. Len(rows) : rows'[i] = rows[i]
      /\ rows'[Len(rows) + 1] = x
  BY DEF Id
<1>2. \A i \in Id' : i \in Id \/ i = Len(rows) + 1
  BY <1>1
<1>3. ASSUME NEW p \in Pkg, NEW i \in ByKey(p)', NEW j \in ByKey(p)' PROVE i = j
  <2>1. \A k \in ByKey(p)' : k \in ByKey(p) \/ (k = Len(rows) + 1 /\ x.keyed /\ x.pkg = p)
    BY <1>1, <1>2 DEF ByKey
  <2>2. \A k, l \in ByKey(p) : k = l
    BY DEF OneRowPerKey
  <2> QED BY <1>3, <2>1, <2>2
<1> QED BY <1>3 DEF OneRowPerKey

(* The steps of a request, while no other is under way and no task.        *)
LEMMA RequestKeepsKeys ==
    ASSUME TInv, KeyInv, PathsKept', TakeTurns, NEW r \in Request,
           (\E q \in Pkg : Lookup(r, q)) \/ RequestStep(r)
    PROVE  KeyInv'
<1>1. UNCHANGED sync
  BY DEF Lookup, RequestStep, HitAnswer, PullRefused, PullFails, PullPlaced, MarkRead,
         MarkCommit, MarkCreate, MarkSwallowed
<1>2. /\ rows \in Seq(Row) /\ req \in [Request -> ReqRec] /\ req[r] \in ReqRec
      /\ req[r].row \in Nat
  BY DEF TInv, TypeOK, ReqRec
<1>3. /\ \A s \in Request : s # r => req'[s] = req[s]
      /\ req'[r].pc = "creating" => MarkRead(r)
  <2>1. ASSUME NEW c, Answer(r, c) PROVE req'[r].pc = "idle"
    BY <1>2, <2>1 DEF Answer, ReqIdle
  <2>2. \A q \in Pkg : Lookup(r, q) => req'[r].pc # "creating"
    BY <1>2, <2>1 DEF Lookup, ReqIdle
  <2>3. PullPlaced(r) => req'[r].pc # "creating"
    BY <1>2 DEF PullPlaced, ReqGoto, ReqRec
  <2>4. \A s \in Request : s # r => req'[s] = req[s]
    BY <1>2 DEF Lookup, RequestStep, HitAnswer, PullRefused, PullFails, PullPlaced, MarkRead,
       MarkCommit, MarkCreate, MarkSwallowed, Answer, ReqGoto
  <2> QED BY <2>1, <2>2, <2>3, <2>4 DEF RequestStep, HitAnswer, PullRefused, PullFails,
             MarkCommit, MarkCreate, MarkSwallowed
<1>4. CASE MarkCreate(r)
  <2> DEFINE x == NewRow(req[r].pkg, req[r].pkg \in RoundTrip, TRUE)
  <2>1. x \in Row
    BY <1>4, CreatedType DEF TInv, ServingPkg, MarkCreate
  <2>2. x.keyed => ByKey(x.pkg) = {}
    BY <1>4 DEF KeyInv, NewToTable, MarkCreate, NewRow
  <2>3. rows' = Append(rows, x)
    BY <1>4 DEF MarkCreate
  <2> HIDE DEF x
  <2>4. OneRowPerKey'
    BY <1>2, <2>1, <2>2, <2>3, CreatedIsUnique DEF KeyInv
  <2>5. /\ \A t \in Task : sync[t].pc = "idle"
        /\ \A s \in Request : s # r => req[s].pc = "idle"
    BY <1>4 DEF TakeTurns, MarkCreate
  <2>6. \A t \in Task : PlanSound(t)'
    BY <1>1, <2>5 DEF KeyInv, PlanSound
  <2>7. ~MarkRead(r)
    BY <1>4 DEF MarkRead, MarkCreate
  <2>8. \A s \in Request : NewToTable(s)'
    BY <1>3, <2>5, <2>7 DEF NewToTable
  <2> QED BY <2>4, <2>6, <2>8 DEF KeyInv
<1>5. CASE ~MarkCreate(r)
  <2>1. KeysKept
    <3>1. CASE MarkCommit(r)
      BY <1>2, <3>1, SetCachedKeepsKeys DEF MarkCommit
    <3>2. CASE rows' = rows
      BY <3>2, SameRowsKeepKeys
    <3> QED BY <1>5, <3>1, <3>2 DEF Lookup, RequestStep, HitAnswer, PullRefused, PullFails,
               PullPlaced, MarkRead, MarkSwallowed
  <2>2. OneRowPerKey'
    BY <2>1, ByKeyKept DEF KeyInv, OneRowPerKey
  <2>3. \A t \in Task : PlanSound(t)'
    BY <1>1, <2>1, PlanSoundKept DEF KeyInv
  <2>4. \A s \in Request : s # r => NewToTable(s)'
    BY <1>3, <2>1, ByKeyKept DEF KeyInv, NewToTable
  <2>5. NewToTable(r)'
    <3> SUFFICES ASSUME req'[r].pc = "creating", req'[r].pkg \in RoundTrip,
                        NEW p, p = req'[r].pkg
                 PROVE  ByKey(p)' = {}
      BY DEF NewToTable, ByKey
    <3>1. MarkRead(r) /\ req'[r].pkg = req[r].pkg /\ ByPath(req[r].pkg) = {}
      <4>1. MarkRead(r)
        BY <1>3
      <4>2. ASSUME NEW i, req' = [req EXCEPT ![r].pc = "marking", ![r].row = i,
                                             ![r].seen = rows[i].cached]
            PROVE  FALSE
        BY <1>2, <4>2 DEF ReqRec
      <4>3. ASSUME NEW c, Answer(r, c) PROVE FALSE
        BY <1>2, <4>3 DEF Answer, ReqIdle
      <4>4. ByPath(req[r].pkg) = {} /\ ReqGoto(r, "creating")
        BY <4>1, <4>2, <4>3 DEF MarkRead
      <4> QED BY <1>2, <4>1, <4>4 DEF ReqGoto, ReqRec
    <3>2. ByKey(req[r].pkg) = {}
      BY <3>1 DEF KeyInv, PathsKept, ByPath, ByKey
    <3> QED BY <2>1, <3>1, <3>2, ByKeyKept
  <2> QED BY <2>2, <2>3, <2>4, <2>5 DEF KeyInv
<1> QED BY <1>4, <1>5

LEMMA EvictKeepsKeys ==
    ASSUME TInv, EvictStep
    PROVE  KeysKept /\ UNCHANGED <<sync, req>>
<1>1. UNCHANGED <<sync, req>>
  BY DEF EvictStep, EvictRead, EvictUnlink, EvictBreaks, EvictCommit
<1>2. CASE EvictCommit
  <2>1. \A i \in Id : rows[i] \in Row
    BY DEF TInv, TypeOK, Id
  <2> QED BY <1>1, <1>2, <2>1 DEF EvictCommit, KeysKept, Id, Row
<1>3. CASE rows' = rows
  BY <1>1, <1>3, SameRowsKeepKeys
<1> QED BY <1>1, <1>2, <1>3 DEF EvictStep, EvictRead, EvictUnlink, EvictBreaks

LEMMA AdminKeepsKeys ==
    ASSUME TInv, AdminStep
    PROVE  KeysKept /\ UNCHANGED <<sync, req>>
<1>1. UNCHANGED <<sync, req>>
  BY DEF AdminStep, Delete, Redownload, DeleteCommit, RedownloadOpen, RedownloadFails,
         RedownloadWritten, RedownloadCommit
<1>2. CASE DeleteCommit \/ RedownloadCommit
  <2>1. rows \in Seq(Row) /\ admin.row \in Nat
    BY DEF TInv, TypeOK, AdminRec
  <2> QED BY <1>1, <1>2, <2>1, SetCachedKeepsKeys DEF DeleteCommit, RedownloadCommit
<1>3. CASE rows' = rows
  BY <1>1, <1>3, SameRowsKeepKeys
<1> QED BY <1>1, <1>2, <1>3 DEF AdminStep, Delete, Redownload, RedownloadOpen,
         RedownloadFails, RedownloadWritten

LEMMA RepairKeepsKeys ==
    ASSUME TInv, RoundTrip = {}, RepairStep
    PROVE  KeysKept /\ UNCHANGED <<sync, req>>
<1>1. UNCHANGED <<sync, req>>
  BY DEF RepairStep, RepairBegin, RepairFile, RepairEnd
<1>2. CASE rows' = rows
  BY <1>1, <1>2, SameRowsKeepKeys
<1>3. ASSUME NEW p \in Pkg, RepairFile(p) PROVE KeysKept
  <2> DEFINE x == NewRow(p, p \in RoundTrip, TRUE)
  <2>1. x \in Row /\ ~ x.keyed
    BY CreatedType DEF NewRow
  <2>2. rows' = Append(rows, x) \/ rows' = rows
    BY <1>3 DEF RepairFile
  <2> HIDE DEF x
  <2>3. rows \in Seq(Row)
    BY DEF TInv, TypeOK
  <2> QED BY <1>2, <2>1, <2>2, <2>3, CreatedKeepsKeys
<1> QED BY <1>1, <1>2, <1>3 DEF RepairStep, RepairBegin, RepairEnd

(* The rows a metadata pass writes: those there were, with their keys, and *)
(* one for every package that had none.                                    *)
LEMMA FlushKeepsUnique ==
    ASSUME TInv, KeyInv, NEW t \in Task, sync[t].pc \in {"meta1", "meta2"},
           rows' = Flushed(sync[t].plan)
    PROVE  OneRowPerKey'
<1> DEFINE plan == sync[t].plan
           I == Inserted(plan)
           n == Len(rows)
<1>1. plan \in SUBSET Change /\ IsFiniteSet(plan) /\ rows \in Seq(Row)
  BY DEF TInv, TypeOK, FinitePlans, SyncRec
<1>2. /\ \A c, d \in plan : c.pkg = d.pkg => c = d
      /\ \A c \in plan : c.row = 0 => ByKey(c.pkg) = {}
      /\ OneRowPerKey
  BY DEF KeyInv, PlanSound
<1>3. /\ I \in Seq(Row) /\ IsInjective(I)
      /\ \A k \in DOMAIN I : \E c \in plan : c.row = 0 /\ I[k] = NewRow(c.pkg, TRUE, c.exists)
  BY <1>1, InsertedFacts
<1>4. /\ rows' \in Seq(Row) /\ Len(rows') = n + Len(I)
      /\ \A i \in Id : rows'[i].pkg = rows[i].pkg /\ rows'[i].keyed = rows[i].keyed
      /\ \A k \in DOMAIN I : rows'[n + k] = I[k]
  BY <1>1, FlushedFacts
<1>5. n \in Nat /\ Id = 1 .. n /\ Len(I) \in Nat /\ DOMAIN I = 1 .. Len(I)
  BY <1>1, <1>3 DEF Id
<1> HIDE DEF I, n
<1>6. Id' = 1 .. (n + Len(I))
  BY <1>4 DEF Id
<1>7. ASSUME NEW i \in Id' \ Id
      PROVE  /\ i - n \in DOMAIN I
             /\ \E c \in plan : /\ c.row = 0
                                /\ rows'[i] = NewRow(c.pkg, TRUE, c.exists)
                                /\ rows'[i] = I[i - n]
  <2>1. i - n \in 1 .. Len(I) /\ i = n + (i - n)
    BY <1>5, <1>6
  <2>2. rows'[i] = I[i - n]
    BY <1>4, <1>5, <2>1
  <2> QED BY <1>3, <1>5, <2>1, <2>2
<1>8. ASSUME NEW p \in Pkg, NEW i \in ByKey(p)', NEW j \in ByKey(p)' PROVE i = j
  <2>1. i \in Id' /\ j \in Id' /\ rows'[i].pkg = p /\ rows'[j].pkg = p
    BY DEF ByKey
  <2>2. \A k \in ByKey(p)' : k \in Id => k \in ByKey(p)
    BY <1>4 DEF ByKey
  <2>3. \A k \in ByKey(p)' : k \notin Id => ByKey(p) = {}
    <3> SUFFICES ASSUME NEW k \in ByKey(p)', k \notin Id PROVE ByKey(p) = {}
      OBVIOUS
    <3>1. PICK c \in plan : c.row = 0 /\ rows'[k] = NewRow(c.pkg, TRUE, c.exists)
      BY <1>7 DEF ByKey
    <3>2. c.pkg = p
      BY <3>1 DEF ByKey, NewRow
    <3> QED BY <1>2, <3>1, <3>2
  <2>4. CASE i \in Id \/ j \in Id
    BY <1>2, <2>2, <2>3, <2>4 DEF OneRowPerKey
  <2>5. CASE i \notin Id /\ j \notin Id
    <3>1. PICK c \in plan : /\ rows'[i] = NewRow(c.pkg, TRUE, c.exists)
                            /\ rows'[i] = I[i - n]
      BY <1>7, <2>1, <2>5
    <3>2. PICK d \in plan : /\ rows'[j] = NewRow(d.pkg, TRUE, d.exists)
                            /\ rows'[j] = I[j - n]
      BY <1>7, <2>1, <2>5
    <3>3. c.pkg = p /\ d.pkg = p
      BY <2>1, <3>1, <3>2 DEF NewRow
    <3>4. I[i - n] = I[j - n]
      BY <1>2, <3>1, <3>2, <3>3
    <3>5. i - n = j - n
      BY <1>3, <1>7, <2>1, <2>5, <3>4 DEF IsInjective
    <3> QED BY <1>5, <1>6, <2>1, <3>5
  <2> QED BY <2>4, <2>5
<1> QED BY <1>8 DEF OneRowPerKey

LEMMA FlushOfMarksKeepsKeys ==
    ASSUME TInv, KeyInv, NEW t \in Task, sync[t].pc = "marking",
           rows' = Flushed(sync[t].plan)
    PROVE  KeysKept
<1> DEFINE plan == sync[t].plan
           I == Inserted(plan)
<1>1. plan \in SUBSET Change /\ IsFiniteSet(plan) /\ rows \in Seq(Row)
  BY DEF TInv, TypeOK, FinitePlans, SyncRec
<1>2. \A c \in plan : c.row # 0
  BY DEF KeyInv, PlanSound
<1>3. I \in Seq(Row) /\ DOMAIN I = {}
  BY <1>1, <1>2, InsertedFacts
<1>4. /\ rows' \in Seq(Row) /\ Len(rows') = Len(rows) + Len(I)
      /\ \A i \in Id : rows'[i].pkg = rows[i].pkg /\ rows'[i].keyed = rows[i].keyed
  BY <1>1, FlushedFacts
<1> HIDE DEF I
<1>5. Len(I) = 0
  BY <1>3
<1>6. Id' = Id
  BY <1>1, <1>4, <1>5 DEF Id
<1> QED BY <1>4, <1>6 DEF KeysKept

(* The steps of a task, while no other is under way and no request: what   *)
(* they make of its plan.                                                  *)
LEMMA SyncKeepsKeys ==
    ASSUME TInv, KeyInv, PathsKept', TakeTurns, TakeTurns', NEW t \in Task,
           SyncBegin(t) \/ SyncStep(t) \/ SyncAborts(t)
    PROVE  KeyInv'
<1>1. /\ sync \in [Task -> SyncRec] /\ sync[t] \in SyncRec /\ rows \in Seq(Row)
      /\ OneRowPerKey /\ PlanSound(t)
  BY DEF TInv, TypeOK, KeyInv
<1>2. ASSUME OneRowPerKey', PlanSound(t)' PROVE KeyInv'
  <2>1. UNCHANGED req /\ \E s : sync' = [sync EXCEPT ![t] = s]
    BY DEF SyncBegin, SyncStep, SyncAborts, MetaStat, MetaPlan, MetaAmbiguous, MetaCommit,
       DownloadCheck, DownloadEnd, SyncMarkList, SyncMarkRead, SyncMarkCommit, CleanList,
       CleanUnlink, CleanRead, CleanUncache, CleanEnd, SyncStage, Plan, Uncached
  <2>2. sync[t].pc # "idle" \/ sync'[t].pc # "idle"
    <3>1. CASE SyncBegin(t)
      BY <1>1, <3>1 DEF SyncBegin, SyncStage, SyncIdle
    <3>2. CASE SyncAborts(t)
      BY <3>2 DEF SyncAborts
    <3>3. CASE SyncStep(t) /\ \A p \in Pkg : ~DownloadEnd(t, p)
      BY <3>3 DEF SyncStep, MetaStat, MetaPlan, MetaAmbiguous, MetaCommit, InMeta, In,
         DownloadCheck, SyncMarkList, SyncMarkRead, SyncMarkCommit, CleanList,
         CleanUnlink, CleanRead, CleanUncache, CleanEnd
    <3>4. ASSUME NEW p \in Pkg, DownloadEnd(t, p) PROVE sync[t].pc # "idle"
      BY <3>4 DEF KeyInv, PlanSound, DownloadEnd
    <3> QED BY <3>1, <3>2, <3>3, <3>4
  <2>3. /\ \A u \in Task : u # t => sync'[u] = sync[u] /\ sync[u].pc = "idle"
        /\ \A r \in Request : req[r].pc = "idle"
    BY <1>1, <2>1, <2>2 DEF TakeTurns, OneAtATime
  <2>4. \A u \in Task : PlanSound(u)'
    BY <1>2, <2>3 DEF KeyInv, PlanSound
  <2>5. \A r \in Request : NewToTable(r)'
    BY <2>1, <2>3 DEF NewToTable
  <2> QED BY <1>2, <2>4, <2>5 DEF KeyInv
<1>3. ASSUME rows' = rows
      PROVE  OneRowPerKey' /\ \A p : ByKey(p)' = ByKey(p)
  BY <1>1, <1>3, SameRowsKeepKeys, ByKeyKept DEF OneRowPerKey
<1>4. ASSUME NEW pc, pc # "marking", NEW T, SyncStage(t, pc, T)
      PROVE  PlanSound(t)'
  <2>1. sync'[t] = [SyncIdle EXCEPT !.pc = pc, !.todo = T]
    BY <1>1, <1>4 DEF SyncStage
  <2>2. /\ sync'[t].pc = pc /\ sync'[t].plan = {} /\ sync'[t].at = NoPkg
        /\ sync'[t].pulling = {}
    BY <2>1 DEF SyncIdle
  <2> QED BY <1>4, <2>2 DEF PlanSound
<1>5. ASSUME sync'[t].pc \notin {"idle", "meta1", "meta2", "marking"}
      PROVE  PlanSound(t)'
  BY <1>5 DEF PlanSound
<1>6. CASE SyncBegin(t) \/ MetaAmbiguous(t) \/ SyncMarkList(t) \/ CleanList(t) \/ CleanEnd(t)
           \/ SyncAborts(t)
  BY <1>2, <1>3, <1>4, <1>6 DEF SyncBegin, MetaAmbiguous, SyncMarkList, CleanList, CleanEnd,
     SyncAborts
<1>7. ASSUME NEW p \in Pkg, MetaStat(t, p) PROVE KeyInv'
  <2>1. /\ sync[t].at = NoPkg /\ p \in sync[t].todo /\ rows' = rows
        /\ sync[t].pc \in {"meta1", "meta2"}
    BY <1>7 DEF MetaStat, In
  <2>2. /\ sync'[t].pc = sync[t].pc /\ sync'[t].plan = sync[t].plan
        /\ sync'[t].todo = sync[t].todo \ {p} /\ sync'[t].at = p
    BY <1>1, <1>7 DEF MetaStat, SyncRec
  <2>3. PlanSound(t)'
    BY <1>1, <1>3, <2>1, <2>2 DEF PlanSound, Id
  <2> QED BY <1>2, <1>3, <2>1, <2>3
<1>8. CASE MetaPlan(t)
  <2> DEFINE p == sync[t].at
  <2>1. /\ sync[t].at # NoPkg /\ sync[t].pc \in {"meta1", "meta2"} /\ rows' = rows
    BY <1>8 DEF MetaPlan, InMeta
  <2>2. PICK c : /\ Plan(t, c) /\ c.pkg = p
                 /\ c.row = 0 => ByKey(p) = {}
                 /\ c.row # 0 => c.row \in ByKey(p)
    <3>1. CASE ByKey(p) = {} /\ Plan(t, NewChange(p, sync[t].there))
      BY <3>1 DEF NewChange
    <3>2. ASSUME NEW i \in ByKey(p), Plan(t, ChangeOf(i, p, sync[t].there))
          PROVE  \E c : /\ Plan(t, c) /\ c.pkg = p
                        /\ c.row = 0 => ByKey(p) = {}
                        /\ c.row # 0 => c.row \in ByKey(p)
      <4>1. i # 0
        BY <1>1 DEF ByKey, Id
      <4> QED BY <3>2, <4>1 DEF ChangeOf
    <3> QED BY <1>8, <3>1, <3>2 DEF MetaPlan
  <2>3. /\ sync'[t].pc = sync[t].pc /\ sync'[t].plan = sync[t].plan \cup {c}
        /\ sync'[t].todo = sync[t].todo /\ sync'[t].at = NoPkg
    BY <1>1, <2>2 DEF Plan, SyncRec
  <2>4. c.row # 0 => c.row \in Id /\ rows[c.row].pkg = c.pkg
    BY <2>2 DEF ByKey
  <2>5. RoundTrip # {} => \A d \in sync'[t].plan :
           d.row # 0 => d.row \in Id' /\ rows'[d.row].pkg = d.pkg
    BY <1>1, <2>1, <2>3, <2>4 DEF PlanSound, Id
  <2>6. /\ \A d, e \in sync'[t].plan : d.pkg = e.pkg => d = e
        /\ \A d \in sync'[t].plan : d.pkg \notin sync'[t].todo
        /\ \A d \in sync'[t].plan : d.row = 0 => ByKey(d.pkg) = {}
    BY <1>1, <2>1, <2>2, <2>3 DEF PlanSound
  <2>7. PlanSound(t)'
    BY <1>3, <2>1, <2>3, <2>5, <2>6 DEF PlanSound
  <2> QED BY <1>2, <1>3, <2>1, <2>7
<1>9. CASE MetaCommit(t)
  <2>1. PlanSound(t)'
    BY <1>4, <1>9 DEF MetaCommit
  <2>2. OneRowPerKey'
    BY <1>9, FlushKeepsUnique DEF MetaCommit, SyncStage
  <2> QED BY <1>2, <2>1, <2>2
<1>10. CASE SyncMarkRead(t)
  <2>1. rows' = rows /\ sync'[t].pc = "marking"
    BY <1>1, <1>10 DEF SyncMarkRead, SyncRec
  <2>2. \A c \in sync'[t].plan :
           c.row # 0 /\ c.row \in Id /\ c.pkg = rows[c.row].path
    <3>1. sync'[t].plan =
            {ChangeOf(i, rows[i].path, TRUE) :
               i \in {i \in Id : rows[i].path \in OnDisk(sync[t].todo)}}
      BY <1>1, <1>10 DEF SyncMarkRead, SyncRec
    <3>2. \A i \in Id : i # 0
      BY <1>1 DEF Id
    <3> QED BY <3>1, <3>2 DEF ChangeOf
  <2>3. RoundTrip # {} => \A c \in sync'[t].plan : rows'[c.row].pkg = c.pkg
    BY <2>1, <2>2 DEF KeyInv, PathsKept
  <2>4. \A c \in sync'[t].plan : c.row # 0 /\ c.row \in Id'
    BY <2>1, <2>2 DEF Id
  <2>5. PlanSound(t)'
    BY <2>1, <2>3, <2>4 DEF PlanSound
  <2> QED BY <1>2, <1>3, <2>1, <2>5
<1>11. CASE SyncMarkCommit(t)
  <2>1. PlanSound(t)'
    BY <1>4, <1>11 DEF SyncMarkCommit
  <2>2. KeysKept
    BY <1>11, FlushOfMarksKeepsKeys DEF SyncMarkCommit
  <2> QED BY <1>1, <1>2, <2>1, <2>2, ByKeyKept DEF OneRowPerKey
<1>12. CASE CleanUncache(t)
  <2>1. sync'[t].pc = "clean"
    BY <1>1, <1>12 DEF CleanUncache, Uncached, SyncRec
  <2>2. \A c \in sync[t].plan : c.row \in Nat
    BY <1>1 DEF SyncRec, Change
  <2>3. KeysKept
    BY <1>1, <1>12, <2>2, SetCachedKeepsKeys, SameRowsKeepKeys DEF CleanUncache
  <2> QED BY <1>1, <1>2, <1>5, <2>1, <2>3, ByKeyKept DEF OneRowPerKey
<1>15. CASE CleanRead(t)
  <2>1. rows' = rows /\ sync'[t].pc \in {"clean", "uncaching"}
    <3>1. rows' = rows
      BY <1>15 DEF CleanRead
    <3>2. ASSUME NEW P, sync' = [sync EXCEPT ![t].pc = "uncaching", ![t].plan = P]
          PROVE  sync'[t].pc = "uncaching"
      BY <1>1, <3>2 DEF SyncRec
    <3>3. CASE sync' = [sync EXCEPT ![t].pc = "clean", ![t].at = NoPkg]
      BY <1>1, <3>1, <3>3 DEF SyncRec
    <3> QED BY <1>15, <3>1, <3>2, <3>3 DEF CleanRead
  <2> QED BY <1>2, <1>3, <1>5, <2>1
<1>13. ASSUME NEW p \in Pkg, DownloadCheck(t, p) \/ CleanUnlink(t, p) PROVE KeyInv'
  <2>1. rows' = rows /\ sync'[t].pc \in {"download", "clean", "uncache"}
    BY <1>1, <1>13 DEF DownloadCheck, CleanUnlink, In, SyncRec
  <2> QED BY <1>2, <1>3, <1>5, <2>1
<1>14. ASSUME NEW p \in Pkg, DownloadEnd(t, p) PROVE KeyInv'
  <2>1. /\ rows' = rows /\ sync'[t].pc = sync[t].pc /\ sync'[t].plan = sync[t].plan
        /\ sync'[t].todo = sync[t].todo /\ sync'[t].at = sync[t].at
    BY <1>1, <1>14 DEF DownloadEnd, SyncRec
  <2>2. sync[t].pc # "idle"
    BY <1>1, <1>14 DEF PlanSound, DownloadEnd
  <2>3. PlanSound(t)'
    BY <1>1, <1>3, <2>1, <2>2 DEF PlanSound, Id
  <2> QED BY <1>2, <1>3, <2>1, <2>3
<1> QED BY <1>6, <1>7, <1>8, <1>9, <1>10, <1>11, <1>12, <1>13, <1>14, <1>15 DEF SyncStep

(* As long as no request and no synchronisation overlaps with another, no  *)
(* package ever gets a second row with the key of the index, whatever      *)
(* fails or aborts and whatever an administrator deletes or downloads      *)
(* again: the lookup of a synchronisation never raises.  This is so while  *)
(* nobody evicts or repairs, and even then if no file name gives a row the *)
(* key of an index.                                                        *)
THEOREM KeysAreUnique == Spec => TurnsKeepKeys
<1>1. Init => KeyInv
  <2>1. Init => /\ Id = {} /\ \A t \in Task : sync[t] = SyncIdle
                /\ \A r \in Request : req[r] = ReqIdle
    BY DEF Init, Id
  <2>2. Init => PathsKept
    BY <2>1 DEF PathsKept
  <2> QED BY <2>1, <2>2 DEF KeyInv, OneRowPerKey, ByKey, PlanSound, NewToTable, SyncIdle, ReqIdle
<1>2. TInv /\ KeyInv /\ TakeTurns /\ TakeTurns' /\ [Next]_vars => KeyInv'
  <2> SUFFICES ASSUME TInv, KeyInv, TakeTurns, TakeTurns', [Next]_vars PROVE KeyInv'
    OBVIOUS
  <2>1. Calm /\ Calm' /\ PathsKept'
    BY PathsStep DEF TakeTurns
  <2>2. CASE UNCHANGED vars
    BY <2>1, <2>2, SameRowsKeepKeys, KeyInvKept DEF vars
  <2>3. CASE \E r \in Request : (\E p \in Pkg : Lookup(r, p)) \/ RequestStep(r)
    BY <2>1, <2>3, RequestKeepsKeys
  <2>4. CASE \E t \in Task : SyncBegin(t) \/ SyncStep(t) \/ SyncAborts(t)
    BY <2>1, <2>4, SyncKeepsKeys
  <2>5. CASE EvictStep
    BY <2>1, <2>5, EvictKeepsKeys, KeyInvKept
  <2>6. CASE AdminStep
    BY <2>1, <2>6, AdminKeepsKeys, KeyInvKept
  <2>7. CASE RepairStep
    <3>1. CASE RoundTrip = {}
      BY <2>1, <2>7, <3>1, RepairKeepsKeys, KeyInvKept
    <3>2. CASE RoundTrip # {}
      <4>1. repair.pc = "idle" /\ repair'.pc = "idle"
        BY <2>1, <3>2 DEF Calm
      <4>2. ~RepairBegin
        BY <4>1 DEF RepairBegin
      <4>3. ~RepairEnd /\ \A p \in Pkg : ~RepairFile(p)
        BY <4>1 DEF RepairEnd, RepairFile
      <4> QED BY <2>7, <4>2, <4>3 DEF RepairStep
    <3> QED BY <3>1, <3>2
  <2> QED BY <2>2, <2>3, <2>4, <2>5, <2>6, <2>7 DEF Next
<1>3. KeyInv => OneRowPerKey
  BY DEF KeyInv
<1>4. Spec => ([]TakeTurns => []OneRowPerKey)
  BY <1>1, <1>2, <1>3, Invariance, PTL DEF Spec
<1> QED BY <1>4 DEF TurnsKeepKeys
=============================================================================
