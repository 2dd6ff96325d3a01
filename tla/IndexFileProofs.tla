--------------------------- MODULE IndexFileProofs ---------------------------
(***************************************************************************)
(* Theorems about IndexFile, for any sources, writers and packages.        *)
(***************************************************************************)
EXTENDS IndexFile, TLAPS

(* What an actor's step may do to the places and the texts of the others.    *)
LEMMA IndexTypes ==
    /\ Empty \in Index /\ Empty.own = {}
    /\ \A ok \in SUBSET Origin : From(ok) \in Index /\ From(ok).own = {}
    /\ None \notin Index
    /\ Writer \cap Package = {}
  BY IndexFileAssumption DEF Index, Empty, From, Origin

(* Opening and closing the file keep the types. *)
LEMMA OpenType ==
    ASSUME TypeOK, NEW a \in Actor, NEW place \in {"writing", "streaming"}, Open(a, place)
    PROVE  /\ file' \in Index \cup {None} /\ whole' \in BOOLEAN /\ accident' \in BOOLEAN
           /\ at' = [at EXCEPT ![a] = place]
           /\ mixed' \subseteq {b \in Actor : Filling(b)'}
  BY DEF TypeOK, Open, Goto, Filling

LEMMA CloseType ==
    ASSUME TypeOK, NEW a \in Actor, NEW place \in Place, Close(a, place)
    PROVE  /\ file' \in Index \cup {None} /\ whole' \in BOOLEAN /\ accident' \in BOOLEAN
           /\ at' = [at EXCEPT ![a] = place]
           /\ mixed' \subseteq {b \in Actor : Filling(b)'}
<1>1. at' = [at EXCEPT ![a] = place] /\ mixed' = mixed \ {a}
  BY DEF Close, Goto
<1>2. file' = text[a] \/ file' = file
  BY DEF Close
<1>3. whole' \in BOOLEAN /\ accident' \in BOOLEAN
  BY DEF TypeOK, Close
<1> QED BY <1>1, <1>2, <1>3 DEF TypeOK, Filling

(* A writer's text comes from some sources, and from no publication.         *)
LEMMA BeginText ==
    ASSUME TypeOK, NEW w \in Writer, Request(w) \/ SyncIndex(w) \/ Aggregate(w)
    PROVE  /\ \E ok \in SUBSET Origin : text' = [text EXCEPT ![w] = From(ok)]
           /\ \E place \in {"fetching", "asked", "ready"} : at' = [at EXCEPT ![w] = place]
           /\ at[w] = "idle"
           /\ UNCHANGED <<enabled, index, packages>>
<1> USE DEF TypeOK, Goto, Gather, Origin
<1>1. CASE Request(w)
  BY <1>1 DEF Request
<1>2. CASE SyncIndex(w)
  BY <1>2 DEF SyncIndex
<1>3. CASE Aggregate(w)
  BY <1>3 DEF Aggregate
<1> QED BY <1>1, <1>2, <1>3

LEMMA FetchedText ==
    ASSUME TypeOK, NEW w \in Writer, Fetched(w)
    PROVE  /\ \E ok \in SUBSET Origin : text' = [text EXCEPT ![w] = From(ok)]
           /\ at[w] = "fetching" /\ at' = [at EXCEPT ![w] = "ready"]
           /\ UNCHANGED <<enabled, index, packages>>
<1>1. text[w].sources \subseteq Origin
  BY DEF TypeOK, Index, Actor
<1> QED BY <1>1 DEF Fetched, Goto

(* Contents, places and texts keep their types. *)
THEOREM Typing == Spec => []TypeOK
<1>1. Init => TypeOK
  BY IndexTypes DEF Init, TypeOK, Place, Actor, Filling
<1>2. TypeOK /\ [Next]_vars => TypeOK'
  <2> SUFFICES ASSUME TypeOK, [Next]_vars PROVE TypeOK'
    OBVIOUS
  <2> USE IndexTypes DEF TypeOK, Place, Actor, index, packages, Whole
  <2>1. ASSUME NEW w \in Writer, Request(w) \/ SyncIndex(w) \/ Aggregate(w) PROVE TypeOK'
    BY <2>1, BeginText DEF Filling
  <2>2. ASSUME NEW w \in Writer, WriterStep(w) PROVE TypeOK'
    <3>1. CASE Stream(w) \/ Write(w)
      <4>1. PICK place \in {"writing", "streaming"} : Open(w, place)
        BY <3>1 DEF Stream, Write
      <4> QED BY <3>1, <4>1, OpenType DEF Stream, Write
    <3>2. CASE StreamEnds(w) \/ Written(w)
      <4>1. Close(w, "idle")
        BY <3>2 DEF StreamEnds, Written
      <4> QED BY <3>2, <4>1, CloseType DEF StreamEnds, Written, Drop
    <3>3. CASE NoAnswer(w) \/ StreamBreaks(w) \/ WriteFails(w)
      <4>1. text' = [text EXCEPT ![w] = Empty] /\ at' = [at EXCEPT ![w] = "idle"]
        BY <3>3 DEF NoAnswer, StreamBreaks, WriteFails, Goto, Drop
      <4>2. UNCHANGED <<enabled, file, whole, packages>> /\ accident' \in BOOLEAN
        BY <3>3 DEF NoAnswer, StreamBreaks, WriteFails
      <4>3. mixed' \subseteq mixed \ {w}
        BY <3>3 DEF NoAnswer, StreamBreaks, WriteFails, Filling
      <4> QED BY <4>1, <4>2, <4>3 DEF Filling
    <3>4. CASE Fetched(w)
      BY <3>4, FetchedText DEF Filling
    <3> QED BY <2>2, <3>1, <3>2, <3>3, <3>4 DEF WriterStep
  <2>3. ASSUME NEW k \in Package, PackOpen(k) \/ PackageStep(k) PROVE TypeOK'
    <3>1. CASE WriteIndex(k)
      <4>1. Open(k, "writing")
        BY <3>1 DEF WriteIndex
      <4> QED BY <3>1, <4>1, OpenType DEF WriteIndex
    <3>2. CASE IndexWritten(k)
      <4>1. Close(k, "listed")
        BY <3>2 DEF IndexWritten
      <4> QED BY <3>2, <4>1, CloseType DEF IndexWritten, Drop
    <3>3. CASE ReadIndex(k)
      <4>1. text' \in [Actor -> Index]
        BY <3>3 DEF ReadIndex, Index
      <4> QED BY <3>3, <4>1 DEF ReadIndex, Goto, Filling
    <3>4. CASE PackOpen(k) \/ PackBuilt(k) \/ PackFails(k)
      BY <3>4 DEF PackOpen, PackBuilt, PackFails, Goto, Filling
    <3>5. CASE CannotRead(k) \/ CommitRows(k) \/ RollBack(k)
      BY <3>5 DEF CannotRead, CommitRows, RollBack, Goto, Filling
    <3>6. CASE WriteFails(k)
      BY <3>6 DEF WriteFails, Goto, Filling, Drop
    <3> QED BY <2>3, <3>1, <3>2, <3>3, <3>4, <3>5, <3>6 DEF PackageStep
  <2>4. CASE SetEnabled
    BY <2>4 DEF SetEnabled, Filling
  <2>5. CASE Crash
    BY <2>5 DEF Crash
  <2>6. ASSUME NEW k \in Package, Remove(k) \/ Refetch(k) \/ Forget(k) PROVE TypeOK'
    BY <2>6 DEF Remove, Refetch, Forget, Filling
  <2>7. CASE UNCHANGED vars
    BY <2>7 DEF vars, Filling
  <2> QED BY <2>1, <2>2, <2>3, <2>4, <2>5, <2>6, <2>7 DEF Next
<1> QED BY <1>1, <1>2, PTL DEF Spec

-----------------------------------------------------------------------------
(* What the index lists has been complete. *)

(* Packages that have been complete: no step makes this set smaller.         *)
Published == Whole \cup lost

(* A publication past its packing. *)
Publishing(k) == at[k] \in {"packed", "read", "writing", "listed"}

(* StoredFirst, also of the texts that are about to be written.              *)
SInv ==
  /\ rows \subseteq Published
  /\ file # None => file.own \subseteq Published
  /\ \A k \in Package : Publishing(k) => k \in Published
  /\ \A a \in Actor : text[a].own \subseteq Published

LEMMA PublishedGrows ==
    ASSUME TypeOK, [Next]_vars
    PROVE  Published \subseteq Published'
<1> USE DEF TypeOK, Published, Whole, packages
<1>1. ASSUME NEW w \in Writer, Request(w) \/ SyncIndex(w) \/ Aggregate(w)
      PROVE  UNCHANGED packages
  BY <1>1 DEF Request, SyncIndex, Aggregate
<1>2. ASSUME NEW w \in Writer, WriterStep(w) PROVE UNCHANGED packages
  BY <1>2 DEF WriterStep, Stream, NoAnswer, StreamEnds, StreamBreaks, Fetched, Write,
              Written, WriteFails
<1>3. ASSUME NEW k \in Package, PackOpen(k) \/ PackageStep(k)
      PROVE  Published \subseteq Published'
  <2>1. CASE PackOpen(k) \/ PackBuilt(k)
    BY <2>1 DEF PackOpen, PackBuilt
  <2>2. CASE ~PackOpen(k) /\ ~PackBuilt(k)
    BY <1>3, <2>2 DEF PackageStep, PackFails, ReadIndex, CannotRead, WriteIndex,
                      IndexWritten, WriteFails, CommitRows, RollBack
  <2> QED BY <2>1, <2>2
<1>4. ASSUME NEW k \in Package, Remove(k) \/ Refetch(k) \/ Forget(k)
      PROVE  Published \subseteq Published'
  BY <1>4 DEF Remove, Refetch, Forget
<1>5. CASE SetEnabled \/ Crash \/ UNCHANGED vars
  BY <1>5 DEF SetEnabled, Crash, vars
<1> QED BY <1>1, <1>2, <1>3, <1>4, <1>5 DEF Next

LEMMA StoredStep ==
    ASSUME TypeOK, TypeOK', SInv, [Next]_vars
    PROVE  SInv'
<1> USE IndexTypes, PublishedGrows DEF TypeOK, SInv, Publishing, Actor, index, packages, Goto, Drop
<1>1. ASSUME NEW w \in Writer, Request(w) \/ SyncIndex(w) \/ Aggregate(w) PROVE SInv'
  BY <1>1, BeginText
<1>2. ASSUME NEW w \in Writer, WriterStep(w) PROVE SInv'
  <2>1. CASE Stream(w) \/ Write(w)
    BY <2>1 DEF Stream, Write, Open
  <2>2. CASE StreamEnds(w) \/ Written(w)
    BY <2>2 DEF StreamEnds, Written, Close
  <2>3. CASE Fetched(w)
    BY <2>3, FetchedText
  <2>4. CASE NoAnswer(w) \/ StreamBreaks(w) \/ WriteFails(w)
    BY <2>4 DEF NoAnswer, StreamBreaks, WriteFails
  <2> QED BY <1>2, <2>1, <2>2, <2>3, <2>4 DEF WriterStep
<1>3. ASSUME NEW k \in Package, PackOpen(k) \/ PackageStep(k) PROVE SInv'
  <2>1. CASE WriteIndex(k)
    BY <2>1 DEF WriteIndex, Open
  <2>2. CASE IndexWritten(k)
    BY <2>2 DEF IndexWritten, Close
  <2>3. CASE ReadIndex(k)
    <3>1. text'[k].own \subseteq Published
      BY <2>3 DEF ReadIndex, Index
    <3> QED BY <2>3, <3>1 DEF ReadIndex
  <2>4. CASE PackOpen(k) \/ PackFails(k)
    BY <2>4 DEF PackOpen, PackFails
  <2>5. CASE PackBuilt(k)
    <3>1. k \in Published'
      BY <2>5 DEF PackBuilt, Published, Whole
    <3> QED BY <2>5, <3>1 DEF PackBuilt
  <2>6. CASE CannotRead(k) \/ CommitRows(k) \/ RollBack(k) \/ WriteFails(k)
    BY <2>6 DEF CannotRead, CommitRows, RollBack, WriteFails
  <2> QED BY <1>3, <2>1, <2>2, <2>3, <2>4, <2>5, <2>6 DEF PackageStep
<1>4. CASE SetEnabled
  BY <1>4 DEF SetEnabled
<1>5. CASE Crash
  BY <1>5 DEF Crash
<1>6. ASSUME NEW k \in Package, Remove(k) \/ Refetch(k) \/ Forget(k) PROVE SInv'
  BY <1>6 DEF Remove, Refetch, Forget
<1>7. CASE UNCHANGED vars
  BY <1>7 DEF vars
<1> QED BY <1>1, <1>2, <1>3, <1>4, <1>5, <1>6, <1>7 DEF Next

(* A package is complete before the index or a row names it, whatever fails  *)
(* between the steps of a publication; later it is missing, or there in      *)
(* part, only because it was removed since or opened again.                  *)
THEOREM StoredIsFirst == Spec => []StoredFirst
<1>1. Init => SInv
  BY IndexTypes DEF Init, SInv, Published, Publishing, Actor
<1>2. TypeOK /\ TypeOK' /\ SInv /\ [Next]_vars => SInv'
  BY StoredStep
<1>3. SInv => StoredFirst
  BY DEF SInv, StoredFirst, Published
<1> QED BY <1>1, <1>2, <1>3, Typing, PTL DEF Spec

-----------------------------------------------------------------------------
(* Publications and each other. *)

Holds(k) == at[k] \in {"packing", "packed", "read", "writing"}

(* One publication at a time holds the event loop; the threads of the        *)
(* executor, which go on meanwhile, write no own packages.                   *)
KInv ==
  /\ \A j, k \in Package : Holds(j) /\ Holds(k) => j = k
  /\ \A w \in Writer : text[w].own = {}
  /\ (whole \/ \E a \in Actor : Filling(a)) => file # None
  /\ \A k \in Package : at[k] = "read" /\ file # None =>
       file.own \subseteq text[k].own

LEMMA KeepStep ==
    ASSUME TypeOK, TypeOK', KInv, [Next]_vars
    PROVE  KInv'
<1> USE IndexTypes DEF TypeOK, KInv, Holds, Filling, Actor, index, packages, Goto, Drop, LoopFree
<1>1. ASSUME NEW w \in Writer, Request(w) \/ SyncIndex(w) \/ Aggregate(w) PROVE KInv'
  BY <1>1, BeginText
<1>2. ASSUME NEW w \in Writer, WriterStep(w) PROVE KInv'
  <2>1. CASE Stream(w) \/ Write(w)
    BY <2>1 DEF Stream, Write, Open
  <2>2. CASE StreamEnds(w) \/ Written(w)
    BY <2>2 DEF StreamEnds, Written, Close
  <2>3. CASE Fetched(w)
    BY <2>3, FetchedText
  <2>4. CASE NoAnswer(w) \/ StreamBreaks(w) \/ WriteFails(w)
    BY <2>4 DEF NoAnswer, StreamBreaks, WriteFails
  <2> QED BY <1>2, <2>1, <2>2, <2>3, <2>4 DEF WriterStep
<1>3. ASSUME NEW k \in Package, PackOpen(k) \/ PackageStep(k) PROVE KInv'
  <2>1. CASE WriteIndex(k)
    BY <2>1 DEF WriteIndex, Open
  <2>2. CASE IndexWritten(k)
    BY <2>2 DEF IndexWritten, Close
  <2>3. CASE ReadIndex(k)
    <3>1. file # None => file.own \subseteq text'[k].own
      BY <2>3 DEF ReadIndex, Index
    <3> QED BY <2>3, <3>1 DEF ReadIndex
  <2>4. CASE PackOpen(k) \/ PackBuilt(k) \/ PackFails(k)
    BY <2>4 DEF PackOpen, PackBuilt, PackFails
  <2>5. CASE CannotRead(k) \/ CommitRows(k) \/ RollBack(k) \/ WriteFails(k)
    BY <2>5 DEF CannotRead, CommitRows, RollBack, WriteFails
  <2> QED BY <1>3, <2>1, <2>2, <2>3, <2>4, <2>5 DEF PackageStep
<1>4. CASE SetEnabled
  BY <1>4 DEF SetEnabled
<1>5. CASE Crash
  BY <1>5 DEF Crash
<1>6. ASSUME NEW k \in Package, Remove(k) \/ Refetch(k) \/ Forget(k) PROVE KInv'
  BY <1>6 DEF Remove, Refetch, Forget
<1>7. CASE UNCHANGED vars
  BY <1>7 DEF vars
<1> QED BY <1>1, <1>2, <1>3, <1>4, <1>5, <1>6, <1>7 DEF Next

LEMMA Keeping == Spec => []KInv
<1>1. Init => KInv
  BY IndexTypes DEF Init, KInv, Holds, Filling, Actor
<1>2. TypeOK /\ TypeOK' /\ KInv /\ [Next]_vars => KInv'
  BY KeepStep
<1> QED BY <1>1, <1>2, Typing, PTL DEF Spec

(* A publication writes all own packages that are listed when it opens the   *)
(* file, although it has read the file before.                               *)
THEOREM OthersKept == Spec => PublishingKeepsOthers
<1> DEFINE Goal == \A k \in Package :
                     at[k] = "read" /\ at'[k] = "writing" /\ whole =>
                       file.own \subseteq text[k].own
<1>1. KInv => Goal
  BY DEF KInv
<1>2. KInv => [Goal]_vars
  BY <1>1
<1> QED BY <1>2, Keeping, PTL DEF PublishingKeepsOthers

-----------------------------------------------------------------------------
(* Incomplete files. *)

(* Writers that overlap all know of it, so the last of them to end leaves    *)
(* the accident in place that the first to overlap has noted.                *)
BInv ==
  /\ BrokenOnlyByAccident
  /\ mixed # {} => accident
  /\ \A a, b \in Actor : Filling(a) /\ Filling(b) /\ a # b => a \in mixed

LEMMA OpenBroken ==
    ASSUME TypeOK, BInv, NEW a \in Actor, NEW place \in {"writing", "streaming"}, Open(a, place)
    PROVE  BInv'
<1>1. at' = [at EXCEPT ![a] = place] /\ Filling(a)'
  BY DEF TypeOK, Open, Goto, Filling
<1>2. \A b \in Actor \ {a} : Filling(b)' = Filling(b)
  BY <1>1 DEF TypeOK, Filling
<1>3. CASE \A b \in Actor \ {a} : ~Filling(b)
  <2>1. mixed' = {} /\ BrokenOnlyByAccident'
    BY <1>1, <1>3 DEF TypeOK, Open, BrokenOnlyByAccident
  <2> QED BY <1>2, <1>3, <2>1 DEF BInv
<1>4. CASE \E b \in Actor \ {a} : Filling(b)
  <2>1. accident' /\ \A b \in Actor : Filling(b)' => b \in mixed'
    BY <1>1, <1>2, <1>4 DEF Open
  <2> QED BY <2>1 DEF BInv, BrokenOnlyByAccident
<1> QED BY <1>3, <1>4

LEMMA CloseBroken ==
    ASSUME TypeOK, BInv, NEW a \in Actor, Filling(a),
           NEW place \in {"idle", "listed"}, Close(a, place)
    PROVE  BInv'
<1>1. at' = [at EXCEPT ![a] = place] /\ ~Filling(a)'
  BY DEF TypeOK, Close, Goto, Filling
<1>2. \A b \in Actor \ {a} : Filling(b)' = Filling(b)
  BY <1>1 DEF TypeOK, Filling
<1>3. CASE a \notin mixed
  <2>1. mixed' = {} /\ whole'
    BY <1>3 DEF Close, TypeOK, BInv
  <2> QED BY <1>1, <1>2, <1>3, <2>1 DEF BInv, BrokenOnlyByAccident
<1>4. CASE a \in mixed
  <2>1. accident' /\ mixed' = mixed \ {a}
    BY <1>4 DEF Close, BInv
  <2> QED BY <1>1, <1>2, <2>1 DEF BInv, BrokenOnlyByAccident
<1> QED BY <1>3, <1>4

(* A step that neither writes nor starts or ends filling. *)
LEMMA StillBroken ==
    ASSUME BInv, UNCHANGED index, \A a \in Actor : Filling(a)' = Filling(a)
    PROVE  BInv'
  BY DEF BInv, BrokenOnlyByAccident, index

(* A writer that gives up half-way. *)
LEMMA GaveUp ==
    ASSUME TypeOK, BInv, NEW a \in Actor, Goto(a, "idle"), mixed' = mixed \ {a}, accident'
    PROVE  BInv'
  BY DEF TypeOK, BInv, BrokenOnlyByAccident, Goto, Filling

LEMMA BrokenStep ==
    ASSUME TypeOK, TypeOK', BInv, [Next]_vars
    PROVE  BInv'
<1> USE IndexTypes DEF TypeOK, Actor
<1>1. ASSUME NEW w \in Writer, Request(w) \/ SyncIndex(w) \/ Aggregate(w) PROVE BInv'
  <2>1. UNCHANGED index /\ \A a \in Actor : Filling(a)' = Filling(a)
    BY <1>1 DEF Request, SyncIndex, Aggregate, Gather, Goto, Filling
  <2> QED BY <2>1, StillBroken
<1>2. ASSUME NEW w \in Writer, WriterStep(w) PROVE BInv'
  <2>1. CASE Stream(w) \/ Write(w)
    <3>1. PICK place \in {"writing", "streaming"} : Open(w, place)
      BY <2>1 DEF Stream, Write
    <3> QED BY <3>1, OpenBroken
  <2>2. CASE StreamEnds(w) \/ Written(w)
    <3>1. Close(w, "idle") /\ Filling(w)
      BY <2>2 DEF StreamEnds, Written, Filling
    <3> QED BY <3>1, CloseBroken
  <2>3. CASE Fetched(w) \/ NoAnswer(w)
    <3>1. UNCHANGED index /\ \A a \in Actor : Filling(a)' = Filling(a)
      BY <2>3 DEF Fetched, NoAnswer, Goto, Filling
    <3> QED BY <3>1, StillBroken
  <2>4. CASE StreamBreaks(w) \/ WriteFails(w)
    BY <2>4, GaveUp DEF StreamBreaks, WriteFails
  <2> QED BY <1>2, <2>1, <2>2, <2>3, <2>4 DEF WriterStep
<1>3. ASSUME NEW k \in Package, PackOpen(k) \/ PackageStep(k) PROVE BInv'
  <2>1. CASE WriteIndex(k)
    <3>1. Open(k, "writing")
      BY <2>1 DEF WriteIndex
    <3> QED BY <3>1, OpenBroken
  <2>2. CASE IndexWritten(k)
    <3>1. Close(k, "listed") /\ Filling(k)
      BY <2>2 DEF IndexWritten, Filling
    <3> QED BY <3>1, CloseBroken
  <2>3. CASE \/ PackOpen(k) \/ PackBuilt(k) \/ PackFails(k) \/ ReadIndex(k)
             \/ CannotRead(k) \/ CommitRows(k) \/ RollBack(k)
    <3>1. UNCHANGED index /\ \A a \in Actor : Filling(a)' = Filling(a)
      BY <2>3 DEF PackOpen, PackBuilt, PackFails, ReadIndex, CannotRead, CommitRows,
                  RollBack, Goto, Filling
    <3> QED BY <3>1, StillBroken
  <2>4. CASE WriteFails(k)
    BY <2>4, GaveUp DEF WriteFails
  <2> QED BY <1>3, <2>1, <2>2, <2>3, <2>4 DEF PackageStep
<1>4. CASE SetEnabled
  <2>1. UNCHANGED index /\ \A a \in Actor : Filling(a)' = Filling(a)
    BY <1>4 DEF SetEnabled, Filling
  <2> QED BY <2>1, StillBroken
<1>5. CASE Crash
  BY <1>5 DEF Crash, Filling, BInv, BrokenOnlyByAccident
<1>6. ASSUME NEW k \in Package, Remove(k) \/ Refetch(k) \/ Forget(k) PROVE BInv'
  <2>1. UNCHANGED index /\ \A a \in Actor : Filling(a)' = Filling(a)
    BY <1>6 DEF Remove, Refetch, Forget, Filling
  <2> QED BY <2>1, StillBroken
<1>7. CASE UNCHANGED vars
  <2>1. UNCHANGED index /\ \A a \in Actor : Filling(a)' = Filling(a)
    BY <1>7 DEF vars, Filling
  <2> QED BY <2>1, StillBroken
<1> QED BY <1>1, <1>2, <1>3, <1>4, <1>5, <1>6, <1>7 DEF Next

(* An index that nobody is writing is incomplete only by accident: since the *)
(* last writer that was alone, a stream or a write broke, the process died   *)
(* while writing, or writers overlapped.                                     *)
THEOREM AccidentsOnly == Spec => []BrokenOnlyByAccident
<1>1. Init => BInv
  BY DEF Init, BInv, BrokenOnlyByAccident, Filling
<1>2. TypeOK /\ TypeOK' /\ BInv /\ [Next]_vars => BInv'
  BY BrokenStep
<1>3. BInv => BrokenOnlyByAccident
  BY DEF BInv
<1> QED BY <1>1, <1>2, <1>3, Typing, PTL DEF Spec
=============================================================================
