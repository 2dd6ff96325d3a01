------------------------------ MODULE IndexFile ------------------------------
(***************************************************************************)
(* repo/v2/index.json and those who write it: requests for it, when it is  *)
(* missing; synchronisations and aggregations, which rewrite it; and the   *)
(* publishing of own packages, which adds to it.                           *)
(*                                                                         *)
(* Every writer opens the file itself, which empties it, and fills it.     *)
(* Synchronisation and aggregation do so in a thread of the executor, the  *)
(* others on the event loop; publishing holds the loop from the package to *)
(* the index, so of the others only those threads run meanwhile.           *)
(*                                                                         *)
(* The packages themselves are files of the repository like any other: an  *)
(* eviction or an administrator removes them, and nobody tells the index.  *)
(***************************************************************************)
EXTENDS Naturals, FiniteSets

CONSTANTS
  Source,    \* repository sources
  Upstream,  \* the repository of the configuration, for want of a source
  Writer,    \* requests, synchronisations and aggregations at work
  Package,   \* packages that may be published
  None       \* no content: the file is missing

Actor == Writer \cup Package

Origin == Source \cup {Upstream}

\* The content of an index: the sources it was made of, and own packages.
Index == [sources : SUBSET Origin, own : SUBSET Package]
Empty == [sources |-> {}, own |-> {}]

ASSUME IndexFileAssumption ==
  /\ IsFiniteSet(Source) /\ Upstream \notin Source
  /\ Writer \cap Package = {}
  /\ None \notin Index

VARIABLES
  enabled,  \* sources that are enabled
  file,     \* None, or what the last writer put in or is putting in
  whole,    \* the file is complete: all of one writer's text
  at,       \* where each actor is, see Place
  text,     \* what an actor is about to write or writing
  mixed,    \* actors whose writing overlapped with another's
  pack,     \* the file of each package: missing, a part of it, or whole
  lost,     \* packages that were whole and were removed or opened since
  rows,     \* packages whose build row is committed
  accident  \* since the last writer that was alone, a stream or a write
            \* broke, the process died writing, or two writers overlapped

index    == <<file, whole, mixed, accident>>
packages == <<pack, lost, rows>>
vars     == <<enabled, index, at, text, packages>>

\* "streaming" is the request that fills the file from the network;
\* "packing", "packed", "read" and "listed" are places of a publication only.
Place == {"idle", "asked", "fetching", "ready", "writing", "streaming",
          "packing", "packed", "read", "listed"}

Filling(a) == at[a] \in {"writing", "streaming"}
Goto(a, place) == at' = [at EXCEPT ![a] = place]
Drop(a) == text' = [text EXCEPT ![a] = Empty]

\* Mutant of LoopFree: update_local_index runs in the executor, too.
LoopNeverHeld == TRUE

\* No publication holds the event loop.
LoopFree == \A k \in Package :
              at[k] \notin {"packing", "packed", "read", "writing"}

ManySources == Cardinality(enabled) > 1
From(ok) == [sources |-> ok, own |-> {}]

-----------------------------------------------------------------------------
(* open(index_path, "w") and the end of the writing.                       *)

Open(a, place) ==
  LET others == {b \in Actor \ {a} : Filling(b)}
  IN /\ Goto(a, place)
     /\ file' = text[a] /\ whole' = FALSE
     /\ mixed' = IF others = {} THEN mixed \ {a} ELSE mixed \cup others \cup {a}
     /\ accident' = (accident \/ others # {})

\* A writer that was alone leaves its text.  Of several, the last to end may
\* leave its own text, that of the last to open, or a mixture.
Close(a, place) ==
  /\ Goto(a, place)
  /\ IF a \notin mixed
       THEN file' = text[a] /\ whole' = TRUE /\ accident' = FALSE
       ELSE /\ UNCHANGED accident
            /\ IF \E b \in Actor \ {a} : Filling(b) THEN UNCHANGED <<file, whole>>
               ELSE \/ file' = text[a] /\ whole' = TRUE
                    \/ UNCHANGED file /\ whole' \in BOOLEAN
  /\ mixed' = mixed \ {a}

\* aggregate_indices reads the enabled sources, then fetches them all.
Gather(w) == /\ Goto(w, "fetching")
             /\ text' = [text EXCEPT ![w] = From(enabled)]

-----------------------------------------------------------------------------
(* handle_index_request.                                                   *)

\* A file that is there is served as it is, and nothing changes.  Otherwise the
\* enabled sources are counted, and all are merged, or one of them is asked, as
\* it also is when the count fails; without one, or if the query for it fails,
\* the upstream of the configuration.
Request(w) ==
  /\ LoopFree /\ at[w] = "idle" /\ file = None
  /\ \/ ManySources /\ Gather(w)
     \/ /\ Goto(w, "asked")
        /\ \E s \in enabled \cup {Upstream} : text' = [text EXCEPT ![w] = From({s})]
  /\ UNCHANGED <<enabled, index, packages>>

\* The answer begins, and the file is opened, whether or not another writer has
\* made it meanwhile.
Stream(w) ==
  /\ LoopFree /\ at[w] = "asked"
  /\ Open(w, "streaming")
  /\ UNCHANGED <<enabled, text, packages>>

\* Mutant of NoAnswer: the file is opened before the answer has arrived.
NoAnswerEmptied(w) ==
  /\ LoopFree /\ at[w] = "asked"
  /\ Goto(w, "idle")
  /\ file' = text[w] /\ whole' = FALSE
  /\ Drop(w)
  /\ UNCHANGED <<enabled, mixed, accident, packages>>

NoAnswer(w) ==
  /\ LoopFree /\ at[w] = "asked"
  /\ Goto(w, "idle")
  /\ Drop(w)
  /\ UNCHANGED <<enabled, index, packages>>

StreamEnds(w) ==
  /\ LoopFree /\ at[w] = "streaming"
  /\ Close(w, "idle")
  /\ Drop(w)
  /\ UNCHANGED <<enabled, packages>>

\* The connection breaks: the part stays, and is served from then on.
StreamBreaks(w) ==
  /\ LoopFree /\ at[w] = "streaming"
  /\ Goto(w, "idle") /\ mixed' = mixed \ {w} /\ accident' = TRUE
  /\ Drop(w)
  /\ UNCHANGED <<enabled, file, whole, packages>>

-----------------------------------------------------------------------------
(* _update_local_index of a synchronisation, and build_aggregated_index.   *)

\* With one source, or if the count fails, a synchronisation writes the index
\* it has worked with.
SyncIndex(w) ==
  /\ LoopFree /\ at[w] = "idle"
  /\ \E s \in Source : text' = [text EXCEPT ![w] = From({s})]
  /\ Goto(w, "ready")
  /\ UNCHANGED <<enabled, index, packages>>

\* With several it aggregates, as the administrator's request always does.
Aggregate(w) ==
  /\ LoopFree /\ at[w] = "idle"
  /\ Gather(w)
  /\ UNCHANGED <<enabled, index, packages>>

\* Mutant of Fetched: the merged index is not handed on.
FetchedNothing(w) ==
  /\ LoopFree /\ at[w] = "fetching"
  /\ text' = [text EXCEPT ![w] = None]
  /\ Goto(w, "ready")
  /\ UNCHANGED <<enabled, index, packages>>

\* Of the sources that were enabled, those that answer are merged, be it none.
Fetched(w) ==
  /\ LoopFree /\ at[w] = "fetching"
  /\ \E ok \in SUBSET text[w].sources : text' = [text EXCEPT ![w] = From(ok)]
  /\ Goto(w, "ready")
  /\ UNCHANGED <<enabled, index, packages>>

\* _write_json, in a thread.
Write(w) ==
  /\ at[w] = "ready"
  /\ Open(w, "writing")
  /\ UNCHANGED <<enabled, text, packages>>

Written(w) ==
  /\ w \in Writer /\ at[w] = "writing"
  /\ Close(w, "idle")
  /\ Drop(w)
  /\ UNCHANGED <<enabled, packages>>

\* The disk is full: the part stays.  A publication rolls its rows back.
WriteFails(a) ==
  /\ at[a] = "writing"
  /\ Goto(a, "idle") /\ mixed' = mixed \ {a} /\ accident' = TRUE
  /\ Drop(a)
  /\ UNCHANGED <<enabled, file, whole, packages>>

\* An administrator enables or disables a source.
SetEnabled ==
  /\ LoopFree
  /\ \E s \in Source : enabled' = IF s \in enabled THEN enabled \ {s}
                                                  ELSE enabled \cup {s}
  /\ UNCHANGED <<index, at, text, packages>>

-----------------------------------------------------------------------------
(* publish_extension.                                                      *)

Whole == {k \in Package : pack[k] = "whole"}

\* Mutant of PackOpen: the package is moved into place after the commit.
PackLater(k) ==
  /\ LoopFree /\ at[k] = "idle"
  /\ Goto(k, "packed")
  /\ UNCHANGED <<enabled, index, text, packages>>

\* build_tar_package opens the final path, also that of an earlier publication.
PackOpen(k) ==
  /\ LoopFree /\ at[k] = "idle"
  /\ pack' = [pack EXCEPT ![k] = "part"]
  /\ lost' = lost \cup (Whole \cap {k})
  /\ Goto(k, "packing")
  /\ UNCHANGED <<enabled, index, text, rows>>

PackBuilt(k) ==
  /\ at[k] = "packing"
  /\ pack' = [pack EXCEPT ![k] = "whole"]
  /\ lost' = lost \ {k}
  /\ Goto(k, "packed")
  /\ UNCHANGED <<enabled, index, text, rows>>

\* An exception leaves the part where the package should be.
PackFails(k) ==
  /\ at[k] = "packing"
  /\ Goto(k, "idle")
  /\ UNCHANGED <<enabled, index, text, packages>>

\* update_local_index reads the file.
ReadIndex(k) ==
  /\ at[k] = "packed" /\ (file = None \/ whole)
  /\ LET old == IF file = None THEN Empty ELSE file
     IN text' = [text EXCEPT ![k] = [old EXCEPT !.own = @ \cup {k}]]
  /\ Goto(k, "read")
  /\ UNCHANGED <<enabled, index, packages>>

\* json.load raises: the file of the package is all that has been published.
CannotRead(k) ==
  /\ at[k] = "packed" /\ file # None /\ ~whole
  /\ Goto(k, "idle")
  /\ UNCHANGED <<enabled, index, text, packages>>

WriteIndex(k) ==
  /\ at[k] = "read"
  /\ Open(k, "writing")
  /\ UNCHANGED <<enabled, text, packages>>

IndexWritten(k) ==
  /\ k \in Package /\ at[k] = "writing"
  /\ Close(k, "listed")
  /\ Drop(k)
  /\ UNCHANGED <<enabled, packages>>

\* The rows are committed, or rolled back: then package and index stay.
CommitRows(k) ==
  /\ LoopFree /\ at[k] = "listed"
  /\ rows' = rows \cup {k}
  /\ Goto(k, "idle")
  /\ UNCHANGED <<enabled, index, text, pack, lost>>

RollBack(k) ==
  /\ LoopFree /\ at[k] = "listed"
  /\ Goto(k, "idle")
  /\ UNCHANGED <<enabled, index, text, packages>>

-----------------------------------------------------------------------------
(* What becomes of published packages.                                     *)

\* An eviction or an administrator unlinks the file, or a redownload opens it
\* to fill it anew; the index goes on listing it.
Remove(k) ==
  /\ LoopFree
  /\ \E left \in {"none", "part"} : pack' = [pack EXCEPT ![k] = left]
  /\ lost' = lost \cup (Whole \cap {k})
  /\ UNCHANGED <<enabled, index, at, text, rows>>

\* A repository has a package of that name, and a redownload or a request has
\* fetched all of it.
Refetch(k) ==
  /\ LoopFree
  /\ pack' = [pack EXCEPT ![k] = "whole"]
  /\ lost' = lost \ {k}
  /\ UNCHANGED <<enabled, index, at, text, rows>>

\* Its row is cleared or deleted by a commit that follows, or never does.
Forget(k) ==
  /\ LoopFree /\ k \in rows
  /\ rows' = rows \ {k}
  /\ UNCHANGED <<enabled, index, at, text, pack, lost>>

-----------------------------------------------------------------------------
\* The process dies and is started again; a file half written stays so.
Crash ==
  /\ at' = [a \in Actor |-> "idle"]
  /\ mixed' = {}
  /\ accident' = (accident \/ \E a \in Actor : Filling(a))
  /\ text' = [a \in Actor |-> Empty]
  /\ UNCHANGED <<enabled, file, whole, packages>>

Init ==
  /\ enabled \in SUBSET Source
  /\ file = None /\ whole = FALSE
  /\ at = [a \in Actor |-> "idle"]
  /\ text = [a \in Actor |-> Empty]
  /\ pack = [k \in Package |-> "none"]
  /\ mixed = {} /\ lost = {} /\ rows = {} /\ accident = FALSE

WriterStep(w) ==
  \/ Stream(w) \/ NoAnswer(w) \/ StreamEnds(w) \/ StreamBreaks(w)
  \/ Fetched(w) \/ Write(w) \/ Written(w) \/ WriteFails(w)
PackageStep(k) ==
  \/ PackBuilt(k) \/ PackFails(k)
  \/ ReadIndex(k) \/ CannotRead(k) \/ WriteIndex(k) \/ IndexWritten(k)
  \/ WriteFails(k) \/ CommitRows(k) \/ RollBack(k)

Next ==
  \/ \E w \in Writer : Request(w) \/ SyncIndex(w) \/ Aggregate(w) \/ WriterStep(w)
  \/ \E k \in Package : PackOpen(k) \/ PackageStep(k)
  \/ \E k \in Package : Remove(k) \/ Refetch(k) \/ Forget(k)
  \/ SetEnabled \/ Crash

Spec == Init /\ [][Next]_vars

-----------------------------------------------------------------------------
(* Properties.                                                             *)

\* The types; only writers stream and fetch, only packages are published.
TypeOK ==
  /\ enabled \subseteq Source
  /\ file \in Index \cup {None} /\ whole \in BOOLEAN
  /\ at \in [Actor -> Place]
  /\ \A w \in Writer : at[w] \notin {"packing", "packed", "read", "listed"}
  /\ \A k \in Package :
       at[k] \in {"idle", "packing", "packed", "read", "writing", "listed"}
  /\ text \in [Actor -> Index]
  /\ mixed \subseteq {a \in Actor : Filling(a)}
  /\ pack \in [Package -> {"none", "part", "whole"}]
  /\ lost \subseteq Package /\ rows \subseteq Package
  /\ accident \in BOOLEAN

\* A package is complete before the index lists it or a row claims it, whatever
\* fails or crashes in between.  One that is named and not there, or there in
\* part, was complete: it was removed or opened since, to be published again or
\* fetched, and that is under way or has failed.
StoredFirst ==
  /\ rows \subseteq Whole \cup lost
  /\ file # None => file.own \subseteq Whole \cup lost

\* Publications are concurrent requests, and each rewrites the whole file from
\* what it has read.  One never takes the entry of another out: all that the
\* index lists when a publication opens it is in what the publication writes.
PublishingKeepsOthers ==
  [][\A k \in Package :
       at[k] = "read" /\ at'[k] = "writing" /\ whole =>
         file.own \subseteq text[k].own]_vars

\* Writers open the file without a lock or a temporary name.  Once nobody is
\* writing, it is incomplete only if a stream or a write broke, the process died
\* or two writers overlapped, and the next writer that is alone repairs it.
BrokenOnlyByAccident ==
  file # None /\ ~whole /\ (\A a \in Actor : ~Filling(a)) => accident
=============================================================================
