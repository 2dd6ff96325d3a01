----------------------------- MODULE IndexMerge -----------------------------
(***************************************************************************)
(* aggregate_indices: the indices of all enabled sources are fetched, and  *)
(* merged one by one in ascending order of the priority number, that is,   *)
(* the most important source first.                                        *)
(*                                                                         *)
(* Sources are numbered in that order.  In a merged index a value is the   *)
(* source it comes from; {} is a value that is empty.  One metadata field  *)
(* stands for the seven, which are treated alike.                          *)
(***************************************************************************)
EXTENDS Naturals

CONSTANTS
  N,           \* number of enabled sources
  Name,        \* extension names
  Version,     \* version strings
  Target,      \* keys of builds: arch, os, flavor, PostgreSQL, build
  Publisher,   \* publisher ids
  Priorities,  \* ascending priorities the sources may have
  Answers      \* what the fetch of one source may end with

Source == 1..N
Partial(S, T) == UNION {[D -> T] : D \in SUBSET S}

\* An extension in a source's index: is the metadata field given, and the
\* builds of each version.  A publisher comes with a public key or without.
Extension == [meta : BOOLEAN, versions : Partial(Version, SUBSET Target)]
Answer == [ok : BOOLEAN, publishers : Partial(Publisher, BOOLEAN),
           extensions : Partial(Name, Extension)]

ASSUME IndexMergeAssumption ==
  /\ N \in Nat \ {0}
  /\ Priorities \subseteq {p \in [Source -> Nat] :
                             \A i, j \in Source : i <= j => p[i] <= p[j]}
  /\ Answers \subseteq Answer

VARIABLES
  priority,  \* of the sources
  fetched,   \* the answers of all sources, gathered before the first merge
  pos,       \* sources processed so far
  merged     \* the index made of them

vars == <<priority, fetched, pos, merged>>

\* What _priority reads as once it has been stripped.
DefaultPriority == 999

-----------------------------------------------------------------------------
(* Merging one source into the result.                                     *)

Value(s, given) == IF given THEN {s} ELSE {}

\* A publisher of source s, known already or new.
MergePublisher(s, old, given) ==
  IF priority[s] <= old.priority
    THEN [key |-> Value(s, given), priority |-> priority[s]] ELSE old
NewPublisher(s, given) == [key |-> Value(s, given), priority |-> priority[s]]

\* Mutant of MergeTargets: a build that is listed already is left alone.
MergeTargetsNewOnly(s, old, targets) ==
  [priority |-> old.priority,
   targets  |-> [t \in targets \ DOMAIN old.targets |-> s]]

\* Builds of a version that is known already: a build that is known too is
\* replaced if the source ranks as high as the version does.
MergeTargets(s, old, targets) ==
  LET wins == priority[s] <= old.priority
  IN [priority |-> IF wins THEN priority[s] ELSE old.priority,
      targets  |-> [t \in targets \cup DOMAIN old.targets |->
                      IF t \in targets /\ (wins \/ t \notin DOMAIN old.targets)
                        THEN s ELSE old.targets[t]]]

\* Mutant of NewVersion: the first source to list a version ranks last in it.
NewVersionUnranked(s, targets) ==
  [priority |-> DefaultPriority, targets |-> [t \in targets |-> s]]

NewVersion(s, targets) ==
  [priority |-> priority[s], targets |-> [t \in targets |-> s]]

\* _merge_version, for all versions of an extension.
MergeVersions(s, old, versions) ==
  [v \in DOMAIN old \cup DOMAIN versions |->
     CASE v \notin DOMAIN versions -> old[v]
       [] v \notin DOMAIN old      -> NewVersion(s, versions[v])
       [] OTHER                    -> MergeTargets(s, old[v], versions[v])]

\* Mutant of MergeMetadata: a missing field overrides like an empty one.
MergeMetadataAlways(s, old, given) ==
  IF priority[s] <= old.priority THEN Value(s, given) ELSE old.meta

\* A field that the source leaves out overrides nothing.
MergeMetadata(s, old, given) ==
  IF priority[s] <= old.priority /\ given THEN {s} ELSE old.meta

MergeExtension(s, old, ext) ==
  [meta     |-> MergeMetadata(s, old, ext.meta),
   priority |-> IF priority[s] <= old.priority THEN priority[s] ELSE old.priority,
   versions |-> MergeVersions(s, old.versions, ext.versions)]

NewExtension(s, ext) ==
  [meta |-> Value(s, ext.meta), priority |-> priority[s],
   versions |-> MergeVersions(s, <<>>, ext.versions)]

\* Internal fields are taken out of publishers and extensions after each
\* source (those of versions stay).
Stripped(entries) ==
  [k \in DOMAIN entries |-> [entries[k] EXCEPT !.priority = DefaultPriority]]

MergedPublishers(m, s, pubs) ==
  [p \in DOMAIN m \cup DOMAIN pubs |->
     CASE p \notin DOMAIN pubs -> m[p]
       [] p \notin DOMAIN m    -> NewPublisher(s, pubs[p])
       [] OTHER                -> MergePublisher(s, m[p], pubs[p])]

MergedExtensions(m, s, exts) ==
  [n \in DOMAIN m \cup DOMAIN exts |->
     CASE n \notin DOMAIN exts -> m[n]
       [] n \notin DOMAIN m    -> NewExtension(s, exts[n])
       [] OTHER                -> MergeExtension(s, m[n], exts[n])]

\* _merge_into
MergeInto(m, s) ==
  [publishers |-> Stripped(MergedPublishers(m.publishers, s, fetched[s].publishers)),
   extensions |-> Stripped(MergedExtensions(m.extensions, s, fetched[s].extensions)),
   sources    |-> m.sources \cup {s}]

-----------------------------------------------------------------------------
Init ==
  /\ priority \in Priorities
  /\ fetched \in [Source -> Answers]
  /\ pos = 0
  /\ merged = [publishers |-> <<>>, extensions |-> <<>>, sources |-> {}]

Merge ==
  /\ pos < N /\ fetched[pos + 1].ok
  /\ merged' = MergeInto(merged, pos + 1)
  /\ pos' = pos + 1
  /\ UNCHANGED <<priority, fetched>>

\* Mutant of Skip: an answer that is no index ends the loop.
SkipAll ==
  /\ pos < N /\ ~fetched[pos + 1].ok
  /\ pos' = N
  /\ UNCHANGED <<priority, fetched, merged>>

\* A source that could not be fetched is recorded as an error and skipped.
Skip ==
  /\ pos < N /\ ~fetched[pos + 1].ok
  /\ pos' = pos + 1
  /\ UNCHANGED <<priority, fetched, merged>>

Next == Merge \/ Skip
Spec == Init /\ [][Next]_vars

-----------------------------------------------------------------------------
(* Properties.                                                             *)

\* Sources merged so far that list an extension, or a build of a version.
Heard == {s \in 1..pos : fetched[s].ok}
Describing(n) == {s \in Heard : n \in DOMAIN fetched[s].extensions}
Listing(n, v, t) ==
  {s \in Describing(n) : /\ v \in DOMAIN fetched[s].extensions[n].versions
                         /\ t \in fetched[s].extensions[n].versions[v]}

InMerged(n, v, t) ==
  /\ n \in DOMAIN merged.extensions
  /\ v \in DOMAIN merged.extensions[n].versions
  /\ t \in DOMAIN merged.extensions[n].versions[v].targets

\* Types; priorities are stripped from all but the versions.
TypeOK ==
  LET ranks == {priority[s] : s \in Source}
      entry == [priority : ranks, targets : Partial(Target, Source)]
      value == {{}} \cup {{s} : s \in Source}
  IN /\ pos \in 0..N
     /\ merged.sources = Heard
     /\ merged.publishers \in
          Partial(Publisher, [key : value, priority : {DefaultPriority}])
     /\ merged.extensions \in
          Partial(Name, [meta : value, priority : {DefaultPriority},
                         versions : Partial(Version, entry)])

\* Every build that some reachable source lists is in the result, no matter
\* which others list the extension or the version, and nothing else is.
NothingLost ==
  \A n \in Name, v \in Version, t \in Target :
    InMerged(n, v, t) <=> Listing(n, v, t) # {}

\* A build that several sources list is taken from one that ranks highest
\* among them, although ranks are kept by version and not by build.
TargetFromHighest ==
  \A n \in Name, v \in Version, t \in Target :
    InMerged(n, v, t) =>
      LET s == merged.extensions[n].versions[v].targets[t]
      IN /\ s \in Listing(n, v, t)
         /\ \A r \in Listing(n, v, t) : priority[s] <= priority[r]

\* A description that a source gives is not lost to one that gives none; only
\* a source after the first that ranks below the default goes unheard.
MetadataNotErased ==
  \A n \in DOMAIN merged.extensions :
    merged.extensions[n].meta = {} =>
      \A s \in Describing(n) :
        fetched[s].extensions[n].meta => priority[s] > DefaultPriority

\* The metadata of an extension are those of the source that ranks highest
\* among the sources that give them.
MetadataFromHighest ==
  \A n \in DOMAIN merged.extensions : \A s \in merged.extensions[n].meta :
    \A r \in Describing(n) :
      fetched[r].extensions[n].meta => priority[s] <= priority[r]
=============================================================================
