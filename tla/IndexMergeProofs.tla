-------------------------- MODULE IndexMergeProofs --------------------------
(***************************************************************************)
(* Theorems about IndexMerge, for any number of sources, any ascending     *)
(* priorities, and any indices of any names, versions and builds.          *)
(***************************************************************************)
EXTENDS IndexMerge, TLAPS

(* Partial functions. *)
LEMMA PartialIn ==
    ASSUME NEW S, NEW T, NEW f, DOMAIN f \subseteq S, f \in [DOMAIN f -> T]
    PROVE  f \in Partial(S, T)
  BY DEF Partial

LEMMA PartialOut ==
    ASSUME NEW S, NEW T, NEW f \in Partial(S, T)
    PROVE  /\ DOMAIN f \subseteq S
           /\ f \in [DOMAIN f -> T]
           /\ \A x \in DOMAIN f : f[x] \in T
<1>1. PICK D \in SUBSET S : f \in [D -> T]
  BY DEF Partial
<1> QED BY <1>1

LEMMA EmptyPartial ==
    ASSUME NEW S, NEW T
    PROVE  <<>> \in Partial(S, T) /\ DOMAIN <<>> = {}
<1>1. DOMAIN <<>> = {}
  OBVIOUS
<1>2. <<>> \in [{} -> T]
  OBVIOUS
<1> QED BY <1>1, <1>2 DEF Partial

-----------------------------------------------------------------------------
(* Types. *)

Rank     == {priority[s] : s \in Source}
Origin   == {{}} \cup {{s} : s \in Source}
Entry    == [priority : Rank, targets : Partial(Target, Source)]
Versions == Partial(Version, Entry)
Merged   == [meta : Origin, priority : {DefaultPriority}, versions : Versions]
Key      == [key : Origin, priority : {DefaultPriority}]

(* The inputs do not change: priorities ascend, answers are indices.         *)
Inputs == /\ priority \in [Source -> Nat]
          /\ \A i, j \in Source : i <= j => priority[i] <= priority[j]
          /\ fetched \in [Source -> Answer]
          /\ pos \in 0..N

LEMMA InputsInit == Init => Inputs
  BY IndexMergeAssumption DEF Init, Inputs, Source

LEMMA InputsStep == Inputs /\ [Next]_vars => Inputs'
  BY IndexMergeAssumption DEF Inputs, Next, Merge, Skip, vars

LEMMA NextSource ==
    ASSUME Inputs, pos < N
    PROVE  /\ pos + 1 \in Source
           /\ 1..(pos + 1) = (1..pos) \cup {pos + 1}
           /\ pos + 1 \notin 1..pos
           /\ \A r \in 1..pos : r \in Source /\ r <= pos + 1
  BY IndexMergeAssumption DEF Inputs, Source

(* What an index lists. *)
LEMMA AnswerType ==
    ASSUME Inputs, NEW s \in Source
    PROVE  /\ fetched[s].extensions \in Partial(Name, Extension)
           /\ \A n \in DOMAIN fetched[s].extensions :
                /\ n \in Name
                /\ fetched[s].extensions[n].versions \in Partial(Version, SUBSET Target)
                /\ fetched[s].extensions[n].meta \in BOOLEAN
           /\ fetched[s].publishers \in Partial(Publisher, BOOLEAN)
<1>1. fetched[s] \in Answer
  BY DEF Inputs
<1>2. fetched[s].extensions \in Partial(Name, Extension)
  BY <1>1 DEF Answer
<1>3. \A n \in DOMAIN fetched[s].extensions : n \in Name /\ fetched[s].extensions[n] \in Extension
  BY <1>2, PartialOut
<1> QED BY <1>1, <1>2, <1>3 DEF Answer, Extension

LEMMA NewVersionType ==
    ASSUME NEW s \in Source, NEW targets \in SUBSET Target
    PROVE  NewVersion(s, targets) \in Entry
<1> DEFINE f == NewVersion(s, targets).targets
<1>1. DOMAIN f = targets /\ f \in [targets -> Source]
  BY DEF NewVersion
<1>2. f \in Partial(Target, Source)
  BY <1>1, PartialIn
<1> QED BY <1>2 DEF NewVersion, Entry, Rank

LEMMA MergeTargetsType ==
    ASSUME NEW s \in Source, NEW old \in Entry, NEW targets \in SUBSET Target
    PROVE  MergeTargets(s, old, targets) \in Entry
<1> DEFINE f == MergeTargets(s, old, targets).targets
<1>1. old.priority \in Rank /\ old.targets \in Partial(Target, Source)
  BY DEF Entry
<1>2. DOMAIN old.targets \subseteq Target /\ \A t \in DOMAIN old.targets : old.targets[t] \in Source
  BY <1>1, PartialOut
<1>3. DOMAIN f = targets \cup DOMAIN old.targets /\ f \in [DOMAIN f -> Source]
  BY <1>2 DEF MergeTargets
<1>4. f \in Partial(Target, Source)
  BY <1>2, <1>3, PartialIn
<1> QED BY <1>1, <1>4 DEF MergeTargets, Entry, Rank

LEMMA MergeVersionsType ==
    ASSUME NEW s \in Source, NEW old \in Versions,
           NEW versions \in Partial(Version, SUBSET Target)
    PROVE  MergeVersions(s, old, versions) \in Versions
<1> DEFINE f == MergeVersions(s, old, versions)
<1>1. DOMAIN old \subseteq Version /\ \A v \in DOMAIN old : old[v] \in Entry
  BY PartialOut DEF Versions
<1>2. DOMAIN versions \subseteq Version /\ \A v \in DOMAIN versions : versions[v] \in SUBSET Target
  BY PartialOut
<1>3. DOMAIN f = DOMAIN old \cup DOMAIN versions
  BY DEF MergeVersions
<1>4. ASSUME NEW v \in DOMAIN f PROVE f[v] \in Entry
  BY <1>1, <1>2, <1>3, NewVersionType, MergeTargetsType DEF MergeVersions
<1>5. f \in [DOMAIN f -> Entry]
  BY <1>4 DEF MergeVersions
<1> QED BY <1>1, <1>2, <1>3, <1>5, PartialIn DEF Versions

-----------------------------------------------------------------------------
(* One merge, extension by extension: what was known of it and what the      *)
(* source gives, nothing being the empty function.                           *)

Known(n) == IF n \in DOMAIN merged.extensions THEN merged.extensions[n].versions ELSE <<>>
Given(s, n) == IF n \in DOMAIN fetched[s].extensions
                 THEN fetched[s].extensions[n].versions ELSE <<>>

MInv == /\ Inputs
        /\ merged.sources = Heard
        /\ merged.publishers \in Partial(Publisher, Key)
        /\ merged.extensions \in Partial(Name, Merged)

LEMMA KnownType ==
    ASSUME MInv, NEW n
    PROVE  /\ Known(n) \in Versions
           /\ n \in DOMAIN merged.extensions => n \in Name /\ merged.extensions[n] \in Merged
<1>1. n \in DOMAIN merged.extensions => n \in Name /\ merged.extensions[n] \in Merged
  BY PartialOut DEF MInv
<1> QED BY <1>1, EmptyPartial DEF Known, Merged, Versions

LEMMA GivenType ==
    ASSUME Inputs, NEW s \in Source, NEW n
    PROVE  Given(s, n) \in Partial(Version, SUBSET Target)
  BY AnswerType, EmptyPartial DEF Given

LEMMA MergeNothing ==
    ASSUME NEW s \in Source, NEW old \in Versions
    PROVE  MergeVersions(s, old, <<>>) = old
<1>1. DOMAIN <<>> = {}
  BY EmptyPartial
<1>2. old \in [DOMAIN old -> Entry]
  BY PartialOut DEF Versions
<1> QED BY <1>1, <1>2 DEF MergeVersions

LEMMA MergeOne ==
    ASSUME MInv, NEW s \in Source, merged' = MergeInto(merged, s)
    PROVE  /\ DOMAIN merged'.extensions
                = DOMAIN merged.extensions \cup DOMAIN fetched[s].extensions
           /\ merged'.extensions \in Partial(Name, Merged)
           /\ \A n \in DOMAIN merged'.extensions :
                /\ merged'.extensions[n].versions = MergeVersions(s, Known(n), Given(s, n))
                /\ merged'.extensions[n].meta =
                     IF n \notin DOMAIN fetched[s].extensions THEN merged.extensions[n].meta
                     ELSE IF n \notin DOMAIN merged.extensions
                       THEN Value(s, fetched[s].extensions[n].meta)
                       ELSE MergeMetadata(s, merged.extensions[n], fetched[s].extensions[n].meta)
<1> DEFINE exts == fetched[s].extensions
           known == merged.extensions
           raw == MergedExtensions(known, s, exts)
           new == merged'.extensions
           vs(n) == MergeVersions(s, Known(n), Given(s, n))
           meta(n) == IF n \notin DOMAIN exts THEN known[n].meta
                      ELSE IF n \notin DOMAIN known THEN Value(s, exts[n].meta)
                      ELSE MergeMetadata(s, known[n], exts[n].meta)
<1>0. Inputs
  BY DEF MInv
<1>1. new = Stripped(raw)
  BY DEF MergeInto
<1>2. DOMAIN raw = DOMAIN known \cup DOMAIN exts /\ DOMAIN new = DOMAIN raw
  BY <1>1 DEF MergedExtensions, Stripped
<1>3. DOMAIN known \subseteq Name /\ DOMAIN exts \subseteq Name
  BY <1>0, KnownType, AnswerType
<1>4. ASSUME NEW n \in DOMAIN new
      PROVE  new[n] \in Merged /\ new[n].versions = vs(n) /\ new[n].meta = meta(n)
  <2>1. n \in Name /\ new[n] = [raw[n] EXCEPT !.priority = DefaultPriority]
    BY <1>1, <1>2, <1>3 DEF Stripped
  <2>2. vs(n) \in Versions
    BY <1>0, KnownType, GivenType, MergeVersionsType
  <2>3. n \in DOMAIN known => known[n] \in Merged
    BY KnownType
  <2>4. meta(n) \in Origin
    <3>1. {s} \in Origin /\ {} \in Origin
      BY DEF Origin
    <3> QED BY <1>2, <2>3, <3>1 DEF Merged, Value, MergeMetadata
  <2>5. raw[n] = [meta |-> meta(n), priority |-> raw[n].priority, versions |-> vs(n)]
    <3>1. CASE n \notin DOMAIN exts
      <4>1. raw[n] = known[n] /\ n \in DOMAIN known
        BY <1>2, <3>1 DEF MergedExtensions
      <4>2. vs(n) = known[n].versions
        BY <2>3, <3>1, <4>1, MergeNothing DEF Known, Given, Merged
      <4> HIDE DEF vs
      <4> QED BY <2>3, <3>1, <4>1, <4>2 DEF Merged
    <3>2. CASE n \in DOMAIN exts /\ n \notin DOMAIN known
      <4>1. raw[n] = NewExtension(s, exts[n])
        BY <1>2, <3>2 DEF MergedExtensions
      <4>2. vs(n) = MergeVersions(s, <<>>, exts[n].versions)
        BY <3>2 DEF Known, Given
      <4> HIDE DEF vs
      <4> QED BY <3>2, <4>1, <4>2 DEF NewExtension
    <3>3. CASE n \in DOMAIN exts /\ n \in DOMAIN known
      <4>1. raw[n] = MergeExtension(s, known[n], exts[n])
        BY <1>2, <3>3 DEF MergedExtensions
      <4>2. vs(n) = MergeVersions(s, known[n].versions, exts[n].versions)
        BY <3>3 DEF Known, Given
      <4> HIDE DEF vs
      <4> QED BY <3>3, <4>1, <4>2 DEF MergeExtension
    <3> QED BY <3>1, <3>2, <3>3
  <2> HIDE DEF vs, meta
  <2> QED BY <2>1, <2>2, <2>4, <2>5 DEF Merged
<1>5. new \in [DOMAIN new -> Merged]
  BY <1>1, <1>4 DEF Stripped
<1>6. new \in Partial(Name, Merged)
  BY <1>2, <1>3, <1>5, PartialIn
<1> QED BY <1>2, <1>4, <1>6

LEMMA MergePublishers ==
    ASSUME MInv, NEW s \in Source, merged' = MergeInto(merged, s)
    PROVE  merged'.publishers \in Partial(Publisher, Key)
<1> DEFINE pubs == fetched[s].publishers
           known == merged.publishers
           raw == MergedPublishers(known, s, pubs)
           new == merged'.publishers
<1>1. new = Stripped(raw)
  BY DEF MergeInto
<1>2. DOMAIN raw = DOMAIN known \cup DOMAIN pubs /\ DOMAIN new = DOMAIN raw
  BY <1>1 DEF MergedPublishers, Stripped
<1>3. DOMAIN known \subseteq Publisher /\ \A p \in DOMAIN known : known[p] \in Key
  BY PartialOut DEF MInv
<1>4. DOMAIN pubs \subseteq Publisher
  BY AnswerType, PartialOut DEF MInv
<1>5. ASSUME NEW p \in DOMAIN new PROVE new[p] \in Key
  <2>1. new[p] = [raw[p] EXCEPT !.priority = DefaultPriority]
    BY <1>1, <1>2 DEF Stripped
  <2>2. Value(s, pubs[p]) \in Origin
    BY DEF Value, Origin
  <2>3. raw[p] \in [key : Origin, priority : {raw[p].priority}]
    BY <1>2, <1>3, <2>2 DEF MergedPublishers, NewPublisher, MergePublisher, Key
  <2> QED BY <2>1, <2>3 DEF Key
<1>6. new \in [DOMAIN new -> Key]
  BY <1>1, <1>5 DEF Stripped
<1> QED BY <1>2, <1>3, <1>4, <1>6, PartialIn

LEMMA HeardStep ==
    ASSUME Inputs
    PROVE  /\ Merge => Heard' = Heard \cup {pos + 1} /\ pos + 1 \in Source
           /\ Skip => Heard' = Heard
  BY NextSource DEF Merge, Skip, Heard

LEMMA Shapes == Spec => []MInv
<1>1. Init => MInv
  BY InputsInit, EmptyPartial DEF Init, MInv, Heard
<1>2. MInv /\ [Next]_vars => MInv'
  <2> SUFFICES ASSUME MInv, [Next]_vars PROVE MInv'
    OBVIOUS
  <2>1. Inputs /\ Inputs'
    BY InputsStep DEF MInv
  <2>2. CASE Merge
    <3>1. merged' = MergeInto(merged, pos + 1) /\ pos + 1 \in Source
      BY <2>1, <2>2, HeardStep DEF Merge
    <3>2. merged'.sources = merged.sources \cup {pos + 1}
      BY <3>1 DEF MergeInto
    <3>3. merged'.sources = Heard'
      BY <2>1, <2>2, <3>2, HeardStep DEF MInv
    <3>4. merged'.extensions \in Partial(Name, Merged)
      BY <3>1, MergeOne
    <3>5. merged'.publishers \in Partial(Publisher, Key)
      BY <3>1, MergePublishers
    <3>6. Merged' = Merged
      BY <2>2 DEF Merge, Merged, Versions, Entry, Rank
    <3> QED BY <2>1, <3>3, <3>4, <3>5, <3>6 DEF MInv
  <2>3. CASE Skip
    <3>1. merged' = merged /\ Merged' = Merged
      BY <2>3 DEF Skip, Merged, Versions, Entry, Rank
    <3>2. Heard' = Heard
      BY <2>1, <2>3, HeardStep
    <3> QED BY <2>1, <3>1, <3>2 DEF MInv
  <2>4. CASE UNCHANGED vars
    <3>1. merged' = merged /\ Merged' = Merged /\ Heard' = Heard
      BY <2>4 DEF vars, Merged, Versions, Entry, Rank, Heard
    <3> QED BY <2>1, <3>1 DEF MInv
  <2> QED BY <2>2, <2>3, <2>4 DEF Next
<1> QED BY <1>1, <1>2, PTL DEF Spec

(* The merged index keeps its shape, and priorities are stripped from all    *)
(* but the versions.                                                         *)
THEOREM Typing == Spec => []TypeOK
<1>1. MInv => TypeOK
  BY DEF MInv, Inputs, TypeOK, Rank, Origin, Entry, Versions, Merged, Key
<1> QED BY <1>1, Shapes, PTL

-----------------------------------------------------------------------------
(* What the merged index says, in terms of what was heard of each source.    *)

Gives(n, v) == {s \in Heard : v \in DOMAIN Given(s, n)}

\* A version is known if some source gives it, and ranks no lower than any.
VersionsRanked ==
  \A n \in Name, v \in Version :
    /\ v \in DOMAIN Known(n) <=> Gives(n, v) # {}
    /\ v \in DOMAIN Known(n) =>
         \A r \in Gives(n, v) : Known(n)[v].priority <= priority[r]

\* An extension is in the index if some source describes it.
NamesHeard ==
  \A n \in Name : n \in DOMAIN merged.extensions <=> Describing(n) # {}

\* The inductive invariant.  The rank of a version is what lets a build win or
\* lose, so TargetFromHighest needs VersionsRanked; a description is lost to a
\* first source only if the extension was unknown, hence NamesHeard.
IInv == MInv /\ VersionsRanked /\ NamesHeard /\ NothingLost /\ TargetFromHighest
             /\ MetadataNotErased

LEMMA ListingIs ==
    ASSUME NEW n, NEW v, NEW t
    PROVE  Listing(n, v, t) = {s \in Gives(n, v) : t \in Given(s, n)[v]}
  BY EmptyPartial DEF Listing, Describing, Gives, Given

LEMMA InMergedIs ==
    ASSUME NEW n, NEW v, NEW t
    PROVE  /\ InMerged(n, v, t) <=>
                v \in DOMAIN Known(n) /\ t \in DOMAIN Known(n)[v].targets
           /\ v \in DOMAIN Known(n) =>
                n \in DOMAIN merged.extensions /\ Known(n) = merged.extensions[n].versions
  BY EmptyPartial DEF InMerged, Known

(* One merge changes what is known of an extension to MergeVersions of it.   *)
LEMMA KnownStep ==
    ASSUME MInv, Merge, NEW n \in Name
    PROVE  /\ Known(n)' = MergeVersions(pos + 1, Known(n), Given(pos + 1, n))
           /\ \A q : Given(q, n)' = Given(q, n)
           /\ n \in DOMAIN merged'.extensions <=>
                n \in DOMAIN merged.extensions \/ n \in DOMAIN fetched[pos + 1].extensions
<1> DEFINE s == pos + 1
<1>1. merged' = MergeInto(merged, s) /\ s \in Source /\ Inputs
  BY HeardStep DEF Merge, MInv
<1>2. \A q : Given(q, n)' = Given(q, n)
  BY DEF Given, Merge
<1>3. DOMAIN merged'.extensions = DOMAIN merged.extensions \cup DOMAIN fetched[s].extensions
  BY <1>1, MergeOne
<1>4. CASE n \in DOMAIN merged'.extensions
  <2>1. merged'.extensions[n].versions = MergeVersions(s, Known(n), Given(s, n))
    BY <1>1, <1>4, MergeOne
  <2>2. Known(n)' = merged'.extensions[n].versions
    BY <1>4 DEF Known
  <2> QED BY <1>2, <1>3, <2>1, <2>2
<1>5. CASE n \notin DOMAIN merged'.extensions
  <2>1. Known(n) = <<>> /\ Given(s, n) = <<>> /\ Known(n)' = <<>>
    BY <1>3, <1>5 DEF Known, Given
  <2>2. <<>> \in Versions
    BY EmptyPartial DEF Versions
  <2>3. MergeVersions(s, <<>>, <<>>) = <<>>
    BY <1>1, <2>2, MergeNothing
  <2> QED BY <1>2, <1>3, <2>1, <2>3
<1> QED BY <1>4, <1>5

LEMMA MergeKeeps ==
    ASSUME IInv, Merge
    PROVE  /\ VersionsRanked' /\ NamesHeard' /\ NothingLost' /\ TargetFromHighest'
           /\ MetadataNotErased'
<1> DEFINE s == pos + 1
<1>0. MInv /\ Inputs /\ priority' = priority /\ fetched' = fetched
  BY DEF IInv, MInv, Merge
<1>1. /\ merged' = MergeInto(merged, s) /\ s \in Source /\ s \notin Heard
      /\ Heard' = Heard \cup {s}
      /\ \A r \in Heard : r \in Source /\ priority[r] <= priority[s]
  BY <1>0, HeardStep, NextSource DEF Merge, Heard, Inputs
<1>2. /\ \A r \in Source : priority[r] \in Nat
      /\ fetched[s].ok
  BY <1>0 DEF Inputs, Merge
<1>3. ASSUME NEW n \in Name
      PROVE  /\ Describing(n)' = IF n \in DOMAIN fetched[s].extensions
                                   THEN Describing(n) \cup {s} ELSE Describing(n)
             /\ \A v : Gives(n, v)' = IF v \in DOMAIN Given(s, n)
                                        THEN Gives(n, v) \cup {s} ELSE Gives(n, v)
  BY <1>0, <1>1, <1>3, KnownStep DEF Describing, Gives
<1>4. NamesHeard'
  BY <1>0, <1>3, KnownStep DEF NamesHeard, IInv
<1>5. ASSUME NEW n \in Name, NEW v \in Version
      PROVE  /\ v \in DOMAIN Known(n)' <=> v \in DOMAIN Known(n) \/ v \in DOMAIN Given(s, n)
             /\ v \notin DOMAIN Given(s, n) => Known(n)'[v] = Known(n)[v]
                                                 \/ v \notin DOMAIN Known(n)
             /\ v \in DOMAIN Given(s, n) /\ v \notin DOMAIN Known(n) =>
                  Known(n)'[v] = NewVersion(s, Given(s, n)[v])
             /\ v \in DOMAIN Given(s, n) /\ v \in DOMAIN Known(n) =>
                  Known(n)'[v] = MergeTargets(s, Known(n)[v], Given(s, n)[v])
  BY <1>0, KnownStep DEF MergeVersions
<1>6. ASSUME NEW n \in Name, NEW v \in Version, v \in DOMAIN Known(n)
      PROVE  Known(n)[v].priority \in Nat
             /\ \A t \in DOMAIN Known(n)[v].targets : Known(n)[v].targets[t] \in Source
  <2>1. Known(n)[v] \in Entry
    BY <1>0, <1>6, KnownType, PartialOut DEF Versions
  <2> QED BY <1>2, <2>1, PartialOut DEF Entry, Rank
<1>7. VersionsRanked'
  <2> SUFFICES ASSUME NEW n \in Name, NEW v \in Version
               PROVE  /\ v \in DOMAIN Known(n)' <=> Gives(n, v)' # {}
                      /\ v \in DOMAIN Known(n)' =>
                           \A r \in Gives(n, v)' : Known(n)'[v].priority <= priority[r]
    BY <1>0 DEF VersionsRanked
  <2>1. /\ v \in DOMAIN Known(n) <=> Gives(n, v) # {}
        /\ v \in DOMAIN Known(n) =>
             \A r \in Gives(n, v) : Known(n)[v].priority <= priority[r]
    BY DEF IInv, VersionsRanked
  <2>2. Gives(n, v) \subseteq Source
    BY <1>1 DEF Gives
  <2>3. CASE v \notin DOMAIN Given(s, n)
    BY <1>3, <1>5, <2>1, <2>3
  <2>4. CASE v \in DOMAIN Given(s, n) /\ v \notin DOMAIN Known(n)
    <3>1. Known(n)'[v] = NewVersion(s, Given(s, n)[v])
      BY <1>5, <2>4
    <3>2. Known(n)'[v].priority = priority[s]
      BY <3>1 DEF NewVersion
    <3>3. Gives(n, v)' = {s}
      BY <1>3, <2>1, <2>4
    <3> QED BY <1>1, <1>2, <1>5, <2>4, <3>2, <3>3
  <2>5. CASE v \in DOMAIN Given(s, n) /\ v \in DOMAIN Known(n)
    <3>1. Known(n)'[v] = MergeTargets(s, Known(n)[v], Given(s, n)[v])
      BY <1>5, <2>5
    <3>2. Known(n)'[v].priority
            = IF priority[s] <= Known(n)[v].priority THEN priority[s] ELSE Known(n)[v].priority
      BY <3>1 DEF MergeTargets
    <3>3. Gives(n, v)' = Gives(n, v) \cup {s}
      BY <1>3, <2>5
    <3>4. /\ Known(n)[v].priority \in Nat /\ priority[s] \in Nat
          /\ \A r \in Gives(n, v) : priority[r] \in Nat /\ Known(n)[v].priority <= priority[r]
      BY <1>1, <1>2, <1>6, <2>1, <2>2, <2>5
    <3>5. v \in DOMAIN Known(n)'
      BY <1>5, <2>5
    <3> QED BY <3>2, <3>3, <3>4, <3>5
  <2> QED BY <2>3, <2>4, <2>5
<1>8. ASSUME NEW n \in Name, NEW v \in Version, NEW t \in Target
      PROVE  /\ InMerged(n, v, t)' <=> Listing(n, v, t)' # {}
             /\ InMerged(n, v, t)' =>
                  LET q == Known(n)'[v].targets[t]
                  IN  q \in Listing(n, v, t)'
                      /\ \A r \in Listing(n, v, t)' : priority[q] <= priority[r]
  <2> DEFINE lists == v \in DOMAIN Given(s, n) /\ t \in Given(s, n)[v]
             L == Listing(n, v, t)
             K == Known(n)
             kept == v \in DOMAIN K /\ t \in DOMAIN K[v].targets
  <2>1. L = {r \in Gives(n, v) : t \in Given(r, n)[v]}
    BY ListingIs
  <2>2. Listing(n, v, t)' = {r \in Gives(n, v)' : t \in Given(r, n)'[v]}
    BY EmptyPartial DEF Listing, Describing, Gives, Given
  <2>3. Listing(n, v, t)' = IF lists THEN L \cup {s} ELSE L
    BY <1>0, <1>1, <1>3, <2>1, <2>2, KnownStep DEF Gives
  <2>4. InMerged(n, v, t)' <=> v \in DOMAIN K' /\ t \in DOMAIN K'[v].targets
    BY EmptyPartial DEF InMerged, Known
  <2>5. /\ kept <=> L # {}
        /\ kept => /\ K[v].targets[t] \in L
                   /\ \A r \in L : priority[K[v].targets[t]] <= priority[r]
    BY InMergedIs DEF IInv, NothingLost, TargetFromHighest
  <2>6. L \subseteq Gives(n, v) /\ L \subseteq Source /\ L \subseteq Heard
    BY <1>1, <2>1 DEF Gives
  <2>7. v \in DOMAIN K => \A r \in Gives(n, v) : K[v].priority <= priority[r]
    BY DEF IInv, VersionsRanked
  <2> HIDE DEF L
  <2>8. CASE v \notin DOMAIN Given(s, n)
    BY <1>5, <2>3, <2>4, <2>5, <2>8
  <2>9. CASE v \in DOMAIN Given(s, n) /\ v \notin DOMAIN K
    <3>0. K'[v] = NewVersion(s, Given(s, n)[v])
      BY <1>5, <2>9
    <3>1. K'[v].targets = [u \in Given(s, n)[v] |-> s]
      BY <3>0 DEF NewVersion
    <3>2. InMerged(n, v, t)' <=> lists
      BY <1>5, <2>4, <2>9, <3>1
    <3>3. L = {}
      BY <2>5, <2>9
    <3> QED BY <1>2, <1>1, <2>3, <3>1, <3>2, <3>3
  <2>10. CASE v \in DOMAIN Given(s, n) /\ v \in DOMAIN K
    <3> DEFINE wins == priority[s] <= K[v].priority
    <3>1. K'[v].targets = [u \in Given(s, n)[v] \cup DOMAIN K[v].targets |->
                             IF u \in Given(s, n)[v] /\ (wins \/ u \notin DOMAIN K[v].targets)
                               THEN s ELSE K[v].targets[u]]
      <4>1. K'[v] = MergeTargets(s, K[v], Given(s, n)[v])
        BY <1>5, <2>10
      <4> QED BY <4>1 DEF MergeTargets
    <3>2. InMerged(n, v, t)' <=> lists \/ kept
      BY <1>5, <2>4, <2>10, <3>1
    <3>3. CASE lists /\ (wins \/ ~kept)
      <4>1. K'[v].targets[t] = s
        BY <2>10, <3>1, <3>3
      <4>2. \A r \in L : priority[s] <= priority[r]
        BY <1>2, <1>1, <1>6, <2>5, <2>6, <2>7, <2>10, <3>3
      <4> QED BY <1>1, <1>2, <2>3, <3>2, <3>3, <4>1, <4>2
    <3>4. CASE ~lists /\ ~kept
      BY <2>3, <2>5, <3>2, <3>4
    <3>5. CASE kept /\ ~(lists /\ wins)
      <4>1. K'[v].targets[t] = K[v].targets[t]
        BY <2>10, <3>1, <3>5
      <4>2. priority[K[v].targets[t]] <= priority[s]
        BY <1>1, <2>5, <2>6, <3>5
      <4> QED BY <2>3, <2>5, <3>2, <3>5, <4>1, <4>2
    <3> QED BY <3>3, <3>4, <3>5
  <2> QED BY <2>8, <2>9, <2>10
<1>9. NothingLost'
  BY <1>8 DEF NothingLost
<1>10. TargetFromHighest'
  <2>1. ASSUME NEW n \in Name, NEW v \in Version, NEW t \in Target, InMerged(n, v, t)'
        PROVE  Known(n)'[v].targets[t] = merged'.extensions[n].versions[v].targets[t]
    BY <2>1 DEF InMerged, Known
  <2> QED BY <1>0, <1>8, <2>1 DEF TargetFromHighest
<1>11. MetadataNotErased'
  <2> DEFINE exts == fetched[s].extensions
             known == merged.extensions
  <2> SUFFICES ASSUME NEW n \in DOMAIN merged'.extensions, merged'.extensions[n].meta = {},
                      NEW r \in Describing(n)', fetched[r].extensions[n].meta
               PROVE  priority[r] > DefaultPriority
    BY <1>0 DEF MetadataNotErased
  <2>1. n \in Name
    BY <1>0, <1>1, MergeOne, PartialOut
  <2>2. merged'.extensions[n].meta =
          IF n \notin DOMAIN exts THEN known[n].meta
          ELSE IF n \notin DOMAIN known THEN Value(s, exts[n].meta)
          ELSE MergeMetadata(s, known[n], exts[n].meta)
    BY <1>0, <1>1, MergeOne
  <2>3. n \in DOMAIN known => known[n].priority = DefaultPriority
    BY <1>0, KnownType DEF Merged
  <2>4. n \in DOMAIN known /\ known[n].meta = {} /\ r \in Describing(n)
          => priority[r] > DefaultPriority
    BY DEF IInv, MetadataNotErased
  <2>5. n \notin DOMAIN known => Describing(n) = {}
    BY <2>1 DEF IInv, NamesHeard
  <2>6. CASE n \notin DOMAIN exts
    BY <1>3, <2>1, <2>2, <2>4, <2>5, <2>6
  <2>7. CASE n \in DOMAIN exts /\ n \notin DOMAIN known
    BY <1>3, <2>1, <2>2, <2>5, <2>7 DEF Value
  <2>8. CASE n \in DOMAIN exts /\ n \in DOMAIN known
    BY <1>1, <1>2, <1>3, <2>1, <2>2, <2>3, <2>4, <2>8 DEF MergeMetadata, DefaultPriority
  <2> QED BY <2>6, <2>7, <2>8
<1> QED BY <1>4, <1>7, <1>9, <1>10, <1>11

LEMMA Invariance == Spec => []IInv
<1>1. Init => IInv
  <2> SUFFICES ASSUME Init PROVE IInv
    OBVIOUS
  <2>1. MInv
    BY InputsInit, EmptyPartial DEF Init, MInv, Heard
  <2>2. DOMAIN merged.extensions = {} /\ Heard = {}
    BY EmptyPartial, IndexMergeAssumption DEF Init, Heard
  <2>3. /\ \A n : Known(n) = <<>> /\ Describing(n) = {}
        /\ \A n, v : Gives(n, v) = {}
        /\ \A n, v, t : Listing(n, v, t) = {}
    BY <2>2 DEF Known, Describing, Gives, Listing
  <2> QED BY <2>1, <2>2, <2>3, EmptyPartial
       DEF IInv, VersionsRanked, NamesHeard, NothingLost, TargetFromHighest,
           MetadataNotErased, InMerged
<1>2. IInv /\ MInv' /\ [Next]_vars => IInv'
  <2> SUFFICES ASSUME IInv, MInv', [Next]_vars PROVE IInv'
    OBVIOUS
  <2>1. CASE Merge
    BY <2>1, MergeKeeps DEF IInv
  <2>2. CASE Skip \/ UNCHANGED vars
    <3>1. /\ merged' = merged /\ fetched' = fetched /\ priority' = priority
      BY <2>2 DEF Skip, vars
    <3>2. Heard' = Heard
      BY <2>2, HeardStep DEF vars, Heard, IInv, MInv
    <3>3. VersionsRanked'
      BY <3>1, <3>2 DEF IInv, VersionsRanked, Known, Gives, Given
    <3>4. NamesHeard'
      BY <3>1, <3>2 DEF IInv, NamesHeard, Describing
    <3>5. \A n, v, t : InMerged(n, v, t)' = InMerged(n, v, t)
                       /\ Listing(n, v, t)' = Listing(n, v, t)
      BY <3>1, <3>2 DEF InMerged, Listing, Describing
    <3>6. NothingLost' /\ TargetFromHighest'
      BY <3>1, <3>5 DEF IInv, NothingLost, TargetFromHighest
    <3>7. MetadataNotErased'
      BY <3>1, <3>2 DEF IInv, MetadataNotErased, Describing
    <3> QED BY <3>3, <3>4, <3>6, <3>7 DEF IInv
  <2> QED BY <2>1, <2>2 DEF Next
<1> QED BY <1>1, <1>2, Shapes, PTL DEF Spec

(* Every build that some reachable source lists is in the merged index, and  *)
(* nothing else is.                                                          *)
THEOREM EveryBuildListed == Spec => []NothingLost
<1>1. IInv => NothingLost
  BY DEF IInv
<1> QED BY <1>1, Invariance, PTL

(* A build that several sources list comes from one that ranks highest.      *)
THEOREM HighestTarget == Spec => []TargetFromHighest
<1>1. IInv => TargetFromHighest
  BY DEF IInv
<1> QED BY <1>1, Invariance, PTL

(* A description is not lost to a source that gives none.                    *)
THEOREM DescriptionsKept == Spec => []MetadataNotErased
<1>1. IInv => MetadataNotErased
  BY DEF IInv
<1> QED BY <1>1, Invariance, PTL
=============================================================================
