---------------------------- MODULE PackageStore ----------------------------
(***************************************************************************)
(* What the proxy promises its clients: a store of packages, each there as *)
(* a whole or not at all, in which packages come and go one at a time, at  *)
(* any moment.  A client that asks gets the package only while it is there *)
(* and "404" only if it was not there at some moment since it asked.       *)
(* PackageCache implements this as long as nobody downloads a package      *)
(* again in place.                                                         *)
(***************************************************************************)
CONSTANTS Pkg, Request, NoPkg

VARIABLES
    there,          \* packages in the store
    want,           \* what each request asks for, NoPkg between requests
    missed,         \* requests that did not find it and have it fetched
    got             \* the last answer to each request

store == <<there, want, missed, got>>

Init ==
    /\ there = {}
    /\ want = [r \in Request |-> NoPkg]
    /\ missed = {}
    /\ got = [r \in Request |-> "none"]

Ask(r, p) ==
    /\ want[r] = NoPkg
    /\ want' = [want EXCEPT ![r] = p]
    /\ missed' = IF p \in there THEN missed ELSE missed \cup {r}
    /\ UNCHANGED <<there, got>>

(* Nothing is fetched for the clients of a strict proxy. *)
Refuse(r, p) ==
    /\ want[r] = NoPkg
    /\ p \notin there
    /\ got' = [got EXCEPT ![r] = "404"]
    /\ UNCHANGED <<there, want, missed>>

Fetched(r) ==
    /\ r \in missed
    /\ there' = there \cup {want[r]}
    /\ missed' = missed \ {r}
    /\ UNCHANGED <<want, got>>

Tell(r, content) ==
    /\ want[r] # NoPkg
    /\ want' = [want EXCEPT ![r] = NoPkg]
    /\ missed' = missed \ {r}
    /\ got' = [got EXCEPT ![r] = content]

Serve(r) ==
    /\ r \notin missed
    /\ want[r] \in there
    /\ Tell(r, "full")
    /\ UNCHANGED there

Miss(r) ==
    /\ r \in missed \/ want[r] \notin there
    /\ Tell(r, "404")
    /\ UNCHANGED there

(* A fetch that fails takes the package away, whoever has put it there. *)
FetchFails(r) ==
    /\ r \in missed
    /\ Tell(r, "404")
    /\ there' = there \ {want[r]}

(* Synchronisations, evictions and administrators. *)
ComesOrGoes(p) ==
    /\ there' \in {there \cup {p}, there \ {p}}
    /\ UNCHANGED <<want, missed, got>>

Next ==
    \/ \E r \in Request : \/ \E p \in Pkg : Ask(r, p) \/ Refuse(r, p)
                          \/ Fetched(r) \/ Serve(r) \/ Miss(r) \/ FetchFails(r)
    \/ \E p \in Pkg : ComesOrGoes(p)

Spec == Init /\ [][Next]_store
=============================================================================
