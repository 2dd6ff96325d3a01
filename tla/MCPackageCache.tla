--------------------------- MODULE MCPackageCache ---------------------------
(***************************************************************************)
(* Small instances of PackageCache.                                        *)
(***************************************************************************)
EXTENDS PackageCache

CONSTANTS p1, p2, t1, t2

(* Task t1 synchronises a source that lists p1 only; t2 one that lists     *)
(* every package, or the same source later.  The filters of t1 let p1      *)
(* pass, those of t2 everything else.                                      *)
MCIndex    == [t \in Task |-> IF t = t1 THEN {p1} ELSE Pkg]
MCSelected == [t \in Task |-> IF t = t1 THEN {p1} ELSE Pkg \ {p1}]
=============================================================================
