----------------------------- MODULE MCDownload -----------------------------
(***************************************************************************)
(* Instances of Download for TLC. Runs for different destinations share no *)
(* file, so each run looks at one destination: an explicit file that two   *)
(* versions of an app are asked into, or a name that belongs to one        *)
(* version.                                                                *)
(***************************************************************************)
EXTENDS Download, TLC

CONSTANTS v1, v2, path

\* The second version is longer, and its second entry starts in its second block.
MCSize    == (v1 :> 2) @@ (v2 :> 4)
MCHeaders == (v1 :> {1}) @@ (v2 :> {1, 2})

\* -o names a file: every version is written there.
SharedTargets == {[pkg |-> v1, dest |-> path], [pkg |-> v2, dest |-> path]}

\* -o names a directory: the file name carries the version.
OwnTarget == {[pkg |-> v2, dest |-> path]}

=============================================================================
