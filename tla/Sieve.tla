------------------------------- MODULE Sieve -------------------------------
(***************************************************************************)
(* What the modules of the store lane have in common: the empty string,    *)
(* and what a loop over a sequence lets through (Vec::retain, or a loop    *)
(* that skips).                                                            *)
(***************************************************************************)
EXTENDS Integers, SequencesExt

Empty == ""

\* The elements of a sequence that lie in V, in their order, each as often as it occurs.
Keep(s, V) ==
  LET kept[n \in 0..Len(s)] ==
        IF n = 0 THEN <<>> ELSE IF s[n] \in V THEN Append(kept[n - 1], s[n]) ELSE kept[n - 1] IN
  kept[Len(s)]
=============================================================================
