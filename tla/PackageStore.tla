---------------------------- MODULE PackageStore ----------------------------
(***************************************************************************)
(* What a user of `perun download` may rely on, with no network and no     *)
(* intermediate file in sight: at each destination there is nothing or one *)
(* whole package; it changes in a single step, to the package the running  *)
(* command was asked for; and a command may end at any time without having *)
(* changed it.                                                             *)
(***************************************************************************)
CONSTANTS
  Targets,   \* the [pkg, dest] pairs commands are run for
  Dests,
  NoPackage,
  NoCommand

VARIABLES
  store,     \* store[d]: the package at destination d
  command    \* the target of the running command

Init ==
  /\ store = [d \in Dests |-> NoPackage]
  /\ command = NoCommand

Begin(t) ==
  /\ command = NoCommand
  /\ command' = t
  /\ UNCHANGED store

Replace ==
  /\ command # NoCommand
  /\ store' = [store EXCEPT ![command.dest] = command.pkg]
  /\ UNCHANGED command

End ==
  /\ command # NoCommand
  /\ command' = NoCommand
  /\ UNCHANGED store

Next == (\E t \in Targets : Begin(t)) \/ Replace \/ End

Spec == Init /\ [][Next]_<<store, command>>

=============================================================================
