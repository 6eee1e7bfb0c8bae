------------------------------- MODULE SignIn -------------------------------
(***************************************************************************)
(* What a login promises, whatever the network does to its requests. A     *)
(* command tries until it holds a verdict of Apple; a verdict is the last  *)
(* word of that try. After a refusal the command asks the user for a code  *)
(* or gives up; after the acceptance it keeps the account or gives up, and *)
(* neither tries nor asks again. The account file is written only after    *)
(* the acceptance.                                                         *)
(***************************************************************************)
CONSTANTS Codes, NoCode

VARIABLES
  phase,    \* "out" of the command, "trying", "refused", "asking" for a code, "accepted"
  current,  \* the verification code Apple would take now
  vault     \* the account file: "none", "torn" by a crash, or "saved"

vars == <<phase, current, vault>>

Init == phase = "out" /\ current = NoCode /\ vault \in {"none", "saved"}

\* A command starts.
Begin == phase = "out" /\ phase' = "trying" /\ UNCHANGED <<current, vault>>

\* A request is processed and its answer lost; the command knows nothing of it and tries on.
Lose ==
  /\ phase = "trying"
  /\ current' \in Codes \union {NoCode}
  /\ UNCHANGED <<phase, vault>>

\* Apple refuses the request, and may push a new code to the user's devices.
Refuse ==
  /\ phase = "trying" /\ phase' = "refused"
  /\ current' \in Codes \union {current}
  /\ UNCHANGED vault

\* Apple accepts the credentials; a code is good for one login.
Accept ==
  /\ phase = "trying" /\ phase' = "accepted"
  /\ current' \in {current, NoCode}
  /\ UNCHANGED vault

\* The user is asked for a code, and types one.
Ask   == phase = "refused" /\ phase' = "asking" /\ UNCHANGED <<current, vault>>
Reply == phase = "asking" /\ phase' = "trying" /\ UNCHANGED <<current, vault>>

\* The account is saved.
Keep == phase = "accepted" /\ phase' = "out" /\ vault' = "saved" /\ UNCHANGED current

\* The command fails at any moment; a reply may be lost with it, and a process that is
\* killed while it saves leaves a torn file.
GiveUp ==
  /\ phase # "out"
  /\ phase' = "out"
  /\ vault' = vault \/ (phase = "accepted" /\ vault' = "torn")
  /\ current' = current \/ (phase = "trying" /\ current' \in Codes \union {NoCode})

Next == Begin \/ Lose \/ Refuse \/ Accept \/ Ask \/ Reply \/ Keep \/ GiveUp

Spec == Init /\ [][Next]_vars
=============================================================================
