--------------------------- MODULE MCStoreSession ---------------------------
(* Instances of StoreSession: what the users run, and where they live.       *)
EXTENDS StoreSession

CONSTANTS alice, bob, p1, m2

Abroad == [a \in Accounts |-> "143443"]
AtHome == [a \in Accounts |-> US]

Login(a, r) == [cmd |-> "login", who |-> a, remember |-> r, buy |-> FALSE, env |-> None]

Does(c) == [Login(alice, FALSE) EXCEPT !.cmd = c]

Download == [Does("download") EXCEPT !.buy = TRUE]

Under(m, c) == [c EXCEPT !.env = m]

\* Two users of one state directory: alice logs in, remembering her password, and revokes;
\* bob logs in under PERUN_MAC and purchases, with whatever account he finds.
Mixed ==
  [p \in Procs |->
     IF p = p1 THEN {Login(alice, TRUE), Does("revoke")}
     ELSE {Under(m2, Login(bob, FALSE)), Does("purchase")}]

\* A user who searches, lists and downloads, and buys what is missing.
Readers == [p \in Procs |-> {Does("search"), Does("list"), Download}]

\* One user, who logs in and once exports PERUN_MAC.
Overriding == [p \in Procs |-> {Login(alice, TRUE), Under(m2, Login(alice, TRUE))}]
=============================================================================
