------------------------------- MODULE Login --------------------------------
(***************************************************************************)
(* `perun auth login`: cmd_auth_login resets the cookie jar, prepares a    *)
(* signer and calls appstore::login, which posts the credentials to        *)
(* MZFinance. Between the two stand Apple's edge, which may shed a request *)
(* or throttle it, and pods, which redirect it. login re-sends the same    *)
(* signed bytes up to three times, starts over once, and hands a refusal   *)
(* that asks for a verification code back to the command, which prompts.   *)
(*                                                                         *)
(* The service is modelled with it: which code it has pushed to the user's *)
(* devices. A request may be lost before or after MZFinance has done its   *)
(* part, and so may the answer to it.                                      *)
(***************************************************************************)
EXTENDS Naturals

CONSTANTS
  Codes,            \* verification codes
  NoCode,
  RunsWith,         \* the flags of the user's runs: [interactive, coded]
  VerdictStatuses   \* statuses under which MZFinance sends a plist

ASSUME LoginAssumption ==
  /\ NoCode \notin Codes
  /\ RunsWith \subseteq [interactive : BOOLEAN, coded : BOOLEAN]
  /\ VerdictStatuses \subseteq 200..599 /\ 200 \in VerdictStatuses

VARIABLES
  password,     \* what Apple makes of the password the user types
  current,      \* the code Apple would take now
  pc,           \* where the command is
  interactive,  \* it may prompt
  code,         \* auth_code
  attempt,      \* login: attempt
  resend,       \* login: how often the body of this attempt was sent again
  res,          \* login: the last answer
  jar,          \* the cookie file: "none", or the "session" of an earlier answer
  vault         \* the account file

service == <<password, current>>
call    == <<code, attempt, resend>>
vars    == <<password, current, pc, interactive, code, attempt, resend, res, jar, vault>>

-----------------------------------------------------------------------------
(* Answers. A verdict is a plist; the edge sends no body, a page that is     *)
(* neither plist nor doctype ("text"), or a `<!DOCTYPE` page ("page").       *)

Refusals == {"Credentials",   \* failureType -5000
             "BadCode",       \* failureType 5005
             "BadLogin",      \* no failureType, MZFinance.BadLogin
             "Disabled",      \* no failureType, the account-disabled message
             "Other"}         \* any other failureType

Verdicts == Refusals \union {"Token", "Incomplete"}

Answer == [status : 200..599, body : {"none", "text", "page", "plist"},
           verdict : Verdicts \union {"none"}, location : {"none", "pod", "other"},
           wait : {"short", "long"}]

Plain(s, b) == [status |-> s, body |-> b, verdict |-> "none", location |-> "none",
                wait |-> "short"]

NoAnswer == Plain(200, "none")

Verdict(s, v) == [Plain(s, "plist") EXCEPT !.verdict = v]

Throttled(w) == [Plain(429, "none") EXCEPT !.wait = w]

Moved(l) == [Plain(302, "none") EXCEPT !.location = l]

\* What the edge answers without asking MZFinance, or in its place.
Shed == {Plain(204, "none"), Plain(404, "text"), Plain(503, "none"), Plain(503, "page"),
         Plain(302, "none"), Plain(403, "text"), Plain(200, "text"),
         Throttled("short"), Throttled("long")}

Redirects == {Moved("pod"), Moved("other")}

\* What MZFinance does with a request that carries code c and the cookies j: its verdict,
\* and the code it takes from then on.
Outcome(c, j) ==
  CASE password = "wrong" ->
         {[verdict |-> v, next |-> current] : v \in {"Credentials", "BadLogin"}}
    [] password = "disabled" -> {[verdict |-> "Disabled", next |-> current]}
    [] password = "plain" -> {[verdict |-> "Token", next |-> current]}
    [] password = "twofactor" /\ c = NoCode /\ j = "none" ->
         {[verdict |-> v, next |-> n] : v \in {"Credentials", "BadLogin"}, n \in Codes}
    [] password = "twofactor" /\ c = NoCode /\ j # "none" ->
         {[verdict |-> "BadCode", next |-> current]}
    [] password = "twofactor" /\ c \in Codes /\ c = current ->
         {[verdict |-> "Token", next |-> NoCode]}
    [] OTHER -> {[verdict |-> v, next |-> current] : v \in {"BadCode", "Credentials", "BadLogin"}}

\* It may also fail for reasons of its own.
Outcomes(c, j) ==
  Outcome(c, j) \union {[verdict |-> v, next |-> current] : v \in {"Other", "Incomplete"}}

-----------------------------------------------------------------------------
(* The two decisions of login.                                               *)

\* A variant that goes by the status alone, and takes every 2xx for a drop.
TokenResent(a) ==
  IF a.status = 429 THEN IF a.wait = "long" THEN "Abort" ELSE "RateLimited"
  ELSE IF a.status \in 200..299 \union {404} \/ a.status >= 500 THEN "Resend" ELSE "Stop"

\* login_retry_action.
RetryAction(a) ==
  CASE a.status = 429 -> IF a.wait = "long" THEN "Abort" ELSE "RateLimited"
    [] a.status # 429 /\ a.body \in {"plist", "page"} -> "Stop"
    [] OTHER ->
         IF \/ a.status \in {204, 404}
            \/ a.status >= 500
            \/ a.status \in 301..399 \ {304} /\ a.location = "none"
         THEN "Resend" ELSE "Stop"

\* A variant that forgets that the first refusal asks for a code.
PromptForgotten(v, c, n) ==
  IF v = "BadCode" \/ (c # NoCode /\ v \in {"Credentials", "BadLogin"}) THEN "InvalidAuthCode"
  ELSE IF v \in Refusals THEN "Failed" ELSE "None"

\* classify_auth_failure: verdict v on attempt n of a login with code c.
AuthFailure(v, c, n) ==
  CASE n = 1 /\ v = "Credentials" /\ c = NoCode -> "AuthCodeRequired"
    [] v = "BadCode" -> "InvalidAuthCode"
    [] c # NoCode /\ v \in {"Credentials", "BadLogin"} -> "InvalidAuthCode"
    [] v \in {"Token", "Incomplete"} -> "None"
    [] OTHER -> "Failed"

-----------------------------------------------------------------------------
(* The command.                                                              *)

Init ==
  /\ password \in {"wrong", "disabled", "plain", "twofactor"}
  /\ current = NoCode
  /\ pc = "idle" /\ interactive = FALSE
  /\ code = NoCode /\ attempt = 1 /\ resend = 0 /\ res = NoAnswer
  /\ jar \in {"none", "session"} /\ vault \in {"none", "saved"}

\* The command returns, with whatever status.
End ==
  /\ pc' = "idle" /\ interactive' = FALSE
  /\ code' = NoCode /\ attempt' = 1 /\ resend' = 0 /\ res' = NoAnswer
  /\ UNCHANGED password

\* cmd_auth_login: the flags and the password are read.
Run ==
  /\ pc = "idle"
  /\ \E r \in RunsWith :
       /\ interactive' = r.interactive
       /\ code' \in IF r.coded THEN Codes ELSE {NoCode}
  /\ pc' = "prepare"
  /\ UNCHANGED <<service, attempt, resend, res, jar, vault>>

\* reset_session, then the bag and the signer; both talk to Apple and may fail.
Prepared ==
  /\ pc = "prepare"
  /\ jar' = "none" /\ pc' = "attempt"
  /\ UNCHANGED <<service, interactive, call, res, vault>>

NotPrepared == pc = "prepare" /\ jar' = "none" /\ End /\ UNCHANGED <<current, vault>>

Prepare == Prepared \/ NotPrepared

\* A variant that counts no attempts.
AttemptUnbounded ==
  /\ pc = "attempt"
  /\ resend' = 0 /\ pc' = "send"
  /\ UNCHANGED <<service, interactive, code, attempt, res, jar, vault>>

\* The head of the loop over attempts: give up, or sign a new body. Signing may fail.
Attempt ==
  /\ pc = "attempt"
  /\ \/ /\ attempt < 3
        /\ resend' = 0 /\ pc' = "send"
        /\ UNCHANGED <<service, interactive, code, attempt, res, jar, vault>>
     \/ End /\ UNCHANGED <<current, jar, vault>>

\* The answer of a send is judged, unless it is the answer to the last re-send.
Received(a) ==
  /\ res' = a
  /\ pc' = IF resend < 3 THEN "judge" ELSE "route"
  /\ UNCHANGED <<password, interactive, call, vault>>

\* send_once gets a verdict of MZFinance, with its cookies.
Reached(o, s) ==
  /\ pc = "send"
  /\ current' = o.next /\ jar' = "session"
  /\ Received(Verdict(s, o.verdict))

\* send_once gets an answer of the edge. If the request was shed, MZFinance may have done
\* its part, of which the command learns nothing.
Dropped(a) ==
  /\ pc = "send"
  /\ \/ UNCHANGED current
     \/ a \in Shed /\ \E o \in Outcomes(code, jar) : current' = o.next
  /\ UNCHANGED jar
  /\ Received(a)

\* send_once gets no answer: the request, or the answer, is lost.
NotAnswered ==
  /\ pc = "send"
  /\ current' \in {current} \union {o.next : o \in Outcomes(code, jar)}
  /\ End
  /\ UNCHANGED <<jar, vault>>

Send ==
  \/ \E o \in Outcomes(code, jar), s \in VerdictStatuses :
       (o.verdict = "Token" => s = 200) /\ Reached(o, s)
  \/ \E a \in Shed \union Redirects : Dropped(a)
  \/ NotAnswered

\* A variant in which a throttled send is repeated for as long as it is throttled.
JudgeUncounted ==
  /\ pc = "judge"
  /\ CASE RetryAction(res) = "Stop" ->
            pc' = "route" /\ UNCHANGED <<service, interactive, call, res, jar, vault>>
       [] RetryAction(res) = "Resend" ->
            /\ resend' = resend + 1 /\ pc' = "send"
            /\ UNCHANGED <<service, interactive, code, attempt, res, jar, vault>>
       [] RetryAction(res) = "RateLimited" ->
            pc' = "send" /\ UNCHANGED <<service, interactive, call, res, jar, vault>>
       [] OTHER -> End /\ UNCHANGED <<current, jar, vault>>

\* The head of the loop over re-sends.
Judge ==
  /\ pc = "judge"
  /\ \/ /\ RetryAction(res) = "Stop"
        /\ pc' = "route"
        /\ UNCHANGED <<service, interactive, call, res, jar, vault>>
     \/ /\ \/ RetryAction(res) = "Resend"
           \/ RetryAction(res) = "RateLimited" /\ resend # 2
        /\ resend' = resend + 1 /\ pc' = "send"
        /\ UNCHANGED <<service, interactive, code, attempt, res, jar, vault>>
     \/ /\ \/ RetryAction(res) = "Abort"
           \/ RetryAction(res) = "RateLimited" /\ resend = 2
        /\ End /\ UNCHANGED <<current, jar, vault>>

IsRedirect(a) == a.status \in 301..399 \ {304} /\ a.location # "none"

\* A variant that takes a 403 for the edge's, in which case the backend is asked again.
ForbiddenShed(a) == a.status \in {204, 403, 404} \/ a.status >= 500

IsShed(a) == a.status \in {204, 404} \/ a.status >= 500

\* After the re-sends: a redirect to a pod repeats the attempt there, a shed request is
\* tried once more, and anything else is read as the verdict.
Route ==
  /\ pc = "route"
  /\ \/ /\ IsRedirect(res) /\ res.location = "pod"
        /\ pc' = "attempt"
        /\ UNCHANGED <<service, interactive, call, res, jar, vault>>
     \/ /\ IsRedirect(res) /\ res.location = "other"
        /\ End /\ UNCHANGED <<current, jar, vault>>
     \/ /\ ~IsRedirect(res) /\ IsShed(res)
        /\ attempt' = attempt + 1 /\ pc' = "attempt"
        /\ UNCHANGED <<service, interactive, code, resend, res, jar, vault>>
     \/ /\ ~IsRedirect(res) /\ ~IsShed(res)
        /\ pc' = "parse"
        /\ UNCHANGED <<service, interactive, call, res, jar, vault>>

Failure == AuthFailure(res.verdict, code, attempt)
Granted == res.verdict = "Token" /\ res.status = 200

\* The verdict is read: an account to save, a prompt, or a failure.
Parse ==
  /\ pc = "parse"
  /\ \/ /\ res.body = "plist" /\ Failure = "None" /\ Granted
        /\ pc' = "save"
        /\ UNCHANGED <<service, interactive, call, res, jar, vault>>
     \/ /\ res.body = "plist" /\ interactive
        /\ Failure \in {"AuthCodeRequired", "InvalidAuthCode"}
        /\ pc' = "prompt"
        /\ UNCHANGED <<service, interactive, call, res, jar, vault>>
     \/ /\ \/ res.body # "plist"
           \/ Failure = "Failed"
           \/ Failure = "None" /\ ~Granted
           \/ Failure \in {"AuthCodeRequired", "InvalidAuthCode"} /\ ~interactive
        /\ End /\ UNCHANGED <<current, jar, vault>>

\* The user types a code, and login is called again.
Type(c) ==
  /\ pc = "prompt"
  /\ code' = c /\ attempt' = 1 /\ resend' = 0 /\ pc' = "attempt" /\ res' = NoAnswer
  /\ UNCHANGED <<service, interactive, jar, vault>>

\* The user types nothing.
Quit == pc = "prompt" /\ End /\ UNCHANGED <<current, jar, vault>>

\* account::save, which may fail.
Saved == pc = "save" /\ vault' = "saved" /\ End /\ UNCHANGED <<current, jar>>

NotSaved == pc = "save" /\ End /\ UNCHANGED <<current, jar, vault>>

Save == Saved \/ NotSaved

\* The process is killed; fs::write is not atomic.
Kill ==
  /\ pc # "idle"
  /\ vault' = vault \/ (pc = "save" /\ vault' = "torn")
  /\ End
  /\ UNCHANGED <<current, jar>>

Work ==
  \/ Run \/ Prepare \/ Attempt \/ Send \/ Judge \/ Route \/ Parse
  \/ (\E c \in Codes : Type(c)) \/ Quit \/ Save

Next == Work \/ Kill

Spec == Init /\ [][Next]_vars

-----------------------------------------------------------------------------
(* Fairness: the command does not stop between two steps, every request gets *)
(* its answer or fails, and the user answers prompts and comes back.         *)

FairSpec == Spec /\ WF_vars(Work)

\* MZFinance answers with what it knows, under status 200, and asks for a code as such.
WellAnswered ==
  \E o \in Outcome(code, jar) :
    /\ password = "twofactor" /\ code = NoCode /\ jar = "none" => o.verdict = "Credentials"
    /\ Reached(o, 200)

\* The steps of a login that nothing disturbs: the user runs the command on a terminal and
\* without --auth-code, requests are answered, files are written, the user types the code
\* that was pushed and leaves a prompt for which there is none.
Undisturbed ==
  \/ Run /\ interactive' /\ code' = NoCode
  \/ Prepared \/ Saved \/ WellAnswered \/ Judge \/ Route \/ Parse
  \/ Attempt /\ (pc' = "send" \/ attempt = 3)
  \/ current # NoCode /\ Type(current)
  \/ current = NoCode /\ Quit

-----------------------------------------------------------------------------
(* Properties.                                                               *)

TypeOK ==
  /\ password \in {"wrong", "disabled", "plain", "twofactor"}
  /\ current \in Codes \union {NoCode}
  /\ pc \in {"idle", "prepare", "attempt", "send", "judge", "route", "parse", "prompt", "save"}
  /\ interactive \in BOOLEAN /\ code \in Codes \union {NoCode}
  /\ attempt \in 1..3 /\ resend \in 0..3 /\ res \in Answer
  /\ jar \in {"none", "session"} /\ vault \in {"none", "torn", "saved"}

\* A verdict of MZFinance is final: the login that received it sends nothing more, neither
\* in the loop over re-sends nor as a new attempt, until the user has typed a code
\* (LoginRetry::Stop in appstore.rs: "A real backend verdict (a plist reply or 403)").
VerdictFinal == pc \in {"attempt", "send"} => res.body # "plist"

\* The re-sends, the attempts and the prompts come to an end: a command returns, unless pods
\* redirect it for ever or the user types codes for ever (appstore::login counts neither).
Ends ==
  <>[][~(pc = "route" /\ pc' = "attempt" /\ attempt' = attempt)
       /\ ~(pc = "prompt" /\ pc' = "attempt")]_vars => []<>(pc = "idle")

\* However the logins so far were shed, throttled, redirected, lost after Apple had processed
\* them, refused or killed: once nothing disturbs them any more, a user with the right
\* password ends up with a saved account. No code that Apple has pushed and forgotten, no
\* cookie left by an earlier answer and no torn file keeps the next login from succeeding.
LoggedIn ==
  password \in {"plain", "twofactor"} /\ <>[][Undisturbed]_vars => <>[](vault = "saved")

\* The phases of SignIn. A command knows Apple's verdict while it holds the plist that says
\* it; whatever it does without one is part of a try.
Phase ==
  CASE pc = "idle" -> "out"
    [] pc = "prompt" -> "asking"
    [] pc \notin {"idle", "prompt"} /\ res.body = "plist" ->
         IF res.verdict = "Token" THEN "accepted" ELSE "refused"
    [] OTHER -> "trying"

Abstract == INSTANCE SignIn WITH phase <- Phase

\* The whole exchange is one of SignIn. Nothing that comes after the answer with the token,
\* no judging of its status, no redirect, no second attempt and no classification, makes the
\* command send again, prompt, or take it for a refusal; a refusal is never followed by
\* another request without the user's code; a prompt follows nothing but a refusal; and the
\* account file changes only while the command holds the token.
ImplementsSignIn == Abstract!Spec
=============================================================================
