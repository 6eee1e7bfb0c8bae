---------------------------- MODULE LoginProofs -----------------------------
(***************************************************************************)
(* Proofs about Login, for any set of codes and any way of running the     *)
(* command.                                                                *)
(***************************************************************************)
EXTENDS Login, TLAPS

\* Where the loops stand: an answer is judged only while a re-send is left, and an attempt
\* is made only while one is left.
Counted ==
  /\ pc = "judge" => resend < 3
  /\ pc \in {"send", "judge", "route", "parse", "prompt", "save"} => attempt < 3

TypeInv == TypeOK /\ Counted

\* The answers that login can receive.
LEMMA AnswersTyped ==
  /\ Shed \union Redirects \subseteq Answer
  /\ NoAnswer \in Answer
  /\ \A s \in VerdictStatuses, v \in Verdicts : Verdict(s, v) \in Answer
<1>1. \A s \in 200..599, b \in {"none", "text", "page", "plist"} : Plain(s, b) \in Answer
  BY DEF Plain, Answer
<1>2. Shed \union Redirects \subseteq Answer
  <2>1. {204, 404, 503, 302, 403, 200, 429} \subseteq 200..599
    OBVIOUS
  <2>2. \A w \in {"short", "long"} : Throttled(w) \in Answer
    BY <2>1 DEF Throttled, Plain, Answer
  <2>3. \A l \in {"none", "pod", "other"} : Moved(l) \in Answer
    BY <2>1 DEF Moved, Plain, Answer
  <2> QED  BY <1>1, <2>1, <2>2, <2>3 DEF Shed, Redirects
<1>3. NoAnswer \in Answer
  BY <1>1 DEF NoAnswer
<1>4. \A s \in VerdictStatuses, v \in Verdicts : Verdict(s, v) \in Answer
  BY LoginAssumption DEF Verdict, Plain, Answer
<1> QED  BY <1>2, <1>3, <1>4

\* What MZFinance does with a request leaves it in a state of the model.
LEMMA OutcomesTyped ==
  ASSUME TypeOK
  PROVE  \A o \in Outcomes(code, jar) :
           o.verdict \in Verdicts /\ o.next \in Codes \union {NoCode}
  BY DEF TypeOK, Outcomes, Outcome, Verdicts, Refusals

\* The command's return keeps the type invariant, whatever happened before it.
LEMMA EndTyped ==
  ASSUME TypeOK, End,
         current' \in Codes \union {NoCode}, jar' \in {"none", "session"},
         vault' \in {"none", "torn", "saved"}
  PROVE  TypeInv'
<1>1. NoAnswer \in Answer
  BY AnswersTyped
<1>2. interactive' \in BOOLEAN
  BY Zenon DEF End
<1> QED  BY <1>1, <1>2 DEF End, TypeOK, TypeInv, Counted

LEMMA TypeStep == TypeInv /\ [Next]_vars => TypeInv'
<1> SUFFICES ASSUME TypeInv, [Next]_vars PROVE TypeInv'
  OBVIOUS
<1> USE DEF TypeInv
<1>0. TypeOK /\ Counted
  OBVIOUS
<1>a. /\ password \in {"wrong", "disabled", "plain", "twofactor"}
      /\ current \in Codes \union {NoCode}
      /\ interactive \in BOOLEAN /\ code \in Codes \union {NoCode}
      /\ attempt \in 1..3 /\ resend \in 0..3 /\ res \in Answer
      /\ jar \in {"none", "session"} /\ vault \in {"none", "torn", "saved"}
  BY DEF TypeOK
<1>1. CASE Run
  BY <1>1, <1>a, LoginAssumption DEF Run, service, TypeOK, Counted
<1>2. CASE Prepare
  <2>1. CASE Prepared
    BY <2>1, <1>a DEF Prepared, service, call, TypeOK, Counted
  <2>2. CASE NotPrepared
    BY <1>0, <2>2, <1>a, EndTyped DEF NotPrepared
  <2> QED  BY <1>2, <2>1, <2>2 DEF Prepare
<1>3. CASE Attempt
  <2>1. CASE End /\ UNCHANGED <<current, jar, vault>>
    BY <1>0, <2>1, <1>a, EndTyped
  <2>2. CASE /\ attempt < 3 /\ resend' = 0 /\ pc' = "send"
             /\ UNCHANGED <<service, interactive, code, attempt, res, jar, vault>>
    BY <2>2, <1>a DEF service, TypeOK, Counted
  <2> QED  BY <1>3, <2>1, <2>2 DEF Attempt
<1>4. CASE Send
  <2>1. ASSUME NEW a \in Answer, pc = "send", Received(a),
               current' \in Codes \union {NoCode},
               jar' \in {"none", "session"}
        PROVE  TypeInv'
    BY <2>1, <1>0, <1>a DEF Received, call, TypeOK, Counted
  <2>2. ASSUME NEW o \in Outcomes(code, jar), NEW s \in VerdictStatuses, Reached(o, s)
        PROVE  TypeInv'
    BY <1>0, <1>a, <2>1, <2>2, AnswersTyped, OutcomesTyped DEF Reached
  <2>3. ASSUME NEW a \in Shed \union Redirects, Dropped(a)
        PROVE  TypeInv'
    BY <1>0, <1>a, <2>1, <2>3, AnswersTyped, OutcomesTyped DEF Dropped
  <2>4. CASE NotAnswered
    <3>1. current' \in Codes \union {NoCode}
      BY <1>0, <1>a, <2>4, OutcomesTyped DEF NotAnswered
    <3> QED  BY <1>0, <1>a, <2>4, <3>1, EndTyped DEF NotAnswered
  <2> QED  BY <1>4, <2>2, <2>3, <2>4 DEF Send
<1>5. CASE Judge
  <2>1. CASE End /\ UNCHANGED <<current, jar, vault>>
    BY <1>0, <2>1, <1>a, EndTyped
  <2>2. CASE pc' = "route" /\ UNCHANGED <<service, interactive, call, res, jar, vault>>
    BY <1>5, <2>2, <1>a, <1>0 DEF Judge, service, call, TypeOK, Counted
  <2>3. CASE /\ resend' = resend + 1 /\ pc' = "send"
             /\ UNCHANGED <<service, interactive, code, attempt, res, jar, vault>>
    <3>1. resend < 3 /\ attempt < 3
      BY <1>5, <1>0 DEF Judge, Counted
    <3>2. resend' \in 0..3
      BY <1>a, <2>3, <3>1
    <3> QED  BY <2>3, <1>a, <3>1, <3>2 DEF service, TypeOK, Counted
  <2> QED  BY <1>5, <2>1, <2>2, <2>3 DEF Judge
<1>6. CASE Route
  <2>1. CASE End /\ UNCHANGED <<current, jar, vault>>
    BY <1>0, <2>1, <1>a, EndTyped
  <2>2. CASE /\ pc' \in {"attempt", "parse"}
             /\ UNCHANGED <<service, interactive, call, res, jar, vault>>
    BY <1>6, <2>2, <1>a, <1>0 DEF Route, service, call, TypeOK, Counted
  <2>3. CASE /\ attempt' = attempt + 1 /\ pc' = "attempt"
             /\ UNCHANGED <<service, interactive, code, resend, res, jar, vault>>
    <3>1. attempt < 3
      BY <1>6, <1>0 DEF Route, Counted
    <3>2. attempt' \in 1..3
      BY <1>a, <2>3, <3>1
    <3> QED  BY <2>3, <1>a, <3>2 DEF service, TypeOK, Counted
  <2> QED  BY <1>6, <2>1, <2>2, <2>3 DEF Route
<1>7. CASE Parse
  <2>1. CASE End /\ UNCHANGED <<current, jar, vault>>
    BY <1>0, <2>1, <1>a, EndTyped
  <2>2. CASE /\ pc' \in {"save", "prompt"}
             /\ UNCHANGED <<service, interactive, call, res, jar, vault>>
    BY <1>7, <2>2, <1>a, <1>0 DEF Parse, service, call, TypeOK, Counted
  <2> QED  BY <1>7, <2>1, <2>2 DEF Parse
<1>8. ASSUME NEW c \in Codes, Type(c) PROVE TypeInv'
  BY <1>8, <1>a, AnswersTyped DEF Type, service, TypeOK, Counted
<1>9. CASE Quit
  BY <1>0, <1>9, <1>a, EndTyped DEF Quit
<1>10. CASE Save
  BY <1>0, <1>10, <1>a, EndTyped DEF Save, Saved, NotSaved
<1>11. CASE Kill
  BY <1>0, <1>11, <1>a, EndTyped DEF Kill
<1>12. CASE UNCHANGED vars
  BY <1>12, <1>0 DEF vars, TypeOK, Counted
<1> QED  BY <1>1, <1>2, <1>3, <1>4, <1>5, <1>6, <1>7, <1>8, <1>9, <1>10, <1>11, <1>12
         DEF Next, Work

LEMMA TypeInit == Init => TypeInv
<1> SUFFICES ASSUME Init PROVE TypeInv
  OBVIOUS
<1>1. NoAnswer \in Answer
  BY AnswersTyped
<1>2. interactive \in BOOLEAN
  BY Zenon DEF Init
<1> QED  BY <1>1, <1>2 DEF Init, TypeInv, TypeOK, Counted

\* Every variable of the login stays in its domain: at most two attempts with three re-sends
\* each are made (the loops of appstore::login, whose bounds are written in the code).
THEOREM TypeCorrect == Spec => []TypeOK
<1>1. TypeInv => TypeOK
  BY DEF TypeInv
<1> QED  BY TypeInit, <1>1, TypeStep, PTL DEF Spec

-----------------------------------------------------------------------------
(* VerdictFinal holds where MZFinance sends its verdicts under statuses that  *)
(* login does not take for the edge's.                                        *)

CleanStatuses == \A s \in VerdictStatuses :
                   s \notin {204, 404, 429} /\ s \notin 301..399 /\ s < 500

\* A plist comes with one of those statuses and no Location, and is held only while it is
\* judged, read or acted upon.
PlistKnown == res.body = "plist" =>
  /\ pc \in {"judge", "route", "parse", "prompt", "save"}
  /\ res.location = "none" /\ res.status \in VerdictStatuses

FinalInv == TypeInv /\ PlistKnown

LEMMA FinalStep == ASSUME CleanStatuses PROVE FinalInv /\ [Next]_vars => FinalInv'
<1> SUFFICES ASSUME FinalInv, [Next]_vars PROVE PlistKnown'
  BY TypeStep DEF FinalInv
<1>a. PlistKnown /\ res \in Answer
  BY DEF FinalInv, TypeInv, TypeOK
<1>e. ASSUME res' = NoAnswer PROVE PlistKnown'
  BY <1>e DEF NoAnswer, Plain, PlistKnown
<1>u. ASSUME UNCHANGED res, pc' \in {"judge", "route", "parse", "prompt", "save"}
      PROVE  PlistKnown'
  BY <1>a, <1>u DEF PlistKnown
<1>v. ASSUME UNCHANGED res, pc \notin {"judge", "route", "parse", "prompt", "save"}
      PROVE  PlistKnown'
  BY <1>a, <1>v DEF PlistKnown
<1>1. CASE Run
  BY <1>1, <1>v DEF Run
<1>2. CASE Prepare
  BY <1>2, <1>e, <1>v DEF Prepare, Prepared, NotPrepared, End
<1>3. CASE Attempt
  BY <1>3, <1>e, <1>v DEF Attempt, End
<1>4. CASE Send
  <2>1. ASSUME NEW o \in Outcomes(code, jar), NEW s \in VerdictStatuses, Reached(o, s)
        PROVE  PlistKnown'
    <3>1. res' = Verdict(s, o.verdict) /\ pc' \in {"judge", "route"}
      BY <2>1 DEF Reached, Received
    <3>2. res'.status = s /\ res'.location = "none"
      BY <3>1 DEF Verdict, Plain
    <3> QED  BY <3>1, <3>2 DEF PlistKnown
  <2>2. ASSUME NEW a \in Shed \union Redirects, Dropped(a)
        PROVE  PlistKnown'
    <3>1. a.body # "plist"
      BY DEF Shed, Redirects, Plain, Throttled, Moved
    <3>2. res' = a
      BY <2>2 DEF Dropped, Received
    <3> QED  BY <3>1, <3>2 DEF PlistKnown
  <2> QED  BY <1>4, <1>e, <2>1, <2>2 DEF Send, NotAnswered, End
<1>5. CASE Judge
  <2>1. res.status # 429 /\ res.body = "plist" => RetryAction(res) = "Stop"
    BY DEF RetryAction
  <2>2. res.body = "plist" => RetryAction(res) = "Stop"
    BY <1>a, <2>1 DEF PlistKnown, CleanStatuses
  <2>3. CASE UNCHANGED res /\ pc' = "route"
    BY <1>u, <2>3
  <2>4. CASE UNCHANGED res /\ RetryAction(res) \in {"Resend", "RateLimited"}
    BY <2>2, <2>4 DEF PlistKnown
  <2> QED  BY <1>5, <1>e, <2>3, <2>4 DEF Judge, End
<1>6. CASE Route
  <2>1. CASE UNCHANGED res /\ pc' = "attempt"
    <3>1. IsRedirect(res) \/ IsShed(res)
      BY <1>6, <2>1 DEF Route
    <3>2. IsRedirect(res) => res.body # "plist"
      BY <1>a DEF PlistKnown, IsRedirect
    <3>3. \A s \in VerdictStatuses : s \notin {204, 404} /\ ~(s >= 500)
      BY LoginAssumption DEF CleanStatuses
    <3>4. IsShed(res) => res.body # "plist"
      BY <1>a, <3>3 DEF PlistKnown, IsShed
    <3> QED  BY <2>1, <3>1, <3>2, <3>4 DEF PlistKnown
  <2> QED  BY <1>6, <1>e, <1>u, <2>1 DEF Route, End
<1>7. CASE Parse
  BY <1>7, <1>e, <1>u DEF Parse, End
<1>8. ASSUME NEW c \in Codes, Type(c) PROVE PlistKnown'
  BY <1>8, <1>e DEF Type
<1>9. CASE Quit
  BY <1>9, <1>e DEF Quit, End
<1>10. CASE Save
  BY <1>10, <1>e DEF Save, Saved, NotSaved, End
<1>11. CASE Kill
  BY <1>11, <1>e DEF Kill, End
<1>12. CASE UNCHANGED vars
  BY <1>12, <1>a DEF vars, PlistKnown
<1> QED  BY <1>1, <1>2, <1>3, <1>4, <1>5, <1>6, <1>7, <1>8, <1>9, <1>10, <1>11, <1>12
         DEF Next, Work

\* A verdict of MZFinance ends the login that receives it, if MZFinance never sends one under
\* a status that login takes for the edge's: 204, 404, 429, a redirect, or 500 and above.
THEOREM VerdictKept ==
  ASSUME CleanStatuses
  PROVE  Spec => []VerdictFinal
<1>1. Init => FinalInv
  <2>1. Init => TypeInv
    BY TypeInit
  <2>2. Init => PlistKnown
    BY DEF Init, NoAnswer, Plain, PlistKnown
  <2> QED  BY <2>1, <2>2 DEF FinalInv
<1>2. FinalInv => VerdictFinal
  BY DEF FinalInv, PlistKnown, VerdictFinal
<1> QED  BY <1>1, <1>2, FinalStep, PTL DEF Spec

-----------------------------------------------------------------------------
(* The refinement. While the command holds a plist it only judges, reads and *)
(* acts upon it, so the try is over; and it saves only with the token.       *)

SaveKnown == pc = "save" => res.body = "plist" /\ res.verdict = "Token"

HeldInv == FinalInv /\ SaveKnown

LEMMA HeldStep == ASSUME CleanStatuses PROVE HeldInv /\ [Next]_vars => HeldInv'
<1> SUFFICES ASSUME HeldInv, [Next]_vars PROVE SaveKnown'
  BY FinalStep DEF HeldInv
<1>1. CASE Parse
  <2>1. CASE pc' = "save" /\ res.body = "plist" /\ Granted /\ UNCHANGED res
    BY <2>1 DEF Granted, SaveKnown
  <2>2. CASE pc' \in {"prompt", "idle"}
    BY <2>2 DEF SaveKnown
  <2> QED  BY <1>1, <2>1, <2>2 DEF Parse, End
<1>2. CASE UNCHANGED vars
  BY <1>2 DEF HeldInv, SaveKnown, vars
<1>3. CASE pc' # "save"
  BY <1>3 DEF SaveKnown
<1>4. Next /\ ~Parse => pc' # "save"
  BY DEF Next, Work, Run, Prepare, Prepared, NotPrepared, Attempt, Send, Reached, Dropped,
         NotAnswered, Received, Judge, Route, Type, Quit, Save, Saved, NotSaved, Kill, End
<1> QED  BY <1>1, <1>2, <1>3, <1>4

\* In the phases of SignIn, the return of a command is a GiveUp, if it keeps the account file.
LEMMA EndGivesUp ==
  ASSUME pc # "idle", End, UNCHANGED vault,
         current' = current \/ (Phase = "trying" /\ current' \in Codes \union {NoCode})
  PROVE  Abstract!GiveUp
<1>1. Phase # "out" /\ Phase' = "out"
  BY DEF End, Phase
<1> QED  BY <1>1 DEF Abstract!GiveUp

\* A plist is judged to be final, and is neither a redirect nor shed.
LEMMA PlistFacts ==
  ASSUME CleanStatuses, HeldInv, res.body = "plist"
  PROVE  /\ pc \in {"judge", "route", "parse", "prompt", "save"}
         /\ RetryAction(res) = "Stop" /\ ~IsRedirect(res) /\ ~IsShed(res)
<1>1. /\ pc \in {"judge", "route", "parse", "prompt", "save"}
      /\ res.location = "none" /\ res.status \in VerdictStatuses
  BY DEF HeldInv, FinalInv, PlistKnown
<1>2. \A s \in VerdictStatuses : s \notin {204, 404, 429} /\ ~(s >= 500)
  BY LoginAssumption DEF CleanStatuses
<1> QED  BY <1>1, <1>2 DEF RetryAction, IsRedirect, IsShed

\* Every step of the login is a step of SignIn, or leaves its variables alone.
LEMMA SimStep ==
  ASSUME CleanStatuses
  PROVE  HeldInv /\ [Next]_vars => [Abstract!Next]_(Abstract!vars)
<1> SUFFICES ASSUME HeldInv, [Next]_vars PROVE Abstract!Next \/ UNCHANGED Abstract!vars
  OBVIOUS
<1>a. SaveKnown /\ TypeOK /\ PlistKnown
  BY DEF HeldInv, FinalInv, TypeInv
<1>e. ASSUME pc # "idle", End, UNCHANGED <<current, vault>> PROVE Abstract!Next
  BY <1>e, EndGivesUp DEF Abstract!Next
\* The command goes on with the answer it holds.
<1>q. ASSUME pc \notin {"idle", "prompt"}, pc' \notin {"idle", "prompt"},
             UNCHANGED <<res, current, vault>>
      PROVE  UNCHANGED Abstract!vars
  BY <1>q DEF Abstract!vars, Phase
<1>1. CASE Run
  <2>1. pc = "idle" /\ pc' = "prepare" /\ UNCHANGED res
    BY <1>1 DEF Run
  <2>2. Phase = "out" /\ Phase' = "trying"
    BY <2>1, <1>a DEF Phase, PlistKnown
  <2> QED  BY <1>1, <2>2 DEF Run, service, Abstract!Next, Abstract!Begin
<1>2. CASE Prepare
  <2>1. CASE Prepared
    BY <2>1, <1>q DEF Prepared, service
  <2>2. CASE NotPrepared
    BY <2>2, <1>e DEF NotPrepared
  <2> QED  BY <1>2, <2>1, <2>2 DEF Prepare
<1>3. CASE Attempt
  BY <1>3, <1>e, <1>q DEF Attempt, service
<1>4. CASE Send
  <2>0. pc = "send"
    BY <1>4 DEF Send, Reached, Dropped, NotAnswered
  <2>1. Phase = "trying" /\ vault' = vault
    BY <1>4, <2>0, <1>a DEF Phase, PlistKnown, Send, Reached, Dropped, NotAnswered, Received
  <2>2. \A o \in Outcomes(code, jar) : o.next \in Codes \union {NoCode}
    BY <1>a, OutcomesTyped
  <2>3. ASSUME NEW o \in Outcomes(code, jar), NEW s \in VerdictStatuses, Reached(o, s)
        PROVE  Abstract!Next
    <3>1. /\ pc' \in {"judge", "route"} /\ current' = o.next
          /\ res' = Verdict(s, o.verdict)
      BY <2>3 DEF Reached, Received
    <3>2. res'.body = "plist" /\ res'.verdict = o.verdict
      BY <3>1 DEF Verdict, Plain
    <3>3. CASE o.verdict = "Token"
      <4>1. Phase' = "accepted"
        BY <3>1, <3>2, <3>3 DEF Phase
      <4>2. o.next \in {current, NoCode}
        BY <3>3 DEF Outcomes, Outcome
      <4> QED  BY <2>1, <3>1, <4>1, <4>2 DEF Abstract!Next, Abstract!Accept
    <3>4. CASE o.verdict # "Token"
      <4>1. Phase' = "refused"
        BY <3>1, <3>2, <3>4 DEF Phase
      <4>2. o.next \in Codes \union {current}
        BY <3>4 DEF Outcomes, Outcome
      <4> QED  BY <2>1, <3>1, <4>1, <4>2 DEF Abstract!Next, Abstract!Refuse
    <3> QED  BY <3>3, <3>4
  <2>4. ASSUME NEW a \in Shed \union Redirects, Dropped(a)
        PROVE  Abstract!Next \/ UNCHANGED Abstract!vars
    <3>1. /\ pc' \in {"judge", "route"} /\ res' = a
          /\ current' = current \/ current' \in Codes \union {NoCode}
      BY <2>2, <2>4 DEF Dropped, Received
    <3>2. a.body # "plist"
      BY DEF Shed, Redirects, Plain, Throttled, Moved
    <3>3. Phase' = "trying"
      BY <3>1, <3>2 DEF Phase
    <3> QED  BY <2>1, <3>1, <3>3 DEF Abstract!Next, Abstract!Lose, Abstract!vars
  <2>5. CASE NotAnswered
    <3>1. current' \in Codes \union {NoCode} /\ End
      BY <2>5, <2>2, <1>a DEF NotAnswered, TypeOK
    <3> QED  BY <2>0, <2>1, <3>1, EndGivesUp DEF Abstract!Next
  <2> QED  BY <1>4, <2>3, <2>4, <2>5 DEF Send
<1>5. CASE Judge
  BY <1>5, <1>e, <1>q DEF Judge, service
<1>6. CASE Route
  BY <1>6, <1>e, <1>q DEF Route, service
<1>7. CASE Parse
  <2>1. CASE pc' = "save" /\ UNCHANGED <<service, res, vault>>
    BY <1>7, <2>1, <1>q DEF Parse, service
  <2>2. CASE pc' = "prompt" /\ Failure # "None" /\ res.body = "plist"
             /\ UNCHANGED <<service, vault>>
    <3>1. res.verdict # "Token"
      BY <2>2 DEF Failure, AuthFailure
    <3>2. Phase = "refused" /\ Phase' = "asking"
      BY <1>7, <2>2, <3>1 DEF Phase, Parse
    <3> QED  BY <2>2, <3>2 DEF service, Abstract!Next, Abstract!Ask
  <2>3. CASE End /\ UNCHANGED <<current, jar, vault>>
    BY <1>7, <2>3, <1>e DEF Parse
  <2> QED  BY <1>7, <2>1, <2>2, <2>3 DEF Parse
<1>8. ASSUME NEW c \in Codes, Type(c) PROVE Abstract!Next
  <2>1. pc = "prompt" /\ pc' = "attempt" /\ res' = NoAnswer
    BY <1>8 DEF Type
  <2>2. Phase = "asking" /\ Phase' = "trying"
    BY <2>1 DEF Phase, NoAnswer, Plain
  <2> QED  BY <1>8, <2>2 DEF Type, service, Abstract!Next, Abstract!Reply
<1>9. CASE Quit
  BY <1>9, <1>e DEF Quit
<1>s. pc = "save" => Phase = "accepted"
  BY <1>a DEF Phase, SaveKnown
<1>10. CASE Save
  <2>1. CASE Saved
    <3>1. Phase = "accepted" /\ Phase' = "out"
      BY <2>1, <1>s DEF Saved, End, Phase
    <3> QED  BY <2>1, <3>1 DEF Saved, Abstract!Next, Abstract!Keep
  <2>2. CASE NotSaved
    BY <2>2, <1>e DEF NotSaved
  <2> QED  BY <1>10, <2>1, <2>2 DEF Save
<1>11. CASE Kill
  <2>1. CASE UNCHANGED vault
    BY <1>11, <2>1, <1>e DEF Kill
  <2>2. CASE pc = "save" /\ vault' = "torn"
    <3>1. Phase = "accepted" /\ Phase' = "out"
      BY <1>11, <2>2, <1>s DEF Kill, End, Phase
    <3> QED  BY <1>11, <2>2, <3>1 DEF Kill, Abstract!Next, Abstract!GiveUp
  <2> QED  BY <1>11, <2>1, <2>2 DEF Kill
<1>12. CASE UNCHANGED vars
  BY <1>12 DEF vars, Abstract!vars, Phase
<1> QED  BY <1>1, <1>2, <1>3, <1>4, <1>5, <1>6, <1>7, <1>8, <1>9, <1>10, <1>11, <1>12
         DEF Next, Work

\* The login command implements SignIn, whenever requests and answers get lost: a verdict is
\* the last word of a try. After the token the command neither sends, prompts nor takes it
\* for a refusal, after a refusal it sends nothing before the user has typed a code, and it
\* writes the account file only while it holds the token. MZFinance must send no verdict
\* under a status that login takes for the edge's.
THEOREM Implements ==
  ASSUME CleanStatuses
  PROVE  Spec => ImplementsSignIn
<1>1. Init => HeldInv
  <2>1. Init => TypeInv
    BY TypeInit
  <2>2. Init => PlistKnown /\ SaveKnown
    BY DEF Init, NoAnswer, Plain, PlistKnown, SaveKnown
  <2> QED  BY <2>1, <2>2 DEF HeldInv, FinalInv
<1>2. Init => Abstract!Init
  BY DEF Init, Abstract!Init, Phase
<1> QED  BY <1>1, <1>2, HeldStep, SimStep, PTL DEF Spec, ImplementsSignIn, Abstract!Spec
=============================================================================
