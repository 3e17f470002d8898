-------------------------- MODULE TimedShopProofs --------------------------
(***************************************************************************)
(* Theorems about TimedShop, for any timeouts, limits and windows that     *)
(* satisfy the assumptions of its parts.                                   *)
(***************************************************************************)
EXTENDS TimedShop, TLAPS

-----------------------------------------------------------------------------
(* The notifications *)

\* No reservation of a failure is left.
Note == [age : Nat, fate : {"none", "posting", "sent", "cut off"}]

\* A notification that is being sent has one of the keys.  The time of a
\* navigation stays within its limit, so that what is left of it is a time.
NotifierInv ==
    /\ notes \in [Keys -> Note]
    /\ post \in {"idle", "posting", "closing"}
    /\ post # "idle" => key \in Keys
    /\ spent \in 0..NavigationLimit

LEMMA FreeType == Free \in Note
BY NotifierAssumption DEF Free, Note

LEMMA AgedType == ASSUME NEW r \in Note, NEW d \in Nat PROVE [r EXCEPT !.age = @ + d] \in Note
<1>1. ASSUME NEW age \in Nat PROVE [r EXCEPT !.age = age] \in Note
  BY DEF Note
<1>2. r.age \in Nat
  BY DEF Note
<1>3. \A m, n \in Nat : m + n \in Nat
  OBVIOUS
<1>4. r.age + d \in Nat
  BY <1>2, <1>3, Zenon
<1> QED BY <1>1, <1>4, Zenon

LEMMA OlderType == ASSUME NotifierInv, NEW d \in Nat PROVE Older(d) \in [Keys -> Note]
<1>1. ASSUME NEW k \in Keys
      PROVE  (IF notes[k].age + d < Window THEN [notes[k] EXCEPT !.age = @ + d] ELSE Free) \in Note
  <2>1. notes[k] \in Note
    BY DEF NotifierInv
  <2>2. [notes[k] EXCEPT !.age = @ + d] \in Note
    BY <2>1, AgedType, Zenon
  <2> QED BY <2>2, FreeType, Zenon
<1> QED BY <1>1, Zenon DEF Older

LEMMA PassInv ==
  ASSUME NotifierInv, NEW d \in Nat, Pass(d), spent' \in 0..NavigationLimit
  PROVE  NotifierInv'
BY OlderType DEF Pass, NotifierInv

LEMMA ReserveInv ==
  ASSUME NotifierInv, NEW k \in Keys, Reserve(k), UNCHANGED spent
  PROVE  NotifierInv'
<1>1. [age |-> 0, fate |-> "posting"] \in Note
  BY DEF Note
<1> QED BY <1>1 DEF Reserve, NotifierInv

LEMMA FateType ==
  ASSUME NEW r \in Note, NEW f \in {"sent", "cut off"}
  PROVE  [r EXCEPT !.fate = f] \in Note
BY DEF Note

LEMMA NoteUpdated ==
  ASSUME NEW old \in [Keys -> Note], NEW k \in Keys, NEW n \in Note
  PROVE  [old EXCEPT ![k] = n] \in [Keys -> Note]
OBVIOUS

LEMMA PostedInv ==
  ASSUME NotifierInv, NEW d \in Nat, NEW sent \in BOOLEAN, Posted(d, sent),
         spent' \in 0..NavigationLimit
  PROVE  NotifierInv'
<1>1. Older(d) \in [Keys -> Note] /\ key \in Keys
  BY OlderType DEF Posted, NotifierInv
<1>2. CASE sent
  <2>1. notes' = [Older(d) EXCEPT ![key] = [Older(d)[key] EXCEPT !.fate = "sent"]]
    BY <1>2, Zenon DEF Posted
  <2>2. [Older(d)[key] EXCEPT !.fate = "sent"] \in Note
    BY <1>1, FateType, Zenon
  <2>3. notes' \in [Keys -> Note]
    BY <2>1, <2>2, <1>1, NoteUpdated, Zenon
  <2> QED BY <2>3 DEF Posted, NotifierInv
<1>3. CASE ~sent
  <2>1. notes' = [Older(d) EXCEPT ![key] = Free]
    BY <1>3, Zenon DEF Posted
  <2>2. notes' \in [Keys -> Note]
    BY <2>1, <1>1, FreeType, NoteUpdated, Zenon
  <2> QED BY <2>2 DEF Posted, NotifierInv
<1> QED BY <1>2, <1>3

LEMMA PostOverInv ==
  ASSUME NotifierInv, NEW d \in Nat, PostOver(d), spent' \in 0..NavigationLimit
  PROVE  NotifierInv'
BY OlderType DEF PostOver, NotifierInv

LEMMA PostCutOffInv ==
  ASSUME NotifierInv, NEW d \in Nat, PostCutOff(d), spent' \in 0..NavigationLimit
  PROVE  NotifierInv'
<1>1. Older(d) \in [Keys -> Note] /\ key \in Keys
  BY OlderType DEF PostCutOff, NotifierInv
<1>2. CASE post = "posting"
  <2>1. notes' = [Older(d) EXCEPT ![key] = [Older(d)[key] EXCEPT !.fate = "cut off"]]
    BY <1>2, Zenon DEF PostCutOff
  <2>2. [Older(d)[key] EXCEPT !.fate = "cut off"] \in Note
    BY <1>1, FateType, Zenon
  <2>3. notes' \in [Keys -> Note]
    BY <2>1, <2>2, <1>1, NoteUpdated, Zenon
  <2> QED BY <2>3 DEF PostCutOff, NotifierInv
<1>3. CASE post # "posting"
  BY <1>3, <1>1 DEF PostCutOff, NotifierInv
<1> QED BY <1>2, <1>3

LEMMA Limits ==
  /\ NavigationLimit \in Nat /\ OperationLimit \in Nat /\ GotoLimit \in Nat
  /\ SettleLimit \in Nat /\ FormLimit \in Nat /\ FinishLimit \in Nat
  /\ LoginLimit \in Nat /\ ReopenLimit \in Nat /\ PollPause \in Nat
  /\ PostLimit \in Nat /\ 0 \in Nat /\ 1 \in Nat
  /\ "captcha" \in Keys /\ "login" \in Keys /\ "relogin" \in Keys
BY LimitsAssumption, NotifierAssumption DEF LimitsAssumption, NotifierAssumption

LEMMA SpendInv ==
  ASSUME NotifierInv, NEW place, NEW d \in Nat, Spend(place, d)
  PROVE  NotifierInv'
<1>1. spent' \in 0..NavigationLimit
  BY Limits DEF Spend, InTime, NotifierInv
<1> QED BY <1>1, PassInv DEF Spend

LEMMA TimesOutInv ==
  ASSUME NotifierInv, NEW place, NEW limit \in Nat, TimesOut(place, limit)
  PROVE  NotifierInv'
<1>1. NavigationLimit - spent \in Nat
  BY Limits DEF NotifierInv
<1>2. spent' \in 0..NavigationLimit
  BY Limits DEF TimesOut, Crash
<1> QED BY <1>1, <1>2, PassInv DEF TimesOut

LEMMA NavigationNotifies == ASSUME NotifierInv, Navigation PROVE NotifierInv'
<1> USE Limits
<1> DEFINE Same == UNCHANGED <<notifier, spent>>
<1>0. ASSUME Same PROVE NotifierInv'
  BY <1>0 DEF Same, NotifierInv, notifier
<1>1. CASE Reopened
  BY <1>1, PassInv DEF Reopened, Continue, visit, NotifierInv
<1>2. CASE BeginNavigation
  BY <1>2, <1>0 DEF BeginNavigation, Continue, visit
<1>3. CASE Goto
  BY <1>3, SpendInv DEF Goto
<1>4. CASE Settle
  BY <1>4, SpendInv DEF Settle
<1>5. CASE FillForm
  BY <1>5, SpendInv DEF FillForm
<1>6. CASE AwaitResult
  BY <1>6, SpendInv DEF AwaitResult
<1>7. CASE SeeCaptcha
  BY <1>7, <1>0, ReserveInv DEF SeeCaptcha
<1>8. CASE Telling
  <2>1. CASE \E sent \in BOOLEAN : Posted(0, sent) /\ UNCHANGED login
    BY <2>1, PostedInv DEF login, visit, NotifierInv
  <2>2. CASE PostOver(0) /\ Continue("await")
    BY <2>2, PostOverInv DEF Continue, visit, NotifierInv
  <2>3. CASE InTime(PostLimit) /\ Posted(PostLimit, FALSE) /\ spent' = spent + PostLimit
    <3>1. spent' \in 0..NavigationLimit
      BY <2>3 DEF InTime, NotifierInv
    <3> QED BY <2>3, <3>1, PostedInv
  <2>4. CASE PostOver(PostLimit) /\ Crash
    BY <2>4, PostOverInv DEF Crash
  <2> QED BY <1>8, <2>1, <2>2, <2>3, <2>4 DEF Telling
<1>9. CASE TellingTimesOut
  <2>1. NavigationLimit - spent \in Nat
    BY DEF NotifierInv
  <2> QED BY <1>9, <2>1, PostCutOffInv DEF TellingTimesOut, Crash
<1>10. CASE GiveUpLogin
  BY <1>10, <1>0 DEF GiveUpLogin, Continue, visit
<1>11. CASE Arrive
  BY <1>11, SpendInv DEF Arrive
<1>12. CASE Finish
  BY <1>12, SpendInv DEF Finish
<1>13. CASE NavigationTimesOut
  BY <1>13, TimesOutInv DEF NavigationTimesOut
<1> QED BY <1>1, <1>2, <1>3, <1>4, <1>5, <1>6, <1>7, <1>8, <1>9, <1>10, <1>11, <1>12, <1>13
        DEF Navigation

LEMMA LoopNotifies == ASSUME NotifierInv, LoopStep PROVE NotifierInv'
<1> USE Limits
<1> DEFINE Same == UNCHANGED <<notifier, spent>>
<1>0. ASSUME Same PROVE NotifierInv'
  BY <1>0 DEF Same, NotifierInv, notifier
<1>1. CASE Verify
  BY <1>1 DEF Verify, NotifierInv, notifier
<1>2. CASE VerifyTimesOut
  BY <1>2, PassInv DEF VerifyTimesOut, Crash
<1>3. CASE Report
  BY <1>3, <1>0, ReserveInv DEF Report, Continue, visit
<1>4. CASE Reporting
  <2>1. ASSUME NEW d \in {0, PostLimit}, NEW sent \in BOOLEAN, Posted(d, sent), UNCHANGED login
        PROVE  NotifierInv'
    BY <2>1, PostedInv DEF login, visit, NotifierInv
  <2>2. CASE PostOver(0) /\ Continue("stopped")
    BY <2>2, PostOverInv DEF Continue, visit, NotifierInv
  <2>3. CASE PostOver(PostLimit) /\ Crash
    BY <2>3, PostOverInv DEF Crash
  <2> QED BY <1>4, <2>1, <2>2, <2>3 DEF Reporting
<1>5. CASE AwaitManualLogin
  <2>1. spent' \in 0..NavigationLimit
    BY <1>5 DEF AwaitManualLogin, Continue, Crash, visit, NotifierInv
  <2> QED BY <1>5, <2>1, PassInv DEF AwaitManualLogin
<1>6. CASE Poll
  BY <1>6, PassInv DEF Poll, visit, NotifierInv
<1>7. CASE SessionExpired
  BY <1>7, <1>0 DEF SessionExpired, visit
<1>8. CASE StartAgain
  BY <1>8, PassInv DEF StartAgain, NotifierInv
<1> QED BY <1>1, <1>2, <1>3, <1>4, <1>5, <1>6, <1>7, <1>8 DEF LoopStep

LEMMA NotifierStep == ASSUME NotifierInv, [Next]_vars PROVE NotifierInv'
<1>0. ASSUME UNCHANGED <<login, notifier>> PROVE NotifierInv'
  BY <1>0 DEF NotifierInv, notifier, login, visit
<1>1. CASE LoginAccepted
  BY <1>1 DEF LoginAccepted, NotifierInv, notifier
<1>2. CASE SessionEnds
  BY <1>2 DEF SessionEnds, NotifierInv, notifier
<1> QED BY <1>0, <1>1, <1>2, NavigationNotifies, LoopNotifies
        DEF Next, vars, LoginPart, LoginNext, MessagePart

\* A notification is suppressed only for one that was sent within the window, is
\* being sent, or was cut off: a failure never silences the next.
THEOREM FailuresDoNotSilence == Spec => []SilenceIsExplained
<1>1. Init => NotifierInv
  BY Limits, FreeType
     DEF Init, NotifierInit, LoginInit, NotifierInv
<1>2. NotifierInv => SilenceIsExplained
  BY DEF NotifierInv, Note, SilenceIsExplained
<1> QED BY <1>1, <1>2, NotifierStep, PTL DEF Spec

-----------------------------------------------------------------------------
(* The language model *)

\* While no client has made trouble, requests and pauses run under the first
\* deadline only, and the second one runs only while the client of a cancelled
\* request is being closed.
LlmInv ==
    /\ clock \in Nat
    /\ expired \in 0..2
    /\ result \in {"content", "nothing", "failed", "cancelled"}
    /\ expired = 0 => clock <= ChatLimit
    /\ ~trouble =>
         /\ chat # "abandoned"
         /\ chat \in {"idle", "request", "pausing"} => expired = 0
         /\ chat = "closing" => \/ expired = 0 /\ result # "cancelled"
                                \/ expired = 1 /\ clock = ChatLimit /\ result = "cancelled"

LEMMA LlmLimits ==
  /\ RequestLimit \in Nat /\ Buffer \in Nat /\ CloseLimit \in Nat /\ BackoffLimit \in Nat
  /\ MaxRetries \in Nat /\ ChatLimit \in Nat /\ ProcessLimit \in Nat
  /\ ChatLimit < ProcessLimit
BY LlmAssumption DEF LlmAssumption

\* The clock after a step, and the deadline it may have reached.
LEMMA TickInv ==
  ASSUME LlmInv, NEW d \in Nat, Tick(d)
  PROVE  /\ clock' \in Nat
         /\ expired' \in 0..2
         /\ expired' = 0 => clock' <= ChatLimit
         /\ TooLate(d) /\ expired = 0 => expired' = 1 /\ clock' = ChatLimit
         /\ ~TooLate(d) => expired' = expired
BY LlmLimits DEF LlmInv, Tick, TooLate, Deadline

LEMMA LlmStep == ASSUME LlmInv, [Next]_vars PROVE LlmInv'
<1> USE LlmLimits
<1>1. CASE UNCHANGED llm
  BY <1>1 DEF LlmInv, llm
<1>2. CASE Ask
  BY <1>2 DEF Ask, LlmInv
<1>3. CASE Respond
  <2>1. PICK d \in {0, RequestLimit, RequestLimit + Buffer} :
             /\ Tick(d)
             /\ TooLate(d) => result' = "cancelled"
             /\ ~TooLate(d) => result' \in {"content", "nothing", "failed"}
    BY <1>3 DEF Respond
  <2>2. d \in Nat
    OBVIOUS
  <2>3. chat = "request" /\ chat' = "closing" /\ trouble' = trouble
    BY <1>3 DEF Respond
  <2>4. result' \in {"content", "nothing", "failed", "cancelled"}
    BY <2>1
  <2>5. ~trouble => expired = 0
    BY <2>3 DEF LlmInv
  <2>6. CASE TooLate(d)
    BY <2>1, <2>2, <2>3, <2>5, <2>6, TickInv DEF LlmInv
  <2>7. CASE ~TooLate(d)
    <3>1. expired' = expired
      BY <2>1, <2>2, <2>7, TickInv
    <3>2. result' # "cancelled"
      BY <2>1, <2>7
    <3> QED BY <2>1, <2>2, <2>3, <2>4, <2>5, <3>1, <3>2, TickInv DEF LlmInv
  <2> QED BY <2>6, <2>7
<1>4. CASE CloseClient
  <2>1. PICK d \in {0, CloseLimit}, raised \in BOOLEAN :
             /\ d = CloseLimit => raised
             /\ Tick(d)
             /\ trouble' = (trouble \/ raised)
             /\ CASE TooLate(d)                        -> Cancelled /\ UNCHANGED attempt
                  [] ~TooLate(d) /\ raised             -> Retry
                  [] ~raised /\ result = "failed"      -> Retry
                  [] ~raised /\ result = "cancelled"   -> Cancelled /\ UNCHANGED attempt
                  [] ~raised /\ result \in {"content", "nothing"} ->
                       chat' = "replied" /\ UNCHANGED attempt
    BY <1>4 DEF CloseClient
  <2>2. d \in Nat /\ chat = "closing" /\ result' = result
    BY <1>4, <2>1 DEF CloseClient
  <2>3. result' \in {"content", "nothing", "failed", "cancelled"}
    BY <2>2 DEF LlmInv
  <2>4. CASE trouble'
    BY <2>1, <2>2, <2>3, <2>4, TickInv DEF LlmInv
  <2>5. CASE ~trouble'
    <3>1. ~trouble /\ ~raised /\ d = 0
      BY <2>1, <2>5
    <3>2. ~TooLate(d) /\ expired' = expired
      BY <2>1, <2>2, <3>1, TickInv DEF LlmInv, TooLate, Deadline
    <3>3. CASE result = "cancelled"
      <4>1. Cancelled
        BY <2>1, <3>1, <3>2, <3>3
      <4>2. expired = 1 /\ chat' = "replied"
        BY <2>2, <3>1, <3>2, <3>3, <4>1 DEF Cancelled, LlmInv
      <4> QED BY <2>1, <2>2, <2>3, <3>2, <4>2, TickInv DEF LlmInv
    <3>4. CASE result # "cancelled"
      <4>1. expired = 0
        BY <2>2, <3>1, <3>4 DEF LlmInv
      <4>2. chat' \in {"pausing", "replied"}
        BY <2>1, <3>1, <3>2, <3>4 DEF Retry, LlmInv
      <4> QED BY <2>1, <2>2, <2>3, <3>2, <4>1, <4>2, TickInv DEF LlmInv
    <3> QED BY <3>3, <3>4
  <2> QED BY <2>4, <2>5
<1>5. CASE Pause
  <2>1. PICK d \in {0, BackoffLimit} :
             Tick(d) /\ IF TooLate(d) THEN Cancelled ELSE chat' = "request"
    BY <1>5 DEF Pause
  <2>2. d \in Nat /\ chat = "pausing" /\ trouble' = trouble /\ result' = result
    BY <1>5, <2>1 DEF Pause
  <2>3. CASE TooLate(d)
    BY <2>1, <2>2, <2>3, TickInv DEF LlmInv, Cancelled
  <2>4. CASE ~TooLate(d)
    BY <2>1, <2>2, <2>4, TickInv DEF LlmInv
  <2> QED BY <2>3, <2>4
<1>6. CASE Done
  BY <1>6 DEF Done, LlmInv
<1> QED BY <1>1, <1>2, <1>3, <1>4, <1>5, <1>6
        DEF Next, vars, LoginPart, MessagePart, ChatStep

\* However often the model fails and hangs, the buyer gets an answer before
\* process_buyer_message is cut off, unless the closing of a client has taken its
\* time or raised.
THEOREM HangsAreSurvived == Spec => []AnswerSurvivesHangs
<1>1. Init => LlmInv
  BY LlmLimits DEF Init, LlmInit, LlmInv
<1>2. LlmInv => AnswerSurvivesHangs
  BY DEF LlmInv, AnswerSurvivesHangs
<1> QED BY <1>1, <1>2, LlmStep, PTL DEF Spec

-----------------------------------------------------------------------------
(* The login *)

\* The login page is shown only without a session; a result of the form is
\* awaited only after the form was sent, and who has credentials leaves the login
\* page only by way of the form.
LoginInv ==
    /\ page \in {"blank", "login", "chat", "bare", "home"}
    /\ page = "login" => ~session
    /\ at \in {"await", "telling", "arrive"} => form = "sent"
    /\ at \in {"finish", "verify"} /\ page = "login" /\ credentials => form # "unseen"
    /\ at = "failed" =>
         \/ page \in {"blank", "bare"}
         \/ page = "login" /\ form # "unseen"
         \/ page = "chat" /\ misjudged

LEMMA CrashLogin == ASSUME LoginInv, Crash PROVE LoginInv'
BY DEF Crash, account, LoginInv

LEMMA LandingPages == ASSUME LoginInv, page' \in Landing, UNCHANGED session
                      PROVE  page' \in {"login", "chat", "bare", "home"} /\ (page' = "login" => ~session)
BY DEF Landing

LEMMA NavigationLogin == ASSUME LoginInv, Navigation PROVE LoginInv'
<1>1. CASE Reopened
  BY <1>1 DEF Reopened, Continue, visit, account, LoginInv
<1>2. CASE BeginNavigation
  BY <1>2 DEF BeginNavigation, Continue, visit, account, LoginInv
<1>3. CASE Goto
  BY <1>3, LandingPages DEF Goto, Spend, account, LoginInv
<1>4. CASE Settle
  BY <1>4 DEF Settle, Spend, account, LoginInv
<1>5. CASE FillForm
  BY <1>5 DEF FillForm, Spend, account, LoginInv
<1>6. CASE AwaitResult
  <2>1. at' \in {"await", "arrive", "finish"}
    BY <1>6, Zenon DEF AwaitResult
  <2>2. at = "await" /\ UNCHANGED <<page, form, session, credentials>>
    BY <1>6 DEF AwaitResult, Spend, account
  <2> QED BY <2>1, <2>2 DEF LoginInv
<1>7. CASE SeeCaptcha
  BY <1>7 DEF SeeCaptcha, account, LoginInv
<1>8. CASE Telling
  <2>1. CASE Crash
    BY <2>1, CrashLogin
  <2>2. CASE UNCHANGED <<page, form, session, credentials>> /\ at' \in {"telling", "await"}
    BY <1>8, <2>2 DEF Telling, LoginInv
  <2> QED BY <1>8, <2>1, <2>2 DEF Telling, Continue, login, visit, account
<1>9. CASE TellingTimesOut
  BY <1>9, CrashLogin DEF TellingTimesOut
<1>10. CASE GiveUpLogin
  BY <1>10 DEF GiveUpLogin, Continue, visit, account, LoginInv
<1>11. CASE Arrive
  BY <1>11, LandingPages DEF Arrive, Spend, account, LoginInv
<1>12. CASE Finish
  BY <1>12 DEF Finish, Spend, account, LoginInv
<1>13. CASE NavigationTimesOut
  BY <1>13, CrashLogin DEF NavigationTimesOut, TimesOut
<1> QED BY <1>1, <1>2, <1>3, <1>4, <1>5, <1>6, <1>7, <1>8, <1>9, <1>10, <1>11, <1>12, <1>13
        DEF Navigation

LEMMA LoopLogin == ASSUME LoginInv, LoopStep PROVE LoginInv'
<1>1. CASE Verify
  <2>1. PICK yes \in Answers :
             /\ at' = IF yes THEN "polling" ELSE IF credentials THEN "failed" ELSE "manual"
             /\ misjudged' = (page = "chat" /\ ~yes)
             /\ form' = IF yes THEN "unseen" ELSE form
    BY <1>1 DEF Verify
  <2>2. at = "verify" /\ UNCHANGED <<page, session, credentials>>
    BY <1>1 DEF Verify
  <2>3. yes \/ ~LoggedIn(page) \/ page = "chat"
    <3>1. CASE yes = LoggedIn(page)
      BY <3>1
    <3>2. CASE yes = (LoggedIn(page) /\ page # "chat")
      BY <3>2
    <3> QED BY <3>1, <3>2, Zenon DEF Answers
  <2>4. CASE yes
    BY <2>1, <2>2, <2>4 DEF LoginInv
  <2>5. CASE ~yes /\ page = "chat"
    BY <2>1, <2>2, <2>5 DEF LoginInv
  <2>6. CASE ~yes /\ page # "chat"
    <3>1. page \notin {"chat", "home"}
      BY <2>3, <2>6 DEF LoggedIn
    <3> QED BY <2>1, <2>2, <2>6, <3>1 DEF LoginInv
  <2> QED BY <2>4, <2>5, <2>6
<1>2. CASE VerifyTimesOut
  BY <1>2, CrashLogin DEF VerifyTimesOut
<1>3. CASE Report
  BY <1>3 DEF Report, Continue, visit, account, LoginInv
<1>4. CASE Reporting
  <2>1. CASE Crash
    BY <2>1, CrashLogin
  <2>2. CASE UNCHANGED <<page, form, session, credentials>> /\ at' \in {"reporting", "stopped"}
    BY <2>2 DEF LoginInv
  <2> QED BY <1>4, <2>1, <2>2 DEF Reporting, Continue, login, visit, account
<1>5. CASE AwaitManualLogin
  <2>1. CASE Crash
    BY <2>1, CrashLogin
  <2>2. CASE Continue("polling") \/ Continue("stopped")
    BY <2>2 DEF Continue, visit, account, LoginInv
  <2> QED BY <1>5, <2>1, <2>2 DEF AwaitManualLogin
<1>6. CASE Poll
  BY <1>6 DEF Poll, visit, account, LoginInv
<1>7. CASE SessionExpired
  BY <1>7 DEF SessionExpired, visit, account, LoginInv
<1>8. CASE StartAgain
  BY <1>8 DEF StartAgain, account, LoginInv
<1> QED BY <1>1, <1>2, <1>3, <1>4, <1>5, <1>6, <1>7, <1>8 DEF LoopStep

LEMMA LoginStep == ASSUME LoginInv, [Next]_vars PROVE LoginInv'
<1>1. CASE UNCHANGED login
  BY <1>1 DEF login, visit, account, LoginInv
<1>2. CASE LoginAccepted
  BY <1>2 DEF LoginAccepted, LoginInv
<1>3. CASE SessionEnds
  BY <1>3 DEF SessionEnds, LoginInv
<1> QED BY <1>1, <1>2, <1>3, NavigationLogin, LoopLogin
        DEF Next, vars, LoginPart, LoginNext, MessagePart

\* A shop is stopped for a failed login only if its credentials were tried and the
\* platform has no session for it, or if its chat page did not come up or could
\* not be read.
THEOREM FailuresAreEarned == Spec => []LoginFailureIsEarned
<1>1. Init => LoginInv
  BY DEF Init, LoginInit, LoginInv
<1>2. LoginInv => LoginFailureIsEarned
  BY DEF LoginInv, LoginFailureIsEarned
<1> QED BY <1>1, <1>2, LoginStep, PTL DEF Spec
=============================================================================
