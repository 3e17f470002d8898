----------------------------- MODULE ShopLogin -----------------------------
(***************************************************************************)
(* How the loop of a shop gets to its chat page and stays there:           *)
(* navigate_to_chat, auto_login, is_logged_in and wait_for_login of        *)
(* backend/adapters/pdd.py, as _shop_loop of backend/workers/shop_worker   *)
(* .py calls them, with their timeouts and notifications.                  *)
(*                                                                         *)
(* Time is counted in units.  An await takes no time or all that its       *)
(* timeout allows, and awaits without a branch between them are one step.  *)
(* The platform and the person who logs in act where the loop waits for    *)
(* them.  The browser itself is the subject of BrowserEngine.              *)
(***************************************************************************)
EXTENDS Notifier

CONSTANTS
    NavigationLimit,    \* DEFAULT_NAVIGATION_TIMEOUT_SECONDS
    OperationLimit,     \* DEFAULT_OPERATION_TIMEOUT_SECONDS
    GotoLimit,          \* of a goto
    SettleLimit,        \* of the load state and the pause after it
    FormLimit,          \* of the steps from the login tab to the login button
    FinishLimit,        \* of the session list, the popups and the chat frame
    LoginLimit,         \* the time auto_login and wait_for_login wait for a login
    ReopenLimit,        \* of the pauses and the restart of a crash recovery
    PollPause,          \* an idle time between two checks of the login
    MaxCrashes          \* DEFAULT_CRASH_RECOVERY_MAX_RETRIES

ASSUME LimitsAssumption ==
    /\ {NavigationLimit, OperationLimit, GotoLimit, SettleLimit, FormLimit, FinishLimit,
        LoginLimit, ReopenLimit, PollPause} \subseteq Nat \ {0}
    /\ MaxCrashes \in Nat
    /\ GotoLimit + SettleLimit <= NavigationLimit
    /\ {"captcha", "login", "relogin"} = Keys

VARIABLES
    at,         \* the place of the loop
    spent,      \* the time of navigate_to_chat
    waited,     \* the time auto_login has waited for the result
    told,       \* captcha_notified
    page,       \* "blank", "login", "chat" with its session list, "bare" without
                \* it, or "home" for another page of the platform
    session,    \* the platform takes the cookies of the profile
    credentials,    \* the shop has a username and a password
    again,      \* the session had expired while the loop polled
    crashes,    \* crash_retries
    form,       \* history: in this login the form was "unseen", "failed" or
                \* "sent"
    misjudged   \* history: the last verification said no of a good chat page

visit   == <<spent, waited, told, page, form>>
account == <<session, credentials, misjudged>>
login   == <<at, visit, account, again, crashes>>

-----------------------------------------------------------------------------
LoginInit ==
    /\ at = "begin"
    /\ spent = 0 /\ waited = 0 /\ told = FALSE /\ page = "blank" /\ form = "unseen"
    /\ session \in BOOLEAN
    /\ credentials \in BOOLEAN
    /\ misjudged = FALSE
    /\ again = FALSE
    /\ crashes = 0

\* Mutant: only the chat page counts.
LoggedInOnChat(p) == p = "chat"

\* is_logged_in: the session list, or any page of the platform but the chat and
\* the login page.
LoggedIn(p) == p \in {"chat", "home"}

\* What it may answer.  On the chat page it asks the browser, and whatever goes
\* wrong with that is a no: a window that closes, queries that fail or hang.
Answers == {LoggedIn(page), LoggedIn(page) /\ page # "chat"}

\* Where a goto of the chat page may end: without a session at the login page,
\* but not always.
Landing == IF session THEN {"chat", "bare", "home"} ELSE {"login", "bare"}

Continue(place) == at' = place /\ UNCHANGED <<visit, account, again, crashes>>

\* The loop crashes: it gives up, or its browser is opened anew.
Crash ==
    /\ crashes' = crashes + 1
    /\ at' = IF crashes < MaxCrashes THEN "reopening" ELSE "stopped"
    /\ page' = "blank"
    /\ spent' = 0 /\ waited' = 0 /\ told' = FALSE /\ form' = "unseen"
    /\ again' = FALSE
    /\ UNCHANGED account

InTime(d) == spent + d <= NavigationLimit

\* A step of navigate_to_chat takes some of its time.
Spend(place, d) ==
    /\ at = place
    /\ InTime(d)
    /\ spent' = spent + d
    /\ Pass(d)
    /\ UNCHANGED <<account, again, crashes>>

\* Or the timeout of the caller comes first.
TimesOut(place, limit) ==
    /\ at = place
    /\ ~InTime(limit)
    /\ Crash
    /\ Pass(NavigationLimit - spent)

-----------------------------------------------------------------------------
(* navigate_to_chat *)

Reopened ==
    /\ at = "reopening"
    /\ Continue("begin")
    /\ Pass(ReopenLimit)

\* A chat page that is logged in is left alone.
BeginNavigation ==
    /\ at = "begin"
    /\ \E yes \in Answers : Continue(IF page = "chat" /\ yes THEN "verify" ELSE "goto")
    /\ UNCHANGED notifier

\* A failure is logged.
Goto ==
    /\ \/ Spend("goto", 0) /\ page' \in Landing
       \/ Spend("goto", GotoLimit) /\ UNCHANGED page
    /\ at' = "settle"
    /\ UNCHANGED <<waited, told, form>>

\* At the login page the credentials are used, if there are any.
Settle ==
    /\ \E d \in {0, SettleLimit} : Spend("settle", d)
    /\ at' = IF page = "login" /\ credentials THEN "form" ELSE "finish"
    /\ UNCHANGED <<waited, told, page, form>>

\* auto_login up to the button; what fails on the way makes it return False, and
\* navigate_to_chat returns at once.
FillForm ==
    /\ \E d \in {0, FormLimit} : Spend("form", d)
    /\ \/ at' = "await" /\ form' = "sent"
       \/ at' = "verify" /\ form' = "failed"
    /\ UNCHANGED <<waited, told, page>>

\* A turn of its loop finds another page, the login page as it was, or for the
\* first time a captcha, which is notified.
AwaitResult ==
    /\ waited < LoginLimit
    /\ waited' = waited + 1
    /\ Spend("await", 1)
    /\ at' = CASE page = "login" -> "await" [] page = "home" -> "arrive" [] OTHER -> "finish"
    /\ UNCHANGED <<told, page, form>>

SeeCaptcha ==
    /\ at = "await" /\ page = "login"
    /\ waited > 0 /\ ~told
    /\ told' = TRUE
    /\ IF Suppressed("captcha")
         THEN UNCHANGED <<at, notifier>>
         ELSE Reserve("captcha") /\ at' = "telling"
    /\ UNCHANGED <<spent, waited, page, form, account, again, crashes>>

\* The notification; an error at its end is not caught.
Telling ==
    /\ at = "telling"
    /\ \/ \E sent \in BOOLEAN : Posted(0, sent) /\ UNCHANGED login
       \/ PostOver(0) /\ Continue("await")
       \/ /\ InTime(PostLimit)
          /\ \/ /\ Posted(PostLimit, FALSE)
                /\ spent' = spent + PostLimit
                /\ UNCHANGED <<at, waited, told, page, form, account, again, crashes>>
             \/ PostOver(PostLimit) /\ Crash

TellingTimesOut ==
    /\ at = "telling"
    /\ ~InTime(PostLimit)
    /\ PostCutOff(NavigationLimit - spent)
    /\ Crash

GiveUpLogin ==
    /\ at = "await"
    /\ waited = LoginLimit
    /\ Continue("verify")
    /\ UNCHANGED notifier

\* From another page of the platform to the chat page.
Arrive ==
    /\ \/ Spend("arrive", 0) /\ page' \in Landing
       \/ Spend("arrive", GotoLimit) /\ UNCHANGED page
    /\ at' = "finish"
    /\ UNCHANGED <<waited, told, form>>

\* The session list, which may be missing, the popups and the frame.
Finish ==
    /\ \E d \in {0, FinishLimit} : Spend("finish", d)
    /\ at' = "verify"
    /\ UNCHANGED <<waited, told, page, form>>

\* The steps before these fit in its time.
NavigationTimesOut ==
    \/ TimesOut("form", FormLimit) \/ TimesOut("await", 1)
    \/ TimesOut("arrive", GotoLimit) \/ TimesOut("finish", FinishLimit)

-----------------------------------------------------------------------------
(* The loop of the shop *)

\* The login is verified: the loop polls, gives up because its credentials did
\* not help, or waits for a login by hand.
Verify ==
    /\ at = "verify"
    /\ \E yes \in Answers :
         /\ at' = IF yes THEN "polling" ELSE IF credentials THEN "failed" ELSE "manual"
         /\ form' = IF yes THEN "unseen" ELSE form
         /\ again' = (again /\ ~yes)
         /\ misjudged' = (page = "chat" /\ ~yes)
    /\ spent' = 0 /\ waited' = 0 /\ told' = FALSE
    /\ UNCHANGED <<page, session, credentials, crashes, notifier>>

\* is_logged_in takes too long, there or while the loop polls.
VerifyTimesOut ==
    /\ at \in {"verify", "polling"}
    /\ page \in {"chat", "bare"}
    /\ Crash
    /\ Pass(OperationLimit)

\* The failure is reported, unless it has been of late.
Report ==
    /\ at = "failed"
    /\ LET k == IF again THEN "relogin" ELSE "login"
       IN  IF Suppressed(k)
             THEN Continue("stopped") /\ UNCHANGED notifier
             ELSE Continue("reporting") /\ Reserve(k)

\* Under no timeout but its own; an error at its end is a crash of the loop.
Reporting ==
    /\ at = "reporting"
    /\ \/ \E sent \in BOOLEAN : Posted(0, sent) /\ UNCHANGED login
       \/ Posted(PostLimit, FALSE) /\ UNCHANGED login
       \/ PostOver(0) /\ Continue("stopped")
       \/ PostOver(PostLimit) /\ Crash

\* wait_for_login sees the session list, or gives up; an error of the browser is
\* a crash.
AwaitManualLogin ==
    /\ at = "manual"
    /\ \/ page = "chat" /\ Continue("polling") /\ Pass(0)
       \/ page # "chat" /\ Continue("stopped") /\ Pass(LoginLimit)
       \/ Crash /\ Pass(0)

\* Some polls, which forgive earlier crashes.
Poll ==
    /\ at = "polling"
    /\ crashes' = 0
    /\ Pass(PollPause)
    /\ UNCHANGED <<at, visit, account, again>>

\* The check of every thirtieth poll finds that the session is gone, or fails.
SessionExpired ==
    /\ at = "polling"
    /\ FALSE \in Answers
    /\ at' = "begin"
    /\ again' = TRUE
    /\ UNCHANGED <<visit, account, crashes, notifier>>

\* A new loop, by the restart policy or by a command.
StartAgain ==
    /\ at = "stopped"
    /\ at' = "begin"
    /\ crashes' = 0
    /\ page' = "blank" /\ form' = "unseen" /\ again' = FALSE
    /\ Pass(ReopenLimit)
    /\ UNCHANGED <<spent, waited, told, account>>

-----------------------------------------------------------------------------
(* The platform and its user *)

\* The login is accepted, or somebody logs in by hand.
LoginAccepted ==
    /\ at \in {"begin", "await", "telling", "manual"}
    /\ page \in {"login", "bare"}
    /\ session' = TRUE
    /\ page' \in {"chat", "bare", "home"}
    /\ UNCHANGED <<at, spent, waited, told, form, credentials, misjudged, again, crashes,
                   notifier>>

\* The platform ends the session of a shop that is online.
SessionEnds ==
    /\ at = "polling"
    /\ session
    /\ session' = FALSE
    /\ page' \in {"login", "bare"}
    /\ UNCHANGED <<at, spent, waited, told, form, credentials, misjudged, again, crashes,
                   notifier>>

-----------------------------------------------------------------------------
Navigation ==
    \/ Reopened \/ BeginNavigation \/ Goto \/ Settle
    \/ FillForm \/ AwaitResult \/ SeeCaptcha \/ Telling \/ TellingTimesOut \/ GiveUpLogin
    \/ Arrive \/ Finish \/ NavigationTimesOut

LoopStep ==
    \/ Verify \/ VerifyTimesOut \/ Report \/ Reporting \/ AwaitManualLogin
    \/ Poll \/ SessionExpired \/ StartAgain

LoginNext == Navigation \/ LoopStep \/ LoginAccepted \/ SessionEnds

-----------------------------------------------------------------------------
\* A shop is stopped because of its credentials only if they were tried and the
\* platform has not let it in, or if its chat page did not come up or could not
\* be read: then the credentials need not have been tried, and the session may
\* be good, since is_logged_in takes an error of the browser for a no.  A login
\* that comes late, after the loop was cut off or on another page of the
\* platform, is not taken for a failure.
LoginFailureIsEarned ==
    at = "failed" =>
        \/ form # "unseen" /\ ~session
        \/ page \in {"blank", "bare"}
        \/ page = "chat" /\ misjudged
=============================================================================
