---------------------------- MODULE FacebookLogin ----------------------------
(***************************************************************************)
(* Logging in with Facebook: the sign-up page's button, a new              *)
(* FBSDKLoginManager for every press of it, FBSDKApplicationDelegate, which *)
(* passes redirects and returns to the manager that opened something last,  *)
(* and what survives the app in the keychain: the token and the challenge.  *)
(*                                                                         *)
(* A request leaves the app for the Facebook app or the browser, or stays   *)
(* in a sheet of SFAuthenticationSession.  A request left open there can    *)
(* still be answered much later: after the student came back and pressed    *)
(* again, after a sign-out, after the app was killed.                       *)
(*                                                                         *)
(* A request is known by its number, which is also its challenge, 0 stands  *)
(* for none.  Permissions are abstracted: an answer brings a token with     *)
(* permissions, or none.  Errors and cancellations are one, the app treats  *)
(* them alike.  UserSession has what happens after Firebase's answer.       *)
(***************************************************************************)
EXTENDS Naturals, Sequences

CONSTANTS
    Users,
    MaxPresses,     \* bound: presses on the Facebook button
    MaxRequests,    \* bound: requests sent
    MaxKills        \* bound: times the app is terminated

ASSUME FacebookAssumption ==
    MaxPresses \in Nat /\ MaxRequests \in Nat /\ MaxKills \in Nat /\ 0 \notin Users

VARIABLES
    presses,            \* presses so far
    managers,           \* _state and _handler of each press's manager; number 0
                        \* is made by a launch that a redirect caused
    answers,            \* calls of each press's handler
    requests,           \* the press and the method of each request
    openRequests,       \* those waiting in the Facebook app or the browser
    expectedChallenge,  \* in the keychain
    token,              \* the user of currentAccessToken, in the keychain, or 0
    pendingURLOpen,     \* the manager that opened something last, or none
    expectingBackground,
    authSession,        \* request of _authenticationSession
    sessionShown,       \* request whose sheet covers the page
    opening,            \* requests UIKit has not said to be open
    meCalls,            \* answers whose user is still asked for
    reauthCalls,        \* answers whose user is compared with the token's
    fallback,           \* manager that opens the browser when the app is active
    foreground,         \* active, background, arriving, killed
    signIns,            \* Firebase's sign-ins not answered
    home,               \* Firebase has a user, and the home page is shown
    accepted,           \* history: requests whose token was taken, by whom
    hurried,            \* history: pressed while an answer was under way, or
                        \* left while UIKit was opening something
    lost,               \* history: the newest press's sheet was taken away, or
                        \* its manager by another URL
    signedOut,          \* history: no press since the last sign-out
    kills

requestVars == <<requests, openRequests, opening>>
keychainVars == <<expectedChallenge, token>>
delegateVars == <<pendingURLOpen, expectingBackground, authSession>>
callVars == <<meCalls, reauthCalls, signIns>>
historyVars == <<accepted, hurried, lost, signedOut, kills>>
vars == <<presses, managers, answers, requestVars, keychainVars, delegateVars,
          sessionShown, callVars, fallback, foreground, home, historyVars>>

Methods == {"facebookApp", "browser", "session"}
States == {"idle", "start", "performing"}
Presses == 0 .. MaxPresses
RequestIds == 0 .. MaxRequests
NoManager == [state |-> "idle", handler |-> FALSE]

TypeOK ==
    /\ presses \in Presses
    /\ managers \in [Presses -> [state : States, handler : BOOLEAN]]
    /\ answers \in [Presses -> Nat]
    /\ requests \in Seq([press : Presses, method : Methods])
    /\ Len(requests) <= MaxRequests
    /\ \A r \in openRequests \cup opening :
          r \in DOMAIN requests /\ requests[r].method # "session"
    /\ expectedChallenge \in 0 .. Len(requests)
    /\ token \in Users \cup {0}
    /\ pendingURLOpen \in {{}} \cup {{p} : p \in Presses}
    /\ expectingBackground \in BOOLEAN
    /\ authSession \in {0, sessionShown} \/ sessionShown = 0
    /\ \A r \in {authSession, sessionShown} \ {0} :
          r \in DOMAIN requests /\ requests[r].method = "session"
    /\ meCalls \subseteq [press : Presses, request : RequestIds, user : Users]
    /\ reauthCalls \subseteq [press : Presses, request : RequestIds,
                              user : Users, current : Users]
    /\ fallback \in {{}} \cup {{p} : p \in Presses}
    /\ foreground \in {"active", "background", "arriving", "killed"}
    /\ signIns \subseteq [press : Presses, user : Users]
    /\ home \in BOOLEAN
    /\ {hurried, lost, signedOut} \subseteq BOOLEAN
    /\ accepted \in Seq([request : RequestIds, press : Presses])
    /\ kills \in 0 .. MaxKills

Init ==
    /\ presses = 0
    /\ managers = [p \in Presses |-> NoManager]
    /\ answers = [p \in Presses |-> 0]
    /\ requests = <<>> /\ openRequests = {} /\ opening = {}
    /\ expectedChallenge = 0 /\ token = 0
    /\ pendingURLOpen = {} /\ expectingBackground = FALSE
    /\ authSession = 0 /\ sessionShown = 0
    /\ meCalls = {} /\ reauthCalls = {} /\ signIns = {} /\ fallback = {}
    /\ foreground = "active"
    /\ home = FALSE
    /\ accepted = <<>> /\ kills = 0
    /\ hurried = FALSE /\ lost = FALSE /\ signedOut = FALSE

-----------------------------------------------------------------------------
(* The manager.  "before" is what the managers are when the call begins.      *)

\* Mutant: _handler stays when it has been called.
InvokeHandlerKept(before, p) ==
    /\ managers' = [before EXCEPT ![p].state = "idle"]
    /\ answers' = IF before[p].handler THEN [answers EXCEPT ![p] = @ + 1] ELSE answers

InvokeHandler(before, p) ==
    /\ managers' = [before EXCEPT ![p] = NoManager]
    /\ answers' = IF before[p].handler THEN [answers EXCEPT ![p] = @ + 1] ELSE answers

\* invokeHandler without a token: the page does nothing.
Refuse(before, p) ==
    /\ InvokeHandler(before, p)
    /\ UNCHANGED <<token, accepted, reauthCalls, signIns>>

\* The token is set, and the page's handler, if there is one, signs in with it.
Accept(before, p, request, user) ==
    /\ token' = user
    /\ accepted' = Append(accepted, [request |-> request, press |-> p])
    /\ InvokeHandler(before, p)
    /\ signIns' = IF before[p].handler
                  THEN signIns \cup {[press |-> p, user |-> user]} ELSE signIns

\* Where there is a token already, /me has to name its user first.
TakeToken(before, p, request, user) ==
    \/ /\ token = 0
       /\ Accept(before, p, request, user)
       /\ UNCHANGED reauthCalls
    \/ /\ token # 0
       /\ reauthCalls' = reauthCalls \cup
              {[press |-> p, request |-> request, user |-> user, current |-> token]}
       /\ managers' = before
       /\ UNCHANGED <<token, accepted, signIns, answers>>

\* Mutant: the answer's challenge is not compared with the expected one.
CompleteUnchallenged(before, p, request, user) ==
    /\ expectedChallenge' = 0
    /\ TakeToken(before, p, request, user)

\* completeAuthentication of a token.  The expected challenge is cleared whether
\* it matches or not.
CompleteAuthentication(before, p, request, user) ==
    /\ expectedChallenge' = 0
    /\ \/ expectedChallenge # request /\ Refuse(before, p)
       \/ expectedChallenge = request /\ TakeToken(before, p, request, user)

\* The manager's openURL for a redirect: the answer to a request is a token, with
\* or without its user's ID, none, or the Facebook app's wish that the browser be
\* used.  An answer without a token is not compared with the challenge.
OpenURL(before, p, request) ==
    \/ /\ \E user \in Users : CompleteAuthentication(before, p, request, user)
       /\ UNCHANGED <<meCalls, fallback>>
    \/ /\ \E user \in Users :
             meCalls' = meCalls \cup
                 {[press |-> p, request |-> request, user |-> user]}
       /\ managers' = before
       /\ UNCHANGED <<answers, keychainVars, reauthCalls, signIns, accepted, fallback>>
    \/ /\ expectedChallenge' = 0
       /\ Refuse(before, p)
       /\ UNCHANGED <<meCalls, fallback>>
    \/ /\ requests[request].method = "facebookApp"
       /\ Len(requests) < MaxRequests
       /\ fallback' = {p}
       /\ managers' = before
       /\ UNCHANGED <<answers, keychainVars, callVars, accepted>>

ManagerVars == <<managers, answers, keychainVars, callVars, accepted, fallback>>

-----------------------------------------------------------------------------
(* Requests.                                                                 *)

\* Mutant: the sheet's URL is given to UIKit, and the others to the sheet.
PerformInverted(p, method, left) ==
    /\ Len(requests) < MaxRequests
    /\ requests' = Append(requests, [press |-> p, method |-> method])
    /\ expectedChallenge' = Len(requests')
    /\ pendingURLOpen' = {p}
    /\ opening' = left \cup {Len(requests')}
    /\ expectingBackground' = TRUE
    /\ UNCHANGED <<openRequests, authSession, sessionShown>>

\* logInWithBehavior: a new challenge, and the URL is on its way, beside the ones
\* that are left there, or the sheet is up.
Perform(p, method, left) ==
    /\ Len(requests) < MaxRequests
    /\ requests' = Append(requests, [press |-> p, method |-> method])
    /\ expectedChallenge' = Len(requests')
    /\ pendingURLOpen' = {p}
    /\ \/ /\ method # "session"
          /\ opening' = left \cup {Len(requests')}
          /\ expectingBackground' = TRUE
          /\ UNCHANGED <<authSession, sessionShown>>
       \/ /\ method = "session"
          /\ opening' = left
          /\ expectingBackground' = FALSE
          /\ authSession' = Len(requests')
          /\ sessionShown' = Len(requests')
    /\ UNCHANGED openRequests

UnderWay == opening # {} \/ meCalls # {} \/ reauthCalls # {} \/ signIns # {}

\* The button is there until the home page is, the sheet covers it.
PressFacebookLogIn ==
    /\ foreground = "active" /\ ~home /\ sessionShown = 0
    /\ presses < MaxPresses
    /\ presses' = presses + 1
    /\ managers' = [managers EXCEPT
                       ![presses + 1] = [state |-> "start", handler |-> TRUE]]
    /\ \E method \in Methods : Perform(presses + 1, method, opening)
    /\ hurried' = (hurried \/ UnderWay)
    /\ lost' = FALSE /\ signedOut' = FALSE
    /\ UNCHANGED <<answers, token, callVars, fallback, foreground, home, accepted,
                   kills>>

OtherAppOpensAnd(expecting) ==
    /\ foreground \in {"active", "background"}
    /\ \E r \in opening :
          /\ opening' = opening \ {r}
          /\ openRequests' = openRequests \cup {r}
          /\ managers' = [managers EXCEPT ![requests[r].press].state = "performing"]
    /\ foreground' = "background"
    /\ expectingBackground' = expecting
    /\ UNCHANGED <<presses, answers, requests, keychainVars, pendingURLOpen,
                   authSession, sessionShown, callVars, fallback, home,
                   historyVars>>

\* Mutant: _expectingBackground stays in the background.
OtherAppOpensExpecting == OtherAppOpensAnd(expectingBackground)

\* UIKit has opened the URL, and this app goes to the background.
OtherAppOpens == OtherAppOpensAnd(FALSE)

\* It has not: the browser is tried after the Facebook app, nothing after it.
OpenFails ==
    /\ foreground = "active"
    /\ \E r \in opening :
          \/ /\ requests[r].method = "facebookApp"
             /\ sessionShown = 0
             /\ \E method \in {"browser", "session"} :
                   Perform(requests[r].press, method, opening \ {r})
             /\ UNCHANGED <<managers, answers>>
          \/ /\ requests[r].method = "browser"
             /\ opening' = opening \ {r}
             /\ InvokeHandler(managers, requests[r].press)
             /\ UNCHANGED <<requests, openRequests, expectedChallenge,
                            delegateVars, sessionShown>>
    /\ UNCHANGED <<presses, token, callVars, fallback, foreground, home,
                   historyVars>>

-----------------------------------------------------------------------------
(* The app goes and comes.                                                   *)

EnterBackground ==
    /\ foreground = "active"
    /\ foreground' = "background"
    /\ expectingBackground' = FALSE
    /\ hurried' = (hurried \/ opening # {})
    /\ UNCHANGED <<presses, ManagerVars, answers, requestVars, pendingURLOpen,
                   authSession, sessionShown, home, accepted, lost, signedOut,
                   kills>>

\* applicationDidBecomeActive, also after an interruption that did not take the
\* app to the background: a return without an answer cancels the login.  Then a
\* manager that waits for it opens the browser.
BecomeActive ==
    /\ foreground # "killed"
    /\ foreground' = "active"
    /\ IF expectingBackground \/ authSession # 0
       THEN UNCHANGED <<ManagerVars, answers, requestVars, delegateVars,
                        sessionShown>>
       ELSE \/ \E p \in pendingURLOpen :
                  /\ managers[p].state = "performing"
                  /\ Refuse(managers, p)
                  /\ UNCHANGED <<requestVars, delegateVars, sessionShown,
                                 expectedChallenge, meCalls, fallback>>
            \/ /\ fallback # {}
               /\ fallback' = {}
               /\ \E p \in fallback, method \in {"browser", "session"} :
                     Perform(p, method, opening)
               /\ UNCHANGED <<managers, answers, token, callVars, accepted>>
            \/ /\ fallback = {}
               /\ \A p \in pendingURLOpen : managers[p].state # "performing"
               /\ UNCHANGED <<ManagerVars, answers, requestVars, delegateVars,
                              sessionShown>>
    /\ UNCHANGED <<presses, home, hurried, lost, signedOut, kills>>

\* The app delegate's openURL.  Nobody gets the redirect that finds no manager.
Redirected ==
    /\ foreground = "background"
    /\ foreground' = "arriving"
    /\ \E r \in openRequests :
          /\ openRequests' = openRequests \ {r}
          /\ \/ \E p \in pendingURLOpen : OpenURL(managers, p, r)
             \/ pendingURLOpen = {} /\ UNCHANGED <<ManagerVars, answers>>
    /\ pendingURLOpen' = {}
    /\ authSession' = 0
    /\ UNCHANGED <<presses, requests, opening, expectingBackground, sessionShown,
                   home, hurried, lost, signedOut, kills>>

\* A URL that is no redirect of a login cancels the one that is performed.
OpenedByOtherURL ==
    /\ foreground = "background"
    /\ foreground' = "arriving"
    /\ \/ /\ \E p \in pendingURLOpen :
                managers[p].state = "performing" /\ Refuse(managers, p)
          /\ UNCHANGED lost
       \/ /\ \A p \in pendingURLOpen : managers[p].state # "performing"
          /\ lost' = (lost \/ presses \in pendingURLOpen)
          /\ UNCHANGED <<managers, answers, token, accepted, reauthCalls, signIns>>
    /\ pendingURLOpen' = {}
    /\ authSession' = 0
    /\ UNCHANGED <<presses, requestVars, expectedChallenge, meCalls, fallback,
                   expectingBackground, sessionShown, home, hurried, signedOut,
                   kills>>

\* The sheet's completion handler: the student has cancelled, or the app delegate
\* opens the redirect, if the session still is its own.
SessionEnds ==
    /\ foreground = "active" /\ sessionShown # 0
    /\ LET p == requests[sessionShown].press IN
       \/ /\ Refuse(managers, p)
          /\ UNCHANGED <<pendingURLOpen, expectedChallenge, meCalls, fallback>>
       \/ /\ authSession = sessionShown
          /\ \E q \in pendingURLOpen :
                OpenURL([managers EXCEPT ![p].state = "performing"], q, sessionShown)
          /\ pendingURLOpen' = {}
    /\ authSession' = 0 /\ sessionShown' = 0
    /\ UNCHANGED <<presses, requestVars, expectingBackground, foreground, home,
                   hurried, lost, signedOut, kills>>

\* A screen lock, say, takes the sheet away without a word.
LoseSession ==
    /\ sessionShown # 0
    /\ lost' = (lost \/ requests[sessionShown].press = presses)
    /\ sessionShown' = 0
    /\ UNCHANGED <<presses, ManagerVars, answers, requestVars, delegateVars,
                   foreground, home, accepted, hurried, signedOut, kills>>

Kill ==
    /\ foreground # "killed" /\ kills < MaxKills
    /\ kills' = kills + 1
    /\ foreground' = "killed"
    /\ managers' = [p \in Presses |-> NoManager]
    /\ pendingURLOpen' = {} /\ expectingBackground' = FALSE
    /\ authSession' = 0 /\ sessionShown' = 0 /\ opening' = {}
    /\ meCalls' = {} /\ reauthCalls' = {} /\ signIns' = {} /\ fallback' = {}
    /\ UNCHANGED <<presses, answers, requests, openRequests, keychainVars, home,
                   accepted, hurried, lost, signedOut>>

\* didFinishLaunching, after a touch on the icon or a redirect.
Launch ==
    /\ foreground = "killed"
    /\ foreground' = "arriving"
    /\ \/ UNCHANGED <<ManagerVars, answers, openRequests>>
       \/ \E r \in openRequests :
             openRequests' = openRequests \ {r} /\ OpenURL(managers, 0, r)
    /\ UNCHANGED <<presses, requests, opening, delegateVars, sessionShown, home,
                   hurried, lost, signedOut, kills>>

-----------------------------------------------------------------------------
(* Answers of the network, and the sign-out.                                 *)

\* FBSDKLoginRequestMeAndPermissions.
MeAnswered ==
    /\ \E call \in meCalls :
          /\ meCalls' = meCalls \ {call}
          /\ \/ CompleteAuthentication(managers, call.press, call.request, call.user)
             \/ expectedChallenge' = 0 /\ Refuse(managers, call.press)
    /\ UNCHANGED <<presses, requestVars, delegateVars, sessionShown, fallback,
                   foreground, home, hurried, lost, signedOut, kills>>

\* validateReauthentication; an error names no user.
ReauthAnswered ==
    /\ \E call \in reauthCalls :
          /\ reauthCalls' = reauthCalls \ {call}
          /\ \/ /\ call.user = call.current
                /\ Accept(managers, call.press, call.request, call.user)
             \/ /\ InvokeHandler(managers, call.press)
                /\ UNCHANGED <<token, accepted, signIns>>
    /\ UNCHANGED <<presses, requestVars, expectedChallenge, delegateVars, meCalls,
                   sessionShown, fallback, foreground, home, hurried, lost,
                   signedOut, kills>>

FirebaseAnswers ==
    /\ \E signIn \in signIns : signIns' = signIns \ {signIn}
    /\ home' \in {home, TRUE}
    /\ UNCHANGED <<presses, managers, answers, requestVars, keychainVars,
                   delegateVars, sessionShown, meCalls, reauthCalls, fallback,
                   foreground, historyVars>>

\* The settings page's Sign Out.
SignOut ==
    /\ foreground = "active" /\ home /\ sessionShown = 0
    /\ home' = FALSE
    /\ token' = 0
    /\ signedOut' = TRUE
    /\ UNCHANGED <<presses, managers, answers, requestVars, expectedChallenge,
                   delegateVars, sessionShown, callVars, fallback, foreground,
                   accepted, hurried, lost, kills>>

-----------------------------------------------------------------------------
Next ==
    \/ PressFacebookLogIn \/ OtherAppOpens \/ OpenFails
    \/ EnterBackground \/ BecomeActive \/ Redirected \/ OpenedByOtherURL
    \/ SessionEnds \/ LoseSession \/ Kill \/ Launch
    \/ MeAnswered \/ ReauthAnswered \/ FirebaseAnswers \/ SignOut

Spec == Init /\ [][Next]_vars

-----------------------------------------------------------------------------
\* A press's handler is called once at most, although a login that the return to
\* the app has cancelled can still be answered by the browser.
AnsweredOnce == \A p \in Presses : answers[p] <= 1

\* A request is accepted by the manager that sent it, or by one made at a launch.
AcceptedByOwnManager ==
    \A i \in DOMAIN accepted :
       accepted[i].press \in {0, requests[accepted[i].request].press}

\* No request is accepted by the manager of another press, and none after a newer
\* one or twice, unless presses overlapped: a late answer, perhaps of another
\* student, does not pass for the one that is expected.
AcceptedInOrder ==
    /\ AcceptedByOwnManager
    /\ ~hurried => \A i, j \in DOMAIN accepted :
                      i < j => accepted[i].request < accepted[j].request

\* When the app is active and nothing is under way, the newest press has been
\* answered, however the student came back to the app.  A student who did not
\* wait, and one whose sheet or manager was taken away, may wait for ever.
NotForgotten ==
    foreground = "active" /\ ~UnderWay /\ sessionShown = 0 /\ fallback = {}
        => \/ ~managers[presses].handler
           \/ lost \/ authSession # 0
           \/ hurried

\* After the sign-out there is no token and no home page before the button is
\* pressed again, whatever requests are still open elsewhere, also across a
\* termination; unless presses overlapped, or the Facebook app has sent a login
\* whose app was gone on to the browser.
SignedOutStaysOut ==
    signedOut => \/ token = 0 /\ ~home
                 \/ hurried
                 \/ \E r \in DOMAIN requests : requests[r].press = 0
===============================================================================
