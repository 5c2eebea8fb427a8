-------------------------- MODULE FacebookLoginProofs --------------------------
(***************************************************************************)
(* Proofs about logging in with Facebook, for any number of users, presses, *)
(* requests and terminations: a handler is called once at most, a request's *)
(* token is only taken by the manager that sent it or by one made at a      *)
(* launch; then types, the order of the tokens that are taken, what a       *)
(* sign-out leaves, and that no press is forgotten.                        *)
(***************************************************************************)
EXTENDS FacebookLogin, TLAPS

-----------------------------------------------------------------------------
(* Handlers.                                                                 *)

Managers == [Presses -> [state : States, handler : BOOLEAN]]

\* Whoever still has a handler has not called it, and nobody has one who has not
\* been pressed into being.
HandlersFresh(ms, as, n) ==
    /\ n \in Presses
    /\ ms \in Managers
    /\ as \in [Presses -> Nat]
    /\ \A p \in Presses :
          /\ as[p] <= 1
          /\ ms[p].handler => as[p] = 0 /\ p <= n
          /\ p > n => as[p] = 0

HInv == HandlersFresh(managers, answers, presses)

\* Calling a manager's handler, or not having one, keeps handlers fresh.
LEMMA InvokeHandlerFresh ==
    ASSUME NEW before, NEW p,
           HandlersFresh(before, answers, presses),
           InvokeHandler(before, p)
    PROVE  HandlersFresh(managers', answers', presses)
  <1>1. managers' \in Managers
    BY DEF HandlersFresh, InvokeHandler, Managers, NoManager, States
  <1>2. answers' \in [Presses -> Nat]
    <2>1. answers \in [Presses -> Nat]
      BY DEF HandlersFresh
    <2>2. CASE p \in Presses
      BY <2>1, <2>2 DEF InvokeHandler
    <2>3. CASE p \notin Presses
      BY <2>1, <2>3 DEF InvokeHandler
    <2>4. QED BY <2>2, <2>3
  <1>3. ASSUME NEW q \in Presses
        PROVE  /\ answers'[q] <= 1
               /\ managers'[q].handler => answers'[q] = 0 /\ q <= presses
               /\ q > presses => answers'[q] = 0
    <2>1. CASE q = p
      BY <2>1 DEF HandlersFresh, InvokeHandler, Managers, NoManager, Presses
    <2>2. CASE q # p
      BY <2>2 DEF HandlersFresh, InvokeHandler, Managers, Presses
    <2>3. QED BY <2>1, <2>2
  <1>4. QED BY <1>1, <1>2, <1>3 DEF HandlersFresh

\* Only a manager's state changes.
LEMMA PerformingFresh ==
    ASSUME NEW p, HInv
    PROVE  HandlersFresh([managers EXCEPT ![p].state = "performing"],
                         answers, presses)
  BY DEF HInv, HandlersFresh, Managers, States

\* The manager's openURL, however the redirect answers the request.
LEMMA OpenURLFresh ==
    ASSUME NEW before, NEW p, NEW request,
           HandlersFresh(before, answers, presses),
           OpenURL(before, p, request)
    PROVE  HandlersFresh(managers', answers', presses)
  <1>1. InvokeHandler(before, p) \/ (managers' = before /\ answers' = answers)
    BY DEF OpenURL, CompleteAuthentication, TakeToken, Accept, Refuse
  <1>2. QED BY <1>1, InvokeHandlerFresh

LEMMA HInitFresh == Init => HInv
  BY FacebookAssumption
     DEF Init, HInv, HandlersFresh, Managers, NoManager, States, Presses

LEMMA HNextFresh == HInv /\ [Next]_vars => HInv'
  <1> SUFFICES ASSUME HInv, [Next]_vars PROVE HInv'
    OBVIOUS
  <1> USE DEF HInv
  <1>1. CASE PressFacebookLogIn
    <2>1. /\ presses' = presses + 1 /\ presses < MaxPresses
          /\ managers' = [managers EXCEPT
                 ![presses + 1] = [state |-> "start", handler |-> TRUE]]
          /\ answers' = answers
      BY <1>1 DEF PressFacebookLogIn
    <2>2. presses' \in Presses
      BY <2>1, FacebookAssumption DEF HandlersFresh, Presses
    <2>3. managers' \in Managers
      BY <2>1 DEF HandlersFresh, Managers, States
    <2>4. ASSUME NEW q \in Presses
          PROVE  /\ answers'[q] <= 1
                 /\ managers'[q].handler => answers'[q] = 0 /\ q <= presses'
                 /\ q > presses' => answers'[q] = 0
      BY <2>1 DEF HandlersFresh, Managers, Presses
    <2>5. QED BY <2>1, <2>2, <2>3, <2>4 DEF HandlersFresh
  <1>2. CASE OtherAppOpens
    <2>1. PICK r \in opening :
             managers' = [managers EXCEPT ![requests[r].press].state = "performing"]
      BY <1>2 DEF OtherAppOpens, OtherAppOpensAnd
    <2>2. answers' = answers /\ presses' = presses
      BY <1>2 DEF OtherAppOpens, OtherAppOpensAnd
    <2>3. QED BY <2>1, <2>2, PerformingFresh
  <1>3. CASE OpenFails
    <2>1. presses' = presses
      BY <1>3 DEF OpenFails
    <2>2. \/ managers' = managers /\ answers' = answers
          \/ \E p : InvokeHandler(managers, p)
      BY <1>3 DEF OpenFails
    <2>3. QED BY <2>1, <2>2, InvokeHandlerFresh
  <1>4. CASE BecomeActive
    <2>1. presses' = presses
      BY <1>4 DEF BecomeActive
    <2>2. \/ managers' = managers /\ answers' = answers
          \/ \E p : InvokeHandler(managers, p)
      BY <1>4 DEF BecomeActive, Refuse, ManagerVars
    <2>3. QED BY <2>1, <2>2, InvokeHandlerFresh
  <1>5. CASE Redirected
    <2>1. presses' = presses
      BY <1>5 DEF Redirected
    <2>2. \/ managers' = managers /\ answers' = answers
          \/ \E p, r : OpenURL(managers, p, r)
      BY <1>5 DEF Redirected, ManagerVars
    <2>3. QED BY <2>1, <2>2, OpenURLFresh
  <1>6. CASE OpenedByOtherURL
    <2>1. presses' = presses
      BY <1>6 DEF OpenedByOtherURL
    <2>2. \/ managers' = managers /\ answers' = answers
          \/ \E p : InvokeHandler(managers, p)
      BY <1>6 DEF OpenedByOtherURL, Refuse
    <2>3. QED BY <2>1, <2>2, InvokeHandlerFresh
  <1>7. CASE SessionEnds
    <2>1. presses' = presses
      BY <1>7 DEF SessionEnds
    <2>2. CASE Refuse(managers, requests[sessionShown].press)
      BY <2>1, <2>2, InvokeHandlerFresh DEF Refuse
    <2>3. CASE \E q \in pendingURLOpen :
                  OpenURL([managers EXCEPT
                              ![requests[sessionShown].press].state = "performing"],
                          q, sessionShown)
      BY <2>1, <2>3, PerformingFresh, OpenURLFresh
    <2>4. QED BY <1>7, <2>2, <2>3 DEF SessionEnds
  <1>8. CASE Launch
    <2>1. presses' = presses
      BY <1>8 DEF Launch
    <2>2. \/ managers' = managers /\ answers' = answers
          \/ \E r : OpenURL(managers, 0, r)
      BY <1>8 DEF Launch, ManagerVars
    <2>3. QED BY <2>1, <2>2, OpenURLFresh
  <1>9. CASE Kill
    BY <1>9 DEF Kill, HandlersFresh, Managers, NoManager, States, Presses
  <1>10. CASE MeAnswered
    <2>1. presses' = presses
      BY <1>10 DEF MeAnswered
    <2>2. \/ managers' = managers /\ answers' = answers
          \/ \E p : InvokeHandler(managers, p)
      BY <1>10 DEF MeAnswered, CompleteAuthentication, TakeToken, Accept, Refuse
    <2>3. QED BY <2>1, <2>2, InvokeHandlerFresh
  <1>11. CASE ReauthAnswered
    <2>1. presses' = presses
      BY <1>11 DEF ReauthAnswered
    <2>2. \E p : InvokeHandler(managers, p)
      BY <1>11 DEF ReauthAnswered, Accept
    <2>3. QED BY <2>1, <2>2, InvokeHandlerFresh
  <1>12. CASE EnterBackground \/ LoseSession \/ FirebaseAnswers \/ SignOut
    BY <1>12 DEF EnterBackground, LoseSession, FirebaseAnswers, SignOut, ManagerVars
  <1>13. CASE UNCHANGED vars
    BY <1>13 DEF vars
  <1>14. QED
    BY <1>1, <1>2, <1>3, <1>4, <1>5, <1>6, <1>7, <1>8, <1>9, <1>10, <1>11,
       <1>12, <1>13 DEF Next

\* Every press's handler is called once at most, for any number of presses.
THEOREM AnsweredOnceHolds == Spec => []AnsweredOnce
  <1>1. HInv => AnsweredOnce
    BY DEF HInv, HandlersFresh, AnsweredOnce
  <1>2. QED BY <1>1, HInitFresh, HNextFresh, PTL DEF Spec

-----------------------------------------------------------------------------
(* Requests.                                                                 *)

Requests == [press : Presses, method : Methods]

\* The manager p may take the token of request r.
Own(p, r) == r \in DOMAIN requests /\ p \in {0, requests[r].press}

\* It may if the request still is the newest one: if it is not, its challenge is
\* not expected any more.
OwnIfNewest(p, r) ==
    /\ p \in Presses
    /\ r \in DOMAIN requests
    /\ r = Len(requests) => Own(p, r)

\* The challenge is the newest request's, and so is the manager that is called.
RequestsInv ==
    /\ presses \in Presses
    /\ requests \in Seq(Requests)
    /\ expectedChallenge \in {0, Len(requests)}
    /\ openRequests \subseteq DOMAIN requests
    /\ opening \subseteq DOMAIN requests
    /\ sessionShown \in DOMAIN requests \cup {0}
    /\ pendingURLOpen \subseteq Presses
    /\ fallback \subseteq Presses
    /\ \A p \in pendingURLOpen :
          requests # <<>> /\ p = requests[Len(requests)].press

AcceptedOwn ==
    /\ accepted \in Seq([request : Nat, press : Presses])
    /\ \A i \in DOMAIN accepted : Own(accepted[i].press, accepted[i].request)

ReauthsOwn == \A call \in reauthCalls : Own(call.press, call.request)

AnswersInv ==
    /\ AcceptedOwn
    /\ ReauthsOwn
    /\ \A call \in meCalls : OwnIfNewest(call.press, call.request)

OInv == RequestsInv /\ AnswersInv

\* A manager that is called with a request may take it, if it is the newest.
LEMMA PendingOwnsNewest ==
    ASSUME RequestsInv, NEW p \in pendingURLOpen, NEW r \in DOMAIN requests
    PROVE  OwnIfNewest(p, r)
  BY DEF RequestsInv, OwnIfNewest, Own

\* Who owns what only depends on the requests.
LEMMA OwnStays ==
    ASSUME requests' = requests
    PROVE  /\ \A p, r : Own(p, r)' <=> Own(p, r)
           /\ \A p, r : OwnIfNewest(p, r)' <=> OwnIfNewest(p, r)
  BY DEF Own, OwnIfNewest

LEMMA AcceptedOwnStays ==
    ASSUME AcceptedOwn, requests' = requests, accepted' = accepted
    PROVE  AcceptedOwn'
  BY OwnStays DEF AcceptedOwn

\* One more accepted token.
LEMMA AcceptOwn ==
    ASSUME OInv, requests' = requests,
           NEW before, NEW p, NEW r, NEW user, Own(p, r),
           Accept(before, p, r, user)
    PROVE  AcceptedOwn'
  <1>1. p \in Presses /\ r \in Nat
    <2>1. requests \in Seq(Requests)
      BY DEF OInv, RequestsInv
    <2>2. r \in DOMAIN requests
      BY DEF Own
    <2>3. r \in 1 .. Len(requests) /\ Len(requests) \in Nat
      BY <2>1, <2>2
    <2>4. requests[r].press \in Presses /\ r \in Nat
      <3>1. requests[r] \in Requests
        BY <2>1, <2>3
      <3>2. QED BY <2>3, <3>1 DEF Requests
    <2>5. 0 \in Presses
      BY FacebookAssumption DEF Presses
    <2>6. QED BY <2>4, <2>5 DEF Own
  <1>2. accepted' = Append(accepted, [request |-> r, press |-> p])
    BY DEF Accept
  <1>3. /\ accepted \in Seq([request : Nat, press : Presses])
        /\ \A i \in DOMAIN accepted : Own(accepted[i].press, accepted[i].request)
    BY DEF OInv, AnswersInv, AcceptedOwn
  <1>4. accepted' \in Seq([request : Nat, press : Presses])
    BY <1>1, <1>2, <1>3
  <1>5. ASSUME NEW i \in DOMAIN accepted'
        PROVE  Own(accepted[i].press, accepted[i].request)'
    <2>1. CASE i \in DOMAIN accepted
      <3>1. accepted'[i] = accepted[i]
        BY <1>2, <1>3, <2>1
      <3>2. QED BY <3>1, <2>1, <1>3 DEF Own
    <2>2. CASE i \notin DOMAIN accepted
      <3>1. accepted'[i] = [request |-> r, press |-> p]
        BY <1>2, <1>3, <1>5, <2>2
      <3>2. QED BY <3>1 DEF Own
    <2>3. QED BY <2>1, <2>2
  <1>6. QED BY <1>4, <1>5 DEF AcceptedOwn

\* A token is only accepted, or handed on to /me, for the newest request, since
\* its challenge has to be the expected one.
LEMMA CompleteOwn ==
    ASSUME OInv, requests' = requests,
           NEW before, NEW p, NEW r, NEW user, OwnIfNewest(p, r),
           CompleteAuthentication(before, p, r, user)
    PROVE  expectedChallenge' = 0 /\ AcceptedOwn' /\ ReauthsOwn'
  <1>1. expectedChallenge' = 0
    BY DEF CompleteAuthentication
  <1>2. CASE UNCHANGED <<accepted, reauthCalls>>
    BY <1>1, <1>2, OwnStays, AcceptedOwnStays DEF OInv, AnswersInv, ReauthsOwn
  <1>3. CASE expectedChallenge = r /\ TakeToken(before, p, r, user)
    <2>1. Own(p, r)
      <3>1. r # 0
        BY DEF OwnIfNewest, OInv, RequestsInv
      <3>2. QED BY <1>3, <3>1 DEF OwnIfNewest, OInv, RequestsInv
    <2>2. CASE Accept(before, p, r, user) /\ UNCHANGED reauthCalls
      BY <1>1, <2>1, <2>2, AcceptOwn, OwnStays DEF OInv, AnswersInv, ReauthsOwn
    <2>3. CASE /\ reauthCalls' = reauthCalls \cup
                     {[press |-> p, request |-> r, user |-> user, current |-> token]}
               /\ UNCHANGED accepted
      <3>1. ReauthsOwn'
        BY <2>1, <2>3, OwnStays DEF OInv, AnswersInv, ReauthsOwn
      <3>2. QED BY <1>1, <2>3, <3>1, AcceptedOwnStays DEF OInv, AnswersInv
    <2>4. QED BY <1>3, <2>2, <2>3 DEF TakeToken
  <1>4. QED BY <1>2, <1>3 DEF CompleteAuthentication, Refuse

\* What a redirect of request r, taken by manager p, leaves.
LEMMA OpenURLOwn ==
    ASSUME OInv, requests' = requests,
           NEW before, NEW p, NEW r, OwnIfNewest(p, r),
           OpenURL(before, p, r)
    PROVE  /\ AnswersInv'
           /\ expectedChallenge' \in {0, Len(requests)}
           /\ fallback' \subseteq Presses
  <1>1. /\ AcceptedOwn /\ ReauthsOwn
        /\ \A call \in meCalls : OwnIfNewest(call.press, call.request)
        /\ fallback \subseteq Presses /\ expectedChallenge \in {0, Len(requests)}
        /\ p \in Presses
    BY DEF OInv, AnswersInv, RequestsInv, OwnIfNewest
  <1>2. CASE /\ \E user \in Users : CompleteAuthentication(before, p, r, user)
             /\ UNCHANGED <<meCalls, fallback>>
    BY <1>1, <1>2, CompleteOwn, OwnStays DEF AnswersInv
  <1>3. CASE /\ \E user \in Users :
                   meCalls' = meCalls \cup
                       {[press |-> p, request |-> r, user |-> user]}
             /\ UNCHANGED <<accepted, reauthCalls, keychainVars, fallback>>
    <2>1. \A call \in meCalls' : OwnIfNewest(call.press, call.request)
      BY <1>1, <1>3
    <2>2. QED BY <1>1, <1>3, <2>1, OwnStays, AcceptedOwnStays
            DEF AnswersInv, ReauthsOwn, keychainVars
  <1>4. CASE /\ expectedChallenge' \in {0, expectedChallenge}
             /\ fallback' \in {fallback, {p}}
             /\ UNCHANGED <<accepted, reauthCalls, meCalls>>
    BY <1>1, <1>4, OwnStays, AcceptedOwnStays DEF AnswersInv, ReauthsOwn
  <1>5. QED BY <1>2, <1>3, <1>4 DEF OpenURL, Refuse, keychainVars, callVars

\* Sending a request makes its manager the one that is called, and every request
\* before it an old one.
LEMMA PerformOwn ==
    ASSUME OInv, NEW p \in Presses, NEW method \in Methods,
           NEW left \in SUBSET DOMAIN requests,
           Perform(p, method, left),
           presses' \in Presses, fallback' \subseteq Presses,
           UNCHANGED <<accepted, meCalls, reauthCalls>>
    PROVE  OInv'
  <1> DEFINE n == Len(requests)
  <1>1. /\ requests \in Seq(Requests)
        /\ n \in Nat
        /\ requests' = Append(requests, [press |-> p, method |-> method])
    BY DEF OInv, RequestsInv, Perform
  <1>2. /\ requests' \in Seq(Requests)
        /\ Len(requests') = n + 1
        /\ DOMAIN requests' = DOMAIN requests \cup {n + 1}
        /\ \A r \in DOMAIN requests : requests'[r] = requests[r] /\ r # n + 1
        /\ requests'[n + 1].press = p
    BY <1>1 DEF Requests
  <1>3. ASSUME NEW q, NEW r, Own(q, r)
        PROVE  Own(q, r)'
    BY <1>2, <1>3 DEF Own
  <1>4. ASSUME NEW q, NEW r, OwnIfNewest(q, r)
        PROVE  OwnIfNewest(q, r)'
    BY <1>2, <1>4 DEF OwnIfNewest
  <1>5. AnswersInv'
    BY <1>3, <1>4 DEF OInv, AnswersInv, AcceptedOwn, ReauthsOwn
  <1>6. RequestsInv'
    <2>1. /\ expectedChallenge' = n + 1
          /\ pendingURLOpen' = {p}
          /\ opening' \subseteq left \cup {n + 1}
          /\ sessionShown' \in {sessionShown, n + 1}
          /\ openRequests' = openRequests
      BY <1>2 DEF Perform
    <2>2. QED BY <1>2, <2>1 DEF OInv, RequestsInv
  <1>7. QED BY <1>5, <1>6 DEF OInv

\* Where no request is sent, requests only move from opening to open and go.
LEMMA RequestsStay ==
    ASSUME OInv, requests' = requests, presses' = presses,
           expectedChallenge' \in {0, Len(requests)},
           openRequests' \cup opening' \subseteq openRequests \cup opening,
           sessionShown' \in {0, sessionShown},
           pendingURLOpen' \subseteq pendingURLOpen,
           fallback' \subseteq Presses
    PROVE  RequestsInv'
  BY DEF OInv, RequestsInv

\* Where no token is accepted, calls only go.
LEMMA AnswersStay ==
    ASSUME OInv, requests' = requests, accepted' = accepted,
           meCalls' \subseteq meCalls, reauthCalls' \subseteq reauthCalls
    PROVE  AnswersInv'
  BY OwnStays, AcceptedOwnStays DEF OInv, AnswersInv, ReauthsOwn

LEMMA OInitOwn == Init => OInv
  <1> SUFFICES ASSUME Init PROVE OInv
    OBVIOUS
  <1>1. requests = <<>> /\ accepted = <<>> /\ meCalls = {} /\ reauthCalls = {}
    BY DEF Init
  <1>2. presses \in Presses
    BY FacebookAssumption DEF Init, Presses
  <1>3. requests \in Seq(Requests) /\ Len(requests) = 0
    BY <1>1
  <1>4. RequestsInv
    BY <1>2, <1>3 DEF Init, RequestsInv
  <1>5. AnswersInv
    BY <1>1 DEF AnswersInv, AcceptedOwn, ReauthsOwn
  <1>6. QED BY <1>4, <1>5 DEF OInv

LEMMA ONextOwn == OInv /\ [Next]_vars => OInv'
  <1> SUFFICES ASSUME OInv, [Next]_vars PROVE OInv'
    OBVIOUS
  <1>0. /\ presses \in Presses
        /\ requests \in Seq(Requests)
        /\ expectedChallenge \in {0, Len(requests)}
        /\ openRequests \subseteq DOMAIN requests
        /\ opening \subseteq DOMAIN requests
        /\ pendingURLOpen \subseteq Presses
        /\ fallback \subseteq Presses
        /\ 0 \in Presses
    BY FacebookAssumption DEF OInv, RequestsInv, Presses
  <1>1. CASE PressFacebookLogIn
    <2>1. PICK method \in Methods : Perform(presses + 1, method, opening)
      BY <1>1 DEF PressFacebookLogIn
    <2>2. presses + 1 \in Presses /\ presses' = presses + 1
      BY <1>0, <1>1, FacebookAssumption DEF PressFacebookLogIn, Presses
    <2>3. UNCHANGED <<accepted, meCalls, reauthCalls, fallback>>
      BY <1>1 DEF PressFacebookLogIn, callVars
    <2>4. QED BY <1>0, <2>1, <2>2, <2>3, PerformOwn
  <1>2. CASE OtherAppOpens
    <2>1. /\ UNCHANGED <<presses, requests, expectedChallenge, sessionShown,
                         pendingURLOpen, fallback, accepted, meCalls, reauthCalls>>
          /\ openRequests' \cup opening' \subseteq openRequests \cup opening
      BY <1>2 DEF OtherAppOpens, OtherAppOpensAnd, keychainVars, callVars,
                  historyVars
    <2>2. QED BY <1>0, <2>1, RequestsStay, AnswersStay DEF OInv
  <1>3. CASE OpenFails
    <2>1. UNCHANGED <<presses, fallback, accepted, meCalls, reauthCalls>>
      BY <1>3 DEF OpenFails, callVars, historyVars
    <2>2. CASE \E r \in opening, method \in {"browser", "session"} :
                  Perform(requests[r].press, method, opening \ {r})
      <3>1. PICK r \in opening, method \in {"browser", "session"} :
               Perform(requests[r].press, method, opening \ {r})
        BY <2>2
      <3>2. requests[r] \in Requests
        BY <1>0
      <3>3. requests[r].press \in Presses /\ method \in Methods
        BY <3>2 DEF Requests, Methods
      <3>4. opening \ {r} \in SUBSET DOMAIN requests
        BY <1>0
      <3>5. QED BY <1>0, <2>1, <3>1, <3>3, <3>4, PerformOwn
    <2>3. CASE /\ UNCHANGED <<requests, openRequests, expectedChallenge,
                              pendingURLOpen, sessionShown>>
               /\ opening' \subseteq opening
      BY <1>0, <2>1, <2>3, RequestsStay, AnswersStay DEF OInv
    <2>4. QED BY <1>3, <2>2, <2>3 DEF OpenFails, delegateVars
  <1>4. CASE BecomeActive
    <2>1. presses' = presses
      BY <1>4 DEF BecomeActive
    <2>2. CASE UNCHANGED <<requestVars, expectedChallenge, sessionShown,
                           pendingURLOpen, fallback, accepted, meCalls, reauthCalls>>
      BY <1>0, <2>1, <2>2, RequestsStay, AnswersStay DEF OInv, requestVars
    <2>3. CASE /\ fallback' = {}
               /\ \E p \in fallback, method \in {"browser", "session"} :
                     Perform(p, method, opening)
               /\ UNCHANGED <<accepted, meCalls, reauthCalls>>
      <3>1. PICK p \in fallback, method \in {"browser", "session"} :
               Perform(p, method, opening)
        BY <2>3
      <3>2. p \in Presses /\ method \in Methods /\ fallback' \subseteq Presses
        BY <1>0, <2>3 DEF Methods
      <3>3. QED BY <1>0, <2>1, <2>3, <3>1, <3>2, PerformOwn
    <2>4. QED BY <1>4, <2>2, <2>3
            DEF BecomeActive, Refuse, ManagerVars, requestVars, delegateVars,
                keychainVars, callVars
  <1>5. CASE Redirected
    <2>1. /\ UNCHANGED <<presses, requests, opening, sessionShown>>
          /\ openRequests' \cup opening' \subseteq openRequests \cup opening
          /\ pendingURLOpen' = {}
      BY <1>5 DEF Redirected
    <2>2. CASE \E p \in pendingURLOpen, r \in openRequests : OpenURL(managers, p, r)
      BY <1>0, <2>1, <2>2, PendingOwnsNewest, OpenURLOwn, RequestsStay DEF OInv
    <2>3. CASE UNCHANGED ManagerVars
      BY <1>0, <2>1, <2>3, RequestsStay, AnswersStay
         DEF OInv, ManagerVars, keychainVars, callVars
    <2>4. QED BY <1>5, <2>2, <2>3 DEF Redirected
  <1>6. CASE OpenedByOtherURL
    <2>1. /\ UNCHANGED <<presses, requestVars, expectedChallenge, sessionShown,
                         fallback, accepted, meCalls, reauthCalls>>
          /\ pendingURLOpen' = {}
      BY <1>6 DEF OpenedByOtherURL, Refuse
    <2>2. QED BY <1>0, <2>1, RequestsStay, AnswersStay DEF OInv, requestVars
  <1>7. CASE SessionEnds
    <2>1. /\ UNCHANGED <<presses, requestVars>>
          /\ sessionShown' = 0
          /\ sessionShown \in DOMAIN requests
          /\ pendingURLOpen' \subseteq pendingURLOpen
      BY <1>7 DEF SessionEnds, OInv, RequestsInv
    <2>2. CASE \E q \in pendingURLOpen :
                  OpenURL([managers EXCEPT
                              ![requests[sessionShown].press].state = "performing"],
                          q, sessionShown)
      BY <1>0, <2>1, <2>2, PendingOwnsNewest, OpenURLOwn, RequestsStay
         DEF OInv, requestVars
    <2>3. CASE UNCHANGED <<expectedChallenge, fallback, accepted, meCalls,
                           reauthCalls>>
      BY <1>0, <2>1, <2>3, RequestsStay, AnswersStay DEF OInv, requestVars
    <2>4. QED BY <1>7, <2>2, <2>3 DEF SessionEnds, Refuse
  <1>8. CASE Launch
    <2>1. /\ UNCHANGED <<presses, requests, opening, sessionShown, pendingURLOpen>>
          /\ openRequests' \cup opening' \subseteq openRequests \cup opening
      BY <1>8 DEF Launch, delegateVars
    <2>2. CASE \E r \in openRequests : OpenURL(managers, 0, r)
      <3>1. \A r \in openRequests : OwnIfNewest(0, r)
        BY <1>0 DEF OwnIfNewest, Own
      <3>2. QED BY <1>0, <2>1, <2>2, <3>1, OpenURLOwn, RequestsStay DEF OInv
    <2>3. CASE UNCHANGED ManagerVars
      BY <1>0, <2>1, <2>3, RequestsStay, AnswersStay
         DEF OInv, ManagerVars, keychainVars, callVars
    <2>4. QED BY <1>8, <2>2, <2>3 DEF Launch
  <1>9. CASE MeAnswered
    <2>1. /\ UNCHANGED <<presses, requestVars, sessionShown, pendingURLOpen,
                         fallback>>
          /\ meCalls' \subseteq meCalls
      BY <1>9 DEF MeAnswered, delegateVars
    <2>2. RequestsInv'
      BY <1>0, <1>9, <2>1, RequestsStay
         DEF MeAnswered, CompleteAuthentication, requestVars
    <2>3. CASE \E call \in meCalls :
                  CompleteAuthentication(managers, call.press, call.request,
                                         call.user)
      BY <2>1, <2>2, <2>3, CompleteOwn, OwnStays DEF OInv, AnswersInv, requestVars
    <2>4. CASE UNCHANGED <<accepted, reauthCalls>>
      BY <2>1, <2>2, <2>4, AnswersStay DEF OInv, requestVars
    <2>5. QED BY <1>9, <2>3, <2>4 DEF MeAnswered, Refuse
  <1>10. CASE ReauthAnswered
    <2>1. /\ UNCHANGED <<presses, requestVars, expectedChallenge, sessionShown,
                         pendingURLOpen, meCalls, fallback>>
          /\ reauthCalls' \subseteq reauthCalls
      BY <1>10 DEF ReauthAnswered, delegateVars
    <2>2. RequestsInv'
      BY <1>0, <2>1, RequestsStay DEF requestVars
    <2>3. CASE \E call \in reauthCalls :
                  Accept(managers, call.press, call.request, call.user)
      <3>1. PICK call \in reauthCalls :
               Accept(managers, call.press, call.request, call.user)
        BY <2>3
      <3>2. Own(call.press, call.request)
        BY DEF OInv, AnswersInv, ReauthsOwn
      <3>3. AcceptedOwn'
        BY <2>1, <3>1, <3>2, AcceptOwn DEF requestVars
      <3>4. QED BY <2>1, <2>2, <3>3, OwnStays
              DEF OInv, AnswersInv, ReauthsOwn, requestVars
    <2>4. CASE UNCHANGED accepted
      BY <2>1, <2>2, <2>4, AnswersStay DEF OInv, requestVars
    <2>5. QED BY <1>10, <2>3, <2>4 DEF ReauthAnswered
  <1>11. CASE Kill
    <2>1. /\ UNCHANGED <<presses, requests, openRequests, expectedChallenge, accepted>>
          /\ opening' = {} /\ sessionShown' = 0 /\ pendingURLOpen' = {}
          /\ fallback' = {} /\ meCalls' = {} /\ reauthCalls' = {}
      BY <1>11 DEF Kill, keychainVars
    <2>2. QED BY <1>0, <2>1, RequestsStay, AnswersStay DEF OInv
  <1>12. CASE EnterBackground \/ LoseSession \/ FirebaseAnswers \/ SignOut
              \/ UNCHANGED vars
    <2>1. /\ UNCHANGED <<presses, requestVars, expectedChallenge, pendingURLOpen,
                         fallback, accepted, meCalls, reauthCalls>>
          /\ sessionShown' \in {0, sessionShown}
      BY <1>12 DEF EnterBackground, LoseSession, FirebaseAnswers, SignOut, vars,
                   ManagerVars, keychainVars, callVars, delegateVars, historyVars
    <2>2. QED BY <1>0, <2>1, RequestsStay, AnswersStay DEF OInv, requestVars
  <1>13. QED
    BY <1>1, <1>2, <1>3, <1>4, <1>5, <1>6, <1>7, <1>8, <1>9, <1>10, <1>11,
       <1>12 DEF Next

\* A request's token is only taken by the manager that sent it or by one made at
\* a launch, whatever is open elsewhere: for any number of presses and requests.
THEOREM AcceptedByOwnManagerHolds == Spec => []AcceptedByOwnManager
  <1>1. OInv => AcceptedByOwnManager
    BY DEF OInv, AnswersInv, AcceptedOwn, Own, AcceptedByOwnManager
  <1>2. QED BY <1>1, OInitOwn, ONextOwn, PTL DEF Spec

-----------------------------------------------------------------------------
(* Where requests are: in a sheet, or elsewhere.                             *)

SentInv ==
    /\ Len(requests) <= MaxRequests
    /\ \A r \in openRequests \cup opening : requests[r].method # "session"
    /\ \A r \in {authSession, sessionShown} \ {0} :
          r \in DOMAIN requests /\ requests[r].method = "session"
    /\ authSession \in {0, sessionShown} \/ sessionShown = 0

LEMMA PerformSent ==
    ASSUME OInv, SentInv, NEW p \in Presses, NEW method \in Methods,
           NEW left \in SUBSET opening, Perform(p, method, left)
    PROVE  SentInv'
  <1> DEFINE n == Len(requests)
  <1>1. /\ requests \in Seq(Requests) /\ n \in Nat /\ n < MaxRequests
        /\ requests' = Append(requests, [press |-> p, method |-> method])
        /\ openRequests \subseteq DOMAIN requests
        /\ opening \subseteq DOMAIN requests
    BY DEF OInv, RequestsInv, Perform
  <1>2. /\ Len(requests') = n + 1
        /\ DOMAIN requests' = DOMAIN requests \cup {n + 1}
        /\ \A r \in DOMAIN requests : requests'[r] = requests[r]
        /\ requests'[n + 1].method = method
    BY <1>1 DEF Requests
  <1>3. Len(requests') <= MaxRequests
    BY <1>1, <1>2, FacebookAssumption
  <1>4. CASE /\ method # "session"
             /\ opening' = left \cup {n + 1}
             /\ UNCHANGED <<openRequests, authSession, sessionShown>>
    BY <1>1, <1>2, <1>3, <1>4 DEF SentInv
  <1>5. CASE /\ method = "session"
             /\ opening' = left /\ openRequests' = openRequests
             /\ authSession' = n + 1 /\ sessionShown' = n + 1
    BY <1>1, <1>2, <1>3, <1>5 DEF SentInv
  <1>6. QED BY <1>2, <1>4, <1>5 DEF Perform

\* Where no request is sent, they only move from opening to open, or go.
LEMMA SentStays ==
    ASSUME SentInv, requests' = requests,
           openRequests' \cup opening' \subseteq openRequests \cup opening,
           authSession' \in {0, authSession}, sessionShown' \in {0, sessionShown},
           authSession' = 0 \/ sessionShown' = 0 \/ sessionShown' = sessionShown
    PROVE  SentInv'
  BY DEF SentInv

LEMMA InitSentInv == Init => SentInv
  <1> SUFFICES ASSUME Init PROVE SentInv
    OBVIOUS
  <1>1. requests = <<>> /\ MaxRequests \in Nat
    BY FacebookAssumption DEF Init
  <1>2. QED BY <1>1 DEF Init, SentInv

LEMMA NextSentInv == OInv /\ SentInv /\ [Next]_vars => SentInv'
  <1> SUFFICES ASSUME OInv, SentInv, [Next]_vars PROVE SentInv'
    OBVIOUS
  <1>0. /\ presses \in Presses /\ requests \in Seq(Requests)
        /\ opening \subseteq DOMAIN requests /\ fallback \subseteq Presses
    BY DEF OInv, RequestsInv
  <1>1. CASE PressFacebookLogIn
    <2>1. PICK method \in Methods : Perform(presses + 1, method, opening)
      BY <1>1 DEF PressFacebookLogIn
    <2>2. presses + 1 \in Presses
      BY <1>0, <1>1, FacebookAssumption DEF PressFacebookLogIn, Presses
    <2>3. QED BY <2>1, <2>2, PerformSent
  <1>2. CASE OpenFails
    <2>1. CASE \E r \in opening, method \in {"browser", "session"} :
                  Perform(requests[r].press, method, opening \ {r})
      <3>1. PICK r \in opening, method \in {"browser", "session"} :
               Perform(requests[r].press, method, opening \ {r})
        BY <2>1
      <3>2. requests[r] \in Requests
        BY <1>0
      <3>3. requests[r].press \in Presses /\ method \in Methods
        BY <3>2 DEF Requests, Methods
      <3>4. opening \ {r} \in SUBSET opening
        OBVIOUS
      <3>5. QED BY <3>1, <3>3, <3>4, PerformSent
    <2>2. CASE /\ UNCHANGED <<requests, openRequests, authSession, sessionShown>>
               /\ opening' \subseteq opening
      BY <2>2, SentStays
    <2>3. QED BY <1>2, <2>1, <2>2 DEF OpenFails, delegateVars
  <1>3. CASE BecomeActive
    <2>1. CASE UNCHANGED <<requestVars, authSession, sessionShown>>
      BY <2>1, SentStays DEF requestVars
    <2>2. CASE \E p \in fallback, method \in {"browser", "session"} :
                  Perform(p, method, opening)
      <3>1. PICK p \in fallback, method \in {"browser", "session"} :
               Perform(p, method, opening)
        BY <2>2
      <3>2. p \in Presses /\ method \in Methods
        BY <1>0 DEF Methods
      <3>3. QED BY <3>1, <3>2, PerformSent
    <2>3. QED BY <1>3, <2>1, <2>2 DEF BecomeActive, delegateVars
  <1>4. CASE OtherAppOpens
    BY <1>4, SentStays DEF OtherAppOpens, OtherAppOpensAnd
  <1>5. CASE Redirected \/ OpenedByOtherURL \/ SessionEnds \/ LoseSession
    <2>1. /\ requests' = requests
          /\ openRequests' \cup opening' \subseteq openRequests \cup opening
          /\ authSession' \in {0, authSession} /\ sessionShown' \in {0, sessionShown}
          /\ authSession' = 0 \/ sessionShown' = 0
      BY <1>5 DEF Redirected, OpenedByOtherURL, SessionEnds, LoseSession,
                  requestVars, delegateVars
    <2>2. QED BY <2>1, SentStays
  <1>6. CASE Kill \/ Launch
    <2>1. /\ requests' = requests
          /\ openRequests' \cup opening' \subseteq openRequests \cup opening
          /\ authSession' \in {0, authSession} /\ sessionShown' \in {0, sessionShown}
          /\ sessionShown' = 0 \/ sessionShown' = sessionShown
      BY <1>6 DEF Kill, Launch, delegateVars
    <2>2. QED BY <2>1, SentStays
  <1>7. CASE EnterBackground \/ MeAnswered \/ ReauthAnswered \/ FirebaseAnswers
             \/ SignOut \/ UNCHANGED vars
    <2>1. UNCHANGED <<requestVars, authSession, sessionShown>>
      BY <1>7 DEF EnterBackground, MeAnswered, ReauthAnswered, FirebaseAnswers,
                  SignOut, vars, delegateVars
    <2>2. QED BY <2>1, SentStays DEF requestVars
  <1>8. QED BY <1>1, <1>2, <1>3, <1>4, <1>5, <1>6, <1>7 DEF Next

-----------------------------------------------------------------------------
(* Calls under way, and what they may bring.                                 *)

MeCalls == [press : Presses, request : RequestIds, user : Users]
ReauthCalls == [press : Presses, request : RequestIds, user : Users, current : Users]
SignIns == [press : Presses, user : Users]

CallsInv ==
    /\ token \in Users \cup {0}
    /\ meCalls \subseteq MeCalls
    /\ reauthCalls \subseteq ReauthCalls
    /\ signIns \subseteq SignIns
    /\ accepted \in Seq([request : RequestIds, press : Presses])
    /\ fallback \in {{}} \cup {{p} : p \in Presses}

LEMMA AcceptTyped ==
    ASSUME CallsInv, NEW before, NEW p \in Presses, NEW r \in RequestIds,
           NEW user \in Users, Accept(before, p, r, user),
           meCalls' \subseteq meCalls, reauthCalls' \subseteq reauthCalls,
           fallback' = fallback
    PROVE  CallsInv'
  <1>1. /\ token' = user
        /\ accepted' = Append(accepted, [request |-> r, press |-> p])
        /\ signIns' \subseteq signIns \cup {[press |-> p, user |-> user]}
    BY DEF Accept
  <1>2. [request |-> r, press |-> p] \in [request : RequestIds, press : Presses]
    OBVIOUS
  <1>3. [press |-> p, user |-> user] \in SignIns
    BY DEF SignIns
  <1>4. QED BY <1>1, <1>2, <1>3 DEF CallsInv

LEMMA CompleteTyped ==
    ASSUME CallsInv, NEW before, NEW p \in Presses, NEW r \in RequestIds,
           NEW user \in Users, CompleteAuthentication(before, p, r, user),
           meCalls' \subseteq meCalls, fallback' = fallback
    PROVE  CallsInv'
  <1>1. CASE UNCHANGED <<token, accepted, reauthCalls, signIns>>
    BY <1>1 DEF CallsInv
  <1>2. CASE Accept(before, p, r, user) /\ UNCHANGED reauthCalls
    BY <1>2, AcceptTyped
  <1>3. CASE /\ token # 0
             /\ reauthCalls' = reauthCalls \cup
                   {[press |-> p, request |-> r, user |-> user, current |-> token]}
             /\ UNCHANGED <<token, accepted, signIns>>
    <2>1. [press |-> p, request |-> r, user |-> user, current |-> token] \in ReauthCalls
      BY <1>3 DEF CallsInv, ReauthCalls
    <2>2. QED BY <1>3, <2>1 DEF CallsInv
  <1>4. QED BY <1>1, <1>2, <1>3 DEF CompleteAuthentication, TakeToken, Refuse

LEMMA OpenURLTyped ==
    ASSUME CallsInv, NEW before, NEW p \in Presses, NEW r \in RequestIds,
           OpenURL(before, p, r)
    PROVE  CallsInv'
  <1>1. CASE /\ \E user \in Users : CompleteAuthentication(before, p, r, user)
             /\ UNCHANGED <<meCalls, fallback>>
    BY <1>1, CompleteTyped
  <1>2. CASE /\ \E user \in Users :
                   meCalls' = meCalls \cup
                       {[press |-> p, request |-> r, user |-> user]}
             /\ UNCHANGED <<token, reauthCalls, signIns, accepted, fallback>>
    BY <1>2 DEF CallsInv, MeCalls
  <1>3. CASE /\ fallback' \in {fallback, {p}}
             /\ UNCHANGED <<token, reauthCalls, signIns, accepted, meCalls>>
    BY <1>3 DEF CallsInv
  <1>4. QED BY <1>1, <1>2, <1>3 DEF OpenURL, Refuse, keychainVars, callVars

\* Where no token is taken.
LEMMA CallsStay ==
    ASSUME CallsInv, accepted' = accepted, token' \in {0, token},
           meCalls' \subseteq meCalls, reauthCalls' \subseteq reauthCalls,
           signIns' \subseteq signIns, fallback' \in {{}, fallback}
    PROVE  CallsInv'
  BY DEF CallsInv

LEMMA InitCallsInv == Init => CallsInv
  BY DEF Init, CallsInv

LEMMA NextCallsInv == OInv /\ SentInv /\ CallsInv /\ [Next]_vars => CallsInv'
  <1> SUFFICES ASSUME OInv, SentInv, CallsInv, [Next]_vars PROVE CallsInv'
    OBVIOUS
  <1>0. /\ 0 \in Presses
        /\ pendingURLOpen \subseteq Presses
        /\ DOMAIN requests \subseteq RequestIds
        /\ openRequests \subseteq DOMAIN requests
        /\ sessionShown \in DOMAIN requests \cup {0}
    <2>1. requests \in Seq(Requests) /\ Len(requests) <= MaxRequests
      BY DEF OInv, RequestsInv, SentInv
    <2>2. DOMAIN requests = 1 .. Len(requests) /\ Len(requests) \in Nat
      BY <2>1
    <2>3. DOMAIN requests \subseteq RequestIds
      BY <2>1, <2>2, FacebookAssumption DEF RequestIds
    <2>4. QED BY <2>3, FacebookAssumption DEF OInv, RequestsInv, Presses
  <1>1. CASE Redirected
    <2>1. CASE \E p \in pendingURLOpen, r \in openRequests : OpenURL(managers, p, r)
      BY <1>0, <2>1, OpenURLTyped
    <2>2. CASE UNCHANGED ManagerVars
      BY <2>2, CallsStay DEF ManagerVars, keychainVars, callVars
    <2>3. QED BY <1>1, <2>1, <2>2 DEF Redirected
  <1>2. CASE SessionEnds
    <2>1. sessionShown \in RequestIds
      BY <1>0, <1>2 DEF SessionEnds
    <2>2. CASE \E q \in pendingURLOpen :
                  OpenURL([managers EXCEPT
                              ![requests[sessionShown].press].state = "performing"],
                          q, sessionShown)
      BY <1>0, <2>1, <2>2, OpenURLTyped
    <2>3. CASE UNCHANGED <<token, accepted, meCalls, reauthCalls, signIns, fallback>>
      BY <2>3, CallsStay
    <2>4. QED BY <1>2, <2>2, <2>3 DEF SessionEnds, Refuse
  <1>3. CASE Launch
    <2>1. CASE \E r \in openRequests : OpenURL(managers, 0, r)
      BY <1>0, <2>1, OpenURLTyped
    <2>2. CASE UNCHANGED ManagerVars
      BY <2>2, CallsStay DEF ManagerVars, keychainVars, callVars
    <2>3. QED BY <1>3, <2>1, <2>2 DEF Launch
  <1>4. CASE MeAnswered
    <2>1. PICK call \in meCalls :
             /\ meCalls' = meCalls \ {call}
             /\ \/ CompleteAuthentication(managers, call.press, call.request, call.user)
                \/ Refuse(managers, call.press)
      BY <1>4 DEF MeAnswered
    <2>2. fallback' = fallback
      BY <1>4 DEF MeAnswered
    <2>3. call.press \in Presses /\ call.request \in RequestIds /\ call.user \in Users
      BY DEF CallsInv, MeCalls
    <2>4. CASE Refuse(managers, call.press)
      BY <2>1, <2>2, <2>4, CallsStay DEF Refuse
    <2>5. QED BY <2>1, <2>2, <2>3, <2>4, CompleteTyped
  <1>5. CASE ReauthAnswered
    <2>1. PICK call \in reauthCalls :
             /\ reauthCalls' = reauthCalls \ {call}
             /\ \/ Accept(managers, call.press, call.request, call.user)
                \/ UNCHANGED <<token, accepted, signIns>>
      BY <1>5 DEF ReauthAnswered
    <2>2. meCalls' = meCalls /\ fallback' = fallback
      BY <1>5 DEF ReauthAnswered
    <2>3. call.press \in Presses /\ call.request \in RequestIds /\ call.user \in Users
      BY DEF CallsInv, ReauthCalls
    <2>4. CASE UNCHANGED <<token, accepted, signIns>>
      BY <2>1, <2>2, <2>4, CallsStay
    <2>5. QED BY <2>1, <2>2, <2>3, <2>4, AcceptTyped
  <1>6. CASE PressFacebookLogIn \/ OtherAppOpens \/ OpenFails \/ EnterBackground
             \/ BecomeActive \/ OpenedByOtherURL \/ LoseSession \/ Kill
             \/ FirebaseAnswers \/ SignOut \/ UNCHANGED vars
    <2>1. /\ accepted' = accepted /\ token' \in {0, token}
          /\ meCalls' \subseteq meCalls /\ reauthCalls' \subseteq reauthCalls
          /\ signIns' \subseteq signIns /\ fallback' \in {{}, fallback}
      BY <1>6 DEF PressFacebookLogIn, OtherAppOpens, OtherAppOpensAnd, OpenFails,
                  EnterBackground, BecomeActive, OpenedByOtherURL, LoseSession, Kill,
                  FirebaseAnswers, SignOut, Refuse, ManagerVars, vars, keychainVars,
                  callVars, historyVars
    <2>2. QED BY <2>1, CallsStay
  <1>7. QED BY <1>1, <1>2, <1>3, <1>4, <1>5, <1>6 DEF Next

-----------------------------------------------------------------------------
(* Flags, apart from the values, since no backend mixes the two.             *)

FlagsInv ==
    /\ expectingBackground \in BOOLEAN /\ home \in BOOLEAN
    /\ hurried \in BOOLEAN /\ lost \in BOOLEAN /\ signedOut \in BOOLEAN

LEMMA NextFlagsInv == FlagsInv /\ [Next]_vars => FlagsInv'
  <1> SUFFICES ASSUME FlagsInv, [Next]_vars PROVE FlagsInv'
    OBVIOUS
  <1> USE DEF FlagsInv, delegateVars, historyVars, vars
  <1>1. CASE PressFacebookLogIn
    BY <1>1, Zenon DEF PressFacebookLogIn, Perform
  <1>2. CASE OtherAppOpens
    BY <1>2, Zenon DEF OtherAppOpens, OtherAppOpensAnd
  <1>3. CASE OpenFails
    BY <1>3, Zenon DEF OpenFails, Perform
  <1>4. CASE EnterBackground
    BY <1>4, Zenon DEF EnterBackground
  <1>5. CASE BecomeActive
    BY <1>5, Zenon DEF BecomeActive, Perform
  <1>6. CASE Redirected \/ OpenedByOtherURL
    BY <1>6, Zenon DEF Redirected, OpenedByOtherURL
  <1>7. CASE SessionEnds \/ LoseSession
    BY <1>7, Zenon DEF SessionEnds, LoseSession
  <1>8. CASE Kill \/ Launch
    BY <1>8, Zenon DEF Kill, Launch
  <1>9. CASE MeAnswered \/ ReauthAnswered
    BY <1>9, Zenon DEF MeAnswered, ReauthAnswered
  <1>10. CASE FirebaseAnswers
    BY <1>10, Zenon DEF FirebaseAnswers
  <1>11. CASE SignOut \/ UNCHANGED vars
    BY <1>11, Zenon DEF SignOut
  <1>12. QED
    BY <1>1, <1>2, <1>3, <1>4, <1>5, <1>6, <1>7, <1>8, <1>9, <1>10, <1>11 DEF Next

LifeInv ==
    /\ foreground \in {"active", "background", "arriving", "killed"}
    /\ kills \in 0 .. MaxKills

LEMMA NextLifeInv == LifeInv /\ [Next]_vars => LifeInv'
  <1> SUFFICES ASSUME LifeInv, [Next]_vars PROVE LifeInv'
    OBVIOUS
  <1>1. foreground' \in {"active", "background", "arriving", "killed", foreground}
    BY DEF Next, vars, PressFacebookLogIn, OtherAppOpens, OtherAppOpensAnd,
           OpenFails, EnterBackground, BecomeActive, Redirected, OpenedByOtherURL,
           SessionEnds, LoseSession, Kill, Launch, MeAnswered, ReauthAnswered,
           FirebaseAnswers, SignOut
  <1>2. kills' = kills \/ (kills < MaxKills /\ kills' = kills + 1)
    BY DEF Next, vars, historyVars, PressFacebookLogIn, OtherAppOpens,
           OtherAppOpensAnd, OpenFails, EnterBackground, BecomeActive, Redirected,
           OpenedByOtherURL, SessionEnds, LoseSession, Kill, Launch, MeAnswered,
           ReauthAnswered, FirebaseAnswers, SignOut
  <1>3. QED BY <1>1, <1>2, FacebookAssumption DEF LifeInv

-----------------------------------------------------------------------------
TypeInv == HInv /\ OInv /\ SentInv /\ CallsInv /\ FlagsInv /\ LifeInv

\* The types, with what they rest on.
THEOREM TypeInvariance == Spec => []TypeInv
  <1>1. Init => FlagsInv
    BY Zenon DEF Init, FlagsInv
  <1>2. Init => LifeInv
    BY FacebookAssumption DEF Init, LifeInv
  <1>3. Init => TypeInv
    BY <1>1, <1>2, HInitFresh, OInitOwn, InitSentInv, InitCallsInv DEF TypeInv
  <1>4. TypeInv /\ [Next]_vars => TypeInv'
    BY HNextFresh, ONextOwn, NextSentInv, NextCallsInv, NextFlagsInv, NextLifeInv
       DEF TypeInv
  <1>5. QED BY <1>3, <1>4, PTL DEF Spec

\* What is in the keychain, open elsewhere or under way belongs to a request that
\* was sent, and a sheet to one that needs a sheet.
THEOREM TypeOKHolds == Spec => []TypeOK
  <1>1. TypeInv => TypeOK
    <2> SUFFICES ASSUME TypeInv PROVE TypeOK
      OBVIOUS
    <2> USE DEF TypeInv
    <2>1. /\ presses \in Presses
          /\ managers \in [Presses -> [state : States, handler : BOOLEAN]]
          /\ answers \in [Presses -> Nat]
      BY DEF HInv, HandlersFresh, Managers
    <2>2. /\ requests \in Seq([press : Presses, method : Methods])
          /\ Len(requests) <= MaxRequests
          /\ \A r \in openRequests \cup opening :
                r \in DOMAIN requests /\ requests[r].method # "session"
          /\ authSession \in {0, sessionShown} \/ sessionShown = 0
          /\ \A r \in {authSession, sessionShown} \ {0} :
                r \in DOMAIN requests /\ requests[r].method = "session"
      BY DEF OInv, RequestsInv, Requests, SentInv
    <2>3. expectedChallenge \in 0 .. Len(requests)
      <3>1. Len(requests) \in Nat /\ expectedChallenge \in {0, Len(requests)}
        BY DEF OInv, RequestsInv
      <3>2. QED BY <3>1
    <2>4. pendingURLOpen \in {{}} \cup {{p} : p \in Presses}
      <3>1. \A p \in pendingURLOpen :
               p \in Presses /\ p = requests[Len(requests)].press
        BY DEF OInv, RequestsInv
      <3>2. CASE pendingURLOpen # {}
        <4>1. PICK p \in pendingURLOpen : p \in Presses
          BY <3>1, <3>2
        <4>2. pendingURLOpen = {p}
          BY <3>1, <4>1
        <4>3. QED BY <4>1, <4>2
      <3>3. QED BY <3>2
    <2>5. /\ token \in Users \cup {0}
          /\ meCalls \subseteq MeCalls /\ reauthCalls \subseteq ReauthCalls
          /\ signIns \subseteq SignIns
          /\ accepted \in Seq([request : RequestIds, press : Presses])
          /\ fallback \in {{}} \cup {{p} : p \in Presses}
      BY DEF CallsInv
    <2>6. /\ expectingBackground \in BOOLEAN /\ home \in BOOLEAN
          /\ {hurried, lost, signedOut} \subseteq BOOLEAN
      BY Zenon DEF FlagsInv
    <2>7. QED
      BY <2>1, <2>2, <2>3, <2>4, <2>5, <2>6, Zenon
         DEF TypeOK, LifeInv, MeCalls, ReauthCalls, SignIns
  <1>2. QED BY <1>1, TypeInvariance, PTL

-----------------------------------------------------------------------------
(* What is under way for a student who waits: one thing at a time.           *)

NoCalls == meCalls = {} /\ reauthCalls = {} /\ signIns = {}

OneThingAtATime ==
    /\ \A x, y \in opening : x = y
    /\ opening # {} => foreground = "active"
    /\ opening # {} => authSession # sessionShown \/ sessionShown = 0
    /\ foreground = "killed" =>
          /\ pendingURLOpen = {} /\ opening = {} /\ fallback = {}
          /\ authSession = 0 /\ sessionShown = 0 /\ NoCalls
    /\ NoCalls \/ (pendingURLOpen = {} /\ opening = {} /\ fallback = {})
    /\ fallback # {} =>
          /\ foreground = "arriving" /\ pendingURLOpen = {} /\ opening = {}
          /\ authSession = 0

\* A return is only expected while the app is active, not from elsewhere.
ReturnsAreNoticed == foreground = "active" \/ ~expectingBackground

LEMMA NextReturns == ReturnsAreNoticed /\ [Next]_vars => ReturnsAreNoticed'
  <1> SUFFICES ASSUME ReturnsAreNoticed, [Next]_vars PROVE ReturnsAreNoticed'
    OBVIOUS
  <1> USE DEF ReturnsAreNoticed, delegateVars
  <1>1. CASE PressFacebookLogIn \/ OpenFails \/ BecomeActive
    BY <1>1 DEF PressFacebookLogIn, OpenFails, BecomeActive
  <1>2. CASE OtherAppOpens \/ EnterBackground \/ Kill
    BY <1>2, Zenon DEF OtherAppOpens, OtherAppOpensAnd, EnterBackground, Kill
  <1>3. CASE Redirected \/ OpenedByOtherURL \/ SessionEnds \/ Launch
    BY <1>3, Zenon DEF Redirected, OpenedByOtherURL, SessionEnds, Launch
  <1>4. CASE LoseSession \/ MeAnswered \/ ReauthAnswered \/ FirebaseAnswers
             \/ SignOut \/ UNCHANGED vars
    BY <1>4, Zenon DEF LoseSession, MeAnswered, ReauthAnswered, FirebaseAnswers,
                       SignOut, vars
  <1>5. QED BY <1>1, <1>2, <1>3, <1>4 DEF Next

\* A student who has waited until after the step had waited before.
LEMMA Patience ==
    ASSUME [Next]_vars, ~hurried'
    PROVE  /\ ~hurried
           /\ PressFacebookLogIn => ~UnderWay
           /\ EnterBackground => opening = {}
  <1>1. CASE PressFacebookLogIn
    <2>1. ~hurried /\ ~UnderWay
      BY <1>1, Zenon DEF PressFacebookLogIn
    <2>2. ~EnterBackground
      BY <1>1 DEF PressFacebookLogIn, EnterBackground
    <2>3. QED BY <2>1, <2>2
  <1>2. CASE EnterBackground
    <2>1. ~hurried /\ opening = {}
      BY <1>2, Zenon DEF EnterBackground
    <2>2. ~PressFacebookLogIn
      BY <1>2 DEF PressFacebookLogIn, EnterBackground
    <2>3. QED BY <2>1, <2>2
  <1>3. CASE ~PressFacebookLogIn /\ ~EnterBackground
    <2>1. hurried' = hurried
      BY <1>3, Zenon DEF Next, vars, historyVars, OtherAppOpens, OtherAppOpensAnd, OpenFails,
           BecomeActive, Redirected, OpenedByOtherURL, SessionEnds, LoseSession,
           Kill, Launch, MeAnswered, ReauthAnswered, FirebaseAnswers, SignOut
    <2>2. QED BY <1>3, <2>1, Zenon
  <1>4. QED BY <1>1, <1>2, <1>3

\* A request that leaves nothing else on its way.
LEMMA PerformAlone ==
    ASSUME OInv, NEW p, NEW method, Perform(p, method, {}),
           sessionShown = 0 \/ authSession = 0,
           NoCalls', fallback' = {}, foreground' = "active"
    PROVE  OneThingAtATime'
  <1>1. opening' \in {{}, {Len(requests')}}
    BY DEF Perform
  <1>2. CASE opening' = {}
    BY <1>2 DEF OneThingAtATime
  <1>3. CASE opening' # {}
    <2>1. UNCHANGED <<authSession, sessionShown>>
      BY <1>3 DEF Perform
    <2>2. QED BY <1>1, <1>3, <2>1 DEF OneThingAtATime
  <1>4. QED BY <1>2, <1>3

\* What a redirect leaves under way: calls, or a wish for the browser.
LEMMA OpenURLCalls ==
    ASSUME NEW before, NEW p, NEW r, OpenURL(before, p, r)
    PROVE  \/ fallback' = fallback
           \/ /\ fallback' = {p} /\ UNCHANGED <<callVars, expectedChallenge>>
              /\ requests[r].method = "facebookApp"
  BY DEF OpenURL, keychainVars

LEMMA NextOneThing ==
    ASSUME OInv, SentInv, ReturnsAreNoticed, OneThingAtATime, Next, ~hurried'
    PROVE  OneThingAtATime'
  <1> USE DEF NoCalls
  <1>1. CASE PressFacebookLogIn
    <2>1. NoCalls /\ opening = {}
      BY <1>1, Patience DEF UnderWay
    <2>2. PICK method \in Methods : Perform(presses + 1, method, opening)
      BY <1>1 DEF PressFacebookLogIn
    <2>3. fallback = {}
      BY <1>1 DEF PressFacebookLogIn, OneThingAtATime
    <2>4. /\ NoCalls' /\ fallback' = {} /\ foreground' = "active" /\ sessionShown = 0
      BY <1>1, <2>1, <2>3 DEF PressFacebookLogIn, callVars
    <2>5. QED BY <2>1, <2>2, <2>4, PerformAlone
  <1>2. CASE OtherAppOpens
    <2>1. PICK r \in opening : opening' = opening \ {r}
      BY <1>2 DEF OtherAppOpens, OtherAppOpensAnd
    <2>2. opening' = {} /\ NoCalls /\ fallback = {}
      BY <2>1 DEF OneThingAtATime
    <2>3. QED BY <1>2, <2>2
            DEF OneThingAtATime, OtherAppOpens, OtherAppOpensAnd, callVars
  <1>3. CASE OpenFails
    <2>1. NoCalls /\ fallback = {}
      BY <1>3 DEF OpenFails, OneThingAtATime
    <2>2. NoCalls' /\ fallback' = {} /\ foreground' = "active"
      BY <1>3, <2>1 DEF OpenFails, callVars
    <2>3. PICK r \in opening :
             \/ /\ sessionShown = 0
                /\ \E method \in {"browser", "session"} :
                      Perform(requests[r].press, method, opening \ {r})
             \/ /\ opening' = opening \ {r}
                /\ UNCHANGED <<delegateVars, sessionShown>>
      BY <1>3 DEF OpenFails
    <2>4. opening \ {r} = {}
      BY DEF OneThingAtATime
    <2>5. CASE opening' = opening \ {r}
      BY <2>2, <2>4, <2>5 DEF OneThingAtATime
    <2>6. QED BY <2>2, <2>3, <2>4, <2>5, PerformAlone
  <1>4. CASE EnterBackground
    <2>1. opening = {}
      BY <1>4, Patience
    <2>2. QED BY <1>4, <2>1
            DEF EnterBackground, OneThingAtATime, ManagerVars, callVars, requestVars
  <1>5. CASE BecomeActive
    <2>1. CASE /\ UNCHANGED <<meCalls, reauthCalls, signIns, fallback, requestVars,
                              delegateVars, sessionShown>>
               /\ fallback = {}
      BY <1>5, <2>1 DEF BecomeActive, OneThingAtATime, requestVars, delegateVars
    <2>2. CASE fallback # {}
      <3>1. /\ opening = {} /\ authSession = 0 /\ pendingURLOpen = {} /\ NoCalls
            /\ foreground = "arriving"
        BY <2>2 DEF OneThingAtATime
      <3>2. ~expectingBackground
        BY <3>1, Zenon DEF ReturnsAreNoticed
      <3>3. /\ fallback' = {} /\ NoCalls' /\ foreground' = "active"
            /\ \E p \in fallback, method \in {"browser", "session"} :
                  Perform(p, method, opening)
        BY <1>5, <2>2, <3>1, <3>2 DEF BecomeActive, callVars
      <3>4. QED BY <3>1, <3>3, PerformAlone
    <2>3. QED BY <1>5, <2>1, <2>2
            DEF BecomeActive, Refuse, ManagerVars, keychainVars, callVars
  <1>6. CASE Redirected
    <2>1. /\ opening = {} /\ fallback = {} /\ opening' = {} /\ pendingURLOpen' = {}
          /\ authSession' = 0 /\ foreground' = "arriving"
      BY <1>6 DEF Redirected, OneThingAtATime
    <2>2. CASE pendingURLOpen = {}
      <3>1. UNCHANGED <<callVars, fallback>>
        BY <1>6, <2>2 DEF Redirected, ManagerVars
      <3>2. QED BY <2>1, <3>1 DEF OneThingAtATime, callVars
    <2>3. CASE \E p \in pendingURLOpen, r \in openRequests : OpenURL(managers, p, r)
      <3>1. NoCalls
        BY <2>3 DEF OneThingAtATime
      <3>2. fallback' = {} \/ NoCalls'
        BY <2>1, <2>3, <3>1, OpenURLCalls DEF callVars
      <3>3. QED BY <2>1, <3>2 DEF OneThingAtATime
    <2>4. QED BY <1>6, <2>2, <2>3 DEF Redirected
  <1>7. CASE OpenedByOtherURL
    BY <1>7 DEF OpenedByOtherURL, OneThingAtATime, Refuse, requestVars
  <1>8. CASE SessionEnds
    <2>1. /\ authSession' = 0 /\ sessionShown' = 0 /\ opening' = opening
          /\ foreground = "active" /\ foreground' = "active" /\ fallback = {}
      BY <1>8 DEF SessionEnds, OneThingAtATime, requestVars
    <2>2. CASE UNCHANGED <<pendingURLOpen, meCalls, reauthCalls, signIns, fallback>>
      BY <2>1, <2>2 DEF OneThingAtATime
    <2>3. CASE /\ authSession = sessionShown /\ sessionShown # 0
               /\ \E q \in pendingURLOpen :
                     OpenURL([managers EXCEPT
                                 ![requests[sessionShown].press].state = "performing"],
                             q, sessionShown)
               /\ pendingURLOpen' = {}
      <3>1. opening = {}
        BY <2>3 DEF OneThingAtATime
      <3>2. requests[sessionShown].method # "facebookApp"
        BY <2>3 DEF SentInv
      <3>3. fallback' = {}
        BY <2>1, <2>3, <3>2, OpenURLCalls
      <3>4. QED BY <2>1, <2>3, <3>1, <3>3 DEF OneThingAtATime
    <2>4. QED BY <1>8, <2>2, <2>3 DEF SessionEnds, Refuse
  <1>9. CASE LoseSession
    BY <1>9 DEF LoseSession, OneThingAtATime, ManagerVars, callVars, requestVars,
                delegateVars
  <1>10. CASE Kill
    BY <1>10 DEF Kill, OneThingAtATime
  <1>11. CASE Launch
    <2>1. /\ pendingURLOpen = {} /\ opening = {} /\ fallback = {}
          /\ authSession = 0 /\ sessionShown = 0 /\ NoCalls
          /\ foreground' = "arriving"
      BY <1>11 DEF Launch, OneThingAtATime
    <2>2. /\ pendingURLOpen' = {} /\ opening' = {} /\ authSession' = 0
          /\ sessionShown' = 0
      BY <1>11, <2>1 DEF Launch, delegateVars
    <2>3. fallback' = {} \/ NoCalls'
      <3>1. CASE \E r \in openRequests : OpenURL(managers, 0, r)
        BY <2>1, <3>1, OpenURLCalls DEF callVars
      <3>2. CASE UNCHANGED ManagerVars
        BY <2>1, <3>2 DEF ManagerVars
      <3>3. QED BY <1>11, <3>1, <3>2 DEF Launch
    <2>4. QED BY <2>1, <2>2, <2>3 DEF OneThingAtATime
  <1>12. CASE MeAnswered \/ ReauthAnswered \/ FirebaseAnswers
    <2>1. ~NoCalls
      BY <1>12 DEF MeAnswered, ReauthAnswered, FirebaseAnswers
    <2>2. /\ pendingURLOpen = {} /\ opening = {} /\ fallback = {}
          /\ foreground # "killed"
      BY <2>1 DEF OneThingAtATime
    <2>3. UNCHANGED <<requestVars, delegateVars, sessionShown, fallback, foreground>>
      BY <1>12 DEF MeAnswered, ReauthAnswered, FirebaseAnswers
    <2>4. QED BY <2>2, <2>3 DEF OneThingAtATime, requestVars, delegateVars
  <1>13. CASE SignOut
    BY <1>13 DEF SignOut, OneThingAtATime, callVars, requestVars, delegateVars
  <1>14. QED
    BY <1>1, <1>2, <1>3, <1>4, <1>5, <1>6, <1>7, <1>8, <1>9, <1>10, <1>11,
       <1>12, <1>13 DEF Next

-----------------------------------------------------------------------------
(* One token at a time: where one is compared or signed in with, no challenge *)
(* is expected, and whatever is expected is newer than what was accepted.     *)

RequestsInOrder ==
    \A i, j \in DOMAIN accepted : i < j => accepted[i].request < accepted[j].request

OneTokenAtATime ==
    /\ reauthCalls # {} \/ signIns # {} => expectedChallenge = 0
    /\ reauthCalls = {} \/ signIns = {}
    /\ \A x, y \in reauthCalls : x = y
    /\ \A x, y \in signIns : x = y
    /\ RequestsInOrder
    /\ \A call \in reauthCalls, i \in DOMAIN accepted :
          accepted[i].request < call.request
    /\ expectedChallenge # 0 => \A i \in DOMAIN accepted :
                                   accepted[i].request < expectedChallenge

\* A token newer than the ones before.
LEMMA AcceptInOrder ==
    ASSUME CallsInv, RequestsInOrder,
           NEW before, NEW p \in Presses, NEW r \in RequestIds, NEW user,
           \A i \in DOMAIN accepted : accepted[i].request < r,
           Accept(before, p, r, user)
    PROVE  RequestsInOrder'
  <1> DEFINE n == Len(accepted)
  <1>1. /\ accepted \in Seq([request : RequestIds, press : Presses])
        /\ accepted' = Append(accepted, [request |-> r, press |-> p])
        /\ n \in Nat
    BY DEF CallsInv, Accept
  <1>2. /\ DOMAIN accepted = 1 .. n
        /\ DOMAIN accepted' = 1 .. n + 1
        /\ \A i \in 1 .. n : accepted'[i] = accepted[i]
        /\ accepted'[n + 1].request = r
    BY <1>1
  <1>3. SUFFICES ASSUME NEW i \in 1 .. n + 1, NEW j \in 1 .. n + 1, i < j
                 PROVE  accepted'[i].request < accepted'[j].request
    BY <1>2 DEF RequestsInOrder
  <1>4. i \in 1 .. n
    BY <1>1, <1>3
  <1>5. CASE j \in 1 .. n
    BY <1>2, <1>3, <1>4, <1>5 DEF RequestsInOrder
  <1>6. CASE j = n + 1
    BY <1>2, <1>4, <1>6
  <1>7. QED BY <1>1, <1>5, <1>6

LEMMA CompleteInOrder ==
    ASSUME CallsInv, OneTokenAtATime,
           NEW before, NEW p \in Presses, NEW r \in RequestIds \ {0}, NEW user,
           CompleteAuthentication(before, p, r, user)
    PROVE  OneTokenAtATime'
  <1>1. expectedChallenge' = 0
    BY DEF CompleteAuthentication
  <1>2. CASE UNCHANGED <<accepted, reauthCalls, signIns>>
    BY <1>1, <1>2 DEF OneTokenAtATime, RequestsInOrder
  <1>3. CASE expectedChallenge = r /\ TakeToken(before, p, r, user)
    <2>1. /\ reauthCalls = {} /\ signIns = {} /\ RequestsInOrder
          /\ \A i \in DOMAIN accepted : accepted[i].request < r
      BY <1>3 DEF OneTokenAtATime
    <2>2. CASE Accept(before, p, r, user) /\ UNCHANGED reauthCalls
      <3>1. RequestsInOrder'
        BY <2>1, <2>2, AcceptInOrder
      <3>2. signIns' \in {{}, {[press |-> p, user |-> user]}} /\ reauthCalls' = {}
        BY <2>1, <2>2 DEF Accept
      <3>3. QED BY <1>1, <3>1, <3>2 DEF OneTokenAtATime
    <2>3. CASE /\ reauthCalls' = reauthCalls \cup
                     {[press |-> p, request |-> r, user |-> user, current |-> token]}
               /\ UNCHANGED <<accepted, signIns>>
      BY <1>1, <2>1, <2>3 DEF OneTokenAtATime, RequestsInOrder
    <2>4. QED BY <1>3, <2>2, <2>3 DEF TakeToken
  <1>4. QED BY <1>2, <1>3 DEF CompleteAuthentication, Refuse

LEMMA OpenURLInOrder ==
    ASSUME CallsInv, OneTokenAtATime,
           NEW before, NEW p \in Presses, NEW r \in RequestIds \ {0},
           OpenURL(before, p, r)
    PROVE  OneTokenAtATime'
  <1>1. CASE \E user \in Users : CompleteAuthentication(before, p, r, user)
    BY <1>1, CompleteInOrder
  <1>2. CASE /\ expectedChallenge' \in {0, expectedChallenge}
             /\ UNCHANGED <<accepted, reauthCalls, signIns>>
    BY <1>2 DEF OneTokenAtATime, RequestsInOrder
  <1>3. QED BY <1>1, <1>2 DEF OpenURL, Refuse, keychainVars, callVars

\* A new challenge is newer than everything accepted.
LEMMA PerformInOrder ==
    ASSUME OInv, OneTokenAtATime, reauthCalls = {}, signIns = {},
           NEW p, NEW method, NEW left, Perform(p, method, left),
           UNCHANGED <<accepted, reauthCalls, signIns>>
    PROVE  OneTokenAtATime'
  <1>1. /\ requests \in Seq(Requests)
        /\ \A i \in DOMAIN accepted : accepted[i].request \in DOMAIN requests
    BY DEF OInv, RequestsInv, AnswersInv, AcceptedOwn, Own
  <1>2. expectedChallenge' = Len(requests) + 1
    BY <1>1 DEF Perform
  <1>3. \A i \in DOMAIN accepted : accepted[i].request < Len(requests) + 1
    BY <1>1
  <1>4. QED BY <1>2, <1>3 DEF OneTokenAtATime, RequestsInOrder

LEMMA NextOneToken ==
    ASSUME TypeInv, OneThingAtATime, OneTokenAtATime, Next, ~hurried'
    PROVE  OneTokenAtATime'
  <1>0. /\ OInv /\ CallsInv
        /\ 0 \in Presses /\ pendingURLOpen \subseteq Presses
        /\ DOMAIN requests \subseteq RequestIds \ {0}
        /\ openRequests \subseteq DOMAIN requests
        /\ sessionShown \in DOMAIN requests \cup {0}
        /\ \A call \in meCalls : /\ call.press \in Presses
                                 /\ call.request \in RequestIds \ {0}
    <2>1. requests \in Seq(Requests) /\ Len(requests) <= MaxRequests
      BY DEF TypeInv, OInv, RequestsInv, SentInv
    <2>2. DOMAIN requests = 1 .. Len(requests) /\ Len(requests) \in Nat
      BY <2>1
    <2>3. DOMAIN requests \subseteq RequestIds \ {0}
      BY <2>1, <2>2, FacebookAssumption DEF RequestIds
    <2>4. \A call \in meCalls : call.press \in Presses /\ call.request \in DOMAIN requests
      BY DEF TypeInv, OInv, AnswersInv, OwnIfNewest
    <2>5. QED BY <2>3, <2>4, FacebookAssumption
            DEF TypeInv, OInv, RequestsInv, Presses
  <1>1. CASE PressFacebookLogIn
    <2>1. NoCalls
      BY <1>1, Patience DEF UnderWay, NoCalls
    <2>2. QED BY <1>0, <1>1, <2>1, PerformInOrder
            DEF PressFacebookLogIn, NoCalls, callVars
  <1>2. CASE OpenFails
    <2>1. NoCalls
      BY <1>2 DEF OpenFails, OneThingAtATime
    <2>2. UNCHANGED <<accepted, reauthCalls, signIns>>
      BY <1>2 DEF OpenFails, callVars, historyVars
    <2>3. CASE UNCHANGED expectedChallenge
      BY <2>2, <2>3 DEF OneTokenAtATime, RequestsInOrder
    <2>4. QED BY <1>0, <1>2, <2>1, <2>2, <2>3, PerformInOrder DEF OpenFails, NoCalls
  <1>3. CASE BecomeActive
    <2>1. CASE UNCHANGED <<accepted, reauthCalls, signIns, expectedChallenge>>
      BY <2>1 DEF OneTokenAtATime, RequestsInOrder
    <2>2. CASE /\ fallback # {}
               /\ \E p \in fallback, method \in {"browser", "session"} :
                     Perform(p, method, opening)
               /\ UNCHANGED <<accepted, reauthCalls, signIns>>
      <3>1. NoCalls
        BY <2>2 DEF OneThingAtATime
      <3>2. QED BY <1>0, <2>2, <3>1, PerformInOrder DEF NoCalls
    <2>3. QED BY <1>3, <2>1, <2>2
            DEF BecomeActive, Refuse, ManagerVars, keychainVars, callVars
  <1>4. CASE Redirected
    <2>1. CASE \E p \in pendingURLOpen, r \in openRequests : OpenURL(managers, p, r)
      BY <1>0, <2>1, OpenURLInOrder
    <2>2. CASE UNCHANGED ManagerVars
      BY <2>2 DEF ManagerVars, keychainVars, callVars, OneTokenAtATime, RequestsInOrder
    <2>3. QED BY <1>4, <2>1, <2>2 DEF Redirected
  <1>5. CASE SessionEnds
    <2>1. CASE \E q \in pendingURLOpen :
                  OpenURL([managers EXCEPT
                              ![requests[sessionShown].press].state = "performing"],
                          q, sessionShown)
      <3>1. sessionShown \in DOMAIN requests
        BY <1>0, <1>5 DEF SessionEnds
      <3>2. QED BY <1>0, <2>1, <3>1, OpenURLInOrder
    <2>2. CASE UNCHANGED <<accepted, reauthCalls, signIns, expectedChallenge>>
      BY <2>2 DEF OneTokenAtATime, RequestsInOrder
    <2>3. QED BY <1>5, <2>1, <2>2 DEF SessionEnds, Refuse
  <1>6. CASE Launch
    <2>1. CASE \E r \in openRequests : OpenURL(managers, 0, r)
      BY <1>0, <2>1, OpenURLInOrder
    <2>2. CASE UNCHANGED ManagerVars
      BY <2>2 DEF ManagerVars, keychainVars, callVars, OneTokenAtATime, RequestsInOrder
    <2>3. QED BY <1>6, <2>1, <2>2 DEF Launch
  <1>7. CASE MeAnswered
    <2>1. CASE \E call \in meCalls :
                  CompleteAuthentication(managers, call.press, call.request, call.user)
      BY <1>0, <2>1, CompleteInOrder
    <2>2. CASE /\ expectedChallenge' = 0
               /\ UNCHANGED <<accepted, reauthCalls, signIns>>
      BY <2>2 DEF OneTokenAtATime, RequestsInOrder
    <2>3. QED BY <1>7, <2>1, <2>2 DEF MeAnswered, Refuse
  <1>8. CASE ReauthAnswered
    <2>1. PICK call \in reauthCalls :
             /\ reauthCalls' = reauthCalls \ {call}
             /\ \/ Accept(managers, call.press, call.request, call.user)
                \/ UNCHANGED <<accepted, signIns>>
      BY <1>8 DEF ReauthAnswered
    <2>2. /\ reauthCalls' = {} /\ signIns = {} /\ expectedChallenge = 0
          /\ RequestsInOrder
          /\ \A i \in DOMAIN accepted : accepted[i].request < call.request
      BY <2>1 DEF OneTokenAtATime
    <2>3. expectedChallenge' = 0
      BY <1>8, <2>2 DEF ReauthAnswered
    <2>4. call.press \in Presses /\ call.request \in RequestIds
      BY <1>0 DEF CallsInv, ReauthCalls
    <2>5. CASE Accept(managers, call.press, call.request, call.user)
      <3>1. RequestsInOrder'
        BY <1>0, <2>2, <2>4, <2>5, AcceptInOrder
      <3>2. signIns' \in {{}, {[press |-> call.press, user |-> call.user]}}
        BY <2>2, <2>5 DEF Accept
      <3>3. QED BY <2>2, <2>3, <3>1, <3>2 DEF OneTokenAtATime
    <2>6. CASE UNCHANGED <<accepted, signIns>>
      BY <2>2, <2>3, <2>6 DEF OneTokenAtATime, RequestsInOrder
    <2>7. QED BY <2>1, <2>5, <2>6
  <1>9. CASE OtherAppOpens \/ EnterBackground \/ OpenedByOtherURL \/ LoseSession
             \/ Kill \/ FirebaseAnswers \/ SignOut
    <2>1. /\ accepted' = accepted /\ expectedChallenge' = expectedChallenge
          /\ reauthCalls' \subseteq reauthCalls /\ signIns' \subseteq signIns
      BY <1>9 DEF OtherAppOpens, OtherAppOpensAnd, EnterBackground,
                  OpenedByOtherURL, LoseSession, Kill, FirebaseAnswers, SignOut,
                  Refuse, ManagerVars, keychainVars, callVars, historyVars
    <2>2. QED BY <2>1 DEF OneTokenAtATime, RequestsInOrder
  <1>10. QED
    BY <1>1, <1>2, <1>3, <1>4, <1>5, <1>6, <1>7, <1>8, <1>9 DEF Next

-----------------------------------------------------------------------------
(* After a login, and after a sign-out, nothing that is open elsewhere counts. *)

\* No request was sent by a manager made at a launch.
NoRequestAtLaunch == \A r \in DOMAIN requests : requests[r].press # 0

LoginOver == home \/ signedOut

Quiet ==
    /\ expectedChallenge = 0
    /\ pendingURLOpen = {} /\ opening = {} /\ fallback \subseteq {0}
    /\ reauthCalls = {} /\ signIns = {}

Out == token = 0 /\ ~home

OverInv == (LoginOver => Quiet) /\ (signedOut => Out)

LEMMA PerformSends ==
    ASSUME OInv, NEW p, NEW method, NEW left, Perform(p, method, left)
    PROVE  \E r \in DOMAIN requests' : requests'[r].press = p
  <1>1. /\ requests \in Seq(Requests)
        /\ requests' = Append(requests, [press |-> p, method |-> method])
    BY DEF OInv, RequestsInv, Perform
  <1>2. Len(requests) + 1 \in DOMAIN requests'
        /\ requests'[Len(requests) + 1].press = p
    BY <1>1
  <1>3. QED BY <1>2

LEMMA RequestsOnlyAdded ==
    ASSUME OInv, [Next]_vars, NoRequestAtLaunch'
    PROVE  NoRequestAtLaunch
  <1>1. requests \in Seq(Requests)
    BY DEF OInv, RequestsInv
  <1>2. \/ requests' = requests
        \/ \E request : requests' = Append(requests, request)
    BY DEF Next, vars, requestVars, PressFacebookLogIn, OtherAppOpens,
           OtherAppOpensAnd, OpenFails, EnterBackground, BecomeActive, Redirected,
           OpenedByOtherURL, SessionEnds, LoseSession, Kill, Launch, MeAnswered,
           ReauthAnswered, FirebaseAnswers, SignOut, Perform
  <1>3. CASE requests' = requests
    BY <1>3 DEF NoRequestAtLaunch
  <1>4. ASSUME NEW request, requests' = Append(requests, request)
        PROVE  NoRequestAtLaunch
    <2>1. \A r \in DOMAIN requests : r \in DOMAIN requests' /\ requests'[r] = requests[r]
      BY <1>1, <1>4
    <2>2. QED BY <2>1 DEF NoRequestAtLaunch
  <1>5. QED BY <1>2, <1>3, <1>4

\* A late answer finds no challenge.
LEMMA LateAnswerRefused ==
    ASSUME Quiet, NEW before, NEW p, NEW r, r # 0, NEW user,
           CompleteAuthentication(before, p, r, user)
    PROVE  UNCHANGED <<token, accepted, reauthCalls, signIns>> /\ expectedChallenge' = 0
  BY DEF Quiet, CompleteAuthentication, Refuse

\* Once quiet, it stays quiet until the button is pressed.
LEMMA QuietStays ==
    ASSUME TypeInv, Quiet, Next, ~PressFacebookLogIn, NoRequestAtLaunch'
    PROVE  /\ Quiet' /\ token' \in {0, token}
           /\ ~FirebaseAnswers
  <1>0. /\ OInv /\ 0 \notin DOMAIN requests
        /\ openRequests \subseteq DOMAIN requests
        /\ \A call \in meCalls : call.request \in DOMAIN requests
    BY DEF TypeInv, OInv, RequestsInv, AnswersInv, OwnIfNewest
  <1>1. ~OtherAppOpens /\ ~OpenFails /\ ~ReauthAnswered /\ ~FirebaseAnswers
    BY DEF Quiet, OtherAppOpens, OtherAppOpensAnd, OpenFails, ReauthAnswered,
           FirebaseAnswers
  <1>2. CASE BecomeActive
    <2>1. ~\E p \in fallback, method \in {"browser", "session"} :
              Perform(p, method, opening)
      BY <1>0, PerformSends DEF Quiet, NoRequestAtLaunch
    <2>2. QED BY <1>1, <1>2, <2>1
            DEF BecomeActive, Quiet, ManagerVars, requestVars, delegateVars,
                keychainVars, callVars
  <1>3. CASE Redirected \/ OpenedByOtherURL \/ SessionEnds
    BY <1>1, <1>3 DEF Redirected, OpenedByOtherURL, SessionEnds, Quiet, Refuse,
                ManagerVars, requestVars, keychainVars, callVars
  <1>4. CASE Launch
    <2>1. CASE UNCHANGED ManagerVars
      BY <1>1, <1>4, <2>1 DEF Launch, Quiet, ManagerVars, delegateVars, keychainVars, callVars
    <2>2. CASE \E r \in openRequests : OpenURL(managers, 0, r)
      <3>1. PICK r \in openRequests : OpenURL(managers, 0, r)
        BY <2>2
      <3>2. r # 0
        BY <1>0
      <3>3. /\ UNCHANGED <<token, reauthCalls, signIns>> /\ expectedChallenge' = 0
            /\ fallback' \in {fallback, {0}}
        BY <3>1, <3>2, LateAnswerRefused
           DEF OpenURL, Refuse, Quiet, keychainVars, callVars
      <3>4. UNCHANGED <<opening, pendingURLOpen>>
        BY <1>4 DEF Launch, delegateVars
      <3>5. QED BY <1>1, <3>3, <3>4 DEF Quiet
    <2>3. QED BY <1>4, <2>1, <2>2 DEF Launch
  <1>5. CASE MeAnswered
    <2>1. /\ UNCHANGED <<token, reauthCalls, signIns>> /\ expectedChallenge' = 0
      <3>1. PICK call \in meCalls :
               \/ CompleteAuthentication(managers, call.press, call.request, call.user)
               \/ expectedChallenge' = 0 /\ Refuse(managers, call.press)
        BY <1>5 DEF MeAnswered
      <3>2. call.request # 0
        BY <1>0
      <3>3. QED BY <3>1, <3>2, LateAnswerRefused DEF Refuse
    <2>2. UNCHANGED <<opening, pendingURLOpen, fallback>>
      BY <1>5 DEF MeAnswered, requestVars, delegateVars
    <2>3. QED BY <1>1, <2>1, <2>2 DEF Quiet
  <1>6. CASE EnterBackground \/ LoseSession \/ Kill \/ SignOut
    BY <1>1, <1>6
       DEF EnterBackground, LoseSession, Kill, SignOut, Quiet, ManagerVars,
           requestVars, delegateVars, keychainVars, callVars
  <1>7. QED BY <1>1, <1>2, <1>3, <1>4, <1>5, <1>6 DEF Next

\* Firebase's answer ends the only login there is.
LEMMA SignInEndsLogin ==
    ASSUME OneThingAtATime, OneTokenAtATime, FirebaseAnswers
    PROVE  Quiet'
  <1>1. signIns # {} /\ ~NoCalls
    BY DEF FirebaseAnswers, NoCalls
  <1>2. PICK x \in signIns : signIns' = signIns \ {x}
    BY DEF FirebaseAnswers
  <1>3. signIns' = {}
    BY <1>2 DEF OneTokenAtATime
  <1>4. /\ expectedChallenge = 0 /\ reauthCalls = {}
        /\ pendingURLOpen = {} /\ opening = {} /\ fallback = {}
    BY <1>1 DEF OneTokenAtATime, OneThingAtATime
  <1>5. UNCHANGED <<expectedChallenge, reauthCalls, pendingURLOpen, opening, fallback>>
    BY DEF FirebaseAnswers, keychainVars, delegateVars, requestVars
  <1>6. QED BY <1>3, <1>4, <1>5 DEF Quiet

\* How a login is over, or a sign-out begins.
LEMMA NextFlags ==
    ASSUME Next
    PROVE  /\ PressFacebookLogIn => ~LoginOver' /\ ~signedOut'
           /\ LoginOver' => LoginOver \/ FirebaseAnswers
           /\ signedOut' /\ ~SignOut => signedOut
           /\ SignOut => LoginOver /\ token' = 0 /\ ~home'
           /\ ~home /\ ~FirebaseAnswers => ~home'
  <1> USE DEF LoginOver, historyVars
  <1>1. CASE PressFacebookLogIn
    <2>1. ~home' /\ ~signedOut' /\ ~home
      BY <1>1, Zenon DEF PressFacebookLogIn
    <2>2. ~SignOut
      BY <2>1, Zenon DEF SignOut
    <2>3. QED BY <2>1, <2>2, Zenon
  <1>2. CASE SignOut
    <2>1. home /\ token' = 0 /\ ~home'
      BY <1>2, Zenon DEF SignOut
    <2>2. ~PressFacebookLogIn
      BY <2>1, Zenon DEF PressFacebookLogIn
    <2>3. QED BY <1>2, <2>1, <2>2, Zenon
  <1>3. CASE ~PressFacebookLogIn /\ ~SignOut
    <2>1. signedOut' = signedOut
      BY <1>3, Zenon DEF Next, OtherAppOpens, OtherAppOpensAnd, OpenFails, EnterBackground,
           BecomeActive, Redirected, OpenedByOtherURL, SessionEnds, LoseSession,
           Kill, Launch, MeAnswered, ReauthAnswered, FirebaseAnswers
    <2>2. FirebaseAnswers \/ home' = home
      BY <1>3, Zenon DEF Next, OtherAppOpens, OtherAppOpensAnd, OpenFails, EnterBackground,
           BecomeActive, Redirected, OpenedByOtherURL, SessionEnds, LoseSession,
           Kill, Launch, MeAnswered, ReauthAnswered
    <2>3. signedOut' => signedOut
      BY <2>1, Zenon
    <2>4. FirebaseAnswers \/ (home' <=> home)
      BY <2>2, Zenon
    <2>5. QED BY <1>3, <2>3, <2>4, Zenon
  <1>4. QED BY <1>1, <1>2, <1>3

LEMMA NextOver ==
    ASSUME TypeInv, OneThingAtATime, OneTokenAtATime, OverInv, Next,
           NoRequestAtLaunch'
    PROVE  OverInv'
  <1>1. LoginOver' => Quiet'
    BY NextFlags, SignInEndsLogin, QuietStays DEF OverInv
  <1>2. ASSUME signedOut'
        PROVE  Out'
    <2>1. CASE SignOut
      BY <2>1, NextFlags DEF Out
    <2>2. CASE ~SignOut
      <3>1. signedOut /\ ~PressFacebookLogIn
        BY <1>2, <2>2, NextFlags
      <3>2. Quiet /\ Out
        BY <3>1 DEF OverInv, LoginOver
      <3>3. token' \in {0, token} /\ ~FirebaseAnswers
        BY <3>1, <3>2, QuietStays
      <3>4. ~home'
        BY <3>2, <3>3, NextFlags DEF Out
      <3>5. QED BY <3>2, <3>3, <3>4 DEF Out
    <2>3. QED BY <2>1, <2>2
  <1>3. QED BY <1>1, <1>2 DEF OverInv

-----------------------------------------------------------------------------
(* Together, for a student who waits; "hurried" says that one has not.        *)

OrderInv ==
    /\ ReturnsAreNoticed
    /\ ~hurried => /\ OneThingAtATime /\ OneTokenAtATime
                   /\ NoRequestAtLaunch => OverInv

LEMMA InitOrderInv == Init => OrderInv
  <1> SUFFICES ASSUME Init PROVE OrderInv
    OBVIOUS
  <1>1. ReturnsAreNoticed
    BY DEF Init, ReturnsAreNoticed
  <1>2. OneThingAtATime
    BY DEF Init, OneThingAtATime, NoCalls
  <1>3. accepted = <<>> /\ expectedChallenge = 0 /\ reauthCalls = {} /\ signIns = {}
    BY DEF Init
  <1>4. OneTokenAtATime
    BY <1>3 DEF OneTokenAtATime, RequestsInOrder
  <1>5. ~home /\ ~signedOut
    BY Zenon DEF Init
  <1>6. OverInv
    BY <1>5, Zenon DEF OverInv, LoginOver
  <1>7. QED BY <1>1, <1>2, <1>4, <1>6 DEF OrderInv

LEMMA NextOrderInv == TypeInv /\ OrderInv /\ [Next]_vars => OrderInv'
  <1> SUFFICES ASSUME TypeInv, OrderInv, [Next]_vars PROVE OrderInv'
    OBVIOUS
  <1>1. ReturnsAreNoticed'
    BY NextReturns DEF OrderInv
  <1>2. CASE Next
    <2>1. SUFFICES ASSUME ~hurried'
                   PROVE  /\ OneThingAtATime' /\ OneTokenAtATime'
                          /\ NoRequestAtLaunch' => OverInv'
      BY <1>1 DEF OrderInv
    <2>2. ~hurried /\ ReturnsAreNoticed /\ OneThingAtATime /\ OneTokenAtATime
      BY <2>1, Patience DEF OrderInv
    <2>3. OInv /\ SentInv
      BY DEF TypeInv
    <2>4. OneThingAtATime' /\ OneTokenAtATime'
      BY <1>2, <2>1, <2>2, <2>3, NextOneThing, NextOneToken
    <2>5. ASSUME NoRequestAtLaunch'
          PROVE  OverInv'
      <3>1. OverInv
        BY <2>2, <2>3, <2>5, RequestsOnlyAdded DEF OrderInv
      <3>2. QED BY <1>2, <2>2, <2>5, <3>1, NextOver
    <2>6. QED BY <2>4, <2>5
  <1>3. CASE UNCHANGED vars
    <2>1. /\ UNCHANGED <<opening, foreground, authSession, sessionShown,
                         pendingURLOpen, fallback, meCalls, reauthCalls, signIns>>
          /\ UNCHANGED <<expectedChallenge, accepted, requests, token>>
      BY <1>3 DEF vars, requestVars, keychainVars, delegateVars, callVars, historyVars
    <2>2. OneThingAtATime' = OneThingAtATime
      BY <2>1 DEF OneThingAtATime, NoCalls
    <2>3. OneTokenAtATime' = OneTokenAtATime
      BY <2>1 DEF OneTokenAtATime, RequestsInOrder
    <2>4. NoRequestAtLaunch' = NoRequestAtLaunch /\ Quiet' = Quiet
      BY <2>1 DEF NoRequestAtLaunch, Quiet
    <2>5. UNCHANGED <<home, signedOut, hurried, token>>
      BY <1>3, Zenon DEF vars, keychainVars, historyVars
    <2>6. (~hurried' => ~hurried) /\ (OverInv => OverInv')
      BY <2>4, <2>5, Zenon DEF OverInv, LoginOver, Out
    <2>7. QED BY <1>1, <2>2, <2>3, <2>4, <2>6, Zenon DEF OrderInv
  <1>4. QED BY <1>2, <1>3

THEOREM OrderInvariance == Spec => [](TypeInv /\ OrderInv)
  <1>1. Init => OrderInv
    BY InitOrderInv
  <1>2. Spec => []TypeInv
    BY TypeInvariance
  <1>3. TypeInv /\ OrderInv /\ [Next]_vars => OrderInv'
    BY NextOrderInv
  <1>4. QED BY <1>1, <1>2, <1>3, PTL DEF Spec

\* The tokens of a student who waits are taken in the order of their requests,
\* each once and by its own manager: the challenge that is expected is newer than
\* whatever was accepted, and while a token is compared none is expected.
THEOREM AcceptedInOrderHolds == Spec => []AcceptedInOrder
  <1>1. OrderInv /\ AcceptedByOwnManager => AcceptedInOrder
    BY DEF OrderInv, OneTokenAtATime, RequestsInOrder, AcceptedInOrder
  <1>2. QED BY <1>1, OrderInvariance, AcceptedByOwnManagerHolds, PTL

\* What is open elsewhere after a sign-out, also over terminations, brings neither
\* a token nor the home page back before the next press: no challenge is expected
\* any more, and nothing is under way.
THEOREM SignedOutStaysOutHolds == Spec => []SignedOutStaysOut
  <1>1. OrderInv => SignedOutStaysOut
    <2> SUFFICES ASSUME OrderInv, signedOut, ~hurried, NoRequestAtLaunch
                 PROVE  token = 0 /\ ~home
      BY DEF NoRequestAtLaunch, SignedOutStaysOut
    <2>1. QED BY Zenon DEF OrderInv, OverInv, Out
  <1>2. QED BY <1>1, OrderInvariance, PTL

-----------------------------------------------------------------------------
(* Handlers are only called.                                                 *)

\* From managers to ms, handlers are only called, and those that are left have
\* not stopped to perform a login.
OnlyCalled(ms) ==
    \A q \in Presses : ms[q].handler =>
       /\ managers[q].handler
       /\ managers[q].state = "performing" => ms[q].state = "performing"

LEMMA InvokeOnlyCalls ==
    ASSUME NEW before \in Managers, OnlyCalled(before), NEW p,
           InvokeHandler(before, p)
    PROVE  OnlyCalled(managers') /\ (p \in Presses => ~managers'[p].handler)
  <1>1. managers' = [before EXCEPT ![p] = NoManager] /\ ~NoManager.handler
    BY DEF InvokeHandler, NoManager
  <1>2. ASSUME NEW q \in Presses
        PROVE  managers'[q] = IF q = p THEN NoManager ELSE before[q]
    BY <1>1 DEF Managers
  <1>3. QED BY <1>1, <1>2 DEF OnlyCalled

LEMMA PerformingOnly ==
    ASSUME HInv, NEW p
    PROVE  /\ [managers EXCEPT ![p].state = "performing"] \in Managers
           /\ OnlyCalled([managers EXCEPT ![p].state = "performing"])
           /\ p \in Presses =>
                 [managers EXCEPT ![p].state = "performing"][p].state = "performing"
  <1>1. managers \in Managers
    BY DEF HInv, HandlersFresh
  <1>2. QED BY <1>1 DEF Managers, States, OnlyCalled

\* What a redirect does for the manager that takes it: its handler is called, or
\* something is under way that will call it.
LEMMA OpenURLAnswers ==
    ASSUME NEW before \in Managers, OnlyCalled(before), NEW p \in Presses, NEW r,
           OpenURL(before, p, r)
    PROVE  /\ OnlyCalled(managers')
           /\ \/ ~managers'[p].handler
              \/ \E call \in meCalls' \cup reauthCalls' : call.press = p
              \/ p \in fallback'
  <1>1. CASE InvokeHandler(before, p)
    BY <1>1, InvokeOnlyCalls
  <1>2. CASE managers' = before /\ fallback' = {p}
    BY <1>2
  <1>3. CASE /\ managers' = before
             /\ \E user \in Users :
                   \/ meCalls' = meCalls \cup
                          {[press |-> p, request |-> r, user |-> user]}
                   \/ reauthCalls' = reauthCalls \cup
                          {[press |-> p, request |-> r, user |-> user,
                            current |-> token]}
    <2>1. OnlyCalled(managers')
      BY <1>3 DEF OnlyCalled
    <2>2. \E call \in meCalls' \cup reauthCalls' : call.press = p
      <3>1. PICK user \in Users :
               \/ [press |-> p, request |-> r, user |-> user] \in meCalls'
               \/ [press |-> p, request |-> r, user |-> user, current |-> token]
                     \in reauthCalls'
        BY <1>3
      <3>2. /\ [press |-> p, request |-> r, user |-> user].press = p
            /\ [press |-> p, request |-> r, user |-> user,
                current |-> token].press = p
        OBVIOUS
      <3>3. QED BY <3>1, <3>2
    <2>3. QED BY <2>1, <2>2
  <1>4. ASSUME NEW user \in Users, CompleteAuthentication(before, p, r, user)
        PROVE  \/ InvokeHandler(before, p)
               \/ /\ managers' = before
                  /\ reauthCalls' = reauthCalls \cup
                         {[press |-> p, request |-> r, user |-> user,
                           current |-> token]}
    BY <1>4 DEF CompleteAuthentication, TakeToken, Accept, Refuse
  <1>5. QED BY <1>1, <1>2, <1>3, <1>4 DEF OpenURL, Refuse

Redirects ==
    \/ \E p \in pendingURLOpen, r \in openRequests : OpenURL(managers, p, r)
    \/ \E r \in openRequests : OpenURL(managers, 0, r)

LEMMA NextOnlyCalls ==
    ASSUME TypeInv, Next, ~PressFacebookLogIn
    PROVE  OnlyCalled(managers') /\ presses' = presses
  <1>0. /\ managers \in Managers /\ HInv
        /\ 0 \in Presses /\ pendingURLOpen \subseteq Presses
    BY FacebookAssumption DEF TypeInv, HInv, HandlersFresh, OInv, RequestsInv, Presses
  <1>1. presses' = presses
    BY DEF Next, OtherAppOpens, OtherAppOpensAnd, OpenFails, EnterBackground,
           BecomeActive, Redirected, OpenedByOtherURL, SessionEnds, LoseSession,
           Kill, Launch, MeAnswered, ReauthAnswered, FirebaseAnswers, SignOut
  <1>2. OnlyCalled(managers)
    BY DEF OnlyCalled
  <1>3. CASE \E p : InvokeHandler(managers, p)
    BY <1>0, <1>1, <1>2, <1>3, InvokeOnlyCalls
  <1>4. CASE managers' = managers
    BY <1>1, <1>4 DEF OnlyCalled
  <1>5. CASE Redirects
    BY <1>0, <1>1, <1>2, <1>5, OpenURLAnswers DEF Redirects
  <1>6. CASE Redirected \/ Launch
    BY <1>4, <1>5, <1>6 DEF Redirected, Launch, Redirects, ManagerVars
  <1>7. CASE SessionEnds
    <2> DEFINE before == [managers EXCEPT
                             ![requests[sessionShown].press].state = "performing"]
    <2>1. before \in Managers /\ OnlyCalled(before)
      BY <1>0, PerformingOnly
    <2>2. CASE \E q \in pendingURLOpen : OpenURL(before, q, sessionShown)
      <3> HIDE DEF before
      <3>1. QED BY <1>0, <1>1, <2>1, <2>2, OpenURLAnswers
    <2>3. CASE Refuse(managers, requests[sessionShown].press)
      BY <1>3, <2>3 DEF Refuse
    <2>4. QED BY <1>7, <2>2, <2>3 DEF SessionEnds
  <1>8. CASE OtherAppOpens
    BY <1>0, <1>1, <1>8, PerformingOnly DEF OtherAppOpens, OtherAppOpensAnd
  <1>9. CASE OpenFails \/ BecomeActive \/ OpenedByOtherURL
    BY <1>3, <1>4, <1>9 DEF OpenFails, BecomeActive, OpenedByOtherURL, Refuse,
                            ManagerVars
  <1>10. CASE MeAnswered \/ ReauthAnswered
    BY <1>3, <1>4, <1>10
       DEF MeAnswered, ReauthAnswered, CompleteAuthentication, TakeToken, Accept,
           Refuse
  <1>11. CASE Kill
    BY <1>1, <1>11 DEF Kill, OnlyCalled, NoManager
  <1>12. CASE EnterBackground \/ LoseSession \/ FirebaseAnswers \/ SignOut
    BY <1>4, <1>12 DEF EnterBackground, LoseSession, FirebaseAnswers, SignOut,
                       ManagerVars
  <1>13. QED
    BY <1>1, <1>6, <1>7, <1>8, <1>9, <1>10, <1>11, <1>12 DEF Next

-----------------------------------------------------------------------------
(* Only the newest press's requests are under way.                           *)

\* Termination leaves nobody to be called.
KilledHasNoHandler ==
    foreground = "killed" => \A p \in Presses : ~managers[p].handler

\* UIKit is opening the newest request, and its manager waits for it.
NewestOpening ==
    opening # {} =>
       /\ opening = {Len(requests)}
       /\ pendingURLOpen = {requests[Len(requests)].press}

\* Nobody else's request can be answered before the newest press has been.
NewestWaits ==
    managers[presses].handler =>
       /\ pendingURLOpen \subseteq {presses} /\ fallback \subseteq {presses}
       /\ sessionShown # 0 => requests[sessionShown].press = presses

LEMMA NextKilled ==
    ASSUME TypeInv, KilledHasNoHandler, Next
    PROVE  KilledHasNoHandler'
  <1>1. CASE Kill
    BY <1>1 DEF Kill, KilledHasNoHandler, NoManager
  <1>2. CASE ~Kill /\ foreground' = "killed"
    <2>1. foreground = "killed" /\ ~PressFacebookLogIn
      BY <1>2
         DEF Next, PressFacebookLogIn, OtherAppOpens, OtherAppOpensAnd, OpenFails,
             EnterBackground, BecomeActive, Redirected, OpenedByOtherURL,
             SessionEnds, LoseSession, Launch, MeAnswered, ReauthAnswered,
             FirebaseAnswers, SignOut
    <2>2. OnlyCalled(managers')
      BY <2>1, NextOnlyCalls
    <2>3. QED BY <2>1, <2>2 DEF OnlyCalled, KilledHasNoHandler
  <1>3. QED BY <1>1, <1>2 DEF KilledHasNoHandler

LEMMA PerformOpensNewest ==
    ASSUME OInv, NEW p, NEW method, Perform(p, method, {})
    PROVE  /\ NewestOpening'
           /\ Len(requests') \in DOMAIN requests'
           /\ requests'[Len(requests')].press = p
           /\ \A r \in DOMAIN requests : requests'[r] = requests[r]
           /\ \/ opening' = {Len(requests')} /\ UNCHANGED sessionShown
              \/ sessionShown' = Len(requests') /\ Len(requests') # 0
  <1>1. /\ requests \in Seq(Requests)
        /\ requests' = Append(requests, [press |-> p, method |-> method])
        /\ pendingURLOpen' = {p}
    BY DEF OInv, RequestsInv, Perform
  <1>2. /\ Len(requests') = Len(requests) + 1 /\ Len(requests) \in Nat
        /\ Len(requests') \in DOMAIN requests'
        /\ requests'[Len(requests')] = [press |-> p, method |-> method]
        /\ \A r \in DOMAIN requests : requests'[r] = requests[r]
    BY <1>1
  <1>3. requests'[Len(requests')].press = p /\ Len(requests') # 0
    BY <1>2
  <1>4. \/ opening' = {Len(requests')} /\ UNCHANGED sessionShown
        \/ opening' = {} /\ sessionShown' = Len(requests')
    BY DEF Perform
  <1>5. QED BY <1>1, <1>2, <1>3, <1>4 DEF NewestOpening

LEMMA NextOpening ==
    ASSUME OInv, OneThingAtATime, NewestOpening, Next, ~hurried'
    PROVE  NewestOpening'
  <1>1. CASE PressFacebookLogIn
    <2>1. opening = {}
      BY <1>1, Patience DEF UnderWay
    <2>2. QED BY <1>1, <2>1, PerformOpensNewest DEF PressFacebookLogIn
  <1>2. CASE OtherAppOpens \/ OpenFails
    <2>1. PICK r \in opening :
             \/ opening' = opening \ {r}
             \/ \E p, method : Perform(p, method, opening \ {r})
      BY <1>2 DEF OtherAppOpens, OtherAppOpensAnd, OpenFails
    <2>2. opening \ {r} = {}
      BY DEF OneThingAtATime
    <2>3. QED BY <2>1, <2>2, PerformOpensNewest DEF NewestOpening
  <1>3. CASE BecomeActive
    <2>1. CASE UNCHANGED <<requestVars, pendingURLOpen>>
      BY <2>1 DEF NewestOpening, requestVars
    <2>2. CASE /\ fallback # {}
               /\ \E p \in fallback, method \in {"browser", "session"} :
                     Perform(p, method, opening)
      <3>1. opening = {}
        BY <2>2 DEF OneThingAtATime
      <3>2. QED BY <2>2, <3>1, PerformOpensNewest
    <2>3. QED BY <1>3, <2>1, <2>2 DEF BecomeActive, delegateVars
  <1>4. CASE Redirected \/ OpenedByOtherURL \/ Launch
    <2>1. opening = {} /\ opening' = opening
      BY <1>4 DEF Redirected, OpenedByOtherURL, Launch, OneThingAtATime, requestVars
    <2>2. QED BY <2>1 DEF NewestOpening
  <1>5. CASE SessionEnds
    <2>1. opening = {} \/ pendingURLOpen' = pendingURLOpen
      BY <1>5 DEF SessionEnds, OneThingAtATime
    <2>2. UNCHANGED requestVars
      BY <1>5 DEF SessionEnds
    <2>3. QED BY <2>1, <2>2 DEF NewestOpening, requestVars
  <1>6. CASE Kill
    BY <1>6 DEF Kill, NewestOpening
  <1>7. CASE EnterBackground \/ LoseSession \/ MeAnswered \/ ReauthAnswered
             \/ FirebaseAnswers \/ SignOut
    <2>1. UNCHANGED <<requestVars, pendingURLOpen>>
      BY <1>7 DEF EnterBackground, LoseSession, MeAnswered, ReauthAnswered,
                  FirebaseAnswers, SignOut, delegateVars
    <2>2. QED BY <2>1 DEF NewestOpening, requestVars
  <1>8. QED BY <1>1, <1>2, <1>3, <1>4, <1>5, <1>6, <1>7 DEF Next

LEMMA NextNewestWaits ==
    ASSUME TypeInv, OneThingAtATime, KilledHasNoHandler, NewestOpening, NewestWaits,
           Next, ~hurried'
    PROVE  NewestWaits'
  <1>0. /\ OInv /\ sessionShown \in DOMAIN requests \cup {0}
        /\ requests \in Seq(Requests)
    BY DEF TypeInv, OInv, RequestsInv
  <1>1. CASE PressFacebookLogIn
    <2>1. opening = {}
      BY <1>1, Patience DEF UnderWay
    <2>2. /\ fallback' = {} /\ sessionShown = 0 /\ presses' = presses + 1
          /\ \E method \in Methods : Perform(presses + 1, method, opening)
      BY <1>1 DEF PressFacebookLogIn, OneThingAtATime
    <2>3. pendingURLOpen' = {presses + 1}
      BY <2>2 DEF Perform
    <2>4. sessionShown' # 0 => requests'[sessionShown'].press = presses + 1
      BY <1>0, <2>1, <2>2, PerformOpensNewest
    <2>5. QED BY <2>2, <2>3, <2>4 DEF NewestWaits
  <1>2. SUFFICES ASSUME ~PressFacebookLogIn, managers'[presses].handler
                 PROVE  /\ pendingURLOpen' \subseteq {presses}
                        /\ fallback' \subseteq {presses}
                        /\ sessionShown' # 0 =>
                              requests'[sessionShown'].press = presses
    BY <1>1, NextOnlyCalls DEF NewestWaits
  <1>3. presses \in Presses /\ managers[presses].handler
    <2>1. presses \in Presses
      BY DEF TypeInv, HInv, HandlersFresh
    <2>2. QED BY <1>2, <2>1, NextOnlyCalls DEF OnlyCalled
  <1>4. /\ pendingURLOpen \subseteq {presses} /\ fallback \subseteq {presses}
        /\ sessionShown # 0 => requests[sessionShown].press = presses
    BY <1>3 DEF NewestWaits
  <1>5. CASE /\ requests' = requests
             /\ pendingURLOpen' \subseteq pendingURLOpen
             /\ fallback' \subseteq fallback \cup pendingURLOpen
             /\ sessionShown' \in {0, sessionShown}
    BY <1>4, <1>5
  <1>6. CASE /\ \E p \in pendingURLOpen \cup fallback :
                   \E method : Perform(p, method, {})
             /\ fallback' \subseteq fallback
    <2>1. pendingURLOpen' \subseteq {presses}
      BY <1>4, <1>6 DEF Perform
    <2>2. sessionShown' # 0 => requests'[sessionShown'].press = presses
      BY <1>0, <1>4, <1>6, PerformOpensNewest
    <2>3. QED BY <1>4, <1>6, <2>1, <2>2
  <1>7. CASE OtherAppOpens
    BY <1>5, <1>7 DEF OtherAppOpens, OtherAppOpensAnd
  <1>8. CASE OpenFails
    <2>1. PICK r \in opening :
             \/ \E method \in {"browser", "session"} :
                   Perform(requests[r].press, method, opening \ {r})
             \/ UNCHANGED <<requests, delegateVars, sessionShown>>
      BY <1>8 DEF OpenFails
    <2>2. /\ opening \ {r} = {} /\ requests[r].press \in pendingURLOpen
          /\ fallback' = fallback
      BY <1>8 DEF NewestOpening, OpenFails
    <2>3. QED BY <1>5, <1>6, <2>1, <2>2 DEF delegateVars
  <1>9. CASE BecomeActive
    <2>1. CASE UNCHANGED <<requestVars, delegateVars, sessionShown, fallback>>
      BY <1>5, <2>1 DEF requestVars, delegateVars
    <2>2. CASE /\ fallback # {} /\ fallback' = {}
               /\ \E p \in fallback, method \in {"browser", "session"} :
                     Perform(p, method, opening)
      <3>1. opening = {}
        BY <2>2 DEF OneThingAtATime
      <3>2. QED BY <1>6, <2>2, <3>1
    <2>3. QED BY <1>9, <2>1, <2>2 DEF BecomeActive, ManagerVars
  <1>10. CASE Redirected
    <2>1. CASE \E p \in pendingURLOpen, r \in openRequests : OpenURL(managers, p, r)
      <3>1. fallback' \subseteq fallback \cup pendingURLOpen
        BY <2>1, OpenURLCalls
      <3>2. QED BY <1>5, <1>10, <3>1 DEF Redirected
    <2>2. CASE UNCHANGED ManagerVars
      BY <1>5, <1>10, <2>2 DEF Redirected, ManagerVars
    <2>3. QED BY <1>10, <2>1, <2>2 DEF Redirected
  <1>11. CASE SessionEnds
    <2>1. CASE \E q \in pendingURLOpen :
                  OpenURL([managers EXCEPT
                              ![requests[sessionShown].press].state = "performing"],
                          q, sessionShown)
      <3>1. fallback' \subseteq fallback \cup pendingURLOpen
        BY <2>1, OpenURLCalls
      <3>2. QED BY <1>5, <1>11, <3>1 DEF SessionEnds, requestVars
    <2>2. CASE UNCHANGED fallback
      BY <1>5, <1>11, <2>2 DEF SessionEnds, requestVars
    <2>3. QED BY <1>11, <2>1, <2>2 DEF SessionEnds
  <1>12. CASE Kill \/ Launch
    <2>1. ~managers'[presses].handler
      BY <1>3, <1>12 DEF Kill, NoManager, Launch, KilledHasNoHandler
    <2>2. QED BY <1>2, <2>1
  <1>13. CASE EnterBackground \/ OpenedByOtherURL \/ LoseSession \/ MeAnswered
              \/ ReauthAnswered \/ FirebaseAnswers \/ SignOut
    BY <1>5, <1>13
       DEF EnterBackground, OpenedByOtherURL, LoseSession, MeAnswered,
           ReauthAnswered, FirebaseAnswers, SignOut, requestVars, delegateVars,
           ManagerVars, callVars
  <1>14. QED
    BY <1>2, <1>7, <1>8, <1>9, <1>10, <1>11, <1>12, <1>13 DEF Next

-----------------------------------------------------------------------------
(* Something is going to call the newest press's handler.                     *)

\* It is being opened, its sheet is up, its answer or the return to the app is
\* noticed, or its answer is looked into.
Answering(p) ==
    \/ \E r \in opening : requests[r].press = p
    \/ sessionShown # 0 /\ requests[sessionShown].press = p
    \/ /\ p \in pendingURLOpen /\ managers[p].state = "performing"
       /\ foreground = "background" \/ authSession # 0
    \/ \E call \in meCalls \cup reauthCalls : call.press = p
    \/ p \in fallback

NewestAnswering == managers[presses].handler => lost \/ Answering(presses)

LEMMA AnsweringStays ==
    ASSUME NEW p, Answering(p),
           UNCHANGED <<requests, opening, pendingURLOpen, authSession, sessionShown>>,
           managers[p].state = "performing" => managers'[p].state = "performing",
           foreground = "background" => foreground' = "background" \/ authSession # 0,
           meCalls \subseteq meCalls', reauthCalls \subseteq reauthCalls',
           fallback \subseteq fallback'
    PROVE  Answering(p)'
  BY DEF Answering

\* Where nothing is lost after a step, nothing was before, nor by the step.
LEMMA NothingLost ==
    ASSUME Next, ~PressFacebookLogIn, ~lost'
    PROVE  /\ ~lost
           /\ LoseSession => requests[sessionShown].press # presses
           /\ OpenedByOtherURL =>
                 \/ \E p \in pendingURLOpen : InvokeHandler(managers, p)
                 \/ /\ \A p \in pendingURLOpen : managers[p].state # "performing"
                    /\ presses \notin pendingURLOpen
                    /\ UNCHANGED <<managers, reauthCalls>>
  <1>1. CASE LoseSession
    <2>1. ~lost /\ requests[sessionShown].press # presses
      BY <1>1, Zenon DEF LoseSession
    <2>2. UNCHANGED <<managers, reauthCalls>> /\ sessionShown # 0 /\ sessionShown' = 0
      BY <1>1 DEF LoseSession, ManagerVars, callVars
    <2>3. ~OpenedByOtherURL
      BY <2>2 DEF OpenedByOtherURL
    <2>4. QED BY <2>1, <2>3, Zenon
  <1>2. CASE OpenedByOtherURL
    <2>0. \/ lost' = lost /\ \E p \in pendingURLOpen : Refuse(managers, p)
          \/ lost' = (lost \/ presses \in pendingURLOpen)
      BY <1>2, Zenon DEF OpenedByOtherURL
    <2>1. ~lost /\ (presses \notin pendingURLOpen
                      \/ \E p \in pendingURLOpen : Refuse(managers, p))
      <3>1. CASE lost' = lost /\ \E p \in pendingURLOpen : Refuse(managers, p)
        BY <3>1, Zenon
      <3>2. CASE lost' = (lost \/ presses \in pendingURLOpen)
        <4>1. ~(lost \/ presses \in pendingURLOpen)
          BY <3>2, Zenon
        <4>2. QED BY <4>1, Zenon
      <3>3. QED BY <2>0, <3>1, <3>2, Zenon
    <2>2. \/ \E p \in pendingURLOpen : Refuse(managers, p)
          \/ /\ \A p \in pendingURLOpen : managers[p].state # "performing"
             /\ UNCHANGED <<managers, reauthCalls>>
      BY <1>2 DEF OpenedByOtherURL
    <2>3. ~LoseSession
      BY <1>2 DEF LoseSession, OpenedByOtherURL
    <2>4. QED BY <2>1, <2>2, <2>3, Zenon DEF Refuse
  <1>3. CASE ~LoseSession /\ ~OpenedByOtherURL
    <2>1. lost' = lost
      BY <1>3, Zenon DEF Next, historyVars, OtherAppOpens, OtherAppOpensAnd,
           OpenFails, EnterBackground, BecomeActive, Redirected, SessionEnds, Kill,
           Launch, MeAnswered, ReauthAnswered, FirebaseAnswers, SignOut
    <2>2. QED BY <1>3, <2>1, Zenon
  <1>4. QED BY <1>1, <1>2, <1>3

LEMMA PerformAnswering ==
    ASSUME OInv, NEW p, NEW method, Perform(p, method, {})
    PROVE  Answering(p)'
  BY PerformOpensNewest DEF Answering

LEMMA NextNewestAnswering ==
    ASSUME TypeInv, ReturnsAreNoticed, OneThingAtATime, KilledHasNoHandler,
           NewestOpening, NewestWaits, NewestAnswering, Next, ~hurried'
    PROVE  NewestAnswering'
  <1>0. /\ OInv /\ presses \in Presses /\ managers \in Managers
    BY DEF TypeInv, HInv, HandlersFresh
  <1>1. CASE PressFacebookLogIn
    <2>1. opening = {}
      BY <1>1, Patience DEF UnderWay
    <2>2. presses' = presses + 1
      BY <1>1 DEF PressFacebookLogIn
    <2>3. PICK p : p = presses + 1
      OBVIOUS
    <2>4. \E method : Perform(p, method, {})
      BY <1>1, <2>1, <2>3 DEF PressFacebookLogIn
    <2>5. Answering(p)'
      BY <1>0, <2>4, PerformAnswering
    <2>6. Answering(presses)'
      BY <2>2, <2>3, <2>5 DEF Answering
    <2>7. QED BY <2>6 DEF NewestAnswering
  <1>2. PICK n \in Presses : n = presses
    BY <1>0
  <1>3. SUFFICES ASSUME ~PressFacebookLogIn, managers'[n].handler, ~lost'
                 PROVE  Answering(n)'
    <2>1. CASE ~PressFacebookLogIn
      <3>1. presses' = n
        BY <1>2, <2>1, NextOnlyCalls
      <3>2. Answering(n)' => Answering(presses)'
        BY <3>1 DEF Answering
      <3>3. managers'[presses'].handler => managers'[n].handler
        BY <3>1
      <3>4. QED BY <2>1, <3>2, <3>3 DEF NewestAnswering
    <2>2. QED BY <1>1, <2>1
  <1>4. /\ managers[n].handler
        /\ managers[n].state = "performing" => managers'[n].state = "performing"
    BY <1>3, NextOnlyCalls DEF OnlyCalled
  <1>5. /\ pendingURLOpen \subseteq {n} /\ fallback \subseteq {n}
        /\ sessionShown # 0 => requests[sessionShown].press = n
    BY <1>2, <1>4 DEF NewestWaits
  <1>6. ~lost /\ Answering(n)
    BY <1>2, <1>3, <1>4, NothingLost DEF NewestAnswering
  \* Its handler is still there, so it has not been called.
  <1>7. ASSUME InvokeHandler(managers, n)
        PROVE  FALSE
    BY <1>0, <1>3, <1>7 DEF InvokeHandler, NoManager, Managers
  <1>8. CASE /\ UNCHANGED <<requests, opening, pendingURLOpen, authSession,
                            sessionShown>>
             /\ foreground = "background" =>
                   foreground' = "background" \/ authSession # 0
             /\ meCalls \subseteq meCalls' /\ reauthCalls \subseteq reauthCalls'
             /\ fallback \subseteq fallback'
    BY <1>4, <1>6, <1>8, AnsweringStays
  <1>9. CASE OtherAppOpens
    <2>1. PICK r \in opening :
             managers' = [managers EXCEPT ![requests[r].press].state = "performing"]
      BY <1>9 DEF OtherAppOpens, OtherAppOpensAnd
    <2>2. requests[r].press = n /\ n \in pendingURLOpen
      BY <1>5 DEF NewestOpening
    <2>3. managers'[n].state = "performing"
      BY <1>0, <2>1, <2>2 DEF Managers
    <2>4. foreground' = "background" /\ n \in pendingURLOpen'
      BY <1>9, <2>2 DEF OtherAppOpens, OtherAppOpensAnd
    <2>5. QED BY <2>3, <2>4 DEF Answering
  <1>10. CASE OpenFails
    <2>1. PICK r \in opening :
             \/ \E method \in {"browser", "session"} :
                   Perform(requests[r].press, method, opening \ {r})
             \/ InvokeHandler(managers, requests[r].press)
      BY <1>10 DEF OpenFails
    <2>2. opening \ {r} = {} /\ requests[r].press = n
      BY <1>5 DEF NewestOpening
    <2>3. QED BY <1>0, <1>7, <2>1, <2>2, PerformAnswering
  <1>11. CASE EnterBackground
    BY <1>8, <1>11
       DEF EnterBackground, ManagerVars, callVars, requestVars
  <1>12. CASE BecomeActive
    <2>1. CASE expectingBackground \/ authSession # 0
      <3>1. foreground = "background" => authSession # 0
        BY <2>1, Zenon DEF ReturnsAreNoticed
      <3>2. QED BY <1>8, <1>12, <2>1, <3>1
              DEF BecomeActive, ManagerVars, callVars, requestVars, delegateVars
    <2>2. CASE \E p \in pendingURLOpen : Refuse(managers, p)
      BY <1>5, <1>7, <2>2 DEF Refuse
    <2>3. CASE \E p \in fallback, method \in {"browser", "session"} :
                  Perform(p, method, opening)
      <3>1. opening = {}
        BY <2>3 DEF OneThingAtATime
      <3>2. QED BY <1>0, <1>5, <2>3, <3>1, PerformAnswering
    <2>4. CASE /\ \A p \in pendingURLOpen : managers[p].state # "performing"
               /\ UNCHANGED <<ManagerVars, requestVars, delegateVars, sessionShown>>
      BY <1>6, <2>4
         DEF Answering, ManagerVars, callVars, requestVars, delegateVars
    <2>5. QED BY <1>12, <2>1, <2>2, <2>3, <2>4 DEF BecomeActive
  <1>13. CASE Redirected
    <2>1. CASE \E p \in pendingURLOpen, r \in openRequests : OpenURL(managers, p, r)
      <3>1. \/ \E call \in meCalls' \cup reauthCalls' : call.press = n
            \/ n \in fallback'
        BY <1>0, <1>3, <1>5, <2>1, OpenURLAnswers DEF OnlyCalled
      <3>2. QED BY <3>1 DEF Answering
    <2>2. CASE pendingURLOpen = {} /\ UNCHANGED ManagerVars
      BY <1>6, <1>13, <2>2 DEF Redirected, Answering, ManagerVars, callVars
    <2>3. QED BY <1>13, <2>1, <2>2 DEF Redirected
  <1>14. CASE OpenedByOtherURL
    <2>1. CASE \E p \in pendingURLOpen : InvokeHandler(managers, p)
      BY <1>5, <1>7, <2>1
    <2>2. CASE n \notin pendingURLOpen /\ UNCHANGED reauthCalls
      BY <1>6, <1>14, <2>2 DEF OpenedByOtherURL, Answering, requestVars
    <2>3. QED BY <1>2, <1>3, <1>14, <2>1, <2>2, NothingLost
  <1>15. CASE SessionEnds
    <2> DEFINE before == [managers EXCEPT
                             ![requests[sessionShown].press].state = "performing"]
    <2>1. before \in Managers /\ OnlyCalled(before)
      BY PerformingOnly DEF TypeInv
    <2>2. CASE \E q \in pendingURLOpen : OpenURL(before, q, sessionShown)
      <3> HIDE DEF before
      <3>1. \/ \E call \in meCalls' \cup reauthCalls' : call.press = n
            \/ n \in fallback'
        BY <1>3, <1>5, <2>1, <2>2, OpenURLAnswers
      <3>2. QED BY <3>1 DEF Answering
    <2>3. CASE Refuse(managers, requests[sessionShown].press)
      BY <1>5, <1>7, <1>15, <2>3 DEF Refuse, SessionEnds
    <2>4. QED BY <1>15, <2>2, <2>3 DEF SessionEnds
  <1>16. CASE LoseSession
    BY <1>2, <1>3, <1>5, <1>16, NothingLost DEF LoseSession
  <1>17. CASE Kill \/ Launch
    BY <1>3, <1>4, <1>17 DEF Kill, NoManager, Launch, KilledHasNoHandler
  <1>18. CASE MeAnswered
    <2>1. PICK call \in meCalls :
             /\ meCalls' = meCalls \ {call}
             /\ \/ InvokeHandler(managers, call.press) /\ UNCHANGED reauthCalls
                \/ reauthCalls' = reauthCalls \cup
                       {[press |-> call.press, request |-> call.request,
                         user |-> call.user, current |-> token]}
      BY <1>18 DEF MeAnswered, CompleteAuthentication, TakeToken, Accept, Refuse
    <2>2. CASE call.press = n
      <3>1. [press |-> n, request |-> call.request, user |-> call.user,
             current |-> token] \in reauthCalls'
        BY <1>7, <2>1, <2>2
      <3>2. \E c \in reauthCalls' : c.press = n
        BY <3>1
      <3>3. QED BY <3>2 DEF Answering
    <2>3. CASE call.press # n
      <3>1. \A c \in meCalls \cup reauthCalls :
               c.press = n => c \in meCalls' \cup reauthCalls'
        BY <2>1, <2>3
      <3>2. UNCHANGED <<requests, opening, pendingURLOpen, authSession, sessionShown,
                        fallback, foreground>>
        BY <1>18 DEF MeAnswered, requestVars, delegateVars
      <3>3. QED BY <1>4, <1>6, <3>1, <3>2 DEF Answering
    <2>4. QED BY <2>2, <2>3
  <1>19. CASE ReauthAnswered
    <2>1. PICK call \in reauthCalls :
             reauthCalls' = reauthCalls \ {call} /\ InvokeHandler(managers, call.press)
      BY <1>19 DEF ReauthAnswered, Accept
    <2>2. \A c \in meCalls \cup reauthCalls :
             c.press = n => c \in meCalls' \cup reauthCalls'
      BY <1>7, <1>19, <2>1 DEF ReauthAnswered
    <2>3. UNCHANGED <<requests, opening, pendingURLOpen, authSession, sessionShown,
                      fallback, foreground>>
      BY <1>19 DEF ReauthAnswered, requestVars, delegateVars
    <2>4. QED BY <1>4, <1>6, <2>2, <2>3 DEF Answering
  <1>20. CASE FirebaseAnswers \/ SignOut
    BY <1>8, <1>20
       DEF FirebaseAnswers, SignOut, requestVars, delegateVars, callVars
  <1>21. QED
    BY <1>3, <1>9, <1>10, <1>11, <1>12, <1>13, <1>14, <1>15, <1>16, <1>17, <1>18,
       <1>19, <1>20 DEF Next

-----------------------------------------------------------------------------
NewestInv ==
    /\ KilledHasNoHandler
    /\ ~hurried => NewestOpening /\ NewestWaits /\ NewestAnswering

LEMMA NextNewestInv == TypeInv /\ OrderInv /\ NewestInv /\ [Next]_vars => NewestInv'
  <1> SUFFICES ASSUME TypeInv, OrderInv, NewestInv, [Next]_vars PROVE NewestInv'
    OBVIOUS
  <1>1. CASE Next
    <2>1. KilledHasNoHandler'
      BY <1>1, NextKilled DEF NewestInv
    <2>2. SUFFICES ASSUME ~hurried'
                   PROVE  NewestOpening' /\ NewestWaits' /\ NewestAnswering'
      BY <2>1 DEF NewestInv
    <2>3. /\ ReturnsAreNoticed /\ OneThingAtATime /\ KilledHasNoHandler
          /\ NewestOpening /\ NewestWaits /\ NewestAnswering
      BY <2>2, Patience DEF OrderInv, NewestInv
    <2>4. QED BY <1>1, <2>2, <2>3, NextOpening, NextNewestWaits, NextNewestAnswering
            DEF TypeInv
  <1>2. CASE UNCHANGED vars
    <2>1. UNCHANGED <<managers, presses, opening, requests, pendingURLOpen, fallback,
                      foreground, sessionShown, authSession, meCalls, reauthCalls>>
      BY <1>2 DEF vars, requestVars, delegateVars, callVars
    <2>2. /\ KilledHasNoHandler' = KilledHasNoHandler
          /\ NewestOpening' = NewestOpening /\ NewestWaits' = NewestWaits
      BY <2>1 DEF KilledHasNoHandler, NewestOpening, NewestWaits
    <2>3. Answering(presses)' = Answering(presses)
      BY <2>1 DEF Answering
    <2>4. UNCHANGED <<lost, hurried, managers, presses>>
      BY <1>2, Zenon DEF vars, historyVars
    <2>5. (NewestAnswering => NewestAnswering') /\ (~hurried' => ~hurried)
      BY <2>3, <2>4, Zenon DEF NewestAnswering
    <2>6. QED BY <2>2, <2>5, Zenon DEF NewestInv
  <1>3. QED BY <1>1, <1>2

\* Whoever has pressed and waits is answered, however the student came back: where
\* the app is active and nothing is under way, the newest press's handler has
\* been called.  For any number of presses, requests and terminations.
THEOREM NotForgottenHolds == Spec => []NotForgotten
  <1>1. Init => NewestInv
    <2> SUFFICES ASSUME Init PROVE NewestInv
      OBVIOUS
    <2>1. foreground = "active" /\ opening = {} /\ ~managers[presses].handler
      BY FacebookAssumption DEF Init, NoManager, Presses
    <2>2. QED BY <2>1
            DEF NewestInv, KilledHasNoHandler, NewestOpening, NewestWaits,
                NewestAnswering
  <1>2. NewestInv => NotForgotten
    <2> SUFFICES ASSUME NewestInv, foreground = "active", ~UnderWay,
                        sessionShown = 0, fallback = {},
                        managers[presses].handler, ~lost, authSession = 0, ~hurried
                 PROVE  FALSE
      BY DEF NotForgotten
    <2>1. Answering(presses)
      BY Zenon DEF NewestInv, NewestAnswering
    <2>2. QED BY <2>1 DEF Answering, UnderWay
  <1>3. Spec => [](TypeInv /\ OrderInv)
    BY OrderInvariance
  <1>4. TypeInv /\ OrderInv /\ NewestInv /\ [Next]_vars => NewestInv'
    BY NextNewestInv
  <1>5. QED BY <1>1, <1>2, <1>3, <1>4, PTL DEF Spec
===============================================================================
