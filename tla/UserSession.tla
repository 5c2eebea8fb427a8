------------------------------ MODULE UserSession ------------------------------
(***************************************************************************)
(* Signing in and out, and the keywords of the user who is signed in.      *)
(*                                                                         *)
(* The keywords are an array in the user's document.  DataManager keeps a  *)
(* copy, highlightedKeywords, which the keywords popup changes and writes  *)
(* back as a whole.  A snapshot listener replaces the copy by what the     *)
(* document holds whenever that changes, on this device or on another one; *)
(* nobody ever removes it, and each of its snapshots repeats what the      *)
(* sign-in does after reading the document: go to the home page, or load   *)
(* the subjects first.                                                     *)
(*                                                                         *)
(* Firestore is modelled from its use: it keeps each user's writes on the  *)
(* device in order until the backend has them and shows the device its     *)
(* document as if it had; the snapshots of a change come some time later,  *)
(* in the order of the changes, to the listeners in any order.             *)
(* What a load of the subjects does is SubjectLibrary's.                   *)
(***************************************************************************)
EXTENDS Naturals, Sequences, SequencesExt

CONSTANTS
    Users,
    Registered,      \* the ones with a document at the start
    NoUser,          \* Auth's currentUser is nil
    Words,           \* keywords
    DefaultKeywords, \* the array a new document begins with
    MaxLogIns,       \* bound: presses on the log-in button
    MaxEdits,        \* bound: keywords added or deleted in the popup
    MaxChanges,      \* bound: edits and first log-ins on another device
    MaxErrors,       \* bound: calls answered with an error
    MaxEvents        \* bound: all of these together

ASSUME SessionAssumption ==
    /\ NoUser \notin Users
    /\ Registered \subseteq Users
    /\ DefaultKeywords \in Seq(Words)
    /\ MaxLogIns \in Nat /\ MaxEdits \in Nat
    /\ MaxChanges \in Nat /\ MaxErrors \in Nat /\ MaxEvents \in Nat

VARIABLES
    user,            \* Auth.auth().currentUser
    screen,          \* signup, facebook (its dialog), home, keywords, settings,
                     \* or appearing: signup, its viewDidAppear still to come
    loginShown,      \* the log-in button is not hidden
    logins,          \* calls of signinToFirebase not completed
    logInCalls,
    loads,           \* calls of loadSubjectsAndRecordings not completed, by what
                     \* comes after them
    listeners,       \* the snapshot listeners attached, in order
    followed,        \* history: one was attached since the user signed in
    snapshots,       \* their snapshots not delivered
    documents,       \* the users' documents in the backend
    elsewhere,       \* users whom another device has found without a document
                     \* and is about to make one for
    raced,           \* history: users whom two devices made a document for,
                     \* each after a check before the other's write
    writes,          \* by user, the keywords of the updateData calls that the
                     \* backend has not accepted
    highlightedKeywords,
    rows,            \* the keywords on the popup's table
    addingKeyword,
    trapped,         \* the app has trapped on a nil or a wrong number of rows
    hurried,         \* history: the student did not wait for what was under way
    edits, changes, errors

authVars == <<user, logins, logInCalls>>
pageVars == <<screen, loginShown>>
listenVars == <<listeners, followed, snapshots>>
elsewhereVars == <<elsewhere, raced>>
cloudVars == <<documents, elsewhereVars, writes, changes>>
wordVars == <<highlightedKeywords, rows, addingKeyword, edits>>
vars == <<authVars, pageVars, loads, trapped, listenVars, cloudVars, wordVars,
          hurried, errors>>

Keywords == Seq(Words)
Documents == [exists : BOOLEAN, keywords : Keywords]
Screens == {"appearing", "signup", "facebook", "home", "keywords", "settings"}

TypeOK ==
    /\ user \in Users \cup {NoUser}
    /\ screen \in Screens
    /\ loginShown \in BOOLEAN
    /\ logins \subseteq [id : 1 .. MaxLogIns, user : Users,
                         call : {"signIn", "check", "create"}]
    /\ loads \in [{"getUserData", "segue"} -> Nat]
    /\ listeners \in Seq([user : Users, path : {"start", "login"}, active : BOOLEAN])
    /\ followed \in BOOLEAN
    /\ snapshots \in Seq([path : {"start", "login"}, document : Documents])
    /\ documents \in [Users -> Documents]
    /\ elsewhere \subseteq Users /\ raced \subseteq Users
    /\ writes \in [Users -> Seq(Keywords)]
    /\ highlightedKeywords \in Keywords /\ rows \in Keywords
    /\ addingKeyword \in BOOLEAN /\ trapped \in BOOLEAN
    /\ hurried \in BOOLEAN
    /\ logInCalls \in 0 .. MaxLogIns
    /\ edits \in 0 .. MaxEdits
    /\ changes \in 0 .. MaxChanges /\ errors \in 0 .. MaxErrors

\* The app is launched by a user who stayed signed in, or by nobody.
Init ==
    /\ user \in Registered \cup {NoUser}
    /\ documents = [u \in Users |->
          IF u \in Registered THEN [exists |-> TRUE, keywords |-> DefaultKeywords]
                              ELSE [exists |-> FALSE, keywords |-> <<>>]]
    /\ elsewhere = {} /\ raced = {}
    /\ screen = "appearing"
    /\ loginShown = FALSE
    /\ logins = {}
    /\ loads = [getUserData |-> 0, segue |-> 0]
    /\ listeners = <<>> /\ followed = FALSE /\ snapshots = <<>>
    /\ writes = [u \in Users |-> <<>>]
    /\ highlightedKeywords = <<>> /\ rows = <<>>
    /\ addingKeyword = FALSE
    /\ trapped = FALSE
    /\ hurried = FALSE
    /\ logInCalls = 0 /\ edits = 0 /\ changes = 0 /\ errors = 0

-----------------------------------------------------------------------------
(* Parts of handlers.                                                        *)

\* Nothing that somebody set off on this device is still under way.
Settled ==
    /\ logins = {} /\ snapshots = <<>>
    /\ \A after \in DOMAIN loads : loads[after] = 0

NothingWritten == \A u \in Users : writes[u] = <<>>

Touch(waited) == hurried' = (hurried \/ ~waited)

MoreEvents == logInCalls + edits + changes + errors < MaxEvents

Fail ==
    /\ errors < MaxErrors /\ MoreEvents
    /\ errors' = errors + 1

\* The documents as this device sees them: the signed-in user's with the last of
\* the own writes that are under way.
Seen ==
    [u \in Users |->
        IF u = user /\ writes[u] # <<>> /\ documents[u].exists
        THEN [documents[u] EXCEPT !.keywords = Last(writes[u])]
        ELSE documents[u]]

\* A snapshot for every listener whose document looks different after the step.
NewSnapshots ==
    LET changed == {i \in DOMAIN listeners :
                       /\ listeners[i].active
                       /\ Seen'[listeners[i].user] # Seen[listeners[i].user]}
    IN  {[n \in DOMAIN order |->
             [path |-> listeners[order[n]].path,
              document |-> Seen'[listeners[order[n]].user]]] :
           order \in SetToSeqs(changed)}

Notify == \E new \in NewSnapshots : snapshots' = snapshots \o new

\* Mutant: whoever is signed in, or nobody, is listened to.
GetUserDataUnchecked(path) ==
    /\ listeners' = Append(listeners, [user |-> user, path |-> path, active |-> TRUE])
    /\ followed' = TRUE
    /\ UNCHANGED <<snapshots, trapped>>

\* getUserData, of whoever is signed in by now: (currentUser?.uid)! traps on
\* nobody.  A new listener gets the document as it is.
GetUserData(path) ==
    \/ /\ user = NoUser
       /\ trapped' = TRUE
       /\ UNCHANGED listenVars
    \/ /\ user # NoUser
       /\ followed' = TRUE
       /\ listeners' = Append(listeners, [user |-> user, path |-> path, active |-> TRUE])
       /\ \E new \in NewSnapshots :
             snapshots' = Append(snapshots \o new,
                                 [path |-> path, document |-> Seen'[user]])
       /\ UNCHANGED trapped

\* The same uid is in every path below the user's document.
LoadSubjectsAndRecordings(after) ==
    \/ /\ user = NoUser
       /\ trapped' = TRUE
       /\ UNCHANGED loads
    \/ /\ user # NoUser
       /\ loads' = [loads EXCEPT ![after] = @ + 1]
       /\ UNCHANGED trapped

\* A page that presents something cannot present another, and one that is
\* about to appear may not be able to yet.
SegueToHomePage ==
    \/ screen \in {"signup", "appearing"} /\ screen' = "home"
    \/ screen # "signup" /\ UNCHANGED screen

-----------------------------------------------------------------------------
(* The sign-up page.                                                         *)

\* Mutants: subjects are loaded whoever is signed in; the page waits for the
\* button whoever is signed in.
ViewDidAppearUnchecked ==
    /\ screen = "appearing"
    /\ screen' = "signup"
    /\ LoadSubjectsAndRecordings("getUserData")
    /\ UNCHANGED <<authVars, loginShown, listenVars, cloudVars, wordVars,
                   hurried, errors>>

ViewDidAppearWaiting ==
    /\ screen = "appearing"
    /\ screen' = "signup"
    /\ loginShown' = TRUE
    /\ UNCHANGED <<authVars, loads, trapped, listenVars, cloudVars, wordVars,
                   hurried, errors>>

ViewDidAppear ==
    /\ screen = "appearing"
    /\ screen' = "signup"
    /\ \/ /\ user # NoUser
          /\ LoadSubjectsAndRecordings("getUserData")
          /\ UNCHANGED loginShown
       \/ /\ user = NoUser
          /\ loginShown' = TRUE
          /\ UNCHANGED <<loads, trapped>>
    /\ UNCHANGED <<authVars, listenVars, cloudVars, wordVars, hurried, errors>>

PressFacebookLogIn ==
    /\ screen = "signup"
    /\ loginShown
    /\ logInCalls < MaxLogIns /\ MoreEvents
    /\ logInCalls' = logInCalls + 1
    /\ screen' = "facebook"
    /\ Touch(Settled)
    /\ UNCHANGED <<user, logins, loginShown, loads, trapped, listenVars, cloudVars,
                   wordVars, errors>>

\* The dialog goes, with a credential or without.
FacebookAnswered ==
    /\ screen = "facebook"
    /\ screen' = "appearing"
    /\ \/ \E u \in Users :
             logins' = logins \cup {[id |-> logInCalls, user |-> u, call |-> "signIn"]}
       \/ UNCHANGED logins
    /\ UNCHANGED <<user, logInCalls, loginShown, loads, trapped, listenVars,
                   cloudVars, wordVars, hurried, errors>>

-----------------------------------------------------------------------------
(* signinToFirebase and what it calls.                                       *)

Waiting(call) == {login \in logins : login.call = call}

\* Facebook's handler, which begins this, is called when its dialog has gone and
\* the page has appeared.
SignInAnswered ==
    /\ screen # "appearing"
    /\ UNCHANGED <<cloudVars, listeners, logInCalls, pageVars, loads, trapped,
                   wordVars, hurried>>
    /\ \E login \in Waiting("signIn") :
          \/ /\ user' = login.user /\ followed' = FALSE
             /\ logins' = (logins \ {login}) \cup {[login EXCEPT !.call = "check"]}
             /\ UNCHANGED errors
          \/ /\ Fail
             /\ logins' = logins \ {login}
             /\ UNCHANGED <<user, followed>>
    /\ Notify

\* The query also finds a document this device is about to make.
UserExists(u) ==
    \/ documents[u].exists
    \/ \E login \in Waiting("create") : login.user = u

\* Mutant: the document is written if there is one.
UserCheckedInverted ==
    /\ UNCHANGED <<cloudVars, user, logInCalls, pageVars, loads, wordVars,
                   hurried, errors>>
    /\ \E login \in Waiting("check") :
          \/ /\ ~UserExists(login.user)
             /\ logins' = logins \ {login}
             /\ GetUserData("login")
          \/ /\ UserExists(login.user)
             /\ logins' = (logins \ {login}) \cup {[login EXCEPT !.call = "create"]}
             /\ UNCHANGED <<listenVars, trapped>>

\* checkIfUserExists.  An error leaves the completion uncalled.
UserChecked ==
    /\ UNCHANGED <<cloudVars, user, logInCalls, pageVars, loads, wordVars, hurried>>
    /\ \E login \in Waiting("check") :
          \/ /\ UserExists(login.user)
             /\ logins' = logins \ {login}
             /\ GetUserData("login")
             /\ UNCHANGED errors
          \/ /\ ~UserExists(login.user)
             /\ logins' = (logins \ {login}) \cup {[login EXCEPT !.call = "create"]}
             /\ UNCHANGED <<listenVars, trapped, errors>>
          \/ /\ Fail
             /\ logins' = logins \ {login}
             /\ UNCHANGED <<listenVars, trapped>>

\* setData's completion does not look at the error.
UserCreated ==
    /\ UNCHANGED <<user, elsewhereVars, writes, changes, logInCalls, pageVars, loads,
                   wordVars, hurried>>
    /\ \E login \in Waiting("create") :
          /\ logins' = logins \ {login}
          /\ \/ /\ documents' = [documents EXCEPT ![login.user] =
                                    [exists |-> TRUE, keywords |-> DefaultKeywords]]
                /\ UNCHANGED errors
             \/ Fail /\ UNCHANGED documents
    /\ GetUserData("login")

-----------------------------------------------------------------------------
(* Loads of the subjects and snapshots of the user's document.               *)

LoadEnded(after) ==
    /\ loads[after] > 0
    /\ loads' = [loads EXCEPT ![after] = @ - 1]
    /\ UNCHANGED <<authVars, loginShown, cloudVars, wordVars>>

\* viewDidAppear's completion.
LoadedThenGetUserData ==
    /\ LoadEnded("getUserData")
    /\ GetUserData("start")
    /\ UNCHANGED <<screen, hurried, errors>>

\* The log-in's completion.
LoadedThenSegue ==
    /\ LoadEnded("segue")
    /\ SegueToHomePage
    /\ UNCHANGED <<listenVars, trapped, hurried, errors>>

\* The subjects come after the user has left: asking for their recordings traps.
LoadedForNobody ==
    /\ user = NoUser
    /\ \E after \in DOMAIN loads : LoadEnded(after)
    /\ trapped' = TRUE
    /\ UNCHANGED <<screen, listenVars, hurried, errors>>

\* An error leaves the completion uncalled.
LoadFails ==
    /\ Fail
    /\ \E after \in DOMAIN loads : LoadEnded(after)
    /\ UNCHANGED <<screen, listenVars, trapped, hurried>>

\* The listener's block, with data()! on a document that is not there, and the
\* success of whoever attached it.
SnapshotArrives ==
    /\ snapshots # <<>>
    /\ snapshots' = Tail(snapshots)
    /\ LET document == Head(snapshots).document
           path == Head(snapshots).path
       IN  \/ /\ ~document.exists
              /\ trapped' = TRUE
              /\ UNCHANGED <<highlightedKeywords, screen, loads>>
           \/ /\ document.exists
              /\ highlightedKeywords' = document.keywords
              /\ \/ path = "start" /\ SegueToHomePage /\ UNCHANGED <<loads, trapped>>
                 \/ path = "login" /\ LoadSubjectsAndRecordings("segue")
                                   /\ UNCHANGED screen
    /\ UNCHANGED <<authVars, loginShown, listeners, followed, cloudVars, rows, addingKeyword,
                   edits, hurried, errors>>

\* An error ends a listener.
ListenerFails ==
    /\ Fail
    /\ \E i \in DOMAIN listeners :
          /\ listeners[i].active
          /\ listeners' = [listeners EXCEPT ![i].active = FALSE]
    /\ UNCHANGED <<authVars, pageVars, loads, trapped, followed, snapshots, cloudVars,
                   wordVars, hurried>>

\* Another device adds a word to the user's keywords or deletes one.
OtherDeviceChanges ==
    /\ changes < MaxChanges /\ MoreEvents
    /\ changes' = changes + 1
    /\ UNCHANGED <<authVars, pageVars, loads, trapped, listeners, followed, writes,
                   elsewhereVars, wordVars, hurried, errors>>
    /\ \E u \in {v \in Users : documents[v].exists} :
          documents' \in {[documents EXCEPT ![u].keywords = Append(@, word)] :
                             word \in Words}
                         \cup {[documents EXCEPT ![u].keywords = RemoveAt(@, i)] :
                                  i \in DOMAIN documents[u].keywords}
    /\ Notify

\* Another device logs a user in: its check finds no document.
OtherDeviceChecks ==
    /\ changes < MaxChanges /\ MoreEvents
    /\ changes' = changes + 1
    /\ \E u \in Users :
          /\ ~documents[u].exists
          /\ elsewhere' = elsewhere \cup {u}
    /\ UNCHANGED <<authVars, pageVars, loads, trapped, listenVars, documents, raced,
                   writes, wordVars, hurried, errors>>

\* And writes one, over the one that this device has made since, if any.
OtherDeviceCreates ==
    /\ UNCHANGED <<authVars, pageVars, loads, trapped, listeners, followed, writes,
                   changes, wordVars, hurried, errors>>
    /\ \E u \in elsewhere :
          /\ elsewhere' = elsewhere \ {u}
          /\ raced' = IF UserExists(u) THEN raced \cup {u} ELSE raced
          /\ documents' = [documents EXCEPT ![u] =
                              [exists |-> TRUE, keywords |-> DefaultKeywords]]
    /\ Notify

\* The backend takes a user's writes in order, while the user is signed in, and
\* refuses to update a document that is not there.
WriteAnswered ==
    /\ UNCHANGED <<authVars, pageVars, loads, trapped, listeners, followed, wordVars,
                   elsewhereVars, changes, hurried>>
    /\ user # NoUser
    /\ writes[user] # <<>>
    /\ writes' = [writes EXCEPT ![user] = Tail(@)]
    /\ \/ /\ documents' = IF documents[user].exists
                          THEN [documents EXCEPT ![user].keywords = Head(writes[user])]
                          ELSE documents
          /\ UNCHANGED errors
       \/ Fail /\ UNCHANGED documents
    /\ Notify

-----------------------------------------------------------------------------
(* The home page, the keywords popup and the settings.                       *)

OffScreenVars == <<authVars, loginShown, loads, listenVars, cloudVars>>

\* The table asks for its rows when it is shown and at reloadData.
ReloadData == rows' = highlightedKeywords'

PressHighlightKeywords ==
    /\ screen = "home"
    /\ screen' = "keywords"
    /\ addingKeyword' = FALSE
    /\ UNCHANGED <<OffScreenVars, trapped, highlightedKeywords, edits, hurried, errors>>
    /\ ReloadData

\* The popup and its table are gone.
PressDismissPopup ==
    /\ screen = "keywords"
    /\ screen' = "home"
    /\ rows' = <<>> /\ addingKeyword' = FALSE
    /\ UNCHANGED <<OffScreenVars, trapped, highlightedKeywords, edits, hurried, errors>>

\* pressedMainButton: a second section for the new keyword.
PressAddKeyword ==
    /\ screen = "keywords"
    /\ ~addingKeyword
    /\ addingKeyword' = TRUE
    /\ UNCHANGED <<OffScreenVars, screen, trapped, highlightedKeywords, edits,
                   hurried, errors>>
    /\ ReloadData

\* updateData with the whole array, after the local one has changed.
UpdateKeywords ==
    /\ edits < MaxEdits /\ MoreEvents
    /\ edits' = edits + 1
    /\ writes' = [writes EXCEPT ![user] = Append(@, highlightedKeywords')]
    /\ UNCHANGED <<authVars, pageVars, loads, listeners, followed, documents,
                   elsewhereVars, changes>>
    /\ Notify

\* Mutant: the table is not told of the new keyword.
PressAddQuietly ==
    /\ screen = "keywords"
    /\ addingKeyword
    /\ addingKeyword' = FALSE
    /\ \E word \in Words : highlightedKeywords' = Append(highlightedKeywords, word)
    /\ Touch(Settled)
    /\ UpdateKeywords
    /\ UNCHANGED <<rows, trapped, errors>>

\* addKeyword, with reloadData.
PressAdd ==
    /\ screen = "keywords"
    /\ addingKeyword
    /\ user # NoUser
    /\ addingKeyword' = FALSE
    /\ \E word \in Words : highlightedKeywords' = Append(highlightedKeywords, word)
    /\ ReloadData
    /\ Touch(Settled)
    /\ UpdateKeywords
    /\ UNCHANGED <<trapped, errors>>

\* Mutant: the array is changed, the document is not.
PressDeleteLocally ==
    /\ screen = "keywords"
    /\ Len(rows) = Len(highlightedKeywords)
    /\ \E i \in DOMAIN rows :
          /\ highlightedKeywords' = RemoveAt(highlightedKeywords, i)
          /\ rows' = RemoveAt(rows, i)
    /\ Touch(Settled)
    /\ UNCHANGED <<OffScreenVars, screen, trapped, addingKeyword, edits, errors>>

\* deleteKeyword: the row's number is taken for the array's; deleteRows takes
\* the row off the table.
PressDelete ==
    /\ screen = "keywords"
    /\ user # NoUser
    /\ Len(rows) = Len(highlightedKeywords)
    /\ \E i \in DOMAIN rows :
          /\ highlightedKeywords' = RemoveAt(highlightedKeywords, i)
          /\ rows' = RemoveAt(rows, i)
    /\ Touch(Settled)
    /\ UpdateKeywords
    /\ UNCHANGED <<trapped, addingKeyword, errors>>

\* The same presses with nobody signed in, or with a table that has not followed
\* the array: remove(at:) is out of range or endUpdates finds a row too many or
\* too few.
PressAndTrap ==
    /\ screen = "keywords"
    /\ \/ addingKeyword /\ user = NoUser
       \/ /\ rows # <<>>
          /\ user = NoUser \/ Len(rows) # Len(highlightedKeywords)
    /\ trapped' = TRUE
    /\ Touch(Settled)
    /\ UNCHANGED <<OffScreenVars, screen, wordVars, errors>>

OpenSettings ==
    /\ screen = "home"
    /\ screen' = "settings"
    /\ UNCHANGED <<OffScreenVars, trapped, wordVars, hurried, errors>>

CloseSettings ==
    /\ screen = "settings"
    /\ screen' = "home"
    /\ UNCHANGED <<OffScreenVars, trapped, wordVars, hurried, errors>>

\* Mutant: isSigningOut is not set, and the home page stays.
PressSignOutStaying ==
    /\ screen = "settings"
    /\ screen' = "home"
    /\ user' = NoUser
    /\ Touch(Settled /\ NothingWritten)
    /\ UNCHANGED <<logins, logInCalls, loginShown, cloudVars, listeners, followed,
                   loads, trapped, wordVars, errors>>
    /\ Notify

\* The settings page goes, and the home page when it is to appear: it finds
\* isSigningOut.  An error of signOut is ignored.  The listeners stay.
PressSignOut ==
    /\ screen = "settings"
    /\ screen' = "appearing"
    /\ \/ user' = NoUser /\ Touch(Settled /\ NothingWritten) /\ UNCHANGED errors
       \/ Fail /\ UNCHANGED <<user, hurried>>
    /\ UNCHANGED <<logins, logInCalls, loginShown, cloudVars, listeners, followed,
                   loads, trapped, wordVars>>
    /\ Notify

-----------------------------------------------------------------------------
UserStep ==
    \/ PressFacebookLogIn \/ FacebookAnswered
    \/ PressHighlightKeywords \/ PressDismissPopup
    \/ PressAddKeyword \/ PressAdd \/ PressDelete \/ PressAndTrap
    \/ OpenSettings \/ CloseSettings \/ PressSignOut

CloudStep ==
    \/ SignInAnswered \/ UserChecked \/ UserCreated
    \/ LoadedThenGetUserData \/ LoadedThenSegue \/ LoadedForNobody \/ LoadFails
    \/ SnapshotArrives \/ ListenerFails \/ WriteAnswered
    \/ OtherDeviceChanges \/ OtherDeviceChecks \/ OtherDeviceCreates

Next == ~trapped /\ (UserStep \/ ViewDidAppear \/ CloudStep)

Spec == Init /\ [][Next]_vars

\* The sign-up page appears and Firebase answers; the student may do nothing.
Fairness ==
    /\ WF_vars(~trapped /\ ViewDidAppear)
    /\ WF_vars(~trapped /\ SignInAnswered)
    /\ WF_vars(~trapped /\ UserChecked)
    /\ WF_vars(~trapped /\ UserCreated)
    /\ WF_vars(~trapped /\ LoadedThenGetUserData)
    /\ WF_vars(~trapped /\ LoadedThenSegue)
    /\ WF_vars(~trapped /\ SnapshotArrives)
    /\ WF_vars(~trapped /\ WriteAnswered)

FairSpec == Spec /\ Fairness

\* A handler that waits for the call it answers, or for its page, can be run:
\* what the fairness of the handlers needs to be of use.
HandlersEnabled ==
    /\ ~trapped /\ screen = "appearing" => ENABLED <<~trapped /\ ViewDidAppear>>_vars
    /\ ~trapped /\ Waiting("check") # {} => ENABLED <<~trapped /\ UserChecked>>_vars
    /\ ~trapped /\ Waiting("create") # {} => ENABLED <<~trapped /\ UserCreated>>_vars
    /\ ~trapped /\ loads["getUserData"] > 0 =>
          ENABLED <<~trapped /\ LoadedThenGetUserData>>_vars
    /\ ~trapped /\ loads["segue"] > 0 => ENABLED <<~trapped /\ LoadedThenSegue>>_vars
    /\ ~trapped /\ snapshots # <<>> => ENABLED <<~trapped /\ SnapshotArrives>>_vars

-----------------------------------------------------------------------------
Undisturbed == ~hurried /\ errors = 0 /\ changes = 0

OnHomePage == screen \in {"home", "keywords", "settings"}

\* Once a listener is attached for whoever is signed in, and all snapshots have
\* come, highlightedKeywords are that user's, as this device sees them: whatever
\* log-ins and writes are under way or have failed, and whoever was signed in
\* before, with listeners that are still attached.
KeywordsAreTheUsers ==
    (~trapped /\ user # NoUser /\ followed /\ Last(listeners).active
        /\ snapshots = <<>> /\ changes = 0)
       => highlightedKeywords = Seen[user].keywords

\* The popup's table shows the keywords: a press on a row deletes that keyword.
\* Only another device, or a press before the last one's snapshot, upsets this.
RowsShowKeywords ==
    (screen = "keywords" /\ Undisturbed) => rows = highlightedKeywords

\* The app does not trap on a student who is alone and waits.
NoTrapWhenPatient == trapped => ~Undisturbed

\* The home page is only left open to somebody who is signed in.
HomeHasUser == (OnHomePage /\ Undisturbed) => user # NoUser

\* Logging in never resets the document of somebody who has one ("User already
\* exists, doing nothing.", DataManager.swift:234), on this device or another,
\* whatever log-ins overlap on either: only edits change a document that is there.
\* The exception are two devices that log a user in for the first time at once,
\* each with its check before the other's write: there the code does reset it.
LogInKeepsDocument ==
    [][\A u \in Users \ raced' :
          (documents[u].exists /\ documents'[u] # documents[u])
             => OtherDeviceChanges \/ WriteAnswered]_vars

\* Whoever is signed in gets from the sign-up page to the home page.
SignedInReachesHome ==
    (user # NoUser /\ ~OnHomePage /\ Undisturbed)
       ~> (OnHomePage \/ ~Undisturbed)
===============================================================================
