---------------------------- MODULE SubjectLibrary ----------------------------
(***************************************************************************)
(* The subjects: DataManager's cache of them, the Firestore collections it *)
(* is loaded from, the home page's tabs made of it, and the popup and the  *)
(* settings page that add and delete subjects.                             *)
(*                                                                         *)
(* A load replaces the array DataManager.subjects as soon as the subjects  *)
(* are there and then asks for the recordings of each.  Its callbacks hold *)
(* on to the Subject objects of their own load, while everybody else uses  *)
(* whatever array is in the cache at the moment, which a later load, or    *)
(* the one that ends saveNewSubject, may have replaced.                    *)
(*                                                                         *)
(* The tabs are pages of Pageboy, asked for by index from the arrays of    *)
(* that moment: an index beyond the cache traps, and one that fits belongs *)
(* to whatever subject stands there by now.  So are the rows of the        *)
(* settings page's table, which only its own deletes reload.               *)
(*                                                                         *)
(* What a subject's recordings are is abstracted to whether there are any. *)
(* Firestore answers the query for the subjects in the order of the calls  *)
(* (it is one query), everything else in any order.                        *)
(***************************************************************************)
EXTENDS Naturals, FiniteSets, SequencesExt

CONSTANTS
    Names,          \* names of subjects, which are their document IDs
    FirstNames,     \* the subjects there are at the start, all with recordings
    MaxPopups,      \* bound: Add New Subject popups presented
    MaxAdds,        \* bound: presses on their Add button
    MaxDeletes,     \* bound: subjects deleted
    MaxRecordings,  \* bound: recording pages opened
    MaxMishaps      \* bound: places where the student does not wait for an
                    \* answer, and calls that Firestore answers with an error

ASSUME LibraryAssumption ==
    /\ FirstNames \in Seq(Names) /\ IsInjective(FirstNames)
    /\ MaxPopups \in Nat /\ MaxAdds \in Nat /\ MaxDeletes \in Nat
    /\ MaxRecordings \in Nat /\ MaxMishaps \in Nat

VARIABLES
    subjectDocs,    \* documents of the collection subjects, by dateCreated
    recordingDocs,  \* names under which there are recordings in Firestore
    subjects,       \* DataManager.subjects
    tabs,           \* the home page's viewControllers and their lists
    position,       \* currentIndex, counted from 1
    loads,          \* calls of loadSubjectsAndRecordings not completed
    adds,           \* calls of saveNewSubject not completed
    deletes,        \* calls of deleteSubject not completed
    loadCalls,      \* calls of loadSubjects so far, the ones of adds too
    addCalls,
    deleteCalls,
    recordings,     \* recording pages opened: the subject they were given and
                    \* the tab that was shown
    screen,         \* home, popup, existsAlert (over the popup), settings,
                    \* deleteAlert, recording
    popup,          \* number of the popup presented last
    faded,          \* its view is at alpha 0 or on the way there
    fades,          \* fade-outs of it that have not ended
    rows,           \* the names on the settings page's table
    tableDeletes,   \* deletes pressed on that page
    tableLoads,     \* loads that reload its table when they complete
    chosen,         \* the Subject object the alert will delete
    touched,        \* the name on the row that was touched for it
    shouldReloadOnAppear,
    trapped,        \* an index was out of range
    hurried,        \* history: where the student did not wait for an answer
    errors          \* history: calls answered with an error

cloudVars == <<subjectDocs, recordingDocs>>
addVars == <<adds, addCalls>>
deleteVars == <<deletes, deleteCalls>>
fadeVars == <<faded, fades>>
screenVars == <<screen, popup, fadeVars>>
tabVars == <<tabs, position, recordings, trapped>>
loadVars == <<loads, loadCalls>>
tableVars == <<rows, tableDeletes, tableLoads>>
alertVars == <<chosen, touched>>
vars == <<cloudVars, subjects, tabVars, loadVars, addVars, deleteVars,
          screenVars, tableVars, alertVars, shouldReloadOnAppear, hurried, errors>>

\* A document knows which press made it, 0 for the ones from the start.
SubjectDocs == [name : Names, by : 0 .. MaxAdds]

\* A Subject object is known by its load; hasRecordings tells of its array.
Subjects == [name : Names, load : Nat, hasRecordings : BOOLEAN]

Tabs == [name : Names, hasRecordings : BOOLEAN]
Recordings == [tab : Names, subject : Names]

HasRecordings(name) == name \in recordingDocs

NamesOf(objects) == [i \in DOMAIN objects |-> objects[i].name]

\* Documents without the one of this name: there is one at most, since the name
\* is its ID.
Without(docs, name) ==
    IF \E i \in DOMAIN docs : docs[i].name = name
    THEN RemoveAt(docs, CHOOSE i \in DOMAIN docs : docs[i].name = name) ELSE docs

TypeOK ==
    /\ subjectDocs \in Seq(SubjectDocs)
    /\ recordingDocs \subseteq Names
    /\ subjects \in Seq(Subjects)
    /\ tabs \in Seq(Tabs)
    /\ position = 1 \/ position \in DOMAIN tabs
    /\ recordings \in Seq(Recordings) /\ Len(recordings) <= MaxRecordings
    /\ loads \subseteq [id : 1 .. loadCalls, by : {"home", "settings"},
                        named : BOOLEAN, waitingFor : SUBSET Names,
                        failed : BOOLEAN, index : Nat \ {0}]
    /\ adds \subseteq [id : 1 .. MaxAdds, name : Names, popup : 1 .. MaxPopups,
                       call : {"check", "setData", "load"}, load : 0 .. loadCalls]
    /\ deletes \subseteq [id : 1 .. MaxDeletes, name : Names,
                          withRecordings : BOOLEAN]
    /\ loadCalls \in Nat
    /\ addCalls \in 0 .. MaxAdds
    /\ deleteCalls \in 0 .. MaxDeletes
    /\ screen \in {"home", "popup", "existsAlert", "settings", "deleteAlert",
                   "recording"}
    /\ popup \in 0 .. MaxPopups
    /\ faded \in BOOLEAN
    /\ fades \in Nat
    /\ rows \in Seq(Names)
    /\ tableDeletes \subseteq 1 .. MaxDeletes /\ tableLoads \subseteq 1 .. loadCalls
    /\ chosen \in Seq(Subjects) /\ Len(chosen) <= 1
    /\ touched \in Seq(Names) /\ Len(touched) = Len(chosen)
    /\ shouldReloadOnAppear \in BOOLEAN /\ trapped \in BOOLEAN
    /\ hurried \subseteq {"popup", "tabs", "settings"}
    /\ errors \in 0 .. MaxMishaps

Init ==
    /\ subjectDocs = [i \in DOMAIN FirstNames |-> [name |-> FirstNames[i], by |-> 0]]
    /\ recordingDocs = {FirstNames[i] : i \in DOMAIN FirstNames}
    /\ subjects = [i \in DOMAIN FirstNames |->
                      [name |-> FirstNames[i], load |-> 0, hasRecordings |-> TRUE]]
    /\ tabs = [i \in DOMAIN FirstNames |->
                  [name |-> FirstNames[i], hasRecordings |-> TRUE]]
    /\ position = 1
    /\ recordings = <<>>
    /\ loads = {} /\ adds = {} /\ deletes = {}
    /\ loadCalls = 0 /\ addCalls = 0 /\ deleteCalls = 0
    /\ screen = "home"
    /\ popup = 0
    /\ faded = FALSE
    /\ fades = 0
    /\ rows = <<>> /\ tableDeletes = {} /\ tableLoads = {}
    /\ chosen = <<>> /\ touched = <<>>
    /\ shouldReloadOnAppear = FALSE
    /\ trapped = FALSE /\ hurried = {} /\ errors = 0

-----------------------------------------------------------------------------
(* Answers and acts.                                                         *)

Fails ==
    /\ Cardinality(hurried) + errors < MaxMishaps
    /\ errors' = errors + 1

Succeeds == UNCHANGED errors

LoadsUnderWay == {load \in loads : ~load.failed}

\* The student does something that could have waited for an answer.
ActsDuring(answers, place) ==
    /\ hurried' = IF answers # {} THEN hurried \cup {place} ELSE hurried
    /\ Cardinality(hurried') + errors <= MaxMishaps

-----------------------------------------------------------------------------
(* loadSubjectsAndRecordings, and reloadData, which calls it.                *)

\* reloadData remembers the tab to go back to.
BeginLoad(by) ==
    /\ loadCalls' = loadCalls + 1
    /\ loads' = loads \cup {[id |-> loadCalls + 1, by |-> by, named |-> FALSE,
                             waitingFor |-> {}, failed |-> FALSE,
                             index |-> IF by = "home" THEN position ELSE 1]}

\* The query of call id is answered: every earlier one has been.
NextLoadCall(id) ==
    /\ \A load \in loads : load.named \/ load.id >= id
    /\ \A add \in adds : add.call = "load" => add.load >= id

\* self.subjects after the subjects have come: new objects without recordings.
SubjectsOf(id) ==
    [i \in DOMAIN subjectDocs |->
        [name |-> subjectDocs[i].name, load |-> id, hasRecordings |-> FALSE]]

\* Mutant: the index is looked up in the tabs of before the reload.
RestoreOldPosition(index) ==
    position' = IF index \in DOMAIN tabs THEN index ELSE 1

\* reloadPages goes to the first page and scrollToPage back to the index, if
\* there still is such a page and no finger is on the pages.
RestorePosition(index) ==
    \/ position' = IF index \in DOMAIN tabs' THEN index ELSE 1
    \/ screen = "home" /\ position' = 1

\* reloadData's completion rebuilds the tabs from the array then in the cache;
\* the settings page only reloads its table, if it is still there.
Completed(load) ==
    \/ /\ load.by = "home"
       /\ tabs' = [i \in DOMAIN subjects' |->
                      [name |-> subjects'[i].name,
                       hasRecordings |-> subjects'[i].hasRecordings]]
       /\ RestorePosition(load.index)
       /\ UNCHANGED rows
    \/ /\ load.by = "settings"
       /\ rows' = IF load.id \in tableLoads THEN NamesOf(subjects') ELSE rows
       /\ UNCHANGED <<tabs, position>>

LoadedVars == <<cloudVars, addVars, deleteVars, loadCalls, screenVars,
                tableDeletes, tableLoads, touched,
                shouldReloadOnAppear, recordings, trapped, hurried>>

SubjectsLoaded ==
    /\ \E load \in {l \in loads : ~l.named} :
          /\ NextLoadCall(load.id)
          /\ subjects' = SubjectsOf(load.id)
          /\ \/ /\ subjectDocs # <<>>
                /\ loads' = (loads \ {load}) \cup
                       {[load EXCEPT
                            !.named = TRUE,
                            !.waitingFor = {subjectDocs[i].name :
                                               i \in DOMAIN subjectDocs}]}
                /\ UNCHANGED <<tabs, position, rows>>
             \/ /\ subjectDocs = <<>>
                /\ loads' = loads \ {load}
                /\ Completed(load)
    /\ Succeeds
    /\ UNCHANGED <<chosen, LoadedVars>>

\* The objects with this name that the load made, wherever they are held.
Filled(objects, load, name) ==
    [i \in DOMAIN objects |->
        IF objects[i].load = load.id /\ objects[i].name = name
        THEN [objects[i] EXCEPT !.hasRecordings = HasRecordings(name)]
        ELSE objects[i]]

\* loadedCounter reaches numSubjectsToLoad when no query is waited for and none
\* has failed.
Counted(load, name) ==
    \/ /\ load.waitingFor # {name} \/ load.failed
       /\ loads' = (loads \ {load}) \cup
              {[load EXCEPT !.waitingFor = @ \ {name}]}
       /\ UNCHANGED <<tabs, position, rows>>
    \/ /\ load.waitingFor = {name} /\ ~load.failed
       /\ loads' = loads \ {load}
       /\ Completed(load)

\* Mutant: an answer is only counted for a subject that is still in the cache.
RecordingsLoadedIntoCache ==
    /\ \E load \in loads : \E name \in load.waitingFor :
          /\ \E i \in DOMAIN subjects :
                subjects[i].load = load.id /\ subjects[i].name = name
          /\ subjects' = Filled(subjects, load, name)
          /\ UNCHANGED chosen
          /\ Counted(load, name)
    /\ Succeeds
    /\ UNCHANGED LoadedVars

RecordingsLoaded ==
    /\ \E load \in loads : \E name \in load.waitingFor :
          /\ subjects' = Filled(subjects, load, name)
          /\ chosen' = Filled(chosen, load, name)
          /\ Counted(load, name)
    /\ Succeeds
    /\ UNCHANGED LoadedVars

\* An error answers a query without its completion: the load never completes.
SubjectsFailToLoad ==
    /\ \E load \in {l \in loads : ~l.named} :
          /\ NextLoadCall(load.id)
          /\ loads' = (loads \ {load}) \cup
                 {[load EXCEPT !.named = TRUE, !.failed = TRUE]}
    /\ Fails
    /\ UNCHANGED <<subjects, tabs, position, rows, chosen, LoadedVars>>

RecordingsFailToLoad ==
    /\ \E load \in loads : \E name \in load.waitingFor :
          loads' = (loads \ {load}) \cup
              {[load EXCEPT !.waitingFor = @ \ {name}, !.failed = TRUE]}
    /\ Fails
    /\ UNCHANGED <<subjects, tabs, position, rows, chosen, LoadedVars>>

-----------------------------------------------------------------------------
(* The home page.                                                            *)

PageVars == <<cloudVars, subjects, addVars, deleteVars, popup, fadeVars, alertVars,
              errors>>

\* viewController(for:at:), when the student swipes to a page (and perhaps back)
\* or touches its item: the tab gets the recordings its index has in the cache,
\* unless that is empty; beyond the array the subscript traps.
ShowTab ==
    /\ screen = "home"
    /\ \E i \in DOMAIN tabs :
          /\ position' \in {position, i}
          /\ tabs' = IF i \in DOMAIN subjects
                     THEN [tabs EXCEPT ![i].hasRecordings =
                              subjects[i].hasRecordings]
                     ELSE tabs
          /\ trapped' = (subjects # <<>> /\ i \notin DOMAIN subjects)
    /\ ActsDuring(LoadsUnderWay \cup adds \cup deletes, "tabs")
    /\ UNCHANGED <<PageVars, loadVars, recordings, screen, tableVars,
                   shouldReloadOnAppear>>

\* The button is hidden on a page without subjects.
PressNewRecording ==
    /\ screen = "home"
    /\ tabs # <<>>
    /\ Len(recordings) < MaxRecordings
    /\ \/ /\ position \in DOMAIN subjects
          /\ recordings' = Append(recordings,
                              [tab |-> tabs[position].name,
                               subject |-> subjects[position].name])
          /\ screen' = "recording"
          /\ UNCHANGED trapped
       \/ /\ position \notin DOMAIN subjects
          /\ trapped' = TRUE
          /\ UNCHANGED <<recordings, screen>>
    /\ ActsDuring(LoadsUnderWay \cup adds \cup deletes, "tabs")
    /\ UNCHANGED <<PageVars, loadVars, tabs, position, tableVars,
                   shouldReloadOnAppear>>

PressAddSubject ==
    /\ screen = "home"
    /\ popup < MaxPopups
    /\ screen' = "popup"
    /\ popup' = popup + 1
    /\ UNCHANGED <<cloudVars, subjects, tabVars, loadVars, addVars, deleteVars,
                   fadeVars, tableVars, alertVars, shouldReloadOnAppear, hurried,
                   errors>>

\* A new page: no delete under way will reload its table.
OpenSettings ==
    /\ screen = "home"
    /\ screen' = "settings"
    /\ rows' = NamesOf(subjects) /\ tableDeletes' = {} /\ tableLoads' = {}
    /\ ActsDuring(LoadsUnderWay \cup adds \cup deletes, "settings")
    /\ UNCHANGED <<PageVars, tabVars, loadVars, shouldReloadOnAppear>>

\* viewWillAppear.
HomeAppears(reload) ==
    /\ screen' = "home"
    /\ \/ reload /\ BeginLoad("home")
       \/ ~reload /\ UNCHANGED loadVars
    /\ shouldReloadOnAppear' = FALSE

CloseSettings ==
    /\ screen = "settings"
    /\ HomeAppears(shouldReloadOnAppear)
    /\ rows' = <<>> /\ tableDeletes' = {} /\ tableLoads' = {}
    /\ ActsDuring(deletes, "tabs")
    /\ UNCHANGED <<PageVars, tabVars>>

\* The recording page goes without a save (see RecordingPage), or after one,
\* stored or not, whose answer has set shouldReloadOnAppear (SaveRecordingFlow).
LeaveRecording ==
    /\ screen = "recording"
    /\ HomeAppears(shouldReloadOnAppear)
    /\ UNCHANGED <<PageVars, tabVars, tableVars, hurried>>

RecordingSaved ==
    /\ screen = "recording"
    /\ \/ recordingDocs' = recordingDocs \cup {Last(recordings).subject} /\ Succeeds
       \/ UNCHANGED recordingDocs /\ Fails
    /\ HomeAppears(TRUE)
    /\ UNCHANGED <<subjectDocs, subjects, tabVars, addVars, deleteVars, popup,
                   fadeVars, tableVars, alertVars, hurried>>

-----------------------------------------------------------------------------
(* The Add New Subject popup.  At alpha 0 it takes no touches.                *)

Touchable == screen = "popup" /\ ~faded

\* dismissPopup: the view goes to alpha 0, and the popup when that is done.
DismissPopup ==
    /\ faded' = TRUE
    /\ fades' = fades + 1

PressDismissPopup ==
    /\ Touchable
    /\ DismissPopup
    /\ ActsDuring(adds, "popup")
    /\ UNCHANGED <<cloudVars, subjects, tabVars, loadVars, addVars, deleteVars,
                   screen, popup, tableVars, alertVars, shouldReloadOnAppear, errors>>

\* saveNewSubject begins with checkIfSubjectExists.
BeginAdd ==
    /\ addCalls < MaxAdds
    /\ addCalls' = addCalls + 1
    /\ \E name \in Names :
          adds' = adds \cup {[id |-> addCalls + 1, name |-> name,
                              popup |-> popup, call |-> "check", load |-> 0]}
    /\ ActsDuring(adds, "popup")
    /\ UNCHANGED <<cloudVars, subjects, tabVars, loadVars, deleteVars, screenVars,
                   tableVars, alertVars, shouldReloadOnAppear, errors>>

\* Mutant: the button is live before a popup is on the screen.
PressAddAnywhere == BeginAdd

\* The button stays enabled.
PressAdd ==
    /\ Touchable
    /\ BeginAdd

\* The popup's viewWillDisappear reloads the home page it finds behind it.
PopupFaded ==
    /\ fades > 0
    /\ screen = "popup"
    /\ screen' = "home"
    /\ faded' = FALSE
    /\ fades' = 0
    /\ BeginLoad("home")
    /\ UNCHANGED <<cloudVars, subjects, tabVars, addVars, deleteVars, popup,
                   tableVars, alertVars, shouldReloadOnAppear, hurried, errors>>

\* The same call while the popup presents its alert: dismiss takes the alert
\* away and leaves the popup, which nobody sees any more.
AlertFaded ==
    /\ fades > 0
    /\ screen = "existsAlert"
    /\ screen' = "popup"
    /\ fades' = fades - 1
    /\ UNCHANGED <<cloudVars, subjects, tabVars, loadVars, addVars, deleteVars,
                   popup, faded, tableVars, alertVars, shouldReloadOnAppear, hurried, errors>>

PressOk ==
    /\ screen = "existsAlert"
    /\ screen' = "popup"
    /\ UNCHANGED <<PageVars, tabVars, loadVars, tableVars, shouldReloadOnAppear, hurried>>

Exists(name) == \E i \in DOMAIN subjectDocs : subjectDocs[i].name = name

OnScreen(id) == screen \in {"popup", "existsAlert"} /\ popup = id

\* An existing name is refused with an alert on the popup, if that is still
\* there; a failed check finds no such name.
SubjectChecked ==
    /\ \E add \in {a \in adds : a.call = "check"} :
          \/ /\ Exists(add.name)
             /\ adds' = adds \ {add}
             /\ screen' = IF OnScreen(add.popup) THEN "existsAlert" ELSE screen
             /\ Succeeds
          \/ /\ (~Exists(add.name) /\ Succeeds) \/ Fails
             /\ adds' = (adds \ {add}) \cup {[add EXCEPT !.call = "setData"]}
             /\ UNCHANGED screen
    /\ UNCHANGED <<cloudVars, subjects, tabVars, loadVars, addCalls, deleteVars,
                   popup, fadeVars, tableVars, alertVars, shouldReloadOnAppear, hurried>>

\* setData replaces a document of this name, which becomes the newest.  Its
\* completion loads the subjects whatever the answer.
SubjectSet ==
    /\ \E add \in {a \in adds : a.call = "setData"} :
          /\ \/ /\ subjectDocs' =
                      Append(Without(subjectDocs, add.name),
                             [name |-> add.name, by |-> add.id])
                /\ Succeeds
             \/ UNCHANGED subjectDocs /\ Fails
          /\ adds' = (adds \ {add}) \cup
                 {[add EXCEPT !.call = "load", !.load = loadCalls + 1]}
    /\ loadCalls' = loadCalls + 1
    /\ UNCHANGED <<recordingDocs, subjects, tabVars, loads, addCalls, deleteVars,
                   screenVars, tableVars, alertVars, shouldReloadOnAppear, hurried>>

\* loadSubjects alone: the new objects never get their recordings.
SubjectAdded ==
    /\ \E add \in {a \in adds : a.call = "load"} :
          /\ NextLoadCall(add.load)
          /\ adds' = adds \ {add}
          /\ \/ /\ subjects' = SubjectsOf(add.load)
                /\ Succeeds
                /\ \/ OnScreen(add.popup) /\ DismissPopup
                   \/ ~OnScreen(add.popup) /\ UNCHANGED fadeVars
             \/ UNCHANGED <<subjects, fadeVars>> /\ Fails
    /\ UNCHANGED <<cloudVars, tabVars, loadVars, addCalls, deleteVars, screen,
                   popup, tableVars, alertVars, shouldReloadOnAppear, hurried>>

-----------------------------------------------------------------------------
(* The settings page.                                                        *)

SettingsVars == <<subjects, recordings, tabs, position, addVars, popup, fadeVars>>

\* didSelectRowAt: the row's number is taken for the array's; beyond the array
\* the subscript traps.  The alert keeps the object, not the row.
PressSubject ==
    /\ screen = "settings"
    /\ \E i \in DOMAIN rows :
          \/ /\ i \in DOMAIN subjects
             /\ chosen' = <<subjects[i]>> /\ touched' = <<rows[i]>>
             /\ screen' = "deleteAlert"
             /\ UNCHANGED trapped
          \/ /\ i \notin DOMAIN subjects
             /\ trapped' = TRUE
             /\ UNCHANGED <<alertVars, screen>>
    /\ ActsDuring(LoadsUnderWay \cup adds \cup deletes, "settings")
    /\ UNCHANGED <<SettingsVars, cloudVars, loadVars, deleteVars, tableVars,
                   shouldReloadOnAppear, errors>>

\* cellForRowAt, when a row is scrolled into view.
ShowRow ==
    /\ screen = "settings"
    /\ \E i \in DOMAIN rows :
          \/ /\ i \in DOMAIN subjects
             /\ rows' = [rows EXCEPT ![i] = subjects[i].name]
             /\ UNCHANGED trapped
          \/ /\ i \notin DOMAIN subjects
             /\ trapped' = TRUE
             /\ UNCHANGED rows
    /\ ActsDuring(LoadsUnderWay \cup adds \cup deletes, "settings")
    /\ UNCHANGED <<SettingsVars, cloudVars, loadVars, deleteVars, tableDeletes,
                   tableLoads, alertVars, screen, shouldReloadOnAppear, errors>>

PressCancel ==
    /\ screen = "deleteAlert"
    /\ screen' = "settings"
    /\ chosen' = <<>> /\ touched' = <<>>
    /\ UNCHANGED <<SettingsVars, cloudVars, loadVars, deleteVars, tableVars, trapped,
                   shouldReloadOnAppear, hurried, errors>>

\* deleteSubject: only the recordings the object has now are deleted too.
PressDelete ==
    /\ screen = "deleteAlert"
    /\ deleteCalls < MaxDeletes
    /\ deleteCalls' = deleteCalls + 1
    /\ deletes' = deletes \cup
           {[id |-> deleteCalls + 1, name |-> chosen[1].name,
             withRecordings |-> chosen[1].hasRecordings]}
    /\ tableDeletes' = tableDeletes \cup {deleteCalls + 1}
    /\ screen' = "settings"
    /\ chosen' = <<>> /\ touched' = <<>>
    /\ UNCHANGED <<SettingsVars, cloudVars, loadVars, rows, tableLoads, trapped,
                   shouldReloadOnAppear, hurried, errors>>

\* The writes of a delete; each of them may fail, and the error is not looked at.
DeleteStored(delete) ==
    \/ /\ subjectDocs' = Without(subjectDocs, delete.name)
       /\ recordingDocs' = IF delete.withRecordings
                           THEN recordingDocs \ {delete.name} ELSE recordingDocs
       /\ Succeeds
    \/ /\ UNCHANGED subjectDocs
       /\ recordingDocs' \in IF delete.withRecordings
                             THEN {recordingDocs, recordingDocs \ {delete.name}}
                             ELSE {recordingDocs}
       /\ Fails
    \/ /\ delete.withRecordings
       /\ subjectDocs' = Without(subjectDocs, delete.name)
       /\ UNCHANGED recordingDocs
       /\ Fails

SubjectDeletedAnd(reload) ==
    /\ \E delete \in deletes :
          /\ DeleteStored(delete)
          /\ deletes' = deletes \ {delete}
          /\ tableLoads' = IF delete.id \in tableDeletes
                           THEN tableLoads \cup {loadCalls + 1} ELSE tableLoads
    /\ shouldReloadOnAppear' = reload
    /\ BeginLoad("settings")
    /\ UNCHANGED <<SettingsVars, deleteCalls, rows, tableDeletes, screen, alertVars,
                   trapped, hurried>>

\* Mutant: the settings page reloads itself and forgets the home page.
SubjectDeletedQuietly == SubjectDeletedAnd(shouldReloadOnAppear)

SubjectDeleted == SubjectDeletedAnd(TRUE)

-----------------------------------------------------------------------------
Answer ==
    \/ SubjectsLoaded \/ RecordingsLoaded
    \/ SubjectsFailToLoad \/ RecordingsFailToLoad
    \/ SubjectChecked \/ SubjectSet \/ SubjectAdded \/ SubjectDeleted

Next ==
    /\ ~trapped
    /\ \/ ShowTab \/ PressNewRecording \/ LeaveRecording \/ RecordingSaved
       \/ PressAddSubject \/ OpenSettings \/ CloseSettings
       \/ PressDismissPopup \/ PressAdd \/ PressOk \/ PopupFaded \/ AlertFaded
       \/ PressSubject \/ ShowRow \/ PressCancel \/ PressDelete
       \/ Answer

Spec == Init /\ [][Next]_vars

\* Animations end and Firestore answers, unless the app has trapped; the student
\* may do nothing.
Fairness ==
    /\ WF_vars(~trapped /\ (PopupFaded \/ AlertFaded))
    /\ WF_vars(~trapped /\ SubjectsLoaded)
    /\ WF_vars(~trapped /\ RecordingsLoaded)
    /\ WF_vars(~trapped /\ SubjectChecked)
    /\ WF_vars(~trapped /\ SubjectSet)
    /\ WF_vars(~trapped /\ SubjectAdded)
    /\ WF_vars(~trapped /\ SubjectDeleted)

FairSpec == Spec /\ Fairness

-----------------------------------------------------------------------------
\* The tabs as they should be.
FreshTabs ==
    [i \in DOMAIN subjectDocs |->
        [name |-> subjectDocs[i].name,
         hasRecordings |-> HasRecordings(subjectDocs[i].name)]]

\* The home page only shows wrong subjects, or an empty list for a subject that
\* has recordings, while somebody is about to reload it: a load of its own, the
\* popup in front of it, a delete, or its own next appearance.  (Stated for
\* students who wait for the popup they pressed Add in, as long as no call fails.)
StaleTabsNoticed ==
    \/ tabs = FreshTabs
    \/ shouldReloadOnAppear
    \/ \E load \in loads : load.by = "home" /\ ~load.failed
    \/ OnScreen(popup) /\ (faded => fades > 0)
    \/ deletes # {}
    \/ "popup" \in hurried
    \/ errors > 0

\* A student who leaves tabs and popup alone while something is under way never
\* meets an index out of range on the home page, and records under the subject
\* whose tab is shown, although tabs and cache are two arrays that are rebuilt at
\* different times.  One who waits before touching the settings page too never
\* meets one at all, and is asked about deleting the subject on the row touched.
\* (One who does not wait may be asked about another, or meet the trap.)
RightSubjectWhenPatient ==
    errors = 0 =>
        /\ hurried \subseteq {"settings"} =>
              /\ screen = "home" => ~trapped
              /\ \A i \in DOMAIN recordings : recordings[i].subject = recordings[i].tab
        /\ hurried = {} => ~trapped /\ NamesOf(chosen) = touched

\* Every load the home page begins completes, whatever replaces the cache
\* under it, and so its activity indicator stops, unless one of the load's own
\* queries fails or the app traps.
HomeLoadsEnd ==
    (\E load \in loads : load.by = "home" /\ ~load.failed)
       ~> (trapped \/ \A load \in loads : load.by = "home" => load.failed)

\* "User can't add a new subject if the subject's name already exists"
\* (DataManager.swift:109).  The code does not keep this: the check and the
\* write are two calls, so that a second press passes the check too.
NamesNotReused ==
    [][\A i \in DOMAIN subjectDocs, j \in DOMAIN subjectDocs' :
          subjectDocs[i].name = subjectDocs'[j].name
             => subjectDocs[i] = subjectDocs'[j]]_vars
===============================================================================
