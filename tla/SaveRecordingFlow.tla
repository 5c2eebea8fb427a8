--------------------------- MODULE SaveRecordingFlow ---------------------------
(***************************************************************************)
(* Saving and deleting recordings, from the buttons of a recording page to *)
(* Firestore and back to the list on the home page.                        *)
(*                                                                         *)
(* The home page opens one RecordingViewController after another, to make  *)
(* a recording or to view a saved one.  Its stop button puts the text, the *)
(* subject and the page itself into static fields of SaveRecordingPopup-   *)
(* View and presents a popup, whose button sends the text to Firestore.    *)
(* The answer may take any time: the student can meanwhile press again,    *)
(* close the popup, leave the page and open another one.  When it comes,   *)
(* the handler asks whatever page is in the static field to go.            *)
(*                                                                         *)
(* UIKit, Firestore and their order of events are modelled from their use: *)
(* dismiss on a page that presents something takes that away, on a page    *)
(* that is gone it does nothing; loads are answered in the order they were *)
(* asked for, with the documents of some moment in between.                *)
(***************************************************************************)
EXTENDS Naturals, Sequences, FiniteSets

CONSTANTS
    MaxPages,     \* bound: recording pages opened
    MaxPopups,    \* bound: save popups presented
    MaxSaves,     \* bound: presses on a save popup's button
    MayFail       \* whether Firestore may answer with an error

ASSUME FlowAssumption ==
    /\ MaxPages \in Nat /\ MaxPopups \in Nat /\ MaxSaves \in Nat
    /\ MayFail \in BOOLEAN

VARIABLES
    open,           \* the page presented by the home page, 0 if none
    viewing,        \* the document that page shows, NoDoc if it is recording
    stopped,        \* its recording was stopped
    cover,          \* what it presents: none, popup, leaveAlert, deleteAlert
    popup,          \* the popup presented last
    pages,          \* pages opened so far
    staticPage,     \* the page in the popup's statics: textToSave, subject and
                    \* delegate are always assigned together
    saves,          \* addDocument calls not answered
    savesSent,      \* addDocument calls so far
    deletes,        \* delete calls not answered
    closings,       \* animations and asyncAfter blocks that dismiss something
    docs,           \* documents in the subject's recordings collection
    shown,          \* documents in the home page's list
    loads,          \* loads of that list not answered
    loadFailed,     \* history: one of them was answered with an error
    shouldReloadOnAppear

uiVars == <<open, viewing, stopped, cover, popup, pages, staticPage>>
cloudVars == <<docs, saves, savesSent, deletes>>
homeVars == <<shown, loads, loadFailed, shouldReloadOnAppear>>
vars == <<uiVars, cloudVars, homeVars, closings>>

Pages == 1 .. MaxPages
Popups == 1 .. MaxPopups

\* A document is known by the call that made it; its text is its page's.
Docs == [id : 1 .. MaxSaves, page : Pages]
NoDoc == [id |-> 0, page |-> 0]

Answers == {"sent", "stored", "failed"}

\* by is the save whose answer closes, 0 for the popup's own X button, whose
\* page is 0: nothing but the popup goes.
Closings == [by : 0 .. MaxSaves, popup : Popups, page : 0 .. MaxPages,
             faded : BOOLEAN]

\* A load, and what it has read.
Loads == [read : BOOLEAN, docs : SUBSET Docs]

TypeOK ==
    /\ open \in 0 .. MaxPages
    /\ viewing \in Docs \cup {NoDoc}
    /\ stopped \in BOOLEAN
    /\ cover \in {"none", "popup", "leaveAlert", "deleteAlert"}
    /\ popup \in 0 .. MaxPopups
    /\ pages \in 0 .. MaxPages
    /\ staticPage \in 0 .. MaxPages
    /\ saves \subseteq [doc : Docs, popup : Popups, answer : Answers]
    /\ savesSent \in 0 .. MaxSaves
    /\ deletes \subseteq [doc : Docs, page : Pages, answer : Answers]
    /\ closings \subseteq Closings
    /\ docs \subseteq Docs
    /\ shown \subseteq Docs
    /\ loads \in Seq(Loads)
    /\ loadFailed \in BOOLEAN
    /\ shouldReloadOnAppear \in BOOLEAN

Init ==
    /\ open = 0
    /\ viewing = NoDoc
    /\ stopped = FALSE
    /\ cover = "none"
    /\ popup = 0
    /\ pages = 0
    /\ staticPage = 0
    /\ saves = {}
    /\ savesSent = 0
    /\ deletes = {}
    /\ closings = {}
    /\ docs = {}
    /\ shown = {}
    /\ loads = <<>>
    /\ loadFailed = FALSE
    /\ shouldReloadOnAppear = FALSE

-----------------------------------------------------------------------------
(* The home page.                                                            *)

\* viewWillAppear: reloadData, if somebody asked for it.
HomeAppears(reload) ==
    /\ loads' = IF reload THEN Append(loads, [read |-> FALSE, docs |-> {}])
                          ELSE loads
    /\ shouldReloadOnAppear' = FALSE
    /\ UNCHANGED <<shown, loadFailed>>

\* UIViewController.dismiss of a page, in a step that leaves reload in the
\* home page's flag: what the page presents goes first, then the page.
DismissPage(page, reload) ==
    \/ /\ open = page
       /\ cover = "none"
       /\ open' = 0
       /\ HomeAppears(reload)
       /\ UNCHANGED cover
    \/ /\ open = page
       /\ cover # "none"
       /\ cover' = "none"
       /\ shouldReloadOnAppear' = reload
       /\ UNCHANGED <<open, shown, loads, loadFailed>>
    \/ /\ open # page
       /\ shouldReloadOnAppear' = reload
       /\ UNCHANGED <<open, cover, shown, loads, loadFailed>>

OpenPage(doc) ==
    /\ open = 0
    /\ pages < MaxPages
    /\ pages' = pages + 1
    /\ open' = pages + 1
    /\ viewing' = doc
    /\ stopped' = FALSE

\* Mutant: the popup's delegate is set when the page is opened.
PressNewRecordingAsDelegate ==
    /\ OpenPage(NoDoc)
    /\ staticPage' = pages + 1
    /\ UNCHANGED <<cover, popup, cloudVars, homeVars, closings>>

PressNewRecording ==
    /\ OpenPage(NoDoc)
    /\ UNCHANGED <<cover, popup, staticPage, cloudVars, homeVars, closings>>

SelectRecording ==
    /\ \E doc \in shown : OpenPage(doc)
    /\ UNCHANGED <<cover, popup, staticPage, cloudVars, homeVars, closings>>

-----------------------------------------------------------------------------
(* The buttons of the recording page.                                        *)

PageCoveredBy(what) ==
    /\ cover' = what
    /\ UNCHANGED <<open, viewing, pages, cloudVars, homeVars, closings>>

Recording == open # 0 /\ viewing = NoDoc
Viewing == open # 0 /\ viewing # NoDoc

PressClose ==
    /\ Recording
    /\ cover = "none"
    /\ PageCoveredBy("leaveAlert")
    /\ UNCHANGED <<stopped, popup, staticPage>>

\* Mutants: the page forgets to assign itself to the statics; the text and the
\* delegate are only assigned the first time.
PressStopRecordingUnassigned ==
    /\ Recording
    /\ cover = "none"
    /\ popup < MaxPopups
    /\ popup' = popup + 1
    /\ stopped' = TRUE
    /\ UNCHANGED staticPage
    /\ PageCoveredBy("popup")

PressStopRecordingOnce ==
    /\ Recording
    /\ cover = "none"
    /\ popup < MaxPopups
    /\ popup' = popup + 1
    /\ stopped' = TRUE
    /\ staticPage' = IF staticPage = 0 THEN open ELSE staticPage
    /\ PageCoveredBy("popup")

PressStopRecording ==
    /\ Recording
    /\ cover = "none"
    /\ popup < MaxPopups
    /\ popup' = popup + 1
    /\ stopped' = TRUE
    /\ staticPage' = open
    /\ PageCoveredBy("popup")

PressDelete ==
    /\ Viewing
    /\ cover = "none"
    /\ PageCoveredBy("deleteAlert")
    /\ UNCHANGED <<stopped, popup, staticPage>>

PressCancel ==
    /\ cover \in {"leaveAlert", "deleteAlert"}
    /\ PageCoveredBy("none")
    /\ UNCHANGED <<stopped, popup, staticPage>>

\* stopRecordingAndDismiss, which finds the alert gone.
PressLeave ==
    /\ cover = "leaveAlert"
    /\ cover' = "none"
    /\ open' = 0
    /\ stopped' = TRUE
    /\ HomeAppears(shouldReloadOnAppear)
    /\ UNCHANGED <<viewing, popup, pages, staticPage, cloudVars, closings>>

CloseViewedRecording ==
    /\ Viewing
    /\ cover = "none"
    /\ open' = 0
    /\ HomeAppears(shouldReloadOnAppear)
    /\ UNCHANGED <<viewing, stopped, cover, popup, pages, staticPage, cloudVars,
                   closings>>

\* deleteRecording, called with the page as its completion's self.
PressDeleteInAlert ==
    /\ cover = "deleteAlert"
    /\ cover' = "none"
    /\ deletes' = deletes \cup {[doc |-> viewing, page |-> open, answer |-> "sent"]}
    /\ UNCHANGED <<open, viewing, stopped, popup, pages, staticPage, docs, saves,
                   savesSent, homeVars, closings>>

-----------------------------------------------------------------------------
(* The popup.  While it fades out it takes no touches.                       *)

Touchable ==
    /\ cover = "popup"
    /\ \A closing \in closings : closing.popup = popup => closing.faded

PressDismissPopup ==
    /\ Touchable
    /\ closings' = closings \cup
           {[by |-> 0, popup |-> popup, page |-> 0, faded |-> FALSE]}
    /\ UNCHANGED <<uiVars, cloudVars, homeVars>>

\* saveNewRecording.  The button stays enabled.
PressSave ==
    /\ Touchable
    /\ savesSent < MaxSaves
    /\ savesSent' = savesSent + 1
    /\ saves' = saves \cup
           {[doc |-> [id |-> savesSent + 1, page |-> staticPage],
             popup |-> popup, answer |-> "sent"]}
    /\ UNCHANGED <<uiVars, docs, deletes, homeVars, closings>>

\* The completion of dismissPopup's animation.
PopupFaded ==
    /\ \E closing \in {c \in closings : ~c.faded} :
          /\ cover' = IF cover = "popup" /\ popup = closing.popup
                      THEN "none" ELSE cover
          /\ closings' = (closings \ {closing}) \cup
                 {c \in {[closing EXCEPT !.faded = TRUE]} : c.page # 0}
    /\ UNCHANGED <<open, viewing, stopped, popup, pages, staticPage, cloudVars,
                   homeVars>>

\* The block willDismissPopup left on the main queue, 0.5 s after the answer;
\* the animation started with it took 0.2 s.
PageDismissalDue ==
    /\ \E closing \in {c \in closings : c.faded} :
          /\ DismissPage(closing.page, shouldReloadOnAppear)
          /\ closings' = closings \ {closing}
    /\ UNCHANGED <<viewing, stopped, popup, pages, staticPage, cloudVars>>

-----------------------------------------------------------------------------
(* Firestore.                                                                *)

StoreSave ==
    /\ \E save \in {s \in saves : s.answer = "sent"} :
          \/ /\ docs' = docs \cup {save.doc}
             /\ saves' = (saves \ {save}) \cup {[save EXCEPT !.answer = "stored"]}
          \/ /\ MayFail
             /\ saves' = (saves \ {save}) \cup {[save EXCEPT !.answer = "failed"]}
             /\ UNCHANGED docs
    /\ UNCHANGED <<uiVars, savesSent, deletes, homeVars, closings>>

StoreDelete ==
    /\ \E delete \in {d \in deletes : d.answer = "sent"} :
          \/ /\ docs' = docs \ {delete.doc}
             /\ deletes' = (deletes \ {delete})
                             \cup {[delete EXCEPT !.answer = "stored"]}
          \/ /\ MayFail
             /\ deletes' = (deletes \ {delete})
                             \cup {[delete EXCEPT !.answer = "failed"]}
             /\ UNCHANGED docs
    /\ UNCHANGED <<uiVars, saves, savesSent, homeVars, closings>>

\* Mutants: a failed save leaves the popup open; the answer only closes it.
SaveAnsweredIfStored ==
    /\ \E save \in {s \in saves : s.answer # "sent"} :
          /\ saves' = saves \ {save}
          /\ closings' = closings \cup
                 {c \in {[by |-> save.doc.id, popup |-> save.popup,
                          page |-> staticPage, faded |-> FALSE]} :
                    save.answer = "stored"}
    /\ shouldReloadOnAppear' = TRUE
    /\ UNCHANGED <<uiVars, docs, savesSent, deletes, shown, loads, loadFailed>>

SaveAnsweredQuietly ==
    /\ \E save \in {s \in saves : s.answer # "sent"} :
          /\ saves' = saves \ {save}
          /\ closings' = closings \cup
                 {[by |-> save.doc.id, popup |-> save.popup,
                   page |-> staticPage, faded |-> FALSE]}
    /\ UNCHANGED <<uiVars, docs, savesSent, deletes, homeVars>>

\* addDocument's completion: success whether there was an error or not.
\* willDismissPopup goes to the delegate of this moment, dismissPopup to the
\* popup that was pressed.
SaveAnswered ==
    /\ \E save \in {s \in saves : s.answer # "sent"} :
          /\ saves' = saves \ {save}
          /\ closings' = closings \cup
                 {[by |-> save.doc.id, popup |-> save.popup,
                   page |-> staticPage, faded |-> FALSE]}
    /\ shouldReloadOnAppear' = TRUE
    /\ UNCHANGED <<uiVars, docs, savesSent, deletes, shown, loads, loadFailed>>

DeleteAnswered ==
    /\ \E delete \in {d \in deletes : d.answer # "sent"} :
          /\ deletes' = deletes \ {delete}
          /\ DismissPage(delete.page, TRUE)
    /\ UNCHANGED <<viewing, stopped, popup, pages, staticPage, docs, saves,
                   savesSent, closings>>

\* getDocuments, in the order of the calls.
ReadLoad ==
    /\ \E i \in DOMAIN loads :
          /\ ~loads[i].read
          /\ \A j \in 1 .. i - 1 : loads[j].read
          /\ loads' = [loads EXCEPT ![i] = [read |-> TRUE, docs |-> docs]]
    /\ UNCHANGED <<uiVars, cloudVars, shown, loadFailed, shouldReloadOnAppear,
                   closings>>

\* reloadData's completion, which an error never reaches.
LoadAnswered ==
    /\ loads # <<>>
    /\ Head(loads).read
    /\ loads' = Tail(loads)
    /\ \/ shown' = Head(loads).docs /\ UNCHANGED loadFailed
       \/ MayFail /\ loadFailed' = TRUE /\ UNCHANGED shown
    /\ UNCHANGED <<uiVars, cloudVars, shouldReloadOnAppear, closings>>

-----------------------------------------------------------------------------
UserStep ==
    \/ PressNewRecording \/ SelectRecording
    \/ PressClose \/ PressStopRecording \/ PressDelete
    \/ PressCancel \/ PressLeave \/ CloseViewedRecording \/ PressDeleteInAlert
    \/ PressDismissPopup \/ PressSave

DeviceStep == PopupFaded \/ PageDismissalDue

CloudStep ==
    \/ StoreSave \/ StoreDelete
    \/ SaveAnswered \/ DeleteAnswered
    \/ ReadLoad \/ LoadAnswered

Next == UserStep \/ DeviceStep \/ CloudStep

Spec == Init /\ [][Next]_vars

\* Animations end, blocks run, and Firestore answers what it was asked (it keeps
\* a write until it is online); the student may do nothing.
Fairness ==
    /\ WF_vars(PopupFaded)
    /\ WF_vars(PageDismissalDue)
    /\ WF_vars(StoreSave) /\ WF_vars(SaveAnswered)
    /\ WF_vars(StoreDelete) /\ WF_vars(DeleteAnswered)
    /\ WF_vars(ReadLoad) /\ WF_vars(LoadAnswered)

FairSpec == Spec /\ Fairness

PressedPopup(id) == \E save \in saves : save.popup = id
FadingPopup(id) == \E closing \in closings : closing.popup = id /\ ~closing.faded

\* What the fairness of Firestore and of the animations comes to for a popup: its
\* calls are answered at some time, and its fading ends.
AnswersCome ==
    \A id \in Popups :
       /\ PressedPopup(id) ~> ~PressedPopup(id)
       /\ FadingPopup(id) ~> ~FadingPopup(id)

-----------------------------------------------------------------------------
\* A popup on the screen belongs to the page it covers and will save that
\* page's text (the statics are shared by all pages and survive them).
StaticsMatchPopup == cover = "popup" => staticPage = open

\* A recording that is going on is never taken off the screen except by its
\* student, however late an older recording's answers and dismissals come.
RecordingNotInterrupted ==
    [][(Recording /\ ~stopped /\ open' # open) => cover = "leaveAlert"]_vars

\* What the home page's list has wrong, somebody is going to put right: a load
\* is under way, the next appearance will start one, or the answer that asks
\* for it is still to come.  Only a load that fails leaves a wrong list behind.
StaleListIsNoticed ==
    \A doc \in (docs \ shown) \cup (shown \ docs) :
       \/ loadFailed
       \/ shouldReloadOnAppear
       \/ loads # <<>>
       \/ \E save \in saves : save.doc = doc
       \/ \E delete \in deletes : delete.doc = doc

\* A popup whose button was pressed goes away without another touch.
PressedPopupCloses ==
    \A id \in Popups :
       (\E save \in saves : save.popup = id) ~> ~(cover = "popup" /\ popup = id)

\* A recording only goes away unsaved after the warning "This recording will not
\* be saved.  Are you sure you want to leave?" (RecordingViewController.swift:271).
\* The code dismisses the page also after a failed save, and after the answer to
\* another page's save.
UnsavedOnlyAfterWarning ==
    [][(Recording /\ open' # open /\ cover # "leaveAlert")
          => \E doc \in docs : doc.page = open]_vars
===============================================================================
