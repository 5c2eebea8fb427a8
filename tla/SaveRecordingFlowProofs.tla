------------------------ MODULE SaveRecordingFlowProofs ------------------------
(***************************************************************************)
(* Theorems about SaveRecordingFlow, for any number of pages, popups and   *)
(* saves, with and without errors.                                         *)
(***************************************************************************)
EXTENDS SaveRecordingFlow, SequenceTheorems, TLAPS

-----------------------------------------------------------------------------
(* Which page is whose.  Pages are numbered as they are opened, so that what *)
(* an old page has left behind (the statics, closings, deletes) never names  *)
(* a page that is opened later.                                              *)

\* A page that somebody may dismiss: not a recording that is going on.
NotRunning(page) == page # open \/ viewing # NoDoc \/ stopped

PagesInv ==
    /\ pages \in Nat
    /\ open \in 0 .. pages
    /\ staticPage \in 0 .. pages
    /\ open = 0 => cover = "none"
    /\ StaticsMatchPopup
    /\ open # 0 => NotRunning(staticPage)
    /\ \A closing \in closings :
          /\ closing.page \in 0 .. pages
          /\ open # 0 => NotRunning(closing.page)
    /\ cover = "deleteAlert" => viewing # NoDoc
    /\ \A delete \in deletes :
          /\ delete.page \in 1 .. pages
          /\ open # 0 => NotRunning(delete.page)

LEMMA InitPagesInv == Init => PagesInv
  BY DEF Init, PagesInv, StaticsMatchPopup, NotRunning

\* What is presented goes, or the page, and nothing comes.
LEMMA DismissalKeepsPages ==
  ASSUME PagesInv, NEW page, NEW reload, DismissPage(page, reload),
         UNCHANGED <<viewing, stopped, pages, staticPage>>,
         closings' \subseteq closings, deletes' \subseteq deletes
  PROVE  PagesInv'
  BY DEF PagesInv, DismissPage, HomeAppears, StaticsMatchPopup, NotRunning

LEMMA NextPagesInv == PagesInv /\ [Next]_vars => PagesInv'
  <1> SUFFICES ASSUME PagesInv, [Next]_vars PROVE PagesInv'
    OBVIOUS
  <1> USE DEF PagesInv, StaticsMatchPopup, NotRunning, uiVars, cloudVars, homeVars
  <1>1. CASE PressNewRecording \/ SelectRecording
    BY <1>1 DEF PressNewRecording, SelectRecording, OpenPage
  <1>2. CASE PressClose \/ PressStopRecording \/ PressDelete \/ PressCancel
    BY <1>2 DEF PressClose, PressStopRecording, PressDelete, PressCancel,
                PageCoveredBy, Recording, Viewing
  <1>3. CASE PressLeave \/ CloseViewedRecording
    BY <1>3 DEF PressLeave, CloseViewedRecording
  <1>4. CASE PressDeleteInAlert
    BY <1>4 DEF PressDeleteInAlert
  <1>5. CASE PressDismissPopup
    BY <1>5 DEF PressDismissPopup
  <1>6. CASE PressSave \/ StoreSave \/ ReadLoad \/ LoadAnswered \/ UNCHANGED vars
    BY <1>6 DEF PressSave, StoreSave, ReadLoad, LoadAnswered, vars
  <1>7. CASE PopupFaded
    <2>1. PICK closing \in closings :
             /\ cover' \in {cover, "none"}
             /\ closings' \subseteq closings \cup {[closing EXCEPT !.faded = TRUE]}
      BY <1>7 DEF PopupFaded
    <2>2. [closing EXCEPT !.faded = TRUE].page = closing.page
      OBVIOUS
    <2>3. QED BY <1>7, <2>1, <2>2 DEF PopupFaded
  <1>8. CASE PageDismissalDue
    BY <1>8, DismissalKeepsPages DEF PageDismissalDue
  <1>9. CASE StoreDelete
    <2>1. PICK delete \in deletes :
             \E answer \in {"stored", "failed"} :
                deletes' = (deletes \ {delete})
                              \cup {[delete EXCEPT !.answer = answer]}
      BY <1>9 DEF StoreDelete
    <2>2. \A answer : [delete EXCEPT !.answer = answer].page = delete.page
      OBVIOUS
    <2>3. QED BY <1>9, <2>1, <2>2 DEF StoreDelete
  <1>10. CASE SaveAnswered
    BY <1>10 DEF SaveAnswered
  <1>11. CASE DeleteAnswered
    BY <1>11, DismissalKeepsPages DEF DeleteAnswered
  <1>12. QED
    BY <1>1, <1>2, <1>3, <1>4, <1>5, <1>6, <1>7, <1>8, <1>9, <1>10, <1>11
       DEF Next, UserStep, DeviceStep, CloudStep

\* Nobody who may still dismiss a page names the one that is recording.
THEOREM PagesInvariance == Spec => []PagesInv
  BY InitPagesInv, NextPagesInv, PTL DEF Spec

\* A popup on the screen saves the page it covers, however many pages there were.
THEOREM StaticsMatchPopupHolds == Spec => []StaticsMatchPopup
  <1>1. PagesInv => StaticsMatchPopup
    BY DEF PagesInv
  <1>2. QED BY <1>1, PagesInvariance, PTL

\* No late answer and no delayed dismissal takes a running recording away.
THEOREM RecordingNotInterruptedHolds == Spec => RecordingNotInterrupted
  <1> DEFINE Kept == Recording /\ ~stopped /\ open' # open => cover = "leaveAlert"
  <1>1. PagesInv /\ [Next]_vars => [Kept]_vars
    <2> SUFFICES ASSUME PagesInv, Next PROVE Kept
      BY DEF vars
    <2> USE DEF PagesInv, NotRunning, Recording, uiVars, cloudVars, homeVars
    <2>1. CASE PageDismissalDue \/ DeleteAnswered
      BY <2>1 DEF PageDismissalDue, DeleteAnswered, DismissPage
    <2>2. CASE PressLeave \/ CloseViewedRecording
      BY <2>2 DEF PressLeave, CloseViewedRecording, Viewing
    <2>3. CASE PressNewRecording \/ SelectRecording
      BY <2>3 DEF PressNewRecording, SelectRecording, OpenPage
    <2>4. CASE open' = open
      BY <2>4
    <2>5. QED
      BY <2>1, <2>2, <2>3, <2>4
         DEF Next, UserStep, DeviceStep, CloudStep, PressClose, PressStopRecording,
             PressDelete, PressCancel, PageCoveredBy, PressDeleteInAlert,
             PressDismissPopup, PressSave, PopupFaded, StoreSave, StoreDelete,
             SaveAnswered, ReadLoad, LoadAnswered
  <1>2. QED BY <1>1, PagesInvariance, PTL DEF Spec, RecordingNotInterrupted

-----------------------------------------------------------------------------
(* Types.  What a save or a delete carries is a real page and a real popup   *)
(* because only an open page presents one.                                   *)

Flags ==
    /\ stopped \in BOOLEAN
    /\ loadFailed \in BOOLEAN
    /\ shouldReloadOnAppear \in BOOLEAN

Values ==
    /\ open \in 0 .. MaxPages
    /\ viewing \in Docs \cup {NoDoc}
    /\ cover \in {"none", "popup", "leaveAlert", "deleteAlert"}
    /\ popup \in 0 .. MaxPopups
    /\ cover = "popup" => popup # 0
    /\ pages \in 0 .. MaxPages
    /\ staticPage \in 0 .. MaxPages
    /\ saves \subseteq [doc : Docs, popup : Popups, answer : Answers]
    /\ savesSent \in 0 .. MaxSaves
    /\ deletes \subseteq [doc : Docs, page : Pages, answer : Answers]
    /\ closings \subseteq Closings
    /\ docs \subseteq Docs
    /\ shown \subseteq Docs
    /\ loads \in Seq(Loads)

TypeInv == Flags /\ Values /\ PagesInv

LEMMA LoadsStaySequences ==
  ASSUME loads \in Seq(Loads)
  PROVE  /\ <<>> \in Seq(Loads)
         /\ Append(loads, [read |-> FALSE, docs |-> {}]) \in Seq(Loads)
         /\ loads # <<>> =>
              /\ Head(loads) \in Loads
              /\ Tail(loads) \in Seq(Loads)
              /\ Len(Tail(loads)) = Len(loads) - 1
              /\ Len(loads) \in Nat \ {0}
              /\ Len(loads) # 1 => Tail(loads)[Len(loads) - 1] = loads[Len(loads)]
  <1>1. [read |-> FALSE, docs |-> {}] \in Loads
    BY DEF Loads
  <1>2. Append(loads, [read |-> FALSE, docs |-> {}]) \in Seq(Loads)
    BY <1>1, AppendProperties
  <1>3. ASSUME loads # <<>>
        PROVE  /\ Head(loads) \in Loads
               /\ Tail(loads) \in Seq(Loads)
               /\ Len(Tail(loads)) = Len(loads) - 1
               /\ Len(loads) \in Nat \ {0}
               /\ Len(loads) # 1 => Tail(loads)[Len(loads) - 1] = loads[Len(loads)]
    <2>1. /\ Head(loads) \in Loads
          /\ Tail(loads) \in Seq(Loads)
          /\ Len(Tail(loads)) = Len(loads) - 1
          /\ \A i \in 1 .. Len(Tail(loads)) : Tail(loads)[i] = loads[i + 1]
      BY <1>3, HeadTailProperties
    <2>2. Len(loads) \in Nat \ {0}
      BY <1>3, EmptySeq
    <2>3. ASSUME Len(loads) # 1
          PROVE  Tail(loads)[Len(loads) - 1] = loads[Len(loads)]
      <3>1. Len(loads) - 1 \in 1 .. Len(Tail(loads))
        BY <2>1, <2>2, <2>3
      <3>2. (Len(loads) - 1) + 1 = Len(loads)
        BY <2>2
      <3>3. QED BY <2>1, <3>1, <3>2
    <2>4. QED BY <2>1, <2>2, <2>3
  <1>4. QED BY <1>2, <1>3, EmptySeq

LEMMA InitTypeInv == Init => TypeInv
  <1>1. Init => Flags
    BY DEF Init, Flags
  <1>2. Init => Values
    BY FlowAssumption DEF Init, Values
  <1>3. QED
    BY <1>1, <1>2, InitPagesInv DEF TypeInv

LEMMA DismissalKeepsTypes ==
  ASSUME Values, NEW page, NEW reload, DismissPage(page, reload)
  PROVE  /\ open' \in {open, 0}
         /\ cover' \in {cover, "none"}
         /\ shown' = shown
         /\ loads' \in Seq(Loads)
  BY LoadsStaySequences DEF DismissPage, HomeAppears, Values

LEMMA NextFlags == Flags /\ [Next]_vars => Flags'
  <1> SUFFICES ASSUME Flags, [Next]_vars PROVE Flags'
    OBVIOUS
  <1> USE DEF Flags
  <1>1. CASE UserStep
    BY <1>1 DEF UserStep, PressNewRecording, SelectRecording, OpenPage, PressClose,
         PressStopRecording, PressDelete, PressCancel, PageCoveredBy, PressLeave,
         CloseViewedRecording, HomeAppears, PressDeleteInAlert, PressDismissPopup,
         PressSave, uiVars, homeVars
  <1>2. CASE DeviceStep
    BY <1>2 DEF DeviceStep, PopupFaded, PageDismissalDue, DismissPage, HomeAppears,
         homeVars
  <1>3. CASE CloudStep
    BY <1>3 DEF CloudStep, StoreSave, StoreDelete, SaveAnswered, DeleteAnswered,
         DismissPage, HomeAppears, ReadLoad, LoadAnswered, uiVars, homeVars
  <1>4. CASE UNCHANGED vars
    BY <1>4 DEF vars, uiVars, homeVars
  <1>5. QED BY <1>1, <1>2, <1>3, <1>4 DEF Next

LEMMA NextTypeInv == TypeInv /\ [Next]_vars => TypeInv'
  <1> SUFFICES ASSUME TypeInv, [Next]_vars PROVE TypeInv'
    OBVIOUS
  <1>p. Flags' /\ PagesInv /\ PagesInv'
    BY NextFlags, NextPagesInv DEF TypeInv
  <1> SUFFICES Values'
    BY <1>p DEF TypeInv
  <1>v. Values
    BY DEF TypeInv
  <1>f. MaxPages \in Nat /\ MaxPopups \in Nat /\ MaxSaves \in Nat
    BY FlowAssumption
  <1> USE <1>f, <1>v DEF Values, uiVars, cloudVars, homeVars
  <1>1. CASE PressNewRecording \/ SelectRecording
    <2>1. /\ pages' = pages + 1 /\ open' = pages + 1 /\ pages < MaxPages
          /\ viewing' \in shown \cup {NoDoc}
          /\ UNCHANGED <<cover, popup, staticPage, cloudVars, homeVars, closings>>
      BY <1>1 DEF PressNewRecording, SelectRecording, OpenPage
    <2>2. QED BY <2>1
  <1>2. CASE PressClose \/ PressStopRecording \/ PressDelete \/ PressCancel
    <2>1. /\ cover' \in {"none", "popup", "leaveAlert", "deleteAlert"}
          /\ UNCHANGED <<open, viewing, pages, cloudVars, homeVars, closings>>
      BY <1>2 DEF PressClose, PressStopRecording, PressDelete, PressCancel,
                  PageCoveredBy
    <2>2. /\ staticPage' \in {staticPage, open}
          /\ popup' = popup \/ (popup < MaxPopups /\ popup' = popup + 1)
          /\ cover' = "popup" => popup' = popup + 1
      BY <1>2 DEF PressClose, PressStopRecording, PressDelete, PressCancel,
                  PageCoveredBy
    <2>3. QED BY <2>1, <2>2
  <1>3. CASE PressLeave \/ CloseViewedRecording
    <2>1. /\ HomeAppears(shouldReloadOnAppear)
          /\ open' = 0 /\ cover' = "none" /\ shown' = shown
      BY <1>3 DEF PressLeave, CloseViewedRecording, HomeAppears
    <2>2. loads' \in Seq(Loads)
      BY <2>1, LoadsStaySequences DEF HomeAppears
    <2>3. UNCHANGED <<viewing, popup, pages, staticPage, cloudVars, closings>>
      BY <1>3 DEF PressLeave, CloseViewedRecording
    <2>4. QED BY <2>1, <2>2, <2>3
  <1>4. CASE PressDeleteInAlert
    <2>1. open \in Pages /\ viewing \in Docs
      BY <1>4, <1>p DEF PressDeleteInAlert, PagesInv, Pages
    <2>2. QED BY <1>4, <2>1 DEF PressDeleteInAlert, Answers
  <1>5. CASE PressDismissPopup
    <2>1. popup \in Popups
      BY <1>5 DEF PressDismissPopup, Touchable, Popups
    <2>2. [by |-> 0, popup |-> popup, page |-> 0, faded |-> FALSE] \in Closings
      BY <2>1 DEF Closings
    <2>3. QED BY <1>5, <2>2 DEF PressDismissPopup
  <1>6. CASE PressSave
    <2>1. staticPage \in Pages /\ popup \in Popups
      BY <1>6, <1>p DEF PressSave, Touchable, PagesInv, StaticsMatchPopup, Pages, Popups
    <2>2. [id |-> savesSent + 1, page |-> staticPage] \in Docs
      BY <1>6, <2>1 DEF PressSave, Docs
    <2>3. QED BY <1>6, <2>1, <2>2 DEF PressSave, Answers
  <1>7. CASE PopupFaded
    <2>1. PICK closing \in closings :
             /\ cover' \in {cover, "none"}
             /\ closings' \subseteq closings \cup {[closing EXCEPT !.faded = TRUE]}
      BY <1>7 DEF PopupFaded
    <2>2. [closing EXCEPT !.faded = TRUE] \in Closings
      BY DEF Closings
    <2>3. QED BY <1>7, <2>1, <2>2 DEF PopupFaded
  <1>8. CASE PageDismissalDue
    <2>1. PICK closing \in closings :
             /\ DismissPage(closing.page, shouldReloadOnAppear)
             /\ closings' = closings \ {closing}
      BY <1>8 DEF PageDismissalDue
    <2>2. QED
      BY <1>8, <2>1, DismissalKeepsTypes DEF PageDismissalDue
  <1>9. CASE StoreSave
    <2>1. PICK save \in saves :
             \E answer \in {"stored", "failed"} :
                /\ docs' \subseteq docs \cup {save.doc}
                /\ saves' = (saves \ {save}) \cup {[save EXCEPT !.answer = answer]}
      BY <1>9 DEF StoreSave
    <2>2. /\ save.doc \in Docs
          /\ \A answer \in Answers : [save EXCEPT !.answer = answer]
                                        \in [doc : Docs, popup : Popups, answer : Answers]
      OBVIOUS
    <2>3. QED BY <1>9, <2>1, <2>2 DEF StoreSave, Answers
  <1>10. CASE StoreDelete
    <2>1. PICK delete \in deletes :
             \E answer \in {"stored", "failed"} :
                /\ docs' \subseteq docs
                /\ deletes' = (deletes \ {delete})
                                 \cup {[delete EXCEPT !.answer = answer]}
      BY <1>10 DEF StoreDelete
    <2>2. \A answer \in Answers : [delete EXCEPT !.answer = answer]
                                        \in [doc : Docs, page : Pages, answer : Answers]
      OBVIOUS
    <2>3. QED BY <1>10, <2>1, <2>2 DEF StoreDelete, Answers
  <1>11. CASE SaveAnswered
    <2>1. PICK save \in saves :
             /\ saves' = saves \ {save}
             /\ closings' = closings \cup
                   {[by |-> save.doc.id, popup |-> save.popup,
                     page |-> staticPage, faded |-> FALSE]}
      BY <1>11 DEF SaveAnswered
    <2>2. save.doc.id \in 0 .. MaxSaves /\ save.popup \in Popups
      BY DEF Docs
    <2>3. [by |-> save.doc.id, popup |-> save.popup, page |-> staticPage,
           faded |-> FALSE] \in Closings
      BY <2>2 DEF Closings
    <2>4. UNCHANGED <<uiVars, docs, savesSent, deletes, shown, loads>>
      BY <1>11 DEF SaveAnswered
    <2>5. QED BY <2>1, <2>3, <2>4
  <1>12. CASE DeleteAnswered
    <2>1. PICK delete \in deletes :
             /\ deletes' = deletes \ {delete}
             /\ DismissPage(delete.page, TRUE)
      BY <1>12 DEF DeleteAnswered
    <2>2. /\ open' \in {open, 0} /\ cover' \in {cover, "none"}
          /\ shown' = shown /\ loads' \in Seq(Loads)
      BY <2>1, DismissalKeepsTypes
    <2>3. UNCHANGED <<viewing, popup, pages, staticPage, docs, saves, savesSent,
                      closings>>
      BY <1>12 DEF DeleteAnswered
    <2>4. QED BY <2>1, <2>2, <2>3
  <1>13. CASE ReadLoad
    <2>1. PICK i \in DOMAIN loads :
             loads' = [loads EXCEPT ![i] = [read |-> TRUE, docs |-> docs]]
      BY <1>13 DEF ReadLoad
    <2>2. [read |-> TRUE, docs |-> docs] \in Loads
      BY DEF Loads
    <2>3. loads' \in Seq(Loads)
      BY <2>1, <2>2, ExceptSeq, LenProperties
    <2>4. UNCHANGED <<uiVars, cloudVars, shown, closings>>
      BY <1>13 DEF ReadLoad
    <2>5. QED BY <2>3, <2>4
  <1>14. CASE LoadAnswered
    <2>1. Head(loads) \in Loads /\ loads' \in Seq(Loads)
      BY <1>14, LoadsStaySequences DEF LoadAnswered
    <2>2. shown' \in {shown, Head(loads).docs}
      BY <1>14 DEF LoadAnswered
    <2>3. UNCHANGED <<uiVars, cloudVars, closings>>
      BY <1>14 DEF LoadAnswered
    <2>4. QED BY <2>1, <2>2, <2>3 DEF Loads
  <1>15. CASE UNCHANGED vars
    BY <1>15 DEF vars
  <1>16. QED
    BY <1>1, <1>2, <1>3, <1>4, <1>5, <1>6, <1>7, <1>8, <1>9, <1>10, <1>11, <1>12,
       <1>13, <1>14, <1>15
       DEF Next, UserStep, DeviceStep, CloudStep

\* Types, with what the popup that is shown adds to them.
THEOREM TypeInvariance == Spec => []TypeInv
  BY InitTypeInv, NextTypeInv, PTL DEF Spec

\* Every save, delete and closing names a page and a popup that were there.
THEOREM TypeOKHolds == Spec => []TypeOK
  <1>1. Flags /\ Values => TypeOK
    BY Zenon DEF Flags, Values, TypeOK
  <1>2. QED BY <1>1, TypeInvariance, PTL DEF TypeInv

-----------------------------------------------------------------------------
(* The home page's list.  The load that was asked for last decides what the  *)
(* list will be, and once it is read, it is that answer that may be wrong.   *)

Noticed(doc) ==
    \/ loadFailed
    \/ shouldReloadOnAppear
    \/ \E save \in saves : save.doc = doc
    \/ \E delete \in deletes : delete.doc = doc

\* What the list will hold once every load that was asked for is answered.
WillShow == IF loads = <<>> THEN shown ELSE loads[Len(loads)].docs

ListInv ==
    (loads = <<>> \/ loads[Len(loads)].read)
       => \A doc \in (docs \ WillShow) \cup (WillShow \ docs) : Noticed(doc)

LEMMA InitListInv == Init => ListInv
  BY DEF Init, ListInv, WillShow

\* A step that leaves the list and the loads alone, and forgets nothing that
\* was noticed.
LEMMA ListUntouched ==
  ASSUME ListInv, UNCHANGED <<shown, loads>>,
         \A doc : Noticed(doc) => Noticed(doc)',
         \A doc \in (docs \ docs') \cup (docs' \ docs) : Noticed(doc)'
  PROVE  ListInv'
  BY DEF ListInv, WillShow

\* The home page appears: either it loads, or nobody had asked it to.
LEMMA AppearingKeepsList ==
  ASSUME TypeInv, ListInv, NEW reload \in BOOLEAN, HomeAppears(reload),
         UNCHANGED <<docs, saves>>,
         reload \/ (~shouldReloadOnAppear /\ UNCHANGED deletes)
  PROVE  ListInv'
  <1>1. CASE reload
    <2>1. loads' # <<>> /\ ~loads'[Len(loads')].read
      BY <1>1 DEF HomeAppears, TypeInv, Flags, Values
    <2>2. QED BY <2>1 DEF ListInv
  <1>2. CASE ~reload
    BY <1>2 DEF HomeAppears, ListInv, WillShow, Noticed
  <1>3. QED BY <1>1, <1>2

LEMMA DismissalKeepsList ==
  ASSUME TypeInv, ListInv, NEW page, NEW reload \in BOOLEAN,
         DismissPage(page, reload), UNCHANGED <<docs, saves>>,
         reload \/ (~shouldReloadOnAppear /\ UNCHANGED deletes)
  PROVE  ListInv'
  <1>1. CASE HomeAppears(reload)
    BY <1>1, AppearingKeepsList
  <1>2. CASE /\ shouldReloadOnAppear' = reload
             /\ UNCHANGED <<shown, loads, loadFailed>>
    BY <1>2 DEF ListInv, WillShow, Noticed
  <1>3. QED BY <1>1, <1>2 DEF DismissPage

LEMMA NextListInv == TypeInv /\ ListInv /\ [Next]_vars => ListInv'
  <1> SUFFICES ASSUME TypeInv, ListInv, [Next]_vars PROVE ListInv'
    OBVIOUS
  <1>t. /\ shouldReloadOnAppear \in BOOLEAN
        /\ loads \in Seq(Loads)
    BY DEF TypeInv, Flags, Values
  <1>1. CASE UNCHANGED <<docs, saves, deletes, homeVars>>
    BY <1>1, ListUntouched DEF homeVars, Noticed
  <1>2. CASE PressLeave \/ CloseViewedRecording
    BY <1>2, <1>t, AppearingKeepsList
       DEF PressLeave, CloseViewedRecording, cloudVars
  <1>3. CASE PressDeleteInAlert \/ PressSave
    <2>1. docs' = docs /\ saves \subseteq saves' /\ deletes \subseteq deletes'
      BY <1>3 DEF PressDeleteInAlert, PressSave
    <2>2. UNCHANGED homeVars
      BY <1>3 DEF PressDeleteInAlert, PressSave
    <2>3. QED BY <2>1, <2>2, ListUntouched DEF homeVars, Noticed
  <1>4. CASE PageDismissalDue
    BY <1>4, <1>t, DismissalKeepsList DEF PageDismissalDue, cloudVars
  <1>5. CASE StoreSave
    <2>1. PICK save \in saves :
             \E answer \in {"stored", "failed"} :
                /\ docs' \in {docs, docs \cup {save.doc}}
                /\ saves' = (saves \ {save}) \cup {[save EXCEPT !.answer = answer]}
      BY <1>5 DEF StoreSave
    <2>2. \A answer : [save EXCEPT !.answer = answer].doc = save.doc
      BY DEF TypeInv, Flags, Values
    <2>3. \A doc : (\E s \in saves : s.doc = doc) => (\E s \in saves' : s.doc = doc)
      BY <2>1, <2>2
    <2>4. UNCHANGED <<deletes, homeVars>>
      BY <1>5 DEF StoreSave
    <2>5. \A doc \in (docs \ docs') \cup (docs' \ docs) : doc = save.doc
      BY <2>1
    <2>6. QED BY <2>3, <2>4, <2>5, ListUntouched DEF homeVars, Noticed
  <1>6. CASE StoreDelete
    <2>1. PICK delete \in deletes :
             \E answer \in {"stored", "failed"} :
                /\ docs' \in {docs, docs \ {delete.doc}}
                /\ deletes' = (deletes \ {delete})
                                 \cup {[delete EXCEPT !.answer = answer]}
      BY <1>6 DEF StoreDelete
    <2>2. \A answer : [delete EXCEPT !.answer = answer].doc = delete.doc
      BY DEF TypeInv, Flags, Values
    <2>3. \A doc : (\E d \in deletes : d.doc = doc) => (\E d \in deletes' : d.doc = doc)
      BY <2>1, <2>2
    <2>4. UNCHANGED <<saves, homeVars>>
      BY <1>6 DEF StoreDelete
    <2>5. \A doc \in (docs \ docs') \cup (docs' \ docs) : doc = delete.doc
      BY <2>1
    <2>6. QED BY <2>3, <2>4, <2>5, ListUntouched DEF homeVars, Noticed
  <1>7. CASE SaveAnswered
    BY <1>7 DEF SaveAnswered, ListInv, Noticed
  <1>8. CASE DeleteAnswered
    BY <1>8, DismissalKeepsList DEF DeleteAnswered
  <1>9. CASE ReadLoad
    <2>1. PICK i \in DOMAIN loads :
             loads' = [loads EXCEPT ![i] = [read |-> TRUE, docs |-> docs]]
      BY <1>9 DEF ReadLoad
    <2>2. UNCHANGED <<docs, saves, deletes, shown, loadFailed, shouldReloadOnAppear>>
      BY <1>9 DEF ReadLoad, cloudVars
    <2>3. Len(loads') = Len(loads) /\ loads' # <<>> /\ loads # <<>>
      BY <1>t, <2>1
    <2>4. CASE i = Len(loads)
      BY <1>t, <2>1, <2>2, <2>3, <2>4 DEF ListInv, WillShow
    <2>5. CASE i # Len(loads)
      <3>1. loads'[Len(loads')] = loads[Len(loads)]
        BY <1>t, <2>1, <2>3, <2>5
      <3>2. QED BY <2>2, <2>3, <3>1 DEF ListInv, WillShow, Noticed
    <2>6. QED BY <2>4, <2>5
  <1>10. CASE LoadAnswered
    <2>1. CASE Len(loads) = 1
      BY <1>t, <1>10, <2>1 DEF LoadAnswered, ListInv, WillShow, Noticed, cloudVars
    <2>2. CASE Len(loads) # 1
      <3>1. loads' # <<>> /\ loads'[Len(loads')] = loads[Len(loads)]
        <4>1. loads' = Tail(loads) /\ loads # <<>>
          BY <1>10 DEF LoadAnswered
        <4>2. /\ loads' \in Seq(Loads)
              /\ Len(loads') = Len(loads) - 1
              /\ Len(loads) \in Nat \ {0}
              /\ loads'[Len(loads) - 1] = loads[Len(loads)]
          BY <1>t, <2>2, <4>1, LoadsStaySequences
        <4>3. Len(loads') # 0
          BY <2>2, <4>2
        <4>4. QED BY <4>2, <4>3, EmptySeq
      <3>2. \A doc : Noticed(doc) => Noticed(doc)'
        BY <1>10 DEF LoadAnswered, Noticed, cloudVars
      <3>3. QED
        BY <1>10, <3>1, <3>2 DEF LoadAnswered, ListInv, WillShow, cloudVars
    <2>3. QED BY <2>1, <2>2
  <1>11. QED
    BY <1>1, <1>2, <1>3, <1>4, <1>5, <1>6, <1>7, <1>8, <1>9, <1>10
       DEF Next, UserStep, DeviceStep, CloudStep, vars, uiVars, cloudVars,
           PressNewRecording, SelectRecording, PressClose, PressStopRecording,
           PressDelete, PressCancel, PageCoveredBy, PressDismissPopup, PopupFaded

\* A wrong list on the home page is always somebody's to put right, unless a
\* load of it failed: no order of answers, dismissals and loads drops the flag.
THEOREM StaleListIsNoticedHolds == Spec => []StaleListIsNoticed
  <1>1. Init => TypeInv /\ ListInv
    BY InitTypeInv, InitListInv
  <1>2. TypeInv /\ ListInv /\ [Next]_vars => (TypeInv /\ ListInv)'
    BY NextTypeInv, NextListInv
  <1>3. TypeInv /\ ListInv => StaleListIsNoticed
    BY DEF ListInv, WillShow, Noticed, StaleListIsNoticed
  <1>4. QED BY <1>1, <1>2, <1>3, PTL DEF Spec

-----------------------------------------------------------------------------
(* A popup that was pressed goes, if every call is answered and every        *)
(* animation ends, in whatever order.                                        *)

PopupShown(id) == cover = "popup" /\ popup = id

\* A save is only forgotten when it has begun to close its popup.
LEMMA PressedPopupStep ==
  ASSUME NEW id \in Popups, TypeInv, PressedPopup(id), [Next]_vars
  PROVE  PressedPopup(id)' \/ FadingPopup(id)'
  <1>1. PICK save \in saves : save.popup = id
    BY DEF PressedPopup
  <1>2. CASE saves \subseteq saves'
    BY <1>1, <1>2 DEF PressedPopup
  <1>3. CASE StoreSave
    <2>1. PICK sent \in saves :
             \E answer \in {"stored", "failed"} :
                saves' = (saves \ {sent}) \cup {[sent EXCEPT !.answer = answer]}
      BY <1>3 DEF StoreSave
    <2>2. \A answer : [sent EXCEPT !.answer = answer].popup = sent.popup
      BY DEF TypeInv, Values
    <2>3. QED BY <1>1, <2>1, <2>2 DEF PressedPopup
  <1>4. CASE SaveAnswered
    <2>1. PICK answered \in saves :
             /\ saves' = saves \ {answered}
             /\ closings' = closings \cup
                   {[by |-> answered.doc.id, popup |-> answered.popup,
                     page |-> staticPage, faded |-> FALSE]}
      BY <1>4 DEF SaveAnswered
    <2>2. CASE answered = save
      <3> DEFINE closing == [by |-> answered.doc.id, popup |-> answered.popup,
                             page |-> staticPage, faded |-> FALSE]
      <3>1. closing.popup = id /\ ~closing.faded /\ closing \in closings'
        BY <1>1, <2>1, <2>2
      <3>2. QED BY <3>1 DEF FadingPopup
    <2>3. CASE answered # save
      BY <1>1, <2>1, <2>3 DEF PressedPopup
    <2>4. QED BY <2>2, <2>3
  <1>5. CASE Next /\ ~StoreSave /\ ~SaveAnswered
    <2>1. saves \subseteq saves'
      BY <1>5 DEF Next, UserStep, DeviceStep, CloudStep, PressNewRecording, SelectRecording,
             PressClose, PressStopRecording, PressDelete, PressCancel, PageCoveredBy,
             PressLeave, CloseViewedRecording, PressDeleteInAlert, PressDismissPopup,
             PressSave, PopupFaded, PageDismissalDue, StoreDelete, DeleteAnswered,
             ReadLoad, LoadAnswered, cloudVars
    <2>2. QED BY <1>2, <2>1
  <1>6. CASE UNCHANGED vars
    BY <1>2, <1>6 DEF vars, cloudVars
  <1>7. QED BY <1>3, <1>4, <1>5, <1>6

\* An animation is only over when it has taken its popup away.
LEMMA FadingPopupStep ==
  ASSUME NEW id \in Popups, FadingPopup(id), [Next]_vars
  PROVE  FadingPopup(id)' \/ ~PopupShown(id)'
  <1>1. PICK closing \in closings : closing.popup = id /\ ~closing.faded
    BY DEF FadingPopup
  <1>2. CASE closing \in closings'
    BY <1>1, <1>2 DEF FadingPopup
  <1>3. CASE PopupFaded
    <2>1. PICK ended \in closings :
             /\ cover' = IF cover = "popup" /\ popup = ended.popup THEN "none" ELSE cover
             /\ closings \ {ended} \subseteq closings'
             /\ popup' = popup
      BY <1>3 DEF PopupFaded
    <2>2. CASE ended = closing
      BY <1>1, <2>1, <2>2 DEF PopupShown
    <2>3. CASE ended # closing
      BY <1>2, <2>1, <2>3
    <2>4. QED BY <2>2, <2>3
  <1>4. CASE PageDismissalDue
    BY <1>1, <1>2, <1>4 DEF PageDismissalDue
  <1>5. CASE Next /\ ~PopupFaded /\ ~PageDismissalDue
    <2>1. closings \subseteq closings'
      BY <1>5 DEF Next, UserStep, DeviceStep, CloudStep, PressNewRecording, SelectRecording,
             PressClose, PressStopRecording, PressDelete, PressCancel, PageCoveredBy,
             PressLeave, CloseViewedRecording, PressDeleteInAlert, PressDismissPopup,
             PressSave, StoreSave, StoreDelete, SaveAnswered, DeleteAnswered,
             ReadLoad, LoadAnswered
    <2>2. QED BY <1>2, <2>1
  <1>6. CASE UNCHANGED vars
    BY <1>2, <1>6 DEF vars
  <1>7. QED BY <1>3, <1>4, <1>5, <1>6

\* Whatever else is answered, pressed or dismissed meanwhile, a popup whose calls
\* are answered closes: no step forgets it.
THEOREM PressedPopupClosesHolds == Spec /\ AnswersCome => PressedPopupCloses
  <1>1. ASSUME NEW id \in Popups
        PROVE  Spec /\ (PressedPopup(id) ~> ~PressedPopup(id))
                    /\ (FadingPopup(id) ~> ~FadingPopup(id))
                  => (PressedPopup(id) ~> ~PopupShown(id))
    <2>1. TypeInv /\ PressedPopup(id) /\ [Next]_vars
            => PressedPopup(id)' \/ FadingPopup(id)'
      BY PressedPopupStep
    <2>2. FadingPopup(id) /\ [Next]_vars => FadingPopup(id)' \/ ~PopupShown(id)'
      BY FadingPopupStep
    <2>3. QED BY <2>1, <2>2, TypeInvariance, PTL DEF Spec
  <1>2. QED BY <1>1 DEF AnswersCome, PressedPopupCloses, PressedPopup, PopupShown

-----------------------------------------------------------------------------
(* What a recording that is taken away leaves behind.  A page is gone before *)
(* its document can be viewed, and so deleted, on a later one.               *)

Kept(page) == \E doc \in docs : doc.page = page

Known(doc) == doc.page \in 0 .. pages

KnownInv ==
    /\ Known(viewing)
    /\ \A doc \in docs : Known(doc)
    /\ \A doc \in shown : Known(doc)
    /\ \A i \in DOMAIN loads : \A doc \in loads[i].docs : Known(doc)
    /\ \A save \in saves : Known(save.doc)
    /\ \A delete \in deletes : Known(delete.doc)

\* Nothing that was sent from a recording page on the screen is lost meanwhile.
StoredInv ==
    Recording =>
       /\ \A delete \in deletes : delete.doc.page # open /\ delete.page # open
       /\ \A save \in saves :
             save.answer = "stored" /\ save.doc.page = open => Kept(open)

\* Who is asked to go has been saved.
LeavesSaved ==
    Recording => \A closing \in closings : closing.page = open => Kept(open)

\* What a save or a delete is about stays, whatever is answered to it.
LEMMA SaveStaysItself ==
  ASSUME TypeInv, StoreSave
  PROVE  \E save \in saves : \E new :
            /\ saves' = (saves \ {save}) \cup {new}
            /\ new.doc = save.doc
            /\ docs' = docs \cup {save.doc} \/ (docs' = docs /\ new.answer = "failed")
  <1>1. PICK save \in saves :
           \/ /\ docs' = docs \cup {save.doc}
              /\ saves' = (saves \ {save}) \cup {[save EXCEPT !.answer = "stored"]}
           \/ /\ docs' = docs
              /\ saves' = (saves \ {save}) \cup {[save EXCEPT !.answer = "failed"]}
    BY DEF StoreSave
  <1>2. /\ \A answer : [save EXCEPT !.answer = answer].doc = save.doc
        /\ [save EXCEPT !.answer = "failed"].answer = "failed"
    BY DEF TypeInv, Values
  <1>3. QED BY <1>1, <1>2

LEMMA DeleteStaysItself ==
  ASSUME TypeInv, StoreDelete
  PROVE  \E delete \in deletes : \E new :
            /\ deletes' = (deletes \ {delete}) \cup {new}
            /\ new.doc = delete.doc /\ new.page = delete.page
            /\ docs' \in {docs, docs \ {delete.doc}}
  <1>1. PICK delete \in deletes :
           \E answer \in {"stored", "failed"} :
              /\ docs' \in {docs, docs \ {delete.doc}}
              /\ deletes' = (deletes \ {delete}) \cup {[delete EXCEPT !.answer = answer]}
    BY DEF StoreDelete
  <1>2. \A answer : /\ [delete EXCEPT !.answer = answer].doc = delete.doc
                    /\ [delete EXCEPT !.answer = answer].page = delete.page
    BY DEF TypeInv, Values
  <1>3. QED BY <1>1, <1>2

LEMMA AppearingLoads ==
  ASSUME TypeInv, NEW reload, HomeAppears(reload)
  PROVE  /\ \A i \in DOMAIN loads' :
               loads'[i].docs = {} \/ (i \in DOMAIN loads /\ loads'[i] = loads[i])
         /\ UNCHANGED shown
  <1>1. loads \in Seq(Loads)
    BY DEF TypeInv, Values
  <1>2. loads' = loads \/ loads' = Append(loads, [read |-> FALSE, docs |-> {}])
    BY DEF HomeAppears
  <1>3. QED BY <1>1, <1>2 DEF HomeAppears

LEMMA DismissalLoads ==
  ASSUME TypeInv, NEW page, NEW reload, DismissPage(page, reload)
  PROVE  /\ \A i \in DOMAIN loads' :
               loads'[i].docs = {} \/ (i \in DOMAIN loads /\ loads'[i] = loads[i])
         /\ UNCHANGED shown
  BY AppearingLoads DEF DismissPage

LEMMA NextKnownInv == TypeInv /\ KnownInv /\ [Next]_vars => KnownInv'
  <1> SUFFICES ASSUME TypeInv, KnownInv, [Next]_vars PROVE KnownInv'
    OBVIOUS
  <1> USE DEF uiVars, cloudVars, homeVars
  <1>t. /\ pages \in Nat /\ open \in 0 .. pages /\ staticPage \in 0 .. pages
        /\ loads \in Seq(Loads)
    BY DEF TypeInv, Values, PagesInv
  <1>1. CASE PressNewRecording \/ SelectRecording
    <2>1. /\ pages' = pages + 1 /\ (viewing' = NoDoc \/ viewing' \in shown)
          /\ UNCHANGED <<docs, shown, loads, saves, deletes>>
      BY <1>1 DEF PressNewRecording, SelectRecording, OpenPage
    <2>2. \A doc : Known(doc) => Known(doc)'
      BY <1>t, <2>1 DEF Known
    <2>3. Known(viewing)'
      BY <1>t, <2>1 DEF KnownInv, Known, NoDoc
    <2>4. QED BY <2>1, <2>2, <2>3 DEF KnownInv
  <1>2. CASE /\ UNCHANGED <<viewing, pages, docs, saves, deletes>>
             /\ \A i \in DOMAIN loads' :
                   loads'[i].docs = {} \/ (i \in DOMAIN loads /\ loads'[i] = loads[i])
             /\ UNCHANGED shown
    <2>1. \A doc : Known(doc)' = Known(doc)
      BY <1>2 DEF Known
    <2>2. \A i \in DOMAIN loads' : \A doc \in loads'[i].docs : Known(doc)
      BY <1>2 DEF KnownInv
    <2>3. QED BY <1>2, <2>1, <2>2, Zenon DEF KnownInv
  <1>3. CASE PressLeave \/ CloseViewedRecording
    BY <1>2, <1>3, AppearingLoads DEF PressLeave, CloseViewedRecording
  <1>4. CASE PageDismissalDue
    BY <1>2, <1>4, DismissalLoads DEF PageDismissalDue
  <1>5. CASE DeleteAnswered
    <2>1. deletes' \subseteq deletes /\ UNCHANGED <<viewing, pages, docs, saves>>
      BY <1>5 DEF DeleteAnswered
    <2>2. /\ \A i \in DOMAIN loads' :
                loads'[i].docs = {} \/ (i \in DOMAIN loads /\ loads'[i] = loads[i])
          /\ UNCHANGED shown
      BY <1>5, DismissalLoads DEF DeleteAnswered
    <2>3. QED BY <2>1, <2>2 DEF KnownInv, Known
  <1>6. CASE PressDeleteInAlert
    <2>1. deletes' = deletes \cup {[doc |-> viewing, page |-> open, answer |-> "sent"]}
          /\ UNCHANGED <<viewing, pages, docs, saves, shown, loads>>
      BY <1>6 DEF PressDeleteInAlert
    <2>2. QED BY <2>1 DEF KnownInv, Known
  <1>7. CASE PressSave
    <2>1. saves' = saves \cup {[doc |-> [id |-> savesSent + 1, page |-> staticPage],
                                popup |-> popup, answer |-> "sent"]}
          /\ UNCHANGED <<viewing, pages, docs, deletes, shown, loads>>
      BY <1>7 DEF PressSave
    <2>2. QED BY <1>t, <2>1 DEF KnownInv, Known
  <1>8. CASE StoreSave
    <2>1. /\ \A s \in saves' : \E t \in saves : s.doc = t.doc
          /\ \A doc \in docs' : doc \in docs \/ \E s \in saves : s.doc = doc
      BY <1>8, SaveStaysItself
    <2>2. UNCHANGED <<viewing, pages, deletes, shown, loads>>
      BY <1>8 DEF StoreSave
    <2>3. QED BY <2>1, <2>2 DEF KnownInv, Known
  <1>9. CASE StoreDelete
    <2>1. docs' \subseteq docs /\ \A d \in deletes' : \E e \in deletes : d.doc = e.doc
      BY <1>9, DeleteStaysItself
    <2>2. UNCHANGED <<viewing, pages, saves, shown, loads>>
      BY <1>9 DEF StoreDelete
    <2>3. QED BY <2>1, <2>2 DEF KnownInv, Known
  <1>10. CASE SaveAnswered
    <2>1. saves' \subseteq saves /\ UNCHANGED <<viewing, pages, docs, deletes, shown, loads>>
      BY <1>10 DEF SaveAnswered
    <2>2. QED BY <2>1 DEF KnownInv, Known
  <1>11. CASE ReadLoad
    <2>1. PICK i \in DOMAIN loads :
             loads' = [loads EXCEPT ![i] = [read |-> TRUE, docs |-> docs]]
      BY <1>11 DEF ReadLoad
    <2>2. \A j \in DOMAIN loads' :
             loads'[j].docs = docs \/ (j \in DOMAIN loads /\ loads'[j] = loads[j])
      BY <1>t, <2>1
    <2>3. UNCHANGED <<viewing, pages, docs, saves, deletes, shown>>
      BY <1>11 DEF ReadLoad
    <2>4. QED BY <2>2, <2>3 DEF KnownInv, Known
  <1>12. CASE LoadAnswered
    <2>1. /\ loads # <<>> /\ loads' = Tail(loads)
          /\ shown' = shown \/ shown' = Head(loads).docs
          /\ UNCHANGED <<viewing, pages, docs, saves, deletes>>
      BY <1>12 DEF LoadAnswered
    <2>2. /\ 1 \in DOMAIN loads /\ Head(loads) = loads[1]
          /\ \A i \in DOMAIN loads' : i + 1 \in DOMAIN loads /\ loads'[i] = loads[i + 1]
      BY <1>t, <2>1
    <2>3. QED BY <2>1, <2>2 DEF KnownInv, Known
  <1>13. CASE UNCHANGED <<viewing, pages, docs, saves, deletes, shown, loads>>
    BY <1>13 DEF KnownInv, Known
  <1>14. CASE PressClose \/ PressStopRecording \/ PressDelete \/ PressCancel
              \/ PressDismissPopup \/ PopupFaded \/ UNCHANGED vars
    BY <1>13, <1>14 DEF PressClose, PressStopRecording, PressDelete, PressCancel,
         PageCoveredBy, PressDismissPopup, PopupFaded, vars
  <1>15. QED
    BY <1>1, <1>3, <1>4, <1>5, <1>6, <1>7, <1>8, <1>9, <1>10, <1>11, <1>12, <1>14
       DEF Next, UserStep, DeviceStep, CloudStep

LEMMA NextStoredInv == TypeInv /\ KnownInv /\ StoredInv /\ [Next]_vars => StoredInv'
  <1> SUFFICES ASSUME TypeInv, KnownInv, StoredInv, [Next]_vars PROVE StoredInv'
    OBVIOUS
  <1> USE DEF uiVars, cloudVars, homeVars
  <1>t. /\ pages \in Nat /\ open \in 0 .. pages /\ shown \subseteq Docs
        /\ cover = "deleteAlert" => viewing # NoDoc
        /\ \A delete \in deletes : delete.page \in 1 .. pages
    BY DEF TypeInv, Values, PagesInv
  <1>1. CASE PressNewRecording
    <2>1. open' = pages + 1 /\ UNCHANGED <<docs, saves, deletes>>
      BY <1>1 DEF PressNewRecording, OpenPage
    <2>2. \A doc : Known(doc) => doc.page # open'
      BY <1>t, <2>1 DEF Known
    <2>3. QED BY <1>t, <2>1, <2>2 DEF KnownInv, StoredInv
  <1>2. CASE SelectRecording
    <2>1. viewing' \in Docs
      BY <1>t, <1>2 DEF SelectRecording, OpenPage
    <2>2. QED BY <2>1 DEF Docs, NoDoc, StoredInv, Recording
  <1>3. CASE /\ Recording' => Recording /\ open' = open
             /\ docs' = docs /\ saves' \subseteq saves /\ deletes' \subseteq deletes
    BY <1>3 DEF StoredInv, Kept
  <1>4. CASE PressLeave \/ CloseViewedRecording \/ PageDismissalDue \/ DeleteAnswered
    BY <1>3, <1>4 DEF PressLeave, CloseViewedRecording, PageDismissalDue, DeleteAnswered,
         DismissPage, Recording
  <1>5. CASE PressDeleteInAlert
    BY <1>t, <1>5 DEF PressDeleteInAlert, StoredInv, Recording
  <1>6. CASE PressSave
    <2> DEFINE new == [doc |-> [id |-> savesSent + 1, page |-> staticPage],
                       popup |-> popup, answer |-> "sent"]
    <2>1. saves' = saves \cup {new} /\ UNCHANGED <<open, viewing, docs, deletes>>
      BY <1>6 DEF PressSave
    <2>2. new.answer # "stored"
      OBVIOUS
    <2> HIDE DEF new
    <2>3. QED BY <2>1, <2>2 DEF StoredInv, Recording, Kept
  <1>7. CASE StoreSave
    <2>1. /\ docs \subseteq docs'
          /\ \A s \in saves' : s \in saves \/ s.answer = "failed" \/ s.doc \in docs'
      BY <1>7, SaveStaysItself
    <2>2. UNCHANGED <<open, viewing, deletes>>
      BY <1>7 DEF StoreSave
    <2>3. QED BY <2>1, <2>2 DEF StoredInv, Recording, Kept
  <1>8. CASE StoreDelete
    <2>1. PICK delete \in deletes :
             /\ docs \ {delete.doc} \subseteq docs'
             /\ \A d \in deletes' : \E e \in deletes : d.doc = e.doc /\ d.page = e.page
      BY <1>8, DeleteStaysItself
    <2>2. UNCHANGED <<open, viewing, saves>>
      BY <1>8 DEF StoreDelete
    <2>3. Recording /\ Kept(open) => Kept(open)'
      BY <2>1, <2>2 DEF StoredInv, Kept
    <2>4. QED BY <2>1, <2>2, <2>3 DEF StoredInv, Recording
  <1>9. CASE SaveAnswered
    BY <1>3, <1>9 DEF SaveAnswered, Recording
  <1>10. CASE PressClose \/ PressStopRecording \/ PressDelete \/ PressCancel
              \/ PressDismissPopup \/ PopupFaded \/ ReadLoad \/ LoadAnswered
              \/ UNCHANGED vars
    BY <1>3, <1>10 DEF PressClose, PressStopRecording, PressDelete, PressCancel,
         PageCoveredBy, PressDismissPopup, PopupFaded, ReadLoad, LoadAnswered, vars, Recording
  <1>11. QED
    BY <1>1, <1>2, <1>4, <1>5, <1>6, <1>7, <1>8, <1>9, <1>10
       DEF Next, UserStep, DeviceStep, CloudStep

\* Firestore stores what it answers, and the answer comes while the page that was
\* stopped last is the one that was saved.
AnsweredInPlace ==
    \A save \in saves :
       save.answer # "sent" => save.answer = "stored" /\ save.doc.page = staticPage

LEMMA NextLeavesSaved ==
  TypeInv /\ StoredInv /\ LeavesSaved /\ AnsweredInPlace /\ [Next]_vars => LeavesSaved'
  <1> SUFFICES ASSUME TypeInv, StoredInv, LeavesSaved, AnsweredInPlace, [Next]_vars
               PROVE  LeavesSaved'
    OBVIOUS
  <1> USE DEF uiVars, cloudVars, homeVars
  <1>t. /\ pages \in Nat /\ open \in 0 .. pages /\ shown \subseteq Docs
        /\ \A closing \in closings : closing.page \in 0 .. pages
    BY DEF TypeInv, Values, PagesInv
  <1>1. CASE PressNewRecording
    BY <1>t, <1>1 DEF PressNewRecording, OpenPage, LeavesSaved
  <1>2. CASE SelectRecording
    <2>1. viewing' \in Docs
      BY <1>t, <1>2 DEF SelectRecording, OpenPage
    <2>2. QED BY <2>1 DEF Docs, NoDoc, LeavesSaved, Recording
  <1>3. CASE /\ Recording' => Recording /\ open' = open
             /\ docs \subseteq docs'
             /\ \A closing \in closings' : closing.page # 0 =>
                   \E c \in closings : c.page = closing.page
    BY <1>3 DEF LeavesSaved, Kept, Recording
  <1>4. CASE PressLeave \/ CloseViewedRecording \/ PageDismissalDue \/ DeleteAnswered
    BY <1>3, <1>4 DEF PressLeave, CloseViewedRecording, PageDismissalDue, DeleteAnswered,
         DismissPage, Recording
  <1>5. CASE PressDismissPopup
    BY <1>3, <1>5 DEF PressDismissPopup, Recording
  <1>6. CASE PopupFaded
    <2>1. PICK closing \in closings :
             closings' \subseteq closings \cup {[closing EXCEPT !.faded = TRUE]}
      BY <1>6 DEF PopupFaded
    <2>2. [closing EXCEPT !.faded = TRUE].page = closing.page
      OBVIOUS
    <2>3. QED BY <1>3, <1>6, <2>1, <2>2 DEF PopupFaded, Recording
  <1>7. CASE StoreDelete
    <2>1. PICK delete \in deletes : docs \ {delete.doc} \subseteq docs'
      BY <1>7 DEF StoreDelete
    <2>2. Recording /\ Kept(open) => Kept(open)'
      BY <1>7, <2>1 DEF StoredInv, Kept, StoreDelete
    <2>3. QED BY <1>7, <2>2 DEF StoreDelete, LeavesSaved, Recording
  <1>8. CASE SaveAnswered
    <2>1. PICK save \in saves :
             /\ save.answer # "sent"
             /\ closings' = closings \cup {[by |-> save.doc.id, popup |-> save.popup,
                                            page |-> staticPage, faded |-> FALSE]}
      BY <1>8 DEF SaveAnswered
    <2>2. save.answer = "stored" /\ save.doc.page = staticPage
      BY <2>1 DEF AnsweredInPlace
    <2>3. Recording /\ staticPage = open => Kept(open)
      BY <2>2 DEF StoredInv
    <2>4. \A closing \in closings' : closing \in closings \/ closing.page = staticPage
      BY <2>1
    <2>5. UNCHANGED <<open, viewing, docs, staticPage>>
      BY <1>8 DEF SaveAnswered
    <2>6. QED BY <2>3, <2>4, <2>5 DEF LeavesSaved, Recording, Kept
  <1>9. CASE PressClose \/ PressStopRecording \/ PressDelete \/ PressCancel
             \/ PressDeleteInAlert \/ PressSave \/ StoreSave \/ ReadLoad
             \/ LoadAnswered \/ UNCHANGED vars
    BY <1>3, <1>9 DEF PressClose, PressStopRecording, PressDelete, PressCancel,
         PageCoveredBy, PressDeleteInAlert, PressSave, StoreSave, ReadLoad,
         LoadAnswered, vars, Recording
  <1>10. QED
    BY <1>1, <1>2, <1>4, <1>5, <1>6, <1>7, <1>8, <1>9
       DEF Next, UserStep, DeviceStep, CloudStep

\* The two causes the findings name are the only ones: while no save fails and each
\* is answered before another page's recording is stopped, no recording goes
\* away unsaved except after the warning.
THEOREM UnsavedOnlyAfterWarningInPlace ==
  Spec /\ []AnsweredInPlace => UnsavedOnlyAfterWarning
  <1> DEFINE Warned == Recording /\ open' # open /\ cover # "leaveAlert"
                          => \E doc \in docs : doc.page = open
  <1>1. Init => KnownInv /\ StoredInv /\ LeavesSaved
    BY DEF Init, KnownInv, Known, NoDoc, StoredInv, LeavesSaved, Recording
  <1>2. TypeInv /\ StoredInv /\ LeavesSaved /\ [Next]_vars => [Warned]_vars
    <2> SUFFICES ASSUME TypeInv, StoredInv, LeavesSaved, Next,
                        Recording, open' # open, cover # "leaveAlert"
                 PROVE  Kept(open)
      BY DEF Kept, vars, uiVars
    <2>1. CASE PageDismissalDue
      BY <2>1 DEF PageDismissalDue, DismissPage, LeavesSaved
    <2>2. CASE DeleteAnswered
      BY <2>2 DEF DeleteAnswered, DismissPage, StoredInv
    <2>3. CASE PressNewRecording \/ SelectRecording \/ PressLeave \/ CloseViewedRecording
      BY <2>3 DEF PressNewRecording, SelectRecording, OpenPage, PressLeave,
                  CloseViewedRecording, Recording, Viewing
    <2>4. QED
      BY <2>1, <2>2, <2>3
         DEF Next, UserStep, DeviceStep, CloudStep, uiVars, cloudVars, PressClose,
             PressStopRecording, PressDelete, PressCancel, PageCoveredBy,
             PressDeleteInAlert, PressDismissPopup, PressSave, PopupFaded, StoreSave,
             StoreDelete, SaveAnswered, ReadLoad, LoadAnswered
  <1>3. QED
    BY <1>1, <1>2, TypeInvariance, NextKnownInv, NextStoredInv, NextLeavesSaved, PTL
       DEF Spec, UnsavedOnlyAfterWarning
===============================================================================
