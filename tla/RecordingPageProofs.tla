-------------------------- MODULE RecordingPageProofs --------------------------
(***************************************************************************)
(* RecordingPage for every number of restarts and of words.                *)
(*                                                                         *)
(* The page only adds variables to the manager: every step of the two is a *)
(* step of the manager or leaves it alone, so that what is proved of the   *)
(* manager holds under the page, and the page's invariants are proved on   *)
(* top of the manager's inductive one.                                     *)
(***************************************************************************)
EXTENDS RecordingPage, SpeechRecognitionProofs

LEMMA PageStepIsManagerStep == [PageNext]_recordingVars => [Next]_speechVars
BY DEF PageNext, recordingVars, ViewDidAppear, RecognizedSpeech,
       CheckedIfFinishedCancelling, RestartedRecognition, TaskFinishes,
       PressClose, CancelLeave, StopRecordingAndDismiss, PressStopRecording,
       PopupDismissed, DismissedAfterSave, Next

\* The page uses the manager as the manager's specification allows.
THEOREM PageUsesManager == PageSpec => Spec
<1>1. PageInit => Init
  BY DEF PageInit
<1> QED
  BY <1>1, PageStepIsManagerStep, PTL DEF PageSpec, Spec

\* Hence the recording page keeps the notes as Notebook promises.
THEOREM PageImplementsNotebook == PageSpec => NotebookSpec
BY PageUsesManager, ImplementsNotebook

\* Only two pairs of handlers touch the banner, and they are the ones that
\* begin and end a wait.
PageInv ==
    /\ banner \in BOOLEAN
    /\ BannerTellsWaiting
    /\ waveTimer \in BOOLEAN
    /\ WaveFollowsManager

LEMMA InitPageInv == PageInit => PageInv
<1> SUFFICES ASSUME PageInit PROVE PageInv
  OBVIOUS
<1>1. pendingChecks # 1
  BY DEF PageInit, Init
<1> QED
  BY <1>1 DEF PageInit, Init, PageInv, BannerTellsWaiting, WaveFollowsManager

LEMMA NextPageInv ==
  SafetyInv /\ SafetyInv' /\ PageInv /\ [PageNext]_recordingVars => PageInv'
<1> SUFFICES ASSUME SafetyInv, SafetyInv', PageInv, [PageNext]_recordingVars
             PROVE  PageInv'
  OBVIOUS
<1> USE DEF PageInv, BannerTellsWaiting, WaveFollowsManager
<1>1. CASE ViewDidAppear
  BY <1>1 DEF ViewDidAppear, StartRecognition
<1>2. CASE RecognizedSpeech
  BY <1>2 DEF RecognizedSpeech, ResultHandler
<1>3. CASE CheckedIfFinishedCancelling
  <2>1. /\ control' = control
        /\ pendingChecks' = 1
    BY <1>3 DEF CheckedIfFinishedCancelling, ResetAndWait, CheckAgain,
                ResetTimerFires, ScheduleCheck, SafetyInv, AudioUnderTimer
  <2> QED
    BY <1>3, <2>1 DEF CheckedIfFinishedCancelling
<1>4. CASE RestartedRecognition
  <2>1. /\ control' = control
        /\ resetTimer'
    BY <1>4 DEF RestartedRecognition, ResetAndRestart, CheckAndRestart,
                RestartRecognition
  <2>2. pendingChecks' # 1
    BY <2>1 DEF SafetyInv, AudioUnderTimer
  <2> QED
    BY <1>4, <2>1, <2>2 DEF RestartedRecognition
<1>5. CASE TaskFinishes
  BY <1>5 DEF TaskFinishes, TaskEnds, CancellationCompletes, pageVars
<1>6. CASE PressClose
  BY <1>6 DEF PressClose, speechVars
<1>7. CASE CancelLeave
  BY <1>7 DEF CancelLeave, speechVars
<1>8. CASE StopRecordingAndDismiss
  BY <1>8 DEF StopRecordingAndDismiss, StopRecognition
<1>9. CASE PressStopRecording
  BY <1>9 DEF PressStopRecording, StopRecognition
<1>10. CASE PopupDismissed
  BY <1>10 DEF PopupDismissed, speechVars
<1>11. CASE DismissedAfterSave
  BY <1>11 DEF DismissedAfterSave, speechVars
<1>12. CASE UNCHANGED recordingVars
  BY <1>12 DEF recordingVars, speechVars, pageVars
<1> QED
  BY <1>1, <1>2, <1>3, <1>4, <1>5, <1>6, <1>7, <1>8, <1>9, <1>10, <1>11, <1>12
  DEF PageNext

THEOREM PageInvariance == PageSpec => [](SafetyInv /\ PageInv)
<1>1. PageSpec => []SafetyInv
  BY PageUsesManager, SafetyInvariance
<1> QED
  BY <1>1, InitPageInv, NextPageInv, PTL DEF PageSpec

\* The banner stands exactly while a restart is awaited.
THEOREM BannerTellsWaitingHolds == PageSpec => []BannerTellsWaiting
<1>1. PageInv => BannerTellsWaiting
  BY DEF PageInv
<1> QED
  BY <1>1, PageInvariance, PTL

\* The wave view listens exactly until the manager is told to stop.
THEOREM WaveFollowsManagerHolds == PageSpec => []WaveFollowsManager
<1>1. PageInv => WaveFollowsManager
  BY DEF PageInv
<1> QED
  BY <1>1, PageInvariance, PTL

\* Banner and wave tell what the manager does, however long the lecture.
THEOREM IndicatorsFollowManagerHolds == PageSpec => []IndicatorsFollowManager
<1>1. BannerTellsWaiting /\ WaveFollowsManager => IndicatorsFollowManager
  BY DEF IndicatorsFollowManager
<1> QED
  BY <1>1, BannerTellsWaitingHolds, WaveFollowsManagerHolds, PTL

-----------------------------------------------------------------------------
(* The text on the page.                                                     *)

FullTranscriptionTyped == FullTranscription \in Seq(Texts)

LEMMA FullTranscriptionType == TypeOK => FullTranscriptionTyped
BY DEF TypeOK, FullTranscription, FullTranscriptionTyped

\* Texts on the page and for the popup are sequences of the manager's texts.
ShownTypeOK ==
    /\ page \in {"loaded", "recording", "leaveAlert", "savePopup", "left"}
    /\ shownText \in Seq(Texts)
    /\ textToSave \in Seq(Texts)

LEMMA NextShownTypeOK ==
  TypeOK /\ TypeOK' /\ ShownTypeOK /\ [PageNext]_recordingVars => ShownTypeOK'
<1> SUFFICES ASSUME TypeOK, TypeOK', ShownTypeOK, [PageNext]_recordingVars
             PROVE  ShownTypeOK'
  OBVIOUS
<1>1. FullTranscriptionTyped /\ FullTranscriptionTyped'
  BY FullTranscriptionType, PTL
<1> QED
  BY <1>1
  DEF FullTranscriptionTyped, ShownTypeOK, PageNext, ViewDidAppear, RecognizedSpeech,
      CheckedIfFinishedCancelling, RestartedRecognition, TaskFinishes,
      PressClose, CancelLeave, StopRecordingAndDismiss, PressStopRecording,
      PopupDismissed, DismissedAfterSave, recordingVars, pageVars, Texts

\* Type correctness of the page and its manager.
THEOREM PageTypeCorrect == PageSpec => []PageTypeOK
<1>1. PageSpec => []TypeOK
  BY PageUsesManager, TypeCorrect
<1>2. PageInit => ShownTypeOK
  BY DEF PageInit, ShownTypeOK
<1>3. TypeOK /\ PageInv /\ ShownTypeOK => PageTypeOK
  BY DEF PageInv, ShownTypeOK, PageTypeOK
<1> QED
  BY <1>1, <1>2, <1>3, NextShownTypeOK, PageInvariance, PTL DEF PageSpec

LEMMA InitPageShowsNotes == PageInit => PageShowsNotes
<1> SUFFICES ASSUME PageInit PROVE TextsIn(<<>>) = NotesTaken
  BY DEF PageInit, PageShowsNotes
<1>1. FullTranscription = <<NoText>>
  BY DEF PageInit, Init, FullTranscription
<1> QED
  BY <1>1 DEF TextsIn, NotesTaken

\* A step that neither shows anything nor changes the notes.
LEMMA SameNotesShown ==
  ASSUME PageShowsNotes, shownText' = shownText, NotesTaken' = NotesTaken
  PROVE  PageShowsNotes'
BY DEF PageShowsNotes, TextsIn, NoText

LEMMA NextPageShowsNotes ==
  SafetyInv /\ SafetyInv' /\ PageShowsNotes /\ [PageNext]_recordingVars
     => PageShowsNotes'
<1> SUFFICES ASSUME SafetyInv, SafetyInv', PageShowsNotes,
                    [PageNext]_recordingVars
             PROVE  PageShowsNotes'
  OBVIOUS
<1>1. CASE RecognizedSpeech
  BY <1>1 DEF RecognizedSpeech, PageShowsNotes, TextsIn, NotesTaken
<1>2. CASE RestartedRecognition
  <2>1. \E engine, tapCount : RestartRecognition(engine, tapCount)
    BY <1>2 DEF RestartedRecognition, ResetAndRestart, CheckAndRestart
  <2>2. NotesTaken' = NotesTaken
    BY <2>1, RestartKeepsNotes
  <2> QED
    BY <1>2, <2>2, SameNotesShown DEF RestartedRecognition
<1>3. CASE ~RecognizedSpeech /\ ~RestartedRecognition
  <2>1. UNCHANGED <<finishedTranscriptions, currentBestTranscription, shownText>>
    BY <1>3 DEF PageNext, ViewDidAppear, StartRecognition,
                CheckedIfFinishedCancelling, ResetAndWait, CheckAgain,
                ScheduleCheck, TaskFinishes, TaskEnds, CancellationCompletes,
                PressClose, CancelLeave, StopRecordingAndDismiss,
                PressStopRecording, StopRecognition, PopupDismissed,
                DismissedAfterSave, recordingVars, speechVars, pageVars
  <2> QED
    BY <2>1, SameTextsKeepNotes, SameNotesShown
<1> QED
  BY <1>1, <1>2, <1>3

\* The page shows the notes, all of them and nothing else.
THEOREM PageShowsNotesHolds == PageSpec => []PageShowsNotes
<1>1. PageSpec => []SafetyInv
  BY PageUsesManager, SafetyInvariance
<1> QED
  BY <1>1, InitPageShowsNotes, NextPageShowsNotes, PTL DEF PageSpec

\* The stop button hands over what the student sees.
THEOREM SaveTakesShownNotesHolds == PageSpec => SaveTakesShownNotes
<1> DEFINE Taken == textToSave' # textToSave
                       => TextsIn(textToSave') = TextsIn(shownText)
<1>1. PageShowsNotes /\ [PageNext]_recordingVars => [Taken]_recordingVars
  <2> SUFFICES ASSUME PageShowsNotes, PageNext, textToSave' # textToSave
               PROVE  TextsIn(textToSave') = TextsIn(shownText)
    BY DEF recordingVars, pageVars
  <2>1. textToSave' = FullTranscription
    BY DEF PageNext, ViewDidAppear, RecognizedSpeech,
           CheckedIfFinishedCancelling, RestartedRecognition, TaskFinishes,
           PressClose, CancelLeave, StopRecordingAndDismiss,
           PressStopRecording, PopupDismissed, DismissedAfterSave, pageVars
  <2> QED
    BY <2>1 DEF PageShowsNotes, TextsIn, NotesTaken
<1> QED
  BY <1>1, PageShowsNotesHolds, PTL DEF PageSpec, SaveTakesShownNotes

\* A page that is left outside a reset leaves nothing behind.
THEOREM LeavingIsQuietHolds == PageSpec => LeavingIsQuiet
<1> DEFINE Left == (page = "leaveAlert" /\ page' = "left" /\ pendingChecks = 0)
                      => Quiet'
<1>1. [PageNext]_recordingVars => [Left]_recordingVars
  <2> SUFFICES ASSUME PageNext, page = "leaveAlert", page' = "left",
                      pendingChecks = 0
               PROVE  Quiet'
    OBVIOUS
  <2>1. StopRecognition
    BY DEF PageNext, ViewDidAppear, RecognizedSpeech,
           CheckedIfFinishedCancelling, RestartedRecognition, TaskFinishes,
           PressClose, CancelLeave, StopRecordingAndDismiss,
           PressStopRecording, PopupDismissed, DismissedAfterSave, pageVars
  <2> QED
    BY <2>1 DEF StopRecognition, Quiet
<1> QED
  BY <1>1, PTL DEF PageSpec, LeavingIsQuiet

-----------------------------------------------------------------------------
(* A reset that has a task to wait for ends.  The framework completes what   *)
(* was cancelled, the check that comes next finds that; and a wait only      *)
(* begins with a task that is cancelled.                                     *)

\* The task waited for is never a running one.
WaitsForCancelled == pendingChecks = 1 => taskState # "running"

LEMMA NextWaitsForCancelled ==
  SafetyInv /\ SafetyInv' /\ WaitsForCancelled /\ [Next]_speechVars => WaitsForCancelled'
<1> SUFFICES ASSUME SafetyInv, SafetyInv', WaitsForCancelled, [Next]_speechVars,
                    pendingChecks' = 1
             PROVE  taskState' # "running"
  BY DEF WaitsForCancelled
<1>1. ~resetTimer'
  BY DEF SafetyInv, AudioUnderTimer
<1>2. ~StartRecognition /\ ~ResetAndRestart /\ ~CheckAndRestart
  BY <1>1 DEF StartRecognition, ResetAndRestart, CheckAndRestart, RestartRecognition
<1>3. CASE ResetAndWait
  BY <1>3 DEF ResetAndWait, Cancelled
<1>4. CASE CheckAgain
  BY <1>4 DEF CheckAgain, SafetyInv, AudioUnderTimer, WaitsForCancelled
<1>5. CASE \/ StopRecognition \/ ResultHandler \/ TaskEnds \/ CancellationCompletes
           \/ UNCHANGED speechVars
  BY <1>5 DEF StopRecognition, ResultHandler, TaskEnds, CancellationCompletes,
              speechVars, WaitsForCancelled, Cancelled
<1> QED
  BY <1>2, <1>3, <1>4, <1>5 DEF Next

\* Whatever waits for a completed task was cancelled before.
THEOREM WaitsForCancelledHolds == Spec => []WaitsForCancelled
<1>1. Init => WaitsForCancelled
  BY DEF Init, WaitsForCancelled
<1> QED
  BY <1>1, NextWaitsForCancelled, SafetyInvariance, PTL DEF Spec

WaitsForEnd == pendingChecks = 1 /\ taskState = "canceling"
WaitsForCheck == pendingChecks = 1 /\ taskState = "completed"
WaitOver == pendingChecks = 0

\* Nothing but its own two steps ends a wait.
LEMMA WaitGoesOn ==
  SafetyInv /\ SafetyInv' /\ [PageNext]_recordingVars =>
    /\ WaitsForEnd => (WaitsForEnd \/ WaitsForCheck)'
    /\ WaitsForCheck => (WaitsForCheck \/ WaitOver)'
<1> SUFFICES ASSUME SafetyInv, SafetyInv', [Next]_speechVars
             PROVE  /\ WaitsForEnd => (WaitsForEnd \/ WaitsForCheck)'
                    /\ WaitsForCheck => (WaitsForCheck \/ WaitOver)'
  BY PageStepIsManagerStep
<1>1. pendingChecks = 1 => control # "idle" /\ ~resetTimer
  BY DEF SafetyInv, AudioUnderTimer, Untouched
<1>2. WaitsForEnd => (WaitsForEnd \/ WaitsForCheck)'
  <2> SUFFICES ASSUME WaitsForEnd PROVE (WaitsForEnd \/ WaitsForCheck)'
    OBVIOUS
  <2>1. ~StartRecognition /\ ~ResetAndRestart /\ ~ResetAndWait /\ ~CheckAndRestart
        /\ ~TaskEnds
    BY <1>1 DEF WaitsForEnd, StartRecognition, ResetAndRestart, ResetAndWait,
                ResetTimerFires, CheckAndRestart, TaskEnds
  <2> QED
    BY <2>1 DEF Next, WaitsForEnd, WaitsForCheck, StopRecognition, Cancelled, CheckAgain,
                ScheduleCheck, ResultHandler, CancellationCompletes, speechVars
<1>3. WaitsForCheck => (WaitsForCheck \/ WaitOver)'
  <2> SUFFICES ASSUME WaitsForCheck PROVE (WaitsForCheck \/ WaitOver)'
    OBVIOUS
  <2>1. ~StartRecognition /\ ~ResetAndRestart /\ ~ResetAndWait /\ ~CheckAgain
        /\ ~ResultHandler /\ ~TaskEnds /\ ~CancellationCompletes
    BY <1>1 DEF WaitsForCheck, StartRecognition, ResetAndRestart, ResetAndWait,
                ResetTimerFires, CheckAgain, ResultHandler, TaskEnds, CancellationCompletes
  <2>2. CASE CheckAndRestart
    BY <2>2 DEF CheckAndRestart, WaitsForCheck, WaitOver
  <2> QED
    BY <2>1, <2>2 DEF Next, WaitsForCheck, StopRecognition, Cancelled, speechVars
<1> QED
  BY <1>2, <1>3

\* And each of the two leads on.
LEMMA WaitLeadsOn ==
  SafetyInv =>
    /\ WaitsForEnd /\ <<CancellationCompletes /\ UNCHANGED pageVars>>_recordingVars
         => WaitsForCheck'
    /\ WaitsForCheck /\ <<CheckedIfFinishedCancelling \/ RestartedRecognition>>_recordingVars
         => WaitOver'
<1> SUFFICES ASSUME SafetyInv
             PROVE  /\ WaitsForEnd /\ CancellationCompletes => WaitsForCheck'
                    /\ WaitsForCheck /\ (CheckedIfFinishedCancelling \/ RestartedRecognition)
                         => WaitOver'
  OBVIOUS
<1>1. WaitsForEnd /\ CancellationCompletes => WaitsForCheck'
  BY DEF WaitsForEnd, WaitsForCheck, CancellationCompletes
<1>2. ASSUME WaitsForCheck, CheckedIfFinishedCancelling \/ RestartedRecognition
      PROVE  WaitOver'
  <2>1. ~resetTimer
    BY <1>2 DEF SafetyInv, AudioUnderTimer, WaitsForCheck
  <2>2. CheckAndRestart
    BY <1>2, <2>1
       DEF WaitsForCheck, CheckedIfFinishedCancelling, RestartedRecognition,
           ResetAndRestart, ResetAndWait, ResetTimerFires, CheckAgain
  <2> QED
    BY <1>2, <2>2 DEF CheckAndRestart, WaitsForCheck, WaitOver
<1> QED
  BY <1>1, <1>2

\* The wait ends for every lecture, and whatever the student does meanwhile: a stop,
\* a popup, leaving the page.
THEOREM ResetCompletesHolds == FairPageSpec /\ []HandlersEnabled => ResetCompletes
<1>1. PageSpec => [](SafetyInv /\ WaitsForCancelled)
  BY PageUsesManager, SafetyInvariance, WaitsForCancelledHolds, PTL
<1>2. SafetyInv /\ WaitsForCancelled /\ pendingChecks = 1 /\ taskState # "nil"
        => WaitsForEnd \/ WaitsForCheck
  BY DEF SafetyInv, TypeOK, WaitsForCancelled, WaitsForEnd, WaitsForCheck
<1>3. WaitsForEnd => taskState = "canceling"
  BY DEF WaitsForEnd
<1>4. WaitsForCheck => pendingChecks > 0 /\ taskState = "completed"
  BY DEF WaitsForCheck
<1>5. WaitOver <=> pendingChecks = 0
  BY DEF WaitOver
<1> QED
  BY <1>1, <1>2, <1>3, <1>4, <1>5, WaitGoesOn, WaitLeadsOn, PTL
  DEF FairPageSpec, PageSpec, PageFairness, HandlersEnabled, ResetCompletes
===============================================================================
