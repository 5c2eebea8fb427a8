----------------------------- MODULE RecordingPage -----------------------------
(***************************************************************************)
(* RecordingViewController in its recording mode, together with the        *)
(* manager it owns and is the delegate of (Recording Page/                 *)
(* RecordingViewController.swift).                                         *)
(*                                                                         *)
(* The manager calls its delegate synchronously, so an action of the       *)
(* manager and what the page does about it are one action here: the page's *)
(* part is conjoined to the manager's.  What happens inside the save popup *)
(* is SaveRecordingFlow's; here it closes, with or without the page.       *)
(***************************************************************************)
EXTENDS SpeechRecognition

VARIABLES
    page,         \* what is on the screen: loaded, recording, leaveAlert,
                  \* savePopup, left
    banner,       \* restartingRecognitionView.isShowing
    waveTimer,    \* audioWaveView's updateAudioWaveTimer is running
    shownText,    \* the transcription in textView
    textToSave    \* SaveRecordingPopupView.textToSave

pageVars == <<page, banner, waveTimer, shownText, textToSave>>
recordingVars == <<speechVars, pageVars>>

PageTypeOK ==
    /\ TypeOK
    /\ page \in {"loaded", "recording", "leaveAlert", "savePopup", "left"}
    /\ banner \in BOOLEAN
    /\ waveTimer \in BOOLEAN
    /\ shownText \in Seq(Texts)
    /\ textToSave \in Seq(Texts)

PageInit ==
    /\ Init
    /\ page = "loaded"
    /\ banner = FALSE
    /\ waveTimer = FALSE
    /\ shownText = <<>>
    /\ textToSave = <<>>

-----------------------------------------------------------------------------
(* The manager's steps and the delegate calls in them.                       *)

\* Mutant: the page appears again after a popup, and starts the manager again.
ViewDidAppearAgain ==
    /\ page \in {"loaded", "recording"}
    /\ StartAtEveryAppearance
    /\ page' = "recording"
    /\ waveTimer' = TRUE
    /\ UNCHANGED <<banner, shownText, textToSave>>

\* viewDidAppear
ViewDidAppear ==
    /\ page = "loaded"
    /\ StartRecognition
    /\ page' = "recording"
    /\ waveTimer' = TRUE
    /\ UNCHANGED <<banner, shownText, textToSave>>

\* Mutant: the page is given the current segment only.
RecognizedSegment ==
    /\ ResultHandler
    /\ shownText' = <<currentBestTranscription'>>
    /\ UNCHANGED <<page, banner, waveTimer, textToSave>>

RecognizedSpeech ==
    /\ ResultHandler
    /\ shownText' = FullTranscription'
    /\ UNCHANGED <<page, banner, waveTimer, textToSave>>

CheckedIfFinishedCancelling ==
    /\ ResetAndWait \/ CheckAgain
    /\ banner' = TRUE
    /\ UNCHANGED <<page, waveTimer, shownText, textToSave>>

RestartedRecognition ==
    /\ ResetAndRestart \/ CheckAndRestart
    /\ banner' = FALSE
    /\ UNCHANGED <<page, waveTimer, shownText, textToSave>>

TaskFinishes ==
    /\ TaskEnds \/ CancellationCompletes
    /\ UNCHANGED pageVars

-----------------------------------------------------------------------------
(* The buttons.                                                              *)

PressClose ==
    /\ page = "recording"
    /\ page' = "leaveAlert"
    /\ UNCHANGED <<speechVars, banner, waveTimer, shownText, textToSave>>

CancelLeave ==
    /\ page = "leaveAlert"
    /\ page' = "recording"
    /\ UNCHANGED <<speechVars, banner, waveTimer, shownText, textToSave>>

\* Mutant: the page goes without stopping the manager.
DismissOnly ==
    /\ page = "leaveAlert"
    /\ waveTimer' = FALSE
    /\ page' = "left"
    /\ UNCHANGED <<speechVars, banner, shownText, textToSave>>

\* stopRecordingAndDismiss
StopRecordingAndDismiss ==
    /\ page = "leaveAlert"
    /\ StopRecognition
    /\ waveTimer' = FALSE
    /\ page' = "left"
    /\ UNCHANGED <<banner, shownText, textToSave>>

\* Mutants: only the finished segments are handed to the popup; the wave view
\* goes on listening.
PressStopSavingFinished ==
    /\ page = "recording"
    /\ StopRecognition
    /\ waveTimer' = FALSE
    /\ textToSave' = finishedTranscriptions
    /\ page' = "savePopup"
    /\ UNCHANGED <<banner, shownText>>

PressStopKeepingWave ==
    /\ page = "recording"
    /\ StopRecognition
    /\ textToSave' = FullTranscription
    /\ page' = "savePopup"
    /\ UNCHANGED <<waveTimer, banner, shownText>>

PressStopRecording ==
    /\ page = "recording"
    /\ StopRecognition
    /\ waveTimer' = FALSE
    /\ textToSave' = FullTranscription
    /\ page' = "savePopup"
    /\ UNCHANGED <<banner, shownText>>

\* The popup covers the page without replacing it, so viewDidAppear is not
\* called again and the manager stays stopped.
PopupDismissed ==
    /\ page = "savePopup"
    /\ page' = "recording"
    /\ UNCHANGED <<speechVars, banner, waveTimer, shownText, textToSave>>

\* The dismissal that willDismissPopup puts on the main queue, when it finds the
\* popup faded out.  (If something covers the page again it takes that away
\* instead: CancelLeave and PopupDismissed stand for it too.)
DismissedAfterSave ==
    /\ page = "recording"
    /\ control = "stopped"
    /\ page' = "left"
    /\ UNCHANGED <<speechVars, banner, waveTimer, shownText, textToSave>>

-----------------------------------------------------------------------------
PageNext ==
    \/ ViewDidAppear
    \/ RecognizedSpeech
    \/ CheckedIfFinishedCancelling
    \/ RestartedRecognition
    \/ TaskFinishes
    \/ PressClose
    \/ CancelLeave
    \/ StopRecordingAndDismiss
    \/ PressStopRecording
    \/ PopupDismissed
    \/ DismissedAfterSave

PageSpec == PageInit /\ [][PageNext]_recordingVars

\* Main-queue blocks and timers run, and a cancelled task is completed.
PageFairness ==
    /\ WF_recordingVars(CheckedIfFinishedCancelling \/ RestartedRecognition)
    /\ WF_recordingVars(CancellationCompletes /\ UNCHANGED pageVars)

FairPageSpec == PageSpec /\ PageFairness

\* A cancelled task can be completed, and a check that finds a completed one can
\* be run: what the fairness of the two needs to be of use.
HandlersEnabled ==
    /\ taskState = "canceling" =>
          ENABLED <<CancellationCompletes /\ UNCHANGED pageVars>>_recordingVars
    /\ pendingChecks > 0 /\ taskState = "completed" =>
          ENABLED <<CheckedIfFinishedCancelling \/ RestartedRecognition>>_recordingVars

-----------------------------------------------------------------------------
\* The banner stands on the page exactly while a restart is awaited, through
\* stops, alerts and repeated checks (checkedIfRecognitionFinishedCancelling
\* and restartedRecognition are the only callers of show and animateOut).
BannerTellsWaiting == banner <=> pendingChecks = 1

\* The page animates the volume exactly while it has a running manager: it
\* has not been told to stop.
WaveFollowsManager == waveTimer <=> control = "started"

\* What the student sees of the manager's state agrees with it: the banner with
\* the wait for a restart, the wave with the recording.
IndicatorsFollowManager == BannerTellsWaiting /\ WaveFollowsManager

TextsIn(transcription) ==
    {transcription[i] : i \in DOMAIN transcription} \ {NoText}

\* The page shows every note taken so far and nothing else, although a restart
\* files texts without telling it (recognizedSpeech is only called on results).
PageShowsNotes == TextsIn(shownText) = NotesTaken

\* What the stop button hands to the popup, put together from the manager's
\* fields and not from the text view, has the notes the student sees.
SaveTakesShownNotes ==
    [][textToSave' # textToSave => TextsIn(textToSave') = TextsIn(shownText)]_recordingVars

\* Leaving through the alert leaves nothing armed, scheduled or listening,
\* unless a reset was waiting at that moment (the check outlives the page).
LeavingIsQuiet ==
    [][(page = "leaveAlert" /\ page' = "left" /\ pendingChecks = 0)
          => Quiet']_recordingVars
===============================================================================
