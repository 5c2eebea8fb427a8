-------------------------- MODULE SpeechRecognition --------------------------
(***************************************************************************)
(* SpeechRecognitionManager (Recording Page/SpeechRecogitionManager.swift).*)
(*                                                                         *)
(* Apple ends a recognition task after one minute of audio, so the manager *)
(* arms a 60 s one-shot timer with every task.  When the timer fires it    *)
(* stops the audio, cancels the task and polls once a second, through      *)
(* DispatchQueue.main.asyncAfter, until the task reports .completed; then  *)
(* it files the segment's text and begins the next task.                   *)
(*                                                                         *)
(* Every handler runs on the main queue, so each is one action.  The task  *)
(* itself belongs to the Speech framework and moves on its own: it hands   *)
(* over hypotheses until it is completed and none afterwards (that is the  *)
(* contract of .completed, which the manager relies on when it polls).     *)
(***************************************************************************)
EXTENDS Naturals, Sequences

CONSTANTS
    MaxRestarts,    \* bound: minutes a lecture may last after the first
    MaxWords        \* bound: distinct hypotheses per segment

ASSUME BoundsAssumption == MaxRestarts \in Nat /\ MaxWords \in Nat \ {0}

VARIABLES
    control,                    \* what the page has asked: idle, started, stopped
    resetTimer,                 \* resetSpeechRecognitionTimer is armed
    audioEngine,                \* the audio engine runs: the microphone is on
    taps,                       \* taps installed on bus 0 of the input node
    repeatRecognitionCounter,   \* number of the recognition task, 0 for nil
    taskState,                  \* recognitionTask?.state
    pendingChecks,              \* scheduled calls of the completion check
    isCheckingForCancellation,
    finishedTranscriptions,     \* texts filed at each restart
    currentBestTranscription    \* text delivered last

speechVars == <<control, resetTimer, audioEngine, taps,
                repeatRecognitionCounter, taskState, pendingChecks,
                isCheckingForCancellation, finishedTranscriptions,
                currentBestTranscription>>

Tasks == 1 .. MaxRestarts + 1

\* A text is the hypothesis of a segment; "" is the segment 0.
NoText == [task |-> 0, words |-> 0]
Texts == [task : 0 .. MaxRestarts + 1, words : 0 .. MaxWords]

TypeOK ==
    /\ control \in {"idle", "started", "stopped"}
    /\ resetTimer \in BOOLEAN
    /\ audioEngine \in BOOLEAN
    /\ taps \in Nat
    /\ repeatRecognitionCounter \in 0 .. MaxRestarts + 1
    /\ taskState \in {"nil", "running", "canceling", "completed"}
    /\ pendingChecks \in Nat
    /\ isCheckingForCancellation \in BOOLEAN
    /\ finishedTranscriptions \in Seq(Texts)
    /\ currentBestTranscription \in Texts

Init ==
    /\ control = "idle"
    /\ resetTimer = FALSE
    /\ audioEngine = FALSE
    /\ taps = 0
    /\ repeatRecognitionCounter = 0
    /\ taskState = "nil"
    /\ pendingChecks = 0
    /\ isCheckingForCancellation = FALSE
    /\ finishedTranscriptions = <<>>
    /\ currentBestTranscription = NoText

\* getFullTranscription() + currentBestTranscription, as its list of segments.
FullTranscription == Append(finishedTranscriptions, currentBestTranscription)

-----------------------------------------------------------------------------
(* The parts the handlers are made of.  A part that runs after another in    *)
(* the same handler takes what that one left as its arguments.               *)

\* Mutant: endRecording forgets to cancel the task.
NotCancelled(state) == state

\* recognitionTask?.cancel(): only a running task changes state.
Cancelled(state) == IF state = "running" THEN "canceling" ELSE state

\* A new tap is installed and the engine started (which may fail) before the
\* guards on the recogniser; if one of them returns, the old task stays.
RecordAndRecognizeSpeech(engine, tapCount) ==
    /\ taps' = tapCount + 1
    /\ audioEngine' \in {engine, TRUE}
    /\ \/ /\ repeatRecognitionCounter' = repeatRecognitionCounter + 1
          /\ taskState' = "running"
       \/ UNCHANGED <<repeatRecognitionCounter, taskState>>

\* Mutants: the restart does not arm the timer, files the text in front, or
\* does not file it.
RestartUnarmed(engine, tapCount) ==
    /\ finishedTranscriptions' =
           Append(finishedTranscriptions, currentBestTranscription)
    /\ resetTimer' = FALSE
    /\ RecordAndRecognizeSpeech(engine, tapCount)
    /\ isCheckingForCancellation' = FALSE
    /\ UNCHANGED <<control, currentBestTranscription>>

RestartPrepending(engine, tapCount) ==
    /\ finishedTranscriptions' =
           <<currentBestTranscription>> \o finishedTranscriptions
    /\ resetTimer' = TRUE
    /\ RecordAndRecognizeSpeech(engine, tapCount)
    /\ isCheckingForCancellation' = FALSE
    /\ UNCHANGED <<control, currentBestTranscription>>

RestartForgetting(engine, tapCount) ==
    /\ resetTimer' = TRUE
    /\ RecordAndRecognizeSpeech(engine, tapCount)
    /\ isCheckingForCancellation' = FALSE
    /\ UNCHANGED <<control, finishedTranscriptions, currentBestTranscription>>

RestartRecognition(engine, tapCount) ==
    /\ finishedTranscriptions' =
           Append(finishedTranscriptions, currentBestTranscription)
    /\ resetTimer' = TRUE
    /\ RecordAndRecognizeSpeech(engine, tapCount)
    /\ isCheckingForCancellation' = FALSE
    /\ UNCHANGED <<control, currentBestTranscription>>

\* The else branch of the completion check: look again in a second.
ScheduleCheck(outstanding) ==
    /\ pendingChecks' = outstanding + 1
    /\ isCheckingForCancellation' = TRUE
    /\ UNCHANGED <<control, repeatRecognitionCounter,
                   finishedTranscriptions, currentBestTranscription>>

-----------------------------------------------------------------------------
(* Calls of the recording page.                                              *)

\* Mutant: the page asks again whenever it appears.
StartAtEveryAppearance ==
    /\ control' = "started"
    /\ resetTimer' = TRUE
    /\ RecordAndRecognizeSpeech(audioEngine, taps)
    /\ UNCHANGED <<pendingChecks, isCheckingForCancellation,
                   finishedTranscriptions, currentBestTranscription>>

StartRecognition ==
    /\ control = "idle"
    /\ control' = "started"
    /\ resetTimer' = TRUE
    /\ RecordAndRecognizeSpeech(audioEngine, taps)
    /\ UNCHANGED <<pendingChecks, isCheckingForCancellation,
                   finishedTranscriptions, currentBestTranscription>>

\* Mutant: the timer is not invalidated.
StopLeavingTimer ==
    /\ control # "idle"
    /\ control' = "stopped"
    /\ audioEngine' = FALSE
    /\ taps' = 0
    /\ taskState' = Cancelled(taskState)
    /\ UNCHANGED <<resetTimer, repeatRecognitionCounter, pendingChecks,
                   isCheckingForCancellation, finishedTranscriptions,
                   currentBestTranscription>>

\* The page may ask again: endRecording then finds nothing left to stop.  A
\* check already scheduled is not withdrawn.
StopRecognition ==
    /\ control # "idle"
    /\ control' = "stopped"
    /\ audioEngine' = FALSE
    /\ taps' = 0
    /\ taskState' = Cancelled(taskState)
    /\ resetTimer' = FALSE
    /\ UNCHANGED <<repeatRecognitionCounter, pendingChecks,
                   isCheckingForCancellation, finishedTranscriptions,
                   currentBestTranscription>>

-----------------------------------------------------------------------------
(* The minute is over: resetSpeechRecognitionTask.  endRecording leaves no    *)
(* tap and no engine, and the check that follows runs in the same handler.    *)

ResetTimerFires ==
    /\ resetTimer
    /\ Len(finishedTranscriptions) < MaxRestarts

\* The task had already ended by itself: the next one begins at once.
ResetAndRestart ==
    /\ ResetTimerFires
    /\ taskState = "completed"
    /\ RestartRecognition(FALSE, 0)
    /\ UNCHANGED pendingChecks

\* Mutants: the timer repeats; the tap is not removed.
ResetWithRepeatingTimer ==
    /\ ResetTimerFires
    /\ taskState # "completed"
    /\ audioEngine' = FALSE
    /\ taps' = 0
    /\ taskState' = Cancelled(taskState)
    /\ ScheduleCheck(pendingChecks)
    /\ UNCHANGED resetTimer

ResetKeepingTap ==
    /\ ResetTimerFires
    /\ taskState # "completed"
    /\ resetTimer' = FALSE
    /\ audioEngine' = FALSE
    /\ taskState' = Cancelled(taskState)
    /\ ScheduleCheck(pendingChecks)
    /\ UNCHANGED taps

ResetAndWait ==
    /\ ResetTimerFires
    /\ taskState # "completed"
    /\ resetTimer' = FALSE
    /\ audioEngine' = FALSE
    /\ taps' = 0
    /\ taskState' = Cancelled(taskState)
    /\ ScheduleCheck(pendingChecks)

(* A second later: recordSpeechAfterTaskIsFinishedCompleting calls itself.    *)

\* Mutant: the check takes a cancelled task for a completed one.
RestartWhenCancelled ==
    /\ pendingChecks > 0
    /\ taskState \in {"canceling", "completed"}
    /\ RestartRecognition(audioEngine, taps)
    /\ pendingChecks' = pendingChecks - 1

CheckAndRestart ==
    /\ pendingChecks > 0
    /\ taskState = "completed"
    /\ RestartRecognition(audioEngine, taps)
    /\ pendingChecks' = pendingChecks - 1

CheckAgain ==
    /\ pendingChecks > 0
    /\ taskState # "completed"
    /\ ScheduleCheck(pendingChecks - 1)
    /\ UNCHANGED <<resetTimer, audioEngine, taps, taskState>>

-----------------------------------------------------------------------------
(* The Speech framework.                                                     *)

\* resultHandler with a result: it replaces the current text.
ResultHandler ==
    /\ taskState \in {"running", "canceling"}
    /\ \E k \in 1 .. MaxWords :
          currentBestTranscription' =
              [task |-> repeatRecognitionCounter, words |-> k]
    /\ UNCHANGED <<control, resetTimer, audioEngine, taps,
                   repeatRecognitionCounter, taskState, pendingChecks,
                   isCheckingForCancellation, finishedTranscriptions>>

\* The task ends by itself: final result, server error or Apple's limit.
TaskEnds ==
    /\ taskState = "running"
    /\ taskState' = "completed"
    /\ UNCHANGED <<control, resetTimer, audioEngine, taps,
                   repeatRecognitionCounter, pendingChecks,
                   isCheckingForCancellation, finishedTranscriptions,
                   currentBestTranscription>>

CancellationCompletes ==
    /\ taskState = "canceling"
    /\ taskState' = "completed"
    /\ UNCHANGED <<control, resetTimer, audioEngine, taps,
                   repeatRecognitionCounter, pendingChecks,
                   isCheckingForCancellation, finishedTranscriptions,
                   currentBestTranscription>>

-----------------------------------------------------------------------------
Next ==
    \/ StartRecognition
    \/ StopRecognition
    \/ ResetAndRestart
    \/ ResetAndWait
    \/ CheckAndRestart
    \/ CheckAgain
    \/ ResultHandler
    \/ TaskEnds
    \/ CancellationCompletes

Spec == Init /\ [][Next]_speechVars

-----------------------------------------------------------------------------
(* What the manager has to keep.                                             *)

\* At most one thing is going to begin the next task: the armed timer or one
\* scheduled check.  Two of them would install a second tap on the same bus
\* (startSpeechRecognitionResetTimer and the self-rescheduling check).
OneRestartAhead ==
    /\ pendingChecks <= 1
    /\ resetTimer => pendingChecks = 0

\* installTap is never reached with a tap in place, which AVAudioEngine
\* answers with an exception, however stops, resets and restarts interleave.
SingleTap == taps <= 1

\* A running microphone always has its 60 s reset ahead, so that no task is
\* fed for longer than Apple's limit.
MicrophoneHasDeadline == audioEngine => resetTimer

\* The segments of the transcription stand in the order they were spoken.
SegmentsInOrder ==
    \A i, j \in DOMAIN FullTranscription :
       i <= j => FullTranscription[i].task <= FullTranscription[j].task

\* A recognition task is only replaced when it is completed, so no segment is
\* cut off while the framework still works on it.
ReplacesOnlyCompletedTask ==
    [][repeatRecognitionCounter' # repeatRecognitionCounter
          => taskState \in {"nil", "completed"}]_speechVars

\* Nothing is armed, scheduled or running after a stop.
Quiet ==
    /\ control = "stopped"
    /\ ~resetTimer
    /\ pendingChecks = 0
    /\ ~audioEngine
    /\ taps = 0

\* A stop that finds no completion check scheduled is final: it silences the
\* manager and nothing ever wakes it again.  (One that finds a check scheduled
\* is not: see StoppedStaysOff.)
StopOutsideResetIsFinal ==
    [][/\ (control = "started" /\ control' = "stopped" /\ pendingChecks = 0)
             => Quiet'
       /\ Quiet => Quiet']_speechVars

\* The texts of the segments that have one.  A text may be filed twice, when a
\* whole minute passes without a result.
NotesTaken ==
    {FullTranscription[i] : i \in DOMAIN FullTranscription} \ {NoText}

\* The manager keeps the promise of Notebook: whatever restarts, stops and late
\* results happen, no text of an earlier segment is lost or changed.
Notes == INSTANCE Notebook WITH
             Tasks <- Tasks, Hypotheses <- 1 .. MaxWords, notes <- NotesTaken

NotebookSpec == Notes!Spec

\* A reset that has a task to wait for ends: the check sees it completed.
ResetCompletes ==
    (pendingChecks = 1 /\ taskState # "nil") ~> (pendingChecks = 0)

\* The page's button says "Stop and Save Recording" (Main.storyboard:776):
\* after a stop the microphone stays off.  The code does not keep this: the
\* check scheduled by a reset survives the stop and begins a new task.
StoppedStaysOff == control = "stopped" => ~audioEngine
===============================================================================
