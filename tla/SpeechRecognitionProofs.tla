------------------------ MODULE SpeechRecognitionProofs ------------------------
(***************************************************************************)
(* SpeechRecognition for every number of restarts and of words.            *)
(*                                                                         *)
(* The inductive invariant says who is going to begin the next task.       *)
(* There are three situations: the timer is armed; one check is scheduled  *)
(* and audio is off; or neither, and audio is off as well.                 *)
(***************************************************************************)
EXTENDS SpeechRecognition, SequenceTheorems, TLAPS

\* Before viewDidAppear nothing has happened.
Untouched ==
    /\ resetTimer = FALSE
    /\ audioEngine = FALSE
    /\ taps = 0
    /\ repeatRecognitionCounter = 0
    /\ taskState = "nil"
    /\ pendingChecks = 0
    /\ finishedTranscriptions = <<>>

\* The audio runs only while the timer is armed, and a check excludes both.
AudioUnderTimer ==
    /\ pendingChecks \in {0, 1}
    /\ taps \in {0, 1}
    /\ resetTimer => pendingChecks = 0
    /\ taps = 1 => resetTimer
    /\ audioEngine => resetTimer

\* Every task but the first replaced one whose text was filed.
OneSegmentPerTask ==
    /\ Len(finishedTranscriptions) <= MaxRestarts
    /\ repeatRecognitionCounter <= Len(finishedTranscriptions) + 1
    /\ pendingChecks = 1 => Len(finishedTranscriptions) < MaxRestarts

SafetyInv ==
    /\ TypeOK
    /\ control = "idle" => Untouched
    /\ AudioUnderTimer
    /\ OneSegmentPerTask

LEMMA InitSafetyInv == Init => SafetyInv
<1> SUFFICES ASSUME Init PROVE SafetyInv
  OBVIOUS
<1>1. /\ finishedTranscriptions \in Seq(Texts)
      /\ Len(finishedTranscriptions) = 0
      /\ currentBestTranscription \in Texts
      /\ repeatRecognitionCounter \in 0 .. MaxRestarts + 1
      /\ taps \in Nat
      /\ pendingChecks \in Nat
  BY BoundsAssumption DEF Init, Texts, NoText
<1>2. TypeOK
  BY <1>1 DEF Init, TypeOK
<1>3. AudioUnderTimer
  BY DEF Init, AudioUnderTimer
<1>4. OneSegmentPerTask
  BY <1>1, BoundsAssumption DEF Init, OneSegmentPerTask
<1>5. Untouched
  BY DEF Init, Untouched
<1> QED
  BY <1>2, <1>3, <1>4, <1>5 DEF SafetyInv

\* What a restart does, whichever handler it is part of: one text more, the
\* timer armed and the audio on one tap.
LEMMA RestartSteps ==
  ASSUME SafetyInv, NEW engine \in BOOLEAN,
         control # "idle", Len(finishedTranscriptions) < MaxRestarts,
         RestartRecognition(engine, 0)
  PROVE  /\ finishedTranscriptions' \in Seq(Texts)
         /\ Len(finishedTranscriptions') = Len(finishedTranscriptions) + 1
         /\ resetTimer' = TRUE
         /\ taps' = 1
         /\ audioEngine' \in BOOLEAN
         /\ taskState' \in {"running", taskState}
         /\ repeatRecognitionCounter' \in 0 .. MaxRestarts + 1
         /\ repeatRecognitionCounter' <= Len(finishedTranscriptions') + 1
         /\ isCheckingForCancellation' = FALSE
         /\ control' = control
         /\ currentBestTranscription' = currentBestTranscription
<1>1. /\ finishedTranscriptions' \in Seq(Texts)
      /\ Len(finishedTranscriptions') = Len(finishedTranscriptions) + 1
  BY DEF SafetyInv, TypeOK, RestartRecognition
<1>2. /\ taps' = 1
      /\ repeatRecognitionCounter' \in
             {repeatRecognitionCounter, repeatRecognitionCounter + 1}
  BY DEF RestartRecognition, RecordAndRecognizeSpeech
<1>3. taskState' \in {"running", taskState}
  BY DEF RestartRecognition, RecordAndRecognizeSpeech
<1>4. audioEngine' \in BOOLEAN
  BY DEF RestartRecognition, RecordAndRecognizeSpeech
<1>5. /\ resetTimer' = TRUE
      /\ isCheckingForCancellation' = FALSE
      /\ control' = control
      /\ currentBestTranscription' = currentBestTranscription
  BY DEF RestartRecognition
<1>6. /\ repeatRecognitionCounter \in Nat
      /\ Len(finishedTranscriptions) \in Nat
      /\ repeatRecognitionCounter <= Len(finishedTranscriptions) + 1
  BY BoundsAssumption DEF SafetyInv, TypeOK, OneSegmentPerTask
<1>7. /\ repeatRecognitionCounter' \in 0 .. MaxRestarts + 1
      /\ repeatRecognitionCounter' <= Len(finishedTranscriptions') + 1
  BY <1>1, <1>2, <1>6, BoundsAssumption
<1> QED
  BY <1>1, <1>2, <1>3, <1>4, <1>5, <1>7

\* So a restart that finds no tap leaves the invariant true.
LEMMA RestartSafetyInv ==
  ASSUME SafetyInv, NEW engine \in BOOLEAN,
         control # "idle", Len(finishedTranscriptions) < MaxRestarts,
         RestartRecognition(engine, 0), pendingChecks' = 0
  PROVE  SafetyInv'
<1>1. /\ finishedTranscriptions' \in Seq(Texts)
      /\ Len(finishedTranscriptions') = Len(finishedTranscriptions) + 1
      /\ resetTimer' = TRUE
      /\ taps' = 1
      /\ audioEngine' \in BOOLEAN
      /\ taskState' \in {"running", taskState}
      /\ repeatRecognitionCounter' \in 0 .. MaxRestarts + 1
      /\ repeatRecognitionCounter' <= Len(finishedTranscriptions') + 1
      /\ isCheckingForCancellation' = FALSE
      /\ control' = control
      /\ currentBestTranscription' = currentBestTranscription
  BY RestartSteps
<1>2. /\ taskState' \in {"nil", "running", "canceling", "completed"}
      /\ taps' \in Nat
      /\ pendingChecks' \in Nat
  BY <1>1 DEF SafetyInv, TypeOK
<1>3. TypeOK'
  BY <1>1, <1>2 DEF SafetyInv, TypeOK
<1>4. AudioUnderTimer'
  BY <1>1 DEF AudioUnderTimer
<1>5. Len(finishedTranscriptions) \in Nat
  BY DEF SafetyInv, TypeOK
<1>6. OneSegmentPerTask'
  BY <1>1, <1>5, BoundsAssumption DEF OneSegmentPerTask
<1> QED
  BY <1>1, <1>3, <1>4, <1>6 DEF SafetyInv

LEMMA StartSafetyInv == SafetyInv /\ StartRecognition => SafetyInv'
<1> SUFFICES ASSUME SafetyInv, StartRecognition PROVE SafetyInv'
  OBVIOUS
<1>1. /\ taps = 0
      /\ repeatRecognitionCounter = 0
      /\ pendingChecks = 0
      /\ finishedTranscriptions = <<>>
      /\ taskState = "nil"
  BY DEF SafetyInv, StartRecognition, Untouched
<1>2. /\ control' = "started"
      /\ resetTimer' = TRUE
      /\ taps' = 1
      /\ pendingChecks' = 0
      /\ isCheckingForCancellation' = isCheckingForCancellation
      /\ finishedTranscriptions' = <<>>
      /\ currentBestTranscription' = currentBestTranscription
  BY <1>1 DEF StartRecognition, RecordAndRecognizeSpeech
<1>3. /\ repeatRecognitionCounter' \in {0, 1}
      /\ taskState' \in {"nil", "running"}
  BY <1>1 DEF StartRecognition, RecordAndRecognizeSpeech
<1>4. audioEngine' \in BOOLEAN
  BY DEF StartRecognition, RecordAndRecognizeSpeech, SafetyInv, TypeOK
<1>5. /\ taps' \in Nat
      /\ pendingChecks' \in Nat
      /\ repeatRecognitionCounter' \in 0 .. MaxRestarts + 1
      /\ taskState' \in {"nil", "running", "canceling", "completed"}
      /\ finishedTranscriptions' \in Seq(Texts)
      /\ Len(finishedTranscriptions') = 0
  BY <1>2, <1>3, BoundsAssumption
<1>6. TypeOK'
  BY <1>2, <1>4, <1>5 DEF SafetyInv, TypeOK
<1>7. AudioUnderTimer'
  BY <1>2 DEF AudioUnderTimer
<1>8. OneSegmentPerTask'
  BY <1>2, <1>3, <1>5, BoundsAssumption DEF OneSegmentPerTask
<1> QED
  BY <1>2, <1>6, <1>7, <1>8 DEF SafetyInv

LEMMA StopSafetyInv == SafetyInv /\ StopRecognition => SafetyInv'
<1> SUFFICES ASSUME SafetyInv, StopRecognition PROVE SafetyInv'
  OBVIOUS
<1>1. taskState' \in {"nil", "running", "canceling", "completed"}
  BY DEF SafetyInv, TypeOK, StopRecognition, Cancelled
<1>2. TypeOK'
  BY <1>1 DEF SafetyInv, TypeOK, StopRecognition
<1>3. AudioUnderTimer'
  BY DEF SafetyInv, AudioUnderTimer, StopRecognition
<1>4. OneSegmentPerTask'
  BY DEF SafetyInv, OneSegmentPerTask, StopRecognition
<1>5. control' # "idle"
  BY DEF StopRecognition
<1> QED
  BY <1>2, <1>3, <1>4, <1>5 DEF SafetyInv

LEMMA WaitSafetyInv == SafetyInv /\ ResetAndWait => SafetyInv'
<1> SUFFICES ASSUME SafetyInv, ResetAndWait PROVE SafetyInv'
  OBVIOUS
<1>0. ResetTimerFires
  BY DEF ResetAndWait
<1>1. control # "idle" /\ pendingChecks = 0
  BY <1>0 DEF ResetTimerFires, SafetyInv, Untouched, AudioUnderTimer
<1>2. taskState' \in {"nil", "running", "canceling", "completed"}
  BY DEF SafetyInv, TypeOK, ResetAndWait, Cancelled
<1>3. pendingChecks' = 1 /\ pendingChecks' \in Nat
  <2>1. ScheduleCheck(pendingChecks)
    BY DEF ResetAndWait
  <2> QED
    BY <1>1, <2>1 DEF ScheduleCheck
<1>4. TypeOK'
  BY <1>2, <1>3 DEF SafetyInv, TypeOK, ResetAndWait, ScheduleCheck
<1>5. AudioUnderTimer'
  BY <1>3 DEF AudioUnderTimer, ResetAndWait
<1>6. OneSegmentPerTask'
  BY <1>0 DEF ResetTimerFires, SafetyInv, OneSegmentPerTask, ResetAndWait, ScheduleCheck
<1>7. control' # "idle"
  BY <1>1 DEF ResetAndWait, ScheduleCheck
<1> QED
  BY <1>4, <1>5, <1>6, <1>7 DEF SafetyInv

LEMMA AgainSafetyInv == SafetyInv /\ CheckAgain => SafetyInv'
<1> SUFFICES ASSUME SafetyInv, CheckAgain PROVE SafetyInv'
  OBVIOUS
<1>1. pendingChecks = 1 /\ pendingChecks' = 1
  BY DEF SafetyInv, AudioUnderTimer, CheckAgain, ScheduleCheck
<1>2. TypeOK'
  BY <1>1 DEF SafetyInv, TypeOK, CheckAgain, ScheduleCheck
<1>3. AudioUnderTimer'
  BY <1>1 DEF SafetyInv, AudioUnderTimer, CheckAgain
<1>4. OneSegmentPerTask'
  BY <1>1 DEF SafetyInv, OneSegmentPerTask, CheckAgain, ScheduleCheck
<1>5. control' # "idle"
  BY <1>1 DEF SafetyInv, Untouched, CheckAgain, ScheduleCheck
<1> QED
  BY <1>2, <1>3, <1>4, <1>5 DEF SafetyInv

\* The framework's own steps touch the current text and the task's state.
LEMMA FrameworkSafetyInv ==
  SafetyInv /\ (ResultHandler \/ TaskEnds \/ CancellationCompletes) => SafetyInv'
<1> SUFFICES ASSUME SafetyInv,
                    ResultHandler \/ TaskEnds \/ CancellationCompletes
             PROVE  SafetyInv'
  OBVIOUS
<1>1. /\ UNCHANGED <<control, taps, repeatRecognitionCounter, pendingChecks,
                     finishedTranscriptions>>
      /\ resetTimer' = resetTimer
      /\ audioEngine' = audioEngine
      /\ isCheckingForCancellation' = isCheckingForCancellation
  BY DEF ResultHandler, TaskEnds, CancellationCompletes
<1>2. taskState' \in {"nil", "running", "canceling", "completed"}
  BY DEF ResultHandler, TaskEnds, CancellationCompletes, SafetyInv, TypeOK
<1>3. taskState = "nil" => FALSE
  BY DEF ResultHandler, TaskEnds, CancellationCompletes
<1>4. currentBestTranscription' \in Texts
  <2>1. CASE ResultHandler
    <3>1. PICK k \in 1 .. MaxWords :
             currentBestTranscription' =
                 [task |-> repeatRecognitionCounter, words |-> k]
      BY <2>1 DEF ResultHandler
    <3> QED
      BY <3>1, BoundsAssumption DEF SafetyInv, TypeOK, Texts
  <2>2. CASE TaskEnds \/ CancellationCompletes
    BY <2>2 DEF TaskEnds, CancellationCompletes, SafetyInv, TypeOK
  <2> QED
    BY <2>1, <2>2
<1>5. TypeOK'
  BY <1>1, <1>2, <1>4 DEF SafetyInv, TypeOK
<1>6. AudioUnderTimer' /\ OneSegmentPerTask' /\ control' # "idle"
  BY <1>1, <1>3 DEF SafetyInv, AudioUnderTimer, OneSegmentPerTask, Untouched
<1> QED
  BY <1>5, <1>6 DEF SafetyInv

LEMMA NextSafetyInv == SafetyInv /\ [Next]_speechVars => SafetyInv'
<1> SUFFICES ASSUME SafetyInv, [Next]_speechVars PROVE SafetyInv'
  OBVIOUS
<1>1. CASE StartRecognition
  BY <1>1, StartSafetyInv
<1>2. CASE StopRecognition
  BY <1>2, StopSafetyInv
<1>3. CASE ResetAndRestart
  <2>1. control # "idle" /\ pendingChecks = 0
    BY <1>3 DEF ResetAndRestart, ResetTimerFires, SafetyInv, Untouched,
                AudioUnderTimer
  <2>2. /\ Len(finishedTranscriptions) < MaxRestarts
        /\ RestartRecognition(FALSE, 0)
        /\ pendingChecks' = 0
    BY <1>3, <2>1 DEF ResetAndRestart, ResetTimerFires
  <2> QED
    BY <2>1, <2>2, RestartSafetyInv
<1>4. CASE ResetAndWait
  BY <1>4, WaitSafetyInv
<1>5. CASE CheckAndRestart
  <2>1. pendingChecks = 1
    BY <1>5 DEF CheckAndRestart, SafetyInv, AudioUnderTimer
  <2>2. control # "idle" /\ taps = 0
    BY <2>1 DEF SafetyInv, Untouched, AudioUnderTimer
  <2>3. Len(finishedTranscriptions) < MaxRestarts
    BY <2>1 DEF SafetyInv, OneSegmentPerTask
  <2>4. RestartRecognition(audioEngine, 0) /\ pendingChecks' = 0
    BY <1>5, <2>1, <2>2 DEF CheckAndRestart
  <2>5. audioEngine \in BOOLEAN
    BY DEF SafetyInv, TypeOK
  <2> QED
    BY <2>2, <2>3, <2>4, <2>5, RestartSafetyInv
<1>6. CASE CheckAgain
  BY <1>6, AgainSafetyInv
<1>7. CASE ResultHandler \/ TaskEnds \/ CancellationCompletes
  BY <1>7, FrameworkSafetyInv
<1>8. CASE UNCHANGED speechVars
  <2>1. TypeOK'
    BY <1>8 DEF speechVars, SafetyInv, TypeOK
  <2>2. AudioUnderTimer' /\ OneSegmentPerTask'
    BY <1>8 DEF speechVars, SafetyInv, AudioUnderTimer, OneSegmentPerTask
  <2>3. control' = "idle" => Untouched'
    BY <1>8 DEF speechVars, SafetyInv, Untouched
  <2> QED
    BY <2>1, <2>2, <2>3 DEF SafetyInv
<1> QED
  BY <1>1, <1>2, <1>3, <1>4, <1>5, <1>6, <1>7, <1>8 DEF Next

\* The situations are the only ones the manager gets into.
THEOREM SafetyInvariance == Spec => []SafetyInv
BY InitSafetyInv, NextSafetyInv, PTL DEF Spec

\* Type correctness; it bounds the task numbers by the restarts.
THEOREM TypeCorrect == Spec => []TypeOK
<1>1. SafetyInv => TypeOK
  BY DEF SafetyInv
<1> QED
  BY <1>1, SafetyInvariance, PTL

\* The timer and the completion check never compete for the next task.
THEOREM OneRestartAheadHolds == Spec => []OneRestartAhead
<1>1. SafetyInv => OneRestartAhead
  BY DEF SafetyInv, AudioUnderTimer, OneRestartAhead
<1> QED
  BY <1>1, SafetyInvariance, PTL

\* No handler installs a tap over another one.
THEOREM SingleTapHolds == Spec => []SingleTap
<1>1. SafetyInv => SingleTap
  BY DEF SafetyInv, AudioUnderTimer, SingleTap
<1> QED
  BY <1>1, SafetyInvariance, PTL

\* The microphone never runs without a reset ahead.
THEOREM MicrophoneHasDeadlineHolds == Spec => []MicrophoneHasDeadline
<1>1. SafetyInv => MicrophoneHasDeadline
  BY DEF SafetyInv, AudioUnderTimer, MicrophoneHasDeadline
<1> QED
  BY <1>1, SafetyInvariance, PTL

-----------------------------------------------------------------------------
(* The transcription.  What makes it safe to overwrite the current text is    *)
(* that a text of an older segment was filed before its successor began.      *)

Filed == 1 .. Len(finishedTranscriptions)

Unfinished == taskState \in {"running", "canceling"}

\* The filed texts are in order, and none is newer than the current one.
FiledInOrder ==
    /\ \A i, j \in Filed :
          i <= j => finishedTranscriptions[i].task <= finishedTranscriptions[j].task
    /\ \A i \in Filed :
          finishedTranscriptions[i].task <= currentBestTranscription.task
    /\ currentBestTranscription.task <= repeatRecognitionCounter

\* No text of the unfinished task is filed yet.
UnfinishedNotFiled ==
    Unfinished =>
       /\ repeatRecognitionCounter > 0
       /\ \A i \in Filed :
             finishedTranscriptions[i].task # repeatRecognitionCounter

\* A current text that belongs to an older task is filed.
OlderTextFiled ==
    \/ currentBestTranscription = NoText
    \/ /\ repeatRecognitionCounter > 0
       /\ currentBestTranscription.task = repeatRecognitionCounter
    \/ \E i \in Filed : finishedTranscriptions[i] = currentBestTranscription

TextInv == FiledInOrder /\ UnfinishedNotFiled /\ OlderTextFiled

LEMMA InitTextInv == Init => TextInv
<1> SUFFICES ASSUME Init PROVE TextInv
  OBVIOUS
<1>1. /\ Len(finishedTranscriptions) = 0
      /\ currentBestTranscription = NoText
      /\ repeatRecognitionCounter = 0
      /\ taskState = "nil"
  BY DEF Init
<1> QED
  BY <1>1
  DEF TextInv, FiledInOrder, UnfinishedNotFiled, OlderTextFiled, Filed,
      Unfinished, NoText

\* A step that touches no text and begins no task.
LEMMA SameTextsTextInv ==
  ASSUME TextInv,
         UNCHANGED <<finishedTranscriptions, currentBestTranscription,
                     repeatRecognitionCounter>>,
         Unfinished' => Unfinished
  PROVE  TextInv'
BY DEF TextInv, FiledInOrder, UnfinishedNotFiled, OlderTextFiled, Filed

\* The elements of a transcription after a restart.
LEMMA FiledAfterRestart ==
  ASSUME SafetyInv,
         finishedTranscriptions' =
             Append(finishedTranscriptions, currentBestTranscription)
  PROVE  /\ Len(finishedTranscriptions) \in Nat
         /\ Filed' = Filed \cup {Len(finishedTranscriptions) + 1}
         /\ \A i \in Filed :
               finishedTranscriptions'[i] = finishedTranscriptions[i]
         /\ finishedTranscriptions'[Len(finishedTranscriptions) + 1] =
               currentBestTranscription
         /\ \A i \in Filed : i <= Len(finishedTranscriptions)
<1>1. finishedTranscriptions \in Seq(Texts)
  BY DEF SafetyInv, TypeOK
<1>2. currentBestTranscription \in Texts
  BY DEF SafetyInv, TypeOK
<1> QED
  BY <1>1, <1>2 DEF Filed

\* The tasks of texts are numbers.
LEMMA TasksAreNumbers ==
  ASSUME SafetyInv
  PROVE  /\ \A i \in Filed : finishedTranscriptions[i] \in Texts
         /\ \A i \in Filed : finishedTranscriptions[i].task \in Nat
         /\ currentBestTranscription.task \in Nat
         /\ repeatRecognitionCounter \in Nat
<1>1. finishedTranscriptions \in Seq(Texts)
  BY DEF SafetyInv, TypeOK
<1>2. \A i \in Filed : finishedTranscriptions[i] \in Texts
  BY <1>1 DEF Filed
<1>3. currentBestTranscription \in Texts
  BY DEF SafetyInv, TypeOK
<1>4. repeatRecognitionCounter \in Nat
  BY BoundsAssumption DEF SafetyInv, TypeOK
<1>5. \A text \in Texts : text.task \in Nat
  BY BoundsAssumption DEF Texts
<1> QED
  BY <1>2, <1>3, <1>4, <1>5

LEMMA RestartTextInv ==
  ASSUME SafetyInv, TextInv, NEW engine, taskState = "completed",
         RestartRecognition(engine, 0)
  PROVE  TextInv'
<1>1. /\ finishedTranscriptions' =
             Append(finishedTranscriptions, currentBestTranscription)
      /\ currentBestTranscription' = currentBestTranscription
  BY DEF RestartRecognition
<1>2. \/ /\ repeatRecognitionCounter' = repeatRecognitionCounter + 1
         /\ taskState' = "running"
      \/ /\ repeatRecognitionCounter' = repeatRecognitionCounter
         /\ taskState' = "completed"
  BY DEF RestartRecognition, RecordAndRecognizeSpeech
<1> DEFINE last == Len(finishedTranscriptions) + 1
<1>3. /\ last \in Nat
      /\ Filed' = Filed \cup {last}
      /\ \A i \in Filed : finishedTranscriptions'[i] = finishedTranscriptions[i]
      /\ finishedTranscriptions'[last] = currentBestTranscription
      /\ \A i \in Filed : i \in Nat /\ i < last
  BY <1>1, FiledAfterRestart DEF Filed
<1>4. /\ \A i \in Filed : finishedTranscriptions[i].task \in Nat
      /\ currentBestTranscription.task \in Nat
      /\ repeatRecognitionCounter \in Nat
  BY TasksAreNumbers
<1> HIDE DEF last
<1>5. FiledInOrder'
  <2>1. ASSUME NEW i \in Filed', NEW j \in Filed', i <= j
        PROVE  finishedTranscriptions'[i].task <= finishedTranscriptions'[j].task
    <3>1. CASE i \in Filed /\ j \in Filed
      BY <1>3, <2>1, <3>1 DEF TextInv, FiledInOrder
    <3>2. CASE i \in Filed /\ j = last
      BY <1>3, <3>2 DEF TextInv, FiledInOrder
    <3>3. CASE i = last /\ j = last
      <4>1. finishedTranscriptions'[j] = currentBestTranscription
        BY <1>3, <3>3
      <4>2. currentBestTranscription.task <= currentBestTranscription.task
        BY <1>4
      <4> QED
        BY <3>3, <4>1, <4>2
    <3>4. i = last => j \notin Filed
      <4> SUFFICES ASSUME i = last, j \in Filed PROVE FALSE
        OBVIOUS
      <4>1. j \in Nat /\ j < i
        BY <1>3
      <4>2. i \in Nat
        BY <1>3
      <4> QED
        BY <2>1, <4>1, <4>2
    <3> QED
      BY <1>3, <3>1, <3>2, <3>3, <3>4
  <2>2. ASSUME NEW i \in Filed'
        PROVE  finishedTranscriptions'[i].task <= currentBestTranscription'.task
    <3>1. CASE i \in Filed
      BY <1>1, <1>3, <3>1 DEF TextInv, FiledInOrder
    <3>2. CASE i = last
      <4>1. finishedTranscriptions'[i] = currentBestTranscription
        BY <1>3, <3>2
      <4>2. currentBestTranscription.task <= currentBestTranscription.task
        BY <1>4
      <4> QED
        BY <1>1, <4>1, <4>2
    <3> QED
      BY <1>3, <3>1, <3>2
  <2>3. currentBestTranscription'.task <= repeatRecognitionCounter'
    BY <1>1, <1>2, <1>4 DEF TextInv, FiledInOrder
  <2> QED
    BY <2>1, <2>2, <2>3 DEF FiledInOrder
<1>6. UnfinishedNotFiled'
  <2> SUFFICES ASSUME Unfinished'
               PROVE  /\ repeatRecognitionCounter' > 0
                      /\ \A i \in Filed' : finishedTranscriptions'[i].task
                                             # repeatRecognitionCounter'
    BY DEF UnfinishedNotFiled
  <2>1. repeatRecognitionCounter' = repeatRecognitionCounter + 1
    BY <1>2 DEF Unfinished
  <2>2. \A i \in Filed' : /\ finishedTranscriptions'[i].task \in Nat
                          /\ finishedTranscriptions'[i].task
                                 <= repeatRecognitionCounter
    BY <1>3, <1>4 DEF TextInv, FiledInOrder
  <2> QED
    BY <1>4, <2>1, <2>2
<1>7. OlderTextFiled'
  BY <1>1, <1>3 DEF OlderTextFiled
<1> QED
  BY <1>5, <1>6, <1>7 DEF TextInv

LEMMA ResultTextInv ==
  ASSUME SafetyInv, TextInv, ResultHandler
  PROVE  TextInv'
<1>1. PICK k \in 1 .. MaxWords :
         currentBestTranscription' =
             [task |-> repeatRecognitionCounter, words |-> k]
  BY DEF ResultHandler
<1>2. /\ finishedTranscriptions' = finishedTranscriptions
      /\ repeatRecognitionCounter' = repeatRecognitionCounter
      /\ taskState' = taskState
  BY DEF ResultHandler
<1>3. /\ \A i \in Filed : finishedTranscriptions[i].task \in Nat
      /\ currentBestTranscription.task \in Nat
      /\ repeatRecognitionCounter \in Nat
  BY TasksAreNumbers
<1>4. FiledInOrder'
  BY <1>1, <1>2, <1>3 DEF TextInv, FiledInOrder, Filed
<1>5. UnfinishedNotFiled'
  BY <1>2 DEF TextInv, UnfinishedNotFiled, Unfinished, Filed
<1>6. OlderTextFiled'
  <2>1. repeatRecognitionCounter > 0
    BY DEF TextInv, UnfinishedNotFiled, Unfinished, ResultHandler
  <2> QED
    BY <1>1, <1>2, <2>1 DEF OlderTextFiled
<1> QED
  BY <1>4, <1>5, <1>6 DEF TextInv

LEMMA StartTextInv ==
  ASSUME SafetyInv, TextInv, StartRecognition
  PROVE  TextInv'
<1>1. /\ Len(finishedTranscriptions) = 0
      /\ repeatRecognitionCounter = 0
      /\ taskState = "nil"
  BY DEF SafetyInv, StartRecognition, Untouched
<1>2. /\ finishedTranscriptions' = finishedTranscriptions
      /\ currentBestTranscription' = currentBestTranscription
  BY DEF StartRecognition
<1>3. \/ repeatRecognitionCounter' = 1 /\ taskState' = "running"
      \/ repeatRecognitionCounter' = 0 /\ taskState' = "nil"
  BY <1>1 DEF StartRecognition, RecordAndRecognizeSpeech
<1>4. currentBestTranscription.task \in Nat
  BY TasksAreNumbers
<1>5. currentBestTranscription = NoText
  BY <1>1, <1>4 DEF TextInv, FiledInOrder, OlderTextFiled, Filed
<1> QED
  BY <1>1, <1>2, <1>3, <1>5
  DEF TextInv, FiledInOrder, UnfinishedNotFiled, OlderTextFiled, Filed,
      Unfinished, NoText

LEMMA NextTextInv == SafetyInv /\ TextInv /\ [Next]_speechVars => TextInv'
<1> SUFFICES ASSUME SafetyInv, TextInv, [Next]_speechVars PROVE TextInv'
  OBVIOUS
<1>1. CASE StartRecognition
  BY <1>1, StartTextInv
<1>2. CASE StopRecognition
  BY <1>2, SameTextsTextInv DEF StopRecognition, Cancelled, Unfinished
<1>3. CASE ResetAndRestart
  BY <1>3, RestartTextInv DEF ResetAndRestart
<1>4. CASE ResetAndWait
  BY <1>4, SameTextsTextInv
  DEF ResetAndWait, ScheduleCheck, Cancelled, Unfinished
<1>5. CASE CheckAndRestart
  <2>1. taps = 0
    BY <1>5 DEF CheckAndRestart, SafetyInv, AudioUnderTimer
  <2> QED
    BY <1>5, <2>1, RestartTextInv DEF CheckAndRestart
<1>6. CASE CheckAgain
  BY <1>6, SameTextsTextInv DEF CheckAgain, ScheduleCheck, Unfinished
<1>7. CASE ResultHandler
  BY <1>7, ResultTextInv
<1>8. CASE TaskEnds
  BY <1>8, SameTextsTextInv DEF TaskEnds, Unfinished
<1>9. CASE CancellationCompletes
  BY <1>9, SameTextsTextInv DEF CancellationCompletes, Unfinished
<1>10. CASE UNCHANGED speechVars
  BY <1>10, SameTextsTextInv DEF speechVars, Unfinished
<1> QED
  BY <1>1, <1>2, <1>3, <1>4, <1>5, <1>6, <1>7, <1>8, <1>9, <1>10 DEF Next

THEOREM TextInvariance == Spec => [](SafetyInv /\ TextInv)
BY InitSafetyInv, NextSafetyInv, InitTextInv, NextTextInv, PTL DEF Spec

\* The segments of the whole transcription stand in the order of their tasks.
THEOREM SegmentsInOrderHolds == Spec => []SegmentsInOrder
<1>1. SafetyInv /\ TextInv => SegmentsInOrder
  <2> SUFFICES ASSUME SafetyInv, TextInv,
                      NEW i \in DOMAIN FullTranscription,
                      NEW j \in DOMAIN FullTranscription,
                      i <= j
               PROVE  FullTranscription[i].task <= FullTranscription[j].task
    BY DEF SegmentsInOrder
  <2> DEFINE last == Len(finishedTranscriptions) + 1
  <2>1. /\ last \in Nat
        /\ DOMAIN FullTranscription = Filed \cup {last}
        /\ \A n \in Filed : FullTranscription[n] = finishedTranscriptions[n]
        /\ FullTranscription[last] = currentBestTranscription
        /\ \A n \in Filed : n \in Nat /\ n < last
    BY DEF SafetyInv, TypeOK, Filed, FullTranscription
  <2>2. currentBestTranscription.task \in Nat
    BY TasksAreNumbers
  <2> HIDE DEF last
  <2>3. CASE i \in Filed /\ j \in Filed
    BY <2>1, <2>3 DEF TextInv, FiledInOrder
  <2>4. CASE i \in Filed /\ j = last
    BY <2>1, <2>4 DEF TextInv, FiledInOrder
  <2>5. CASE i = last /\ j = last
    BY <2>1, <2>2, <2>5
  <2>6. i = last => j \notin Filed
    BY <2>1
  <2> QED
    BY <2>1, <2>3, <2>4, <2>5, <2>6
<1> QED
  BY <1>1, TextInvariance, PTL

-----------------------------------------------------------------------------
(* The manager implements Notebook.                                           *)

\* The notes, in terms of the filed texts.
FiledOrCurrent ==
    NotesTaken = ({finishedTranscriptions[i] : i \in Filed}
                     \cup {currentBestTranscription}) \ {NoText}

LEMMA NotesAreFiledOrCurrent == SafetyInv => FiledOrCurrent
<1> SUFFICES ASSUME SafetyInv PROVE FiledOrCurrent
  OBVIOUS
<1>1. /\ DOMAIN FullTranscription = Filed \cup {Len(finishedTranscriptions) + 1}
      /\ \A n \in Filed : FullTranscription[n] = finishedTranscriptions[n]
      /\ FullTranscription[Len(finishedTranscriptions) + 1]
             = currentBestTranscription
  BY DEF SafetyInv, TypeOK, Filed, FullTranscription
<1> QED
  BY <1>1 DEF FiledOrCurrent, NotesTaken

\* Filing a text again, or for the first time, leaves the notes as they are.
LEMMA RestartKeepsNotes ==
  ASSUME SafetyInv, SafetyInv', NEW engine, NEW tapCount,
         RestartRecognition(engine, tapCount)
  PROVE  NotesTaken' = NotesTaken
<1>1. /\ finishedTranscriptions' =
             Append(finishedTranscriptions, currentBestTranscription)
      /\ currentBestTranscription' = currentBestTranscription
  BY DEF RestartRecognition
<1>2. {finishedTranscriptions'[i] : i \in Filed'}
        = {finishedTranscriptions[i] : i \in Filed}
             \cup {currentBestTranscription}
  BY <1>1, FiledAfterRestart
<1>3. FiledOrCurrent /\ FiledOrCurrent'
  BY NotesAreFiledOrCurrent, PTL
<1> QED
  BY <1>1, <1>2, <1>3 DEF FiledOrCurrent, NoText

LEMMA SameTextsKeepNotes ==
  ASSUME UNCHANGED <<finishedTranscriptions, currentBestTranscription>>
  PROVE  NotesTaken' = NotesTaken
BY DEF NotesTaken, FullTranscription, NoText

\* A result revises the note of the unfinished segment and no other.
LEMMA ResultRevises ==
  ASSUME SafetyInv, SafetyInv', TextInv, ResultHandler
  PROVE  \E n \in Tasks, k \in 1 .. MaxWords : Notes!Revise(n, k)
<1> DEFINE n == repeatRecognitionCounter
           filed == {finishedTranscriptions[i] : i \in Filed}
<1>1. PICK k \in 1 .. MaxWords :
         currentBestTranscription' = [task |-> n, words |-> k]
  BY DEF ResultHandler
<1>2. finishedTranscriptions' = finishedTranscriptions
  BY DEF ResultHandler
<1>3. /\ n > 0
      /\ \A text \in filed : text.task # n
  BY DEF TextInv, UnfinishedNotFiled, Unfinished, ResultHandler
<1>4. n \in Tasks
  BY <1>3, BoundsAssumption DEF SafetyInv, TypeOK, Tasks
<1>5. /\ currentBestTranscription.task <= n
      /\ \A text \in filed : text.task <= n
  BY TasksAreNumbers DEF TextInv, FiledInOrder
<1>6. /\ NotesTaken = (filed \cup {currentBestTranscription}) \ {NoText}
      /\ NotesTaken' = (filed \cup {currentBestTranscription'}) \ {NoText}
  <2>1. FiledOrCurrent /\ FiledOrCurrent'
    BY NotesAreFiledOrCurrent, PTL
  <2> QED
    BY <1>2, <2>1 DEF FiledOrCurrent, Filed, NoText
<1>7. \/ currentBestTranscription = NoText
      \/ currentBestTranscription.task = n
      \/ currentBestTranscription \in filed
  BY DEF TextInv, OlderTextFiled
<1>8. [task |-> n, words |-> k] # NoText
  BY <1>3 DEF NoText
<1> HIDE DEF filed, n
<1>9. \A note \in NotesTaken : note.task <= n
  BY <1>5, <1>6
<1>10. NotesTaken' = {note \in NotesTaken : note.task # n}
                       \cup {[task |-> n, words |-> k]}
  BY <1>1, <1>3, <1>6, <1>7, <1>8
<1>11. Notes!Revise(n, k)
  BY <1>9, <1>10 DEF Notes!Revise
<1> QED
  BY <1>4, <1>11

LEMMA StepImplementsNotebook ==
  SafetyInv /\ SafetyInv' /\ TextInv /\ [Next]_speechVars
     => [Notes!Next]_NotesTaken
<1> SUFFICES ASSUME SafetyInv, SafetyInv', TextInv, [Next]_speechVars
             PROVE  Notes!Next \/ NotesTaken' = NotesTaken
  OBVIOUS
<1>1. CASE ResultHandler
  BY <1>1, ResultRevises DEF Notes!Next
<1>2. CASE ResetAndRestart
  BY <1>2, RestartKeepsNotes DEF ResetAndRestart
<1>3. CASE CheckAndRestart
  BY <1>3, RestartKeepsNotes DEF CheckAndRestart
<1>4. CASE \/ StartRecognition \/ StopRecognition \/ ResetAndWait
           \/ CheckAgain \/ TaskEnds \/ CancellationCompletes
           \/ UNCHANGED speechVars
  <2>1. UNCHANGED <<finishedTranscriptions, currentBestTranscription>>
    BY <1>4
    DEF StartRecognition, StopRecognition, ResetAndWait, CheckAgain,
        ScheduleCheck, TaskEnds, CancellationCompletes, speechVars
  <2> QED
    BY <2>1, SameTextsKeepNotes
<1> QED
  BY <1>1, <1>2, <1>3, <1>4 DEF Next

\* Whatever restarts, stops and late results happen, no text of an earlier
\* segment is lost or changed.
THEOREM ImplementsNotebook == Spec => NotebookSpec
<1>1. Init => Notes!Init
  <2> SUFFICES ASSUME Init PROVE NotesTaken = {}
    BY DEF Notes!Init
  <2>1. FullTranscription = <<NoText>>
    BY DEF Init, FullTranscription
  <2> QED
    BY <2>1 DEF NotesTaken
<1> QED
  BY <1>1, StepImplementsNotebook, TextInvariance, PTL
  DEF Spec, NotebookSpec, Notes!Spec

-----------------------------------------------------------------------------
(* What a step may not do.                                                    *)

\* A task is only replaced once it is completed.
THEOREM ReplacesOnlyCompletedTaskHolds == Spec => ReplacesOnlyCompletedTask
<1> DEFINE Kept == repeatRecognitionCounter' # repeatRecognitionCounter
                      => taskState \in {"nil", "completed"}
<1>1. SafetyInv /\ [Next]_speechVars => [Kept]_speechVars
  <2> SUFFICES ASSUME SafetyInv, Next,
                      repeatRecognitionCounter' # repeatRecognitionCounter
               PROVE  taskState \in {"nil", "completed"}
    OBVIOUS
  <2>1. StartRecognition \/ ResetAndRestart \/ CheckAndRestart
    BY DEF Next, StopRecognition, ResetAndWait, CheckAgain, ScheduleCheck,
           ResultHandler, TaskEnds, CancellationCompletes
  <2> QED
    BY <2>1 DEF StartRecognition, ResetAndRestart, CheckAndRestart, SafetyInv,
                Untouched
<1> QED
  BY <1>1, SafetyInvariance, PTL DEF Spec, ReplacesOnlyCompletedTask

\* A stop with no check scheduled silences the manager for good.
THEOREM StopOutsideResetIsFinalHolds == Spec => StopOutsideResetIsFinal
<1> DEFINE Final == /\ (control = "started" /\ control' = "stopped"
                           /\ pendingChecks = 0) => Quiet'
                    /\ Quiet => Quiet'
<1>1. SafetyInv /\ [Next]_speechVars => [Final]_speechVars
  <2> SUFFICES ASSUME SafetyInv, Next PROVE Final
    OBVIOUS
  <2>1. CASE StopRecognition
    BY <2>1 DEF StopRecognition, Quiet
  <2>2. CASE StartRecognition
    BY <2>2 DEF StartRecognition, Quiet
  <2>3. CASE ResetAndRestart \/ ResetAndWait
    <3>1. resetTimer /\ control' = control
      BY <2>3 DEF ResetAndRestart, ResetAndWait, ResetTimerFires,
                  RestartRecognition, ScheduleCheck
    <3> QED
      BY <3>1 DEF Quiet
  <2>4. CASE CheckAndRestart \/ CheckAgain
    <3>1. pendingChecks # 0 /\ control' = control
      BY <2>4 DEF CheckAndRestart, CheckAgain, RestartRecognition,
                  ScheduleCheck
    <3> QED
      BY <3>1 DEF Quiet
  <2>5. CASE ResultHandler \/ TaskEnds \/ CancellationCompletes
    BY <2>5 DEF ResultHandler, TaskEnds, CancellationCompletes, Quiet
  <2> QED
    BY <2>1, <2>2, <2>3, <2>4, <2>5 DEF Next
<1> QED
  BY <1>1, SafetyInvariance, PTL DEF Spec, StopOutsideResetIsFinal
===============================================================================
