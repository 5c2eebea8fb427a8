------------------------------ MODULE AudioLevel ------------------------------
(***************************************************************************)
(* The wave on the recording page: the audio thread stores the loudness of *)
(* its last buffer in the manager's volumeFloat, and a timer of            *)
(* AudioWaveView on the main thread reads it, limits it, and draws the     *)
(* average of the last two levels (Recording Page/                         *)
(* SpeechRecogitionManager.swift, Audio Wave Files/AudioWaveView.swift).   *)
(*                                                                         *)
(* Levels are counted in two-hundredths of the view's height, volumes are  *)
(* even, so that an average is a whole number.  The two threads share one  *)
(* float without a lock; its store is one instruction, so a read finds an  *)
(* older or a newer volume, never a mixture.                               *)
(***************************************************************************)
EXTENDS Naturals, SequencesExt

CONSTANT Volumes    \* loudness of a buffer, before it is multiplied by 25

ASSUME VolumesAssumption == \A v \in Volumes : v \in Nat /\ v % 2 = 0

VARIABLES
    tapped,         \* a tap is installed and the audio engine runs
    listening,      \* before, listening or stopped: updateAudioWaveTimer
    volumeFloat,
    levelList,
    amplitude       \* what WaveformView draws

vars == <<tapped, listening, volumeFloat, levelList, amplitude>>

MaximumLevel == 200
IdleAmplitude == 2
LevelListLimit == 2

Init ==
    /\ tapped = FALSE
    /\ listening = "before"
    /\ volumeFloat = 0
    /\ levelList = <<>>
    /\ amplitude = 60

\* The page appears: startRecognition, startListening.
StartListening ==
    /\ listening = "before"
    /\ listening' = "listening"
    /\ tapped' = TRUE
    /\ UNCHANGED <<volumeFloat, levelList, amplitude>>

StopListening ==
    /\ listening = "listening"
    /\ listening' = "stopped"
    /\ tapped' = FALSE
    /\ UNCHANGED <<volumeFloat, levelList, amplitude>>

\* A reset removes the tap and the restart installs it again, also the one that
\* comes after a stop (see SpeechRecognition); the wave is not told.
ResetTap ==
    /\ listening # "before"
    /\ tapped' = ~tapped
    /\ UNCHANGED <<listening, volumeFloat, levelList, amplitude>>

\* updateVolume, on the audio thread.
UpdateVolume ==
    /\ tapped
    /\ volumeFloat' \in Volumes
    /\ UNCHANGED <<tapped, listening, levelList, amplitude>>

\* updateWithAveragingLevel's list: the newest level, limited, comes last.
Limited(level) == IF level > MaximumLevel THEN MaximumLevel ELSE level

\* Mutant: the list keeps its oldest levels.
OldestLevels(level) ==
    IF Len(levelList) < LevelListLimit
    THEN Append(levelList, Limited(level)) ELSE levelList

LastLevels(level) ==
    IF Len(levelList) < LevelListLimit
    THEN Append(levelList, Limited(level))
    ELSE Append(Tail(levelList), Limited(level))

\* The list has one level, its first and its last, or two.
AverageLevel(levels) == (Head(levels) + Last(levels)) \div LevelListLimit

\* updateAudioWave, every 0.05 s while the timer runs.
UpdateAudioWave ==
    /\ listening = "listening"
    /\ levelList' = LastLevels(25 * volumeFloat)
    /\ amplitude' = IF AverageLevel(levelList') > IdleAmplitude
                    THEN AverageLevel(levelList') ELSE IdleAmplitude
    /\ UNCHANGED <<tapped, listening, volumeFloat>>

Next ==
    \/ StartListening \/ StopListening \/ ResetTap
    \/ UpdateVolume \/ UpdateAudioWave

Spec == Init /\ [][Next]_vars

\* The timer repeats.  A stop may never come, nor another buffer.
FairSpec == Spec /\ WF_vars(UpdateAudioWave)

\* The levels drawn are those of the volume there is now, and nothing moves.
AtRest(volume) ==
    /\ Len(levelList) = LevelListLimit
    /\ \A i \in DOMAIN levelList : levelList[i] = Limited(25 * volume)
    /\ amplitude = IF Limited(25 * volume) > IdleAmplitude
                   THEN Limited(25 * volume) ELSE IdleAmplitude

\* The timer moves a wave that is not at rest: what its fairness needs to be of use.
TimerEnabled ==
    listening = "listening" /\ ~AtRest(volumeFloat) => ENABLED <<UpdateAudioWave>>_vars

-----------------------------------------------------------------------------
\* What is drawn for a volume that does not change.
SettledAmplitude(volume) ==
    LET level == 25 * volume IN
    IF level > MaximumLevel THEN MaximumLevel
    ELSE IF level < IdleAmplitude THEN IdleAmplitude ELSE level

Steady(volume) == volumeFloat = volume /\ listening = "listening"

\* When the volume stays the same, because the lecturer does or because a reset
\* has taken the tap away, the wave settles at its level: no older level is
\* averaged in for ever, and none is lost by the limit.
SteadyVolumeShown ==
    \A v \in Volumes : <>[]Steady(v) => <>[](amplitude = SettledAmplitude(v))
===============================================================================
