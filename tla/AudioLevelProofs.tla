--------------------------- MODULE AudioLevelProofs ---------------------------
(***************************************************************************)
(* Theorems about the wave, for any volumes a buffer may have: it stays     *)
(* within its view, and settles when the volume does.                      *)
(***************************************************************************)
EXTENDS AudioLevel, SequenceTheorems, TLAPS

-----------------------------------------------------------------------------
(* What the list and the wave can be.                                        *)

Levels == 0 .. MaximumLevel

WaveInv ==
    /\ volumeFloat \in Nat
    /\ levelList \in Seq(Levels)
    /\ Len(levelList) <= LevelListLimit
    /\ amplitude \in IdleAmplitude .. MaximumLevel

LEMMA LimitedLevels == \A level \in Nat : Limited(level) \in Levels
  BY DEF Limited, Levels, MaximumLevel

\* The list after an update: the newest level is its last, and the one before, if
\* there was one, its first.
LEMMA UpdatedLevels ==
  ASSUME WaveInv, NEW level \in Nat
  PROVE  LET levels == LastLevels(level) IN
         /\ levels \in Seq(Levels)
         /\ Len(levels) = IF levelList = <<>> THEN 1 ELSE 2
         /\ levels[Len(levels)] = Limited(level)
         /\ levelList # <<>> => levels[1] = levelList[Len(levelList)]
  <1> DEFINE new == Limited(level)
             Updated(levels) ==
                /\ levels \in Seq(Levels)
                /\ Len(levels) = IF levelList = <<>> THEN 1 ELSE 2
                /\ levels[Len(levels)] = new
                /\ levelList # <<>> => levels[1] = levelList[Len(levelList)]
  <1>1. /\ levelList \in Seq(Levels) /\ new \in Levels
        /\ Len(levelList) \in Nat /\ Len(levelList) <= 2
    BY LimitedLevels DEF WaveInv, LevelListLimit
  <1> HIDE DEF new
  <1>2. CASE Len(levelList) < 2
    <2>1. LastLevels(level) = Append(levelList, new)
      BY <1>2 DEF LastLevels, LevelListLimit, new
    <2>2. /\ Append(levelList, new) \in Seq(Levels)
          /\ Len(Append(levelList, new)) = Len(levelList) + 1
          /\ \A i \in 1 .. Len(levelList) : Append(levelList, new)[i] = levelList[i]
          /\ Append(levelList, new)[Len(levelList) + 1] = new
      BY <1>1, AppendProperties
    <2>3. levelList = <<>> <=> Len(levelList) = 0
      BY <1>1
    <2>4. Updated(Append(levelList, new))
      BY <1>1, <1>2, <2>2, <2>3
    <2>5. QED BY <2>1, <2>4 DEF new
  <1>3. CASE ~(Len(levelList) < 2)
    <2> DEFINE rest == Tail(levelList)
    <2>1. Len(levelList) = 2
      <3>1. Len(levelList) \in Nat /\ Len(levelList) <= 2 /\ ~(Len(levelList) < 2)
        BY <1>1, <1>3
      <3>2. \A n \in Nat : n <= 2 /\ ~(n < 2) => n = 2
        OBVIOUS
      <3>3. QED BY <3>1, <3>2, Zenon
    <2>2. rest \in Seq(Levels) /\ Len(rest) = 1 /\ rest[1] = levelList[2]
      <3>1. levelList \in Seq(Levels) /\ levelList # <<>>
        BY <1>1, <2>1
      <3>2. /\ rest \in Seq(Levels)
            /\ Len(rest) = Len(levelList) - 1
            /\ \A i \in 1 .. Len(rest) : rest[i] = levelList[i + 1]
        BY <3>1, HeadTailProperties
      <3>3. QED BY <2>1, <3>2
    <2>3. LastLevels(level) = Append(rest, new)
      BY <1>3 DEF LastLevels, LevelListLimit, new
    <2> HIDE DEF rest
    <2>4. /\ Append(rest, new) \in Seq(Levels)
          /\ Len(Append(rest, new)) = Len(rest) + 1
          /\ \A i \in 1 .. Len(rest) : Append(rest, new)[i] = rest[i]
          /\ Append(rest, new)[Len(rest) + 1] = new
      <3>1. rest \in Seq(Levels) /\ new \in Levels
        BY <1>1, <2>2
      <3>2. QED BY <3>1, AppendProperties
    <2>5. Updated(Append(rest, new))
      BY <2>1, <2>2, <2>4
    <2>6. QED BY <2>3, <2>5 DEF new
  <1>4. QED BY <1>2, <1>3

\* What is drawn lies between the levels it is drawn for.
LEMMA AverageIsALevel ==
  ASSUME NEW levels \in Seq(Levels), Len(levels) \in {1, 2}
  PROVE  /\ AverageLevel(levels) \in Levels
         /\ levels[1] = levels[Len(levels)] => AverageLevel(levels) = levels[1]
  <1>1. levels[1] \in Levels /\ levels[Len(levels)] \in Levels
    OBVIOUS
  <1>2. AverageLevel(levels) = (levels[1] + levels[Len(levels)]) \div 2
    BY DEF AverageLevel, Last, LevelListLimit
  <1>3. \A a, b \in 0 .. 200 : (a + b) \div 2 \in 0 .. 200 /\ (a + a) \div 2 = a
    OBVIOUS
  <1>4. levels[1] \in 0 .. 200 /\ levels[Len(levels)] \in 0 .. 200
    BY <1>1 DEF Levels, MaximumLevel
  <1>5. (levels[1] + levels[Len(levels)]) \div 2 \in 0 .. 200
    BY <1>3, <1>4
  <1>6. levels[1] = levels[Len(levels)] => (levels[1] + levels[Len(levels)]) \div 2 = levels[1]
    BY <1>3, <1>4
  <1>7. QED BY <1>2, <1>5, <1>6 DEF Levels, MaximumLevel

LEMMA NextWaveInv == WaveInv /\ [Next]_vars => WaveInv'
  <1> SUFFICES ASSUME WaveInv, [Next]_vars PROVE WaveInv'
    OBVIOUS
  <1>1. CASE UpdateAudioWave
    <2>1. /\ volumeFloat' = volumeFloat /\ volumeFloat \in Nat /\ 25 * volumeFloat \in Nat
          /\ levelList' = LastLevels(25 * volumeFloat)
          /\ amplitude' = IF AverageLevel(levelList') > IdleAmplitude
                          THEN AverageLevel(levelList') ELSE IdleAmplitude
      BY <1>1 DEF UpdateAudioWave, WaveInv
    <2>2. /\ levelList' \in Seq(Levels) /\ Len(levelList') \in {1, 2}
      BY <2>1, UpdatedLevels
    <2>3. AverageLevel(levelList') \in 0 .. 200
      BY <2>2, AverageIsALevel DEF Levels, MaximumLevel
    <2>4. amplitude' \in 2 .. 200
      BY <2>1, <2>3 DEF IdleAmplitude
    <2>5. volumeFloat' \in Nat
      BY <2>1
    <2>6. \A n \in {1, 2} : n <= 2
      OBVIOUS
    <2>7. Len(levelList') <= 2
      BY <2>2, <2>6, Zenon
    <2>8. QED BY <2>2, <2>4, <2>5, <2>7 DEF WaveInv, LevelListLimit, IdleAmplitude, MaximumLevel
  <1>2. CASE UpdateVolume
    BY <1>2, VolumesAssumption DEF UpdateVolume, WaveInv
  <1>3. CASE UNCHANGED <<volumeFloat, levelList, amplitude>>
    BY <1>3 DEF WaveInv
  <1>4. QED
    BY <1>1, <1>2, <1>3 DEF Next, StartListening, StopListening, ResetTap, vars

\* Whatever is heard, and whenever the audio thread stores it, the wave is neither
\* flatter than the idle one nor higher than its view.
THEOREM WaveWithinView == Spec => [](amplitude \in IdleAmplitude .. MaximumLevel)
  <1>1. Init => WaveInv
    BY DEF Init, WaveInv, Levels, LevelListLimit, IdleAmplitude, MaximumLevel
  <1>2. WaveInv => amplitude \in IdleAmplitude .. MaximumLevel
    BY DEF WaveInv
  <1>3. QED BY <1>1, <1>2, NextWaveInv, PTL DEF Spec

-----------------------------------------------------------------------------
(* Two updates of the timer forget every other volume.                       *)

\* One update of a steady volume has been made.
NewestRight(volume) ==
    levelList # <<>> /\ levelList[Len(levelList)] = Limited(25 * volume)

LEMMA RestIsSettled ==
  ASSUME NEW volume \in Volumes
  PROVE  AtRest(volume) => amplitude = SettledAmplitude(volume)
  <1>1. volume \in Nat
    BY VolumesAssumption
  <1>2. QED BY <1>1 DEF AtRest, SettledAmplitude, Limited, IdleAmplitude, MaximumLevel

LEMMA SteadyUpdate ==
  ASSUME NEW volume \in Volumes, WaveInv, Steady(volume), UpdateAudioWave
  PROVE  NewestRight(volume)' /\ (NewestRight(volume) => AtRest(volume)')
  <1>1. /\ 25 * volume \in Nat
        /\ levelList' = LastLevels(25 * volume)
        /\ amplitude' = IF AverageLevel(levelList') > IdleAmplitude
                        THEN AverageLevel(levelList') ELSE IdleAmplitude
    BY VolumesAssumption DEF Steady, UpdateAudioWave
  <1>2. /\ levelList' \in Seq(Levels)
        /\ Len(levelList') = IF levelList = <<>> THEN 1 ELSE 2
        /\ levelList'[Len(levelList')] = Limited(25 * volume)
        /\ levelList # <<>> => levelList'[1] = levelList[Len(levelList)]
    BY <1>1, UpdatedLevels
  <1>3. NewestRight(volume)'
    BY <1>2 DEF NewestRight
  <1>4. ASSUME NewestRight(volume) PROVE AtRest(volume)'
    <2>1. /\ Len(levelList') = 2 /\ levelList'[1] = Limited(25 * volume)
          /\ levelList'[2] = Limited(25 * volume)
      BY <1>2, <1>4 DEF NewestRight
    <2>2. AverageLevel(levelList') = Limited(25 * volume)
      BY <1>2, <2>1, AverageIsALevel
    <2>3. \A i \in DOMAIN levelList' : levelList'[i] = Limited(25 * volume)
      BY <1>2, <2>1
    <2>4. QED BY <1>1, <2>1, <2>2, <2>3 DEF AtRest, LevelListLimit
  <1>5. QED BY <1>3, <1>4

LEMMA SteadyStep ==
  ASSUME NEW volume \in Volumes, WaveInv, Steady(volume), Steady(volume)', [Next]_vars
  PROVE  /\ NewestRight(volume) => NewestRight(volume)'
         /\ AtRest(volume) => AtRest(volume)'
  <1>1. CASE UpdateAudioWave
    <2>1. AtRest(volume) => NewestRight(volume)
      <3>1. levelList \in Seq(Levels)
        BY DEF WaveInv
      <3>2. QED BY <3>1 DEF AtRest, NewestRight, LevelListLimit
    <2>2. QED BY <1>1, <2>1, SteadyUpdate
  <1>2. CASE UNCHANGED <<levelList, amplitude>>
    BY <1>2 DEF NewestRight, AtRest
  <1>3. QED
    BY <1>1, <1>2 DEF Next, StartListening, StopListening, ResetTap, UpdateVolume, vars

\* When the volume stays the same, because the lecturer does or because a reset has
\* taken the tap away, the wave settles at its level: for any volumes.
THEOREM SteadyVolumeShownHolds == FairSpec /\ []TimerEnabled => SteadyVolumeShown
  <1>1. ASSUME NEW v \in Volumes
        PROVE  FairSpec /\ []TimerEnabled
                 => (<>[]Steady(v) => <>[](amplitude = SettledAmplitude(v)))
    <2>1. Init => WaveInv
      BY DEF Init, WaveInv, Levels, LevelListLimit, IdleAmplitude, MaximumLevel
    <2>2. WaveInv /\ Steady(v) /\ Steady(v)' /\ [Next]_vars =>
            /\ NewestRight(v) => NewestRight(v)'
            /\ AtRest(v) => AtRest(v)'
      BY SteadyStep
    <2>3. WaveInv /\ Steady(v) /\ <<UpdateAudioWave>>_vars =>
            NewestRight(v)' /\ (NewestRight(v) => AtRest(v)')
      BY SteadyUpdate
    <2>4. Steady(v) /\ ~AtRest(v) /\ TimerEnabled => ENABLED <<UpdateAudioWave>>_vars
      BY DEF Steady, TimerEnabled
    <2>5. AtRest(v) => amplitude = SettledAmplitude(v)
      BY RestIsSettled
    <2>6. QED BY <2>1, <2>2, <2>3, <2>4, <2>5, NextWaveInv, PTL DEF FairSpec, Spec
  <1>2. QED BY <1>1 DEF SteadyVolumeShown
===============================================================================
