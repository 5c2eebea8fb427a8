-------------------------- MODULE SubjectLibraryProofs --------------------------
(***************************************************************************)
(* Proofs about the subjects, for any names, loads, adds and deletes: the   *)
(* home page's tabs are right or about to be reloaded, and who waits for    *)
(* answers records under the subject whose tab is shown and deletes the one  *)
(* whose row was touched.                                                  *)
(***************************************************************************)
EXTENDS SubjectLibrary, SequenceTheorems, FiniteSetTheorems, WellFoundedInduction, TLAPS

-----------------------------------------------------------------------------
(* Types.                                                                    *)

LEMMA HasRecordingsBoolean == \A name : HasRecordings(name) \in BOOLEAN
  BY DEF HasRecordings

LEMMA SubjectFields ==
    /\ \A name \in Names, id \in Nat, has \in BOOLEAN :
          [name |-> name, load |-> id, hasRecordings |-> has] \in Subjects
    /\ \A subject \in Subjects : subject.name \in Names /\ subject.load \in Nat
    /\ \A subject \in Subjects : subject.hasRecordings \in BOOLEAN
    /\ \A subject \in Subjects, has \in BOOLEAN :
          [subject EXCEPT !.hasRecordings = has] \in Subjects
  BY DEF Subjects

LEMMA TabFields ==
    /\ \A name \in Names, has \in BOOLEAN :
          [name |-> name, hasRecordings |-> has] \in Tabs
    /\ \A tab \in Tabs, has \in BOOLEAN : [tab EXCEPT !.hasRecordings = has] \in Tabs
  BY DEF Tabs

\* Taking an element out leaves a sequence.
LEMMA RemoveAtType ==
    ASSUME NEW S, NEW s \in Seq(S), NEW i \in DOMAIN s
    PROVE  RemoveAt(s, i) \in Seq(S)
  <1>1. /\ i \in 1 .. Len(s) /\ Len(s) \in Nat
        /\ \A j \in 1 .. Len(s) : s[j] \in S
    OBVIOUS
  <1>2. SubSeq(s, 1, i - 1) \in Seq(S)
    <2>1. 1 \in Int /\ i - 1 \in Int /\ \A j \in 1 .. i - 1 : s[j] \in S
      BY <1>1
    <2>2. QED BY <2>1, SubSeqProperties
  <1>3. SubSeq(s, i + 1, Len(s)) \in Seq(S)
    <2>1. i + 1 \in Int /\ Len(s) \in Int /\ \A j \in i + 1 .. Len(s) : s[j] \in S
      BY <1>1
    <2>2. QED BY <2>1, SubSeqProperties
  <1>4. QED BY <1>2, <1>3, ConcatProperties DEF RemoveAt

LEMMA WithoutType ==
    ASSUME NEW docs \in Seq(SubjectDocs), NEW name
    PROVE  Without(docs, name) \in Seq(SubjectDocs)
  <1>1. CASE \E i \in DOMAIN docs : docs[i].name = name
    <2> DEFINE k == CHOOSE i \in DOMAIN docs : docs[i].name = name
    <2>1. k \in DOMAIN docs
      BY <1>1
    <2>2. Without(docs, name) = RemoveAt(docs, k)
      BY <1>1 DEF Without
    <2> HIDE DEF k
    <2>3. QED BY <2>1, <2>2, RemoveAtType
  <1>2. CASE ~\E i \in DOMAIN docs : docs[i].name = name
    BY <1>2 DEF Without
  <1>3. QED BY <1>1, <1>2

Loads == [id : 1 .. loadCalls, by : {"home", "settings"}, named : BOOLEAN,
          waitingFor : SUBSET Names, failed : BOOLEAN, index : Nat \ {0}]
Adds == [id : 1 .. MaxAdds, name : Names, popup : 1 .. MaxPopups,
         call : {"check", "setData", "load"}, load : 0 .. loadCalls]
Deletes == [id : 1 .. MaxDeletes, name : Names, withRecordings : BOOLEAN]

DocsType == subjectDocs \in Seq(SubjectDocs) /\ recordingDocs \subseteq Names

CacheType ==
    /\ subjects \in Seq(Subjects)
    /\ chosen \in Seq(Subjects) /\ Len(chosen) <= 1
    /\ screen = "deleteAlert" => Len(chosen) = 1

TabsType ==
    /\ tabs \in Seq(Tabs)
    /\ position = 1 \/ position \in DOMAIN tabs
    /\ recordings \in Seq(Recordings) /\ Len(recordings) <= MaxRecordings
    /\ screen = "recording" => recordings # <<>>

LoadsType == loads \subseteq Loads /\ loadCalls \in Nat

AddsType == adds \subseteq Adds /\ addCalls \in 0 .. MaxAdds

DeletesType == deletes \subseteq Deletes /\ deleteCalls \in 0 .. MaxDeletes

ScreenType ==
    /\ screen \in {"home", "popup", "existsAlert", "settings", "deleteAlert",
                   "recording"}
    /\ popup \in 0 .. MaxPopups
    /\ screen \in {"popup", "existsAlert"} => popup # 0
    /\ fades \in Nat

MishapsType == hurried \subseteq {"popup", "tabs", "settings"} /\ errors \in 0 .. MaxMishaps

FlagsType == faded \in BOOLEAN /\ shouldReloadOnAppear \in BOOLEAN /\ trapped \in BOOLEAN

TableType ==
    /\ rows \in Seq(Names)
    /\ tableDeletes \subseteq 1 .. MaxDeletes /\ tableLoads \subseteq 1 .. loadCalls
    /\ touched \in Seq(Names) /\ Len(touched) = Len(chosen)

TypeInv == /\ DocsType /\ CacheType /\ TabsType /\ LoadsType /\ AddsType
           /\ DeletesType /\ ScreenType /\ MishapsType /\ FlagsType /\ TableType

LEMMA NextDocsType ==
    ASSUME TypeInv, Next
    PROVE  DocsType'
  <1> USE DEF cloudVars
  <1>0. DocsType
    BY DEF TypeInv
  <1>1. CASE RecordingSaved
    <2>1. recordings \in Seq(Recordings) /\ recordings # <<>>
      BY <1>1 DEF TypeInv, TabsType, RecordingSaved
    <2>2. recordings[Len(recordings)] \in Recordings
      BY <2>1
    <2>3. Last(recordings).subject \in Names
      BY <2>2 DEF Last, Recordings
    <2>4. QED BY <1>0, <1>1, <2>3 DEF RecordingSaved, DocsType
  <1>2. CASE SubjectSet
    <2>1. PICK add \in adds :
             \/ subjectDocs' = Append(Without(subjectDocs, add.name),
                                      [name |-> add.name, by |-> add.id])
             \/ UNCHANGED subjectDocs
      BY <1>2 DEF SubjectSet
    <2>2. [name |-> add.name, by |-> add.id] \in SubjectDocs
      BY LibraryAssumption DEF TypeInv, AddsType, Adds, SubjectDocs
    <2>3. Without(subjectDocs, add.name) \in Seq(SubjectDocs)
      BY <1>0, WithoutType DEF DocsType
    <2>4. recordingDocs' = recordingDocs
      BY <1>2 DEF SubjectSet
    <2>5. QED BY <1>0, <2>1, <2>2, <2>3, <2>4 DEF DocsType
  <1>3. CASE SubjectDeleted
    <2>1. PICK delete \in deletes : DeleteStored(delete)
      BY <1>3 DEF SubjectDeleted, SubjectDeletedAnd
    <2>2. subjectDocs' \in {subjectDocs, Without(subjectDocs, delete.name)}
          /\ recordingDocs' \subseteq recordingDocs
      BY <2>1 DEF DeleteStored
    <2>3. QED BY <1>0, <2>2, WithoutType DEF DocsType
  <1>4. CASE UNCHANGED cloudVars
    BY <1>0, <1>4 DEF DocsType
  <1>5. ASSUME ~RecordingSaved, ~SubjectSet, ~SubjectDeleted
        PROVE  UNCHANGED cloudVars
    BY <1>5 DEF Next, Answer, PageVars, LoadedVars, SettingsVars,
         ShowTab, PressNewRecording, LeaveRecording, PressAddSubject, OpenSettings,
         CloseSettings, PressDismissPopup, PressAdd, BeginAdd, PressOk, PopupFaded,
         AlertFaded, PressSubject, ShowRow, PressCancel, PressDelete, SubjectsLoaded,
         RecordingsLoaded, SubjectsFailToLoad, RecordingsFailToLoad,
         SubjectChecked, SubjectAdded
  <1>6. QED BY <1>1, <1>2, <1>3, <1>4, <1>5

LEMMA SubjectsOfType ==
    ASSUME DocsType, NEW id \in Nat
    PROVE  /\ SubjectsOf(id) \in Seq(Subjects)
           /\ DOMAIN SubjectsOf(id) = DOMAIN subjectDocs
  <1>1. subjectDocs \in Seq(SubjectDocs)
    BY DEF DocsType
  <1>2. \A i \in DOMAIN subjectDocs :
           [name |-> subjectDocs[i].name, load |-> id, hasRecordings |-> FALSE]
              \in Subjects
    <2>1. \A i \in DOMAIN subjectDocs : subjectDocs[i] \in SubjectDocs
      BY <1>1
    <2>2. \A i \in DOMAIN subjectDocs : subjectDocs[i].name \in Names
      BY <2>1 DEF SubjectDocs
    <2>3. QED BY <2>2, SubjectFields
  <1>3. QED BY <1>1, <1>2 DEF SubjectsOf

LEMMA FilledType ==
    ASSUME NEW objects \in Seq(Subjects), NEW load, NEW name
    PROVE  /\ Filled(objects, load, name) \in Seq(Subjects)
           /\ DOMAIN Filled(objects, load, name) = DOMAIN objects
           /\ Len(Filled(objects, load, name)) = Len(objects)
  <1>1. \A i \in DOMAIN objects :
           /\ objects[i] \in Subjects
           /\ [objects[i] EXCEPT !.hasRecordings = HasRecordings(name)] \in Subjects
    BY HasRecordingsBoolean, SubjectFields
  <1>2. \A i \in DOMAIN objects : Filled(objects, load, name)[i] \in Subjects
    BY <1>1 DEF Filled
  <1>3. /\ DOMAIN Filled(objects, load, name) = 1 .. Len(objects)
        /\ Len(objects) \in Nat
    BY DEF Filled
  <1>4. Filled(objects, load, name) \in [1 .. Len(objects) -> Subjects]
    BY <1>2, <1>3 DEF Filled
  <1>5. QED BY <1>3, <1>4, SeqDef

LEMMA SingletonType ==
    ASSUME NEW S, NEW x \in S
    PROVE  <<x>> \in Seq(S) /\ Len(<<x>>) = 1
  OBVIOUS

LEMMA EmptyType ==
    ASSUME NEW S
    PROVE  <<>> \in Seq(S) /\ Len(<<>>) = 0
  OBVIOUS

LEMMA NextCacheType ==
    ASSUME TypeInv, Next
    PROVE  CacheType'
  <1> USE DEF screenVars, alertVars
  <1>0. CacheType /\ DocsType /\ LoadsType /\ AddsType
    BY DEF TypeInv
  <1>1. CASE SubjectsLoaded
    <2>1. PICK load \in loads : subjects' = SubjectsOf(load.id)
      BY <1>1 DEF SubjectsLoaded
    <2>2. load.id \in Nat
      BY <1>0 DEF LoadsType, Loads
    <2>3. QED BY <1>0, <1>1, <2>1, <2>2, SubjectsOfType
            DEF SubjectsLoaded, LoadedVars, CacheType
  <1>2. CASE RecordingsLoaded
    <2>1. \E load, name : /\ subjects' = Filled(subjects, load, name)
                          /\ chosen' = Filled(chosen, load, name)
      BY <1>2 DEF RecordingsLoaded
    <2>2. QED BY <1>0, <1>2, <2>1, FilledType
            DEF RecordingsLoaded, LoadedVars, CacheType
  <1>3. CASE SubjectAdded
    <2>1. PICK add \in adds : subjects' \in {subjects, SubjectsOf(add.load)}
      BY <1>3 DEF SubjectAdded
    <2>2. add.load \in Nat
      BY <1>0 DEF AddsType, Adds, LoadsType
    <2>3. QED BY <1>0, <1>3, <2>1, <2>2, SubjectsOfType DEF SubjectAdded, CacheType
  <1>4. CASE PressSubject
    <2>1. \/ \E i \in DOMAIN subjects : chosen' = <<subjects[i]>>
          \/ UNCHANGED <<chosen, screen>>
      BY <1>4 DEF PressSubject
    <2>2. subjects' = subjects
      BY <1>4 DEF PressSubject, SettingsVars
    <2>3. ASSUME NEW i \in DOMAIN subjects, chosen' = <<subjects[i]>>
          PROVE  chosen' \in Seq(Subjects) /\ Len(chosen') = 1
      <3>1. subjects[i] \in Subjects
        BY <1>0 DEF CacheType
      <3>2. QED BY <2>3, <3>1, SingletonType
    <2>4. \/ chosen' \in Seq(Subjects) /\ Len(chosen') = 1
          \/ UNCHANGED <<chosen, screen>>
      BY <2>1, <2>3, Zenon
    <2>5. QED BY <1>0, <2>2, <2>4 DEF CacheType
  <1>5. CASE PressCancel \/ PressDelete
    <2>1. chosen' = <<>> /\ subjects' = subjects /\ screen' = "settings"
      BY <1>5 DEF PressCancel, PressDelete, SettingsVars
    <2>2. QED BY <1>0, <2>1 DEF CacheType
  <1>6. CASE UNCHANGED <<subjects, chosen>> /\ (screen' = screen \/ screen' # "deleteAlert")
    BY <1>0, <1>6 DEF CacheType
  <1>7. CASE SubjectChecked
    <2>1. screen' = screen \/ screen' = "existsAlert"
      BY <1>7 DEF SubjectChecked
    <2>2. UNCHANGED <<subjects, chosen>>
      BY <1>7 DEF SubjectChecked
    <2>3. QED BY <1>6, <2>1, <2>2
  <1>8. CASE ShowTab \/ PressNewRecording \/ LeaveRecording \/ RecordingSaved
             \/ PressAddSubject \/ OpenSettings \/ CloseSettings
             \/ PressDismissPopup \/ PressAdd \/ PressOk \/ PopupFaded \/ AlertFaded
             \/ ShowRow
    BY <1>6, <1>8 DEF ShowTab, PressNewRecording, LeaveRecording, RecordingSaved,
         HomeAppears, PressAddSubject, OpenSettings, CloseSettings,
         PressDismissPopup, PressAdd, BeginAdd, PressOk, PopupFaded, AlertFaded,
         ShowRow, PageVars, SettingsVars
  <1>9. CASE SubjectsFailToLoad \/ RecordingsFailToLoad \/ SubjectSet \/ SubjectDeleted
    BY <1>6, <1>9 DEF SubjectsFailToLoad, RecordingsFailToLoad, SubjectSet,
         SubjectDeleted, SubjectDeletedAnd, LoadedVars, SettingsVars
  <1>10. QED BY <1>1, <1>2, <1>3, <1>4, <1>5, <1>7, <1>8, <1>9 DEF Next, Answer

\* Who rebuilds the tabs shows a page of them.
LEMMA CompletedTabs ==
    ASSUME NEW load, load.index \in Nat, subjects' \in Seq(Subjects), Completed(load)
    PROVE  \/ UNCHANGED <<tabs, position>>
           \/ /\ load.by = "home"
              /\ tabs' = [i \in DOMAIN subjects' |->
                             [name |-> subjects'[i].name,
                              hasRecordings |-> subjects'[i].hasRecordings]]
              /\ tabs' \in Seq(Tabs)
              /\ position' = 1 \/ position' \in DOMAIN tabs'
  <1>1. ASSUME tabs' = [i \in DOMAIN subjects' |->
                           [name |-> subjects'[i].name,
                            hasRecordings |-> subjects'[i].hasRecordings]]
        PROVE  tabs' \in Seq(Tabs)
    <2>1. \A i \in DOMAIN subjects' :
             [name |-> subjects'[i].name, hasRecordings |-> subjects'[i].hasRecordings]
                \in Tabs
      BY SubjectFields, TabFields
    <2>2. QED BY <1>1, <2>1
  <1>2. QED BY <1>1 DEF Completed, RestorePosition

LEMMA NextTabsType ==
    ASSUME TypeInv, CacheType', Next
    PROVE  TabsType'
  <1> USE DEF tabVars, screenVars
  <1>0. TabsType /\ CacheType /\ LoadsType
    BY DEF TypeInv
  <1>1. CASE SubjectsLoaded \/ RecordingsLoaded
    <2>1. \/ UNCHANGED <<tabs, position>>
          \/ \E load \in loads : Completed(load)
      BY <1>1 DEF SubjectsLoaded, RecordingsLoaded, Counted
    <2>2. UNCHANGED <<recordings, screen>>
      BY <1>1 DEF SubjectsLoaded, RecordingsLoaded, LoadedVars
    <2>3. \A load \in loads : load.index \in Nat
      BY <1>0 DEF LoadsType, Loads
    <2>4. subjects' \in Seq(Subjects)
      BY DEF CacheType
    <2>5. \/ UNCHANGED <<tabs, position>>
          \/ tabs' \in Seq(Tabs) /\ (position' = 1 \/ position' \in DOMAIN tabs')
      BY <2>1, <2>3, <2>4, CompletedTabs
    <2>6. QED BY <1>0, <2>2, <2>5 DEF TabsType
  <1>2. CASE ShowTab
    <2>1. PICK i \in DOMAIN tabs :
             /\ position' \in {position, i}
             /\ tabs' = IF i \in DOMAIN subjects
                        THEN [tabs EXCEPT ![i].hasRecordings =
                                 subjects[i].hasRecordings]
                        ELSE tabs
      BY <1>2 DEF ShowTab
    <2>2. UNCHANGED <<recordings, screen>>
      BY <1>2 DEF ShowTab
    <2>3. CASE i \in DOMAIN subjects
      <3>1. [tabs[i] EXCEPT !.hasRecordings = subjects[i].hasRecordings] \in Tabs
        <4>1. tabs[i] \in Tabs /\ subjects[i] \in Subjects
          BY <1>0, <2>3 DEF TabsType, CacheType
        <4>2. QED BY <4>1, SubjectFields, TabFields
      <3>2. tabs' = [tabs EXCEPT ![i] =
                        [tabs[i] EXCEPT !.hasRecordings = subjects[i].hasRecordings]]
        BY <2>1, <2>3
      <3>3. tabs' \in Seq(Tabs) /\ DOMAIN tabs' = DOMAIN tabs
        BY <1>0, <3>1, <3>2 DEF TabsType
      <3>4. QED BY <1>0, <2>1, <2>2, <3>3 DEF TabsType
    <2>4. CASE i \notin DOMAIN subjects
      BY <1>0, <2>1, <2>2, <2>4 DEF TabsType
    <2>5. QED BY <2>3, <2>4
  <1>3. CASE PressNewRecording
    <2>1. UNCHANGED <<tabs, position>> /\ tabs # <<>>
      BY <1>3 DEF PressNewRecording
    <2>2. position \in DOMAIN tabs
      BY <1>0, <2>1 DEF TabsType
    <2>3. CASE /\ position \in DOMAIN subjects
               /\ Len(recordings) < MaxRecordings
               /\ recordings' = Append(recordings,
                                   [tab |-> tabs[position].name,
                                    subject |-> subjects[position].name])
      <3>1. tabs[position] \in Tabs /\ subjects[position] \in Subjects
        BY <1>0, <2>2, <2>3 DEF TabsType, CacheType
      <3>2. [tab |-> tabs[position].name, subject |-> subjects[position].name]
               \in Recordings
        BY <3>1 DEF Tabs, Subjects, Recordings
      <3>3. /\ recordings' \in Seq(Recordings) /\ recordings' # <<>>
            /\ Len(recordings') = Len(recordings) + 1 /\ Len(recordings) \in Nat
        BY <1>0, <2>3, <3>2 DEF TabsType
      <3>4. QED BY <1>0, <2>1, <2>3, <3>3, LibraryAssumption DEF TabsType
    <2>4. CASE UNCHANGED <<recordings, screen>>
      BY <1>0, <2>1, <2>4 DEF TabsType
    <2>5. QED BY <1>3, <2>3, <2>4 DEF PressNewRecording
  <1>4. CASE /\ UNCHANGED <<tabs, position, recordings>>
             /\ screen' = screen \/ screen' # "recording"
    BY <1>0, <1>4 DEF TabsType
  <1>5. CASE LeaveRecording \/ RecordingSaved \/ PressAddSubject \/ OpenSettings
             \/ CloseSettings \/ PressDismissPopup \/ PressAdd \/ PressOk
             \/ PopupFaded \/ AlertFaded
    BY <1>4, <1>5 DEF LeaveRecording, RecordingSaved, HomeAppears,
         PressAddSubject, OpenSettings, CloseSettings, PressDismissPopup, PressAdd,
         BeginAdd, PressOk, PopupFaded, AlertFaded, PageVars
  <1>6. CASE PressSubject \/ ShowRow \/ PressCancel \/ PressDelete \/ SubjectDeleted
    BY <1>4, <1>6 DEF PressSubject, ShowRow, PressCancel, PressDelete, SubjectDeleted,
         SubjectDeletedAnd, SettingsVars
  <1>7. CASE SubjectsFailToLoad \/ RecordingsFailToLoad \/ SubjectSet \/ SubjectAdded
    BY <1>4, <1>7 DEF SubjectsFailToLoad, RecordingsFailToLoad, SubjectSet,
         SubjectAdded, LoadedVars
  <1>8. CASE SubjectChecked
    <2>1. screen' = screen \/ screen' = "existsAlert"
      BY <1>8 DEF SubjectChecked
    <2>2. QED BY <1>4, <1>8, <2>1 DEF SubjectChecked
  <1>9. QED BY <1>1, <1>2, <1>3, <1>5, <1>6, <1>7, <1>8 DEF Next, Answer

LEMMA LoadFields ==
    ASSUME LoadsType, NEW load \in loads
    PROVE  /\ load \in Loads
           /\ load.id \in 1 .. loadCalls /\ load.waitingFor \subseteq Names
           /\ \A names \in SUBSET Names :
                 [load EXCEPT !.named = TRUE, !.waitingFor = names] \in Loads
           /\ \A name :
                 /\ [load EXCEPT !.waitingFor = @ \ {name}] \in Loads
                 /\ [load EXCEPT !.waitingFor = @ \ {name}, !.failed = TRUE] \in Loads
           /\ [load EXCEPT !.named = TRUE, !.failed = TRUE] \in Loads
  BY DEF LoadsType, Loads

LEMMA BeginLoadType ==
    ASSUME LoadsType, TabsType, NEW by \in {"home", "settings"}, BeginLoad(by)
    PROVE  LoadsType'
  <1>1. /\ tabs \in Seq(Tabs) /\ (position = 1 \/ position \in DOMAIN tabs)
        /\ loadCalls \in Nat /\ loadCalls' = loadCalls + 1
    BY DEF LoadsType, TabsType, BeginLoad
  <1>2. position \in Nat \ {0}
    BY <1>1
  <1>3. loads \subseteq Loads'
    <2>1. 1 .. loadCalls \subseteq 1 .. loadCalls'
      BY <1>1
    <2>2. QED BY <2>1 DEF LoadsType, Loads
  <1> DEFINE new == [id |-> loadCalls + 1, by |-> by, named |-> FALSE,
                     waitingFor |-> {}, failed |-> FALSE,
                     index |-> IF by = "home" THEN position ELSE 1]
  <1>4. new \in Loads'
    <2>1. (IF by = "home" THEN position ELSE 1) \in Nat \ {0}
      BY <1>2
    <2>2. loadCalls + 1 \in 1 .. loadCalls'
      BY <1>1
    <2>3. QED BY <2>1, <2>2 DEF Loads
  <1>5. loads' = loads \cup {new}
    BY DEF BeginLoad
  <1> HIDE DEF new
  <1>6. QED BY <1>1, <1>3, <1>4, <1>5 DEF LoadsType

LEMMA NextLoadsType ==
    ASSUME TypeInv, Next
    PROVE  LoadsType'
  <1> USE DEF loadVars
  <1>0. LoadsType /\ TabsType /\ DocsType
    BY DEF TypeInv
  <1>1. CASE SubjectsLoaded
    <2>1. PICK load \in loads :
             \/ loads' = (loads \ {load}) \cup
                    {[load EXCEPT
                         !.named = TRUE,
                         !.waitingFor = {subjectDocs[i].name :
                                            i \in DOMAIN subjectDocs}]}
             \/ loads' = loads \ {load}
      BY <1>1 DEF SubjectsLoaded
    <2>2. {subjectDocs[i].name : i \in DOMAIN subjectDocs} \in SUBSET Names
      <3>1. \A i \in DOMAIN subjectDocs : subjectDocs[i] \in SubjectDocs
        BY <1>0 DEF DocsType
      <3>2. \A i \in DOMAIN subjectDocs : subjectDocs[i].name \in Names
        BY <3>1 DEF SubjectDocs
      <3>3. QED BY <3>2
    <2>3. loadCalls' = loadCalls
      BY <1>1 DEF SubjectsLoaded, LoadedVars
    <2>4. loads' \subseteq Loads
      BY <1>0, <2>1, <2>2, LoadFields DEF LoadsType
    <2>5. Loads' = Loads
      BY <2>3 DEF Loads
    <2>6. QED BY <1>0, <2>3, <2>4, <2>5 DEF LoadsType
  <1>2. CASE RecordingsLoaded \/ SubjectsFailToLoad \/ RecordingsFailToLoad
    <2>1. PICK load \in loads :
             \E name :
                \/ loads' = loads \ {load}
                \/ loads' = (loads \ {load}) \cup
                       {[load EXCEPT !.waitingFor = @ \ {name}]}
                \/ loads' = (loads \ {load}) \cup
                       {[load EXCEPT !.waitingFor = @ \ {name}, !.failed = TRUE]}
                \/ loads' = (loads \ {load}) \cup
                       {[load EXCEPT !.named = TRUE, !.failed = TRUE]}
      BY <1>2 DEF RecordingsLoaded, SubjectsFailToLoad, RecordingsFailToLoad, Counted
    <2>2. loadCalls' = loadCalls
      BY <1>2 DEF RecordingsLoaded, SubjectsFailToLoad, RecordingsFailToLoad, LoadedVars
    <2>3. loads' \subseteq Loads
      <3>1. loads \subseteq Loads
        BY <1>0 DEF LoadsType
      <3>2. /\ [load EXCEPT !.named = TRUE, !.failed = TRUE] \in Loads
            /\ \A name :
                 /\ [load EXCEPT !.waitingFor = @ \ {name}] \in Loads
                 /\ [load EXCEPT !.waitingFor = @ \ {name}, !.failed = TRUE] \in Loads
        BY <1>0, LoadFields
      <3>3. \E new \in Loads :
               loads' = loads \ {load} \/ loads' = (loads \ {load}) \cup {new}
        BY <2>1, <3>1, <3>2
      <3>4. QED BY <3>1, <3>3
    <2>4. Loads' = Loads
      BY <2>2 DEF Loads
    <2>5. QED BY <1>0, <2>2, <2>3, <2>4 DEF LoadsType
  <1>3. CASE BeginLoad("home") \/ BeginLoad("settings")
    BY <1>0, <1>3, BeginLoadType
  <1>4. CASE loads' = loads /\ loadCalls' \in {loadCalls, loadCalls + 1}
    <2>1. 1 .. loadCalls \subseteq 1 .. loadCalls'
      BY <1>0, <1>4 DEF LoadsType
    <2>2. Loads \subseteq Loads'
      BY <2>1 DEF Loads
    <2>3. QED BY <1>0, <1>4, <2>2 DEF LoadsType
  <1>5. CASE CloseSettings \/ LeaveRecording \/ RecordingSaved \/ PopupFaded
             \/ SubjectDeleted
    BY <1>3, <1>4, <1>5 DEF CloseSettings, LeaveRecording, RecordingSaved,
         PopupFaded, SubjectDeleted, SubjectDeletedAnd, HomeAppears
  <1>6. CASE ShowTab \/ PressNewRecording \/ PressAddSubject \/ OpenSettings
             \/ PressDismissPopup \/ PressAdd \/ PressOk \/ AlertFaded
             \/ PressSubject \/ ShowRow \/ PressCancel \/ PressDelete
    BY <1>4, <1>6 DEF ShowTab, PressNewRecording, PressAddSubject, OpenSettings,
         PressDismissPopup, PressAdd, BeginAdd, PressOk, AlertFaded,
         PressSubject, ShowRow, PressCancel, PressDelete
  <1>7. CASE SubjectChecked \/ SubjectSet \/ SubjectAdded
    BY <1>4, <1>7 DEF SubjectChecked, SubjectSet, SubjectAdded
  <1>8. QED BY <1>1, <1>2, <1>5, <1>6, <1>7 DEF Next, Answer

LEMMA NextLoadCalls ==
    ASSUME Next
    PROVE  loadCalls' \in {loadCalls, loadCalls + 1}
  BY DEF loadVars, Next, Answer, LoadedVars, SettingsVars,
     HomeAppears, BeginLoad, SubjectDeletedAnd,
     ShowTab, PressNewRecording, LeaveRecording, RecordingSaved,
     PressAddSubject, OpenSettings, CloseSettings, PressDismissPopup, PressAdd,
     BeginAdd, PressOk, PopupFaded, AlertFaded, PressSubject, ShowRow, PressCancel,
     PressDelete, SubjectsLoaded, RecordingsLoaded, SubjectsFailToLoad,
     RecordingsFailToLoad, SubjectChecked, SubjectSet, SubjectAdded,
     SubjectDeleted

LEMMA NextAddsType ==
    ASSUME TypeInv, LoadsType', Next
    PROVE  AddsType'
  <1> USE DEF addVars
  <1>0. AddsType /\ LoadsType /\ ScreenType
    BY DEF TypeInv
  <1>1. Adds \subseteq Adds'
    <2>1. loadCalls' \in {loadCalls, loadCalls + 1}
      BY NextLoadCalls
    <2>2. 0 .. loadCalls \subseteq 0 .. loadCalls'
      BY <1>0, <2>1 DEF LoadsType
    <2>3. QED BY <2>2 DEF Adds
  <1>2. CASE PressAdd
    <2>1. PICK name \in Names :
             adds' = adds \cup {[id |-> addCalls + 1, name |-> name, popup |-> popup,
                                 call |-> "check", load |-> 0]}
      BY <1>2 DEF PressAdd, BeginAdd
    <2>2. popup \in 1 .. MaxPopups /\ loadCalls' \in Nat
      BY <1>0, <1>2, LibraryAssumption DEF PressAdd, Touchable, ScreenType, LoadsType
    <2>3. addCalls' = addCalls + 1 /\ addCalls < MaxAdds
      BY <1>2 DEF PressAdd, BeginAdd
    <2>4. addCalls + 1 \in 1 .. MaxAdds /\ addCalls' \in 0 .. MaxAdds
      BY <1>0, <2>3, LibraryAssumption DEF AddsType
    <2>5. [id |-> addCalls + 1, name |-> name, popup |-> popup, call |-> "check",
           load |-> 0] \in Adds'
      BY <2>2, <2>4 DEF Adds
    <2>6. QED BY <1>0, <1>1, <2>1, <2>4, <2>5 DEF AddsType
  <1>3. CASE SubjectChecked
    <2>1. PICK add \in adds :
             \/ adds' = adds \ {add}
             \/ adds' = (adds \ {add}) \cup {[add EXCEPT !.call = "setData"]}
      BY <1>3 DEF SubjectChecked
    <2>2. [add EXCEPT !.call = "setData"] \in Adds
      BY <1>0 DEF AddsType, Adds
    <2>3. addCalls' = addCalls
      BY <1>3 DEF SubjectChecked
    <2>4. QED BY <1>0, <1>1, <2>1, <2>2, <2>3 DEF AddsType
  <1>4. CASE SubjectSet
    <2>1. PICK add \in adds :
             adds' = (adds \ {add}) \cup
                 {[add EXCEPT !.call = "load", !.load = loadCalls + 1]}
      BY <1>4 DEF SubjectSet
    <2>2. addCalls' = addCalls /\ loadCalls' = loadCalls + 1
      BY <1>4 DEF SubjectSet
    <2>3. loadCalls + 1 \in 0 .. loadCalls'
      BY <1>0, <2>2 DEF LoadsType
    <2>4. [add EXCEPT !.call = "load", !.load = loadCalls + 1] \in Adds'
      BY <1>0, <2>3 DEF AddsType, Adds
    <2>5. QED BY <1>0, <1>1, <2>1, <2>2, <2>4 DEF AddsType
  <1>5. CASE SubjectAdded
    <2>1. adds' \subseteq adds /\ addCalls' = addCalls
      BY <1>5 DEF SubjectAdded
    <2>2. QED BY <1>0, <1>1, <2>1 DEF AddsType
  <1>6. ASSUME ~PressAdd, ~SubjectChecked, ~SubjectSet, ~SubjectAdded
        PROVE  UNCHANGED addVars
    BY <1>6 DEF Next, Answer, PageVars, LoadedVars, SettingsVars,
         ShowTab, PressNewRecording, LeaveRecording, RecordingSaved,
         PressAddSubject, OpenSettings, CloseSettings, PressDismissPopup, PressOk,
         PopupFaded, AlertFaded, PressSubject, ShowRow, PressCancel, PressDelete,
         SubjectsLoaded, RecordingsLoaded, SubjectsFailToLoad, RecordingsFailToLoad,
         SubjectDeleted, SubjectDeletedAnd
  <1>7. CASE UNCHANGED addVars
    BY <1>0, <1>1, <1>7 DEF AddsType
  <1>8. QED BY <1>2, <1>3, <1>4, <1>5, <1>6, <1>7

LEMMA NextDeletesType ==
    ASSUME TypeInv, Next
    PROVE  DeletesType'
  <1> USE DEF deleteVars
  <1>0. DeletesType /\ CacheType
    BY DEF TypeInv
  <1>1. CASE PressDelete
    <2>1. chosen[1] \in Subjects
      BY <1>0, <1>1 DEF PressDelete, CacheType
    <2>2. chosen[1].name \in Names /\ chosen[1].hasRecordings \in BOOLEAN
      BY <2>1, SubjectFields
    <2>3. deleteCalls + 1 \in 1 .. MaxDeletes
      BY <1>0, <1>1, LibraryAssumption DEF PressDelete, DeletesType
    <2>4. [id |-> deleteCalls + 1, name |-> chosen[1].name,
           withRecordings |-> chosen[1].hasRecordings] \in Deletes
      BY <2>2, <2>3 DEF Deletes
    <2>5. QED BY <1>0, <1>1, <2>3, <2>4 DEF PressDelete, DeletesType
  <1>2. CASE SubjectDeleted
    BY <1>0, <1>2 DEF SubjectDeleted, SubjectDeletedAnd, DeletesType
  <1>3. ASSUME ~PressDelete, ~SubjectDeleted
        PROVE  UNCHANGED deleteVars
    BY <1>3 DEF Next, Answer, PageVars, LoadedVars, SettingsVars,
         ShowTab, PressNewRecording, LeaveRecording, RecordingSaved,
         PressAddSubject, OpenSettings, CloseSettings, PressDismissPopup, PressAdd,
         BeginAdd, PressOk, PopupFaded, AlertFaded, PressSubject, ShowRow, PressCancel,
         SubjectsLoaded, RecordingsLoaded, SubjectsFailToLoad, RecordingsFailToLoad,
         SubjectChecked, SubjectSet, SubjectAdded
  <1>4. QED BY <1>0, <1>1, <1>2, <1>3 DEF DeletesType

LEMMA NextScreenType ==
    ASSUME TypeInv, Next
    PROVE  ScreenType'
  <1> USE DEF screenVars, fadeVars
  <1>0. ScreenType
    BY DEF TypeInv
  <1>1. CASE ShowTab \/ PressNewRecording \/ LeaveRecording \/ RecordingSaved
             \/ OpenSettings \/ CloseSettings
    BY <1>0, <1>1 DEF ShowTab, PressNewRecording, LeaveRecording, RecordingSaved,
         HomeAppears, OpenSettings, CloseSettings, PageVars, ScreenType
  <1>2. CASE PressAddSubject
    BY <1>0, <1>2, LibraryAssumption DEF PressAddSubject, ScreenType
  <1>3. CASE PressDismissPopup \/ PressAdd \/ PressOk
    BY <1>0, <1>3 DEF PressDismissPopup, DismissPopup, PressAdd, BeginAdd, PressOk,
         PageVars, ScreenType
  <1>4. CASE PopupFaded \/ AlertFaded
    BY <1>0, <1>4 DEF PopupFaded, AlertFaded, ScreenType
  <1>5. CASE PressSubject \/ ShowRow \/ PressCancel \/ PressDelete \/ SubjectDeleted
    BY <1>0, <1>5 DEF PressSubject, ShowRow, PressCancel, PressDelete, SubjectDeleted,
         SubjectDeletedAnd, SettingsVars, ScreenType
  <1>6. CASE SubjectsLoaded \/ RecordingsLoaded \/ SubjectsFailToLoad
             \/ RecordingsFailToLoad \/ SubjectSet
    BY <1>0, <1>6 DEF SubjectsLoaded, RecordingsLoaded, SubjectsFailToLoad,
         RecordingsFailToLoad, SubjectSet, LoadedVars, ScreenType
  <1>7. CASE SubjectChecked
    <2>1. \/ screen' = screen
          \/ screen' = "existsAlert" /\ screen \in {"popup", "existsAlert"}
      BY <1>7 DEF SubjectChecked, OnScreen
    <2>2. popup' = popup /\ fades' = fades
      BY <1>7 DEF SubjectChecked
    <2>3. QED BY <1>0, <2>1, <2>2 DEF ScreenType
  <1>8. CASE SubjectAdded
    BY <1>0, <1>8 DEF SubjectAdded, DismissPopup, ScreenType
  <1>9. QED BY <1>1, <1>2, <1>3, <1>4, <1>5, <1>6, <1>7, <1>8 DEF Next, Answer

LEMMA HurriedCount ==
    ASSUME NEW places, places \subseteq {"popup", "tabs", "settings"}
    PROVE  Cardinality(places) \in Nat
  <1>1. IsFiniteSet({})
    BY FS_EmptySet
  <1>2. IsFiniteSet({} \cup {"popup"})
    BY <1>1, FS_AddElement
  <1>3. IsFiniteSet(({} \cup {"popup"}) \cup {"tabs"})
    BY <1>2, FS_AddElement
  <1>4. IsFiniteSet((({} \cup {"popup"}) \cup {"tabs"}) \cup {"settings"})
    BY <1>3, FS_AddElement
  <1>5. places \subseteq (({} \cup {"popup"}) \cup {"tabs"}) \cup {"settings"}
    OBVIOUS
  <1>6. QED BY <1>4, <1>5, FS_Subset, FS_CardinalityType

\* Mishaps only grow, and never beyond their bound.
LEMMA NextMishapsType ==
    ASSUME TypeInv, Next
    PROVE  /\ MishapsType'
           /\ hurried \subseteq hurried' /\ errors <= errors'
  <1>0. /\ MishapsType /\ errors \in Nat
        /\ hurried \subseteq {"popup", "tabs", "settings"}
    BY LibraryAssumption DEF TypeInv, MishapsType
  <1>1. CASE ShowTab \/ PressNewRecording \/ CloseSettings \/ PressDismissPopup
             \/ PressAdd \/ OpenSettings \/ PressSubject \/ ShowRow
    <2>1. /\ \E answers, place : /\ ActsDuring(answers, place)
                                 /\ place \in {"popup", "tabs", "settings"}
          /\ errors' = errors
      BY <1>1 DEF ShowTab, PressNewRecording, CloseSettings, PressDismissPopup,
           PressAdd, BeginAdd, OpenSettings, PressSubject, ShowRow, PageVars
    <2>2. QED BY <1>0, <2>1 DEF ActsDuring, MishapsType
  <1>2. CASE hurried' = hurried /\ (Fails \/ Succeeds)
    <2>1. Cardinality(hurried) \in Nat
      BY <1>0, HurriedCount
    <2>2. CASE Fails
      BY <1>0, <1>2, <2>1, <2>2, LibraryAssumption DEF Fails, MishapsType
    <2>3. CASE Succeeds
      BY <1>0, <1>2, <2>3 DEF Succeeds, MishapsType
    <2>4. QED BY <1>2, <2>2, <2>3
  <1>3. CASE LeaveRecording \/ RecordingSaved \/ PressAddSubject
             \/ PressOk \/ PopupFaded \/ AlertFaded
             \/ PressCancel \/ PressDelete
    BY <1>2, <1>3 DEF LeaveRecording, RecordingSaved, PressAddSubject,
         PressOk, PopupFaded, AlertFaded, PressCancel, PressDelete,
         PageVars, SettingsVars, Succeeds
  <1>4. CASE SubjectsLoaded \/ RecordingsLoaded \/ SubjectsFailToLoad
             \/ RecordingsFailToLoad
    BY <1>2, <1>4 DEF SubjectsLoaded, RecordingsLoaded, SubjectsFailToLoad,
         RecordingsFailToLoad, LoadedVars
  <1>5. CASE SubjectChecked \/ SubjectSet \/ SubjectAdded
    BY <1>2, <1>5 DEF SubjectChecked, SubjectSet, SubjectAdded
  <1>6. CASE SubjectDeleted
    BY <1>2, <1>6 DEF SubjectDeleted, SubjectDeletedAnd, SettingsVars, DeleteStored
  <1>7. QED BY <1>1, <1>3, <1>4, <1>5, <1>6 DEF Next, Answer

LEMMA NextFlagsType ==
    ASSUME FlagsType, Next
    PROVE  FlagsType'
  <1> USE DEF screenVars, fadeVars, tabVars
  <1>1. trapped' \in BOOLEAN
    <2>1. CASE ShowTab
      BY <2>1, Zenon DEF ShowTab
    <2>2. CASE PressNewRecording
      BY <2>2, Zenon DEF PressNewRecording, FlagsType
    <2>3. CASE PressSubject
      BY <2>3, Zenon DEF PressSubject, FlagsType
    <2>4. CASE ShowRow
      BY <2>4, Zenon DEF ShowRow, FlagsType
    <2>5. ASSUME ~ShowTab, ~PressNewRecording, ~PressSubject, ~ShowRow
          PROVE  trapped' = trapped
      BY <2>5 DEF Next, Answer, PageVars, LoadedVars, SettingsVars,
         LeaveRecording, RecordingSaved,
         PressAddSubject, OpenSettings, CloseSettings, PressDismissPopup, PressAdd,
         BeginAdd, PressOk, PopupFaded, AlertFaded, PressCancel,
         PressDelete, SubjectsLoaded, RecordingsLoaded, SubjectsFailToLoad,
         RecordingsFailToLoad, SubjectChecked, SubjectSet, SubjectAdded,
         SubjectDeleted, SubjectDeletedAnd
    <2>6. QED BY <2>1, <2>2, <2>3, <2>4, <2>5, Zenon DEF FlagsType
  <1>2. faded' \in {faded, TRUE, FALSE}
    BY DEF Next, Answer, PageVars, LoadedVars, SettingsVars, DismissPopup,
         ShowTab, PressNewRecording, LeaveRecording, RecordingSaved,
         PressAddSubject, OpenSettings, CloseSettings, PressDismissPopup, PressAdd,
         BeginAdd, PressOk, PopupFaded, AlertFaded, PressSubject, ShowRow, PressCancel,
         PressDelete, SubjectsLoaded, RecordingsLoaded, SubjectsFailToLoad,
         RecordingsFailToLoad, SubjectChecked, SubjectSet, SubjectAdded,
         SubjectDeleted, SubjectDeletedAnd
  <1>3. shouldReloadOnAppear' \in {shouldReloadOnAppear, TRUE, FALSE}
    BY DEF Next, Answer, PageVars, LoadedVars, SettingsVars, HomeAppears,
         ShowTab, PressNewRecording, LeaveRecording, RecordingSaved,
         PressAddSubject, OpenSettings, CloseSettings, PressDismissPopup, PressAdd,
         BeginAdd, PressOk, PopupFaded, AlertFaded, PressSubject, ShowRow, PressCancel,
         PressDelete, SubjectsLoaded, RecordingsLoaded, SubjectsFailToLoad,
         RecordingsFailToLoad, SubjectChecked, SubjectSet, SubjectAdded,
         SubjectDeleted, SubjectDeletedAnd
  <1>4. QED BY <1>1, <1>2, <1>3, Zenon DEF FlagsType

LEMMA NamesOfType ==
    ASSUME NEW objects \in Seq(Subjects)
    PROVE  /\ NamesOf(objects) \in Seq(Names)
           /\ DOMAIN NamesOf(objects) = DOMAIN objects
  <1>1. \A i \in DOMAIN objects : objects[i].name \in Names
    BY SubjectFields
  <1>2. /\ DOMAIN NamesOf(objects) = 1 .. Len(objects) /\ Len(objects) \in Nat
        /\ \A i \in 1 .. Len(objects) : NamesOf(objects)[i] \in Names
    BY <1>1 DEF NamesOf
  <1>3. NamesOf(objects) \in [1 .. Len(objects) -> Names]
    BY <1>2 DEF NamesOf
  <1>4. QED BY <1>2, <1>3, SeqDef

\* The steps that write the table or the alert.
TableSteps == \/ SubjectsLoaded \/ RecordingsLoaded \/ OpenSettings \/ CloseSettings
              \/ PressSubject \/ ShowRow \/ PressCancel \/ PressDelete \/ SubjectDeleted

LEMMA TableKept ==
    ASSUME Next, ~TableSteps
    PROVE  UNCHANGED <<rows, tableDeletes, tableLoads, chosen, touched>>
  BY DEF TableSteps, tableVars, alertVars, Next, Answer, PageVars, LoadedVars,
     ShowTab, PressNewRecording, LeaveRecording, RecordingSaved, PressAddSubject,
     PressDismissPopup, PressAdd, BeginAdd, PressOk, PopupFaded, AlertFaded,
     SubjectsFailToLoad, RecordingsFailToLoad, SubjectChecked, SubjectSet, SubjectAdded

LEMMA NextTableType ==
    ASSUME TypeInv, CacheType', Next
    PROVE  TableType'
  <1> USE DEF tableVars, alertVars
  <1>0. /\ TableType /\ CacheType /\ LoadsType /\ DeletesType
        /\ MaxDeletes \in Nat
    BY LibraryAssumption DEF TypeInv
  <1>1. tableLoads \subseteq 1 .. loadCalls' /\ loadCalls \in Nat
    <2>1. loadCalls' \in {loadCalls, loadCalls + 1}
      BY NextLoadCalls
    <2>2. QED BY <1>0, <2>1 DEF TableType, LoadsType
  <1>2. CASE SubjectsLoaded \/ RecordingsLoaded
    <2>1. rows' = rows \/ rows' = NamesOf(subjects')
      BY <1>2 DEF SubjectsLoaded, RecordingsLoaded, Counted, Completed
    <2>2. rows' \in Seq(Names)
      BY <1>0, <2>1, NamesOfType DEF TableType, CacheType
    <2>3. Len(chosen') = Len(chosen)
      <3>1. \/ chosen' = chosen
            \/ \E load, name : chosen' = Filled(chosen, load, name)
        BY <1>2 DEF SubjectsLoaded, RecordingsLoaded
      <3>2. QED BY <1>0, <3>1, FilledType DEF CacheType
    <2>4. UNCHANGED <<touched, tableDeletes, tableLoads>>
      BY <1>2 DEF SubjectsLoaded, RecordingsLoaded, LoadedVars
    <2>5. QED BY <1>0, <1>1, <2>2, <2>3, <2>4 DEF TableType
  <1>3. CASE OpenSettings \/ CloseSettings
    <2>1. rows' = NamesOf(subjects) \/ rows' = <<>>
      BY <1>3 DEF OpenSettings, CloseSettings
    <2>2. rows' \in Seq(Names)
      <3>1. NamesOf(subjects) \in Seq(Names)
        BY <1>0, NamesOfType DEF CacheType
      <3>2. QED BY <2>1, <3>1, EmptyType
    <2>3. UNCHANGED <<touched, chosen>> /\ tableDeletes' = {} /\ tableLoads' = {}
      BY <1>3 DEF OpenSettings, CloseSettings, PageVars
    <2>4. QED BY <1>0, <2>2, <2>3 DEF TableType
  <1>4. CASE PressSubject
    <2>1. PICK i \in DOMAIN rows :
             \/ chosen' = <<subjects[i]>> /\ touched' = <<rows[i]>>
             \/ UNCHANGED <<chosen, touched>>
      BY <1>4 DEF PressSubject
    <2>2. UNCHANGED <<rows, tableDeletes, tableLoads>>
      BY <1>4 DEF PressSubject
    <2>3. rows[i] \in Names
      BY <1>0 DEF TableType
    <2>4. touched' \in Seq(Names) /\ Len(touched') = Len(chosen')
      <3>1. CASE chosen' = <<subjects[i]>> /\ touched' = <<rows[i]>>
        <4>1. <<rows[i]>> \in Seq(Names) /\ Len(<<rows[i]>>) = 1
          BY <2>3, SingletonType
        <4>2. Len(<<subjects[i]>>) = 1
          OBVIOUS
        <4>3. QED BY <3>1, <4>1, <4>2
      <3>2. CASE UNCHANGED <<chosen, touched>>
        BY <1>0, <3>2 DEF TableType
      <3>3. QED BY <2>1, <3>1, <3>2
    <2>5. QED BY <1>0, <1>1, <2>2, <2>4 DEF TableType
  <1>5. CASE ShowRow
    <2>1. PICK i \in DOMAIN rows :
             \/ i \in DOMAIN subjects /\ rows' = [rows EXCEPT ![i] = subjects[i].name]
             \/ UNCHANGED rows
      BY <1>5 DEF ShowRow
    <2>2. UNCHANGED <<tableDeletes, tableLoads, chosen, touched>>
      BY <1>5 DEF ShowRow
    <2>3. i \in DOMAIN subjects => subjects[i].name \in Names
      BY <1>0, SubjectFields DEF CacheType
    <2>4. rows' \in Seq(Names)
      BY <1>0, <2>1, <2>3 DEF TableType
    <2>5. QED BY <1>0, <1>1, <2>2, <2>4 DEF TableType
  <1>6. CASE PressCancel
    BY <1>0, <1>1, <1>6 DEF PressCancel, TableType
  <1>7. CASE PressDelete
    <2>1. /\ rows' = rows /\ tableLoads' = tableLoads
          /\ chosen' = <<>> /\ touched' = <<>>
          /\ tableDeletes' = tableDeletes \cup {deleteCalls + 1}
          /\ deleteCalls < MaxDeletes
      BY <1>7 DEF PressDelete
    <2>2. deleteCalls + 1 \in 1 .. MaxDeletes
      BY <1>0, <2>1 DEF DeletesType
    <2>3. tableDeletes' \subseteq 1 .. MaxDeletes
      BY <1>0, <2>1, <2>2 DEF TableType
    <2>4. touched' \in Seq(Names) /\ Len(touched') = Len(chosen')
      BY <2>1, EmptyType
    <2>5. loadCalls' = loadCalls
      BY <1>7 DEF PressDelete, loadVars
    <2>6. QED BY <1>0, <1>1, <2>1, <2>3, <2>4 DEF TableType
  <1>8. CASE SubjectDeleted
    <2>1. /\ tableLoads' \subseteq tableLoads \cup {loadCalls + 1}
          /\ loadCalls' = loadCalls + 1
          /\ UNCHANGED <<rows, tableDeletes, chosen, touched>>
      BY <1>8 DEF SubjectDeleted, SubjectDeletedAnd, BeginLoad
    <2>2. loadCalls + 1 \in 1 .. loadCalls'
      BY <1>1, <2>1
    <2>3. QED BY <1>0, <1>1, <2>1, <2>2 DEF TableType
  <1>9. CASE ~TableSteps
    BY <1>0, <1>1, <1>9, TableKept DEF TableType
  <1>10. QED BY <1>2, <1>3, <1>4, <1>5, <1>6, <1>7, <1>8, <1>9 DEF TableSteps

LEMMA InitType == Init => TypeInv
  <1> SUFFICES ASSUME Init PROVE TypeInv
    OBVIOUS
  <1>0. FirstNames \in Seq(Names) /\ MaxAdds \in Nat /\ MaxRecordings \in Nat
    BY LibraryAssumption
  <1>1. \A i \in DOMAIN FirstNames :
           /\ FirstNames[i] \in Names
           /\ [name |-> FirstNames[i], by |-> 0] \in SubjectDocs
    BY <1>0 DEF SubjectDocs
  <1>2. DocsType
    <2>1. subjectDocs \in Seq(SubjectDocs)
      BY <1>0, <1>1 DEF Init
    <2>2. recordingDocs \subseteq Names
      BY <1>1 DEF Init
    <2>3. QED BY <2>1, <2>2 DEF DocsType
  <1>3. CacheType
    <2>1. \A i \in DOMAIN FirstNames :
             [name |-> FirstNames[i], load |-> 0, hasRecordings |-> TRUE] \in Subjects
      BY <1>1, SubjectFields
    <2>2. subjects \in Seq(Subjects)
      BY <1>0, <2>1 DEF Init
    <2>3. QED BY <2>2 DEF Init, CacheType
  <1>4. TabsType
    <2>1. \A i \in DOMAIN FirstNames :
             [name |-> FirstNames[i], hasRecordings |-> TRUE] \in Tabs
      BY <1>1, TabFields
    <2>2. tabs \in Seq(Tabs)
      BY <1>0, <2>1 DEF Init
    <2>3. QED BY <1>0, <2>2 DEF Init, TabsType
  <1>5. LoadsType /\ AddsType /\ DeletesType
    BY LibraryAssumption DEF Init, LoadsType, AddsType, DeletesType
  <1>6. ScreenType /\ MishapsType
    BY LibraryAssumption DEF Init, ScreenType, MishapsType
  <1>7. FlagsType
    BY DEF Init, FlagsType
  <1>8. TableType
    BY DEF Init, TableType
  <1>9. QED BY <1>2, <1>3, <1>4, <1>5, <1>6, <1>7, <1>8 DEF TypeInv

LEMMA SameType ==
    ASSUME TypeInv, UNCHANGED vars
    PROVE  TypeInv'
  <1> USE DEF vars, cloudVars, addVars, deleteVars, fadeVars, screenVars, tabVars,
              loadVars, tableVars, alertVars
  <1>1. DocsType' /\ CacheType' /\ TabsType'
    BY DEF TypeInv, DocsType, CacheType, TabsType
  <1>2. LoadsType' /\ AddsType' /\ DeletesType'
    BY DEF TypeInv, LoadsType, AddsType, DeletesType, Loads, Adds
  <1>3. ScreenType' /\ MishapsType'
    BY DEF TypeInv, ScreenType, MishapsType
  <1>4. FlagsType'
    BY Zenon DEF TypeInv, FlagsType
  <1>5. TableType'
    BY DEF TypeInv, TableType
  <1>6. QED BY <1>1, <1>2, <1>3, <1>4, <1>5 DEF TypeInv

LEMMA NextType ==
    ASSUME TypeInv, Next
    PROVE  TypeInv'
  BY NextDocsType, NextCacheType, NextTabsType, NextLoadsType, NextAddsType,
     NextDeletesType, NextScreenType, NextMishapsType, NextFlagsType,
     NextTableType, Zenon DEF TypeInv

LEMMA TypeInvHolds == Spec => []TypeInv
  <1>1. TypeInv /\ [Next]_vars => TypeInv'
    <2> SUFFICES ASSUME TypeInv, [Next]_vars PROVE TypeInv'
      OBVIOUS
    <2>1. CASE Next
      BY <2>1, NextType
    <2>2. CASE UNCHANGED vars
      BY <2>2, SameType
    <2>3. QED BY <2>1, <2>2
  <1>2. QED BY InitType, <1>1, PTL DEF Spec

\* The types of the variables, for any number of subjects, loads, adds and
\* deletes under way.
THEOREM TypeOKHolds == Spec => []TypeOK
  <1>1. TypeInv => TypeOK
    <2> SUFFICES ASSUME TypeInv PROVE TypeOK
      OBVIOUS
    <2>1. /\ subjectDocs \in Seq(SubjectDocs) /\ recordingDocs \subseteq Names
          /\ subjects \in Seq(Subjects) /\ chosen \in Seq(Subjects)
          /\ Len(chosen) <= 1
      BY DEF TypeInv, DocsType, CacheType
    <2>2. /\ tabs \in Seq(Tabs) /\ (position = 1 \/ position \in DOMAIN tabs)
          /\ recordings \in Seq(Recordings) /\ Len(recordings) <= MaxRecordings
      BY DEF TypeInv, TabsType
    <2>3. loads \subseteq Loads /\ adds \subseteq Adds /\ deletes \subseteq Deletes
      BY DEF TypeInv, LoadsType, AddsType, DeletesType
    <2>4. /\ loadCalls \in Nat /\ addCalls \in 0 .. MaxAdds
          /\ deleteCalls \in 0 .. MaxDeletes
      BY DEF TypeInv, LoadsType, AddsType, DeletesType
    <2>5. /\ screen \in {"home", "popup", "existsAlert", "settings", "deleteAlert",
                         "recording"}
          /\ popup \in 0 .. MaxPopups /\ fades \in Nat
          /\ hurried \subseteq {"popup", "tabs", "settings"} /\ errors \in 0 .. MaxMishaps
      BY DEF TypeInv, ScreenType, MishapsType
    <2>6. faded \in BOOLEAN /\ shouldReloadOnAppear \in BOOLEAN /\ trapped \in BOOLEAN
      BY Zenon DEF TypeInv, FlagsType
    <2>7. /\ rows \in Seq(Names) /\ touched \in Seq(Names)
          /\ Len(touched) = Len(chosen)
          /\ tableDeletes \subseteq 1 .. MaxDeletes
          /\ tableLoads \subseteq 1 .. loadCalls
      BY DEF TypeInv, TableType
    <2>8. QED BY <2>1, <2>2, <2>3, <2>4, <2>5, <2>6, <2>7, Zenon
            DEF TypeOK, Loads, Adds, Deletes
  <1>2. QED BY TypeInvHolds, <1>1, PTL

-----------------------------------------------------------------------------
(* While the student waits for the popup and no call fails.  Whatever makes  *)
(* the tabs stale, a reload is ahead of them: everything that replaces the   *)
(* cache or changes the cloud behind it happens below the popup, before the  *)
(* flag is read, or in front of a load of the home page.                     *)

Waits == "popup" \notin hurried /\ errors = 0

PopupUp == screen \in {"popup", "existsAlert"}
HomeLoading == \E load \in loads : load.by = "home"
UnnamedHome == \E load \in loads : load.by = "home" /\ ~load.named
ReloadAhead == shouldReloadOnAppear \/ UnnamedHome \/ PopupUp

\* A load waits for no recordings before it has the subjects.
WaitingInv == \A load \in loads : ~load.named => load.waitingFor = {}

NoneFailed == \A load \in loads : ~load.failed

\* One Add at a time, with its popup in front.
AddInv ==
    /\ adds # {} => screen = "popup" /\ fades = 0
    /\ \A add, other \in adds : add = other

FadeInv ==
    /\ faded => fades > 0 /\ screen = "popup"
    /\ fades > 0 => faded

\* The settings page's load replaces the cache before the home page's does.
SettingsAhead ==
    \A load \in loads : load.by = "settings" /\ ~load.named =>
       \/ shouldReloadOnAppear
       \/ \E home \in loads : home.by = "home" /\ ~home.named /\ home.id > load.id

CacheNamed ==
    \/ NamesOf(subjects) = NamesOf(subjectDocs)
    \/ \E load \in loads : ~load.named
    \/ PopupUp

\* Recordings the cache does not have yet are waited for by a home page's load.
FilledOrWaited(subject) ==
    \/ subject.hasRecordings = HasRecordings(subject.name)
    \/ \E load \in loads : /\ load.by = "home" /\ load.named
                           /\ load.id = subject.load
                           /\ subject.name \in load.waitingFor

Filling == ReloadAhead \/ \A i \in DOMAIN subjects : FilledOrWaited(subjects[i])

TabsInv == tabs = FreshTabs \/ ReloadAhead \/ HomeLoading

Parts == /\ NoneFailed /\ AddInv /\ FadeInv /\ SettingsAhead /\ CacheNamed
         /\ Filling /\ TabsInv

WaitsInv == WaitingInv /\ (Waits => Parts)

LEMMA BooleanLoads ==
    ASSUME LoadsType, NEW load \in loads
    PROVE  /\ load.by \in {"home", "settings"} /\ load.id \in Nat
           /\ load.id <= loadCalls /\ loadCalls \in Nat
           /\ load.waitingFor \subseteq Names
  BY DEF LoadsType, Loads

\* With nothing ahead and no load of the home page, tabs, cache and cloud agree.
LEMMA Settled ==
    ASSUME LoadsType, SettingsAhead, CacheNamed, Filling, ~ReloadAhead, ~HomeLoading
    PROVE  /\ NamesOf(subjects) = NamesOf(subjectDocs)
           /\ \A i \in DOMAIN subjects :
                 subjects[i].hasRecordings = HasRecordings(subjects[i].name)
  <1>1. ASSUME NEW load \in loads, ~load.named PROVE FALSE
    BY <1>1, BooleanLoads DEF SettingsAhead, ReloadAhead, HomeLoading
  <1>2. NamesOf(subjects) = NamesOf(subjectDocs)
    BY <1>1 DEF CacheNamed, ReloadAhead
  <1>3. QED BY <1>2 DEF Filling, FilledOrWaited, HomeLoading

\* Two sequences of one length with the same names in the same places.
LEMMA SameNames ==
    ASSUME NEW s, NEW t, NamesOf(s) = NamesOf(t)
    PROVE  DOMAIN s = DOMAIN t /\ \A i \in DOMAIN s : s[i].name = t[i].name
  <1>1. DOMAIN NamesOf(s) = DOMAIN s /\ DOMAIN NamesOf(t) = DOMAIN t
    BY DEF NamesOf
  <1>2. \A i \in DOMAIN s : NamesOf(s)[i] = s[i].name
    BY DEF NamesOf
  <1>3. \A i \in DOMAIN t : NamesOf(t)[i] = t[i].name
    BY DEF NamesOf
  <1>4. QED BY <1>1, <1>2, <1>3

\* What the load of a reload is.
LEMMA Begun ==
    ASSUME NEW by, BeginLoad(by)
    PROVE  \E new : /\ loads' = loads \cup {new}
                    /\ new.by = by /\ new.id = loadCalls + 1
                    /\ new.named = FALSE /\ new.failed = FALSE /\ new.waitingFor = {}
  <1> DEFINE new == [id |-> loadCalls + 1, by |-> by, named |-> FALSE,
                     waitingFor |-> {}, failed |-> FALSE,
                     index |-> IF by = "home" THEN position ELSE 1]
  <1>1. loads' = loads \cup {new}
    BY DEF BeginLoad
  <1>2. /\ new.by = by /\ new.id = loadCalls + 1
        /\ new.named = FALSE /\ new.failed = FALSE /\ new.waitingFor = {}
    OBVIOUS
  <1> HIDE DEF new
  <1>3. QED BY <1>1, <1>2

\* Steps that leave the cloud, the cache and the loads alone.
Quiet ==
    /\ UNCHANGED <<subjectDocs, recordingDocs, subjects, loads, shouldReloadOnAppear>>
    /\ PopupUp => PopupUp'

HomeReturn == CloseSettings \/ LeaveRecording \/ RecordingSaved
LoadStep == SubjectsLoaded \/ RecordingsLoaded
LoadFails == SubjectsFailToLoad \/ RecordingsFailToLoad

LEMMA QuietSteps ==
    ASSUME Next, ~LoadStep, ~LoadFails, ~SubjectDeleted, ~SubjectSet,
           ~SubjectAdded, ~PopupFaded, ~HomeReturn
    PROVE  Quiet /\ (~ShowTab => tabs' = tabs)
  <1> USE DEF cloudVars, loadVars, tabVars, PageVars, SettingsVars, Quiet, PopupUp
  <1>1. CASE ShowTab \/ PressNewRecording \/ PressAddSubject \/ OpenSettings
    BY <1>1 DEF ShowTab, PressNewRecording, PressAddSubject, OpenSettings
  <1>2. CASE PressDismissPopup \/ PressAdd \/ PressOk \/ AlertFaded
    BY <1>2 DEF PressDismissPopup, PressAdd, BeginAdd, PressOk, AlertFaded, screenVars
  <1>3. CASE PressSubject \/ ShowRow \/ PressCancel \/ PressDelete
    BY <1>3 DEF PressSubject, ShowRow, PressCancel, PressDelete
  <1>4. CASE SubjectChecked
    <2>1. screen' = screen \/ screen' = "existsAlert"
      BY <1>4 DEF SubjectChecked
    <2>2. QED BY <1>4, <2>1 DEF SubjectChecked
  <1>5. QED BY <1>1, <1>2, <1>3, <1>4 DEF Next, Answer, LoadStep, LoadFails, HomeReturn

LEMMA HomeReturns ==
    ASSUME HomeReturn
    PROVE  /\ UNCHANGED <<subjectDocs, subjects, tabs, adds, faded, fades>>
           /\ shouldReloadOnAppear' = FALSE /\ screen' = "home" /\ ~PopupUp
           /\ \/ BeginLoad("home")
              \/ ~shouldReloadOnAppear /\ UNCHANGED <<loads, recordingDocs>>
  BY DEF HomeReturn, CloseSettings, LeaveRecording, RecordingSaved, HomeAppears,
     PageVars, tabVars, cloudVars, addVars, fadeVars, loadVars, PopupUp

\* Who waits in the step has waited before it, and no call fails in it.
LEMMA WaitingStep ==
    ASSUME TypeInv, Next, Waits'
    PROVE  Waits /\ errors = 0 /\ errors' = 0 /\ ~Fails /\ ~LoadFails
  <1>1. hurried \subseteq hurried' /\ errors <= errors' /\ errors \in Nat
    BY NextMishapsType, LibraryAssumption DEF TypeInv, MishapsType
  <1>2. errors' = 0 /\ "popup" \notin hurried'
    BY DEF Waits
  <1>3. errors = 0 /\ Waits
    BY <1>1, <1>2 DEF Waits
  <1>4. ~Fails
    BY <1>2, <1>3 DEF Fails
  <1>5. QED BY <1>2, <1>3, <1>4
          DEF LoadFails, SubjectsFailToLoad, RecordingsFailToLoad

\* Who presses in the popup does so with no Add under way.
LEMMA WaitingPress ==
    ASSUME Waits', ActsDuring(adds, "popup")
    PROVE  adds = {}
  BY DEF Waits, ActsDuring

LEMMA NextWaitingInv ==
    ASSUME WaitingInv, LoadsType, Next
    PROVE  WaitingInv'
  <1> USE DEF loadVars
  <1>1. CASE SubjectsLoaded
    <2>1. PICK load \in loads :
             \/ loads' = loads \ {load}
             \/ loads' = (loads \ {load}) \cup
                  {[load EXCEPT
                       !.named = TRUE,
                       !.waitingFor = {subjectDocs[i].name :
                                          i \in DOMAIN subjectDocs}]}
      BY <1>1 DEF SubjectsLoaded
    <2> DEFINE new == [load EXCEPT
                          !.named = TRUE,
                          !.waitingFor = {subjectDocs[i].name :
                                             i \in DOMAIN subjectDocs}]
    <2>2. new.named = TRUE
      BY DEF LoadsType, Loads
    <2> HIDE DEF new
    <2>3. loads' = loads \ {load} \/ loads' = (loads \ {load}) \cup {new}
      BY <2>1 DEF new
    <2>4. QED BY <2>2, <2>3 DEF WaitingInv
  <1>2. CASE RecordingsLoaded \/ RecordingsFailToLoad \/ SubjectsFailToLoad
    <2>1. PICK load \in loads : \E name :
             \/ loads' = loads \ {load}
             \/ loads' = (loads \ {load}) \cup
                    {[load EXCEPT !.waitingFor = @ \ {name}]}
             \/ loads' = (loads \ {load}) \cup
                    {[load EXCEPT !.waitingFor = @ \ {name}, !.failed = TRUE]}
             \/ loads' = (loads \ {load}) \cup
                    {[load EXCEPT !.named = TRUE, !.failed = TRUE]}
      BY <1>2 DEF RecordingsLoaded, SubjectsFailToLoad, RecordingsFailToLoad, Counted
    <2>2. \A name :
             /\ [load EXCEPT !.waitingFor = @ \ {name}].waitingFor = load.waitingFor \ {name}
             /\ [load EXCEPT !.waitingFor = @ \ {name}].named <=> load.named
             /\ [load EXCEPT !.waitingFor = @ \ {name}, !.failed = TRUE].waitingFor
                  = load.waitingFor \ {name}
             /\ [load EXCEPT !.waitingFor = @ \ {name}, !.failed = TRUE].named
                  <=> load.named
             /\ [load EXCEPT !.named = TRUE, !.failed = TRUE].named
      BY DEF LoadsType, Loads
    <2>3. \A name :
             /\ ~[load EXCEPT !.waitingFor = @ \ {name}].named
                  => [load EXCEPT !.waitingFor = @ \ {name}].waitingFor = {}
             /\ ~[load EXCEPT !.waitingFor = @ \ {name}, !.failed = TRUE].named
                  => [load EXCEPT !.waitingFor = @ \ {name}, !.failed = TRUE].waitingFor = {}
      BY <2>2 DEF WaitingInv
    <2>4. \E new : /\ loads' \subseteq loads \cup {new}
                   /\ ~new.named => new.waitingFor = {}
      BY <2>1, <2>2, <2>3
    <2>5. QED BY <2>4 DEF WaitingInv
  <1>3. CASE BeginLoad("home") \/ BeginLoad("settings")
    <2>1. \E new : loads' = loads \cup {new} /\ new.waitingFor = {}
      BY <1>3, Begun
    <2>2. QED BY <2>1 DEF WaitingInv
  <1>4. CASE loads' = loads
    BY <1>4 DEF WaitingInv
  <1>5. CASE HomeReturn \/ PopupFaded \/ SubjectDeleted
    BY <1>3, <1>4, <1>5, HomeReturns DEF PopupFaded, SubjectDeleted, SubjectDeletedAnd
  <1>6. CASE SubjectSet \/ SubjectAdded
    BY <1>4, <1>6 DEF SubjectSet, SubjectAdded
  <1>7. QED BY <1>1, <1>2, <1>4, <1>5, <1>6, QuietSteps DEF LoadStep, LoadFails, Quiet

LEMMA SubjectsStep ==
    ASSUME LoadsType, SubjectsLoaded
    PROVE  /\ \E load \in loads :
                 /\ ~load.named /\ NextLoadCall(load.id)
                 /\ subjects' = SubjectsOf(load.id)
                 /\ \/ /\ UNCHANGED tabs
                       /\ \E new :
                             /\ loads' = (loads \ {load}) \cup {new}
                             /\ new.id = load.id /\ new.by = load.by /\ new.named
                             /\ ~load.failed => ~new.failed
                             /\ new.waitingFor = {subjectDocs[i].name :
                                                     i \in DOMAIN subjectDocs}
                    \/ /\ subjectDocs = <<>> /\ Completed(load)
                       /\ loads' = loads \ {load}
           /\ UNCHANGED <<subjectDocs, recordingDocs, adds, screen, faded, fades,
                          shouldReloadOnAppear>>
  <1>1. UNCHANGED <<subjectDocs, recordingDocs, adds, screen, faded, fades,
                    shouldReloadOnAppear>>
    BY DEF SubjectsLoaded, LoadedVars, cloudVars, addVars, screenVars, fadeVars
  <1>2. PICK load \in loads :
           /\ ~load.named /\ NextLoadCall(load.id)
           /\ subjects' = SubjectsOf(load.id)
           /\ \/ /\ UNCHANGED tabs
                 /\ loads' = (loads \ {load}) \cup
                       {[load EXCEPT
                            !.named = TRUE,
                            !.waitingFor = {subjectDocs[i].name :
                                               i \in DOMAIN subjectDocs}]}
              \/ /\ subjectDocs = <<>> /\ Completed(load)
                 /\ loads' = loads \ {load}
    BY DEF SubjectsLoaded
  <1> DEFINE new == [load EXCEPT
                        !.named = TRUE,
                        !.waitingFor = {subjectDocs[i].name :
                                           i \in DOMAIN subjectDocs}]
  <1>3. /\ new.id = load.id /\ new.by = load.by /\ new.named
        /\ ~load.failed => ~new.failed
        /\ new.waitingFor = {subjectDocs[i].name : i \in DOMAIN subjectDocs}
    BY DEF LoadsType, Loads
  <1> HIDE DEF new
  <1>4. \/ UNCHANGED tabs /\ loads' = (loads \ {load}) \cup {new}
        \/ subjectDocs = <<>> /\ Completed(load) /\ loads' = loads \ {load}
    BY <1>2 DEF new
  <1>5. QED BY <1>1, <1>2, <1>3, <1>4

LEMMA RecordingsStep ==
    ASSUME LoadsType, WaitingInv, RecordingsLoaded
    PROVE  /\ \E load \in loads : \E name \in load.waitingFor :
                 /\ load.named
                 /\ subjects' = Filled(subjects, load, name)
                 /\ \/ /\ UNCHANGED tabs
                       /\ \E new :
                             /\ loads' = (loads \ {load}) \cup {new}
                             /\ new.id = load.id /\ new.by = load.by /\ new.named
                             /\ ~load.failed => ~new.failed
                             /\ new.waitingFor = load.waitingFor \ {name}
                    \/ /\ load.waitingFor = {name} /\ Completed(load)
                       /\ loads' = loads \ {load}
           /\ UNCHANGED <<subjectDocs, recordingDocs, adds, screen, faded, fades,
                          shouldReloadOnAppear>>
  <1>1. UNCHANGED <<subjectDocs, recordingDocs, adds, screen, faded, fades,
                    shouldReloadOnAppear>>
    BY DEF RecordingsLoaded, LoadedVars, cloudVars, addVars, screenVars, fadeVars
  <1>2. PICK load \in loads : \E name \in load.waitingFor :
           /\ subjects' = Filled(subjects, load, name) /\ Counted(load, name)
    BY DEF RecordingsLoaded
  <1>3. PICK name \in load.waitingFor :
           /\ subjects' = Filled(subjects, load, name) /\ Counted(load, name)
    BY <1>2
  <1>4. load.named
    BY <1>3 DEF WaitingInv
  <1> DEFINE new == [load EXCEPT !.waitingFor = @ \ {name}]
  <1>5. /\ new.id = load.id /\ new.by = load.by
        /\ load.named => new.named
        /\ ~load.failed => ~new.failed
        /\ new.waitingFor = load.waitingFor \ {name}
    BY DEF LoadsType, Loads
  <1>6. \/ UNCHANGED tabs /\ loads' = (loads \ {load}) \cup {new}
        \/ load.waitingFor = {name} /\ Completed(load) /\ loads' = loads \ {load}
    BY <1>3 DEF Counted
  <1> HIDE DEF new
  <1>7. new.named
    BY <1>4, <1>5
  <1>8. \/ UNCHANGED tabs /\ \E next :
              /\ loads' = (loads \ {load}) \cup {next}
              /\ next.id = load.id /\ next.by = load.by /\ next.named
              /\ ~load.failed => ~next.failed
              /\ next.waitingFor = load.waitingFor \ {name}
        \/ load.waitingFor = {name} /\ Completed(load) /\ loads' = loads \ {load}
    BY <1>5, <1>6, <1>7
  <1>9. QED BY <1>1, <1>3, <1>4, <1>8, Zenon

\* The loads that go on go on unfailed, and named ones are the ones of before.
LEMMA LoadsGoOn ==
    ASSUME LoadsType, WaitingInv, LoadStep
    PROVE  \A load \in loads' : \E old \in loads :
              /\ load.id = old.id /\ load.by = old.by
              /\ ~old.failed => ~load.failed
              /\ load.named \/ load = old
  <1>1. CASE SubjectsLoaded
    BY <1>1, SubjectsStep
  <1>2. CASE RecordingsLoaded
    BY <1>2, RecordingsStep
  <1>3. QED BY <1>1, <1>2 DEF LoadStep

LEMMA NextNoneFailed ==
    ASSUME LoadsType, WaitingInv, NoneFailed, Next, ~LoadFails
    PROVE  NoneFailed'
  <1> USE DEF loadVars
  <1>1. CASE LoadStep
    BY <1>1, LoadsGoOn DEF NoneFailed
  <1>2. CASE BeginLoad("home") \/ BeginLoad("settings")
    <2>1. \E new : loads' = loads \cup {new} /\ new.failed = FALSE
      BY <1>2, Begun
    <2>2. QED BY <2>1 DEF NoneFailed
  <1>3. CASE loads' = loads
    BY <1>3 DEF NoneFailed
  <1>4. CASE HomeReturn \/ PopupFaded \/ SubjectDeleted
    BY <1>2, <1>3, <1>4, HomeReturns DEF PopupFaded, SubjectDeleted, SubjectDeletedAnd
  <1>5. CASE SubjectSet \/ SubjectAdded
    BY <1>3, <1>5 DEF SubjectSet, SubjectAdded
  <1>6. QED BY <1>1, <1>3, <1>4, <1>5, QuietSteps DEF Quiet

LEMMA NextAddInv ==
    ASSUME ScreenType, AddInv, FadeInv, Next, Waits', ~Fails
    PROVE  AddInv'
  <1> USE DEF addVars, screenVars, fadeVars
  <1>1. CASE PressAdd
    <2>1. adds = {}
      BY <1>1, WaitingPress DEF PressAdd, BeginAdd
    <2>2. \E add : adds' = {add}
      BY <1>1, <2>1 DEF PressAdd, BeginAdd
    <2>3. screen' = "popup" /\ fades' = fades /\ ~faded
      BY <1>1 DEF PressAdd, BeginAdd, Touchable
    <2>4. fades' = 0
      BY <2>3 DEF FadeInv, ScreenType
    <2>5. QED BY <2>2, <2>3, <2>4 DEF AddInv
  <1>2. CASE SubjectChecked \/ SubjectSet
    <2>1. PICK add \in adds :
             /\ \/ adds' = adds \ {add}
                \/ /\ \E new : adds' = (adds \ {add}) \cup {new}
                   /\ screen' = screen
             /\ fades' = fades
      BY <1>2 DEF SubjectChecked, SubjectSet
    <2>2. adds = {add} /\ screen = "popup" /\ fades = 0
      BY DEF AddInv
    <2>3. QED BY <2>1, <2>2 DEF AddInv
  <1>3. CASE SubjectAdded
    <2>1. PICK add \in adds : adds' = adds \ {add}
      BY <1>3 DEF SubjectAdded
    <2>2. QED BY <2>1 DEF AddInv
  <1>4. CASE PressDismissPopup
    BY <1>4, WaitingPress DEF PressDismissPopup, AddInv
  <1>5. CASE UNCHANGED <<adds, screen, fades>>
    BY <1>5 DEF AddInv
  <1>6. CASE UNCHANGED adds /\ (screen # "popup" \/ fades > 0)
    BY <1>6 DEF AddInv, ScreenType
  <1>7. CASE PressAddSubject \/ OpenSettings \/ PressNewRecording \/ HomeReturn
             \/ PressOk \/ PopupFaded \/ AlertFaded
    BY <1>6, <1>7, HomeReturns DEF PressAddSubject, OpenSettings, PressNewRecording,
         PressOk, PopupFaded, AlertFaded, PageVars, PopupUp
  <1>8. CASE PressSubject \/ ShowRow \/ PressCancel \/ PressDelete
    BY <1>6, <1>8 DEF PressSubject, ShowRow, PressCancel, PressDelete, SettingsVars
  <1>9. CASE ShowTab \/ SubjectDeleted
    BY <1>5, <1>9 DEF ShowTab, PageVars, SubjectDeleted, SubjectDeletedAnd, SettingsVars
  <1>10. CASE LoadStep \/ LoadFails
    BY <1>5, <1>10 DEF LoadStep, LoadFails, SubjectsLoaded, RecordingsLoaded,
         SubjectsFailToLoad, RecordingsFailToLoad, LoadedVars
  <1>11. QED BY <1>1, <1>2, <1>3, <1>4, <1>7, <1>8, <1>9, <1>10
           DEF Next, Answer, LoadStep, LoadFails, HomeReturn

LEMMA NextFadeInv ==
    ASSUME ScreenType, AddInv, FadeInv, Next, Waits'
    PROVE  FadeInv'
  <1> USE DEF addVars, screenVars, fadeVars
  <1>1. CASE PressDismissPopup
    BY <1>1 DEF PressDismissPopup, DismissPopup, Touchable, FadeInv, ScreenType
  <1>2. CASE SubjectAdded
    <2>1. PICK add \in adds :
             \/ faded' = TRUE /\ fades' = fades + 1
             \/ UNCHANGED <<faded, fades>>
      BY <1>2 DEF SubjectAdded, DismissPopup
    <2>2. screen' = screen /\ screen = "popup" /\ fades = 0
      BY <1>2, <2>1 DEF SubjectAdded, AddInv
    <2>3. QED BY <2>1, <2>2 DEF FadeInv
  <1>3. CASE SubjectChecked
    <2>1. adds # {} /\ UNCHANGED <<faded, fades>>
      BY <1>3 DEF SubjectChecked
    <2>2. fades = 0
      BY <2>1 DEF AddInv
    <2>3. QED BY <2>1, <2>2 DEF FadeInv
  <1>4. CASE PopupFaded
    BY <1>4 DEF PopupFaded, FadeInv
  <1>5. CASE AlertFaded
    BY <1>5 DEF AlertFaded, FadeInv
  <1>6. CASE UNCHANGED <<faded, fades>> /\ (screen' = screen \/ screen # "popup")
    BY <1>6 DEF FadeInv
  <1>7. CASE PressAddSubject \/ OpenSettings \/ PressNewRecording \/ HomeReturn
             \/ PressOk
    BY <1>6, <1>7, HomeReturns DEF PressAddSubject, OpenSettings, PressNewRecording,
         PressOk, PageVars, PopupUp
  <1>8. CASE PressSubject \/ ShowRow \/ PressCancel \/ PressDelete
    BY <1>6, <1>8 DEF PressSubject, ShowRow, PressCancel, PressDelete, SettingsVars
  <1>9. CASE ShowTab \/ SubjectDeleted \/ PressAdd \/ SubjectSet
    BY <1>6, <1>9 DEF ShowTab, PageVars, SubjectDeleted, SubjectDeletedAnd,
         SettingsVars, PressAdd, BeginAdd, SubjectSet
  <1>10. CASE LoadStep \/ LoadFails
    BY <1>6, <1>10 DEF LoadStep, LoadFails, SubjectsLoaded, RecordingsLoaded,
         SubjectsFailToLoad, RecordingsFailToLoad, LoadedVars
  <1>11. QED BY <1>1, <1>2, <1>3, <1>4, <1>5, <1>7, <1>8, <1>9, <1>10
           DEF Next, Answer, LoadStep, LoadFails, HomeReturn

LEMMA NextSettingsAhead ==
    ASSUME LoadsType, WaitingInv, SettingsAhead, Next, ~LoadFails
    PROVE  SettingsAhead'
  <1> USE DEF loadVars
  <1>1. CASE SubjectsLoaded
    <2>1. PICK load \in loads :
             /\ ~load.named /\ NextLoadCall(load.id)
             /\ \/ loads' = loads \ {load}
                \/ \E new : loads' = (loads \ {load}) \cup {new} /\ new.named
      BY <1>1, SubjectsStep
    <2>2. shouldReloadOnAppear' = shouldReloadOnAppear
      BY <1>1, SubjectsStep
    <2>3. ASSUME NEW s \in loads', s.by = "settings", ~s.named, ~shouldReloadOnAppear
          PROVE  \E home \in loads' : /\ home.by = "home" /\ ~home.named
                                      /\ home.id > s.id
      <3>1. s \in loads
        BY <2>1, <2>3
      <3>2. PICK home \in loads : home.by = "home" /\ ~home.named /\ home.id > s.id
        BY <2>3, <3>1 DEF SettingsAhead
      <3>3. home # load
        BY <2>1, <2>3, <3>1, <3>2, BooleanLoads DEF NextLoadCall
      <3>4. home \in loads'
        BY <2>1, <3>3
      <3>5. QED BY <3>2, <3>4
    <2>4. QED BY <2>2, <2>3, Zenon DEF SettingsAhead
  <1>2. CASE RecordingsLoaded
    <2>1. PICK load \in loads :
             /\ load.named
             /\ \/ loads' = loads \ {load}
                \/ \E new : loads' = (loads \ {load}) \cup {new} /\ new.named
      BY <1>2, RecordingsStep
    <2>2. shouldReloadOnAppear' = shouldReloadOnAppear
      BY <1>2, RecordingsStep
    <2>3. /\ \A s \in loads' : ~s.named => s \in loads
          /\ \A s \in loads : ~s.named => s \in loads'
      BY <2>1
    <2>4. QED BY <2>2, <2>3, Zenon DEF SettingsAhead
  <1>3. CASE BeginLoad("home")
    <2>1. PICK new : /\ loads' = loads \cup {new}
                     /\ new.by = "home" /\ new.id = loadCalls + 1 /\ new.named = FALSE
      BY <1>3, Begun
    <2>2. \A s \in loads' : s.by = "settings" => s \in loads
      BY <2>1
    <2>3. \A s \in loads : new.id > s.id
      BY <2>1, BooleanLoads
    <2>4. new \in loads'
      BY <2>1
    <2>5. QED BY <2>1, <2>2, <2>3, <2>4 DEF SettingsAhead
  <1>4. CASE loads' = loads /\ (shouldReloadOnAppear => shouldReloadOnAppear')
    BY <1>4, Zenon DEF SettingsAhead
  <1>5. CASE HomeReturn
    <2>1. \/ BeginLoad("home")
          \/ ~shouldReloadOnAppear /\ loads' = loads
      BY <1>5, HomeReturns
    <2>2. QED BY <1>3, <1>4, <2>1
  <1>6. CASE SubjectDeleted
    BY <1>6 DEF SubjectDeleted, SubjectDeletedAnd, SettingsAhead
  <1>7. CASE PopupFaded
    BY <1>3, <1>7 DEF PopupFaded
  <1>8. CASE SubjectSet \/ SubjectAdded
    <2>1. loads' = loads /\ shouldReloadOnAppear' = shouldReloadOnAppear
      BY <1>8 DEF SubjectSet, SubjectAdded
    <2>2. QED BY <1>4, <2>1
  <1>9. ASSUME Quiet PROVE SettingsAhead'
    <2>1. loads' = loads /\ shouldReloadOnAppear' = shouldReloadOnAppear
      BY <1>9 DEF Quiet
    <2>2. QED BY <1>4, <2>1
  <1>10. QED BY <1>1, <1>2, <1>5, <1>6, <1>7, <1>8, <1>9, QuietSteps DEF LoadStep

LEMMA NamesOfSubjects ==
    ASSUME DocsType, NEW id \in Nat
    PROVE  NamesOf(SubjectsOf(id)) = NamesOf(subjectDocs)
  BY DEF NamesOf, SubjectsOf

LEMMA NamesOfFilled ==
    ASSUME NEW objects \in Seq(Subjects), NEW load, NEW name
    PROVE  NamesOf(Filled(objects, load, name)) = NamesOf(objects)
  <1>1. DOMAIN Filled(objects, load, name) = DOMAIN objects
    BY DEF Filled
  <1>2. \A i \in DOMAIN objects : Filled(objects, load, name)[i].name = objects[i].name
    BY DEF Filled, Subjects
  <1>3. QED BY <1>1, <1>2 DEF NamesOf

LEMMA NextCacheNamed ==
    ASSUME TypeInv, WaitingInv, AddInv, CacheNamed, Next, ~LoadFails, ~Fails
    PROVE  CacheNamed'
  <1> USE DEF loadVars
  <1>0. LoadsType /\ CacheType /\ DocsType /\ AddsType
    BY DEF TypeInv
  <1>1. CASE SubjectsLoaded
    <2>1. PICK load \in loads : subjects' = SubjectsOf(load.id)
      BY <1>0, <1>1, SubjectsStep
    <2>2. subjectDocs' = subjectDocs /\ load.id \in Nat
      BY <1>0, <1>1, SubjectsStep, BooleanLoads
    <2>3. NamesOf(SubjectsOf(load.id)) = NamesOf(subjectDocs)
      BY <1>0, <2>2, NamesOfSubjects
    <2>4. NamesOf(subjects') = NamesOf(subjectDocs')
      BY <2>1, <2>2, <2>3
    <2>5. QED BY <2>4 DEF CacheNamed, NamesOf
  <1>2. CASE RecordingsLoaded
    <2>1. PICK load \in loads, name \in Names :
             /\ subjects' = Filled(subjects, load, name)
             /\ load.named
             /\ \/ loads' = loads \ {load}
                \/ \E new : loads' = (loads \ {load}) \cup {new} /\ new.named
      BY <1>0, <1>2, RecordingsStep, BooleanLoads
    <2>2. subjectDocs' = subjectDocs /\ screen' = screen
      BY <1>0, <1>2, RecordingsStep
    <2>3. NamesOf(subjects') = NamesOf(subjects)
      BY <1>0, <2>1, NamesOfFilled DEF CacheType
    <2>4. (\E other \in loads : ~other.named) => \E other \in loads' : ~other.named
      BY <2>1
    <2>5. QED BY <2>2, <2>3, <2>4 DEF CacheNamed, PopupUp, NamesOf
  <1>3. CASE SubjectAdded
    <2>1. PICK add \in adds : /\ add.load \in Nat
                              /\ subjects' = SubjectsOf(add.load)
      BY <1>0, <1>3 DEF SubjectAdded, AddsType, Adds, LoadsType
    <2>2. subjectDocs' = subjectDocs
      BY <1>3 DEF SubjectAdded, cloudVars
    <2>3. NamesOf(SubjectsOf(add.load)) = NamesOf(subjectDocs)
      BY <1>0, <2>1, NamesOfSubjects
    <2>4. NamesOf(subjects') = NamesOf(subjectDocs')
      BY <2>1, <2>2, <2>3
    <2>5. QED BY <2>4 DEF CacheNamed, NamesOf
  <1>4. CASE SubjectSet
    <2>1. screen = "popup" /\ screen' = screen
      BY <1>4 DEF SubjectSet, AddInv, screenVars
    <2>2. QED BY <2>1 DEF CacheNamed, PopupUp
  <1>5. CASE BeginLoad("home") \/ BeginLoad("settings")
    <2>1. \E new \in loads' : new.named = FALSE
      BY <1>5, Begun
    <2>2. QED BY <2>1 DEF CacheNamed
  <1>6. CASE /\ UNCHANGED <<subjects, subjectDocs, loads>>
             /\ PopupUp => PopupUp'
    BY <1>6 DEF CacheNamed, NamesOf
  <1>7. CASE HomeReturn \/ PopupFaded \/ SubjectDeleted
    BY <1>5, <1>6, <1>7, HomeReturns DEF PopupFaded, SubjectDeleted, SubjectDeletedAnd
  <1>8. QED BY <1>1, <1>2, <1>3, <1>4, <1>6, <1>7, QuietSteps DEF LoadStep, Quiet


LEMMA HomeLoadAhead ==
    ASSUME BeginLoad("home")
    PROVE  ReloadAhead'
  <1>1. \E new \in loads' : new.by = "home" /\ new.named = FALSE
    BY Begun
  <1>2. UnnamedHome'
    BY <1>1 DEF UnnamedHome
  <1>3. QED BY <1>2 DEF ReloadAhead

\* Only the subjects that the home page's own load brings end what was ahead.
LEMMA KeepReloadAhead ==
    ASSUME LoadsType, WaitingInv, ReloadAhead, Next, ~LoadFails, ~SubjectsLoaded
    PROVE  ReloadAhead'
  <1> USE DEF loadVars
  <1>1. CASE RecordingsLoaded
    <2>1. PICK load \in loads :
             /\ load.named
             /\ \/ loads' = loads \ {load}
                \/ \E new : loads' = (loads \ {load}) \cup {new} /\ new.named
      BY <1>1, RecordingsStep
    <2>2. shouldReloadOnAppear' = shouldReloadOnAppear /\ screen' = screen
      BY <1>1, RecordingsStep
    <2>3. UnnamedHome => UnnamedHome'
      BY <2>1 DEF UnnamedHome
    <2>4. PopupUp => PopupUp'
      BY <2>2 DEF PopupUp
    <2>5. QED BY <2>2, <2>3, <2>4, Zenon DEF ReloadAhead
  <1>2. CASE HomeReturn
    <2>1. CASE BeginLoad("home")
      BY <2>1, HomeLoadAhead
    <2>2. CASE ~shouldReloadOnAppear /\ loads' = loads
      <3>1. UnnamedHome
        BY <1>2, <2>2, HomeReturns DEF ReloadAhead
      <3>2. QED BY <2>2, <3>1 DEF ReloadAhead, UnnamedHome
    <2>3. QED BY <1>2, <2>1, <2>2, HomeReturns
  <1>3. CASE PopupFaded
    BY <1>3, HomeLoadAhead DEF PopupFaded
  <1>4. CASE SubjectDeleted
    BY <1>4 DEF SubjectDeleted, SubjectDeletedAnd, ReloadAhead
  <1>5. CASE /\ UNCHANGED <<loads, shouldReloadOnAppear>>
             /\ PopupUp => PopupUp'
    BY <1>5, Zenon DEF ReloadAhead, UnnamedHome
  <1>6. CASE SubjectSet \/ SubjectAdded
    <2>1. UNCHANGED <<loads, shouldReloadOnAppear, screen>>
      BY <1>6 DEF SubjectSet, SubjectAdded, screenVars
    <2>2. QED BY <1>5, <2>1 DEF PopupUp
  <1>7. QED BY <1>1, <1>2, <1>3, <1>4, <1>5, <1>6, QuietSteps DEF LoadStep, Quiet

\* Subjects that the settings page loads are not the last word.
LEMMA SettingsLoadAhead ==
    ASSUME LoadsType, SettingsAhead, SubjectsLoaded,
           NEW load \in loads, ~load.named, load.by # "home",
           loads' = loads \ {load} \/ \E new : loads' = (loads \ {load}) \cup {new}
    PROVE  ReloadAhead'
  <1>1. \/ shouldReloadOnAppear
        \/ \E home \in loads : home.by = "home" /\ ~home.named
    BY BooleanLoads DEF SettingsAhead
  <1>2. shouldReloadOnAppear' = shouldReloadOnAppear
    BY SubjectsStep
  <1>3. (\E home \in loads : home.by = "home" /\ ~home.named) => UnnamedHome'
    BY DEF UnnamedHome
  <1>4. QED BY <1>1, <1>2, <1>3, Zenon DEF ReloadAhead

\* A step of the cloud is a step towards a reload.
LEMMA CloudAhead ==
    ASSUME AddInv, Next, ~Fails
    PROVE  \/ ReloadAhead'
           \/ UNCHANGED <<subjectDocs, recordingDocs>>
  <1>1. CASE SubjectSet
    <2>1. screen = "popup" /\ screen' = screen
      BY <1>1 DEF SubjectSet, AddInv, screenVars
    <2>2. QED BY <2>1 DEF ReloadAhead, PopupUp
  <1>2. CASE SubjectDeleted
    BY <1>2 DEF SubjectDeleted, SubjectDeletedAnd, ReloadAhead
  <1>3. CASE HomeReturn
    BY <1>3, HomeReturns, HomeLoadAhead
  <1>4. CASE SubjectAdded \/ PopupFaded
    BY <1>4 DEF SubjectAdded, PopupFaded, cloudVars
  <1>5. CASE LoadStep \/ LoadFails
    BY <1>5 DEF LoadStep, LoadFails, SubjectsLoaded, RecordingsLoaded,
         SubjectsFailToLoad, RecordingsFailToLoad, LoadedVars, cloudVars
  <1>6. QED BY <1>1, <1>2, <1>3, <1>4, <1>5, QuietSteps DEF Quiet

LEMMA SameHasRecordings ==
    ASSUME UNCHANGED recordingDocs
    PROVE  \A name : HasRecordings(name)' = HasRecordings(name)
  BY DEF HasRecordings

LEMMA NextFilling ==
    ASSUME TypeInv, WaitingInv, SettingsAhead, AddInv, Filling, Next,
           ~LoadFails, ~Fails
    PROVE  Filling'
  <1>0. LoadsType /\ CacheType /\ DocsType
    BY DEF TypeInv
  <1>1. CASE SubjectsLoaded
    <2>1. PICK load \in loads :
             /\ ~load.named
             /\ subjects' = SubjectsOf(load.id)
             /\ \/ \E new :
                      /\ loads' = (loads \ {load}) \cup {new}
                      /\ new.id = load.id /\ new.by = load.by /\ new.named
                      /\ new.waitingFor = {subjectDocs[i].name :
                                              i \in DOMAIN subjectDocs}
                \/ subjectDocs = <<>> /\ loads' = loads \ {load}
      BY <1>0, <1>1, SubjectsStep
    <2>2. CASE load.by # "home"
      BY <1>0, <1>1, <2>1, <2>2, SettingsLoadAhead DEF Filling
    <2>3. CASE load.by = "home" /\ subjectDocs = <<>>
      BY <2>1, <2>3 DEF Filling, SubjectsOf
    <2>4. ASSUME load.by = "home", subjectDocs # <<>>,
                 NEW i \in DOMAIN subjects'
          PROVE  FilledOrWaited(subjects[i])'
      <3>1. PICK new : /\ loads' = (loads \ {load}) \cup {new}
                       /\ new.id = load.id /\ new.by = load.by /\ new.named
                       /\ new.waitingFor = {subjectDocs[j].name :
                                               j \in DOMAIN subjectDocs}
        BY <2>1, <2>4
      <3>2. /\ subjects'[i].load = load.id
            /\ subjects'[i].name \in new.waitingFor
        BY <2>1, <3>1 DEF SubjectsOf
      <3>3. new \in loads'
        BY <3>1
      <3>4. QED BY <2>4, <3>1, <3>2, <3>3 DEF FilledOrWaited
    <2>5. QED BY <2>2, <2>3, <2>4 DEF Filling
  <1>2. CASE RecordingsLoaded /\ ~SubjectsLoaded
    <2>1. PICK load \in loads : \E name \in load.waitingFor :
             /\ subjects' = Filled(subjects, load, name)
             /\ \/ \E new :
                      /\ loads' = (loads \ {load}) \cup {new}
                      /\ new.id = load.id /\ new.by = load.by /\ new.named
                      /\ new.waitingFor = load.waitingFor \ {name}
                \/ load.waitingFor = {name} /\ loads' = loads \ {load}
      BY <1>0, <1>2, RecordingsStep
    <2>2. PICK name \in load.waitingFor :
             /\ subjects' = Filled(subjects, load, name)
             /\ \/ \E new :
                      /\ loads' = (loads \ {load}) \cup {new}
                      /\ new.id = load.id /\ new.by = load.by /\ new.named
                      /\ new.waitingFor = load.waitingFor \ {name}
                \/ load.waitingFor = {name} /\ loads' = loads \ {load}
      BY <2>1
    <2>3. recordingDocs' = recordingDocs
      BY <1>0, <1>2, RecordingsStep
    <2>4. CASE ReloadAhead
      BY <1>0, <1>2, <2>4, KeepReloadAhead DEF Filling
    <2>5. ASSUME NEW i \in DOMAIN subjects, FilledOrWaited(subjects[i])
          PROVE  FilledOrWaited(subjects[i])'
      <3>0. HasRecordings(name)' = HasRecordings(name)
            /\ HasRecordings(subjects[i].name)' = HasRecordings(subjects'[i].name)
        BY <2>3 DEF HasRecordings
      <3>1. subjects[i] \in Subjects
        BY <1>0 DEF CacheType
      <3>2. CASE subjects[i].load = load.id /\ subjects[i].name = name
        <4>1. subjects'[i] = [subjects[i] EXCEPT !.hasRecordings = HasRecordings(name)]
          BY <2>2, <3>2 DEF Filled
        <4>2. /\ subjects'[i].hasRecordings = HasRecordings(name)
              /\ subjects'[i].name = name
          BY <3>1, <3>2, <4>1 DEF Subjects
        <4>3. subjects'[i].hasRecordings = HasRecordings(subjects[i].name)'
          BY <3>0, <4>2
        <4>4. QED BY <4>3 DEF FilledOrWaited
      <3>3. CASE ~(subjects[i].load = load.id /\ subjects[i].name = name)
        <4>1. subjects'[i] = subjects[i]
          BY <2>2, <3>3 DEF Filled
        <4>2. CASE subjects[i].hasRecordings = HasRecordings(subjects[i].name)
          <5>1. subjects'[i].hasRecordings = HasRecordings(subjects[i].name)'
            BY <3>0, <4>1, <4>2
          <5>2. QED BY <5>1 DEF FilledOrWaited
        <4>3. CASE \E waiting \in loads :
                      /\ waiting.by = "home" /\ waiting.named
                      /\ waiting.id = subjects[i].load
                      /\ subjects[i].name \in waiting.waitingFor
          <5>1. \E waiting \in loads' :
                   /\ waiting.by = "home" /\ waiting.named
                   /\ waiting.id = subjects[i].load
                   /\ subjects[i].name \in waiting.waitingFor
            BY <2>2, <3>3, <4>3
          <5>2. QED BY <4>1, <5>1 DEF FilledOrWaited
        <4>4. QED BY <4>2, <4>3, <2>5 DEF FilledOrWaited
      <3>4. QED BY <3>2, <3>3
    <2>6. DOMAIN subjects' = DOMAIN subjects
      BY <2>2 DEF Filled
    <2>7. QED BY <2>4, <2>5, <2>6 DEF Filling
  <1>3. CASE /\ UNCHANGED <<subjects, loads, recordingDocs>>
             /\ ~SubjectsLoaded
    <2>1. CASE ReloadAhead
      BY <1>0, <1>3, <2>1, KeepReloadAhead DEF Filling
    <2>2. CASE ~ReloadAhead
      <3>1. \A i \in DOMAIN subjects : FilledOrWaited(subjects[i])
        BY <2>2 DEF Filling
      <3>2. \A name : HasRecordings(name)' = HasRecordings(name)
        BY <1>3, SameHasRecordings
      <3>3. ASSUME NEW i \in DOMAIN subjects' PROVE FilledOrWaited(subjects[i])'
        <4>1. subjects' = subjects /\ loads' = loads
          BY <1>3
        <4>2. FilledOrWaited(subjects[i])
          BY <3>1, <4>1
        <4>3. QED BY <3>2, <4>1, <4>2 DEF FilledOrWaited
      <3>4. QED BY <3>3 DEF Filling
    <2>3. QED BY <2>1, <2>2
  <1>4. CASE SubjectAdded
    <2>1. screen = "popup" /\ screen' = screen
      BY <1>4 DEF SubjectAdded, AddInv
    <2>2. QED BY <2>1 DEF Filling, ReloadAhead, PopupUp
  <1>5. CASE SubjectSet \/ SubjectDeleted
    <2>1. ReloadAhead'
      <3>1. CASE SubjectDeleted
        BY <3>1 DEF SubjectDeleted, SubjectDeletedAnd, ReloadAhead
      <3>2. CASE SubjectSet
        BY <3>2 DEF SubjectSet, AddInv, screenVars, ReloadAhead, PopupUp
      <3>3. QED BY <1>5, <3>1, <3>2
    <2>2. QED BY <2>1 DEF Filling
  <1>6. CASE HomeReturn /\ ~SubjectsLoaded
    <2>1. \/ BeginLoad("home")
          \/ UNCHANGED <<subjects, loads, recordingDocs>>
      BY <1>6, HomeReturns
    <2>2. QED BY <1>3, <1>6, <2>1, HomeLoadAhead DEF Filling
  <1>7. CASE PopupFaded
    BY <1>7, HomeLoadAhead DEF PopupFaded, Filling
  <1>8. QED BY <1>1, <1>2, <1>3, <1>4, <1>5, <1>6, <1>7, QuietSteps
          DEF LoadStep, Quiet

TabsOfCache == [i \in DOMAIN subjects |->
                   [name |-> subjects[i].name,
                    hasRecordings |-> subjects[i].hasRecordings]]

CacheFresh == FreshTabs = TabsOfCache

NothingAhead == /\ LoadsType /\ SettingsAhead /\ CacheNamed /\ Filling
                /\ ~ReloadAhead /\ ~HomeLoading

\* A cache that agrees with the cloud makes fresh tabs.
LEMMA FreshFromCache == NothingAhead => CacheFresh
  <1> SUFFICES ASSUME NothingAhead PROVE CacheFresh
    OBVIOUS
  <1>1. /\ NamesOf(subjects) = NamesOf(subjectDocs)
        /\ \A i \in DOMAIN subjects :
              subjects[i].hasRecordings = HasRecordings(subjects[i].name)
    BY Settled DEF NothingAhead
  <1>2. /\ DOMAIN subjects = DOMAIN subjectDocs
        /\ \A i \in DOMAIN subjects : subjects[i].name = subjectDocs[i].name
    BY <1>1, SameNames
  <1>3. \A i \in DOMAIN subjects :
           [name |-> subjects[i].name, hasRecordings |-> subjects[i].hasRecordings]
           = [name |-> subjectDocs[i].name,
              hasRecordings |-> HasRecordings(subjectDocs[i].name)]
    BY <1>1, <1>2
  <1>4. QED BY <1>2, <1>3 DEF FreshTabs, TabsOfCache, CacheFresh

LEMMA FreshFromNextCache == NothingAhead' => CacheFresh'
  BY FreshFromCache, PTL

LEMMA CompletedFresh ==
    ASSUME LoadsType', SettingsAhead', CacheNamed', Filling',
           NEW load, Completed(load), load.by = "home"
    PROVE  TabsInv'
  <1>1. tabs' = TabsOfCache'
    BY DEF Completed, TabsOfCache
  <1>2. CASE ~ReloadAhead' /\ ~HomeLoading'
    <2>1. NothingAhead'
      BY <1>2 DEF NothingAhead
    <2>2. QED BY <1>1, <2>1, FreshFromNextCache DEF TabsInv, CacheFresh
  <1>3. QED BY <1>2 DEF TabsInv

LEMMA NextTabsInv ==
    ASSUME TypeInv, LoadsType', WaitingInv, SettingsAhead, AddInv, CacheNamed,
           Filling, TabsInv, SettingsAhead', CacheNamed', Filling', Next,
           ~LoadFails, ~Fails
    PROVE  TabsInv'
  <1>0. LoadsType /\ CacheType /\ DocsType /\ TabsType
    BY DEF TypeInv
  <1>1. CASE SubjectsLoaded
    <2>1. PICK load \in loads :
             /\ ~load.named
             /\ \/ \E new :
                      /\ loads' = (loads \ {load}) \cup {new}
                      /\ new.by = load.by
                \/ Completed(load) /\ loads' = loads \ {load}
      BY <1>0, <1>1, SubjectsStep
    <2>2. CASE load.by # "home"
      BY <1>0, <1>1, <2>1, <2>2, SettingsLoadAhead DEF TabsInv
    <2>3. CASE /\ load.by = "home"
               /\ \E new : loads' = (loads \ {load}) \cup {new} /\ new.by = load.by
      BY <2>3 DEF TabsInv, HomeLoading
    <2>4. CASE load.by = "home" /\ Completed(load)
      BY <2>4, CompletedFresh
    <2>5. QED BY <2>1, <2>2, <2>3, <2>4
  <1>2. CASE ReloadAhead /\ ~SubjectsLoaded
    BY <1>0, <1>2, KeepReloadAhead DEF TabsInv
  <1>3. CASE RecordingsLoaded /\ ~ReloadAhead
    <2>1. PICK load \in loads :
             \/ /\ UNCHANGED tabs
                /\ \E new : /\ loads' = (loads \ {load}) \cup {new}
                            /\ new.by = load.by
             \/ Completed(load) /\ loads' = loads \ {load}
      BY <1>0, <1>3, RecordingsStep
    <2>2. UNCHANGED <<subjectDocs, recordingDocs>>
      BY <1>0, <1>3, RecordingsStep
    <2>3. FreshTabs' = FreshTabs
      BY <2>2 DEF FreshTabs, HasRecordings
    <2>4. tabs = FreshTabs \/ HomeLoading
      BY <1>3 DEF TabsInv
    <2>5. CASE Completed(load) /\ load.by = "home"
      BY <2>5, CompletedFresh
    <2>6. CASE UNCHANGED tabs /\ \E new : /\ loads' = (loads \ {load}) \cup {new}
                                          /\ new.by = load.by
      <3>1. HomeLoading => HomeLoading'
        BY <2>6 DEF HomeLoading
      <3>2. QED BY <2>3, <2>4, <2>6, <3>1 DEF TabsInv
    <2>7. CASE load.by # "home" /\ Completed(load) /\ loads' = loads \ {load}
      <3>1. HomeLoading => HomeLoading'
        BY <2>7 DEF HomeLoading
      <3>2. tabs' = tabs
        BY <2>7 DEF Completed
      <3>3. QED BY <2>3, <2>4, <3>1, <3>2 DEF TabsInv
    <2>8. QED BY <2>1, <2>5, <2>6, <2>7
  <1>4. CASE ShowTab /\ ~ReloadAhead
    <2>1. UNCHANGED <<subjectDocs, recordingDocs, loads>>
      BY <1>4 DEF ShowTab, PageVars, cloudVars, loadVars
    <2>2. FreshTabs' = FreshTabs
      BY <2>1 DEF FreshTabs, HasRecordings
    <2>3. CASE HomeLoading
      BY <2>1, <2>3 DEF TabsInv, HomeLoading
    <2>4. CASE ~HomeLoading
      <3>1. NothingAhead
        BY <1>0, <1>4, <2>4 DEF NothingAhead
      <3>2. tabs = TabsOfCache
        BY <1>4, <2>4, <3>1, FreshFromCache DEF TabsInv, CacheFresh
      <3>3. PICK i \in DOMAIN tabs :
               tabs' = IF i \in DOMAIN subjects
                       THEN [tabs EXCEPT ![i].hasRecordings =
                                subjects[i].hasRecordings]
                       ELSE tabs
        BY <1>4 DEF ShowTab
      <3>4. tabs' = tabs
        BY <3>2, <3>3 DEF TabsOfCache
      <3>5. QED BY <1>4, <2>2, <2>4, <3>4 DEF TabsInv
    <2>5. QED BY <2>3, <2>4
  <1>5. CASE /\ UNCHANGED <<tabs, subjectDocs, recordingDocs>>
             /\ HomeLoading => HomeLoading'
             /\ ~ReloadAhead
    <2>1. FreshTabs' = FreshTabs
      BY <1>5 DEF FreshTabs, HasRecordings
    <2>2. QED BY <1>5, <2>1 DEF TabsInv
  <1>6. CASE HomeReturn /\ ~ReloadAhead
    <2>1. tabs' = tabs /\ subjectDocs' = subjectDocs
      BY <1>6, HomeReturns
    <2>2. CASE BeginLoad("home")
      BY <2>2, HomeLoadAhead DEF TabsInv
    <2>3. CASE UNCHANGED <<loads, recordingDocs>>
      BY <1>5, <1>6, <2>1, <2>3 DEF HomeLoading
    <2>4. QED BY <1>6, <2>2, <2>3, HomeReturns
  <1>7. CASE SubjectDeleted
    BY <1>7 DEF SubjectDeleted, SubjectDeletedAnd, ReloadAhead, TabsInv
  <1>8. CASE SubjectSet \/ SubjectAdded
    <2>1. screen = "popup" /\ screen' = screen
      BY <1>8 DEF SubjectSet, SubjectAdded, AddInv, screenVars
    <2>2. QED BY <2>1 DEF ReloadAhead, PopupUp, TabsInv
  <1>9. CASE PopupFaded
    BY <1>9, HomeLoadAhead DEF PopupFaded, TabsInv
  <1>10. CASE Quiet /\ tabs' = tabs /\ ~ReloadAhead
    BY <1>5, <1>10 DEF Quiet, HomeLoading
  <1>11. QED BY <1>1, <1>2, <1>3, <1>4, <1>6, <1>7, <1>8, <1>9, <1>10, QuietSteps
           DEF LoadStep

Inv == TypeInv /\ WaitsInv

LEMMA InitWaits == Init => WaitsInv
  <1> SUFFICES ASSUME Init PROVE WaitsInv
    OBVIOUS
  <1>1. WaitingInv /\ NoneFailed /\ SettingsAhead /\ AddInv
    BY DEF Init, WaitingInv, NoneFailed, SettingsAhead, AddInv
  <1>2. FadeInv
    BY DEF Init, FadeInv
  <1>3. \A i \in DOMAIN FirstNames : HasRecordings(FirstNames[i]) = TRUE
    BY DEF Init, HasRecordings
  <1>4. CacheNamed
    BY DEF Init, CacheNamed, NamesOf
  <1>5. Filling
    <2>1. \A i \in DOMAIN subjects :
             /\ subjects[i].hasRecordings = TRUE
             /\ HasRecordings(subjects[i].name) = TRUE
      BY <1>3 DEF Init
    <2>2. QED BY <2>1 DEF Filling, FilledOrWaited
  <1>6. TabsInv
    <2>1. \A i \in DOMAIN FirstNames :
             [name |-> FirstNames[i], hasRecordings |-> HasRecordings(FirstNames[i])]
             = [name |-> FirstNames[i], hasRecordings |-> TRUE]
      BY <1>3
    <2>2. FreshTabs = [i \in DOMAIN FirstNames |->
                          [name |-> FirstNames[i],
                           hasRecordings |-> HasRecordings(FirstNames[i])]]
      BY DEF Init, FreshTabs
    <2>3. tabs = FreshTabs
      BY <2>1, <2>2 DEF Init
    <2>4. QED BY <2>3 DEF TabsInv
  <1>7. QED BY <1>1, <1>2, <1>4, <1>5, <1>6 DEF WaitsInv, Parts

LEMMA NextWaits ==
    ASSUME TypeInv, TypeInv', WaitsInv, Next
    PROVE  WaitsInv'
  <1>0. /\ LoadsType /\ ScreenType /\ WaitingInv
        /\ LoadsType'
    BY DEF TypeInv, WaitsInv
  <1>1. WaitingInv'
    BY <1>0, NextWaitingInv
  <1>2. ASSUME Waits' PROVE Parts'
    <2>1. Waits /\ ~Fails /\ ~LoadFails
      BY <1>2, WaitingStep
    <2>2. /\ NoneFailed /\ AddInv /\ FadeInv /\ SettingsAhead /\ CacheNamed
          /\ Filling /\ TabsInv
      BY <2>1 DEF WaitsInv, Parts
    <2>3. NoneFailed'
      BY <1>0, <2>1, <2>2, NextNoneFailed
    <2>4. AddInv' /\ FadeInv'
      BY <1>0, <1>2, <2>1, <2>2, NextAddInv, NextFadeInv
    <2>5. SettingsAhead'
      BY <1>0, <2>1, <2>2, NextSettingsAhead
    <2>6. CacheNamed'
      BY <1>0, <2>1, <2>2, NextCacheNamed
    <2>7. Filling'
      BY <1>0, <2>1, <2>2, NextFilling
    <2>8. TabsInv'
      BY <1>0, <2>1, <2>2, <2>5, <2>6, <2>7, NextTabsInv
    <2>9. QED BY <2>3, <2>4, <2>5, <2>6, <2>7, <2>8 DEF Parts
  <1>3. QED BY <1>1, <1>2 DEF WaitsInv

LEMMA SameWaits ==
    ASSUME WaitsInv, UNCHANGED vars
    PROVE  WaitsInv'
  <1> USE DEF vars, cloudVars, addVars, deleteVars, fadeVars, screenVars, tabVars,
              loadVars
  <1>1. WaitingInv' = WaitingInv /\ NoneFailed' = NoneFailed /\ AddInv' = AddInv
    BY DEF WaitingInv, NoneFailed, AddInv
  <1>2. FadeInv' = FadeInv /\ Waits' = Waits
    BY Zenon DEF FadeInv, Waits
  <1>3. UnnamedHome' = UnnamedHome /\ PopupUp' = PopupUp /\ HomeLoading' = HomeLoading
    BY DEF UnnamedHome, PopupUp, HomeLoading
  <1>4. SettingsAhead' = SettingsAhead /\ ReloadAhead' = ReloadAhead
    BY <1>3, Zenon DEF SettingsAhead, ReloadAhead
  <1>5. CacheNamed' = CacheNamed
    BY <1>3, Zenon DEF CacheNamed, NamesOf
  <1>6. Filling' = Filling
    BY <1>4, Zenon DEF Filling, FilledOrWaited, HasRecordings
  <1>7. TabsInv' = TabsInv
    BY <1>3, <1>4, Zenon DEF TabsInv, FreshTabs, HasRecordings
  <1>8. QED BY <1>1, <1>2, <1>4, <1>5, <1>6, <1>7, Zenon DEF WaitsInv, Parts

LEMMA InvHolds == Spec => []Inv
  <1>1. Init => Inv
    BY InitType, InitWaits DEF Inv
  <1>2. Inv /\ [Next]_vars => Inv'
    <2> SUFFICES ASSUME Inv, [Next]_vars PROVE Inv'
      OBVIOUS
    <2>1. CASE Next
      <3>1. TypeInv'
        BY <2>1, NextType DEF Inv
      <3>2. QED BY <2>1, <3>1, NextWaits DEF Inv
    <2>2. CASE UNCHANGED vars
      BY <2>2, SameType, SameWaits DEF Inv
    <2>3. QED BY <2>1, <2>2
  <1>3. QED BY <1>1, <1>2, PTL DEF Spec

\* However adds, deletes and loads replace the cache in turn, the tabs are
\* those of the cloud or somebody is about to reload them.
THEOREM StaleTabsNoticedHolds == Spec => []StaleTabsNoticed
  <1>1. Inv => StaleTabsNoticed
    <2> SUFFICES ASSUME Inv, Waits PROVE StaleTabsNoticed
      <3>1. ~Waits /\ TypeInv => StaleTabsNoticed
        BY LibraryAssumption DEF Waits, StaleTabsNoticed, TypeInv, MishapsType
      <3>2. QED BY <3>1 DEF Inv
    <2>1. NoneFailed /\ FadeInv /\ TabsInv
      BY DEF Inv, WaitsInv, Parts
    <2>2. CASE HomeLoading \/ UnnamedHome
      BY <2>1, <2>2 DEF HomeLoading, UnnamedHome, NoneFailed, StaleTabsNoticed
    <2>3. CASE PopupUp
      BY <2>1, <2>3 DEF PopupUp, FadeInv, OnScreen, StaleTabsNoticed
    <2>4. CASE shouldReloadOnAppear \/ tabs = FreshTabs
      BY <2>4, Zenon DEF StaleTabsNoticed
    <2>5. QED BY <2>1, <2>2, <2>3, <2>4 DEF TabsInv, ReloadAhead
  <1>2. QED BY InvHolds, <1>1, PTL

-----------------------------------------------------------------------------
(* While the student also leaves the tabs alone: with the home page on the   *)
(* screen and nothing under way, tabs and cache are of the same moment.      *)

Patient == hurried \subseteq {"settings"} /\ errors = 0

\* Deletes are waited for in the settings, which the home page comes back from.
DeletesAway ==
    shouldReloadOnAppear \/ deletes # {} => screen \in {"settings", "deleteAlert"}

NeverWrong ==
    /\ screen = "home" => ~trapped
    /\ \A i \in DOMAIN recordings : recordings[i].subject = recordings[i].tab

PatientInv == Patient => DeletesAway /\ NeverWrong

LEMMA PatientActs ==
    ASSUME Patient', NEW answers, NEW place, place # "settings",
           ActsDuring(answers, place)
    PROVE  answers = {}
  BY DEF Patient, ActsDuring

LEMMA NextDeletesAway ==
    ASSUME TypeInv, DeletesAway, Patient', Next
    PROVE  DeletesAway'
  <1> USE DEF deleteVars, screenVars
  <1>1. CASE UNCHANGED <<shouldReloadOnAppear, deletes, screen>>
    BY <1>1, Zenon DEF DeletesAway
  <1>2. CASE PressDelete \/ PressSubject \/ ShowRow \/ PressCancel
    BY <1>2 DEF PressDelete, PressSubject, ShowRow, PressCancel, DeletesAway
  <1>3. CASE SubjectDeleted
    BY <1>3 DEF SubjectDeleted, SubjectDeletedAnd, DeletesAway
  <1>4. CASE CloseSettings
    <2>1. deletes = {}
      BY <1>4, PatientActs DEF CloseSettings
    <2>2. shouldReloadOnAppear' = FALSE /\ deletes' = deletes
      BY <1>4 DEF CloseSettings, HomeAppears, PageVars
    <2>3. QED BY <2>1, <2>2 DEF DeletesAway
  <1>5. CASE LeaveRecording \/ RecordingSaved
    <2>1. screen = "recording" /\ shouldReloadOnAppear' = FALSE /\ deletes' = deletes
      BY <1>5 DEF LeaveRecording, RecordingSaved, HomeAppears, PageVars
    <2>2. deletes = {}
      BY <2>1 DEF DeletesAway
    <2>3. QED BY <2>1, <2>2 DEF DeletesAway
  <1>6. CASE /\ UNCHANGED <<shouldReloadOnAppear, deletes>>
             /\ screen \notin {"settings", "deleteAlert"}
    BY <1>6, Zenon DEF DeletesAway
  <1>7. CASE ShowTab \/ PressNewRecording \/ PressAddSubject \/ OpenSettings
    BY <1>6, <1>7 DEF ShowTab, PressNewRecording, PressAddSubject, OpenSettings, PageVars
  <1>8. CASE PressDismissPopup \/ PressAdd \/ PressOk \/ PopupFaded \/ AlertFaded
    BY <1>6, <1>8 DEF PressDismissPopup, PressAdd, BeginAdd, Touchable, PressOk,
         PopupFaded, AlertFaded, PageVars
  <1>9. CASE SubjectChecked
    <2>1. UNCHANGED <<shouldReloadOnAppear, deletes>>
      BY <1>9 DEF SubjectChecked
    <2>2. screen' = screen \/ screen \in {"popup", "existsAlert"}
      BY <1>9 DEF SubjectChecked, OnScreen
    <2>3. QED BY <1>1, <1>6, <2>1, <2>2
  <1>10. CASE LoadStep \/ LoadFails \/ SubjectSet \/ SubjectAdded
    BY <1>1, <1>10 DEF LoadStep, LoadFails, SubjectsLoaded, RecordingsLoaded,
         SubjectsFailToLoad, RecordingsFailToLoad, LoadedVars, SubjectSet, SubjectAdded
  <1>11. QED BY <1>2, <1>3, <1>4, <1>5, <1>7, <1>8, <1>9, <1>10
           DEF Next, Answer, LoadStep, LoadFails

\* At the home page with nothing under way, tab i is the cache's subject i.
LEMMA TabsAreTheSubjects ==
    ASSUME Inv, Waits, DeletesAway, screen = "home", LoadsUnderWay = {}
    PROVE  /\ DOMAIN tabs = DOMAIN subjects
           /\ \A i \in DOMAIN tabs : tabs[i].name = subjects[i].name
  <1>1. /\ LoadsType /\ NoneFailed /\ SettingsAhead /\ CacheNamed /\ Filling
        /\ TabsInv
    BY DEF Inv, TypeInv, WaitsInv, Parts
  <1>2. loads = {}
    BY <1>1 DEF NoneFailed, LoadsUnderWay
  <1>3. ~shouldReloadOnAppear
    BY DEF DeletesAway
  <1>4. ~ReloadAhead /\ ~HomeLoading
    BY <1>2, <1>3 DEF ReloadAhead, HomeLoading, UnnamedHome, PopupUp
  <1>5. tabs = TabsOfCache
    BY <1>1, <1>4, FreshFromCache DEF NothingAhead, TabsInv, CacheFresh
  <1>6. QED BY <1>5 DEF TabsOfCache

LEMMA NextNeverWrong ==
    ASSUME Inv, Waits, DeletesAway, NeverWrong, Patient', Next
    PROVE  NeverWrong'
  <1> USE DEF tabVars
  <1>0. TabsType /\ CacheType
    BY DEF Inv, TypeInv
  <1>1. CASE ShowTab
    <2>1. LoadsUnderWay = {} /\ screen = "home" /\ recordings' = recordings
      <3>1. LoadsUnderWay \cup adds \cup deletes = {}
        BY <1>1, PatientActs DEF ShowTab
      <3>2. QED BY <1>1, <3>1 DEF ShowTab
    <2>2. DOMAIN tabs = DOMAIN subjects
      BY <2>1, TabsAreTheSubjects
    <2>3. ~trapped'
      BY <1>1, <2>2, Zenon DEF ShowTab
    <2>4. QED BY <2>1, <2>3 DEF NeverWrong
  <1>2. CASE PressNewRecording
    <2>1. LoadsUnderWay = {} /\ screen = "home"
      <3>1. LoadsUnderWay \cup adds \cup deletes = {}
        BY <1>2, PatientActs DEF PressNewRecording
      <3>2. QED BY <1>2, <3>1 DEF PressNewRecording
    <2>2. tabs # <<>> /\ tabs \in Seq(Tabs) /\ (position = 1 \/ position \in DOMAIN tabs)
      BY <1>0, <1>2 DEF PressNewRecording, TabsType
    <2>3. position \in DOMAIN tabs
      BY <2>2
    <2>4. position \in DOMAIN subjects /\ tabs[position].name = subjects[position].name
      BY <2>1, <2>3, TabsAreTheSubjects
    <2>5. /\ recordings' = Append(recordings,
                              [tab |-> tabs[position].name,
                               subject |-> subjects[position].name])
          /\ trapped' = trapped /\ ~trapped
      BY <1>2, <2>4 DEF PressNewRecording, Next
    <2>6. recordings \in Seq(Recordings)
      BY <1>0 DEF TabsType
    <2>7. \A i \in DOMAIN recordings' : recordings'[i].subject = recordings'[i].tab
      BY <2>4, <2>5, <2>6 DEF NeverWrong
    <2>8. QED BY <2>5, <2>7 DEF NeverWrong
  <1>3. CASE PressSubject \/ ShowRow
    <2>1. recordings' = recordings
      BY <1>3 DEF PressSubject, ShowRow, SettingsVars
    <2>2. screen' # "home"
      BY <1>3 DEF PressSubject, ShowRow, alertVars
    <2>3. QED BY <2>1, <2>2 DEF NeverWrong
  <1>4. ASSUME ~ShowTab, ~PressNewRecording, ~PressSubject, ~ShowRow
        PROVE  trapped' = trapped /\ recordings' = recordings /\ ~trapped
    BY <1>4 DEF Next, Answer, PageVars, LoadedVars, SettingsVars,
         LeaveRecording, RecordingSaved,
         PressAddSubject, OpenSettings, CloseSettings, PressDismissPopup, PressAdd,
         BeginAdd, PressOk, PopupFaded, AlertFaded, PressCancel,
         PressDelete, SubjectsLoaded, RecordingsLoaded, SubjectsFailToLoad,
         RecordingsFailToLoad, SubjectChecked, SubjectSet, SubjectAdded,
         SubjectDeleted, SubjectDeletedAnd
  <1>5. QED BY <1>1, <1>2, <1>3, <1>4 DEF NeverWrong

\* While the student waits before touching the settings page, too: whatever is
\* under way when its table is on the screen will reload it, and with nothing under
\* way its rows are the cache's names.
WaitsForAll == hurried = {} /\ errors = 0

AtTable == screen \in {"settings", "deleteAlert"}

TableFresh ==
    /\ adds = {}
    /\ \A load \in loads : load.by = "settings" /\ load.id \in tableLoads
    /\ \A delete \in deletes : delete.id \in tableDeletes
    /\ loads = {} => rows = NamesOf(subjects)

TableInv == ~trapped /\ NamesOf(chosen) = touched /\ (AtTable => TableFresh)

LEMMA WaitedActs ==
    ASSUME WaitsForAll', NEW answers, NEW place, ActsDuring(answers, place)
    PROVE  answers = {}
  BY DEF WaitsForAll, ActsDuring

LEMMA NameOfOne ==
    ASSUME NEW x, NEW y, x.name = y
    PROVE  NamesOf(<<x>>) = <<y>>
  BY DEF NamesOf

LEMMA NoNames == NamesOf(<<>>) = <<>>
  BY DEF NamesOf

\* The alert asks about the subject whose name was on the row touched.
LEMMA NextTouched ==
    ASSUME TypeInv, NoneFailed, TableInv, WaitsForAll', Next
    PROVE  NamesOf(chosen') = touched'
  <1> USE DEF alertVars
  <1>0. CacheType /\ NamesOf(chosen) = touched
    BY DEF TypeInv, TableInv
  <1>1. CASE PressSubject
    <2>1. rows = NamesOf(subjects)
      <3>1. LoadsUnderWay \cup adds \cup deletes = {} /\ AtTable
        BY <1>1, WaitedActs DEF PressSubject, AtTable
      <3>2. loads = {}
        BY <3>1 DEF LoadsUnderWay, NoneFailed
      <3>3. QED BY <3>1, <3>2 DEF TableInv, TableFresh
    <2>2. PICK i \in DOMAIN rows :
             \/ chosen' = <<subjects[i]>> /\ touched' = <<rows[i]>>
             \/ UNCHANGED <<chosen, touched>>
      BY <1>1 DEF PressSubject
    <2>3. rows[i] = subjects[i].name
      BY <2>1 DEF NamesOf
    <2>4. NamesOf(<<subjects[i]>>) = <<rows[i]>>
      BY <2>3, NameOfOne
    <2>5. CASE chosen' = <<subjects[i]>> /\ touched' = <<rows[i]>>
      BY <2>4, <2>5
    <2>6. CASE UNCHANGED <<chosen, touched>>
      BY <1>0, <2>6
    <2>7. QED BY <2>2, <2>5, <2>6
  <1>2. CASE PressCancel \/ PressDelete
    BY <1>2, NoNames DEF PressCancel, PressDelete
  <1>3. CASE RecordingsLoaded
    <2>1. /\ \E load, name : chosen' = Filled(chosen, load, name)
          /\ touched' = touched
      BY <1>3 DEF RecordingsLoaded, LoadedVars
    <2>2. \A load, name : NamesOf(Filled(chosen, load, name)) = NamesOf(chosen)
      BY <1>0, NamesOfFilled DEF CacheType
    <2>3. QED BY <1>0, <2>1, <2>2
  <1>4. CASE UNCHANGED <<chosen, touched>>
    BY <1>0, <1>4
  <1>5. CASE SubjectsLoaded \/ OpenSettings \/ CloseSettings \/ ShowRow \/ SubjectDeleted
    BY <1>4, <1>5 DEF SubjectsLoaded, LoadedVars, OpenSettings, CloseSettings, PageVars,
                      ShowRow, SubjectDeleted, SubjectDeletedAnd
  <1>6. CASE ~TableSteps
    BY <1>4, <1>6, TableKept
  <1>7. QED BY <1>1, <1>2, <1>3, <1>5, <1>6 DEF TableSteps

\* A load that goes on goes on under its number, and one that completes at the
\* table reloads it.
LEMMA LoadsAtTable ==
    ASSUME TypeInv, WaitingInv, AtTable, TableFresh, LoadStep
    PROVE  AtTable' /\ TableFresh'
  <1>0. LoadsType /\ CacheType
    BY DEF TypeInv
  <1>1. UNCHANGED <<screen, adds, deletes, tableDeletes, tableLoads>>
    BY DEF LoadStep, SubjectsLoaded, RecordingsLoaded, LoadedVars, screenVars, addVars,
           deleteVars
  <1>2. \A load \in loads' : load.by = "settings" /\ load.id \in tableLoads
    BY <1>0, LoadsGoOn DEF TableFresh
  <1>3. ASSUME loads' = {} PROVE rows' = NamesOf(subjects')
    <2>1. PICK load \in loads :
             Completed(load) \/ \E new : loads' = (loads \ {load}) \cup {new}
      BY DEF LoadStep, SubjectsLoaded, RecordingsLoaded, Counted
    <2>2. Completed(load)
      BY <1>3, <2>1
    <2>3. load.by = "settings" /\ load.id \in tableLoads
      BY DEF TableFresh
    <2>4. QED BY <2>2, <2>3 DEF Completed
  <1>4. AtTable'
    BY <1>1 DEF AtTable
  <1>5. adds' = {} /\ \A delete \in deletes' : delete.id \in tableDeletes'
    BY <1>1 DEF TableFresh
  <1>6. NamesOf(subjects)' = NamesOf(subjects')
    BY DEF NamesOf
  <1>7. QED BY <1>1, <1>2, <1>3, <1>4, <1>5, <1>6 DEF TableFresh

LEMMA NextTableFresh ==
    ASSUME TypeInv, WaitingInv, NoneFailed, TableInv, WaitsForAll', ~LoadFails, Next,
           AtTable'
    PROVE  TableFresh'
  <1> USE DEF loadVars, addVars, deleteVars, alertVars, screenVars
  <1>0. NamesOf(subjects)' = NamesOf(subjects')
    BY DEF NamesOf
  <1>1. CASE LoadStep
    <2>1. screen' = screen
      BY <1>1 DEF LoadStep, SubjectsLoaded, RecordingsLoaded, LoadedVars
    <2>2. AtTable /\ TableFresh
      BY <2>1 DEF AtTable, TableInv
    <2>3. QED BY <1>1, <2>2, LoadsAtTable
  <1>2. CASE OpenSettings
    <2>1. LoadsUnderWay \cup adds \cup deletes = {}
      BY <1>2, WaitedActs DEF OpenSettings
    <2>2. loads = {}
      BY <2>1 DEF LoadsUnderWay, NoneFailed
    <2>3. /\ UNCHANGED <<loads, adds, deletes, subjects>>
          /\ rows' = NamesOf(subjects)
      BY <1>2 DEF OpenSettings, PageVars
    <2>4. adds' = {} /\ deletes' = {} /\ loads' = {} /\ rows' = NamesOf(subjects')
      BY <2>1, <2>2, <2>3
    <2>5. QED BY <1>0, <2>4 DEF TableFresh
  <1>3. CASE PressSubject \/ PressCancel
    <2>1. /\ UNCHANGED <<loads, adds, deletes, rows, subjects, tableDeletes, tableLoads>>
          /\ AtTable
      BY <1>3 DEF PressSubject, PressCancel, SettingsVars, tableVars, AtTable
    <2>2. TableFresh
      BY <2>1 DEF TableInv
    <2>3. rows = NamesOf(subjects) <=> rows' = NamesOf(subjects')
      BY <2>1
    <2>4. QED BY <1>0, <2>1, <2>2, <2>3 DEF TableFresh
  <1>4. CASE ShowRow
    <2>1. /\ UNCHANGED <<loads, adds, deletes, subjects, tableDeletes, tableLoads>>
          /\ AtTable
      BY <1>4 DEF ShowRow, SettingsVars, AtTable
    <2>2. TableFresh
      BY <2>1 DEF TableInv
    <2>3. loads = {}
      <3>1. LoadsUnderWay \cup adds \cup deletes = {}
        BY <1>4, WaitedActs DEF ShowRow
      <3>2. QED BY <3>1 DEF LoadsUnderWay, NoneFailed
    <2>4. rows = NamesOf(subjects)
      BY <2>2, <2>3 DEF TableFresh
    <2>5. rows' = rows
      <3>1. PICK i \in DOMAIN rows :
               rows' = rows \/ rows' = [rows EXCEPT ![i] = subjects[i].name]
        BY <1>4 DEF ShowRow
      <3>2. rows[i] = subjects[i].name
        BY <2>4 DEF NamesOf
      <3>3. [rows EXCEPT ![i] = rows[i]] = rows
        BY DEF TypeInv, TableType
      <3>4. QED BY <3>1, <3>2, <3>3
    <2>6. rows' = NamesOf(subjects')
      BY <2>1, <2>4, <2>5
    <2>7. QED BY <1>0, <2>1, <2>2, <2>6 DEF TableFresh
  <1>5. CASE PressDelete
    <2> DEFINE new == [id |-> deleteCalls + 1, name |-> chosen[1].name,
                       withRecordings |-> chosen[1].hasRecordings]
    <2>1. /\ UNCHANGED <<loads, adds, rows, subjects, tableLoads>> /\ AtTable
          /\ tableDeletes' = tableDeletes \cup {deleteCalls + 1}
          /\ deletes' = deletes \cup {new} /\ new.id = deleteCalls + 1
      BY <1>5 DEF PressDelete, SettingsVars, AtTable
    <2> HIDE DEF new
    <2>2. TableFresh
      BY <2>1 DEF TableInv
    <2>3. rows = NamesOf(subjects) <=> rows' = NamesOf(subjects')
      BY <2>1
    <2>4. \A delete \in deletes' : delete.id \in tableDeletes'
      BY <2>1, <2>2 DEF TableFresh
    <2>5. QED BY <1>0, <2>1, <2>2, <2>3, <2>4 DEF TableFresh
  <1>6. CASE SubjectDeleted
    <2>1. PICK delete \in deletes :
             /\ deletes' = deletes \ {delete}
             /\ tableLoads' = IF delete.id \in tableDeletes
                              THEN tableLoads \cup {loadCalls + 1} ELSE tableLoads
      BY <1>6 DEF SubjectDeleted, SubjectDeletedAnd
    <2>2. UNCHANGED <<adds, screen, tableDeletes>> /\ BeginLoad("settings")
      BY <1>6 DEF SubjectDeleted, SubjectDeletedAnd, SettingsVars
    <2>3. TableFresh
      BY <2>2 DEF AtTable, TableInv
    <2> DEFINE new == [id |-> loadCalls + 1, by |-> "settings", named |-> FALSE,
                       waitingFor |-> {}, failed |-> FALSE, index |-> 1]
    <2>4. /\ loads' = loads \cup {new}
          /\ new.by = "settings" /\ new.id = loadCalls + 1
      BY <2>2 DEF BeginLoad
    <2> HIDE DEF new
    <2>5. tableLoads' = tableLoads \cup {loadCalls + 1}
      BY <2>1, <2>3 DEF TableFresh
    <2>6. /\ adds' = {} /\ loads' # {}
          /\ \A load \in loads' : load.by = "settings" /\ load.id \in tableLoads'
          /\ \A other \in deletes' : other.id \in tableDeletes'
      BY <2>1, <2>2, <2>3, <2>4, <2>5 DEF TableFresh
    <2>7. QED BY <2>6 DEF TableFresh
  <1>7. CASE SubjectChecked \/ SubjectSet \/ SubjectAdded
    <2>1. adds # {}
      BY <1>7 DEF SubjectChecked, SubjectSet, SubjectAdded
    <2>2. screen' = screen \/ screen' = "existsAlert"
      BY <1>7 DEF SubjectChecked, SubjectSet, SubjectAdded
    <2>3. QED BY <2>1, <2>2 DEF AtTable, TableInv, TableFresh
  <1>8. CASE HomeReturn \/ ShowTab \/ PressNewRecording \/ PressAddSubject
             \/ PressDismissPopup \/ PressAdd \/ PressOk \/ PopupFaded \/ AlertFaded
    BY <1>8, HomeReturns DEF ShowTab, PressNewRecording, PressAddSubject,
       PressDismissPopup, PressAdd, BeginAdd, Touchable, PressOk, PopupFaded, AlertFaded,
       AtTable
  <1>9. QED BY <1>1, <1>2, <1>3, <1>4, <1>5, <1>6, <1>7, <1>8
          DEF Next, Answer, LoadStep, LoadFails, HomeReturn

LEMMA NextUntrapped ==
    ASSUME TypeInv, NoneFailed, TableInv, NeverWrong', WaitsForAll', Next
    PROVE  ~trapped'
  <1> USE DEF tabVars
  <1>1. CASE ShowTab
    <2>1. screen' = "home"
      BY <1>1 DEF ShowTab
    <2>2. QED BY <2>1 DEF NeverWrong
  <1>2. CASE PressNewRecording
    <2>1. screen' = "home" \/ trapped' = trapped
      BY <1>2 DEF PressNewRecording
    <2>2. QED BY <2>1 DEF NeverWrong, TableInv
  <1>3. CASE PressSubject \/ ShowRow
    <2>1. LoadsUnderWay \cup adds \cup deletes = {} /\ AtTable
      BY <1>3, WaitedActs DEF PressSubject, ShowRow, AtTable
    <2>2. loads = {}
      BY <2>1 DEF LoadsUnderWay, NoneFailed
    <2>3. rows = NamesOf(subjects)
      BY <2>1, <2>2 DEF TableInv, TableFresh
    <2>4. DOMAIN rows = DOMAIN subjects
      BY <2>3 DEF NamesOf
    <2>5. trapped' = trapped
      BY <1>3, <2>4 DEF PressSubject, ShowRow
    <2>6. QED BY <2>5 DEF TableInv
  <1>4. ASSUME ~ShowTab, ~PressNewRecording, ~PressSubject, ~ShowRow
        PROVE  trapped' = trapped
    BY <1>4 DEF Next, Answer, PageVars, LoadedVars, SettingsVars,
         LeaveRecording, RecordingSaved,
         PressAddSubject, OpenSettings, CloseSettings, PressDismissPopup, PressAdd,
         BeginAdd, PressOk, PopupFaded, AlertFaded, PressCancel,
         PressDelete, SubjectsLoaded, RecordingsLoaded, SubjectsFailToLoad,
         RecordingsFailToLoad, SubjectChecked, SubjectSet, SubjectAdded,
         SubjectDeleted, SubjectDeletedAnd
  <1>5. QED BY <1>1, <1>2, <1>3, <1>4 DEF TableInv

WaitedInv == WaitsForAll => TableInv

LEMMA NextWaited ==
    ASSUME Inv, PatientInv, PatientInv', WaitedInv, WaitsForAll', Next
    PROVE  TableInv'
  <1>1. hurried \subseteq hurried' /\ errors <= errors' /\ errors \in Nat
    BY NextMishapsType, LibraryAssumption DEF Inv, TypeInv, MishapsType
  <1>2. WaitsForAll /\ Waits /\ Waits' /\ Patient'
    BY <1>1 DEF WaitsForAll, Waits, Patient
  <1>3. TableInv /\ NeverWrong'
    BY <1>2 DEF WaitedInv, PatientInv
  <1>4. TypeInv /\ WaitingInv /\ NoneFailed
    BY <1>2 DEF Inv, WaitsInv, Parts
  <1>5. ~LoadFails
    BY <1>2, <1>4, WaitingStep
  <1>6. NamesOf(chosen') = touched'
    BY <1>3, <1>4, NextTouched
  <1>7. ~trapped'
    BY <1>3, <1>4, NextUntrapped
  <1>8. AtTable' => TableFresh'
    BY <1>3, <1>4, <1>5, NextTableFresh
  <1>9. NamesOf(chosen)' = NamesOf(chosen')
    BY DEF NamesOf
  <1>10. QED BY <1>6, <1>7, <1>8, <1>9 DEF TableInv

LEMMA SameWaited ==
    ASSUME WaitedInv, UNCHANGED vars
    PROVE  WaitedInv'
  <1> USE DEF vars, addVars, deleteVars, screenVars, tabVars, loadVars, tableVars,
              alertVars
  <1>1. UNCHANGED <<hurried, errors, screen, adds, loads, deletes, tableLoads,
                    tableDeletes, rows, subjects, chosen, touched, trapped>>
    OBVIOUS
  <1>2. AtTable' = AtTable /\ TableFresh' = TableFresh /\ WaitsForAll' = WaitsForAll
    BY <1>1, Zenon DEF AtTable, TableFresh, WaitsForAll, NamesOf
  <1>3. TableInv' <=> TableInv
    <2>1. NamesOf(chosen)' = NamesOf(chosen)
      BY <1>1 DEF NamesOf
    <2>2. touched' = touched /\ trapped' = trapped
      BY <1>1
    <2>3. QED BY <1>2, <2>1, <2>2 DEF TableInv
  <1>4. QED BY <1>2, <1>3, Zenon DEF WaitedInv

LEMMA NextPatient ==
    ASSUME Inv, PatientInv, [Next]_vars
    PROVE  PatientInv'
  <1> SUFFICES ASSUME Patient' PROVE DeletesAway' /\ NeverWrong'
    BY DEF PatientInv
  <1>1. CASE Next
    <2>1. hurried \subseteq hurried' /\ errors <= errors' /\ errors \in Nat
      BY <1>1, NextMishapsType, LibraryAssumption DEF Inv, TypeInv, MishapsType
    <2>2. Patient /\ Waits
      BY <2>1 DEF Patient, Waits
    <2>3. QED BY <1>1, <2>2, NextDeletesAway, NextNeverWrong DEF Inv, PatientInv
  <1>2. CASE UNCHANGED vars
    BY <1>2, Zenon DEF vars, tabVars, deleteVars, screenVars, Patient, PatientInv,
                       DeletesAway, NeverWrong
  <1>3. QED BY <1>1, <1>2

\* Who leaves the tabs alone while something is under way never meets an index
\* out of range on the home page and records under the subject whose tab is shown;
\* who waits before touching the settings page, too, never meets one anywhere, and
\* is asked about deleting the subject on the row touched.
THEOREM RightSubjectWhenPatientHolds == Spec => []RightSubjectWhenPatient
  <1>1. Init => PatientInv
    BY DEF Init, PatientInv, DeletesAway, NeverWrong
  <1>2. Init => WaitedInv
    BY NoNames DEF Init, WaitedInv, TableInv, AtTable
  <1>3. Inv /\ PatientInv /\ [Next]_vars => PatientInv'
    BY NextPatient
  <1>4. Inv /\ PatientInv /\ PatientInv' /\ WaitedInv /\ [Next]_vars => WaitedInv'
    BY NextWaited, SameWaited DEF WaitedInv
  <1>5. PatientInv /\ WaitedInv => RightSubjectWhenPatient
    <2> SUFFICES ASSUME PatientInv, WaitedInv, errors = 0
                 PROVE  /\ hurried \subseteq {"settings"} => NeverWrong
                        /\ hurried = {} => TableInv
      BY Zenon DEF RightSubjectWhenPatient, NeverWrong, TableInv
    <2>1. QED BY DEF PatientInv, Patient, WaitedInv, WaitsForAll
  <1>6. QED BY InvHolds, <1>1, <1>2, <1>3, <1>4, <1>5, PTL DEF Spec

-----------------------------------------------------------------------------
(* No load is forgotten: what it waits for can always be answered next, or   *)
(* waits in turn for an earlier query that can.                              *)

\* Every nonempty set of numbers has a least one.
LEMMA LeastNatural ==
    ASSUME NEW T, T \subseteq Nat, T # {}
    PROVE  \E m \in T : \A n \in T : m <= n
  <1> DEFINE R == OpToRel(<, Nat)
  <1>1. IsWellFoundedOn(R, Nat)
    BY NatLessThanWellFounded, Zenon
  <1>2. \A x, y \in Nat : x < y => <<x, y>> \in R
    BY DEF OpToRel
  <1> HIDE DEF R
  <1>3. PICK x \in T : \A y \in T : ~ (<<y, x>> \in R)
    BY <1>1, WFMin
  <1>4. \A y \in T : ~(y < x)
    BY <1>2, <1>3
  <1>5. QED BY <1>4

\* A load that has its subjects waits for some of their recordings, unless one
\* of its queries has failed.
LoadWaits == \A load \in loads : load.named /\ ~load.failed => load.waitingFor # {}

LEMMA NextLoadWaits ==
    ASSUME TypeInv, LoadWaits, Next
    PROVE  LoadWaits'
  <1> USE DEF loadVars
  <1>0. LoadsType /\ DocsType
    BY DEF TypeInv
  <1>1. CASE SubjectsLoaded
    <2> DEFINE names == {subjectDocs[i].name : i \in DOMAIN subjectDocs}
    <2>1. PICK load \in loads :
             \/ loads' = loads \ {load}
             \/ /\ subjectDocs # <<>>
                /\ loads' = (loads \ {load}) \cup
                     {[load EXCEPT !.named = TRUE, !.waitingFor = names]}
      BY <1>1, Zenon DEF SubjectsLoaded
    <2>2. subjectDocs # <<>> => names # {}
      BY <1>0 DEF DocsType
    <2>3. [load EXCEPT !.named = TRUE, !.waitingFor = names].waitingFor = names
      BY <1>0 DEF LoadsType, Loads
    <2> HIDE DEF names
    <2>4. \E new : loads' \subseteq loads \cup {new} /\ (new.waitingFor # {} \/ new \in loads)
      BY <2>1, <2>2, <2>3
    <2>5. QED BY <2>4 DEF LoadWaits
  <1>2. CASE RecordingsLoaded
    <2>1. PICK load \in loads : \E name : Counted(load, name)
      BY <1>2 DEF RecordingsLoaded
    <2>2. PICK name :
             \/ loads' = loads \ {load}
             \/ /\ load.waitingFor # {name} \/ load.failed
                /\ loads' = (loads \ {load}) \cup {[load EXCEPT !.waitingFor = @ \ {name}]}
      BY <2>1 DEF Counted
    <2> DEFINE new == [load EXCEPT !.waitingFor = @ \ {name}]
    <2>3. /\ new.waitingFor = load.waitingFor \ {name}
          /\ new.named = load.named /\ new.failed = load.failed
      BY <1>0 DEF LoadsType, Loads
    <2> HIDE DEF new
    <2>4. CASE loads' = loads \ {load}
      BY <2>4 DEF LoadWaits
    <2>5. CASE /\ load.waitingFor # {name} \/ load.failed
               /\ loads' = (loads \ {load}) \cup {new}
      <3>1. new.named /\ ~new.failed => new.waitingFor # {}
        BY <2>3, <2>5, Zenon DEF LoadWaits
      <3>2. QED BY <2>5, <3>1 DEF LoadWaits
    <2>6. QED BY <2>2, <2>4, <2>5 DEF new
  <1>3. CASE LoadFails
    <2>1. PICK load \in loads : \E name :
             \/ loads' = (loads \ {load}) \cup
                    {[load EXCEPT !.waitingFor = @ \ {name}, !.failed = TRUE]}
             \/ loads' = (loads \ {load}) \cup
                    {[load EXCEPT !.named = TRUE, !.failed = TRUE]}
      BY <1>3 DEF LoadFails, SubjectsFailToLoad, RecordingsFailToLoad
    <2>2. /\ [load EXCEPT !.named = TRUE, !.failed = TRUE].failed
          /\ \A name : [load EXCEPT !.waitingFor = @ \ {name}, !.failed = TRUE].failed
      BY <1>0 DEF LoadsType, Loads
    <2>3. \E new : loads' = (loads \ {load}) \cup {new} /\ new.failed
      BY <2>1, <2>2
    <2>4. QED BY <2>3 DEF LoadWaits
  <1>4. CASE BeginLoad("home") \/ BeginLoad("settings")
    <2>1. \E new : loads' = loads \cup {new} /\ ~new.named
      BY <1>4, Begun
    <2>2. QED BY <2>1 DEF LoadWaits
  <1>5. CASE loads' = loads
    BY <1>5 DEF LoadWaits
  <1>6. CASE HomeReturn \/ PopupFaded \/ SubjectDeleted
    BY <1>4, <1>5, <1>6, HomeReturns DEF PopupFaded, SubjectDeleted, SubjectDeletedAnd
  <1>7. CASE SubjectSet \/ SubjectAdded
    BY <1>5, <1>7, Zenon DEF SubjectSet, SubjectAdded
  <1>8. QED BY <1>1, <1>2, <1>3, <1>5, <1>6, <1>7, QuietSteps DEF LoadStep, Quiet

\* A query for the subjects that has not been answered: the one of a load, or of
\* an add whose subject has been sent.
SubjectsAwaited(id) ==
    \/ \E load \in loads : ~load.named /\ load.id = id
    \/ \E add \in adds : add.call = "load" /\ add.load = id

\* No load waits for nothing: the recordings it counts are asked for, or the
\* first query for subjects that is under way is its own or an earlier one,
\* and is the one Firestore answers next.
LoadsAreServed ==
    \A load \in loads : ~load.failed =>
       \/ load.named /\ load.waitingFor # {}
       \/ \E id \in 0 .. load.id : SubjectsAwaited(id) /\ NextLoadCall(id)

LEMMA FirstQueryIsNext ==
    ASSUME TypeInv, NEW load \in loads, ~load.named
    PROVE  \E id \in 0 .. load.id : SubjectsAwaited(id) /\ NextLoadCall(id)
  <1> DEFINE T == {id \in Nat : SubjectsAwaited(id)}
  <1>1. /\ \A l \in loads : l.id \in Nat \ {0}
        /\ \A add \in adds : add.load \in Nat
    BY DEF TypeInv, LoadsType, Loads, AddsType, Adds
  <1>2. load.id \in T
    BY <1>1 DEF SubjectsAwaited
  <1>3. PICK m \in T : \A n \in T : m <= n
    BY <1>2, LeastNatural
  <1>4. NextLoadCall(m)
    <2>1. \A l \in loads : l.named \/ l.id \in T
      BY <1>1 DEF SubjectsAwaited
    <2>2. \A add \in adds : add.call = "load" => add.load \in T
      BY <1>1 DEF SubjectsAwaited
    <2>3. QED BY <1>1, <1>3, <2>1, <2>2 DEF NextLoadCall
  <1>5. m \in 0 .. load.id
    BY <1>1, <1>2, <1>3 DEF SubjectsAwaited
  <1>6. QED BY <1>3, <1>4, <1>5

\* Whatever replaces the cache, fails or is added meanwhile, Firestore always has
\* an answer left to give that brings an unfailed load nearer to its end: the
\* callbacks cannot wait for each other.
THEOREM LoadsAreServedHolds == Spec => []LoadsAreServed
  <1>1. Init => LoadWaits
    BY DEF Init, LoadWaits
  <1>2. TypeInv /\ LoadWaits /\ [Next]_vars => LoadWaits'
    BY NextLoadWaits DEF vars, loadVars, LoadWaits
  <1>3. TypeInv /\ LoadWaits => LoadsAreServed
    BY FirstQueryIsNext DEF LoadWaits, LoadsAreServed
  <1>4. QED BY TypeInvHolds, <1>1, <1>2, <1>3, PTL DEF Spec

-----------------------------------------------------------------------------
(* Names.  A name is its document's ID; the check of saveNewSubject and its  *)
(* write are two calls, but one student who waits makes one Add at a time.   *)

\* No two documents have the same name.
DistinctNames ==
    \A i, j \in DOMAIN subjectDocs : subjectDocs[i].name = subjectDocs[j].name => i = j

\* An Add that is about to write has found no such subject.
NewNames == \A add \in adds : add.call = "setData" => ~Exists(add.name)

NamesInv == DistinctNames /\ (Waits => NewNames)

\* A step leaves the document of every name that stays as it is.
NamesKept ==
    \A i \in DOMAIN subjectDocs, j \in DOMAIN subjectDocs' :
       subjectDocs[i].name = subjectDocs'[j].name => subjectDocs[i] = subjectDocs'[j]

\* What is left when an element is taken out: the others, in their order.
LEMMA RemoveAtElements ==
    ASSUME NEW S, NEW s \in Seq(S), NEW i \in DOMAIN s
    PROVE  /\ DOMAIN RemoveAt(s, i) = 1 .. Len(s) - 1
           /\ \A j \in 1 .. Len(s) - 1 :
                 RemoveAt(s, i)[j] = IF j < i THEN s[j] ELSE s[j + 1]
  <1> DEFINE front == SubSeq(s, 1, i - 1)
             back == SubSeq(s, i + 1, Len(s))
  <1>1. /\ i \in 1 .. Len(s) /\ Len(s) \in Nat
        /\ \A j \in 1 .. Len(s) : s[j] \in S
    OBVIOUS
  <1>2. front \in Seq(S) /\ Len(front) = i - 1 /\ \A j \in 1 .. i - 1 : front[j] = s[j]
    <2>1. 1 \in Int /\ i - 1 \in Int /\ \A j \in 1 .. i - 1 : s[j] \in S
      BY <1>1
    <2>2. /\ front \in Seq(S)
          /\ Len(front) = IF 1 <= i - 1 THEN i - 1 - 1 + 1 ELSE 0
          /\ \A j \in 1 .. i - 1 - 1 + 1 : front[j] = s[1 + j - 1]
      BY <2>1, SubSeqProperties
    <2>3. QED BY <1>1, <2>2
  <1>3. /\ back \in Seq(S) /\ Len(back) = Len(s) - i
        /\ \A j \in 1 .. Len(s) - i : back[j] = s[i + j]
    <2>1. i + 1 \in Int /\ Len(s) \in Int /\ \A j \in i + 1 .. Len(s) : s[j] \in S
      BY <1>1
    <2>2. /\ back \in Seq(S)
          /\ Len(back) = IF i + 1 <= Len(s) THEN Len(s) - (i + 1) + 1 ELSE 0
          /\ \A j \in 1 .. Len(s) - (i + 1) + 1 : back[j] = s[i + 1 + j - 1]
      BY <2>1, SubSeqProperties
    <2>3. QED BY <1>1, <2>2
  <1>4. RemoveAt(s, i) = front \o back
    BY DEF RemoveAt
  <1> HIDE DEF front, back
  <1>5. /\ RemoveAt(s, i) \in Seq(S)
        /\ Len(RemoveAt(s, i)) = Len(front) + Len(back)
        /\ \A j \in 1 .. Len(front) + Len(back) :
              RemoveAt(s, i)[j] = IF j <= Len(front) THEN front[j] ELSE back[j - Len(front)]
    <2>1. front \in Seq(S) /\ back \in Seq(S)
      BY <1>2, <1>3
    <2>2. /\ front \o back \in Seq(S)
          /\ Len(front \o back) = Len(front) + Len(back)
          /\ \A j \in 1 .. Len(front) + Len(back) :
                (front \o back)[j] = IF j <= Len(front) THEN front[j] ELSE back[j - Len(front)]
      BY <2>1, ConcatProperties, Zenon
    <2>3. QED BY <1>4, <2>2, Zenon
  <1>6. Len(front) + Len(back) = Len(s) - 1
    BY <1>1, <1>2, <1>3
  <1>7. DOMAIN RemoveAt(s, i) = 1 .. Len(s) - 1
    BY <1>5, <1>6
  <1>8. ASSUME NEW j \in 1 .. Len(s) - 1
        PROVE  RemoveAt(s, i)[j] = IF j < i THEN s[j] ELSE s[j + 1]
    <2>1. CASE j < i
      BY <1>1, <1>2, <1>5, <1>6, <2>1
    <2>2. CASE ~(j < i)
      <3>1. j - Len(front) = j - i + 1 /\ j - i + 1 \in 1 .. Len(s) - i /\ ~(j <= Len(front))
        BY <1>1, <1>2, <2>2
      <3>2. RemoveAt(s, i)[j] = back[j - i + 1]
        BY <1>5, <1>6, <3>1
      <3>3. back[j - i + 1] = s[i + (j - i + 1)]
        BY <1>3, <3>1
      <3>4. i + (j - i + 1) = j + 1
        BY <1>1
      <3>5. QED BY <2>2, <3>2, <3>3, <3>4
    <2>3. QED BY <2>1, <2>2
  <1>9. QED BY <1>7, <1>8

\* Documents without a name are documents that were there before, each once.
LEMMA WithoutElements ==
    ASSUME DocsType, DistinctNames, NEW name
    PROVE  LET left == Without(subjectDocs, name) IN
           /\ \A j \in DOMAIN left :
                 \E k \in DOMAIN subjectDocs : left[j] = subjectDocs[k]
           /\ \A i, j \in DOMAIN left : left[i].name = left[j].name => i = j
           /\ \A j \in DOMAIN left : left[j].name # name
  <1> DEFINE left == Without(subjectDocs, name)
  <1>1. subjectDocs \in Seq(SubjectDocs)
    BY DEF DocsType
  <1>2. CASE ~\E i \in DOMAIN subjectDocs : subjectDocs[i].name = name
    BY <1>2 DEF Without, DistinctNames
  <1>3. CASE \E i \in DOMAIN subjectDocs : subjectDocs[i].name = name
    <2> DEFINE k == CHOOSE i \in DOMAIN subjectDocs : subjectDocs[i].name = name
    <2>1. k \in DOMAIN subjectDocs /\ subjectDocs[k].name = name
      BY <1>3
    <2>2. left = RemoveAt(subjectDocs, k)
      BY <1>3 DEF Without
    <2> HIDE DEF k, left
    <2> DEFINE before(j) == IF j < k THEN j ELSE j + 1
    <2>3. DOMAIN left = 1 .. Len(subjectDocs) - 1 /\ k \in 1 .. Len(subjectDocs)
          /\ Len(subjectDocs) \in Nat /\ DOMAIN subjectDocs = 1 .. Len(subjectDocs)
      BY <1>1, <2>1, <2>2, RemoveAtElements
    <2>4. \A j \in DOMAIN left : left[j] = IF j < k THEN subjectDocs[j] ELSE subjectDocs[j + 1]
      BY <1>1, <2>1, <2>2, <2>3, RemoveAtElements
    <2>5. \A j \in DOMAIN left :
             /\ before(j) \in DOMAIN subjectDocs /\ before(j) # k
             /\ left[j] = subjectDocs[before(j)]
      BY <2>3, <2>4
    <2>6. \A i, j \in DOMAIN left : before(i) = before(j) => i = j
      BY <2>3
    <2> HIDE DEF before
    <2>7. QED BY <2>1, <2>5, <2>6 DEF DistinctNames, left
  <1>4. QED BY <1>2, <1>3

\* Three kinds of step touch the documents.
LEMMA DocsChange ==
    ASSUME Next
    PROVE  \/ UNCHANGED subjectDocs
           \/ /\ SubjectSet
              /\ \E add \in adds :
                    /\ add.call = "setData"
                    /\ adds' = (adds \ {add}) \cup
                          {[add EXCEPT !.call = "load", !.load = loadCalls + 1]}
                    /\ subjectDocs' = Append(Without(subjectDocs, add.name),
                                             [name |-> add.name, by |-> add.id])
           \/ /\ SubjectDeleted /\ UNCHANGED adds
              /\ \E name : subjectDocs' = Without(subjectDocs, name)
  <1>1. CASE SubjectSet
    BY <1>1, Zenon DEF SubjectSet
  <1>2. CASE SubjectDeleted
    BY <1>2 DEF SubjectDeleted, SubjectDeletedAnd, DeleteStored, SettingsVars, addVars
  <1>3. CASE HomeReturn
    BY <1>3, HomeReturns
  <1>4. CASE LoadStep \/ LoadFails \/ SubjectAdded \/ PopupFaded
    BY <1>4 DEF LoadStep, LoadFails, SubjectsLoaded, RecordingsLoaded, SubjectsFailToLoad,
                RecordingsFailToLoad, LoadedVars, SubjectAdded, PopupFaded, cloudVars
  <1>5. QED BY <1>1, <1>2, <1>3, <1>4, QuietSteps DEF Quiet

LEMMA NextDistinctNames ==
    ASSUME TypeInv, DistinctNames, Next
    PROVE  DistinctNames'
  <1>0. DocsType /\ AddsType
    BY DEF TypeInv
  <1>1. ASSUME NEW add \in adds,
               subjectDocs' = Append(Without(subjectDocs, add.name),
                                     [name |-> add.name, by |-> add.id])
        PROVE  DistinctNames'
    <2> DEFINE left == Without(subjectDocs, add.name)
               new == [name |-> add.name, by |-> add.id]
    <2>1. left \in Seq(SubjectDocs) /\ new \in SubjectDocs
      <3>1. left \in Seq(SubjectDocs)
        BY <1>0, WithoutType DEF DocsType
      <3>2. add.name \in Names /\ add.id \in 1 .. MaxAdds /\ MaxAdds \in Nat
        BY <1>0, LibraryAssumption DEF AddsType, Adds
      <3>3. QED BY <3>1, <3>2 DEF SubjectDocs
    <2>2. /\ \A i, j \in DOMAIN left : left[i].name = left[j].name => i = j
          /\ \A j \in DOMAIN left : left[j].name # new.name
      BY <1>0, WithoutElements
    <2>3. subjectDocs' = Append(left, new)
      BY <1>1
    <2> HIDE DEF left, new
    <2>4. /\ DOMAIN subjectDocs' = 1 .. Len(left) + 1 /\ DOMAIN left = 1 .. Len(left)
          /\ Len(left) \in Nat
          /\ subjectDocs'[Len(left) + 1] = new
          /\ \A i \in 1 .. Len(left) : subjectDocs'[i] = left[i]
      BY <2>1, <2>3, AppendProperties
    <2>5. QED BY <2>2, <2>4 DEF DistinctNames
  <1>2. ASSUME NEW name, subjectDocs' = Without(subjectDocs, name)
        PROVE  DistinctNames'
    BY <1>0, <1>2, WithoutElements DEF DistinctNames
  <1>3. CASE UNCHANGED subjectDocs
    BY <1>3 DEF DistinctNames
  <1>4. QED BY <1>1, <1>2, <1>3, DocsChange

LEMMA NextNewNames ==
    ASSUME TypeInv, DistinctNames, AddInv, NewNames, Next, Waits', ~Fails
    PROVE  NewNames'
  <1> USE DEF addVars
  <1>0. DocsType /\ AddsType
    BY DEF TypeInv
  <1>1. CASE SubjectSet
    <2>1. PICK add \in adds :
             adds' = (adds \ {add}) \cup
                {[add EXCEPT !.call = "load", !.load = loadCalls + 1]}
      BY <1>1, Zenon DEF SubjectSet
    <2> DEFINE new == [add EXCEPT !.call = "load", !.load = loadCalls + 1]
    <2>2. new.call = "load"
      BY <1>0 DEF AddsType, Adds
    <2> HIDE DEF new
    <2>3. adds' = {new}
      BY <2>1, Zenon DEF AddInv, new
    <2>4. QED BY <2>2, <2>3 DEF NewNames
  <1>2. CASE SubjectDeleted
    <2>1. adds' = adds /\ \A j \in DOMAIN subjectDocs' :
             \E k \in DOMAIN subjectDocs : subjectDocs'[j] = subjectDocs[k]
      BY <1>0, <1>2, WithoutElements
         DEF SubjectDeleted, SubjectDeletedAnd, DeleteStored, SettingsVars
    <2>2. QED BY <2>1 DEF NewNames, Exists
  <1>3. CASE SubjectChecked
    <2>1. PICK add \in adds :
             \/ adds' = adds \ {add}
             \/ /\ ~Exists(add.name)
                /\ adds' = (adds \ {add}) \cup {[add EXCEPT !.call = "setData"]}
      BY <1>3 DEF SubjectChecked
    <2>2. subjectDocs' = subjectDocs
      BY <1>3 DEF SubjectChecked, cloudVars
    <2>3. [add EXCEPT !.call = "setData"].name = add.name
      BY <1>0 DEF AddsType, Adds
    <2>4. QED BY <2>1, <2>2, <2>3 DEF NewNames, Exists
  <1>4. CASE PressAdd
    <2>1. adds = {} /\ subjectDocs' = subjectDocs
      BY <1>4, WaitingPress DEF PressAdd, BeginAdd, cloudVars
    <2>2. \E name : adds' = {[id |-> addCalls + 1, name |-> name, popup |-> popup,
                              call |-> "check", load |-> 0]}
      BY <1>4, <2>1 DEF PressAdd, BeginAdd
    <2>3. QED BY <2>2 DEF NewNames
  <1>5. CASE adds' \subseteq adds /\ subjectDocs' = subjectDocs
    BY <1>5 DEF NewNames, Exists
  <1>6. CASE HomeReturn \/ SubjectAdded \/ PopupFaded
    BY <1>5, <1>6, HomeReturns DEF SubjectAdded, PopupFaded, cloudVars
  <1>7. CASE LoadStep \/ LoadFails
    BY <1>5, <1>7 DEF LoadStep, LoadFails, SubjectsLoaded, RecordingsLoaded,
         SubjectsFailToLoad, RecordingsFailToLoad, LoadedVars, cloudVars
  <1>8. CASE ShowTab \/ PressNewRecording \/ PressAddSubject \/ OpenSettings
             \/ PressDismissPopup \/ PressOk \/ AlertFaded
    BY <1>5, <1>8 DEF ShowTab, PressNewRecording, PressAddSubject, OpenSettings,
         PressDismissPopup, PressOk, AlertFaded, PageVars, cloudVars
  <1>9. CASE PressSubject \/ ShowRow \/ PressCancel \/ PressDelete
    BY <1>5, <1>9 DEF PressSubject, ShowRow, PressCancel, PressDelete, SettingsVars, cloudVars
  <1>10. QED BY <1>1, <1>2, <1>3, <1>4, <1>6, <1>7, <1>8, <1>9
            DEF Next, Answer, LoadStep, LoadFails, HomeReturn

LEMMA NextNames ==
    ASSUME Inv, NamesInv, [Next]_vars
    PROVE  NamesInv'
  <1>1. CASE Next
    <2>1. DistinctNames'
      BY <1>1, NextDistinctNames DEF Inv, NamesInv
    <2>2. ASSUME Waits' PROVE NewNames'
      <3>1. Waits /\ ~Fails
        BY <1>1, <2>2, WaitingStep DEF Inv
      <3>2. QED BY <1>1, <2>2, <3>1, NextNewNames DEF Inv, WaitsInv, Parts, NamesInv
    <2>3. QED BY <2>1, <2>2 DEF NamesInv
  <1>2. CASE UNCHANGED vars
    <2>1. UNCHANGED <<subjectDocs, adds, hurried, errors>>
      BY <1>2 DEF vars, cloudVars, addVars
    <2>2. DistinctNames' = DistinctNames /\ NewNames' = NewNames /\ Waits' = Waits
      BY <2>1, Zenon DEF DistinctNames, NewNames, Exists, Waits
    <2>3. QED BY <2>2 DEF NamesInv
  <1>3. QED BY <1>1, <1>2

\* The one step that could replace a document adds one instead.
LEMMA NamesStep ==
    ASSUME Inv, NamesInv, [Next]_vars, Waits'
    PROVE  NamesKept
  <1>0. DocsType /\ AddsType
    BY DEF Inv, TypeInv
  <1>1. CASE UNCHANGED subjectDocs
    BY <1>1 DEF NamesKept, NamesInv, DistinctNames
  <1>2. ASSUME NEW j \in DOMAIN subjectDocs',
               \E k \in DOMAIN subjectDocs : subjectDocs'[j] = subjectDocs[k]
        PROVE  \A i \in DOMAIN subjectDocs :
                  subjectDocs[i].name = subjectDocs'[j].name => subjectDocs[i] = subjectDocs'[j]
    BY <1>2 DEF NamesInv, DistinctNames
  <1>3. ASSUME Next, NEW add \in adds, add.call = "setData",
               subjectDocs' = Append(Without(subjectDocs, add.name),
                                     [name |-> add.name, by |-> add.id])
        PROVE  NamesKept
    <2> DEFINE left == Without(subjectDocs, add.name)
               new == [name |-> add.name, by |-> add.id]
    <2>1. left \in Seq(SubjectDocs) /\ new \in SubjectDocs /\ new.name = add.name
      <3>1. left \in Seq(SubjectDocs)
        BY <1>0, WithoutType DEF DocsType
      <3>2. add.name \in Names /\ add.id \in 1 .. MaxAdds /\ MaxAdds \in Nat
        BY <1>0, LibraryAssumption DEF AddsType, Adds
      <3>3. QED BY <3>1, <3>2 DEF SubjectDocs
    <2>2. \A j \in DOMAIN left : \E k \in DOMAIN subjectDocs : left[j] = subjectDocs[k]
      BY <1>0, WithoutElements DEF NamesInv
    <2>3. ~Exists(new.name)
      BY <1>3, <2>1, WaitingStep DEF Inv, NamesInv, NewNames
    <2>4. subjectDocs' = Append(left, new)
      BY <1>3
    <2> HIDE DEF left, new
    <2>5. /\ DOMAIN subjectDocs' = 1 .. Len(left) + 1 /\ DOMAIN left = 1 .. Len(left)
          /\ Len(left) \in Nat
          /\ subjectDocs'[Len(left) + 1] = new
          /\ \A i \in 1 .. Len(left) : subjectDocs'[i] = left[i]
      BY <2>1, <2>4, AppendProperties
    <2>6. \A j \in 1 .. Len(left) :
             \E k \in DOMAIN subjectDocs : subjectDocs'[j] = subjectDocs[k]
      BY <2>2, <2>5
    <2>7. QED BY <1>2, <2>3, <2>5, <2>6 DEF NamesKept, Exists
  <1>4. ASSUME NEW name, subjectDocs' = Without(subjectDocs, name)
        PROVE  NamesKept
    <2>1. \A j \in DOMAIN subjectDocs' :
             \E k \in DOMAIN subjectDocs : subjectDocs'[j] = subjectDocs[k]
      BY <1>0, <1>4, WithoutElements DEF NamesInv
    <2>2. QED BY <1>2, <2>1 DEF NamesKept
  <1>5. CASE Next
    BY <1>1, <1>3, <1>4, <1>5, DocsChange
  <1>6. QED BY <1>1, <1>5 DEF vars, cloudVars

LEMMA InitNames == Init => NamesInv
  <1> SUFFICES ASSUME Init PROVE NamesInv
    OBVIOUS
  <1>1. \A i, j \in DOMAIN FirstNames : FirstNames[i] = FirstNames[j] => i = j
    BY LibraryAssumption DEF IsInjective
  <1>2. DistinctNames
    BY <1>1 DEF Init, DistinctNames
  <1>3. QED BY <1>2 DEF Init, NamesInv, NewNames

\* "User can't add a new subject if the subject's name already exists"
\* (DataManager.swift:109) is kept as long as the student waits for the popup they
\* pressed Add in and no call has failed: no step then replaces the document of a
\* name, whatever loads and deletes come between the check and the write.
THEOREM NamesNotReusedWhileWaiting == Spec => [][Waits' => NamesKept]_vars
  <1>1. Inv /\ NamesInv /\ [Next]_vars => NamesInv'
    BY NextNames
  <1>2. Inv /\ NamesInv /\ [Next]_vars => (Waits' => NamesKept)
    BY NamesStep
  <1>3. QED BY InitNames, InvHolds, <1>1, <1>2, PTL DEF Spec
===============================================================================
