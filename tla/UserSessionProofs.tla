--------------------------- MODULE UserSessionProofs ---------------------------
(***************************************************************************)
(* Theorems about UserSession, for any users, words and arrays of default  *)
(* keywords, with any number of log-ins, edits, changes and errors.        *)
(***************************************************************************)
EXTENDS UserSession, SequenceTheorems, FiniteSetTheorems, TLAPS

-----------------------------------------------------------------------------
(* Sequences.                                                                *)

LEMMA AppendedProperties ==
  ASSUME NEW S, NEW s \in Seq(S), NEW e \in S
  PROVE  /\ Append(s, e) \in Seq(S)
         /\ Append(s, e) # <<>>
         /\ Last(Append(s, e)) = e
  BY DEF Last

LEMMA LastOfConcat ==
  ASSUME NEW S, NEW s \in Seq(S), NEW t \in Seq(S), t # <<>>
  PROVE  /\ s \o t # <<>>
         /\ Last(s \o t) = Last(t)
         /\ Last(t) \in S
         /\ \E n \in DOMAIN t : Last(t) = t[n]
  <1>1. Len(t) \in Nat \ {0} /\ Len(s) \in Nat
    BY EmptySeq, LenProperties
  <1>2. Len(s \o t) = Len(s) + Len(t) /\ s \o t \in Seq(S)
    BY ConcatProperties
  <1>3. s \o t # <<>>
    BY <1>1, <1>2, EmptySeq
  <1>4. Len(t) \in 1 .. Len(t) /\ t[Len(t)] \in S /\ DOMAIN t = 1 .. Len(t)
    BY <1>1, ElementOfSeq, LenProperties
  <1>5. (s \o t)[Len(s) + Len(t)] = t[Len(t)]
    <2>1. Len(s) + Len(t) \in 1 .. Len(s) + Len(t) /\ ~(Len(s) + Len(t) <= Len(s))
      BY <1>1
    <2>2. (Len(s) + Len(t)) - Len(s) = Len(t)
      BY <1>1
    <2>3. QED BY <2>1, <2>2, ConcatProperties
  <1>6. QED BY <1>2, <1>3, <1>4, <1>5 DEF Last

LEMMA LastOfTail ==
  ASSUME NEW S, NEW s \in Seq(S), s # <<>>
  PROVE  /\ Head(s) \in S
         /\ Tail(s) \in Seq(S)
         /\ Tail(s) # s
         /\ Tail(s) = <<>> => Last(s) = Head(s)
         /\ Tail(s) # <<>> => Last(Tail(s)) = Last(s)
  <1>1. Len(s) \in Nat \ {0}
    BY EmptySeq
  <1>2. /\ Head(s) \in S /\ Tail(s) \in Seq(S)
        /\ Len(Tail(s)) = Len(s) - 1
        /\ \A i \in 1 .. Len(Tail(s)) : Tail(s)[i] = s[i + 1]
    BY HeadTailProperties
  <1>3. Tail(s) # s
    <2>1. Len(s) # Len(s) - 1
      BY <1>1
    <2>2. QED BY <1>2, <2>1
  <1>4. ASSUME Tail(s) = <<>> PROVE Last(s) = Head(s)
    <2>1. Len(s) - 1 = 0
      <3>1. Len(Tail(s)) = 0
        BY <1>4, EmptySeq
      <3>2. QED BY <1>2, <3>1
    <2>2. Len(s) = 1
      BY <1>1, <2>1
    <2>3. QED BY <2>2 DEF Last
  <1>5. ASSUME Tail(s) # <<>> PROVE Last(Tail(s)) = Last(s)
    <2>1. Len(Tail(s)) \in Nat \ {0}
      BY <1>2, <1>5, EmptySeq
    <2>2. Len(Tail(s)) \in 1 .. Len(Tail(s)) /\ Len(Tail(s)) + 1 = Len(s)
      BY <1>1, <1>2, <2>1
    <2>3. QED BY <1>2, <2>2 DEF Last
  <1>6. QED BY <1>2, <1>3, <1>4, <1>5

LEMMA RemoveAtInSeq ==
  ASSUME NEW S, NEW s \in Seq(S), NEW i \in DOMAIN s
  PROVE  RemoveAt(s, i) \in Seq(S)
  <1>1. Len(s) \in Nat /\ i \in 1 .. Len(s)
    BY LenProperties
  <1>2. SubSeq(s, 1, i - 1) \in Seq(S) /\ SubSeq(s, i + 1, Len(s)) \in Seq(S)
    BY <1>1
  <1>3. QED BY <1>2, ConcatProperties DEF RemoveAt

LEMMA SetToSeqsProperties ==
  ASSUME NEW S, IsFiniteSet(S), NEW order \in SetToSeqs(S)
  PROVE  /\ DOMAIN order = 1 .. Cardinality(S) /\ Cardinality(S) \in Nat
         /\ \A n \in DOMAIN order : order[n] \in S
         /\ S = {} => DOMAIN order = {}
         /\ S # {} => DOMAIN order # {}
  <1>1. Cardinality(S) \in Nat /\ (Cardinality(S) = 0 <=> S = {})
    BY FS_CardinalityType, FS_EmptySet
  <1>2. order \in [1 .. Cardinality(S) -> S]
    BY DEF SetToSeqs
  <1>3. QED BY <1>1, <1>2

-----------------------------------------------------------------------------
(* What a step adds to the snapshots.                                        *)

Listeners == [user : Users, path : {"start", "login"}, active : BOOLEAN]
Snapshots == [path : {"start", "login"}, document : Documents]

CloudOK ==
    /\ documents \in [Users -> Documents]
    /\ writes \in [Users -> Seq(Keywords)]
    /\ listeners \in Seq(Listeners)

SeenOK == Seen \in [Users -> Documents]

LEMMA SeenType == CloudOK => SeenOK
  <1> SUFFICES ASSUME CloudOK, NEW u \in Users,
                      u = user, writes[u] # <<>>, documents[u].exists
               PROVE  [documents[u] EXCEPT !.keywords = Last(writes[u])] \in Documents
    BY DEF CloudOK, Seen, SeenOK
  <1>1. Last(writes[u]) \in Keywords
    <2>1. writes[u] \in Seq(Keywords)
      BY DEF CloudOK
    <2>2. QED BY <2>1, LastOfConcat, EmptySeq
  <1>2. QED BY <1>1 DEF Documents, CloudOK

LEMMA SeenTypePrime == CloudOK' => SeenOK'
  BY SeenType, PTL

\* The listeners whose document looks different.
Changed ==
    {i \in DOMAIN listeners :
        /\ listeners[i].active
        /\ Seen'[listeners[i].user] # Seen[listeners[i].user]}

LEMMA NewSnapshotsProperties ==
  ASSUME CloudOK, CloudOK', NEW new \in NewSnapshots
  PROVE  /\ new \in Seq(Snapshots)
         /\ Changed = {} <=> new = <<>>
         /\ \A n \in DOMAIN new : \E i \in Changed :
               new[n].document = Seen'[listeners[i].user]
  <1>1. Len(listeners) \in Nat /\ DOMAIN listeners = 1 .. Len(listeners)
    BY LenProperties DEF CloudOK
  <1>2. IsFiniteSet(Changed)
    <2>1. Changed \in SUBSET (1 .. Len(listeners))
      BY <1>1 DEF Changed
    <2>2. IsFiniteSet(1 .. Len(listeners))
      BY <1>1, FS_Interval
    <2>3. QED BY <2>1, <2>2, FS_Subset
  <1>3. PICK order \in SetToSeqs(Changed) :
           new = [n \in DOMAIN order |->
                    [path |-> listeners[order[n]].path,
                     document |-> Seen'[listeners[order[n]].user]]]
    BY DEF NewSnapshots, Changed
  <1>4. /\ DOMAIN order = 1 .. Cardinality(Changed) /\ Cardinality(Changed) \in Nat
        /\ \A n \in DOMAIN order : order[n] \in Changed
        /\ Changed = {} => DOMAIN order = {}
        /\ Changed # {} => DOMAIN order # {}
    BY <1>2, SetToSeqsProperties
  <1>5. \A i \in Changed : listeners[i] \in Listeners
    BY <1>1, ElementOfSeq DEF CloudOK, Changed
  <1>6. \A i \in Changed : [path |-> listeners[i].path,
                            document |-> Seen'[listeners[i].user]] \in Snapshots
    BY <1>5, SeenTypePrime DEF Listeners, Snapshots, SeenOK
  <1>7. \A n \in DOMAIN order : new[n] \in Snapshots
    BY <1>3, <1>4, <1>6
  <1>8. DOMAIN new = 1 .. Cardinality(Changed)
    BY <1>3, <1>4
  <1>9. new \in [1 .. Cardinality(Changed) -> Snapshots]
    BY <1>3, <1>4, <1>7, <1>8
  <1>10. new \in Seq(Snapshots)
    BY <1>4, <1>9, SeqDef
  <1>11. Changed = {} <=> new = <<>>
    <2>1. new = <<>> <=> Len(new) = 0
      BY <1>10, EmptySeq
    <2>2. Len(new) = Cardinality(Changed)
      BY <1>4, <1>8, <1>10, LenProperties
    <2>3. QED BY <1>2, <2>1, <2>2, FS_EmptySet
  <1>12. QED BY <1>3, <1>4, <1>10, <1>11
-----------------------------------------------------------------------------
(* Types.                                                                    *)

TypeInv ==
    /\ TypeOK
    /\ screen = "facebook" => logInCalls # 0
    /\ elsewhere \cup raced # {} => changes # 0

LEMMA TypedCloud == TypeOK => CloudOK
  BY DEF TypeOK, CloudOK, Listeners

LEMMA TypedRest ==
  ASSUME TypeOK
  PROVE  /\ user \in Users \cup {NoUser} /\ screen \in Screens
         /\ loads \in [{"getUserData", "segue"} -> Nat]
         /\ logInCalls \in 0 .. MaxLogIns /\ edits \in 0 .. MaxEdits
         /\ changes \in 0 .. MaxChanges /\ errors \in 0 .. MaxErrors
         /\ highlightedKeywords \in Keywords /\ rows \in Keywords
         /\ loginShown \in BOOLEAN /\ followed \in BOOLEAN
         /\ addingKeyword \in BOOLEAN /\ trapped \in BOOLEAN
         /\ hurried \in BOOLEAN
  BY DEF TypeOK

LEMMA FailType ==
  ASSUME TypeOK, Fail
  PROVE  errors' \in 0 .. MaxErrors
  <1>1. errors \in 0 .. MaxErrors /\ MaxErrors \in Nat
    BY SessionAssumption, TypedRest
  <1>2. errors < MaxErrors /\ errors' = errors + 1
    BY DEF Fail
  <1>3. QED BY <1>1, <1>2

LEMMA NotifyType ==
  ASSUME TypeOK, CloudOK', Notify
  PROVE  snapshots' \in Seq(Snapshots)
  <1>1. PICK new \in NewSnapshots : snapshots' = snapshots \o new
    BY DEF Notify
  <1>2. new \in Seq(Snapshots)
    BY TypedCloud, NewSnapshotsProperties
  <1>3. snapshots \in Seq(Snapshots)
    BY DEF TypeOK, Snapshots
  <1>4. QED BY <1>1, <1>2, <1>3, ConcatProperties

LEMMA GetUserDataType ==
  ASSUME TypeOK, NEW path \in {"start", "login"}, GetUserData(path),
         user' = user,
         documents' \in [Users -> Documents], writes' \in [Users -> Seq(Keywords)]
  PROVE  /\ listeners' \in Seq(Listeners)
         /\ snapshots' \in Seq(Snapshots)
         /\ followed' \in BOOLEAN /\ trapped' \in BOOLEAN
  <1>1. listeners \in Seq(Listeners) /\ snapshots \in Seq(Snapshots)
        /\ followed \in BOOLEAN /\ trapped \in BOOLEAN
    BY DEF TypeOK, Listeners, Snapshots
  <1>2. CASE user = NoUser
    <2>1. trapped' = TRUE /\ UNCHANGED listenVars
      BY <1>2 DEF GetUserData
    <2>2. QED BY <1>1, <2>1 DEF listenVars
  <1>3. CASE user # NoUser
    <2>1. user \in Users
      BY <1>3 DEF TypeOK
    <2>2. PICK new \in NewSnapshots :
             /\ followed' = TRUE /\ trapped' = trapped
             /\ listeners' = Append(listeners,
                                [user |-> user, path |-> path, active |-> TRUE])
             /\ snapshots' = Append(snapshots \o new,
                                [path |-> path, document |-> Seen'[user]])
      BY <1>3 DEF GetUserData
    <2>3. [user |-> user, path |-> path, active |-> TRUE] \in Listeners
      BY <2>1 DEF Listeners
    <2>4. listeners' \in Seq(Listeners)
      BY <1>1, <2>2, <2>3
    <2>5. CloudOK'
      BY <2>4 DEF CloudOK
    <2>6. [path |-> path, document |-> Seen'[user]] \in Snapshots
      BY <2>1, <2>5, SeenTypePrime DEF Snapshots, SeenOK
    <2>7. snapshots \o new \in Seq(Snapshots)
      BY <1>1, <2>5, TypedCloud, NewSnapshotsProperties, ConcatProperties
    <2>8. QED BY <1>1, <2>2, <2>4, <2>6, <2>7
  <1>4. QED BY <1>2, <1>3

LEMMA EditType ==
  ASSUME TypeOK, PressAdd \/ PressDelete
  PROVE  /\ highlightedKeywords' \in Keywords /\ rows' \in Keywords
         /\ addingKeyword' \in BOOLEAN /\ edits' \in 0 .. MaxEdits
         /\ hurried' \in BOOLEAN
         /\ user \in Users
         /\ writes' = [writes EXCEPT ![user] = Append(@, highlightedKeywords')]
         /\ UNCHANGED <<user, screen, loginShown, logins, logInCalls, loads,
                        listeners, followed, documents, changes, trapped, errors>>
         /\ Notify
  <1>1. /\ highlightedKeywords \in Seq(Words) /\ rows \in Seq(Words)
        /\ addingKeyword \in BOOLEAN /\ edits \in 0 .. MaxEdits
        /\ hurried \in BOOLEAN /\ user \in Users \cup {NoUser}
    BY DEF TypeOK, Keywords
  <1>2. highlightedKeywords' \in Seq(Words) /\ rows' \in Seq(Words)
    <2>1. CASE PressAdd
      BY <1>1, <2>1 DEF PressAdd, ReloadData
    <2>2. CASE PressDelete
      <3>1. PICK i \in DOMAIN rows :
               /\ highlightedKeywords' = RemoveAt(highlightedKeywords, i)
               /\ rows' = RemoveAt(rows, i)
               /\ Len(rows) = Len(highlightedKeywords)
        BY <2>2 DEF PressDelete
      <3>2. i \in DOMAIN highlightedKeywords
        BY <1>1, <3>1, LenProperties
      <3>3. QED BY <1>1, <3>1, <3>2, RemoveAtInSeq
    <2>3. QED BY <2>1, <2>2
  <1>3. edits' \in 0 .. MaxEdits
    BY <1>1, SessionAssumption DEF PressAdd, PressDelete, UpdateKeywords
  <1>4. hurried' \in BOOLEAN
    BY DEF PressAdd, PressDelete, Touch
  <1>5. QED
    BY <1>1, <1>2, <1>3, <1>4
       DEF PressAdd, PressDelete, UpdateKeywords, Keywords, authVars, pageVars

LEMMA InitTypeInv == Init => TypeInv
  <1> SUFFICES ASSUME Init PROVE TypeInv
    OBVIOUS
  <1>1. DefaultKeywords \in Keywords /\ <<>> \in Keywords /\ Registered \subseteq Users
    BY SessionAssumption DEF Keywords
  <1>2. documents \in [Users -> Documents]
    BY <1>1 DEF Init, Documents
  <1>3. writes \in [Users -> Seq(Keywords)]
    BY DEF Init
  <1>4. loads \in [{"getUserData", "segue"} -> Nat]
    BY DEF Init
  <1>5. logInCalls \in 0 .. MaxLogIns /\ edits \in 0 .. MaxEdits
        /\ changes \in 0 .. MaxChanges /\ errors \in 0 .. MaxErrors
    BY SessionAssumption DEF Init
  <1>6. /\ user \in Users \cup {NoUser} /\ screen \in Screens
        /\ screen # "facebook" /\ logins = {} /\ listeners = <<>> /\ snapshots = <<>>
        /\ loginShown = FALSE /\ followed = FALSE /\ addingKeyword = FALSE
        /\ trapped = FALSE /\ hurried = FALSE
        /\ highlightedKeywords = <<>> /\ rows = <<>>
        /\ elsewhere = {} /\ raced = {}
    BY <1>1 DEF Init, Screens
  <1>7. QED
    <2>1. listeners \in Seq([user : Users, path : {"start", "login"}, active : BOOLEAN])
      BY <1>6
    <2>2. snapshots \in Seq([path : {"start", "login"}, document : Documents])
      BY <1>6
    <2>3. logins \subseteq [id : 1 .. MaxLogIns, user : Users,
                            call : {"signIn", "check", "create"}]
      BY <1>6
    <2>4. QED
      BY <1>1, <1>2, <1>3, <1>4, <1>5, <1>6, <2>1, <2>2, <2>3 DEF TypeInv, TypeOK

\* A document can only be made elsewhere after a change elsewhere.
LEMMA ElsewhereType ==
  ASSUME TypeInv, [Next]_vars
  PROVE  /\ elsewhere' \subseteq Users /\ raced' \subseteq Users
         /\ elsewhere' \cup raced' # {} => changes' # 0
  <1>0. /\ elsewhere \subseteq Users /\ raced \subseteq Users
        /\ elsewhere \cup raced # {} => changes # 0
        /\ changes \in Nat
    BY SessionAssumption DEF TypeInv, TypeOK
  <1>1. CASE UNCHANGED <<elsewhere, raced, changes>>
    BY <1>0, <1>1
  <1>2. CASE OtherDeviceChanges
    <2>1. UNCHANGED <<elsewhere, raced>> /\ changes' = changes + 1
      BY <1>2 DEF OtherDeviceChanges, elsewhereVars
    <2>2. QED BY <1>0, <2>1
  <1>3. CASE OtherDeviceChecks
    <2>1. changes' = changes + 1 /\ raced' = raced
          /\ \E u \in Users : elsewhere' = elsewhere \cup {u}
      BY <1>3 DEF OtherDeviceChecks
    <2>2. QED BY <1>0, <2>1
  <1>4. CASE OtherDeviceCreates
    <2>1. PICK u \in elsewhere : /\ changes' = changes
                                /\ elsewhere' = elsewhere \ {u}
                                /\ raced' \in {raced, raced \cup {u}}
      BY <1>4 DEF OtherDeviceCreates
    <2>2. QED BY <1>0, <2>1
  <1>5. QED
    BY <1>1, <1>2, <1>3, <1>4
       DEF Next, UserStep, CloudStep, vars, ViewDidAppear, PressFacebookLogIn,
           FacebookAnswered, PressHighlightKeywords, PressDismissPopup, PressAddKeyword,
           PressAdd, PressDelete, UpdateKeywords, PressAndTrap, OpenSettings,
           CloseSettings, PressSignOut, SignInAnswered, UserChecked, UserCreated,
           LoadedThenGetUserData, LoadedThenSegue, LoadedForNobody, LoadFails, LoadEnded,
           SnapshotArrives, ListenerFails, WriteAnswered, OffScreenVars, cloudVars,
           elsewhereVars

LEMMA NextTypeInv == TypeInv /\ [Next]_vars => TypeInv'
  <1> SUFFICES ASSUME TypeInv, [Next]_vars PROVE TypeInv'
    OBVIOUS
  <1>0. TypeOK
    BY DEF TypeInv
  <1>a. CloudOK
    BY <1>0, TypedCloud
  <1>b. /\ elsewhere' \subseteq Users /\ raced' \subseteq Users
        /\ elsewhere' \cup raced' # {} => changes' # 0
    BY ElsewhereType
  <1> USE SessionAssumption
  <1>1. CASE UNCHANGED vars
    BY <1>1 DEF TypeInv, TypeOK, vars, authVars, pageVars, listenVars, cloudVars,
                elsewhereVars, wordVars
  <1>2. CASE \/ PressHighlightKeywords \/ PressDismissPopup \/ PressAddKeyword
             \/ OpenSettings \/ CloseSettings
    <2>1. rows' \in Keywords /\ screen' \in Screens \ {"facebook"}
          /\ addingKeyword' \in BOOLEAN
      <3>1. rows' \in {rows, highlightedKeywords, <<>>}
        BY <1>2 DEF PressHighlightKeywords, PressDismissPopup, PressAddKeyword,
                    OpenSettings, CloseSettings, ReloadData, wordVars
      <3>2. screen' \in {"keywords", "home", "settings"}
        BY <1>2 DEF PressHighlightKeywords, PressDismissPopup, PressAddKeyword,
                    OpenSettings, CloseSettings
      <3>3. addingKeyword' \in BOOLEAN
        BY <1>0, <1>2, TypedRest
           DEF PressHighlightKeywords, PressDismissPopup, PressAddKeyword,
               OpenSettings, CloseSettings, wordVars
      <3>4. <<>> \in Keywords
        BY DEF Keywords
      <3>5. QED BY <1>0, <3>1, <3>2, <3>3, <3>4, TypedRest DEF Screens
    <2>2. UNCHANGED <<user, logins, logInCalls, loginShown, loads, listeners, followed,
                      snapshots, documents, writes, changes, trapped,
                      highlightedKeywords, edits, hurried, errors>>
      BY <1>2 DEF PressHighlightKeywords, PressDismissPopup, PressAddKeyword,
                  OpenSettings, CloseSettings, OffScreenVars, wordVars, authVars,
                  listenVars, cloudVars
    <2>3. QED BY <1>0, <1>b, <2>1, <2>2 DEF TypeInv, TypeOK
  <1>3. CASE PressAndTrap
    <2>1. hurried' \in BOOLEAN /\ trapped' = TRUE
      BY <1>3 DEF PressAndTrap, Touch
    <2>2. UNCHANGED <<user, logins, logInCalls, loginShown, loads, listeners, followed,
                      snapshots, documents, writes, changes, screen, rows, addingKeyword,
                      highlightedKeywords, edits, errors>>
      BY <1>3 DEF PressAndTrap, OffScreenVars, wordVars, authVars, listenVars, cloudVars
    <2>3. QED BY <1>b, <2>1, <2>2 DEF TypeInv, TypeOK
  <1>4. CASE PressFacebookLogIn
    <2>1. hurried' \in BOOLEAN
      BY <1>4 DEF PressFacebookLogIn, Touch
    <2>2. logInCalls' \in 0 .. MaxLogIns /\ logInCalls' # 0
      BY <1>0, <1>4 DEF PressFacebookLogIn, TypeOK
    <2>3. screen' \in Screens
      BY <1>4 DEF PressFacebookLogIn, Screens
    <2>4. UNCHANGED <<user, logins, loginShown, loads, listeners, followed, rows,
                      snapshots, documents, writes, changes, trapped, addingKeyword,
                      highlightedKeywords, edits, errors>>
      BY <1>4 DEF PressFacebookLogIn, wordVars, listenVars, cloudVars
    <2>5. QED BY <1>0, <1>b, <2>1, <2>2, <2>3, <2>4 DEF TypeInv, TypeOK
  <1>5. CASE FacebookAnswered
    <2>1. logInCalls \in 1 .. MaxLogIns
      BY <1>5 DEF TypeInv, TypeOK, FacebookAnswered
    <2>2. logins' \subseteq [id : 1 .. MaxLogIns, user : Users,
                             call : {"signIn", "check", "create"}]
      BY <1>0, <1>5, <2>1 DEF FacebookAnswered, TypeOK
    <2>3. UNCHANGED <<user, logInCalls, loginShown, loads, listeners, followed, rows,
                      snapshots, documents, writes, changes, trapped, addingKeyword,
                      highlightedKeywords, edits, hurried, errors>>
          /\ screen' = "appearing"
      BY <1>5 DEF FacebookAnswered, wordVars, listenVars, cloudVars
    <2>4. QED BY <1>0, <1>b, <2>2, <2>3 DEF TypeInv, TypeOK, Screens
  <1>6. CASE ViewDidAppear
    <2>1. loads' \in [{"getUserData", "segue"} -> Nat] /\ trapped' \in BOOLEAN
          /\ loginShown' \in BOOLEAN
      <3>1. loads' \in [{"getUserData", "segue"} -> Nat]
        BY <1>0, <1>6, TypedRest DEF ViewDidAppear, LoadSubjectsAndRecordings
      <3>2. trapped' \in BOOLEAN /\ loginShown' \in BOOLEAN
        BY <1>0, <1>6, TypedRest DEF ViewDidAppear, LoadSubjectsAndRecordings
      <3>3. QED BY <3>1, <3>2
    <2>2. UNCHANGED <<user, logins, logInCalls, listeners, followed, rows,
                      snapshots, documents, writes, changes, addingKeyword,
                      highlightedKeywords, edits, hurried, errors>>
          /\ screen' = "signup"
      BY <1>6 DEF ViewDidAppear, authVars, wordVars, listenVars, cloudVars
    <2>3. QED BY <1>0, <1>b, <2>1, <2>2 DEF TypeInv, TypeOK, Screens
  <1>7. CASE PressAdd \/ PressDelete
    <2>1. /\ highlightedKeywords' \in Keywords /\ rows' \in Keywords
          /\ addingKeyword' \in BOOLEAN /\ edits' \in 0 .. MaxEdits
          /\ hurried' \in BOOLEAN /\ user \in Users /\ Notify
          /\ writes' = [writes EXCEPT ![user] = Append(@, highlightedKeywords')]
          /\ UNCHANGED <<user, screen, loginShown, logins, logInCalls, loads,
                         listeners, followed, documents, changes, trapped, errors>>
      BY <1>0, <1>7, EditType
    <2>2. writes' \in [Users -> Seq(Keywords)]
      BY <1>a, <2>1 DEF CloudOK
    <2>3. CloudOK'
      BY <1>a, <2>1, <2>2 DEF CloudOK
    <2>4. snapshots' \in Seq(Snapshots)
      BY <1>0, <2>1, <2>3, NotifyType
    <2>5. QED BY <1>0, <1>b, <2>1, <2>2, <2>4 DEF TypeInv, TypeOK, Snapshots
  <1>8. CASE PressSignOut
    <2>1. UNCHANGED <<logins, logInCalls, loginShown, documents, writes, changes,
                      listeners, followed, loads, trapped, highlightedKeywords, rows,
                      addingKeyword, edits>>
          /\ screen' = "appearing" /\ Notify
      BY <1>8 DEF PressSignOut, cloudVars, wordVars
    <2>2. user' \in Users \cup {NoUser} /\ errors' \in 0 .. MaxErrors
          /\ hurried' \in BOOLEAN
      <3>1. user' \in Users \cup {NoUser} /\ errors' \in 0 .. MaxErrors
        BY <1>0, <1>8, FailType, TypedRest DEF PressSignOut
      <3>2. hurried' \in BOOLEAN
        BY <1>0, <1>8, TypedRest DEF PressSignOut, Touch
      <3>3. QED BY <3>1, <3>2
    <2>3. CloudOK'
      BY <1>a, <2>1 DEF CloudOK
    <2>4. snapshots' \in Seq(Snapshots)
      BY <1>0, <2>1, <2>3, NotifyType
    <2>5. QED BY <1>0, <1>b, <2>1, <2>2, <2>4 DEF TypeInv, TypeOK, Snapshots, Screens
  <1>9. CASE SignInAnswered
    <2>1. UNCHANGED <<logInCalls, screen, loginShown, documents, writes, changes,
                      listeners, loads, trapped, highlightedKeywords, rows,
                      addingKeyword, edits, hurried>> /\ Notify
      BY <1>9 DEF SignInAnswered, cloudVars, wordVars, pageVars
    <2>2. PICK login \in logins :
             \/ /\ user' = login.user /\ followed' = FALSE /\ UNCHANGED errors
                /\ logins' = (logins \ {login}) \cup {[login EXCEPT !.call = "check"]}
             \/ Fail /\ logins' = logins \ {login} /\ UNCHANGED <<user, followed>>
      BY <1>9 DEF SignInAnswered, Waiting
    <2>3. login \in [id : 1 .. MaxLogIns, user : Users,
                     call : {"signIn", "check", "create"}]
      BY <1>0 DEF TypeOK
    <2>4. logins' \subseteq [id : 1 .. MaxLogIns, user : Users,
                             call : {"signIn", "check", "create"}]
      <3>1. [login EXCEPT !.call = "check"] \in
               [id : 1 .. MaxLogIns, user : Users, call : {"signIn", "check", "create"}]
        BY <2>3
      <3>2. QED BY <1>0, <2>2, <3>1 DEF TypeOK
    <2>5. user' \in Users \cup {NoUser} /\ errors' \in 0 .. MaxErrors
          /\ followed' \in BOOLEAN
      <3>1. user' \in Users \cup {NoUser} /\ errors' \in 0 .. MaxErrors
        BY <1>0, <2>2, <2>3, FailType, TypedRest
      <3>2. followed' \in BOOLEAN
        BY <1>0, <2>2, TypedRest
      <3>3. QED BY <3>1, <3>2
    <2>6. CloudOK'
      BY <1>a, <2>1 DEF CloudOK
    <2>7. snapshots' \in Seq(Snapshots)
      BY <1>0, <2>1, <2>6, NotifyType
    <2>8. screen' = "facebook" => logInCalls' # 0
      BY <2>1 DEF TypeInv
    <2>9. QED BY <1>0, <1>b, <2>1, <2>4, <2>5, <2>7, <2>8 DEF TypeInv, TypeOK, Snapshots
  <1>10. CASE UserChecked
    <2>1. UNCHANGED <<documents, writes, changes, user, logInCalls, screen, loginShown,
                      loads, highlightedKeywords, rows, addingKeyword, edits, hurried>>
      BY <1>10 DEF UserChecked, cloudVars, pageVars, wordVars
    <2>2. PICK login \in logins :
             \/ logins' = logins \ {login} /\ GetUserData("login") /\ UNCHANGED errors
             \/ /\ logins' = (logins \ {login}) \cup {[login EXCEPT !.call = "create"]}
                /\ UNCHANGED <<listenVars, trapped, errors>>
             \/ Fail /\ logins' = logins \ {login} /\ UNCHANGED <<listenVars, trapped>>
      BY <1>10 DEF UserChecked, Waiting
    <2>3. logins' \subseteq [id : 1 .. MaxLogIns, user : Users,
                             call : {"signIn", "check", "create"}]
      <3>1. [login EXCEPT !.call = "create"] \in
               [id : 1 .. MaxLogIns, user : Users, call : {"signIn", "check", "create"}]
        BY <1>0 DEF TypeOK
      <3>2. QED BY <1>0, <2>2, <3>1 DEF TypeOK
    <2>4. errors' \in 0 .. MaxErrors
      BY <1>0, <2>2, FailType, TypedRest
    <2>5. /\ listeners' \in Seq(Listeners) /\ snapshots' \in Seq(Snapshots)
          /\ followed' \in BOOLEAN /\ trapped' \in BOOLEAN
      <3>1. CASE GetUserData("login")
        BY <1>0, <1>a, <2>1, <3>1, GetUserDataType DEF CloudOK
      <3>2. CASE UNCHANGED <<listenVars, trapped>>
        BY <1>0, <3>2 DEF TypeOK, listenVars, Listeners, Snapshots
      <3>3. QED BY <2>2, <3>1, <3>2
    <2>6. QED BY <1>0, <1>b, <2>1, <2>3, <2>4, <2>5 DEF TypeInv, TypeOK, Listeners, Snapshots
  <1>11. CASE UserCreated
    <2>1. UNCHANGED <<writes, changes, user, logInCalls, screen, loginShown,
                      loads, highlightedKeywords, rows, addingKeyword, edits, hurried>>
      BY <1>11 DEF UserCreated, pageVars, wordVars
    <2>2. PICK login \in logins :
             /\ logins' = logins \ {login}
             /\ \/ /\ documents' = [documents EXCEPT ![login.user] =
                                    [exists |-> TRUE, keywords |-> DefaultKeywords]]
                   /\ UNCHANGED errors
                \/ Fail /\ UNCHANGED documents
      BY <1>11 DEF UserCreated, Waiting
    <2>3. [exists |-> TRUE, keywords |-> DefaultKeywords] \in Documents
      BY DEF Documents, Keywords
    <2>4. documents' \in [Users -> Documents] /\ writes' \in [Users -> Seq(Keywords)]
      BY <1>a, <2>1, <2>2, <2>3 DEF CloudOK
    <2>5. errors' \in 0 .. MaxErrors
      BY <1>0, <2>2, FailType, TypedRest
    <2>6. /\ listeners' \in Seq(Listeners) /\ snapshots' \in Seq(Snapshots)
          /\ followed' \in BOOLEAN /\ trapped' \in BOOLEAN
      BY <1>0, <1>11, <2>1, <2>4, GetUserDataType DEF UserCreated
    <2>7. logins' \subseteq logins
      BY <2>2
    <2>8. QED
      BY <1>0, <1>b, <2>1, <2>4, <2>5, <2>6, <2>7 DEF TypeInv, TypeOK, Listeners, Snapshots
  <1>12. CASE LoadedThenGetUserData
    <2>1. UNCHANGED <<documents, writes, changes, user, logins, logInCalls, screen,
                      loginShown, highlightedKeywords, rows, addingKeyword, edits,
                      hurried, errors>>
      BY <1>12 DEF LoadedThenGetUserData, LoadEnded, authVars, cloudVars, wordVars
    <2>2. loads' \in [{"getUserData", "segue"} -> Nat]
      BY <1>0, <1>12 DEF LoadedThenGetUserData, LoadEnded, TypeOK
    <2>3. /\ listeners' \in Seq(Listeners) /\ snapshots' \in Seq(Snapshots)
          /\ followed' \in BOOLEAN /\ trapped' \in BOOLEAN
      BY <1>0, <1>a, <1>12, <2>1, GetUserDataType DEF LoadedThenGetUserData, CloudOK
    <2>4. QED BY <1>0, <1>b, <2>1, <2>2, <2>3 DEF TypeInv, TypeOK, Listeners, Snapshots
  <1>13. CASE LoadedThenSegue \/ LoadedForNobody \/ LoadFails
    <2>1. UNCHANGED <<documents, writes, changes, user, logins, logInCalls, listeners,
                      followed, snapshots, loginShown, highlightedKeywords, rows,
                      addingKeyword, edits, hurried>>
      BY <1>13 DEF LoadedThenSegue, LoadedForNobody, LoadFails, LoadEnded, authVars,
                   cloudVars, wordVars, listenVars
    <2>2. loads' \in [{"getUserData", "segue"} -> Nat]
      BY <1>0, <1>13 DEF LoadedThenSegue, LoadedForNobody, LoadFails, LoadEnded, TypeOK
    <2>3. screen' \in {screen, "home"} /\ trapped' \in BOOLEAN
      BY <1>0, <1>13 DEF LoadedThenSegue, LoadedForNobody, LoadFails, SegueToHomePage,
                         TypeOK
    <2>4. errors' \in 0 .. MaxErrors
      BY <1>0, <1>13, FailType, TypedRest DEF LoadedThenSegue, LoadedForNobody, LoadFails
    <2>5. QED BY <1>0, <1>b, <2>1, <2>2, <2>3, <2>4 DEF TypeInv, TypeOK, Screens
  <1>14. CASE SnapshotArrives
    <2>1. UNCHANGED <<documents, writes, changes, user, logins, logInCalls, listeners,
                      followed, loginShown, rows, addingKeyword, edits, hurried, errors>>
      BY <1>14 DEF SnapshotArrives, authVars, cloudVars
    <2>2. snapshots \in Seq(Snapshots) /\ snapshots # <<>> /\ snapshots' = Tail(snapshots)
      BY <1>0, <1>14 DEF SnapshotArrives, TypeOK, Snapshots
    <2>3. Head(snapshots) \in Snapshots /\ snapshots' \in Seq(Snapshots)
      BY <2>2, LastOfTail
    <2>4. highlightedKeywords' \in Keywords
      BY <1>0, <1>14, <2>3 DEF SnapshotArrives, TypeOK, Snapshots, Documents
    <2>5. loads' \in [{"getUserData", "segue"} -> Nat]
      BY <1>0, <1>14 DEF SnapshotArrives, LoadSubjectsAndRecordings, TypeOK
    <2>6. screen' \in {screen, "home"} /\ trapped' \in BOOLEAN
      BY <1>0, <1>14 DEF SnapshotArrives, LoadSubjectsAndRecordings, SegueToHomePage,
                         TypeOK
    <2>7. QED BY <1>0, <1>b, <2>1, <2>3, <2>4, <2>5, <2>6 DEF TypeInv, TypeOK, Screens, Snapshots
  <1>15. CASE ListenerFails
    <2>1. UNCHANGED <<documents, writes, changes, user, logins, logInCalls, screen,
                      loginShown, loads, trapped, followed, snapshots,
                      highlightedKeywords, rows, addingKeyword, edits, hurried>>
      BY <1>15 DEF ListenerFails, authVars, pageVars, cloudVars, wordVars
    <2>2. PICK i \in DOMAIN listeners :
             listeners' = [listeners EXCEPT ![i].active = FALSE]
      BY <1>15 DEF ListenerFails
    <2>3. listeners' \in Seq(Listeners)
      <3>1. i \in 1 .. Len(listeners) /\ listeners[i] \in Listeners
        BY <1>a, LenProperties, ElementOfSeq DEF CloudOK
      <3>2. [listeners[i] EXCEPT !.active = FALSE] \in Listeners
        BY <3>1 DEF Listeners
      <3>3. listeners' = [listeners EXCEPT ![i] = [listeners[i] EXCEPT !.active = FALSE]]
        BY <2>2
      <3>4. QED BY <1>a, <3>1, <3>2, <3>3, ExceptSeq DEF CloudOK
    <2>4. errors' \in 0 .. MaxErrors
      BY <1>0, <1>15, FailType DEF ListenerFails
    <2>5. QED BY <1>0, <1>b, <2>1, <2>3, <2>4 DEF TypeInv, TypeOK, Listeners
  <1>16. CASE OtherDeviceChanges
    <2>1. UNCHANGED <<writes, user, logins, logInCalls, screen, loginShown, loads,
                      trapped, listeners, followed, highlightedKeywords, rows,
                      addingKeyword, edits, hurried, errors>> /\ Notify
      BY <1>16 DEF OtherDeviceChanges, authVars, pageVars, wordVars
    <2>2. PICK u \in Users :
             \/ \E word \in Words :
                   documents' = [documents EXCEPT ![u].keywords = Append(@, word)]
             \/ \E i \in DOMAIN documents[u].keywords :
                   documents' = [documents EXCEPT ![u].keywords = RemoveAt(@, i)]
      BY <1>16 DEF OtherDeviceChanges
    <2>3. documents[u] \in Documents /\ documents[u].keywords \in Seq(Words)
      BY <1>a DEF CloudOK, Documents, Keywords
    <2>4. PICK value \in Seq(Words) : documents' = [documents EXCEPT ![u].keywords = value]
      <3>1. ASSUME NEW word \in Words,
                   documents' = [documents EXCEPT ![u].keywords = Append(@, word)]
            PROVE  \E value \in Seq(Words) :
                      documents' = [documents EXCEPT ![u].keywords = value]
        <4>1. Append(documents[u].keywords, word) \in Seq(Words)
          BY <2>3
        <4>2. documents' = [documents EXCEPT ![u].keywords =
                               Append(documents[u].keywords, word)]
          BY <3>1
        <4>3. QED BY <4>1, <4>2
      <3>2. ASSUME NEW i \in DOMAIN documents[u].keywords,
                   documents' = [documents EXCEPT ![u].keywords = RemoveAt(@, i)]
            PROVE  \E value \in Seq(Words) :
                      documents' = [documents EXCEPT ![u].keywords = value]
        <4>1. RemoveAt(documents[u].keywords, i) \in Seq(Words)
          BY <2>3, RemoveAtInSeq
        <4>2. documents' = [documents EXCEPT ![u].keywords =
                               RemoveAt(documents[u].keywords, i)]
          BY <3>2
        <4>3. QED BY <4>1, <4>2
      <3>3. QED BY <2>2, <3>1, <3>2
    <2>5. documents' \in [Users -> Documents]
      BY <1>a, <2>4 DEF CloudOK, Documents, Keywords
    <2>6. changes' \in 0 .. MaxChanges
      <3>1. changes < MaxChanges /\ changes' = changes + 1
        BY <1>16 DEF OtherDeviceChanges
      <3>2. changes \in 0 .. MaxChanges /\ MaxChanges \in Nat
        BY <1>0, TypedRest
      <3>3. QED BY <3>1, <3>2
    <2>7. CloudOK'
      BY <1>a, <2>1, <2>5 DEF CloudOK
    <2>8. snapshots' \in Seq(Snapshots)
      BY <1>0, <2>1, <2>7, NotifyType
    <2>9. QED BY <1>0, <1>b, <2>1, <2>5, <2>6, <2>8 DEF TypeInv, TypeOK, Snapshots
  <1>17. CASE WriteAnswered
    <2>1. UNCHANGED <<user, logins, logInCalls, screen, loginShown, loads, trapped,
                      listeners, followed, highlightedKeywords, rows, addingKeyword,
                      edits, changes, hurried>> /\ Notify
      BY <1>17 DEF WriteAnswered, authVars, pageVars, wordVars
    <2>2. /\ user \in Users /\ writes[user] \in Seq(Keywords) /\ writes[user] # <<>>
          /\ writes' = [writes EXCEPT ![user] = Tail(writes[user])]
      BY <1>0, <1>17 DEF WriteAnswered, TypeOK
    <2>3. Head(writes[user]) \in Keywords /\ Tail(writes[user]) \in Seq(Keywords)
      BY <2>2, LastOfTail
    <2>4. writes' \in [Users -> Seq(Keywords)]
      BY <1>a, <2>2, <2>3 DEF CloudOK
    <2>5. \/ documents' = [documents EXCEPT ![user].keywords = Head(writes[user])]
          \/ UNCHANGED documents
      BY <1>17 DEF WriteAnswered
    <2>6. documents' \in [Users -> Documents]
      BY <1>a, <2>3, <2>5 DEF CloudOK, Documents
    <2>7. errors' \in 0 .. MaxErrors
      BY <1>0, <1>17, FailType, TypedRest DEF WriteAnswered
    <2>8. CloudOK'
      BY <1>a, <2>1, <2>4, <2>6 DEF CloudOK
    <2>9. snapshots' \in Seq(Snapshots)
      BY <1>0, <2>1, <2>8, NotifyType
    <2>10. QED BY <1>0, <1>b, <2>1, <2>4, <2>6, <2>7, <2>9 DEF TypeInv, TypeOK, Snapshots
  <1>18. CASE OtherDeviceChecks
    <2>1. UNCHANGED <<documents, writes, user, logins, logInCalls, screen, loginShown,
                      loads, trapped, listeners, followed, snapshots,
                      highlightedKeywords, rows, addingKeyword, edits, hurried, errors>>
      BY <1>18 DEF OtherDeviceChecks, authVars, pageVars, listenVars, wordVars
    <2>2. changes' \in 0 .. MaxChanges
      <3>1. changes < MaxChanges /\ changes' = changes + 1
        BY <1>18 DEF OtherDeviceChecks
      <3>2. changes \in 0 .. MaxChanges /\ MaxChanges \in Nat
        BY <1>0, TypedRest
      <3>3. QED BY <3>1, <3>2
    <2>3. QED BY <1>0, <1>b, <2>1, <2>2 DEF TypeInv, TypeOK
  <1>19. CASE OtherDeviceCreates
    <2>1. UNCHANGED <<writes, user, logins, logInCalls, screen, loginShown, loads,
                      trapped, listeners, followed, highlightedKeywords, rows,
                      addingKeyword, edits, changes, hurried, errors>> /\ Notify
      BY <1>19 DEF OtherDeviceCreates, authVars, pageVars, wordVars
    <2>2. documents' \in [Users -> Documents]
      <3>1. [exists |-> TRUE, keywords |-> DefaultKeywords] \in Documents
        BY DEF Documents, Keywords
      <3>2. QED BY <1>a, <1>19, <3>1 DEF OtherDeviceCreates, CloudOK
    <2>3. CloudOK'
      BY <1>a, <2>1, <2>2 DEF CloudOK
    <2>4. snapshots' \in Seq(Snapshots)
      BY <1>0, <2>1, <2>3, NotifyType
    <2>5. QED BY <1>0, <1>b, <2>1, <2>2, <2>4 DEF TypeInv, TypeOK, Snapshots
  <1>20. QED
    BY <1>1, <1>2, <1>3, <1>4, <1>5, <1>6, <1>7, <1>8, <1>9, <1>10, <1>11, <1>12,
       <1>13, <1>14, <1>15, <1>16, <1>17, <1>18, <1>19 DEF Next, UserStep, CloudStep

\* The facts about types, which the other proofs use.
THEOREM TypeInvariance == Spec => []TypeInv
  BY InitTypeInv, NextTypeInv, PTL DEF Spec

\* Every variable keeps its type: for one, a snapshot always carries a document.
THEOREM TypeOKHolds == Spec => []TypeOK
  <1>1. TypeInv => TypeOK
    BY DEF TypeInv
  <1>2. QED BY <1>1, TypeInvariance, PTL
-----------------------------------------------------------------------------
(* A new document is written without looking, some time after the check has  *)
(* found none: nothing on this device makes one for the same user in between, *)
(* and if another device does, the two race.                                 *)

CreateInv ==
    /\ \A login \in Waiting("create") :
          ~documents[login.user].exists \/ login.user \in raced
    /\ \A login, other \in Waiting("create") :
          login.user = other.user => login = other

LEMMA SetKeywordsKeepsDocuments ==
  ASSUME TypeOK, NEW u \in Users, NEW value,
         documents' = [documents EXCEPT ![u].keywords = value]
  PROVE  \A v \in Users : documents'[v].exists = documents[v].exists
  BY DEF TypeOK, Documents

LEMMA NextCreateInv == TypeInv /\ CreateInv /\ [Next]_vars => CreateInv'
  <1> SUFFICES ASSUME TypeInv, CreateInv, [Next]_vars PROVE CreateInv'
    OBVIOUS
  <1>0. TypeOK /\ logins \subseteq [id : 1 .. MaxLogIns, user : Users,
                                    call : {"signIn", "check", "create"}]
    BY DEF TypeInv, TypeOK
  <1> USE DEF authVars, cloudVars, elsewhereVars, OffScreenVars
  <1>1. CASE UNCHANGED <<documents, logins, raced>>
    BY <1>1 DEF CreateInv, Waiting
  <1>3. CASE FacebookAnswered
    <2>1. /\ \/ \E u \in Users :
                   logins' = logins \cup {[id |-> logInCalls, user |-> u, call |-> "signIn"]}
             \/ UNCHANGED logins
          /\ UNCHANGED <<documents, raced>>
      BY <1>3 DEF FacebookAnswered
    <2>2. Waiting("create")' \subseteq Waiting("create")
      BY <2>1 DEF Waiting
    <2>3. QED BY <2>1, <2>2 DEF CreateInv
  <1>5. CASE SignInAnswered
    <2>1. PICK login \in logins :
             \/ logins' = (logins \ {login}) \cup {[login EXCEPT !.call = "check"]}
             \/ logins' = logins \ {login}
      BY <1>5 DEF SignInAnswered, Waiting
    <2>2. [login EXCEPT !.call = "check"] \in
             [id : 1 .. MaxLogIns, user : Users, call : {"check"}]
      BY <1>0
    <2>3. Waiting("create")' \subseteq Waiting("create")
      BY <2>1, <2>2 DEF Waiting
    <2>4. UNCHANGED <<documents, raced>>
      BY <1>5 DEF SignInAnswered
    <2>5. QED BY <2>3, <2>4 DEF CreateInv
  <1>6. CASE UserChecked
    <2>0. UNCHANGED <<documents, raced>>
      BY <1>6 DEF UserChecked
    <2>1. PICK login \in logins :
             \/ logins' = logins \ {login}
             \/ /\ ~UserExists(login.user)
                /\ logins' = (logins \ {login}) \cup {[login EXCEPT !.call = "create"]}
      BY <1>6 DEF UserChecked, Waiting
    <2>2. CASE logins' = logins \ {login}
      BY <2>0, <2>2 DEF CreateInv, Waiting
    <2>3. CASE /\ ~UserExists(login.user)
               /\ logins' = (logins \ {login}) \cup {[login EXCEPT !.call = "create"]}
      <3> DEFINE new == [login EXCEPT !.call = "create"]
      <3>1. new.user = login.user /\ new.call = "create"
        BY <1>0
      <3>2. Waiting("create")' \subseteq Waiting("create") \cup {new}
        BY <2>3 DEF Waiting
      <3>3. /\ ~documents[new.user].exists
            /\ \A other \in Waiting("create") : other.user # new.user
        BY <2>3, <3>1 DEF UserExists
      <3> HIDE DEF new
      <3>4. QED BY <2>0, <3>2, <3>3 DEF CreateInv
    <2>4. QED BY <2>1, <2>2, <2>3
  <1>7. CASE UserCreated
    <2>1. PICK login \in Waiting("create") :
             /\ logins' = logins \ {login}
             /\ \/ documents' = [documents EXCEPT ![login.user] =
                                    [exists |-> TRUE, keywords |-> DefaultKeywords]]
                \/ UNCHANGED documents
      BY <1>7 DEF UserCreated
    <2>2. \A u \in Users \ {login.user} : documents'[u] = documents[u]
      BY <1>0, <2>1 DEF TypeOK
    <2>3. Waiting("create")' = Waiting("create") \ {login}
      BY <2>1 DEF Waiting
    <2>4. \A other \in Waiting("create")' : other.user \in Users \ {login.user}
      BY <1>0, <2>1, <2>3 DEF CreateInv, Waiting
    <2>5. UNCHANGED raced
      BY <1>7 DEF UserCreated
    <2>6. QED BY <2>2, <2>3, <2>4, <2>5 DEF CreateInv
  <1>8. CASE OtherDeviceChanges \/ WriteAnswered
    <2>1. UNCHANGED <<logins, raced>>
      BY <1>8 DEF OtherDeviceChanges, WriteAnswered
    <2>2. UNCHANGED documents \/ \E u \in Users : \E value :
             documents' = [documents EXCEPT ![u].keywords = value]
      <3>1. CASE OtherDeviceChanges
        BY <3>1 DEF OtherDeviceChanges
      <3>2. CASE WriteAnswered
        <4>1. user \in Users
          BY <1>0, <3>2 DEF WriteAnswered, TypeOK
        <4>2. QED BY <3>2, <4>1 DEF WriteAnswered
      <3>3. QED BY <1>8, <3>1, <3>2
    <2>3. \A u \in Users : documents'[u].exists = documents[u].exists
      BY <1>0, <2>2, SetKeywordsKeepsDocuments
    <2>4. \A login \in Waiting("create") : login.user \in Users
      BY <1>0 DEF Waiting
    <2>5. Waiting("create")' = Waiting("create")
      BY <2>1 DEF Waiting
    <2>6. QED BY <2>1, <2>3, <2>4, <2>5 DEF CreateInv
  <1>9. CASE OtherDeviceCreates
    <2>1. Waiting("create")' = Waiting("create")
      BY <1>9 DEF OtherDeviceCreates, Waiting
    <2>2. PICK u \in elsewhere :
             /\ raced' = IF UserExists(u) THEN raced \cup {u} ELSE raced
             /\ documents' = [documents EXCEPT ![u] =
                                 [exists |-> TRUE, keywords |-> DefaultKeywords]]
      BY <1>9 DEF OtherDeviceCreates
    <2>3. \A v \in Users \ {u} : documents'[v] = documents[v]
      BY <1>0, <2>2 DEF TypeOK
    <2>4. ASSUME NEW login \in Waiting("create")
          PROVE  ~documents'[login.user].exists \/ login.user \in raced'
      <3>1. login.user \in Users
        BY <1>0 DEF Waiting
      <3>2. CASE login.user = u
        <4>1. UserExists(u)
          BY <3>2 DEF UserExists
        <4>2. QED BY <2>2, <3>2, <4>1
      <3>3. CASE login.user # u
        BY <2>2, <2>3, <3>1, <3>3 DEF CreateInv
      <3>4. QED BY <3>2, <3>3
    <2>5. QED BY <2>1, <2>4 DEF CreateInv
  <1>10. QED
    BY <1>1, <1>3, <1>5, <1>6, <1>7, <1>8, <1>9
       DEF Next, UserStep, CloudStep, vars, ViewDidAppear, PressFacebookLogIn,
           PressHighlightKeywords, PressDismissPopup, PressAddKeyword, PressAdd,
           PressDelete, UpdateKeywords, PressAndTrap,
           OpenSettings, CloseSettings, PressSignOut, LoadedThenGetUserData,
           LoadedThenSegue, LoadedForNobody, LoadFails, LoadEnded,
           SnapshotArrives, ListenerFails, OtherDeviceChecks

\* Documents about to be made are of users who have none, one each, but for the
\* users whom another device has made one for since the check.
THEOREM CreateInvariance == Spec => []CreateInv
  <1>1. Init => CreateInv
    BY DEF Init, CreateInv, Waiting
  <1>2. QED BY <1>1, NextCreateInv, TypeInvariance, PTL DEF Spec

\* However sign-ins, checks and writes of new documents interleave, here and
\* elsewhere, no log-in puts the default keywords over a document that is there,
\* unless two devices check before either writes.
THEOREM LogInKeepsDocumentHolds == Spec => LogInKeepsDocument
  <1> DEFINE Kept == \A u \in Users \ raced' :
                (documents[u].exists /\ documents'[u] # documents[u])
                   => OtherDeviceChanges \/ WriteAnswered
  <1>1. TypeInv /\ CreateInv /\ [Next]_vars => [Kept]_vars
    <2> SUFFICES ASSUME TypeInv, CreateInv, Next, NEW u \in Users \ raced',
                        documents[u].exists, ~OtherDeviceChanges, ~WriteAnswered
                 PROVE  documents'[u] = documents[u]
      OBVIOUS
    <2>0. TypeOK
      BY DEF TypeInv
    <2>1. CASE UserCreated
      <3>1. PICK login \in Waiting("create") :
               \/ documents' = [documents EXCEPT ![login.user] =
                                   [exists |-> TRUE, keywords |-> DefaultKeywords]]
               \/ UNCHANGED documents
        BY <2>1 DEF UserCreated
      <3>2. raced' = raced
        BY <2>1 DEF UserCreated, elsewhereVars
      <3>3. login.user # u
        BY <3>2 DEF CreateInv
      <3>4. QED BY <2>0, <3>1, <3>3 DEF TypeOK
    <2>2. CASE OtherDeviceCreates
      <3>1. PICK v \in elsewhere :
               /\ raced' = IF UserExists(v) THEN raced \cup {v} ELSE raced
               /\ documents' = [documents EXCEPT ![v] =
                                   [exists |-> TRUE, keywords |-> DefaultKeywords]]
        BY <2>2 DEF OtherDeviceCreates
      <3>2. UserExists(u)
        BY DEF UserExists
      <3>3. v # u
        BY <3>1, <3>2
      <3>4. QED BY <2>0, <3>1, <3>3 DEF TypeOK
    <2>3. CASE UNCHANGED documents
      BY <2>3
    <2>4. QED
      BY <2>1, <2>2, <2>3
         DEF Next, UserStep, CloudStep, ViewDidAppear, PressFacebookLogIn,
             FacebookAnswered, PressHighlightKeywords, PressDismissPopup,
             PressAddKeyword, PressAdd, PressDelete, UpdateKeywords, PressAndTrap,
             OpenSettings, CloseSettings, PressSignOut, SignInAnswered, UserChecked,
             LoadedThenGetUserData, LoadedThenSegue, LoadedForNobody, LoadFails,
             LoadEnded, SnapshotArrives, ListenerFails, OtherDeviceChecks,
             OffScreenVars, cloudVars
  <1>2. QED BY <1>1, TypeInvariance, CreateInvariance, PTL DEF Spec, LogInKeepsDocument
-----------------------------------------------------------------------------
(* The latest listener is the signed-in user's, and what comes last on its   *)
(* way, or has come, is what the device sees.                                *)

FollowInv ==
    (~trapped /\ user # NoUser /\ followed /\ changes = 0) =>
        /\ listeners # <<>>
        /\ Last(listeners).user = user
        /\ Last(listeners).active =>
              IF snapshots = <<>>
              THEN Seen[user].exists /\ highlightedKeywords = Seen[user].keywords
              ELSE Last(snapshots).document = Seen[user]

LEMMA ListenersHaveUsers ==
  ASSUME TypeOK
  PROVE  /\ listeners \in Seq(Listeners)
         /\ \A i \in DOMAIN listeners : listeners[i].user \in Users
         /\ listeners # <<>> => Len(listeners) \in DOMAIN listeners
  <1>1. listeners \in Seq(Listeners)
    BY DEF TypeOK, Listeners
  <1>2. \A i \in DOMAIN listeners : listeners[i] \in Listeners
    BY <1>1, LenProperties, ElementOfSeq
  <1>3. ASSUME listeners # <<>> PROVE Len(listeners) \in DOMAIN listeners
    <2>1. Len(listeners) \in Nat \ {0} /\ DOMAIN listeners = 1 .. Len(listeners)
      BY <1>1, <1>3, EmptySeq, LenProperties
    <2>2. QED BY <2>1
  <1>4. QED BY <1>1, <1>2, <1>3 DEF Listeners

LEMMA NotifyNothing ==
  ASSUME TypeOK, CloudOK', Notify,
         \A u \in Users : Seen'[u] = Seen[u]
  PROVE  snapshots' = snapshots
  <1>1. PICK new \in NewSnapshots : snapshots' = snapshots \o new
    BY DEF Notify
  <1>2. Changed = {}
    BY ListenersHaveUsers DEF Changed
  <1>3. new = <<>>
    BY <1>2, TypedCloud, NewSnapshotsProperties
  <1>4. snapshots \in Seq(Snapshots)
    BY DEF TypeOK, Snapshots
  <1>5. QED BY <1>1, <1>3, <1>4, ConcatEmptySeq

LEMMA FollowOwnDocument ==
  ASSUME TypeOK, CloudOK', FollowInv, Notify,
         UNCHANGED <<user, listeners, followed, trapped, changes>>,
         \A u \in Users \ {user} : Seen'[u] = Seen[u],
         (/\ user # NoUser /\ Seen'[user] = Seen[user] /\ Seen[user].exists
          /\ highlightedKeywords = Seen[user].keywords)
            => highlightedKeywords' = Seen'[user].keywords
  PROVE  FollowInv'
  <1> SUFFICES ASSUME ~trapped, user # NoUser, followed, changes = 0
               PROVE  /\ listeners # <<>>
                      /\ Last(listeners).user = user
                      /\ Last(listeners).active =>
                            IF snapshots' = <<>>
                            THEN /\ Seen'[user].exists
                                 /\ highlightedKeywords' = Seen'[user].keywords
                            ELSE Last(snapshots').document = Seen'[user]
    BY DEF FollowInv
  <1>1. /\ listeners # <<>>
        /\ Last(listeners).user = user
        /\ Last(listeners).active =>
              IF snapshots = <<>>
              THEN Seen[user].exists /\ highlightedKeywords = Seen[user].keywords
              ELSE Last(snapshots).document = Seen[user]
    BY DEF FollowInv
  <1>2. CASE Seen'[user] = Seen[user]
    <2>1. snapshots' = snapshots
      BY <1>2, NotifyNothing
    <2>2. QED BY <1>1, <1>2, <2>1
  <1>3. CASE Seen'[user] # Seen[user] /\ Last(listeners).active
    <2>1. PICK new \in NewSnapshots : snapshots' = snapshots \o new
      BY DEF Notify
    <2>2. Len(listeners) \in Changed
      BY <1>1, <1>3, ListenersHaveUsers DEF Changed, Last
    <2>3. /\ new \in Seq(Snapshots) /\ new # <<>>
          /\ \A n \in DOMAIN new : \E i \in Changed :
                new[n].document = Seen'[listeners[i].user]
      BY <2>2, TypedCloud, NewSnapshotsProperties
    <2>4. \A i \in Changed : listeners[i].user = user
      BY ListenersHaveUsers DEF Changed
    <2>5. snapshots \in Seq(Snapshots)
      BY DEF TypeOK, Snapshots
    <2>6. snapshots' # <<>> /\ \E n \in DOMAIN new : Last(snapshots') = new[n]
      BY <2>1, <2>3, <2>5, LastOfConcat
    <2>7. QED BY <1>1, <2>3, <2>4, <2>6
  <1>4. CASE ~Last(listeners).active
    BY <1>1, <1>4
  <1>5. QED BY <1>2, <1>3, <1>4

LEMMA FollowGetUserData ==
  ASSUME TypeOK, TypeOK', NEW path \in {"start", "login"}, GetUserData(path), user' = user
  PROVE  FollowInv'
  <1>1. CASE user = NoUser
    BY <1>1 DEF FollowInv
  <1>2. CASE user # NoUser
    <2>1. PICK new \in NewSnapshots :
             /\ listeners' = Append(listeners,
                                [user |-> user, path |-> path, active |-> TRUE])
             /\ snapshots' = Append(snapshots \o new,
                                [path |-> path, document |-> Seen'[user]])
      BY <1>2 DEF GetUserData
    <2>2. CloudOK /\ CloudOK'
      <3>1. TypeOK' => CloudOK'
        BY DEF TypeOK, CloudOK, Listeners
      <3>2. QED BY <3>1, TypedCloud
    <2>3. user \in Users
      BY <1>2 DEF TypeOK
    <2>4. /\ listeners \in Seq(Listeners) /\ snapshots \o new \in Seq(Snapshots)
      <3>1. snapshots \in Seq(Snapshots)
        BY DEF TypeOK, Snapshots
      <3>2. QED BY <2>2, <3>1, NewSnapshotsProperties, ConcatProperties DEF CloudOK
    <2>5. /\ [user |-> user, path |-> path, active |-> TRUE] \in Listeners
          /\ [path |-> path, document |-> Seen'[user]] \in Snapshots
      BY <2>2, <2>3, SeenTypePrime DEF SeenOK, Listeners, Snapshots
    <2>6. /\ listeners' # <<>>
          /\ Last(listeners') = [user |-> user, path |-> path, active |-> TRUE]
          /\ snapshots' # <<>>
          /\ Last(snapshots') = [path |-> path, document |-> Seen'[user]]
      <3>1. /\ listeners' # <<>>
            /\ Last(listeners') = [user |-> user, path |-> path, active |-> TRUE]
        BY <2>1, <2>4, <2>5, AppendedProperties
      <3>2. /\ snapshots' # <<>>
            /\ Last(snapshots') = [path |-> path, document |-> Seen'[user]]
        <4> DEFINE all == snapshots \o new
                   last == [path |-> path, document |-> Seen'[user]]
        <4>1. all \in Seq(Snapshots) /\ last \in Snapshots /\ snapshots' = Append(all, last)
          BY <2>1, <2>4, <2>5
        <4> HIDE DEF all, last
        <4>2. snapshots' # <<>> /\ Last(snapshots') = last
          BY <4>1, AppendedProperties
        <4>3. QED BY <4>2 DEF last
      <3>3. QED BY <3>1, <3>2
    <2>7. QED BY <2>6 DEF FollowInv
  <1>3. QED BY <1>1, <1>2

\* The device does not see the difference when its own write is accepted.
LEMMA AcceptedWriteIsSeen ==
  ASSUME TypeOK, WriteAnswered, UNCHANGED errors
  PROVE  Seen' = Seen
  <1>1. /\ user' = user /\ user \in Users
        /\ writes \in [Users -> Seq(Keywords)] /\ writes[user] # <<>>
        /\ documents \in [Users -> Documents]
        /\ writes' = [writes EXCEPT ![user] = Tail(writes[user])]
    BY DEF WriteAnswered, TypeOK, authVars
  <1>2. documents' = IF documents[user].exists
                     THEN [documents EXCEPT ![user].keywords = Head(writes[user])]
                     ELSE documents
    <2>1. ~Fail
      <3>1. SUFFICES ASSUME errors' = errors + 1 PROVE FALSE
        BY DEF Fail
      <3>2. errors \in Nat
        BY SessionAssumption, TypedRest
      <3>3. QED BY <3>1, <3>2
    <2>2. QED BY <2>1 DEF WriteAnswered
  <1>3. /\ Tail(writes[user]) = <<>> => Last(writes[user]) = Head(writes[user])
        /\ Tail(writes[user]) # <<>> => Last(Tail(writes[user])) = Last(writes[user])
    BY <1>1, LastOfTail
  <1>4. ASSUME NEW u \in Users PROVE Seen'[u] = Seen[u]
    <2>1. CASE u # user
      BY <1>1, <1>2, <2>1 DEF Seen
    <2>2. CASE u = user /\ ~documents[user].exists
      BY <1>1, <1>2, <2>2 DEF Seen
    <2>3. CASE u = user /\ documents[user].exists
      <3>1. /\ documents'[user] = [documents[user] EXCEPT !.keywords = Head(writes[user])]
            /\ documents'[user].exists
            /\ writes'[user] = Tail(writes[user])
        BY <1>1, <1>2, <2>3 DEF Documents
      <3>2. Seen[user] = [documents[user] EXCEPT !.keywords = Last(writes[user])]
        BY <1>1, <2>3 DEF Seen
      <3>3. Seen'[user] = IF Tail(writes[user]) # <<>>
                          THEN [documents'[user] EXCEPT !.keywords =
                                   Last(Tail(writes[user]))]
                          ELSE documents'[user]
        BY <1>1, <3>1 DEF Seen
      <3>4. QED BY <1>1, <1>3, <2>3, <3>1, <3>2, <3>3 DEF Documents
    <2>4. QED BY <2>1, <2>2, <2>3
  <1>5. QED BY <1>4 DEF Seen

LEMMA ElsewhereChanges ==
  ASSUME TypeInv, OtherDeviceChanges \/ OtherDeviceChecks \/ OtherDeviceCreates
  PROVE  changes' # 0
  <1>1. changes \in Nat /\ (elsewhere \cup raced # {} => changes # 0)
    BY SessionAssumption DEF TypeInv, TypeOK
  <1>2. CASE OtherDeviceChanges \/ OtherDeviceChecks
    <2>1. changes' = changes + 1
      BY <1>2 DEF OtherDeviceChanges, OtherDeviceChecks
    <2>2. QED BY <1>1, <2>1
  <1>3. CASE OtherDeviceCreates
    BY <1>1, <1>3 DEF OtherDeviceCreates
  <1>4. QED BY <1>2, <1>3

LEMMA NextFollowInv == TypeInv /\ TypeInv' /\ FollowInv /\ [Next]_vars => FollowInv'
  <1> SUFFICES ASSUME TypeInv, TypeInv', FollowInv, [Next]_vars PROVE FollowInv'
    OBVIOUS
  <1>0. TypeOK /\ TypeOK' /\ CloudOK'
    <2>1. TypeOK /\ TypeOK'
      BY DEF TypeInv
    <2>2. TypeOK' => CloudOK'
      BY DEF TypeOK, CloudOK, Listeners
    <2>3. QED BY <2>1, <2>2
  <1>1. CASE UNCHANGED <<user, listeners, followed, snapshots, documents, writes,
                         highlightedKeywords, trapped, changes>>
    <2>1. Seen' = Seen
      BY <1>1 DEF Seen
    <2>2. QED BY <1>1, <2>1 DEF FollowInv
  <1>2. CASE trapped'
    BY <1>2 DEF FollowInv
  <1>3. CASE PressAdd \/ PressDelete
    <2>1. /\ user \in Users /\ Notify
          /\ writes' = [writes EXCEPT ![user] = Append(@, highlightedKeywords')]
          /\ UNCHANGED <<user, listeners, followed, documents, changes, trapped>>
          /\ highlightedKeywords' \in Keywords
      BY <1>0, <1>3, EditType
    <2>2. writes \in [Users -> Seq(Keywords)]
      BY <1>0 DEF TypeOK
    <2>3. \A u \in Users \ {user} : Seen'[u] = Seen[u]
      BY <2>1, <2>2 DEF Seen
    <2>4. ASSUME Seen[user].exists PROVE highlightedKeywords' = Seen'[user].keywords
      <3>1. documents[user] \in Documents
        BY <1>0, <2>1 DEF TypeOK
      <3>2. documents[user].exists
        BY <2>1, <2>4, <3>1 DEF Seen, Documents
      <3>3. /\ writes'[user] = Append(writes[user], highlightedKeywords')
            /\ writes'[user] # <<>> /\ Last(writes'[user]) = highlightedKeywords'
        BY <2>1, <2>2, AppendedProperties
      <3>4. Seen'[user] = [documents[user] EXCEPT !.keywords = highlightedKeywords']
        BY <2>1, <3>2, <3>3 DEF Seen
      <3>5. QED BY <3>1, <3>4 DEF Documents
    <2>5. QED BY <1>0, <2>1, <2>3, <2>4, FollowOwnDocument
  <1>4. CASE SignInAnswered
    <2>1. UNCHANGED <<documents, writes, changes, listeners, trapped,
                      highlightedKeywords>> /\ Notify
      BY <1>4 DEF SignInAnswered, cloudVars, wordVars
    <2>2. CASE UNCHANGED <<user, followed>>
      <3>1. Seen' = Seen
        BY <2>1, <2>2 DEF Seen
      <3>2. snapshots' = snapshots
        BY <1>0, <2>1, <3>1, NotifyNothing
      <3>3. QED BY <2>1, <2>2, <3>1, <3>2 DEF FollowInv
    <2>3. CASE followed' = FALSE
      BY <2>3 DEF FollowInv
    <2>4. QED BY <1>4, <2>2, <2>3 DEF SignInAnswered
  <1>5. CASE UserCreated
    BY <1>0, <1>5, FollowGetUserData DEF UserCreated
  <1>6. CASE UserChecked
    <2>1. UNCHANGED <<documents, writes, changes, user, highlightedKeywords>>
      BY <1>6 DEF UserChecked, cloudVars, wordVars
    <2>2. CASE GetUserData("login")
      BY <1>0, <2>1, <2>2, FollowGetUserData
    <2>3. CASE UNCHANGED <<listenVars, trapped>>
      BY <1>1, <2>1, <2>3 DEF listenVars
    <2>4. QED BY <1>6, <2>2, <2>3 DEF UserChecked
  <1>7. CASE LoadedThenGetUserData
    BY <1>0, <1>7, FollowGetUserData DEF LoadedThenGetUserData, LoadEnded, authVars
  <1>8. CASE SnapshotArrives /\ ~trapped /\ ~trapped'
    <2>1. UNCHANGED <<documents, writes, changes, user, listeners, followed>>
      BY <1>8 DEF SnapshotArrives, authVars, cloudVars
    <2>2. Seen' = Seen
      BY <2>1 DEF Seen
    <2>3. snapshots \in Seq(Snapshots) /\ snapshots # <<>> /\ snapshots' = Tail(snapshots)
      BY <1>0, <1>8 DEF SnapshotArrives, TypeOK, Snapshots
    <2>4. /\ Head(snapshots).document.exists
          /\ highlightedKeywords' = Head(snapshots).document.keywords
      BY <1>8 DEF SnapshotArrives
    <2>5. /\ snapshots' = <<>> => Last(snapshots) = Head(snapshots)
          /\ snapshots' # <<>> => Last(snapshots') = Last(snapshots)
      BY <2>3, LastOfTail
    <2>6. QED BY <1>8, <2>1, <2>2, <2>3, <2>4, <2>5 DEF FollowInv
  <1>9. CASE ListenerFails
    <2>1. UNCHANGED <<documents, writes, changes, user, trapped, followed, snapshots,
                      highlightedKeywords>>
      BY <1>9 DEF ListenerFails, authVars, cloudVars, wordVars
    <2>2. Seen' = Seen
      BY <2>1 DEF Seen
    <2>3. PICK i \in DOMAIN listeners :
             listeners' = [listeners EXCEPT ![i].active = FALSE]
      BY <1>9 DEF ListenerFails
    <2>4. /\ Len(listeners') = Len(listeners) /\ listeners' \in Seq(Listeners)
          /\ DOMAIN listeners' = DOMAIN listeners
      BY <1>0, <2>3, ListenersHaveUsers, LenProperties DEF CloudOK
    <2>5. ASSUME listeners # <<>>
          PROVE  /\ listeners' # <<>>
                 /\ Last(listeners').user = Last(listeners).user
                 /\ Last(listeners').active => Last(listeners).active
      <3>1. Len(listeners) \in DOMAIN listeners
        BY <1>0, <2>5, ListenersHaveUsers
      <3>2. \A j \in DOMAIN listeners : listeners[j] \in Listeners
        BY <1>0, ListenersHaveUsers, LenProperties, ElementOfSeq
      <3>3. /\ listeners'[Len(listeners)].user = listeners[Len(listeners)].user
            /\ listeners'[Len(listeners)].active => listeners[Len(listeners)].active
        BY <2>3, <3>1, <3>2 DEF Listeners
      <3>4. QED BY <2>4, <3>1, <3>3 DEF Last
    <2>6. QED BY <2>1, <2>2, <2>5 DEF FollowInv
  <1>10. CASE OtherDeviceChanges \/ OtherDeviceChecks \/ OtherDeviceCreates
    BY <1>0, <1>10, ElsewhereChanges DEF FollowInv, TypeInv
  <1>11. CASE WriteAnswered
    <2>1. UNCHANGED <<user, trapped, listeners, followed, highlightedKeywords, changes>>
          /\ Notify
      BY <1>11 DEF WriteAnswered, authVars, wordVars
    <2>2. CASE UNCHANGED errors
      <3>1. Seen' = Seen
        BY <1>0, <1>11, <2>2, AcceptedWriteIsSeen
      <3>2. QED BY <1>0, <2>1, <3>1, FollowOwnDocument
    <2>3. CASE UNCHANGED documents
      <3>1. user \in Users /\ writes' = [writes EXCEPT ![user] = Tail(@)]
            /\ writes \in [Users -> Seq(Keywords)]
        BY <1>0, <1>11 DEF WriteAnswered, TypeOK
      <3>2. \A u \in Users \ {user} : Seen'[u] = Seen[u]
        BY <2>1, <2>3, <3>1 DEF Seen
      <3>3. QED BY <1>0, <2>1, <3>2, FollowOwnDocument
    <2>4. QED BY <1>11, <2>2, <2>3 DEF WriteAnswered
  <1>12. CASE PressSignOut
    <2>1. UNCHANGED <<documents, writes, changes, listeners, followed, trapped,
                      highlightedKeywords>> /\ Notify
      BY <1>12 DEF PressSignOut, cloudVars, wordVars
    <2>2. CASE user' = user
      <3>1. Seen' = Seen
        BY <2>1, <2>2 DEF Seen
      <3>2. QED BY <1>0, <2>1, <2>2, <3>1, FollowOwnDocument
    <2>3. CASE user' = NoUser
      BY <2>3 DEF FollowInv
    <2>4. QED BY <1>12, <2>2, <2>3 DEF PressSignOut
  <1>13. QED
    BY <1>1, <1>2, <1>3, <1>4, <1>5, <1>6, <1>7, <1>8, <1>9, <1>10, <1>11, <1>12
       DEF Next, UserStep, CloudStep, vars, ViewDidAppear, LoadSubjectsAndRecordings,
           PressFacebookLogIn, FacebookAnswered, PressHighlightKeywords,
           PressDismissPopup, PressAddKeyword, PressAndTrap, OpenSettings, CloseSettings,
           LoadedThenSegue, LoadedForNobody, LoadFails, LoadEnded, authVars, pageVars,
           listenVars, cloudVars, wordVars, OffScreenVars

\* The listener of the signed-in user brings what the device sees.
THEOREM FollowInvariance == Spec => []FollowInv
  <1>1. Init => FollowInv
    BY DEF Init, FollowInv
  <1>2. QED BY <1>1, NextFollowInv, TypeInvariance, PTL DEF Spec

\* However sign-ins, edits, their answers and the snapshots of any number of
\* listeners interleave, the keywords end up being the signed-in user's.
THEOREM KeywordsAreTheUsersHolds == Spec => []KeywordsAreTheUsers
  <1>1. FollowInv => KeywordsAreTheUsers
    BY DEF FollowInv, KeywordsAreTheUsers
  <1>2. QED BY <1>1, FollowInvariance, PTL
-----------------------------------------------------------------------------
(* Signing in goes through stages, each with one thing under way, as long as *)
(* the student waits and nothing fails.                                      *)

NoLoads == loads["getUserData"] = 0 /\ loads["segue"] = 0

\* A user who stayed signed in.
Launching ==
    /\ user # NoUser /\ documents[user].exists /\ screen = "appearing"
    /\ logins = {} /\ NoLoads /\ snapshots = <<>>

LoadingAtStart ==
    /\ user # NoUser /\ documents[user].exists /\ screen = "signup"
    /\ logins = {} /\ snapshots = <<>>
    /\ loads["getUserData"] = 1 /\ loads["segue"] = 0

SignedOut ==
    /\ user = NoUser /\ ~OnHomePage
    /\ NoLoads /\ snapshots = <<>>
    /\ \/ logins = {}
       \/ screen # "facebook" /\ \E login \in logins : logins = {login} /\ login.call = "signIn"

LoggingIn ==
    /\ user # NoUser /\ screen = "signup"
    /\ NoLoads /\ snapshots = <<>>
    /\ \E login \in logins :
          logins = {login} /\ login.user = user /\ login.call \in {"check", "create"}

Reading ==
    /\ user # NoUser /\ documents[user].exists /\ screen = "signup"
    /\ logins = {} /\ NoLoads
    /\ snapshots # <<>> /\ Tail(snapshots) = <<>>
    /\ Head(snapshots).document.exists

LoadingAfterLogIn ==
    /\ user # NoUser /\ documents[user].exists /\ screen = "signup"
    /\ logins = {} /\ snapshots = <<>>
    /\ loads["getUserData"] = 0 /\ loads["segue"] = 1

AtHome ==
    /\ user # NoUser /\ documents[user].exists /\ OnHomePage
    /\ logins = {} /\ loads["getUserData"] = 0
    /\ \A n \in DOMAIN snapshots :
          snapshots[n].document = [exists |-> TRUE, keywords |-> highlightedKeywords]
    /\ screen = "keywords" => rows = highlightedKeywords

ListenedExist == \A i \in DOMAIN listeners : documents[listeners[i].user].exists

Patient ==
    /\ ~trapped
    /\ ListenedExist
    /\ OnHomePage \/ NothingWritten
    /\ \/ Launching \/ LoadingAtStart \/ SignedOut \/ LoggingIn
       \/ Reading \/ LoadingAfterLogIn \/ AtHome

PatientInv == Undisturbed => Patient

LEMMA StageFacts ==
  ASSUME TypeOK, Patient
  PROVE  /\ OnHomePage => AtHome
         /\ screen = "appearing" => Launching \/ SignedOut
         /\ screen = "facebook" => SignedOut /\ logins = {}
         /\ (screen = "signup" /\ Settled) => SignedOut
         /\ Waiting("signIn") # {} => SignedOut
         /\ Waiting("check") \cup Waiting("create") # {} => LoggingIn
         /\ loads["getUserData"] > 0 => LoadingAtStart
         /\ loads["segue"] > 0 => LoadingAfterLogIn \/ AtHome
         /\ snapshots # <<>> => Reading \/ AtHome
         /\ user = NoUser => SignedOut
  <1>1. Launching => /\ screen = "appearing" /\ ~OnHomePage /\ user # NoUser
                     /\ logins = {} /\ NoLoads /\ snapshots = <<>>
    BY DEF Launching, OnHomePage
  <1>2. LoadingAtStart => /\ screen = "signup" /\ ~OnHomePage /\ user # NoUser
                          /\ logins = {} /\ loads["segue"] = 0 /\ snapshots = <<>>
                          /\ loads["getUserData"] = 1
    BY DEF LoadingAtStart, OnHomePage
  <1>3. SignedOut => /\ ~OnHomePage /\ NoLoads /\ snapshots = <<>>
                     /\ Waiting("check") \cup Waiting("create") = {}
                     /\ screen = "facebook" => logins = {}
    BY DEF SignedOut, Waiting
  <1>4. LoggingIn => /\ screen = "signup" /\ ~OnHomePage /\ user # NoUser
                     /\ NoLoads /\ snapshots = <<>> /\ logins # {}
                     /\ Waiting("signIn") = {}
    BY DEF LoggingIn, OnHomePage, Waiting
  <1>5. Reading => /\ screen = "signup" /\ ~OnHomePage /\ user # NoUser
                   /\ logins = {} /\ NoLoads /\ snapshots # <<>>
    BY DEF Reading, OnHomePage
  <1>6. LoadingAfterLogIn => /\ screen = "signup" /\ ~OnHomePage /\ user # NoUser
                             /\ logins = {} /\ snapshots = <<>>
                             /\ loads["getUserData"] = 0 /\ loads["segue"] = 1
    BY DEF LoadingAfterLogIn, OnHomePage
  <1>7. AtHome => /\ OnHomePage /\ screen \notin {"signup", "appearing", "facebook"}
                  /\ user # NoUser /\ logins = {} /\ loads["getUserData"] = 0
    BY DEF AtHome, OnHomePage
  <1>8. logins = {} => \A call : Waiting(call) = {}
    BY DEF Waiting
  <1>9. NoLoads => ~(loads["getUserData"] > 0) /\ ~(loads["segue"] > 0)
    BY DEF NoLoads
  <1>10. Settled => logins = {} /\ snapshots = <<>> /\ NoLoads
    BY DEF Settled, NoLoads, TypeOK
  <1>11. loads["getUserData"] = 0 => ~(loads["getUserData"] > 0)
    OBVIOUS
  <1>12. loads["segue"] = 0 => ~(loads["segue"] > 0)
    OBVIOUS
  <1>13. NoLoads => loads["getUserData"] # 1 /\ loads["segue"] # 1
    BY DEF NoLoads
  <1>14. CASE Launching
    BY <1>1, <1>8, <1>9, <1>14
  <1>15. CASE LoadingAtStart
    BY <1>2, <1>8, <1>10, <1>12, <1>13, <1>15
  <1>16. CASE SignedOut
    BY <1>3, <1>8, <1>9, <1>16
  <1>17. CASE LoggingIn
    BY <1>4, <1>9, <1>10, <1>17
  <1>18. CASE Reading
    BY <1>5, <1>8, <1>9, <1>10, <1>18
  <1>19. CASE LoadingAfterLogIn
    BY <1>6, <1>8, <1>10, <1>11, <1>13, <1>19
  <1>20. CASE AtHome
    BY <1>7, <1>8, <1>11, <1>20
  <1>21. QED
    BY <1>14, <1>15, <1>16, <1>17, <1>18, <1>19, <1>20 DEF Patient

LEMMA UndisturbedBefore ==
  ASSUME TypeInv, Next, Undisturbed'
  PROVE  /\ Undisturbed /\ ~Fail
         /\ ~OtherDeviceChanges /\ ~OtherDeviceChecks /\ ~OtherDeviceCreates
  <1>1. errors \in Nat /\ changes \in Nat /\ hurried \in BOOLEAN
    BY SessionAssumption, TypedRest DEF TypeInv
  <1>2. ~Fail
    <2>1. SUFFICES ASSUME errors' = errors + 1 PROVE FALSE
      BY DEF Fail
    <2>2. errors' = 0
      BY DEF Undisturbed
    <2>3. QED BY <1>1, <2>1, <2>2
  <1>3. ~OtherDeviceChanges /\ ~OtherDeviceChecks /\ ~OtherDeviceCreates
    BY ElsewhereChanges DEF Undisturbed
  <1>4. UNCHANGED <<errors, changes>>
    BY <1>2, <1>3
       DEF Next, UserStep, CloudStep, ViewDidAppear, PressFacebookLogIn, FacebookAnswered,
           PressHighlightKeywords, PressDismissPopup, PressAddKeyword, PressAdd,
           PressDelete, UpdateKeywords, PressAndTrap, OpenSettings, CloseSettings,
           PressSignOut, SignInAnswered, UserChecked, UserCreated, LoadedThenGetUserData,
           LoadedThenSegue, LoadedForNobody, LoadFails, LoadEnded, SnapshotArrives,
           ListenerFails, WriteAnswered, OffScreenVars, cloudVars, wordVars
  <1>5. hurried => hurried'
    BY <1>2, <1>3
       DEF Next, UserStep, CloudStep, ViewDidAppear, PressFacebookLogIn, FacebookAnswered,
           PressHighlightKeywords, PressDismissPopup, PressAddKeyword, PressAdd,
           PressDelete, PressAndTrap, OpenSettings, CloseSettings,
           PressSignOut, SignInAnswered, UserChecked, UserCreated, LoadedThenGetUserData,
           LoadedThenSegue, LoadedForNobody, LoadFails, LoadEnded, SnapshotArrives,
           ListenerFails, WriteAnswered, Touch
  <1>6. QED BY <1>2, <1>3, <1>4, <1>5 DEF Undisturbed

\* The listener attached for a user who has a document brings it, and nothing else
\* is on its way.
LEMMA PatientGetUserData ==
  ASSUME TypeOK, TypeOK', ListenedExist, NEW path \in {"start", "login"},
         GetUserData(path), user # NoUser, ~trapped,
         UNCHANGED <<user, writes, screen>>, screen = "signup",
         NothingWritten, snapshots = <<>>,
         \A i \in DOMAIN listeners : documents'[listeners[i].user] = documents[listeners[i].user],
         documents'[user].exists, logins' = {}, NoLoads'
  PROVE  Patient'
  <1>1. PICK new \in NewSnapshots :
           /\ listeners' = Append(listeners,
                              [user |-> user, path |-> path, active |-> TRUE])
           /\ snapshots' = Append(snapshots \o new,
                              [path |-> path, document |-> Seen'[user]])
           /\ trapped' = trapped
    BY DEF GetUserData
  <1>2. CloudOK /\ CloudOK'
    <2>1. TypeOK' => CloudOK'
      BY DEF TypeOK, CloudOK, Listeners
    <2>2. QED BY <2>1, TypedCloud
  <1>3. user \in Users
    BY DEF TypeOK
  <1>4. \A u \in Users : writes[u] = <<>> /\ Seen[u] = documents[u] /\ Seen'[u] = documents'[u]
    BY DEF NothingWritten, Seen
  <1>5. Changed = {}
    BY <1>4, ListenersHaveUsers DEF Changed
  <1>6. new = <<>>
    BY <1>2, <1>5, NewSnapshotsProperties
  <1>7. snapshots' = <<[path |-> path, document |-> documents'[user]]>>
    BY <1>1, <1>3, <1>4, <1>6
  <1>8. snapshots' # <<>> /\ Tail(snapshots') = <<>> /\ Head(snapshots').document = documents'[user]
    BY <1>7
  <1>9. Reading'
    BY <1>8 DEF Reading
  <1>10. ListenedExist'
    <2>1. listeners \in Seq(Listeners) /\ DOMAIN listeners = 1 .. Len(listeners)
          /\ Len(listeners) \in Nat
      BY ListenersHaveUsers, LenProperties
    <2>2. \A i \in DOMAIN listeners : documents'[listeners[i].user].exists
      BY DEF ListenedExist
    <2>3. DOMAIN listeners' = DOMAIN listeners \cup {Len(listeners) + 1}
      BY <1>1, <2>1
    <2>4. \A i \in DOMAIN listeners : listeners'[i] = listeners[i]
      BY <1>1, <2>1
    <2>5. listeners'[Len(listeners) + 1].user = user
      BY <1>1, <2>1
    <2>6. QED BY <2>2, <2>3, <2>4, <2>5 DEF ListenedExist
  <1>11. NothingWritten'
    BY DEF NothingWritten
  <1>12. QED BY <1>1, <1>9, <1>10, <1>11 DEF Patient

\* Nothing happens to what the device sees while nobody waits for a write.
LEMMA PatientSameSeen ==
  ASSUME TypeOK, TypeOK', NothingWritten, UNCHANGED <<documents, writes>>, Notify
  PROVE  snapshots' = snapshots
  <1>1. \A u \in Users : Seen'[u] = Seen[u]
    BY DEF NothingWritten, Seen
  <1>2. CloudOK'
    <2>1. TypeOK' => CloudOK'
      BY DEF TypeOK, CloudOK, Listeners
    <2>2. QED BY <2>1
  <1>3. QED BY <1>1, <1>2, NotifyNothing

LEMMA NextPatient ==
  ASSUME TypeInv, TypeInv', CreateInv, Patient, Next, Undisturbed'
  PROVE  Patient'
  <1>0. TypeOK /\ TypeOK' /\ CloudOK /\ CloudOK'
    <2>1. TypeOK /\ TypeOK'
      BY DEF TypeInv
    <2>2. TypeOK' => CloudOK'
      BY DEF TypeOK, CloudOK, Listeners
    <2>3. QED BY <2>1, <2>2, TypedCloud
  <1>a. /\ Undisturbed /\ ~Fail
        /\ ~OtherDeviceChanges /\ ~OtherDeviceChecks /\ ~OtherDeviceCreates
    BY <1>0, UndisturbedBefore
  <1>b. ~trapped /\ ListenedExist /\ (OnHomePage \/ NothingWritten)
    BY DEF Patient
  <1>c. ~hurried'
    BY DEF Undisturbed
  <1>1. CASE \/ PressHighlightKeywords \/ PressDismissPopup \/ PressAddKeyword
             \/ OpenSettings \/ CloseSettings
    <2>1. /\ UNCHANGED <<user, logins, loads, listeners, snapshots, documents, trapped,
                         highlightedKeywords>>
          /\ screen' \in {"home", "keywords", "settings"}
          /\ OnHomePage
      BY <1>1 DEF PressHighlightKeywords, PressDismissPopup, PressAddKeyword,
                  OpenSettings, CloseSettings, OffScreenVars, wordVars, authVars,
                  listenVars, cloudVars, OnHomePage
    <2>2. screen' = "keywords" => rows' = highlightedKeywords'
      BY <1>1 DEF PressHighlightKeywords, PressDismissPopup, PressAddKeyword,
                  OpenSettings, CloseSettings, ReloadData
    <2>3. AtHome
      BY <1>0, <2>1, StageFacts
    <2>4. AtHome' /\ OnHomePage' /\ ListenedExist'
      BY <1>b, <2>1, <2>2, <2>3 DEF AtHome, OnHomePage, ListenedExist
    <2>5. QED BY <1>b, <2>1, <2>4 DEF Patient
  <1>2. CASE PressFacebookLogIn
    <2>1. /\ UNCHANGED <<user, logins, loads, listeners, snapshots, documents, writes,
                         trapped>>
          /\ screen = "signup" /\ screen' = "facebook" /\ Settled
      BY <1>2, <1>c DEF PressFacebookLogIn, Touch, wordVars, listenVars, cloudVars
    <2>2. SignedOut /\ logins = {}
      BY <1>0, <2>1, StageFacts DEF Settled
    <2>3. SignedOut' /\ ListenedExist' /\ NothingWritten'
      BY <1>b, <2>1, <2>2 DEF SignedOut, NoLoads, OnHomePage, ListenedExist, NothingWritten
    <2>4. QED BY <1>b, <2>1, <2>3 DEF Patient
  <1>3. CASE FacebookAnswered
    <2>1. /\ UNCHANGED <<user, loads, listeners, snapshots, documents, writes, trapped>>
          /\ screen = "facebook" /\ screen' = "appearing"
          /\ \/ \E u \in Users :
                   logins' = logins \cup {[id |-> logInCalls, user |-> u, call |-> "signIn"]}
             \/ UNCHANGED logins
      BY <1>3 DEF FacebookAnswered, listenVars, cloudVars
    <2>2. SignedOut /\ logins = {}
      BY <1>0, <2>1, StageFacts
    <2>3. logins' = {} \/ \E login \in logins' : logins' = {login} /\ login.call = "signIn"
      BY <2>1, <2>2
    <2>4. SignedOut' /\ ListenedExist' /\ NothingWritten'
      BY <1>b, <2>1, <2>2, <2>3
         DEF SignedOut, NoLoads, OnHomePage, ListenedExist, NothingWritten
    <2>5. QED BY <1>b, <2>1, <2>4 DEF Patient
  <1>4. CASE ViewDidAppear
    <2>1. /\ UNCHANGED <<user, logins, listeners, snapshots, documents, writes>>
          /\ screen = "appearing" /\ screen' = "signup"
      BY <1>4 DEF ViewDidAppear, authVars, listenVars, cloudVars
    <2>2. ListenedExist' /\ NothingWritten /\ NothingWritten'
      BY <1>b, <2>1 DEF ListenedExist, NothingWritten, OnHomePage
    <2>3. CASE Launching
      <3>1. /\ trapped' = trapped
            /\ loads' = [loads EXCEPT !["getUserData"] = @ + 1]
        BY <1>4, <2>3 DEF ViewDidAppear, LoadSubjectsAndRecordings, Launching
      <3>2. loads'["getUserData"] = 1 /\ loads'["segue"] = 0
        BY <1>0, <2>3, <3>1, TypedRest DEF Launching, NoLoads
      <3>3. LoadingAtStart'
        BY <2>1, <2>3, <3>2 DEF Launching, LoadingAtStart
      <3>4. QED BY <1>b, <2>2, <3>1, <3>3 DEF Patient
    <2>4. CASE SignedOut
      <3>1. UNCHANGED <<loads, trapped>>
        BY <1>4, <2>4 DEF ViewDidAppear, SignedOut
      <3>2. SignedOut'
        BY <2>1, <2>4, <3>1 DEF SignedOut, NoLoads, OnHomePage
      <3>3. QED BY <1>b, <2>2, <3>1, <3>2 DEF Patient
    <2>5. QED BY <1>0, <2>1, <2>3, <2>4, StageFacts
  <1>5. CASE PressAdd \/ PressDelete
    <2>1. /\ user \in Users /\ Notify /\ highlightedKeywords' \in Keywords
          /\ writes' = [writes EXCEPT ![user] = Append(@, highlightedKeywords')]
          /\ UNCHANGED <<user, screen, logins, loads, listeners, documents, trapped>>
      BY <1>0, <1>5, EditType
    <2>2. screen = "keywords" /\ Settled
      BY <1>5, <1>c DEF PressAdd, PressDelete, Touch
    <2>3. AtHome
      BY <1>0, <2>2, StageFacts DEF OnHomePage
    <2>4. rows' = highlightedKeywords'
      BY <1>5, <2>2, <2>3 DEF PressAdd, PressDelete, ReloadData, AtHome
    <2>5. writes \in [Users -> Seq(Keywords)] /\ documents[user] \in Documents
      BY <1>0, <2>1 DEF CloudOK
    <2>6. /\ writes'[user] # <<>> /\ Last(writes'[user]) = highlightedKeywords'
          /\ \A u \in Users \ {user} : writes'[u] = writes[u]
      BY <2>1, <2>5, AppendedProperties
    <2>7. /\ \A u \in Users \ {user} : Seen'[u] = Seen[u]
          /\ Seen'[user] = [documents[user] EXCEPT !.keywords = highlightedKeywords']
      BY <2>1, <2>3, <2>6 DEF Seen, AtHome
    <2>8. Seen'[user] = [exists |-> TRUE, keywords |-> highlightedKeywords']
      BY <2>3, <2>5, <2>7 DEF AtHome, Documents
    <2>9. PICK new \in NewSnapshots : snapshots' = snapshots \o new
      BY <2>1 DEF Notify
    <2>10. /\ new \in Seq(Snapshots)
           /\ \A n \in DOMAIN new : \E i \in Changed :
                 new[n].document = Seen'[listeners[i].user]
      BY <1>0, NewSnapshotsProperties
    <2>11. \A i \in Changed : listeners[i].user = user
      BY <1>0, <2>7, ListenersHaveUsers DEF Changed
    <2>12. snapshots' = new
      BY <2>2, <2>9, <2>10, ConcatEmptySeq DEF Settled
    <2>13. \A n \in DOMAIN snapshots' :
              snapshots'[n].document = [exists |-> TRUE, keywords |-> highlightedKeywords']
      BY <2>8, <2>10, <2>11, <2>12
    <2>14. AtHome' /\ OnHomePage' /\ ListenedExist'
      BY <1>b, <2>1, <2>3, <2>4, <2>13 DEF AtHome, OnHomePage, ListenedExist
    <2>15. QED BY <1>b, <2>1, <2>14 DEF Patient
  <1>6. CASE PressAndTrap
    <2>1. AtHome /\ screen = "keywords"
      BY <1>0, <1>6, StageFacts DEF PressAndTrap, OnHomePage
    <2>2. QED BY <1>6, <2>1 DEF PressAndTrap, AtHome
  <1>7. CASE PressSignOut
    <2>1. /\ UNCHANGED <<logins, listeners, loads, trapped, documents, writes>>
          /\ user' = NoUser /\ screen' = "appearing"
          /\ Settled /\ NothingWritten /\ Notify
      BY <1>7, <1>a, <1>c DEF PressSignOut, Touch, cloudVars
    <2>2. snapshots' = snapshots
      BY <1>0, <2>1, PatientSameSeen
    <2>3. logins = {} /\ snapshots = <<>> /\ NoLoads
      BY <1>0, <2>1 DEF Settled, NoLoads, TypeOK
    <2>4. SignedOut'
      BY <2>1, <2>2, <2>3 DEF SignedOut, NoLoads, OnHomePage
    <2>5. ListenedExist' /\ NothingWritten'
      BY <1>b, <2>1 DEF ListenedExist, NothingWritten
    <2>6. QED BY <1>b, <2>1, <2>4, <2>5 DEF Patient
  <1>8. CASE SignInAnswered
    <2>1. /\ UNCHANGED <<documents, writes, listeners, screen, loads, trapped>>
          /\ screen # "appearing" /\ Notify
      BY <1>8 DEF SignInAnswered, cloudVars, pageVars
    <2>2. PICK login \in Waiting("signIn") :
             /\ user' = login.user
             /\ logins' = (logins \ {login}) \cup {[login EXCEPT !.call = "check"]}
      BY <1>8, <1>a DEF SignInAnswered
    <2>3. login \in [id : 1 .. MaxLogIns, user : Users,
                     call : {"signIn", "check", "create"}] /\ login \in logins
      BY <1>0, <2>2 DEF TypeOK, Waiting
    <2>4. SignedOut
      BY <1>0, <2>2, StageFacts
    <2>5. screen = "signup" /\ logins = {login}
      <3>1. screen \in {"signup", "facebook"}
        BY <1>0, <2>1, <2>4, TypedRest DEF SignedOut, OnHomePage, Screens
      <3>2. QED BY <2>3, <2>4, <3>1 DEF SignedOut
    <2>6. NothingWritten
      BY <1>b, <2>4 DEF SignedOut
    <2>7. snapshots' = snapshots
      BY <1>0, <2>1, <2>6, PatientSameSeen
    <2>8. user' # NoUser
      BY <2>2, <2>3, SessionAssumption
    <2>9. \E other \in logins' :
             logins' = {other} /\ other.user = user' /\ other.call \in {"check", "create"}
      <3> DEFINE other == [login EXCEPT !.call = "check"]
      <3>1. other.user = user' /\ other.call = "check"
        BY <2>2, <2>3
      <3>2. logins' = {other}
        BY <2>2, <2>5
      <3> HIDE DEF other
      <3>3. QED BY <3>1, <3>2
    <2>10. LoggingIn'
      BY <2>1, <2>4, <2>5, <2>7, <2>8, <2>9 DEF LoggingIn, SignedOut, NoLoads
    <2>11. ListenedExist' /\ NothingWritten'
      BY <1>b, <2>1, <2>6 DEF ListenedExist, NothingWritten
    <2>12. QED BY <1>b, <2>1, <2>10, <2>11 DEF Patient
  <1>9. CASE UserChecked
    <2>1. UNCHANGED <<documents, writes, user, screen, loads>>
      BY <1>9 DEF UserChecked, cloudVars, pageVars
    <2>2. PICK login \in Waiting("check") :
             \/ /\ UserExists(login.user)
                /\ logins' = logins \ {login}
                /\ GetUserData("login")
             \/ /\ logins' = (logins \ {login}) \cup {[login EXCEPT !.call = "create"]}
                /\ UNCHANGED <<listenVars, trapped>>
      BY <1>9, <1>a DEF UserChecked
    <2>3. LoggingIn /\ NothingWritten
      <3>1. LoggingIn
        BY <1>0, <2>2, StageFacts
      <3>2. ~OnHomePage
        BY <3>1 DEF LoggingIn, OnHomePage
      <3>3. QED BY <1>b, <3>1, <3>2
    <2>4. logins = {login} /\ login.user = user /\ login.call = "check"
      BY <2>2, <2>3 DEF LoggingIn, Waiting
    <2>5. CASE UserExists(login.user) /\ logins' = logins \ {login} /\ GetUserData("login")
      <3>1. documents[user].exists
        BY <2>4, <2>5 DEF UserExists, Waiting
      <3>2. logins' = {} /\ NoLoads'
        BY <2>1, <2>3, <2>4, <2>5 DEF LoggingIn, NoLoads
      <3>3. /\ user # NoUser /\ screen = "signup" /\ snapshots = <<>>
            /\ "login" \in {"start", "login"}
        BY <2>3 DEF LoggingIn
      <3>4. QED
        BY <1>0, <1>b, <2>1, <2>3, <2>5, <3>1, <3>2, <3>3, PatientGetUserData
    <2>6. CASE /\ logins' = (logins \ {login}) \cup {[login EXCEPT !.call = "create"]}
               /\ UNCHANGED <<listenVars, trapped>>
      <3> DEFINE other == [login EXCEPT !.call = "create"]
      <3>0. login \in [id : 1 .. MaxLogIns, user : Users,
                       call : {"signIn", "check", "create"}]
        BY <1>0, <2>2 DEF TypeOK, Waiting
      <3>1. other.user = user /\ other.call = "create"
        BY <2>4, <3>0
      <3>2. logins' = {other}
        BY <2>4, <2>6
      <3> HIDE DEF other
      <3>3. LoggingIn'
        BY <2>1, <2>3, <2>6, <3>1, <3>2 DEF LoggingIn, NoLoads, listenVars
      <3>4. ListenedExist' /\ NothingWritten'
        BY <1>b, <2>1, <2>3, <2>6 DEF ListenedExist, NothingWritten, listenVars
      <3>5. QED BY <1>b, <2>6, <3>3, <3>4 DEF Patient
    <2>7. QED BY <2>2, <2>5, <2>6
  <1>10. CASE UserCreated
    <2>1. UNCHANGED <<writes, user, screen, loads>> /\ GetUserData("login")
      BY <1>10 DEF UserCreated, pageVars
    <2>2. PICK login \in Waiting("create") :
             /\ logins' = logins \ {login}
             /\ documents' = [documents EXCEPT ![login.user] =
                                 [exists |-> TRUE, keywords |-> DefaultKeywords]]
      BY <1>10, <1>a DEF UserCreated
    <2>3. LoggingIn /\ NothingWritten
      <3>1. LoggingIn
        BY <1>0, <2>2, StageFacts
      <3>2. ~OnHomePage
        BY <3>1 DEF LoggingIn, OnHomePage
      <3>3. QED BY <1>b, <3>1, <3>2
    <2>4. logins = {login} /\ login.user = user
      BY <2>2, <2>3 DEF LoggingIn, Waiting
    <2>5. user # NoUser /\ user \in Users /\ screen = "signup" /\ snapshots = <<>>
          /\ "login" \in {"start", "login"}
      BY <1>0, <2>3, TypedRest DEF LoggingIn
    <2>6. documents'[user].exists
      BY <1>0, <2>2, <2>4, <2>5 DEF CloudOK
    <2>7. \A i \in DOMAIN listeners :
             documents'[listeners[i].user] = documents[listeners[i].user]
      <3>1. ~documents[user].exists
        BY <1>a, <2>2, <2>4 DEF CreateInv, TypeInv, Undisturbed
      <3>2. \A i \in DOMAIN listeners : listeners[i].user # user
        BY <1>b, <3>1 DEF ListenedExist
      <3>3. QED BY <1>0, <2>2, <2>4, <3>2, ListenersHaveUsers DEF CloudOK
    <2>8. logins' = {} /\ NoLoads'
      BY <2>1, <2>2, <2>3, <2>4 DEF LoggingIn, NoLoads
    <2>9. QED
      BY <1>0, <1>b, <2>1, <2>3, <2>5, <2>6, <2>7, <2>8, PatientGetUserData
  <1>11. CASE LoadedThenGetUserData
    <2>1. /\ UNCHANGED <<documents, writes, user, logins, screen>>
          /\ loads["getUserData"] > 0
          /\ loads' = [loads EXCEPT !["getUserData"] = @ - 1]
          /\ GetUserData("start")
      BY <1>11 DEF LoadedThenGetUserData, LoadEnded, authVars, cloudVars
    <2>2. LoadingAtStart /\ NothingWritten
      <3>1. LoadingAtStart
        BY <1>0, <2>1, StageFacts
      <3>2. ~OnHomePage
        BY <3>1 DEF LoadingAtStart, OnHomePage
      <3>3. QED BY <1>b, <3>1, <3>2
    <2>3. NoLoads' /\ logins' = {}
      BY <1>0, <2>1, <2>2, TypedRest DEF LoadingAtStart, NoLoads
    <2>4. /\ user # NoUser /\ screen = "signup" /\ snapshots = <<>>
          /\ documents[user].exists /\ "start" \in {"start", "login"}
      BY <2>2 DEF LoadingAtStart
    <2>5. QED BY <1>0, <1>b, <2>1, <2>2, <2>3, <2>4, PatientGetUserData
  <1>12. CASE LoadedThenSegue
    <2>1. /\ UNCHANGED <<documents, writes, user, logins, highlightedKeywords, rows,
                         listeners, snapshots, trapped>>
          /\ loads["segue"] > 0
          /\ loads' = [loads EXCEPT !["segue"] = @ - 1]
          /\ SegueToHomePage
      BY <1>12 DEF LoadedThenSegue, LoadEnded, authVars, cloudVars, listenVars, wordVars
    <2>2. loads'["getUserData"] = loads["getUserData"]
      BY <1>0, <2>1, TypedRest
    <2>3. CASE LoadingAfterLogIn
      <3>1. screen' = "home"
        BY <2>1, <2>3 DEF LoadingAfterLogIn, SegueToHomePage
      <3>2. AtHome' /\ OnHomePage'
        BY <2>1, <2>2, <2>3, <3>1 DEF LoadingAfterLogIn, AtHome, OnHomePage
      <3>3. QED BY <1>b, <2>1, <3>2 DEF Patient, ListenedExist
    <2>4. CASE AtHome
      <3>1. screen' = screen
        BY <2>1, <2>4 DEF AtHome, OnHomePage, SegueToHomePage
      <3>2. AtHome' /\ OnHomePage'
        BY <2>1, <2>2, <2>4, <3>1 DEF AtHome, OnHomePage
      <3>3. QED BY <1>b, <2>1, <3>2 DEF Patient, ListenedExist
    <2>5. QED BY <1>0, <2>1, <2>3, <2>4, StageFacts
  <1>13. CASE LoadedForNobody
    <2>1. PICK after \in {"getUserData", "segue"} : user = NoUser /\ loads[after] > 0
      BY <1>0, <1>13, TypedRest DEF LoadedForNobody, LoadEnded
    <2>2. SignedOut
      BY <1>0, <2>1, StageFacts
    <2>3. QED BY <2>1, <2>2 DEF SignedOut, NoLoads
  <1>14. CASE SnapshotArrives
    <2>1. /\ UNCHANGED <<documents, writes, user, logins, listeners, rows>>
          /\ snapshots # <<>> /\ snapshots' = Tail(snapshots)
      BY <1>14 DEF SnapshotArrives, authVars, cloudVars
    <2>2. snapshots \in Seq(Snapshots)
      BY <1>0 DEF TypeOK, Snapshots
    <2>3. user # NoUser /\ documents[user].exists /\ Head(snapshots).document.exists
      <3>1. CASE Reading
        BY <3>1 DEF Reading
      <3>2. CASE AtHome
        <4>1. 1 \in DOMAIN snapshots /\ Head(snapshots) = snapshots[1]
          BY <2>1, <2>2, EmptySeq, LenProperties
        <4>2. QED BY <3>2, <4>1 DEF AtHome
      <3>3. QED BY <1>0, <2>1, <3>1, <3>2, StageFacts
    <2>4. /\ highlightedKeywords' = Head(snapshots).document.keywords
          /\ trapped' = trapped
          /\ \/ SegueToHomePage /\ UNCHANGED loads
             \/ loads' = [loads EXCEPT !["segue"] = @ + 1] /\ UNCHANGED screen
      BY <1>14, <2>3 DEF SnapshotArrives, LoadSubjectsAndRecordings
    <2>5. ListenedExist'
      BY <1>b, <2>1 DEF ListenedExist
    <2>6. loads'["getUserData"] = loads["getUserData"]
      BY <1>0, <2>4, TypedRest
    <2>7. CASE Reading
      <3>1. snapshots' = <<>> /\ screen = "signup"
        BY <2>1, <2>7 DEF Reading
      <3>2. CASE SegueToHomePage /\ UNCHANGED loads
        <4>1. screen' = "home"
          BY <3>1, <3>2 DEF SegueToHomePage
        <4>2. AtHome' /\ OnHomePage'
          BY <2>1, <2>3, <2>6, <2>7, <3>1, <4>1 DEF Reading, NoLoads, AtHome, OnHomePage
        <4>3. QED BY <1>b, <2>4, <2>5, <4>2 DEF Patient
      <3>3. CASE loads' = [loads EXCEPT !["segue"] = @ + 1] /\ UNCHANGED screen
        <4>1. loads'["segue"] = 1 /\ loads'["getUserData"] = 0
          BY <1>0, <2>7, <3>3, TypedRest DEF Reading, NoLoads
        <4>2. LoadingAfterLogIn'
          BY <2>1, <2>3, <2>7, <3>1, <3>3, <4>1 DEF Reading, LoadingAfterLogIn
        <4>3. NothingWritten'
          BY <1>b, <2>1, <3>1 DEF NothingWritten, OnHomePage
        <4>4. QED BY <1>b, <2>4, <2>5, <4>2, <4>3 DEF Patient
      <3>4. QED BY <2>4, <3>2, <3>3
    <2>8. CASE AtHome
      <3>1. screen' = screen
        BY <2>4, <2>8 DEF AtHome, OnHomePage, SegueToHomePage
      <3>2. Head(snapshots) = snapshots[1] /\ 1 \in DOMAIN snapshots
        BY <2>1, <2>2, EmptySeq, LenProperties
      <3>3. highlightedKeywords' = highlightedKeywords
        BY <2>4, <2>8, <3>2 DEF AtHome
      <3>4. \A n \in DOMAIN snapshots' :
               n + 1 \in DOMAIN snapshots /\ snapshots'[n] = snapshots[n + 1]
        <4>1. /\ Tail(snapshots) \in Seq(Snapshots)
              /\ Len(Tail(snapshots)) = Len(snapshots) - 1
              /\ \A n \in 1 .. Len(Tail(snapshots)) : Tail(snapshots)[n] = snapshots[n + 1]
          BY <2>1, <2>2, HeadTailProperties
        <4>2. DOMAIN Tail(snapshots) = 1 .. Len(Tail(snapshots))
              /\ DOMAIN snapshots = 1 .. Len(snapshots) /\ Len(snapshots) \in Nat
          BY <2>2, <4>1, LenProperties
        <4>3. QED BY <2>1, <4>1, <4>2
      <3>5. AtHome' /\ OnHomePage'
        BY <2>1, <2>6, <2>8, <3>1, <3>3, <3>4 DEF AtHome, OnHomePage
      <3>6. QED BY <1>b, <2>4, <2>5, <3>5 DEF Patient
    <2>9. QED BY <1>0, <2>1, <2>7, <2>8, StageFacts
  <1>15. CASE WriteAnswered
    <2>1. /\ UNCHANGED <<user, logins, screen, loads, trapped, listeners,
                         highlightedKeywords, rows>>
          /\ user # NoUser /\ writes[user] # <<>> /\ Notify
      BY <1>15 DEF WriteAnswered, authVars, pageVars, wordVars
    <2>2. AtHome /\ OnHomePage /\ user \in Users
      <3>1. user \in Users
        BY <1>0, <2>1, TypedRest
      <3>2. OnHomePage
        BY <1>b, <2>1, <3>1 DEF NothingWritten
      <3>3. QED BY <1>0, <3>1, <3>2, StageFacts
    <2>3. UNCHANGED errors
      BY <1>15, <1>a DEF WriteAnswered
    <2>4. snapshots' = snapshots
      <3>1. Seen' = Seen
        BY <1>0, <1>15, <2>3, AcceptedWriteIsSeen
      <3>2. QED BY <1>0, <2>1, <3>1, NotifyNothing
    <2>5. \A u \in Users : documents'[u].exists = documents[u].exists
      <3>1. \/ UNCHANGED documents
            \/ documents' = [documents EXCEPT ![user].keywords = Head(writes[user])]
        BY <1>15 DEF WriteAnswered
      <3>2. QED BY <1>0, <2>2, <3>1, SetKeywordsKeepsDocuments
    <2>6. AtHome' /\ OnHomePage'
      BY <2>1, <2>2, <2>4, <2>5 DEF AtHome, OnHomePage
    <2>7. ListenedExist'
      BY <1>0, <1>b, <2>1, <2>5, ListenersHaveUsers DEF ListenedExist
    <2>8. QED BY <1>b, <2>1, <2>6, <2>7 DEF Patient
  <1>16. ~LoadFails /\ ~ListenerFails
    BY <1>a DEF LoadFails, ListenerFails
  <1>17. QED
    BY <1>a, <1>1, <1>2, <1>3, <1>4, <1>5, <1>6, <1>7, <1>8, <1>9, <1>10, <1>11, <1>12,
       <1>13, <1>14, <1>15, <1>16 DEF Next, UserStep, CloudStep

LEMMA NextPatientInv ==
  TypeInv /\ TypeInv' /\ CreateInv /\ PatientInv /\ [Next]_vars => PatientInv'
  <1> SUFFICES ASSUME TypeInv, TypeInv', CreateInv, PatientInv, [Next]_vars, Undisturbed'
               PROVE  Patient'
    BY DEF PatientInv
  <1>1. CASE Next
    <2>1. Undisturbed
      BY <1>1, UndisturbedBefore
    <2>2. QED BY <1>1, <2>1, NextPatient DEF PatientInv
  <1>2. CASE UNCHANGED vars
    <2>1. UNCHANGED <<user, screen, logins, loads, listeners, snapshots, documents, writes,
                      highlightedKeywords, rows, trapped, hurried, changes, errors>>
      BY <1>2 DEF vars, authVars, pageVars, listenVars, cloudVars, wordVars
    <2>2. Patient
      BY <2>1 DEF PatientInv, Undisturbed
    <2>3. QED
      BY <2>1, <2>2
         DEF Patient, ListenedExist, OnHomePage, NothingWritten, Launching, LoadingAtStart,
             SignedOut, LoggingIn, Reading, LoadingAfterLogIn, AtHome, NoLoads
  <1>3. QED BY <1>1, <1>2

LEMMA InitPatientInv == Init => PatientInv
  <1> SUFFICES ASSUME Init PROVE Patient
    BY DEF PatientInv
  <1>1. /\ NoLoads /\ NothingWritten /\ ~trapped
        /\ logins = {} /\ snapshots = <<>> /\ screen = "appearing"
    BY DEF Init, NoLoads, NothingWritten
  <1>2. ListenedExist
    BY DEF Init, ListenedExist
  <1>3. CASE user \in Registered
    <2>1. user # NoUser /\ documents[user].exists
      BY <1>3, SessionAssumption DEF Init
    <2>2. QED BY <1>1, <1>2, <2>1 DEF Patient, Launching
  <1>4. CASE user = NoUser
    BY <1>1, <1>2, <1>4 DEF Patient, SignedOut, OnHomePage
  <1>5. QED BY <1>3, <1>4 DEF Init

\* While the student waits and nothing fails, one thing is under way at a time.
THEOREM PatientInvariance == Spec => []PatientInv
  BY InitPatientInv, NextPatientInv, TypeInvariance, CreateInvariance, PTL DEF Spec

\* A student who is alone and waits never meets a trap, however often they sign
\* out and in again and whichever of the listeners left behind answer.
THEOREM NoTrapWhenPatientHolds == Spec => []NoTrapWhenPatient
  <1>1. PatientInv => NoTrapWhenPatient
    BY DEF PatientInv, Patient, NoTrapWhenPatient
  <1>2. QED BY <1>1, PatientInvariance, PTL

\* The home page is never open to nobody.
THEOREM HomeHasUserHolds == Spec => []HomeHasUser
  <1>1. TypeInv /\ PatientInv => HomeHasUser
    BY StageFacts DEF TypeInv, PatientInv, HomeHasUser, AtHome
  <1>2. QED BY <1>1, TypeInvariance, PatientInvariance, PTL

\* A press on a row of the popup deletes the keyword that is shown there.
THEOREM RowsShowKeywordsHolds == Spec => []RowsShowKeywords
  <1>1. TypeInv /\ PatientInv => RowsShowKeywords
    BY StageFacts DEF TypeInv, PatientInv, RowsShowKeywords, AtHome, OnHomePage
  <1>2. QED BY <1>1, TypeInvariance, PatientInvariance, PTL

-----------------------------------------------------------------------------
(* Progress: a stage of the sign-in is left only by its handler, and only    *)
(* for a later one.                                                          *)

Checking == LoggingIn /\ Waiting("check") # {}
Creating == LoggingIn /\ Waiting("create") # {}

Arriving == Launching \/ LoadingAtStart \/ Checking \/ Creating \/ Reading \/ LoadingAfterLogIn

LEMMA StagesApart ==
  /\ Launching => ~(LoadingAtStart \/ Checking \/ Creating \/ Reading \/ LoadingAfterLogIn)
  /\ LoadingAtStart => ~(Checking \/ Creating \/ Reading \/ LoadingAfterLogIn)
  /\ Checking => ~(Creating \/ Reading \/ LoadingAfterLogIn)
  /\ Creating => ~(Reading \/ LoadingAfterLogIn)
  /\ Reading => ~LoadingAfterLogIn
  <1>1. Launching => screen = "appearing"
    BY DEF Launching
  <1>2. LoadingAtStart => /\ screen = "signup" /\ logins = {} /\ snapshots = <<>>
                          /\ loads["segue"] = 0
    BY DEF LoadingAtStart
  <1>3. LoggingIn => screen = "signup" /\ logins # {}
    BY DEF LoggingIn
  <1>4. Checking => ~Creating
    BY DEF Checking, Creating, LoggingIn, Waiting
  <1>5. Reading => screen = "signup" /\ logins = {} /\ snapshots # <<>>
    BY DEF Reading
  <1>6. LoadingAfterLogIn => /\ screen = "signup" /\ logins = {} /\ snapshots = <<>>
                             /\ loads["segue"] = 1
    BY DEF LoadingAfterLogIn
  <1>7. QED BY <1>1, <1>2, <1>3, <1>4, <1>5, <1>6 DEF Checking, Creating

LEMMA ArrivingFacts ==
  ASSUME TypeOK, Patient, user # NoUser, ~OnHomePage
  PROVE  Arriving
  <1>1. ~SignedOut /\ ~AtHome
    BY DEF SignedOut, AtHome
  <1>2. LoggingIn => Checking \/ Creating
    BY DEF LoggingIn, Checking, Creating, Waiting
  <1>3. QED BY <1>1, <1>2 DEF Patient, Arriving

\* What the stages have in common.
LEMMA ArrivingHasUser ==
  Arriving => user # NoUser /\ ~OnHomePage
  BY DEF Arriving, Checking, Creating, Launching, LoadingAtStart, LoggingIn, Reading,
         LoadingAfterLogIn, OnHomePage

\* With no call under way, it is a snapshot that is awaited.
LEMMA OnlyReadingIsLeft ==
  ASSUME Patient', logins' = {}, NoLoads', user' # NoUser, screen' = "signup"
  PROVE  Reading'
  <1>1. ~Launching' /\ ~SignedOut' /\ ~LoggingIn' /\ ~AtHome'
    BY DEF Launching, SignedOut, LoggingIn, AtHome, OnHomePage
  <1>2. ~LoadingAtStart' /\ ~LoadingAfterLogIn'
    BY DEF LoadingAtStart, LoadingAfterLogIn, NoLoads
  <1>3. QED BY <1>1, <1>2 DEF Patient

LEMMA ArrivingStep ==
  ASSUME TypeInv, TypeOK, TypeOK', Patient, Patient', Arriving, Next, Undisturbed'
  PROVE  \/ Launching /\ LoadingAtStart'
         \/ LoadingAtStart /\ Reading'
         \/ Checking /\ (Creating' \/ Reading')
         \/ Creating /\ Reading'
         \/ Reading /\ (LoadingAfterLogIn' \/ OnHomePage')
         \/ LoadingAfterLogIn /\ OnHomePage'
  <1>1. user # NoUser /\ ~OnHomePage /\ NothingWritten /\ ~SignedOut
        /\ screen \notin {"home", "keywords", "settings"}
    BY ArrivingHasUser DEF Patient, OnHomePage, SignedOut
  <1>2. /\ ~Fail /\ ~hurried'
        /\ ~OtherDeviceChanges /\ ~OtherDeviceChecks /\ ~OtherDeviceCreates
    BY UndisturbedBefore DEF Undisturbed
  <1>3. /\ ~PressHighlightKeywords /\ ~PressDismissPopup /\ ~PressAddKeyword /\ ~PressAdd
        /\ ~PressDelete /\ ~PressAndTrap /\ ~OpenSettings /\ ~CloseSettings /\ ~PressSignOut
    BY <1>1 DEF PressHighlightKeywords, PressDismissPopup, PressAddKeyword, PressAdd,
                PressDelete, PressAndTrap, OpenSettings, CloseSettings, PressSignOut
  <1>4. ~PressFacebookLogIn
    <2>1. PressFacebookLogIn => screen = "signup" /\ Settled
      BY <1>2 DEF PressFacebookLogIn, Touch
    <2>2. QED BY <1>1, <2>1, StageFacts
  <1>5. ~FacebookAnswered /\ ~SignInAnswered
    BY <1>1, StageFacts DEF FacebookAnswered, SignInAnswered
  <1>6. ~LoadedForNobody /\ ~LoadFails /\ ~ListenerFails
    BY <1>1, <1>2 DEF LoadedForNobody, LoadFails, ListenerFails
  <1>7. ~WriteAnswered
    <2>1. user \in Users
      BY <1>1, TypedRest
    <2>2. QED BY <1>1, <2>1 DEF WriteAnswered, NothingWritten
  <1>8. CASE ViewDidAppear
    <2>1. Launching
      BY <1>1, <1>8, StageFacts DEF ViewDidAppear
    <2>2. /\ UNCHANGED <<user, logins, snapshots, documents>> /\ screen' = "signup"
          /\ loads' = [loads EXCEPT !["getUserData"] = @ + 1]
      BY <1>1, <1>8 DEF ViewDidAppear, LoadSubjectsAndRecordings, authVars, listenVars, cloudVars
    <2>3. loads'["getUserData"] = 1 /\ loads'["segue"] = 0
      BY <2>1, <2>2, TypedRest DEF Launching, NoLoads
    <2>4. QED BY <2>1, <2>2, <2>3 DEF Launching, LoadingAtStart
  <1>9. CASE LoadedThenGetUserData
    <2>1. /\ UNCHANGED <<user, logins, screen>> /\ loads["getUserData"] > 0
          /\ loads' = [loads EXCEPT !["getUserData"] = @ - 1]
      BY <1>9 DEF LoadedThenGetUserData, LoadEnded, authVars
    <2>2. LoadingAtStart
      BY <2>1, StageFacts
    <2>3. NoLoads' /\ logins' = {} /\ user' # NoUser /\ screen' = "signup"
      BY <2>1, <2>2, TypedRest DEF LoadingAtStart, NoLoads
    <2>4. QED BY <2>2, <2>3, OnlyReadingIsLeft
  <1>10. CASE UserChecked
    <2>1. UNCHANGED <<user, screen, loads>>
      BY <1>10 DEF UserChecked, pageVars
    <2>2. PICK login \in Waiting("check") :
             \/ logins' = logins \ {login}
             \/ logins' = (logins \ {login}) \cup {[login EXCEPT !.call = "create"]}
      BY <1>10 DEF UserChecked
    <2>3. LoggingIn /\ Checking
      BY <2>2, StageFacts DEF Checking
    <2>4. logins = {login}
      BY <2>2, <2>3 DEF LoggingIn, Waiting
    <2>5. NoLoads' /\ user' # NoUser /\ screen' = "signup"
      BY <2>1, <2>3 DEF LoggingIn, NoLoads
    <2>6. CASE logins' = logins \ {login}
      BY <2>3, <2>4, <2>5, <2>6, OnlyReadingIsLeft
    <2>7. CASE logins' = (logins \ {login}) \cup {[login EXCEPT !.call = "create"]}
      <3> DEFINE other == [login EXCEPT !.call = "create"]
      <3>1. login \in [id : 1 .. MaxLogIns, user : Users, call : {"signIn", "check", "create"}]
        BY <2>2 DEF TypeOK, Waiting
      <3>2. other.call = "create" /\ logins' = {other}
        BY <2>4, <2>7, <3>1
      <3> HIDE DEF other
      <3>3. LoggingIn'
        BY <2>5, <3>2
           DEF Patient, OnHomePage, Launching, LoadingAtStart, SignedOut, Reading,
               LoadingAfterLogIn, AtHome
      <3>4. Creating'
        BY <3>2, <3>3 DEF Creating, Waiting
      <3>5. QED BY <2>3, <3>4
    <2>8. QED BY <2>2, <2>6, <2>7
  <1>11. CASE UserCreated
    <2>1. UNCHANGED <<user, screen, loads>>
      BY <1>11 DEF UserCreated, pageVars
    <2>2. PICK login \in Waiting("create") : logins' = logins \ {login}
      BY <1>11 DEF UserCreated
    <2>3. LoggingIn /\ Creating
      BY <2>2, StageFacts DEF Creating
    <2>4. logins = {login}
      BY <2>2, <2>3 DEF LoggingIn, Waiting
    <2>5. logins' = {} /\ NoLoads' /\ user' # NoUser /\ screen' = "signup"
      BY <2>1, <2>2, <2>3, <2>4 DEF LoggingIn, NoLoads
    <2>6. QED BY <2>3, <2>5, OnlyReadingIsLeft
  <1>12. CASE SnapshotArrives
    <2>1. /\ UNCHANGED <<user, logins, documents>> /\ snapshots # <<>>
          /\ snapshots' = Tail(snapshots)
      BY <1>12 DEF SnapshotArrives, authVars, cloudVars
    <2>2. Reading
      BY <1>1, <2>1, StageFacts DEF AtHome
    <2>3. \/ SegueToHomePage
          \/ loads' = [loads EXCEPT !["segue"] = @ + 1] /\ UNCHANGED screen
      BY <1>12, <1>1, <2>2 DEF SnapshotArrives, LoadSubjectsAndRecordings, Reading
    <2>4. CASE SegueToHomePage
      BY <2>2, <2>4 DEF Reading, SegueToHomePage, OnHomePage
    <2>5. CASE loads' = [loads EXCEPT !["segue"] = @ + 1] /\ UNCHANGED screen
      <3>1. loads'["getUserData"] = 0 /\ loads'["segue"] = 1
        BY <2>2, <2>5, TypedRest DEF Reading, NoLoads
      <3>2. QED BY <2>1, <2>2, <2>5, <3>1 DEF Reading, LoadingAfterLogIn
    <2>6. QED BY <2>3, <2>4, <2>5
  <1>13. CASE LoadedThenSegue
    <2>1. loads["segue"] > 0 /\ SegueToHomePage
      BY <1>13 DEF LoadedThenSegue, LoadEnded
    <2>2. LoadingAfterLogIn
      BY <1>1, <2>1, StageFacts DEF AtHome
    <2>3. QED BY <2>1, <2>2 DEF LoadingAfterLogIn, SegueToHomePage, OnHomePage
  <1>14. QED
    BY <1>2, <1>3, <1>4, <1>5, <1>6, <1>7, <1>8, <1>9, <1>10, <1>11, <1>12, <1>13
       DEF Next, UserStep, CloudStep

ProgressInv == TypeInv /\ CreateInv /\ PatientInv
AtStage(stage) == stage /\ Undisturbed
Arrived == OnHomePage \/ ~Undisturbed

LEMMA StagesAdvance ==
  ASSUME ProgressInv, ProgressInv', [Next]_vars
  PROVE  /\ AtStage(Launching) => (AtStage(Launching) \/ AtStage(LoadingAtStart) \/ Arrived)'
         /\ AtStage(LoadingAtStart) => (AtStage(LoadingAtStart) \/ AtStage(Reading) \/ Arrived)'
         /\ AtStage(Checking) =>
               (AtStage(Checking) \/ AtStage(Creating) \/ AtStage(Reading) \/ Arrived)'
         /\ AtStage(Creating) => (AtStage(Creating) \/ AtStage(Reading) \/ Arrived)'
         /\ AtStage(Reading) => (AtStage(Reading) \/ AtStage(LoadingAfterLogIn) \/ Arrived)'
         /\ AtStage(LoadingAfterLogIn) => (AtStage(LoadingAfterLogIn) \/ Arrived)'
  <1>1. CASE UNCHANGED vars
    <2>1. /\ Launching' = Launching /\ LoadingAtStart' = LoadingAtStart
          /\ Checking' = Checking /\ Creating' = Creating
          /\ Reading' = Reading /\ LoadingAfterLogIn' = LoadingAfterLogIn
      BY <1>1 DEF vars, authVars, pageVars, listenVars, cloudVars, Launching,
                  LoadingAtStart, Checking, Creating, Reading, LoadingAfterLogIn,
                  LoggingIn, Waiting, NoLoads
    <2>2. QED BY <2>1 DEF AtStage, Arrived
  <1>2. CASE Next
    <2>1. SUFFICES ASSUME Arriving, Undisturbed, Undisturbed' PROVE
            \/ Launching /\ LoadingAtStart'
            \/ LoadingAtStart /\ Reading'
            \/ Checking /\ (Creating' \/ Reading')
            \/ Creating /\ Reading'
            \/ Reading /\ (LoadingAfterLogIn' \/ OnHomePage')
            \/ LoadingAfterLogIn /\ OnHomePage'
      BY StagesApart DEF Arriving, AtStage, Arrived
    <2>2. Patient /\ Patient' /\ TypeInv /\ TypeOK /\ TypeOK'
      BY <2>1 DEF ProgressInv, PatientInv, TypeInv
    <2>3. QED BY <1>2, <2>1, <2>2, ArrivingStep
  <1>3. QED BY <1>1, <1>2

\* The handler a stage waits for leaves it.
LEMMA HandlersAdvance ==
  ASSUME ProgressInv, ProgressInv'
  PROVE  /\ AtStage(Launching) /\ <<Next /\ ViewDidAppear>>_vars =>
               (AtStage(LoadingAtStart) \/ Arrived)'
         /\ AtStage(LoadingAtStart) /\ <<Next /\ LoadedThenGetUserData>>_vars =>
               (AtStage(Reading) \/ Arrived)'
         /\ AtStage(Checking) /\ <<Next /\ UserChecked>>_vars =>
               (AtStage(Creating) \/ AtStage(Reading) \/ Arrived)'
         /\ AtStage(Creating) /\ <<Next /\ UserCreated>>_vars => (AtStage(Reading) \/ Arrived)'
         /\ AtStage(Reading) /\ <<Next /\ SnapshotArrives>>_vars =>
               (AtStage(LoadingAfterLogIn) \/ Arrived)'
         /\ AtStage(LoadingAfterLogIn) /\ <<Next /\ LoadedThenSegue>>_vars => Arrived'
  <1>1. SUFFICES ASSUME Next, Arriving, Undisturbed, Undisturbed' PROVE
          \/ Launching /\ LoadingAtStart'
          \/ LoadingAtStart /\ Reading'
          \/ Checking /\ (Creating' \/ Reading')
          \/ Creating /\ Reading'
          \/ Reading /\ (LoadingAfterLogIn' \/ OnHomePage')
          \/ LoadingAfterLogIn /\ OnHomePage'
    BY StagesApart DEF Arriving, AtStage, Arrived
  <1>2. Patient /\ Patient' /\ TypeInv /\ TypeOK /\ TypeOK'
    BY <1>1 DEF ProgressInv, PatientInv, TypeInv
  <1>3. QED BY <1>1, <1>2, ArrivingStep

\* Whoever is signed in gets from the sign-up page to the home page, if they wait
\* and nothing fails: each handler is fair, and is all that a stage waits for.
THEOREM SignedInReachesHomeHolds == FairSpec /\ []HandlersEnabled => SignedInReachesHome
  <1>1. ProgressInv /\ user # NoUser /\ ~OnHomePage /\ Undisturbed =>
          \/ AtStage(Launching) \/ AtStage(LoadingAtStart) \/ AtStage(Checking)
          \/ AtStage(Creating) \/ AtStage(Reading) \/ AtStage(LoadingAfterLogIn)
    BY ArrivingFacts DEF ProgressInv, TypeInv, PatientInv, AtStage, Arriving
  <1>2. Spec => []ProgressInv
    BY TypeInvariance, CreateInvariance, PatientInvariance, PTL DEF ProgressInv
  <1>3. ProgressInv /\ AtStage(Launching) => ~trapped /\ screen = "appearing"
    BY DEF ProgressInv, PatientInv, Patient, AtStage, Launching
  <1>4. ProgressInv /\ AtStage(LoadingAtStart) => ~trapped /\ loads["getUserData"] > 0
    BY DEF ProgressInv, PatientInv, Patient, AtStage, LoadingAtStart
  <1>5. ProgressInv /\ AtStage(Checking) => ~trapped /\ Waiting("check") # {}
    BY DEF ProgressInv, PatientInv, Patient, AtStage, Checking
  <1>6. ProgressInv /\ AtStage(Creating) => ~trapped /\ Waiting("create") # {}
    BY DEF ProgressInv, PatientInv, Patient, AtStage, Creating
  <1>7. ProgressInv /\ AtStage(Reading) => ~trapped /\ snapshots # <<>>
    BY DEF ProgressInv, PatientInv, Patient, AtStage, Reading
  <1>8. ProgressInv /\ AtStage(LoadingAfterLogIn) => ~trapped /\ loads["segue"] > 0
    BY DEF ProgressInv, PatientInv, Patient, AtStage, LoadingAfterLogIn
  <1>9. ProgressInv /\ ProgressInv' /\ [Next]_vars =>
          /\ AtStage(Launching) => (AtStage(Launching) \/ AtStage(LoadingAtStart) \/ Arrived)'
          /\ AtStage(LoadingAtStart) => (AtStage(LoadingAtStart) \/ AtStage(Reading) \/ Arrived)'
          /\ AtStage(Checking) =>
                (AtStage(Checking) \/ AtStage(Creating) \/ AtStage(Reading) \/ Arrived)'
          /\ AtStage(Creating) => (AtStage(Creating) \/ AtStage(Reading) \/ Arrived)'
          /\ AtStage(Reading) => (AtStage(Reading) \/ AtStage(LoadingAfterLogIn) \/ Arrived)'
          /\ AtStage(LoadingAfterLogIn) => (AtStage(LoadingAfterLogIn) \/ Arrived)'
    BY StagesAdvance
  <1>10. ProgressInv /\ ProgressInv' =>
          /\ AtStage(Launching) /\ <<Next /\ ViewDidAppear>>_vars =>
                (AtStage(LoadingAtStart) \/ Arrived)'
          /\ AtStage(LoadingAtStart) /\ <<Next /\ LoadedThenGetUserData>>_vars =>
                (AtStage(Reading) \/ Arrived)'
          /\ AtStage(Checking) /\ <<Next /\ UserChecked>>_vars =>
                (AtStage(Creating) \/ AtStage(Reading) \/ Arrived)'
          /\ AtStage(Creating) /\ <<Next /\ UserCreated>>_vars => (AtStage(Reading) \/ Arrived)'
          /\ AtStage(Reading) /\ <<Next /\ SnapshotArrives>>_vars =>
                (AtStage(LoadingAfterLogIn) \/ Arrived)'
          /\ AtStage(LoadingAfterLogIn) /\ <<Next /\ LoadedThenSegue>>_vars => Arrived'
    BY HandlersAdvance
  <1>11. QED
    BY <1>1, <1>2, <1>3, <1>4, <1>5, <1>6, <1>7, <1>8, <1>9, <1>10, PTL
       DEF FairSpec, Spec, Fairness, HandlersEnabled, SignedInReachesHome, Arrived
===============================================================================
