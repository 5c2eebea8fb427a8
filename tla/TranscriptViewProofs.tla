-------------------------- MODULE TranscriptViewProofs --------------------------
(***************************************************************************)
(* Theorems about TranscriptView, for transcripts of any length, any       *)
(* keywords and any way of lowering letters.                               *)
(***************************************************************************)
EXTENDS TranscriptView, FiniteSetTheorems, SequenceTheorems, TLAPS

-----------------------------------------------------------------------------
(* Least and greatest.                                                       *)

\* A set of naturals has a least element: the smallest of the intervals 0 .. x
\* is the one of the least x.
LEMMA LeastNatural ==
  ASSUME NEW S \in SUBSET Nat, S # {}
  PROVE  \E x \in S : \A y \in S : x <= y
  <1> DEFINE T == {0 .. x : x \in S}
  <1>1. T \subseteq FiniteSubsetsOf(Nat)
    <2>1. \A x \in Nat : IsFiniteSet(0 .. x) /\ 0 .. x \subseteq Nat
      BY FS_Interval
    <2>2. QED BY <2>1 DEF FiniteSubsetsOf
  <1>2. T # {}
    OBVIOUS
  <1>3. PICK X \in T : \A Y \in T : ~ (<<Y, X>> \in StrictSubsetOrdering(Nat))
    <2> HIDE DEF T
    <2>1. QED BY <1>1, <1>2, FS_StrictSubsetOrderingWellFounded, WFMin
  <1>4. PICK x \in S : X = 0 .. x
    OBVIOUS
  <1>5. ASSUME NEW y \in S, y < x PROVE FALSE
    <2>1. 0 .. y \in T /\ 0 .. y \subseteq 0 .. x /\ x \in 0 .. x /\ x \notin 0 .. y
      BY <1>5
    <2>2. <<0 .. y, 0 .. x>> \in StrictSubsetOrdering(Nat)
      BY <2>1 DEF StrictSubsetOrdering
    <2>3. QED BY <1>3, <1>4, <2>1, <2>2
  <1>6. QED BY <1>5

LEMMA MinIsLeast ==
  ASSUME NEW S \in SUBSET Nat, S # {}
  PROVE  Min(S) \in S /\ \A y \in S : Min(S) <= y
  BY LeastNatural DEF Min

LEMMA MinOfTwo ==
  ASSUME NEW a \in Int, NEW b \in Int
  PROVE  Min({a, b}) = IF a <= b THEN a ELSE b
  <1>1. \E x \in {a, b} : \A y \in {a, b} : x =< y
    OBVIOUS
  <1>2. Min({a, b}) \in {a, b} /\ \A y \in {a, b} : Min({a, b}) =< y
    BY <1>1 DEF Min
  <1>3. QED BY <1>2

LEMMA MaxOfTwo ==
  ASSUME NEW a \in Int, NEW b \in Int
  PROVE  Max({a, b}) = IF a <= b THEN b ELSE a
  <1>1. \E x \in {a, b} : \A y \in {a, b} : x >= y
    OBVIOUS
  <1>2. Max({a, b}) \in {a, b} /\ \A y \in {a, b} : Max({a, b}) >= y
    BY <1>1 DEF Max
  <1>3. QED BY <1>2

-----------------------------------------------------------------------------
(* Where the scroll view stands.                                             *)

ScrollInv ==
    /\ text \in Seq(Letters)
    /\ offset \in Int
    /\ isFollowingSpeech => scrolling = "still"
    /\ FollowingShowsNewest
    /\ ~isFollowingSpeech => 0 <= offset /\ (offset = 0 \/ offset <= Bottom(text))

LEMMA BottomIsNumber ==
  ASSUME NEW string \in Seq(Letters)
  PROVE  /\ Bottom(string) \in Int
         /\ IsTextOverflowing(string) <=> Bottom(string) > 0
  BY TranscriptAssumption, LenProperties DEF Bottom, IsTextOverflowing

\* A position within the text stays, or becomes the end of a shorter one.
LEMMA RelaidProperties ==
  ASSUME offset \in Int, NEW string \in Seq(Letters), NEW o \in Relaid(string)
  PROVE  /\ o \in Int
         /\ 0 <= offset => /\ 0 <= o
                           /\ o = 0 \/ o <= Bottom(string)
         /\ 0 <= offset /\ offset <= Bottom(string) => o = offset
         /\ offset = 0 => o = 0
         /\ o = offset \/ (0 <= o /\ (o = 0 \/ o <= Bottom(string)))
  <1>1. Bottom(string) \in Int
    BY BottomIsNumber
  <1>2. Min({offset, Bottom(string)}) \in Int
    BY <1>1, MinOfTwo
  <1>3. QED
    BY <1>1, <1>2, MinOfTwo, MaxOfTwo DEF Relaid

LEMMA RevisionsAreTexts ==
  ASSUME text \in Seq(Letters), NEW string \in Revisions
  PROVE  string \in Seq(Letters) /\ Len(string) <= MaxText
  <1> DEFINE kept == {text} \cup {SubSeq(text, 1, n) : n \in {Len(text) - 1} \cap Nat}
  <1>1. kept \subseteq Seq(Letters)
    BY LenProperties
  <1>2. string \in {Append(s, letter) : s \in kept, letter \in Letters} \cup kept
        /\ Len(string) <= MaxText
    BY DEF Revisions
  <1> HIDE DEF kept
  <1>3. QED BY <1>1, <1>2

LEMMA InitScrollInv == Init => ScrollInv
  BY TranscriptAssumption
     DEF Init, ScrollInv, FollowingShowsNewest, IsTextOverflowing, Bottom

LEMMA NextScrollInv == ScrollInv /\ [Next]_vars => ScrollInv'
  <1> SUFFICES ASSUME ScrollInv, [Next]_vars PROVE ScrollInv'
    OBVIOUS
  <1>b. /\ text \in Seq(Letters) /\ Bottom(text) \in Int
        /\ IsTextOverflowing(text) <=> Bottom(text) > 0
    BY BottomIsNumber DEF ScrollInv
  <1> USE DEF textVars, scrollVars, followVars
  <1>1. CASE RecognizedSpeech
    <2>1. PICK string \in Revisions : SetTextViewText(string)
      BY <1>1 DEF RecognizedSpeech
    <2>2. /\ string \in Seq(Letters) /\ Bottom(string) \in Int
          /\ IsTextOverflowing(string) <=> Bottom(string) > 0
      BY <1>b, <2>1, RevisionsAreTexts, BottomIsNumber
    <2>3. UNCHANGED <<scrolling, followVars>> /\ text' = string
      BY <1>1, <2>1 DEF RecognizedSpeech, SetTextViewText
    <2>4. CASE isFollowingSpeech /\ IsTextOverflowing(string)
      BY <2>1, <2>2, <2>3, <2>4 DEF SetTextViewText, ScrollInv, FollowingShowsNewest
    <2>5. CASE ~(isFollowingSpeech /\ IsTextOverflowing(string))
      <3>1. offset' \in Relaid(string)
        BY <2>1, <2>5 DEF SetTextViewText
      <3>2. offset' \in Int
            /\ (0 <= offset => 0 <= offset' /\ (offset' = 0 \/ offset' <= Bottom(string)))
        BY <2>2, <3>1, RelaidProperties DEF ScrollInv
      <3>3. QED BY <2>2, <2>3, <2>5, <3>2 DEF ScrollInv, FollowingShowsNewest
    <2>6. QED BY <2>4, <2>5
  <1>2. CASE KeywordsChange
    BY <1>2 DEF KeywordsChange, ScrollInv, FollowingShowsNewest
  <1>3. CASE DidBeginCheckingForCancellation
    BY <1>b, <1>3 DEF DidBeginCheckingForCancellation, ScrollInv, FollowingShowsNewest
  <1>4. CASE ScrollViewWillBeginDragging
    BY <1>b, <1>4 DEF ScrollViewWillBeginDragging, ScrollInv, FollowingShowsNewest
  <1>5. CASE Scroll
    <2>1. offset' \in 0 .. Max({0, Bottom(text)}) /\ ~isFollowingSpeech
      BY <1>5 DEF Scroll, ScrollInv
    <2>2. 0 <= offset' /\ (offset' = 0 \/ offset' <= Bottom(text)) /\ offset' \in Int
      BY <1>b, <2>1, MaxOfTwo
    <2>3. QED BY <1>5, <2>1, <2>2 DEF Scroll, ScrollInv, FollowingShowsNewest
  <1>6. CASE LiftFinger \/ ScrollViewDidEndDecelerating
    BY <1>6 DEF LiftFinger, ScrollViewDidEndDecelerating, ScrollInv,
                FollowingShowsNewest
  <1>7. CASE DidPressFollowSpeechButton
    BY <1>b, <1>7 DEF DidPressFollowSpeechButton, ScrollInv, FollowingShowsNewest
  <1>8. CASE UNCHANGED vars
    BY <1>8 DEF vars, ScrollInv, FollowingShowsNewest
  <1>9. QED
    BY <1>1, <1>2, <1>3, <1>4, <1>5, <1>6, <1>7, <1>8 DEF Next

\* While the page follows nothing scrolls by itself, and a position the student
\* has read back to lies within the text.
THEOREM ScrollInvariance == Spec => []ScrollInv
  BY InitScrollInv, NextScrollInv, PTL DEF Spec

\* While it follows, the page shows the newest words, for lectures of any length.
THEOREM FollowingShowsNewestHolds == Spec => []FollowingShowsNewest
  <1>1. ScrollInv => FollowingShowsNewest
    BY DEF ScrollInv
  <1>2. QED BY <1>1, ScrollInvariance, PTL

\* New words never move the text under a student who reads back.
THEOREM ReadingNotInterruptedHolds == Spec => ReadingNotInterrupted
  <1> DEFINE Kept == (~isFollowingSpeech /\ scrolling = "still" /\ ~isFollowingSpeech')
                        => (offset' = offset \/ Len(text') < Len(text))
  <1>1. ScrollInv /\ [Next]_vars => [Kept]_vars
    <2> SUFFICES ASSUME ScrollInv, Next, ~isFollowingSpeech, scrolling = "still",
                        ~isFollowingSpeech'
                 PROVE  offset' = offset \/ Len(text') < Len(text)
      OBVIOUS
    <2>1. CASE RecognizedSpeech
      <3>1. PICK string \in Revisions : SetTextViewText(string)
        BY <2>1 DEF RecognizedSpeech
      <3>2. text \in Seq(Letters) /\ string \in Seq(Letters)
        BY RevisionsAreTexts DEF ScrollInv
      <3>3. offset' \in Relaid(string) /\ text' = string
        BY <3>1 DEF SetTextViewText
      <3>4. CASE Len(string) < Len(text)
        BY <3>3, <3>4
      <3>5. CASE Len(text) <= Len(string)
        <4>1. Bottom(text) \in Int /\ Bottom(string) \in Int
              /\ Bottom(text) <= Bottom(string)
          BY <3>2, <3>5, BottomIsNumber, TranscriptAssumption, LenProperties DEF Bottom
        <4>2. offset \in Int /\ (offset = 0 \/ (0 <= offset /\ offset <= Bottom(string)))
          BY <4>1 DEF ScrollInv
        <4>3. QED BY <3>2, <3>3, <4>2, RelaidProperties
      <3>6. QED BY <3>2, <3>4, <3>5, LenProperties
    <2>2. CASE offset' = offset
      BY <2>2
    <2>3. QED
      BY <2>1, <2>2
         DEF Next, KeywordsChange, DidBeginCheckingForCancellation,
             ScrollViewWillBeginDragging, Scroll, LiftFinger,
             ScrollViewDidEndDecelerating, DidPressFollowSpeechButton, scrollVars
  <1>2. QED BY <1>1, ScrollInvariance, PTL DEF Spec, ReadingNotInterrupted

-----------------------------------------------------------------------------
(* What is highlighted.                                                      *)

LEMMA LowercasedProperties ==
  ASSUME NEW string \in Seq(Letters)
  PROVE  /\ Lowercased(string) \in Seq(Letters)
         /\ Len(Lowercased(string)) = Len(string)
         /\ \A i \in 1 .. Len(string) : Lowercased(string)[i] = Lower[string[i]]
  BY TranscriptAssumption, LenProperties DEF Lowercased

LEMMA OccurrenceProperties ==
  ASSUME NEW part \in Seq(Letters), NEW whole \in Seq(Letters), NEW i \in Nat
  PROVE  i \in Occurrences(part, whole) <=>
            /\ Len(part) >= 1 /\ i >= 1 /\ i + Len(part) - 1 <= Len(whole)
            /\ \A j \in 1 .. Len(part) : whole[i + j - 1] = part[j]
  <1>1. Len(part) \in Nat /\ Len(whole) \in Nat /\ (part # <<>> <=> Len(part) >= 1)
        /\ DOMAIN whole = 1 .. Len(whole)
    BY LenProperties, EmptySeq
  <1>2. ASSUME i >= 1, Len(part) >= 1, i + Len(part) - 1 <= Len(whole)
        PROVE  SubSeq(whole, i, i + Len(part) - 1) = part
                 <=> \A j \in 1 .. Len(part) : whole[i + j - 1] = part[j]
    <2> DEFINE sub == SubSeq(whole, i, i + Len(part) - 1)
    <2>1. \A k \in i .. i + Len(part) - 1 : whole[k] \in Letters
      BY <1>1, <1>2, ElementOfSeq
    <2>2. /\ sub \in Seq(Letters) /\ Len(sub) = Len(part)
          /\ \A j \in 1 .. Len(part) : sub[j] = whole[i + j - 1]
      <3>1. i + Len(part) - 1 \in Int /\ (i + Len(part) - 1) - i + 1 = Len(part)
            /\ i <= i + Len(part) - 1
        BY <1>1, <1>2
      <3>2. QED BY <1>1, <2>1, <3>1, SubSeqProperties
    <2> HIDE DEF sub
    <2>3. (\A j \in 1 .. Len(part) : sub[j] = part[j]) => sub = part
      BY <2>2, SeqEqual
    <2>4. QED BY <2>2, <2>3 DEF sub
  <1>3. QED BY <1>1, <1>2 DEF Occurrences

LEMMA SentenceProperties ==
  ASSUME NEW string \in Seq(Letters), NEW s \in Sentences(string)
  PROVE  /\ s.first \in 1 .. Len(string) /\ s.last \in 1 .. Len(string)
         /\ s.first <= s.last
         /\ StringOf(s, string) \in Seq(Letters)
         /\ Len(StringOf(s, string)) = s.last - s.first + 1
         /\ \A j \in 1 .. s.last - s.first + 1 :
               /\ StringOf(s, string)[j] = string[s.first + j - 1]
               /\ string[s.first + j - 1] # Stop
  <1>1. DOMAIN string = 1 .. Len(string) /\ Len(string) \in Nat
    BY LenProperties
  <1>2. /\ s.first \in 1 .. Len(string) /\ s.last \in 1 .. Len(string)
        /\ s.first <= s.last
        /\ \A i \in s.first .. s.last : string[i] # Stop
    BY <1>1 DEF Sentences
  <1>3. \A k \in s.first .. s.last : string[k] \in Letters
    BY <1>1, <1>2, ElementOfSeq
  <1>4. /\ SubSeq(string, s.first, s.last) \in Seq(Letters)
        /\ Len(SubSeq(string, s.first, s.last)) = s.last - s.first + 1
        /\ \A j \in 1 .. s.last - s.first + 1 :
              SubSeq(string, s.first, s.last)[j] = string[s.first + j - 1]
    BY <1>2, <1>3, SubSeqProperties
  <1>5. \A j \in 1 .. s.last - s.first + 1 : s.first + j - 1 \in s.first .. s.last
    BY <1>2
  <1>6. \A j \in 1 .. s.last - s.first + 1 : string[s.first + j - 1] # Stop
    BY <1>2, <1>5
  <1>7. QED BY <1>2, <1>4, <1>6 DEF StringOf

\* The range found for a sentence holds the sentence's words, wherever it is.
LEMMA RangeOfProperties ==
  ASSUME NEW string \in Seq(Letters), NEW s \in Sentences(string)
  PROVE  \E first \in 1 .. Len(string) :
            /\ RangeOf(s, string) = first .. first + s.last - s.first
            /\ first + s.last - s.first <= Len(string)
            /\ first \in Occurrences(StringOf(s, string), string)
            /\ first <= s.first /\ (first = 1 => s.first = 1)
            /\ \A j \in 1 .. s.last - s.first + 1 :
                  string[first + j - 1] = string[s.first + j - 1]
  <1> DEFINE words == StringOf(s, string)
             places == {i \in Occurrences(words, string) : i = 1 => s.first = 1}
             first == Min(places)
  <1>1. /\ s.first \in 1 .. Len(string) /\ s.last \in 1 .. Len(string)
        /\ s.first <= s.last /\ Len(string) \in Nat
        /\ words \in Seq(Letters) /\ Len(words) = s.last - s.first + 1
        /\ \A j \in 1 .. s.last - s.first + 1 : words[j] = string[s.first + j - 1]
    BY SentenceProperties, LenProperties
  <1>2. s.first \in Occurrences(words, string)
    <2> HIDE DEF words
    <2>1. /\ s.first \in Nat /\ s.first >= 1 /\ Len(words) >= 1
          /\ s.first + Len(words) - 1 <= Len(string)
      BY <1>1
    <2>2. \A j \in 1 .. Len(words) : string[s.first + j - 1] = words[j]
      BY <1>1
    <2>3. QED BY <1>1, <2>1, <2>2, OccurrenceProperties
  <1>3. Occurrences(words, string) \subseteq Nat
    BY LenProperties DEF Occurrences
  <1>4. first \in places /\ \A i \in places : first <= i
    <2>1. places \in SUBSET Nat /\ places # {}
      BY <1>2, <1>3
    <2> HIDE DEF places
    <2>2. QED BY <2>1, MinIsLeast
  <1>5. RangeOf(s, string) = first .. first + s.last - s.first
    BY DEF RangeOf
  <1> HIDE DEF first
  <1>6. first \in Occurrences(words, string) /\ first \in Nat
    BY <1>3, <1>4
  <1>7. /\ first >= 1 /\ first + Len(words) - 1 <= Len(string)
        /\ \A j \in 1 .. Len(words) : string[first + j - 1] = words[j]
    <2> HIDE DEF words
    <2>1. QED BY <1>1, <1>6, OccurrenceProperties
  <1>8. first <= s.first /\ (first = 1 => s.first = 1)
    BY <1>2, <1>4
  <1> HIDE DEF words, places
  <1>9. /\ first \in 1 .. Len(string)
        /\ first + s.last - s.first <= Len(string)
        /\ \A j \in 1 .. s.last - s.first + 1 :
              string[first + j - 1] = string[s.first + j - 1]
    BY <1>1, <1>6, <1>7
  <1>10. QED BY <1>5, <1>6, <1>8, <1>9 DEF words

MarkedInv ==
    /\ text \in Seq(Letters)
    /\ keywordsUsed \in KeywordSets
    /\ highlightedKeywords \in KeywordSets
    /\ marked = UNION KeywordSentenceRanges(text, keywordsUsed)

LEMMA InitMarkedInv == Init => MarkedInv
  <1> SUFFICES ASSUME Init PROVE MarkedInv
    OBVIOUS
  <1>1. text = <<>> /\ text \in Seq(Letters) /\ DOMAIN text = {}
    BY DEF Init
  <1>2. Sentences(text) = {}
    BY <1>1 DEF Sentences
  <1>3. UNION KeywordSentenceRanges(text, keywordsUsed) = {}
    BY <1>2 DEF KeywordSentenceRanges, SentencesWithKeyword
  <1>4. QED BY <1>1, <1>3 DEF Init, MarkedInv

LEMMA NextMarkedInv == MarkedInv /\ [Next]_vars => MarkedInv'
  <1> SUFFICES ASSUME MarkedInv, [Next]_vars PROVE MarkedInv'
    OBVIOUS
  <1>1. CASE RecognizedSpeech
    <2>1. PICK string \in Revisions : SetTextViewText(string)
      BY <1>1 DEF RecognizedSpeech
    <2>2. string \in Seq(Letters) /\ UNCHANGED highlightedKeywords
      BY <1>1, RevisionsAreTexts DEF MarkedInv, RecognizedSpeech
    <2>3. QED BY <2>1, <2>2 DEF SetTextViewText, MarkedInv
  <1>2. CASE UNCHANGED textVars /\ highlightedKeywords' \in KeywordSets
    BY <1>2 DEF MarkedInv, textVars
  <1>3. QED
    BY <1>1, <1>2
       DEF Next, KeywordsChange, DidBeginCheckingForCancellation,
           ScrollViewWillBeginDragging, Scroll, LiftFinger,
           ScrollViewDidEndDecelerating, DidPressFollowSpeechButton, vars, MarkedInv

\* The marks are those of the text shown and of the keywords it was shown with.
THEOREM MarkedInvariance == Spec => []MarkedInv
  BY InitMarkedInv, NextMarkedInv, PTL DEF Spec

\* A keyword of a sentence is said wherever the sentence's words are.
LEMMA KeywordAtRange ==
  ASSUME NEW string \in Seq(Letters), NEW s \in Sentences(string),
         NEW keyword \in Seq(Letters),
         NEW p \in Occurrences(Lowercased(keyword), Lowercased(StringOf(s, string))),
         NEW first \in 1 .. Len(string), first + s.last - s.first <= Len(string),
         \A j \in 1 .. s.last - s.first + 1 :
            string[first + j - 1] = string[s.first + j - 1]
  PROVE  /\ first + p - 1 \in Occurrences(Lowercased(keyword), Lowercased(string))
         /\ p \in Nat /\ p >= 1 /\ Len(keyword) >= 1
         /\ p + Len(keyword) - 1 <= s.last - s.first + 1
  <1> DEFINE words == StringOf(s, string)
  <1>1. /\ s.first \in 1 .. Len(string) /\ s.last \in 1 .. Len(string)
        /\ s.first <= s.last /\ Len(string) \in Nat /\ Len(keyword) \in Nat
        /\ words \in Seq(Letters) /\ Len(words) = s.last - s.first + 1
        /\ \A j \in 1 .. s.last - s.first + 1 : words[j] = string[s.first + j - 1]
    BY SentenceProperties, LenProperties
  <1> HIDE DEF words
  <1>2. p \in Occurrences(Lowercased(keyword), Lowercased(words))
    BY DEF words
  <1>3. /\ Lowercased(words) \in Seq(Letters) /\ Len(Lowercased(words)) = Len(words)
        /\ \A i \in 1 .. Len(words) : Lowercased(words)[i] = Lower[words[i]]
    BY <1>1, LowercasedProperties
  <1>4. /\ Lowercased(keyword) \in Seq(Letters)
        /\ Len(Lowercased(keyword)) = Len(keyword)
    BY LowercasedProperties
  <1>5. /\ Lowercased(string) \in Seq(Letters)
        /\ Len(Lowercased(string)) = Len(string)
        /\ \A i \in 1 .. Len(string) : Lowercased(string)[i] = Lower[string[i]]
    BY LowercasedProperties
  <1>6. p \in Nat
    BY <1>2, <1>3, LenProperties DEF Occurrences
  <1>7. /\ Len(keyword) >= 1 /\ p >= 1 /\ p + Len(keyword) - 1 <= Len(words)
        /\ \A j \in 1 .. Len(keyword) :
              Lowercased(words)[p + j - 1] = Lowercased(keyword)[j]
    BY <1>2, <1>3, <1>4, <1>6, OccurrenceProperties
  <1>8. ASSUME NEW j \in 1 .. Len(keyword)
        PROVE  Lowercased(string)[(first + p - 1) + j - 1] = Lowercased(keyword)[j]
    <2>1. p + j - 1 \in 1 .. Len(words)
      BY <1>1, <1>6, <1>7
    <2>2. Lowercased(words)[p + j - 1] = Lower[string[first + (p + j - 1) - 1]]
      BY <1>1, <1>3, <2>1
    <2>3. first + (p + j - 1) - 1 \in 1 .. Len(string)
          /\ first + (p + j - 1) - 1 = (first + p - 1) + j - 1
      <3>1. p + j - 1 \in Nat /\ 1 <= p + j - 1 /\ p + j - 1 <= s.last - s.first + 1
        BY <1>1, <1>6, <2>1
      <3>2. first \in Nat /\ 1 <= first /\ s.first \in Nat /\ s.last \in Nat
            /\ first + s.last - s.first <= Len(string) /\ j \in Nat
        BY <1>1
      <3> HIDE DEF words
      <3>3. QED BY <1>1, <1>6, <3>1, <3>2
    <2>4. QED BY <1>5, <1>7, <2>2, <2>3
  <1>9. first + p - 1 \in Nat /\ first + p - 1 >= 1
        /\ (first + p - 1) + Len(keyword) - 1 <= Len(string)
    BY <1>1, <1>6, <1>7
  <1>10. first + p - 1 \in Occurrences(Lowercased(keyword), Lowercased(string))
    BY <1>4, <1>5, <1>7, <1>8, <1>9, OccurrenceProperties
  <1>11. QED BY <1>1, <1>6, <1>7, <1>10

\* Nothing but words of sentences with a keyword is ever highlighted.
THEOREM HighlightsOnlyKeywordSentencesHolds == Spec => []HighlightsOnlyKeywordSentences
  <1>1. MarkedInv => HighlightsOnlyKeywordSentences
    <2> SUFFICES ASSUME MarkedInv, NEW position \in marked
                 PROVE  InKeywordSentence(position)
      BY DEF HighlightsOnlyKeywordSentences
    <2>1. PICK s \in SentencesWithKeyword(text, keywordsUsed) :
             position \in RangeOf(s, text)
      BY DEF MarkedInv, KeywordSentenceRanges
    <2>2. PICK keyword \in keywordsUsed :
             Occurrences(Lowercased(keyword), Lowercased(StringOf(s, text))) # {}
      BY <2>1 DEF SentencesWithKeyword
    <2>3. /\ s \in Sentences(text) /\ text \in Seq(Letters)
          /\ keyword \in Seq(Letters) /\ Len(keyword) \in Nat /\ Len(text) \in Nat
      BY <2>1, <2>2, TranscriptAssumption, LenProperties
         DEF SentencesWithKeyword, MarkedInv
    <2>4. PICK p : p \in Occurrences(Lowercased(keyword), Lowercased(StringOf(s, text)))
      BY <2>2
    <2>5. PICK first \in 1 .. Len(text) :
             /\ RangeOf(s, text) = first .. first + s.last - s.first
             /\ first + s.last - s.first <= Len(text)
             /\ \A j \in 1 .. s.last - s.first + 1 :
                   text[first + j - 1] = text[s.first + j - 1]
      BY <2>3, RangeOfProperties
    <2>6. /\ first + p - 1 \in Occurrences(Lowercased(keyword), Lowercased(text))
          /\ p \in Nat /\ p >= 1 /\ Len(keyword) >= 1
          /\ p + Len(keyword) - 1 <= s.last - s.first + 1
      BY <2>3, <2>4, <2>5, KeywordAtRange
    <2>7. /\ s.first \in Nat /\ s.last \in Nat
          /\ \A j \in 1 .. s.last - s.first + 1 : text[s.first + j - 1] # Stop
      BY <2>3, SentenceProperties
    <2>8. \A j \in first .. first + s.last - s.first : text[j] # Stop
      <3> SUFFICES ASSUME NEW j \in first .. first + s.last - s.first
                   PROVE  text[j] # Stop
        OBVIOUS
      <3>1. j - first + 1 \in 1 .. s.last - s.first + 1
            /\ first + (j - first + 1) - 1 = j
        BY <2>3, <2>7
      <3>2. QED BY <2>5, <2>7, <3>1
    <2> DEFINE i == first + p - 1
    <2>9. /\ i \in Int /\ i + Len(keyword) - 1 \in Int /\ position \in Int
          /\ first <= i /\ i + Len(keyword) - 1 <= first + s.last - s.first
          /\ first <= position /\ position <= first + s.last - s.first
          /\ first + s.last - s.first \in Int
      BY <2>1, <2>3, <2>5, <2>6, <2>7
    <2> HIDE DEF i
    <2>10. /\ Min({i, position}) \in Int /\ first <= Min({i, position})
           /\ Max({i + Len(keyword) - 1, position}) \in Int
           /\ Max({i + Len(keyword) - 1, position}) <= first + s.last - s.first
      BY <2>9, MinOfTwo, MaxOfTwo
    <2>11. \A j \in Min({i, position}) .. Max({i + Len(keyword) - 1, position}) :
              text[j] # Stop
      BY <2>8, <2>9, <2>10
    <2>12. i \in Occurrences(Lowercased(keyword), Lowercased(text))
      BY <2>6 DEF i
    <2>13. QED BY <2>11, <2>12 DEF InKeywordSentence
  <1>2. QED BY <1>1, MarkedInvariance, PTL

\* A keyword that is said between the ends of a sentence is said in it.
LEMMA KeywordInSentence ==
  ASSUME NEW string \in Seq(Letters), NEW s \in Sentences(string),
         NEW keyword \in Seq(Letters), NEW o \in Nat,
         o \in Occurrences(Lowercased(keyword), Lowercased(string)),
         s.first <= o, o + Len(keyword) - 1 <= s.last
  PROVE  o - s.first + 1 \in Occurrences(Lowercased(keyword),
                                         Lowercased(StringOf(s, string)))
  <1> DEFINE words == StringOf(s, string)
             p == o - s.first + 1
  <1>1. /\ s.first \in 1 .. Len(string) /\ s.last \in 1 .. Len(string)
        /\ s.first <= s.last /\ Len(string) \in Nat /\ Len(keyword) \in Nat
        /\ words \in Seq(Letters) /\ Len(words) = s.last - s.first + 1
        /\ \A j \in 1 .. s.last - s.first + 1 : words[j] = string[s.first + j - 1]
    BY SentenceProperties, LenProperties
  <1> HIDE DEF words
  <1>2. /\ Lowercased(words) \in Seq(Letters) /\ Len(Lowercased(words)) = Len(words)
        /\ \A i \in 1 .. Len(words) : Lowercased(words)[i] = Lower[words[i]]
    BY <1>1, LowercasedProperties
  <1>3. /\ Lowercased(keyword) \in Seq(Letters)
        /\ Len(Lowercased(keyword)) = Len(keyword)
    BY LowercasedProperties
  <1>4. /\ Lowercased(string) \in Seq(Letters)
        /\ Len(Lowercased(string)) = Len(string)
        /\ \A i \in 1 .. Len(string) : Lowercased(string)[i] = Lower[string[i]]
    BY LowercasedProperties
  <1>5. /\ Len(keyword) >= 1 /\ o >= 1 /\ o + Len(keyword) - 1 <= Len(string)
        /\ \A j \in 1 .. Len(keyword) :
              Lowercased(string)[o + j - 1] = Lowercased(keyword)[j]
    BY <1>3, <1>4, OccurrenceProperties
  <1>6. p \in Nat /\ p >= 1 /\ p + Len(keyword) - 1 <= Len(words)
    BY <1>1, <1>5
  <1>7. ASSUME NEW j \in 1 .. Len(keyword)
        PROVE  Lowercased(words)[p + j - 1] = Lowercased(keyword)[j]
    <2>1. /\ p + j - 1 \in 1 .. Len(words)
          /\ o + j - 1 \in 1 .. Len(string)
          /\ s.first + (p + j - 1) - 1 = o + j - 1
      <3>1. /\ s.first \in Nat /\ s.last \in Nat /\ Len(keyword) \in Nat
            /\ Len(string) \in Nat /\ 1 <= s.first
            /\ o + Len(keyword) - 1 <= Len(string)
        BY <1>1, <1>5
      <3>2. /\ (o - s.first + 1) + j - 1 \in 1 .. s.last - s.first + 1
            /\ o + j - 1 \in 1 .. Len(string)
            /\ s.first + ((o - s.first + 1) + j - 1) - 1 = o + j - 1
        <4>1. (o - s.first + 1) + j - 1 = o + j - s.first
          BY <3>1
        <4>2. o + j - s.first \in 1 .. s.last - s.first + 1
          BY <3>1
        <4>3. o + j - 1 \in 1 .. Len(string)
          BY <3>1, <1>5
        <4>4. s.first + ((o - s.first + 1) + j - 1) - 1 = o + j - 1
          BY <3>1
        <4>5. QED BY <4>1, <4>2, <4>3, <4>4
      <3>3. QED BY <1>1, <3>2
    <2> HIDE DEF p
    <2>2. Lowercased(words)[p + j - 1] = Lower[string[s.first + (p + j - 1) - 1]]
      BY <1>1, <1>2, <2>1
    <2>3. QED BY <1>4, <1>5, <2>1, <2>2
  <1> HIDE DEF p
  <1>8. p \in Occurrences(Lowercased(keyword), Lowercased(words))
    BY <1>2, <1>3, <1>5, <1>6, <1>7, OccurrenceProperties
  <1>9. QED BY <1>8 DEF words, p

\* A sentence with a keyword is highlighted unless its words were said before.
THEOREM FirstSentencesHighlightedHolds == Spec => []FirstSentencesHighlighted
  <1>1. MarkedInv => FirstSentencesHighlighted
    <2> SUFFICES ASSUME MarkedInv, NEW first \in DOMAIN text, NEW last \in DOMAIN text,
                        first <= last,
                        \A i \in first .. last : InKeywordSentence(i),
                        first = 1 \/ text[first - 1] = Stop,
                        last = Len(text) \/ text[last + 1] = Stop,
                        \A i \in Occurrences(SubSeq(text, first, last), text) :
                           i = 1 \/ i >= first
                 PROVE  first .. last \subseteq marked
      BY DEF FirstSentencesHighlighted
    <2> DEFINE s == [first |-> first, last |-> last]
    <2>1. /\ text \in Seq(Letters) /\ Len(text) \in Nat /\ DOMAIN text = 1 .. Len(text)
          /\ first \in 1 .. Len(text) /\ last \in 1 .. Len(text)
      BY LenProperties DEF MarkedInv
    <2>2. ASSUME NEW i \in first .. last
          PROVE  \E keyword \in keywordsUsed :
                    /\ keyword \in Seq(Letters) /\ Len(keyword) \in Nat
                    /\ \E o \in Occurrences(Lowercased(keyword), Lowercased(text)) :
                         /\ o \in Nat /\ o >= 1 /\ Len(keyword) >= 1
                         /\ o + Len(keyword) - 1 <= Len(text)
                         /\ \A j \in Int :
                               /\ o <= j \/ i <= j
                               /\ j <= o + Len(keyword) - 1 \/ j <= i
                               => text[j] # Stop
      <3>0. InKeywordSentence(i)
        OBVIOUS
      <3>p. PICK keyword \in keywordsUsed :
               \E o \in Occurrences(Lowercased(keyword), Lowercased(text)) :
                  \A j \in Min({o, i}) .. Max({o + Len(keyword) - 1, i}) : text[j] # Stop
        BY <3>0 DEF InKeywordSentence
      <3>1. PICK o \in Occurrences(Lowercased(keyword), Lowercased(text)) :
               \A j \in Min({o, i}) .. Max({o + Len(keyword) - 1, i}) : text[j] # Stop
        BY <3>p
      <3>2. keyword \in Seq(Letters) /\ Len(keyword) \in Nat
        BY TranscriptAssumption, LenProperties DEF MarkedInv
      <3>3. /\ Lowercased(keyword) \in Seq(Letters) /\ Lowercased(text) \in Seq(Letters)
            /\ Len(Lowercased(keyword)) = Len(keyword)
            /\ Len(Lowercased(text)) = Len(text)
        BY <2>1, <3>2, LowercasedProperties
      <3>4. o \in Nat
        BY <3>3, LenProperties DEF Occurrences
      <3>5. o >= 1 /\ Len(keyword) >= 1 /\ o + Len(keyword) - 1 <= Len(text)
        BY <3>3, <3>4, OccurrenceProperties
      <3>6. ASSUME NEW j \in Int, o <= j \/ i <= j,
                   j <= o + Len(keyword) - 1 \/ j <= i
            PROVE  text[j] # Stop
        <4>1. i \in Int /\ o + Len(keyword) - 1 \in Int
          BY <2>1, <3>2, <3>4
        <4>2. j \in Min({o, i}) .. Max({o + Len(keyword) - 1, i})
          BY <3>4, <3>6, <4>1, MinOfTwo, MaxOfTwo
        <4>3. QED BY <3>1, <4>2
      <3>7. QED BY <3>2, <3>4, <3>5, <3>6
    <2>3. \A i \in first .. last : text[i] # Stop
      BY <2>1, <2>2
    <2>4. s \in Sentences(text)
      BY <2>1, <2>3 DEF Sentences
    <2>i. first \in first .. last
      BY <2>1
    <2>5. PICK keyword \in keywordsUsed :
             /\ keyword \in Seq(Letters) /\ Len(keyword) \in Nat
             /\ \E o \in Occurrences(Lowercased(keyword), Lowercased(text)) :
                  /\ o \in Nat /\ o >= 1 /\ Len(keyword) >= 1
                  /\ o + Len(keyword) - 1 <= Len(text)
                  /\ \A j \in Int :
                        /\ o <= j \/ first <= j
                        /\ j <= o + Len(keyword) - 1 \/ j <= first
                        => text[j] # Stop
      BY <2>2, <2>i, Zenon
    <2>6. PICK o \in Occurrences(Lowercased(keyword), Lowercased(text)) :
             /\ o \in Nat /\ o >= 1 /\ Len(keyword) >= 1
             /\ o + Len(keyword) - 1 <= Len(text)
             /\ \A j \in Int :
                   /\ o <= j \/ first <= j
                   /\ j <= o + Len(keyword) - 1 \/ j <= first
                   => text[j] # Stop
      BY <2>5
    <2>7. first <= o
      <3>1. SUFFICES ASSUME o < first PROVE FALSE
        BY <2>1, <2>6
      <3>2. first # 1 /\ first - 1 \in Int /\ o <= first - 1 /\ first - 1 <= first
        BY <2>1, <2>6, <3>1
      <3>3. QED BY <2>6, <3>2
    <2>8. o + Len(keyword) - 1 <= last
      <3>1. SUFFICES ASSUME last < o + Len(keyword) - 1 PROVE FALSE
        BY <2>1, <2>5, <2>6
      <3>2. /\ last # Len(text) /\ last + 1 \in Int /\ first <= last + 1
            /\ last + 1 <= o + Len(keyword) - 1
        BY <2>1, <2>5, <2>6, <3>1
      <3>3. QED BY <2>6, <3>2
    <2>10. o - first + 1 \in Occurrences(Lowercased(keyword), Lowercased(StringOf(s, text)))
      <3>1. s.first = first /\ s.last = last
        OBVIOUS
      <3> HIDE DEF s
      <3>2. s.first <= o /\ o + Len(keyword) - 1 <= s.last
        BY <2>7, <2>8, <3>1
      <3>3. o - s.first + 1 \in Occurrences(Lowercased(keyword),
                                            Lowercased(StringOf(s, text)))
        BY <2>1, <2>4, <2>5, <2>6, <3>2, KeywordInSentence
      <3>4. QED BY <3>1, <3>3
    <2>11. s \in SentencesWithKeyword(text, keywordsUsed)
      BY <2>4, <2>10 DEF SentencesWithKeyword
    <2>12. RangeOf(s, text) = first .. last
      <3>1. s.first = first /\ s.last = last
            /\ StringOf(s, text) = SubSeq(text, first, last)
        BY DEF StringOf
      <3> HIDE DEF s
      <3>2. PICK f \in 1 .. Len(text) :
               /\ RangeOf(s, text) = f .. f + s.last - s.first
               /\ f \in Occurrences(StringOf(s, text), text)
               /\ f <= s.first /\ (f = 1 => s.first = 1)
        BY <2>1, <2>4, RangeOfProperties
      <3>3. f = first
        BY <2>1, <3>1, <3>2
      <3>4. f + s.last - s.first = last
        BY <2>1, <3>1, <3>3
      <3>5. QED BY <3>2, <3>3, <3>4
    <2>13. first .. last \in KeywordSentenceRanges(text, keywordsUsed)
      BY <2>11, <2>12 DEF KeywordSentenceRanges
    <2>14. QED BY <2>13 DEF MarkedInv
  <1>2. QED BY <1>1, MarkedInvariance, PTL

-----------------------------------------------------------------------------
(* Types.                                                                    *)

SizeInv ==
    /\ Len(text) <= MaxText
    /\ offset \in -Window .. MaxText

SwitchInv ==
    /\ scrolling \in {"still", "dragging", "decelerating"}
    /\ isFollowingSpeech \in BOOLEAN
    /\ followButtonShown \in BOOLEAN

LEMMA NextSizeInv ==
  ASSUME ScrollInv, ScrollInv', SizeInv, [Next]_vars
  PROVE  SizeInv'
  <1>n. Window \in Nat \ {0} /\ MaxText \in Nat
    BY TranscriptAssumption
  <1>b. /\ text \in Seq(Letters) /\ Len(text) \in Nat
        /\ Bottom(text) = Len(text) - Window
    BY LenProperties DEF ScrollInv, Bottom
  <1> USE DEF SizeInv, textVars, scrollVars
  <1>1. CASE RecognizedSpeech
    <2>1. PICK string \in Revisions : SetTextViewText(string)
      BY <1>1 DEF RecognizedSpeech
    <2>2. /\ string \in Seq(Letters) /\ Len(string) <= MaxText /\ Len(string) \in Nat
          /\ Bottom(string) = Len(string) - Window
      BY <1>b, <2>1, RevisionsAreTexts, LenProperties DEF Bottom
    <2>3. text' = string
      BY <2>1 DEF SetTextViewText
    <2>4. CASE offset' = Bottom(string)
      BY <1>n, <2>2, <2>3, <2>4
    <2>5. CASE offset' \in Relaid(string)
      <3>1. /\ offset' \in Int
            /\ offset' = offset \/ (0 <= offset' /\ (offset' = 0 \/ offset' <= Bottom(string)))
        BY <1>n, <2>2, <2>5, RelaidProperties
      <3>2. QED BY <1>n, <2>2, <2>3, <3>1
    <2>6. QED BY <2>1, <2>4, <2>5 DEF SetTextViewText
  <1>2. CASE DidBeginCheckingForCancellation \/ DidPressFollowSpeechButton
    BY <1>n, <1>b, <1>2 DEF DidBeginCheckingForCancellation, DidPressFollowSpeechButton
  <1>3. CASE Scroll
    <2>1. offset' \in 0 .. Max({0, Bottom(text)}) /\ text' = text
      BY <1>3 DEF Scroll
    <2>2. QED BY <1>n, <1>b, <2>1, MaxOfTwo
  <1>4. CASE UNCHANGED <<text, offset>>
    BY <1>4
  <1>5. QED
    BY <1>1, <1>2, <1>3, <1>4
       DEF Next, KeywordsChange, ScrollViewWillBeginDragging, LiftFinger,
           ScrollViewDidEndDecelerating, vars

LEMMA NextSwitchInv == SwitchInv /\ [Next]_vars => SwitchInv'
  BY DEF SwitchInv, Next, RecognizedSpeech, KeywordsChange,
         DidBeginCheckingForCancellation, ScrollViewWillBeginDragging, Scroll,
         LiftFinger, ScrollViewDidEndDecelerating, DidPressFollowSpeechButton,
         scrollVars, followVars, vars

\* Marks lie in the text, and the position within a window's height of it.
THEOREM TypeOKHolds == Spec => []TypeOK
  <1>1. Init => ScrollInv /\ MarkedInv /\ SizeInv /\ SwitchInv
    <2>1. Init => SizeInv
      BY TranscriptAssumption DEF Init, SizeInv
    <2>2. Init => SwitchInv
      BY DEF Init, SwitchInv
    <2>3. QED BY <2>1, <2>2, InitScrollInv, InitMarkedInv
  <1>2. ScrollInv /\ MarkedInv /\ SizeInv /\ SwitchInv /\ [Next]_vars
           => (ScrollInv /\ MarkedInv /\ SizeInv /\ SwitchInv)'
    BY NextScrollInv, NextMarkedInv, NextSizeInv, NextSwitchInv
  <1>3. ScrollInv /\ MarkedInv /\ SizeInv /\ SwitchInv => TypeOK
    <2> SUFFICES ASSUME ScrollInv, MarkedInv, SizeInv, SwitchInv PROVE TypeOK
      OBVIOUS
    <2>1. marked \subseteq DOMAIN text
      <3> SUFFICES ASSUME NEW position \in marked PROVE position \in DOMAIN text
        OBVIOUS
      <3>1. text \in Seq(Letters) /\ DOMAIN text = 1 .. Len(text) /\ Len(text) \in Nat
        BY LenProperties DEF MarkedInv
      <3>2. PICK s \in Sentences(text) : position \in RangeOf(s, text)
        BY DEF MarkedInv, KeywordSentenceRanges, SentencesWithKeyword
      <3>3. PICK first \in 1 .. Len(text) :
               /\ RangeOf(s, text) = first .. first + s.last - s.first
               /\ first + s.last - s.first <= Len(text)
        BY <3>1, <3>2, RangeOfProperties
      <3>4. s.first \in Nat /\ s.last \in Nat
        BY <3>1, <3>2, SentenceProperties
      <3>5. QED BY <3>1, <3>2, <3>3, <3>4
    <2>2. QED
      BY <2>1, Zenon DEF TypeOK, ScrollInv, MarkedInv, SizeInv, SwitchInv
  <1>4. QED BY <1>1, <1>2, <1>3, PTL DEF Spec
===============================================================================
