----------------------------- MODULE TranscriptView -----------------------------
(***************************************************************************)
(* The transcript on the recording page: the sentences it highlights, and  *)
(* how it follows the speech.                                              *)
(*                                                                         *)
(* The transcript is text in words and full stops; a word but the first    *)
(* has a space before it (getFullTranscription puts ". " after every task's *)
(* words), and no word is part of another.  Each recognized text replaces  *)
(* what is shown: the sentences with a keyword are marked anew,            *)
(* and the page is scrolled to the newest words unless the student reads   *)
(* back, from the first drag until the follow button is pressed.  The      *)
(* position is counted in words: offset words are above the window, and    *)
(* Window words fit in it.  A negative offset leaves room above the text.  *)
(***************************************************************************)
EXTENDS Integers, Sequences, FiniteSets, FiniteSetsExt

CONSTANTS
    Words,
    Stop,            \* "."
    Lower,           \* lowercased(), by word
    KeywordSets,     \* the keywords DataManager may hold, one set after another
    Window,          \* words that fit on the scroll view
    MaxText          \* bound: words and stops of a transcript

Letters == Words \cup {Stop}

ASSUME TranscriptAssumption ==
    /\ Stop \notin Words
    /\ Lower \in [Letters -> Letters]
    /\ \A word \in Letters : (Lower[word] = Stop) <=> (word = Stop)
    /\ KeywordSets \subseteq SUBSET Seq(Letters)
    /\ Window \in Nat \ {0}
    /\ MaxText \in Nat

VARIABLES
    text,                 \* the transcription shown
    highlightedKeywords,  \* DataManager's
    marked,               \* the positions of text with the yellow background
    keywordsUsed,         \* history: highlightedKeywords when text was set
    offset,
    scrolling,            \* what the student's finger has left the scroll view in
    isFollowingSpeech,
    followButtonShown

textVars == <<text, marked, keywordsUsed>>
scrollVars == <<offset, scrolling>>
followVars == <<isFollowingSpeech, followButtonShown>>
vars == <<textVars, highlightedKeywords, scrollVars, followVars>>

TypeOK ==
    /\ text \in Seq(Letters) /\ Len(text) <= MaxText
    /\ highlightedKeywords \in KeywordSets /\ keywordsUsed \in KeywordSets
    /\ marked \subseteq DOMAIN text
    /\ offset \in -Window .. MaxText
    /\ scrolling \in {"still", "dragging", "decelerating"}
    /\ isFollowingSpeech \in BOOLEAN /\ followButtonShown \in BOOLEAN

Init ==
    /\ text = <<>> /\ marked = {}
    /\ highlightedKeywords \in KeywordSets
    /\ keywordsUsed = highlightedKeywords
    /\ offset = 0
    /\ scrolling = "still"
    /\ isFollowingSpeech = TRUE
    /\ followButtonShown = FALSE

-----------------------------------------------------------------------------
(* getKeywordSentenceRanges.                                                 *)

\* Where part occurs in whole.  Nothing contains the empty string.
Occurrences(part, whole) ==
    {i \in DOMAIN whole :
        /\ part # <<>>
        /\ i + Len(part) - 1 <= Len(whole)
        /\ SubSeq(whole, i, i + Len(part) - 1) = part}

Lowercased(string) == [i \in DOMAIN string |-> Lower[string[i]]]

\* split(separator: "."), which leaves empty sentences out: first and last
\* position of each.
Sentences(transcription) ==
    LET IsStop(i) == i \notin DOMAIN transcription \/ transcription[i] = Stop
    IN  {s \in [first : DOMAIN transcription, last : DOMAIN transcription] :
            /\ s.first <= s.last
            /\ IsStop(s.first - 1) /\ IsStop(s.last + 1)
            /\ \A i \in s.first .. s.last : ~IsStop(i)}

StringOf(sentence, transcription) ==
    SubSeq(transcription, sentence.first, sentence.last)

\* Mutants: a sentence is marked to the end of the text; one with a keyword in
\* other letters is missed.
RangeToTheEnd(sentence, transcription) == sentence.first .. Len(transcription)

SentencesWithExactKeyword(transcription, keywords) ==
    {sentence \in Sentences(transcription) :
        \E keyword \in keywords :
            Occurrences(keyword, StringOf(sentence, transcription)) # {}}

SentencesWithKeyword(transcription, keywords) ==
    {sentence \in Sentences(transcription) :
        \E keyword \in keywords :
            Occurrences(Lowercased(keyword),
                        Lowercased(StringOf(sentence, transcription))) # {}}

\* range(of:) finds the first occurrence of the sentence's string, which begins
\* with a space unless it is the first.
RangeOf(sentence, transcription) ==
    LET first == Min({i \in Occurrences(StringOf(sentence, transcription),
                                        transcription) :
                         i = 1 => sentence.first = 1})
    IN  first .. first + sentence.last - sentence.first

KeywordSentenceRanges(transcription, keywords) ==
    {RangeOf(sentence, transcription) :
        sentence \in SentencesWithKeyword(transcription, keywords)}

-----------------------------------------------------------------------------
(* The page's handlers.                                                      *)

Bottom(transcription) == Len(transcription) - Window

IsTextOverflowing(transcription) == Window < Len(transcription)

\* Mutants: the ranges are those of the text before; the page is scrolled before
\* the text is set; the page is scrolled whether it follows or not.
SetTextViewTextStale(transcription) ==
    /\ text' = transcription
    /\ marked' = UNION KeywordSentenceRanges(text, highlightedKeywords)
    /\ keywordsUsed' = highlightedKeywords
    /\ offset' = IF isFollowingSpeech /\ IsTextOverflowing(transcription)
                 THEN Bottom(transcription) ELSE offset

SetTextViewTextLate(transcription) ==
    /\ text' = transcription
    /\ marked' = UNION KeywordSentenceRanges(transcription, highlightedKeywords)
    /\ keywordsUsed' = highlightedKeywords
    /\ offset' = IF isFollowingSpeech /\ IsTextOverflowing(text) THEN Bottom(text)
                                                                 ELSE offset

SetTextViewTextAlways(transcription) ==
    /\ text' = transcription
    /\ marked' = UNION KeywordSentenceRanges(transcription, highlightedKeywords)
    /\ keywordsUsed' = highlightedKeywords
    /\ offset' = IF IsTextOverflowing(transcription) THEN Bottom(transcription)
                                                     ELSE offset

\* Where the scroll view is with a new content: where it was, brought back if that
\* is beyond the end, and perhaps if it is before the beginning.
Relaid(transcription) ==
    {Max({0, Min({offset, Bottom(transcription)})})} \cup {o \in {offset} : o < 0}

SetTextViewText(transcription) ==
    /\ text' = transcription
    /\ marked' = UNION KeywordSentenceRanges(transcription, highlightedKeywords)
    /\ keywordsUsed' = highlightedKeywords
    /\ IF isFollowingSpeech /\ IsTextOverflowing(transcription)
       THEN offset' = Bottom(transcription)
       ELSE offset' \in Relaid(transcription)

\* The next word, or another guess at the last one, or one guessed away.
Revisions ==
    LET kept == {text} \cup {SubSeq(text, 1, n) : n \in {Len(text) - 1} \cap Nat}
    IN  {string \in {Append(string, letter) : string \in kept, letter \in Letters}
                    \cup kept :
            Len(string) <= MaxText}

RecognizedSpeech ==
    /\ \E transcription \in Revisions : SetTextViewText(transcription)
    /\ UNCHANGED <<highlightedKeywords, scrolling, followVars>>

\* A snapshot of the user's document replaces the keywords; the text stays.
KeywordsChange ==
    /\ highlightedKeywords' \in KeywordSets
    /\ UNCHANGED <<textVars, scrollVars, followVars>>

\* Before a pause of the recognition, with a text of whatever length.
DidBeginCheckingForCancellation ==
    /\ isFollowingSpeech
    /\ offset' = Bottom(text)
    /\ UNCHANGED <<textVars, highlightedKeywords, scrolling, followVars>>

\* A view whose content fits cannot be dragged.
ScrollViewWillBeginDragging ==
    /\ scrolling # "dragging"
    /\ IsTextOverflowing(text)
    /\ scrolling' = "dragging"
    /\ isFollowingSpeech' = FALSE
    /\ UNCHANGED <<textVars, highlightedKeywords, offset, followButtonShown>>

Scroll ==
    /\ scrolling # "still"
    /\ offset' \in 0 .. Max({0, Bottom(text)})
    /\ UNCHANGED <<textVars, highlightedKeywords, scrolling, followVars>>

\* The finger goes, from a moving view or from a still one.
LiftFinger ==
    /\ scrolling = "dragging"
    /\ scrolling' \in {"decelerating", "still"}
    /\ UNCHANGED <<textVars, highlightedKeywords, offset, followVars>>

ScrollViewDidEndDecelerating ==
    /\ scrolling = "decelerating"
    /\ scrolling' = "still"
    /\ followButtonShown' = TRUE
    /\ UNCHANGED <<textVars, highlightedKeywords, offset, isFollowingSpeech>>

\* setContentOffset stops a view that moves by itself.
DidPressFollowSpeechButton ==
    /\ followButtonShown
    /\ scrolling # "dragging"
    /\ isFollowingSpeech' = TRUE
    /\ followButtonShown' = FALSE
    /\ offset' = Bottom(text)
    /\ scrolling' = "still"
    /\ UNCHANGED <<textVars, highlightedKeywords>>

Next ==
    \/ RecognizedSpeech \/ KeywordsChange \/ DidBeginCheckingForCancellation
    \/ ScrollViewWillBeginDragging \/ Scroll \/ LiftFinger
    \/ ScrollViewDidEndDecelerating \/ DidPressFollowSpeechButton

Spec == Init /\ [][Next]_vars

-----------------------------------------------------------------------------
\* What is to be highlighted, said without sentences: no full stop is between the
\* position and some place where a keyword is said.
InKeywordSentence(position) ==
    \E keyword \in keywordsUsed :
        \E i \in Occurrences(Lowercased(keyword), Lowercased(text)) :
            \A j \in Min({i, position}) .. Max({i + Len(keyword) - 1, position}) :
                text[j] # Stop

\* Nothing is highlighted but words of sentences with a keyword.
HighlightsOnlyKeywordSentences ==
    \A position \in marked : InKeywordSentence(position)

\* Every sentence with a keyword is highlighted unless the same words were said
\* earlier, after another word or a stop.
FirstSentencesHighlighted ==
    \A first, last \in DOMAIN text :
        (/\ first <= last
         /\ \A i \in first .. last : InKeywordSentence(i)
         /\ first = 1 \/ text[first - 1] = Stop
         /\ last = Len(text) \/ text[last + 1] = Stop
         /\ \A i \in Occurrences(SubSeq(text, first, last), text) : i = 1 \/ i >= first)
           => first .. last \subseteq marked

\* Every sentence with a keyword is highlighted: what the comment in
\* setTextViewText says.  One said before, or said as the end of a longer one, is
\* not: range(of:) finds the earlier words.
HighlightsEveryKeywordSentence ==
    \A position \in DOMAIN text : InKeywordSentence(position) => position \in marked

\* While the page follows a text too long for it, it shows the newest words.
FollowingShowsNewest ==
    (isFollowingSpeech /\ IsTextOverflowing(text)) => offset = Bottom(text)

\* While the student reads back, only their finger moves the text; the page may
\* catch up with a text that has become shorter.
ReadingNotInterrupted ==
    [][(~isFollowingSpeech /\ scrolling = "still" /\ ~isFollowingSpeech')
          => (offset' = offset \/ Len(text') < Len(text))]_vars
===============================================================================
