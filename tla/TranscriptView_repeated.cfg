SPECIFICATION Spec
CONSTANTS
    Words <- MCWords
    Stop = "."
    Lower <- MCLower
    KeywordSets <- MCKeywordSets
    Window = 2
    MaxText = 5
INVARIANT HighlightsEveryKeywordSentence
