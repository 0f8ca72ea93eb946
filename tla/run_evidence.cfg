CONSTANTS
  KeyOf <- MCKeyOf
  NoQuote = NoQuote
  Web <- MCWeb
  FinalReplies <- MCReplies
  PartChars = 20
  Parts = {0, 2}
  MaxRuns = 3
  MaxCalls = 4
SPECIFICATION PagesSpec
CHECK_DEADLOCK FALSE
INVARIANTS
  CitedPageKeptOnce
  QuoteIsOnItsPage
  PartsAreThePage
  RecordedIsReplayed
