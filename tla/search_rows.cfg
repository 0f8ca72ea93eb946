CONSTANTS
  RrfK = 60
  MaxRows = 3
  StopWords = {"the"}
  Calls <- MCCalls
  Pages <- MCPages
  DdgPages = 3
  YahooPages = 2
  MaxHops = 4
  FirstPage = 2
  LaterPage = 1
  KeywordRows = 2
  Crates <- MCCrates
  CrateKeywords = {"crate", "crates", "cargo", "rust"}
  BuiltinRoots = {"std", "core", "alloc", "self", "super", "crate"}
  Fillers = {"a", "the", "this", "my"}
SPECIFICATION Spec
CHECK_DEADLOCK FALSE
INVARIANTS
  AnswerIsThePages
  WallsAreReported
  CookiePaidOnce
  AgreementDecides
