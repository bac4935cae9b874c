SPECIFICATION ServicesSpec

CONSTANTS
  None = None
  \* Catalog
  Food = {"flour", "flours", "mehl"}
  Close <- MCClose
  Near <- MCNear
  Seed <- MCSeed
  Renaming <- MCRenaming
  Ingredient = {1, 2, 3}
  Dish = {d1}
  Save = {s1}
  MaxLines = 2
  MergeIntoMerged = FALSE
  \* Assistant
  Turn = {t1, t2}
  Talk = {c1}
  Topic = {r1}
  MaxMessages = 3
  \* LlmClient
  CostCap = 3
  MaxCost = 2
  MaxRetries = 2
  MaxIterations = 3
  CallLists <- MCCallLists
  \* UrlTiers
  MaxRedirects = 2
  MaxActions = 3
  MaxTools = 2
  Playwright = TRUE
  \* Migrations
  Person = {u1, u2}
  Meal = {m1}
  Book = {b1, b2, b3, b4}
  Shared = {1, 2}
  Collection = {o1}
  \* RateLimiter
  Call = {c1, c2}
  MaxEvents = 2
  Window = 3
  MaxStall = 1
  Horizon = 7
  \* DefaultCookbook
  Visit = {v1, v2, v3}
  \* Submission
  Post = {p1, p2, p3}
  Source = {"u", "v", "f"}
  Upload = {"f"}
  Fingerprint <- MCFingerprint
  \* RecipeList
  Entry = {1, 2, 3}
  Ground = {g1, g2}
  Time = {1, 2}
  PageSize = 2
  \* Quantities
  Scale = 120000
  Quantity <- MCQuantity
  Unit <- MCUnit
  Measured <- MCMeasured
  Factor <- MCFactor

INVARIANTS
  ServicesTypeOK
  AliasesOnLive
  LinesOnLive
  NoTwins
  WholeExchanges
  CapHolds
  ToolCallsAnswered
  FailureKeepsPage
  SignalEndsLoop
  ConstraintsHold
  OneDefaultGiven
  SourceOnce
  FilesReadBack
  WalkComplete
  AmountKept

PROPERTIES
  OperationsEnd
  AcquisitionEnds
  AccessKept
  ImplementsConversations
  LimitHolds

\* A refused upload, an ended acquisition and a full table stop their service.
CHECK_DEADLOCK FALSE
