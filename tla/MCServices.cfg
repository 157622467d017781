CONSTANTS
  p1 = p1
  PagePosts <- OnePost
  OtherPosts = {}
  PageEdits <- AnyEdit
  OtherEdits = {"delete"}
  MaxEdits = 1
  MaxChanges = 3
  MaxFaults = 1
  proc1 = proc1
  proc2 = proc2
  wrong = wrong
  anything = anything
  Processes = {proc1, proc2}
  Calls <- FourCalls
  By <- CallsBy
  Patch <- CallPatches
  Keys <- TwoKeys
  Defaults <- KeyDefaults
  Stored <- StoredRows
  Lowest = 1
  Highest = 2
  CacheTime = 1
  Wrong = wrong
  Anything = anything
  MaxTime = 2
  MaxRestarts = 1
  claude = claude
  codex = codex
  i1 = i1
  Clis = {claude, codex}
  Claude = claude
  Inputs = {i1}
  MaxSignIns = 2
  MaxPrints = 1
  MaxCheckFaults = 1
  c1 = c1
  c2 = c2
  ToolCalls = {c1, c2}
  SseFallback = TRUE
  MaxClients = 10
  Servers = {proc1, proc2}
  Pins <- OneIsPinned
  MaxVersion = 2
  MaxInstalls = 3
  a1 = a1
  a2 = a2
  a3 = a3
  Agents = {a1, a2, a3}
  Requests <- NineRequests
  Kind <- RequestKinds
  Of <- RequestsOf
  With <- RequestsWith
  MaxRequests = 3
  MaxChats = 4
  Hosts = {proc1, proc2}
  Hooks = {c1, c2}
  Late = {proc2}
  Window = 2
  RenewEvery = 1
  MaxHits = 1
  HitWindow = 1
  MaxDeliveryFaults = 1
  MaxDictations = 2
SPECIFICATION Spec
INVARIANTS
  TypesOK
  ThreadIsTrue
  SettingsSettle
  SignInsKeepToThemselves
  DoneMeansSignedIn
  InstallsAreTrue
  QuietConnectionAgrees
  ChatsStayTogether
  WindowHolds
  DeliveriesAreTrue
  NobodyIsOverheard
PROPERTIES
  CallsAreAnswered
  DeliveriesEndForGood
  DialogsEnd
CHECK_DEADLOCK FALSE
