SPECIFICATION MCSpec
CONSTANTS
  w1 = w1
  w2 = w2
  u1 = u1
  u2 = u2
  e1 = e1
  e2 = e2
  g1 = g1
  h1 = h1
  key1 = key1
  key2 = key2
  AuthWorkers = {w1, w2}
  Users = {u1, u2}
  Emails = {e1, e2}
  Identities = {g1, h1}
  ProviderOf <- MCProviderOf
  EmailOf <- MCEmailOf
  MaxTokens = 3
  MaxLinks = 1
  Nobody = Nobody
  HttpWorkers = {w1, w2, w3}
  Keys = {k1}
  NoKey = NoKey
  OrgWorkers = {w1, w2}
  Orgs = {acme}
  Members = {u1, u2}
  MaxDeps = 1
  Plans = {"free", "starter"}
  FreePlan = "free"
  DepLimit <- MCDepLimit
  Nothing = Nothing
  HookWorkers = {w1, w2}
  Hooks = {hook1}
  Events = {down}
  MaxDeliveries = 1
  MaxRetries = 3
  MaxPosts = 3
  NoHook = NoHook
  AdminWorkers = {w1, w2}
  Campaigns = {c1}
  Notifications = {n1}
  Tickets = {t1}
  Recipients = {u1, u2}
  MaxPublishes = 1
  NoTarget = NoTarget
  KeyWorkers = {w1, w2}
  ApiKeyIds = {key1, key2}
  FlushBatch = 1
  MaxUses = 1
  NoApiKey = NoApiKey
SYMMETRY PlatformSymmetry
INVARIANT ReuseRevokesFamily
CHECK_DEADLOCK FALSE
