----------------------------- MODULE MCPlatform -----------------------------
(***************************************************************************)
(* Instances of the components behind the API: Sessions, Idempotency,      *)
(* Tenancy, Webhooks, AdminConsole and ApiKeys.                            *)
(*                                                                         *)
(* They share no variable, so what holds of each alone holds of them       *)
(* together (PlatformSpec).  TLC explores the behaviours that move one of  *)
(* them, chosen with the part of it that is explored by focus; Explored    *)
(* bounds that part.                                                       *)
(***************************************************************************)
EXTENDS Sessions, Idempotency, Tenancy, Webhooks, AdminConsole, ApiKeys, TLC

CONSTANTS w1, w2, u1, u2, e1, e2, g1, h1, key1, key2

MCProviderOf == g1 :> "google" @@ h1 :> "github"
MCEmailOf == g1 :> e1 @@ h1 :> e2
MCDepLimit == [p \in {"free", "starter"} |-> IF p = "free" THEN 1 ELSE 2]

VARIABLE focus

SessionsFoci == {"tokens", "links", "signin"}
TenancyFoci == {"members", "dependencies"}
Foci == SessionsFoci \cup TenancyFoci \cup {"http", "webhooks", "console", "apikeys"}

----------------------------------------------------------------------------
(* Bounds *)

OnlyAuth(kinds) == \A w \in AuthWorkers : authTx[w].kind \in kinds \cup {"idle", "register"}
OnlyOrg(kinds) == \A w \in OrgWorkers : orgTx[w].kind \in kinds \cup {"idle", "org"}

AccountsWithin(n) == Cardinality({u \in Users : Exists(u)}) <= n
TokensWithin(n) == Cardinality({t \in Tokens : Issued(t)}) <= n

Explored ==
  CASE focus = "tokens" ->
         OnlyAuth({"login", "refresh", "rotate", "logout"}) /\ oauthState = {}
           /\ AccountsWithin(1)
    [] focus = "links" ->
         OnlyAuth({"sendlink", "uselink"}) /\ oauthState = {}
           /\ AccountsWithin(1) /\ TokensWithin(1)
    [] focus = "signin" ->
         OnlyAuth({"callback", "signin", "profile"}) /\ TokensWithin(2)
    [] focus = "members" ->
         OnlyOrg(MembershipKinds) /\ \A o \in Orgs : plan[o] \in {Nothing, FreePlan}
    [] focus = "dependencies" -> OnlyOrg({"create", "update", "delete"})
    [] OTHER -> TRUE

----------------------------------------------------------------------------
(* The components side by side: each of them may move in any state *)

componentVars ==
  <<sessionsVars, idempotencyVars, tenancyVars, webhooksVars, adminVars, apiKeysVars>>

PlatformInit ==
  /\ SessionsInit
  /\ IdempotencyInit
  /\ TenancyInit
  /\ WebhooksInit
  /\ AdminConsoleInit
  /\ ApiKeysInit

SessionsMove ==
  /\ SessionsNext
  /\ UNCHANGED <<idempotencyVars, tenancyVars, webhooksVars, adminVars, apiKeysVars>>

IdempotencyMove ==
  /\ IdempotencyNext
  /\ UNCHANGED <<sessionsVars, tenancyVars, webhooksVars, adminVars, apiKeysVars>>

TenancyMove ==
  /\ TenancyNext
  /\ UNCHANGED <<sessionsVars, idempotencyVars, webhooksVars, adminVars, apiKeysVars>>

WebhooksMove ==
  /\ WebhooksNext
  /\ UNCHANGED <<sessionsVars, idempotencyVars, tenancyVars, adminVars, apiKeysVars>>

AdminConsoleMove ==
  /\ AdminConsoleNext
  /\ UNCHANGED <<sessionsVars, idempotencyVars, tenancyVars, webhooksVars, apiKeysVars>>

ApiKeysMove ==
  /\ ApiKeysNext
  /\ UNCHANGED <<sessionsVars, idempotencyVars, tenancyVars, webhooksVars, adminVars>>

PlatformNext ==
  \/ SessionsMove
  \/ IdempotencyMove
  \/ TenancyMove
  \/ WebhooksMove
  \/ AdminConsoleMove
  \/ ApiKeysMove

PlatformSpec == PlatformInit /\ [][PlatformNext]_componentVars

----------------------------------------------------------------------------
(* What is explored of them *)

MCInit ==
  /\ focus \in Foci
  /\ PlatformInit
  /\ focus # "console" => reachable = {}

MCNext ==
  /\ \/ focus \in SessionsFoci /\ SessionsMove
     \/ focus = "http" /\ IdempotencyMove
     \/ focus \in TenancyFoci /\ TenancyMove
     \/ focus = "webhooks" /\ WebhooksMove
     \/ focus = "console" /\ AdminConsoleMove
     \/ focus = "apikeys" /\ ApiKeysMove
  /\ UNCHANGED focus
  /\ Explored'

MCSpec == MCInit /\ [][MCNext]_<<componentVars, focus>>

PlatformTypeOK ==
  /\ SessionsTypeOK
  /\ IdempotencyTypeOK
  /\ TenancyTypeOK
  /\ WebhooksTypeOK
  /\ AdminConsoleTypeOK
  /\ ApiKeysTypeOK

PlatformSymmetry == Permutations({w1, w2}) \cup Permutations({u1, u2})
                      \cup Permutations({key1, key2})
=============================================================================
