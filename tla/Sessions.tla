------------------------------ MODULE Sessions ------------------------------
(***************************************************************************)
(* Accounts and their sessions: registration, login, OAuth sign-in, the    *)
(* rotation of refresh tokens with reuse detection, logout, and the        *)
(* one-time links for email verification and password reset.               *)
(*                                                                         *)
(* app/modules/auth/service.py, repository.py, models.py, router.py,       *)
(* google_service.py, github_service.py, email_service.py, and             *)
(* app/modules/users/repository.py, service.py.                            *)
(*                                                                         *)
(* A request is one READ COMMITTED transaction.  Each Read... action takes *)
(* one snapshot and leaves what it saw in authTx[w]; a Commit... action    *)
(* writes and commits.  A request that raises is rolled back by get_db:    *)
(* what it wrote is lost, and only its answer remains.  Passwords, names   *)
(* and the bodies of mails are left out; a token carries a random jti, so  *)
(* a token is its row, and a family is named after its first token.        *)
(***************************************************************************)
EXTENDS Integers, FiniteSets

CONSTANTS
  AuthWorkers,   \* requests served at a time
  Users,         \* bound: rows of the table users
  Emails,        \* addresses
  Identities,    \* accounts at Google and GitHub
  ProviderOf,    \* "google" or "github" for each of them
  EmailOf,       \* the address the provider returns
  MaxTokens,     \* bound: refresh tokens issued in a behaviour
  MaxLinks,      \* bound: one-time links created in a behaviour
  Nobody         \* no user, address or identity

Tokens == 1..MaxTokens   \* in the order of created_at
Links == 1..MaxLinks

ASSUME SessionsAssumption ==
  /\ MaxTokens \in Nat
  /\ MaxLinks \in Nat
  /\ ProviderOf \in [Identities -> {"google", "github"}]
  /\ EmailOf \in [Identities -> Emails]
  /\ Nobody \notin Users \cup Emails \cup Identities

VARIABLES
  account,     \* users rows
  token,       \* refresh_tokens rows
  link,        \* email_verification_tokens and password_reset_tokens rows
  oauthState,  \* the providers whose state key is in Redis
  authTx,      \* the transaction of each worker
  reported,    \* history: families answered "reuse detected"
  contended,   \* history: families with two refreshes open at once
  crossed      \* history: <<user, kind>> with two link requests open at once

sessionsVars ==
  <<account, token, link, oauthState, authTx, reported, contended, crossed>>

----------------------------------------------------------------------------
(* Rows *)

AccountRow == [email : Emails \cup {Nobody}, active : BOOLEAN, verified : BOOLEAN,
               ids : SUBSET Identities]

NoAccount == [email |-> Nobody, active |-> FALSE, verified |-> FALSE, ids |-> {}]

TokenRow == [status : {"none", "live", "revoked"}, user : Users \cup {Nobody},
             family : 0..MaxTokens, sequence : Nat]

NoToken == [status |-> "none", user |-> Nobody, family |-> 0, sequence |-> 0]

\* used covers is_used; expired: expires_at is in the past.
LinkRow == [status : {"none", "open", "used"}, kind : {"verify", "reset"},
            user : Users \cup {Nobody}, expired : BOOLEAN]

NoLink == [status |-> "none", kind |-> "verify", user |-> Nobody, expired |-> FALSE]

\* subject: the token or link presented; links: the open links it will void.
AuthKinds == {"idle", "register", "login", "refresh", "rotate", "logout", "sendlink",
              "uselink", "profile", "callback", "signin"}
AuthTx == [kind : AuthKinds, user : Users \cup {Nobody}, email : Emails \cup {Nobody},
           identity : Identities \cup {Nobody}, subject : Nat, links : SUBSET Links,
           purpose : {"verify", "reset"}]

IdleAuth == [kind |-> "idle", user |-> Nobody, email |-> Nobody, identity |-> Nobody,
             subject |-> 0, links |-> {}, purpose |-> "verify"]

SessionsTypeOK ==
  /\ account \in [Users -> AccountRow]
  /\ token \in [Tokens -> TokenRow]
  /\ link \in [Links -> LinkRow]
  /\ oauthState \subseteq {"google", "github"}
  /\ authTx \in [AuthWorkers -> AuthTx]
  /\ reported \subseteq Tokens
  /\ contended \subseteq Tokens
  /\ crossed \subseteq Users \X {"verify", "reset"}

SessionsInit ==
  /\ account = [u \in Users |-> NoAccount]
  /\ token = [t \in Tokens |-> NoToken]
  /\ link = [l \in Links |-> NoLink]
  /\ oauthState = {}
  /\ authTx = [w \in AuthWorkers |-> IdleAuth]
  /\ reported = {}
  /\ contended = {}
  /\ crossed = {}

----------------------------------------------------------------------------
(* Transactions and queries *)

BeginAuth(w, fields) ==
  /\ authTx[w].kind = "idle"
  /\ authTx' = [authTx EXCEPT ![w] = fields]

EndAuth(w) == authTx' = [authTx EXCEPT ![w] = IdleAuth]

Exists(u) == account[u].email # Nobody
get_by_email(e) == {u \in Users : Exists(u) /\ account[u].email = e}
get_by_provider_id(x) == {u \in Users : x \in account[u].ids}

Issued(t) == token[t].status # "none"
Live(t) == token[t].status = "live"
NextToken(t) == ~Issued(t) /\ \A s \in Tokens : s < t => Issued(s)

get_latest_sequence(f) ==
  LET sequences == {token[t].sequence : t \in {s \in Tokens : Issued(s) /\ token[s].family = f}}
  IN  {n \in sequences : \A m \in sequences : m <= n}

\* A row of family f: a family of its own when f is 0.
create_refresh_token(t, u, f, sequence) ==
  [status |-> "live", user |-> u, family |-> IF f = 0 THEN t ELSE f, sequence |-> sequence]

StartSession(t, u) == token' = [token EXCEPT ![t] = create_refresh_token(t, u, 0, 1)]

\* An exception, a client that goes away, or a crash: get_db rolls back.
AbortAuth(w) ==
  /\ authTx[w].kind # "idle"
  /\ EndAuth(w)
  /\ UNCHANGED <<account, token, link, oauthState, reported, contended, crossed>>

----------------------------------------------------------------------------
(* register and login *)

ReadRegister(w, e) ==
  /\ get_by_email(e) = {}
  /\ BeginAuth(w, [IdleAuth EXCEPT !.kind = "register", !.email = e])
  /\ UNCHANGED <<account, token, link, oauthState, reported, contended, crossed>>

\* The unique index on email decides between two registrations.
CommitRegister(w, u, t) ==
  /\ authTx[w].kind = "register"
  /\ get_by_email(authTx[w].email) = {}
  /\ ~Exists(u)
  /\ NextToken(t)
  /\ account' = [account EXCEPT ![u] = [NoAccount EXCEPT !.email = authTx[w].email,
                                                         !.active = TRUE]]
  /\ StartSession(t, u)
  /\ EndAuth(w)
  /\ UNCHANGED <<link, oauthState, reported, contended, crossed>>

ReadLogin(w, u) ==
  /\ Exists(u)
  /\ account[u].active
  /\ BeginAuth(w, [IdleAuth EXCEPT !.kind = "login", !.user = u])
  /\ UNCHANGED <<account, token, link, oauthState, reported, contended, crossed>>

CommitLogin(w, t) ==
  /\ authTx[w].kind = "login"
  /\ NextToken(t)
  /\ StartSession(t, authTx[w].user)
  /\ EndAuth(w)
  /\ UNCHANGED <<account, link, oauthState, reported, contended, crossed>>

----------------------------------------------------------------------------
(* refresh and logout *)

Refreshing(v, f) ==
  /\ authTx[v].kind \in {"refresh", "rotate"}
  /\ token[authTx[v].subject].family = f

\* A refresh that does not look at is_revoked.
AcceptsRevoked(t) == Issued(t) /\ account[token[t].user].active

\* The presented token is stored, not revoked, and its user is active.
Acceptable(t) == Live(t) /\ account[token[t].user].active

ReadRefresh(w, t) ==
  /\ Acceptable(t)
  /\ BeginAuth(w, [IdleAuth EXCEPT !.kind = "refresh", !.subject = t])
  /\ contended' = contended \cup
       (IF \E v \in AuthWorkers : Refreshing(v, token[t].family)
          THEN {token[t].family} ELSE {})
  /\ UNCHANGED <<account, token, link, oauthState, reported, crossed>>

\* The family's latest sequence is not above the presented one.
ReadSequence(w) ==
  /\ authTx[w].kind = "refresh"
  /\ \E n \in get_latest_sequence(token[authTx[w].subject].family) :
       n <= token[authTx[w].subject].sequence
  /\ authTx' = [authTx EXCEPT ![w].kind = "rotate"]
  /\ UNCHANGED <<account, token, link, oauthState, reported, contended, crossed>>

\* It is above: revoke_family marks every row, then the exception that answers
\* 401 reaches get_db, which rolls the marks back.
ReuseDetected(w) ==
  LET family == token[authTx[w].subject].family IN
  /\ authTx[w].kind = "refresh"
  /\ \E n \in get_latest_sequence(family) : n > token[authTx[w].subject].sequence
  /\ reported' = reported \cup {family}
  /\ EndAuth(w)
  /\ UNCHANGED <<account, token, link, oauthState, contended, crossed>>

Successor(old, t) ==
  create_refresh_token(t, token[old].user, token[old].family, token[old].sequence + 1)

\* A rotation that forgets to revoke the old token.
RotatedUnrevoked(old, t) == [token EXCEPT ![t] = Successor(old, t)]

Rotated(old, t) == [token EXCEPT ![t] = Successor(old, t), ![old].status = "revoked"]

CommitRefresh(w, t) ==
  /\ authTx[w].kind = "rotate"
  /\ NextToken(t)
  /\ token' = Rotated(authTx[w].subject, t)
  /\ EndAuth(w)
  /\ UNCHANGED <<account, link, oauthState, reported, contended, crossed>>

ReadLogout(w, t) ==
  /\ Live(t)
  /\ BeginAuth(w, [IdleAuth EXCEPT !.kind = "logout", !.subject = t])
  /\ UNCHANGED <<account, token, link, oauthState, reported, contended, crossed>>

CommitLogout(w) ==
  /\ authTx[w].kind = "logout"
  /\ token' = [token EXCEPT ![authTx[w].subject].status = "revoked"]
  /\ EndAuth(w)
  /\ UNCHANGED <<account, link, oauthState, reported, contended, crossed>>

----------------------------------------------------------------------------
(* One-time links *)

\* A request that voids only the links already expired.
ExpiredLinks(u, kind) ==
  {l \in Links : /\ link[l].status = "open" /\ link[l].expired
                /\ link[l].user = u /\ link[l].kind = kind}

OpenLinks(u, kind) ==
  {l \in Links : link[l].status = "open" /\ link[l].user = u /\ link[l].kind = kind}

\* send_verification_email refuses a verified address.
ReadSendLink(w, u, kind) ==
  /\ Exists(u)
  /\ kind = "verify" => ~account[u].verified
  /\ BeginAuth(w, [IdleAuth EXCEPT !.kind = "sendlink", !.user = u, !.purpose = kind,
                                   !.links = OpenLinks(u, kind)])
  /\ crossed' = crossed \cup
       (IF \E v \in AuthWorkers : /\ authTx[v].kind = "sendlink"
                                  /\ authTx[v].user = u
                                  /\ authTx[v].purpose = kind
          THEN {<<u, kind>>} ELSE {})
  /\ UNCHANGED <<account, token, link, oauthState, reported, contended>>

\* The links seen open are voided and a new one is created and mailed; a request
\* that fails after the mail leaves the user with a link that is not stored.
CommitSendLink(w, l) ==
  /\ authTx[w].kind = "sendlink"
  /\ link[l].status = "none"
  /\ \A m \in Links : m < l => link[m].status # "none"
  /\ link' = [m \in Links |->
       IF m = l THEN [status |-> "open", kind |-> authTx[w].purpose,
                      user |-> authTx[w].user, expired |-> FALSE]
       ELSE IF m \in authTx[w].links THEN [link[m] EXCEPT !.status = "used"]
       ELSE link[m]]
  /\ EndAuth(w)
  /\ UNCHANGED <<account, token, oauthState, reported, contended, crossed>>

LinkExpires(l) ==
  /\ link[l].status = "open"
  /\ ~link[l].expired
  /\ link' = [link EXCEPT ![l].expired = TRUE]
  /\ UNCHANGED <<account, token, oauthState, authTx, reported, contended, crossed>>

ReadUseLink(w, l) ==
  /\ link[l].status = "open"
  /\ ~link[l].expired
  /\ BeginAuth(w, [IdleAuth EXCEPT !.kind = "uselink", !.subject = l])
  /\ UNCHANGED <<account, token, link, oauthState, reported, contended, crossed>>

\* verify_email marks the address verified; reset_password writes a password and
\* leaves the sessions of the user alone.
CommitUseLink(w) ==
  LET l == authTx[w].subject IN
  /\ authTx[w].kind = "uselink"
  /\ link' = [link EXCEPT ![l].status = "used"]
  /\ account' = IF link[l].kind = "verify"
                  THEN [account EXCEPT ![link[l].user].verified = TRUE] ELSE account
  /\ EndAuth(w)
  /\ UNCHANGED <<token, oauthState, reported, contended, crossed>>

----------------------------------------------------------------------------
(* OAuth sign-in *)

\* The authorization URL: its state is stored in Redis, or the store fails silently.
store_state(p) ==
  /\ p \notin oauthState
  /\ oauthState' = oauthState \cup {p}
  /\ UNCHANGED <<account, token, link, authTx, reported, contended, crossed>>

StateExpires(p) ==
  /\ p \in oauthState
  /\ oauthState' = oauthState \ {p}
  /\ UNCHANGED <<account, token, link, authTx, reported, contended, crossed>>

\* The callback carries a state that is in Redis, or none at all.
ReadCallback(w, x, withState) ==
  /\ withState => ProviderOf[x] \in oauthState
  /\ BeginAuth(w, [IdleAuth EXCEPT !.kind = "callback", !.identity = x,
                                   !.subject = IF withState THEN 1 ELSE 0])
  /\ UNCHANGED <<account, token, link, oauthState, reported, contended, crossed>>

\* The state is deleted; after the provider answered, the user is looked up by the
\* provider's id, then by address, which authTx[w].email then records.  Nobody: a new
\* user is created.
ReadIdentity(w) ==
  LET x == authTx[w].identity
      byId == get_by_provider_id(x)
      found == IF byId # {} THEN byId ELSE get_by_email(EmailOf[x])
  IN
  /\ authTx[w].kind = "callback"
  /\ oauthState' = IF authTx[w].subject = 1 THEN oauthState \ {ProviderOf[x]}
                                            ELSE oauthState
  /\ \E u \in Users \cup {Nobody} :
       /\ IF found = {} THEN u = Nobody ELSE u \in found
       /\ u # Nobody => account[u].active
       /\ authTx' = [authTx EXCEPT ![w].kind = "signin", ![w].user = u,
                     ![w].email = IF byId = {} THEN EmailOf[x] ELSE Nobody]
  /\ UNCHANGED <<account, token, link, reported, contended, crossed>>

\* A user found by address gets the id, which replaces one of the same provider; the
\* unique index on the id holds.
CommitSignIn(w, t) ==
  LET x == authTx[w].identity
      u == authTx[w].user
      others == {y \in account[u].ids : ProviderOf[y] # ProviderOf[x]}
  IN
  /\ authTx[w].kind = "signin"
  /\ u # Nobody
  /\ NextToken(t)
  /\ \/ /\ authTx[w].email = Nobody
        /\ UNCHANGED account
     \/ /\ authTx[w].email # Nobody
        /\ get_by_provider_id(x) \subseteq {u}
        /\ account' = [account EXCEPT ![u].ids = others \cup {x}]
  /\ StartSession(t, u)
  /\ EndAuth(w)
  /\ UNCHANGED <<link, oauthState, reported, contended, crossed>>

\* A new user with an organization; verified says what the provider says.
CommitSignUp(w, u, t, verified) ==
  LET x == authTx[w].identity IN
  /\ authTx[w].kind = "signin"
  /\ authTx[w].user = Nobody
  /\ ProviderOf[x] = "google" => verified
  /\ get_by_email(EmailOf[x]) = {}
  /\ get_by_provider_id(x) = {}
  /\ ~Exists(u)
  /\ NextToken(t)
  /\ account' = [account EXCEPT ![u] = [email |-> EmailOf[x], active |-> TRUE,
                                        verified |-> verified, ids |-> {x}]]
  /\ StartSession(t, u)
  /\ EndAuth(w)
  /\ UNCHANGED <<link, oauthState, reported, contended, crossed>>

----------------------------------------------------------------------------
(* Profile and administration *)

\* update_profile: the address must not be another user's.
ReadProfile(w, u, e) ==
  /\ Exists(u)
  /\ get_by_email(e) \subseteq {u}
  /\ BeginAuth(w, [IdleAuth EXCEPT !.kind = "profile", !.user = u, !.email = e])
  /\ UNCHANGED <<account, token, link, oauthState, reported, contended, crossed>>

CommitProfile(w) ==
  /\ authTx[w].kind = "profile"
  /\ get_by_email(authTx[w].email) \subseteq {authTx[w].user}
  /\ account' = [account EXCEPT ![authTx[w].user].email = authTx[w].email]
  /\ EndAuth(w)
  /\ UNCHANGED <<token, link, oauthState, reported, contended, crossed>>

\* An administrator disables or enables the account.
SetActive(u, active) ==
  /\ Exists(u)
  /\ account[u].active # active
  /\ account' = [account EXCEPT ![u].active = active]
  /\ UNCHANGED <<token, link, oauthState, authTx, reported, contended, crossed>>

----------------------------------------------------------------------------

SessionsNext ==
  \/ \E w \in AuthWorkers, t \in Tokens :
       \/ CommitLogin(w, t)
       \/ ReadRefresh(w, t)
       \/ CommitRefresh(w, t)
       \/ ReadLogout(w, t)
       \/ CommitSignIn(w, t)
       \/ \E u \in Users : CommitRegister(w, u, t)
       \/ \E u \in Users, v \in BOOLEAN : CommitSignUp(w, u, t, v)
  \/ \E w \in AuthWorkers :
       \/ ReadSequence(w)
       \/ ReuseDetected(w)
       \/ CommitLogout(w)
       \/ CommitUseLink(w)
       \/ ReadIdentity(w)
       \/ CommitProfile(w)
       \/ AbortAuth(w)
       \/ \E e \in Emails : ReadRegister(w, e)
       \/ \E u \in Users : ReadLogin(w, u)
       \/ \E u \in Users, kind \in {"verify", "reset"} : ReadSendLink(w, u, kind)
       \/ \E l \in Links : CommitSendLink(w, l) \/ ReadUseLink(w, l)
       \/ \E x \in Identities, s \in BOOLEAN : ReadCallback(w, x, s)
       \/ \E u \in Users, e \in Emails : ReadProfile(w, u, e)
  \/ \E l \in Links : LinkExpires(l)
  \/ \E p \in {"google", "github"} : store_state(p) \/ StateExpires(p)
  \/ \E u \in Users, b \in BOOLEAN : SetActive(u, b)

SessionsSpec == SessionsInit /\ [][SessionsNext]_sessionsVars

----------------------------------------------------------------------------
(* Properties *)

\* Rotation keeps one session per family: unless two refreshes of a family were
\* open at once, it has at most one live token, and that one has the highest
\* sequence; the tokens rotated before it stay revoked.
LoneFamilyHasOneLiveToken ==
  \A s, t \in Tokens :
    (Live(t) /\ Issued(s) /\ s # t /\ token[s].family = token[t].family
       /\ token[t].family \notin contended)
      => (~Live(s) /\ token[s].sequence < token[t].sequence)

\* Reuse is only ever reported for a family with two refreshes open at once: a
\* rotated token presented again is already revoked and refused before that.
ReuseOnlyAfterContention == reported \subseteq contended

\* A user has one open link of a kind, the last one mailed, unless two requests
\* for that kind of link were open at once.
OneOpenLink ==
  \A l, m \in Links :
    (link[l].status = "open" /\ link[m].status = "open" /\ l # m
       /\ link[l].user = link[m].user /\ link[l].kind = link[m].kind)
      => <<link[l].user, link[l].kind>> \in crossed

\* Detecting the reuse of a token revokes its whole family: after the answer "session
\* has been revoked", no token of the family is live.
ReuseRevokesFamily ==
  \A t \in Tokens : token[t].family \in reported => ~Live(t)
=============================================================================
