--------------------------- MODULE SessionsProofs ---------------------------
(***************************************************************************)
(* Theorems about Sessions for any number of workers, users, addresses,    *)
(* identities, tokens and links.                                           *)
(***************************************************************************)
EXTENDS Sessions, TLAPS

----------------------------------------------------------------------------
(* The inductive invariant *)

\* What an open request is about.
TxOK(tx) ==
  /\ tx.kind \in {"refresh", "rotate", "logout"} => tx.subject \in Tokens /\ Issued(tx.subject)
  /\ tx.kind = "uselink" => tx.subject \in Links /\ link[tx.subject].status # "none"
  /\ tx.kind = "sendlink" => \A l \in Links : l \in tx.links => link[l].status # "none"
  /\ tx.kind \in {"login", "sendlink", "profile"} => tx.user \in Users
  /\ tx.kind \in {"register", "profile"} => tx.email \in Emails
  /\ tx.kind \in {"callback", "signin"} => tx.identity \in Identities

SubjectsOK == \A w \in AuthWorkers : TxOK(authTx[w])

\* A family is named after a token that has been issued.
FamiliesOK ==
  \A t \in Tokens :
    IF Issued(t) THEN /\ token[t].family \in Tokens
                      /\ Issued(token[t].family)
                      /\ token[t].user \in Users
                 ELSE token[t].family = 0

InFamily(t, f) == Issued(t) /\ token[t].family = f

\* s is a rotated token of the family whose latest one is t.
Rotates(s, t) == ~Live(s) /\ token[s].sequence < token[t].sequence

\* A refresh that is alone in its family rotates the latest token of it.
RefreshOK(w, f) ==
  /\ \A v \in AuthWorkers \ {w} : ~Refreshing(v, f)
  /\ \A s \in Tokens : InFamily(s, f) /\ s # authTx[w].subject => Rotates(s, authTx[w].subject)

RotationOK ==
  \A f \in Tokens \ contended :
    /\ \A s, t \in Tokens : InFamily(s, f) /\ InFamily(t, f) /\ Live(t) /\ s # t => Rotates(s, t)
    /\ \A w \in AuthWorkers : Refreshing(w, f) => RefreshOK(w, f)

Sending(w, u, k) ==
  authTx[w].kind = "sendlink" /\ authTx[w].user = u /\ authTx[w].purpose = k

\* A link request that is alone voids every open link of its kind.
LinksOK ==
  /\ \A l \in Links : link[l].status # "none" => link[l].user \in Users
  /\ \A u \in Users, k \in {"verify", "reset"} : <<u, k>> \notin crossed =>
       /\ \A l, m \in OpenLinks(u, k) : l = m
       /\ \A w \in AuthWorkers : Sending(w, u, k) =>
            /\ OpenLinks(u, k) \subseteq authTx[w].links
            /\ \A v \in AuthWorkers \ {w} : ~Sending(v, u, k)

SessionsInv ==
  /\ SessionsTypeOK
  /\ SubjectsOK
  /\ FamiliesOK
  /\ RotationOK
  /\ LinksOK
  /\ ReuseOnlyAfterContention

----------------------------------------------------------------------------
(* Lemmas about the parts *)

\* Initially there is no account, token or link.
LEMMA SessionsInitOK == SessionsInit => SessionsInv
<1> SUFFICES ASSUME SessionsInit PROVE SessionsInv
  OBVIOUS
<1> USE SessionsAssumption
    DEF SessionsInit, SessionsAssumption, NoAccount, NoToken, NoLink, IdleAuth
<1>1. 0 \in 0..MaxTokens
  OBVIOUS
<1>2. SessionsTypeOK
  BY <1>1 DEF SessionsTypeOK, AccountRow, TokenRow, LinkRow, AuthTx, AuthKinds
<1>3. SubjectsOK /\ FamiliesOK /\ ReuseOnlyAfterContention
  BY DEF SubjectsOK, TxOK, FamiliesOK, Issued, ReuseOnlyAfterContention
<1>4. RotationOK
  BY DEF RotationOK, InFamily, Issued, Refreshing
<1>5. LinksOK
  BY DEF LinksOK, OpenLinks, Sending
<1>6. QED
  BY <1>2, <1>3, <1>4, <1>5 DEF SessionsInv

\* The rotation part is kept by a step that writes no token and opens no refresh.
LEMMA RotationUntouched ==
  ASSUME SessionsInv, UNCHANGED token, contended \subseteq contended',
         \A v \in AuthWorkers : authTx'[v].kind \in {"refresh", "rotate"} =>
           authTx[v].kind \in {"refresh", "rotate"} /\ authTx'[v].subject = authTx[v].subject
  PROVE  FamiliesOK' /\ RotationOK'
<1> USE DEF SessionsInv
<1>1. FamiliesOK'
  BY DEF FamiliesOK, Issued
<1>2. \A v \in AuthWorkers, f \in Tokens :
        Refreshing(v, f)' => Refreshing(v, f) /\ authTx'[v].subject = authTx[v].subject
  BY DEF Refreshing
<1>3. \A s, t, f : /\ InFamily(s, f)' <=> InFamily(s, f)
                   /\ Live(t)' <=> Live(t)
                   /\ Rotates(s, t)' <=> Rotates(s, t)
  BY DEF InFamily, Issued, Live, Rotates
<1>4. ASSUME NEW f \in Tokens \ contended', NEW w \in AuthWorkers, Refreshing(w, f)'
      PROVE  RefreshOK(w, f)'
  <2>1. Refreshing(w, f) /\ authTx'[w].subject = authTx[w].subject /\ f \in Tokens \ contended
    BY <1>2, <1>4
  <2>2. RefreshOK(w, f)
    BY <2>1 DEF RotationOK
  <2>3. QED
    BY <1>2, <1>3, <2>1, <2>2 DEF RefreshOK, Rotates, Live
<1>5. ASSUME NEW f \in Tokens \ contended', NEW s \in Tokens, NEW t \in Tokens,
             InFamily(s, f)', InFamily(t, f)', Live(t)', s # t
      PROVE  Rotates(s, t)'
  BY <1>3, <1>5 DEF RotationOK
<1>6. QED
  BY <1>1, <1>4, <1>5 DEF RotationOK

\* The link part is kept by a step that writes no link and opens no link request.
LEMMA LinksUntouched ==
  ASSUME SessionsInv, UNCHANGED link, crossed \subseteq crossed',
         \A v \in AuthWorkers : authTx'[v].kind = "sendlink" => authTx'[v] = authTx[v]
  PROVE  LinksOK'
<1> USE DEF SessionsInv
<1>1. \A l \in Links : link'[l].status # "none" => link'[l].user \in Users
  BY DEF LinksOK
<1>2. ASSUME NEW u \in Users, NEW k \in {"verify", "reset"}, <<u, k>> \notin crossed'
      PROVE  /\ \A l, m \in OpenLinks(u, k)' : l = m
             /\ \A w \in AuthWorkers : Sending(w, u, k)' =>
                  /\ OpenLinks(u, k)' \subseteq authTx'[w].links
                  /\ \A v \in AuthWorkers \ {w} : ~Sending(v, u, k)'
  <2>1. OpenLinks(u, k)' = OpenLinks(u, k)
    BY DEF OpenLinks
  <2>2. \A v \in AuthWorkers : Sending(v, u, k)' => Sending(v, u, k) /\ authTx'[v] = authTx[v]
    BY DEF Sending
  <2>3. <<u, k>> \notin crossed
    BY <1>2
  <2>4. /\ \A l, m \in OpenLinks(u, k) : l = m
        /\ \A w \in AuthWorkers : Sending(w, u, k) =>
             /\ OpenLinks(u, k) \subseteq authTx[w].links
             /\ \A v \in AuthWorkers \ {w} : ~Sending(v, u, k)
    BY <2>3 DEF LinksOK
  <2>5. QED
    BY <2>1, <2>2, <2>4
<1>3. QED
  BY <1>1, <1>2 DEF LinksOK

\* Tokens are issued in order, and a family is named after its first: a token yet to be
\* issued names no family.
LEMMA NewFamily ==
  ASSUME SessionsInv, NEW t \in Tokens, NextToken(t)
  PROVE  \A s \in Tokens : token[s].family # t
<1> SUFFICES ASSUME NEW s \in Tokens, token[s].family = t PROVE FALSE
  OBVIOUS
<1>1. t # 0
  BY SessionsAssumption DEF Tokens, SessionsAssumption
<1>2. QED
  BY <1>1 DEF SessionsInv, FamiliesOK, NextToken

\* A link that is used keeps its user and its kind.
LEMMA LinkMarkedUsed ==
  ASSUME NEW f \in [Links -> LinkRow], NEW l \in Links, NEW g, g = [f EXCEPT ![l].status = "used"]
  PROVE  /\ g \in [Links -> LinkRow]
         /\ \A m \in Links : /\ g[m].user = f[m].user
                             /\ g[m].kind = f[m].kind
                             /\ g[m].status = IF m = l THEN "used" ELSE f[m].status
<1>1. PICK r \in LinkRow : r = f[l]
  OBVIOUS
<1>2. PICK n \in LinkRow : n = [r EXCEPT !.status = "used"]
  BY DEF LinkRow
<1>3. n.user = r.user /\ n.kind = r.kind /\ n.status = "used"
  BY <1>2 DEF LinkRow
<1>4. g = [f EXCEPT ![l] = n]
  BY <1>1, <1>2
<1>5. g \in [Links -> LinkRow] /\ g[l] = n /\ \A m \in Links \ {l} : g[m] = f[m]
  BY <1>4
<1>6. QED
  BY <1>1, <1>3, <1>5

\* The idle request, and a request that ends.
LEMMA IdleIsTx == IdleAuth \in AuthTx /\ IdleAuth.kind = "idle" /\ TxOK(IdleAuth)
BY DEF IdleAuth, AuthTx, AuthKinds, TxOK

LEMMA RequestEnds ==
  ASSUME SessionsTypeOK, NEW w \in AuthWorkers, EndAuth(w)
  PROVE  /\ authTx' \in [AuthWorkers -> AuthTx]
         /\ authTx'[w] = IdleAuth
         /\ \A v \in AuthWorkers \ {w} : authTx'[v] = authTx[v]
BY IdleIsTx DEF EndAuth, SessionsTypeOK

----------------------------------------------------------------------------
(* Requests that write no token and no link *)

\* A request moves on; accounts and states of OAuth may be written.
LEMMA RequestMoves ==
  ASSUME SessionsInv, NEW w \in AuthWorkers, NEW tx \in AuthTx, TxOK(tx),
         tx.kind \notin {"refresh", "rotate", "sendlink"},
         authTx' = [authTx EXCEPT ![w] = tx],
         account' \in [Users -> AccountRow],
         oauthState' \subseteq {"google", "github"},
         UNCHANGED <<token, link, reported, contended, crossed>>
  PROVE  SessionsInv'
<1> USE DEF SessionsInv
<1>1. \A v \in AuthWorkers : authTx'[v] = IF v = w THEN tx ELSE authTx[v]
  BY DEF SessionsTypeOK
<1>2. SessionsTypeOK'
  BY DEF SessionsTypeOK
<1>3. SubjectsOK'
  BY <1>1 DEF SubjectsOK, TxOK, Issued
<1>4. FamiliesOK' /\ RotationOK'
  BY <1>1, RotationUntouched
<1>5. LinksOK'
  BY <1>1, LinksUntouched
<1>6. ReuseOnlyAfterContention'
  BY DEF ReuseOnlyAfterContention
<1>7. QED
  BY <1>2, <1>3, <1>4, <1>5, <1>6

\* Opening a registration, a login, a logout, the use of a link, an OAuth callback or a
\* change of profile.
LEMMA ReadsPreserve ==
  ASSUME SessionsInv, NEW w \in AuthWorkers,
         \/ \E e \in Emails : ReadRegister(w, e)
         \/ \E u \in Users : ReadLogin(w, u)
         \/ \E t \in Tokens : ReadLogout(w, t)
         \/ \E l \in Links : ReadUseLink(w, l)
         \/ \E x \in Identities, s \in BOOLEAN : ReadCallback(w, x, s)
         \/ \E u \in Users, e \in Emails : ReadProfile(w, u, e)
  PROVE  SessionsInv'
<1>1. /\ account' \in [Users -> AccountRow]
      /\ oauthState' \subseteq {"google", "github"}
      /\ UNCHANGED <<token, link, reported, contended, crossed>>
  BY DEF SessionsInv, SessionsTypeOK, ReadRegister, ReadLogin, ReadLogout, ReadUseLink,
         ReadCallback, ReadProfile
<1>2. Tokens \subseteq Nat /\ Links \subseteq Nat
  BY SessionsAssumption DEF Tokens, Links, SessionsAssumption
<1>3. ASSUME NEW e \in Emails, ReadRegister(w, e) PROVE SessionsInv'
  <2> DEFINE tx == [IdleAuth EXCEPT !.kind = "register", !.email = e]
  <2>1. tx \in AuthTx /\ tx.kind = "register" /\ tx.email = e
    BY <1>2 DEF IdleAuth, AuthTx, AuthKinds
  <2>2. authTx' = [authTx EXCEPT ![w] = tx]
    BY <1>3 DEF ReadRegister, BeginAuth
  <2> HIDE DEF tx
  <2>3. TxOK(tx)
    BY <1>3, <2>1 DEF TxOK, ReadRegister
  <2>4. QED
    BY <1>1, <2>1, <2>2, <2>3, RequestMoves
<1>4. ASSUME NEW u \in Users, ReadLogin(w, u) PROVE SessionsInv'
  <2> DEFINE tx == [IdleAuth EXCEPT !.kind = "login", !.user = u]
  <2>1. tx \in AuthTx /\ tx.kind = "login" /\ tx.user = u
    BY <1>2 DEF IdleAuth, AuthTx, AuthKinds
  <2>2. authTx' = [authTx EXCEPT ![w] = tx]
    BY <1>4 DEF ReadLogin, BeginAuth
  <2> HIDE DEF tx
  <2>3. TxOK(tx)
    BY <1>4, <2>1 DEF TxOK, ReadLogin
  <2>4. QED
    BY <1>1, <2>1, <2>2, <2>3, RequestMoves
<1>5. ASSUME NEW t \in Tokens, ReadLogout(w, t) PROVE SessionsInv'
  <2> DEFINE tx == [IdleAuth EXCEPT !.kind = "logout", !.subject = t]
  <2>1. tx \in AuthTx /\ tx.kind = "logout" /\ tx.subject = t
    BY <1>2 DEF IdleAuth, AuthTx, AuthKinds
  <2>2. authTx' = [authTx EXCEPT ![w] = tx]
    BY <1>5 DEF ReadLogout, BeginAuth
  <2> HIDE DEF tx
  <2>3. TxOK(tx)
    BY <1>5, <2>1 DEF TxOK, ReadLogout, Live, Issued
  <2>4. QED
    BY <1>1, <2>1, <2>2, <2>3, RequestMoves
<1>6. ASSUME NEW l \in Links, ReadUseLink(w, l) PROVE SessionsInv'
  <2> DEFINE tx == [IdleAuth EXCEPT !.kind = "uselink", !.subject = l]
  <2>1. tx \in AuthTx /\ tx.kind = "uselink" /\ tx.subject = l
    BY <1>2 DEF IdleAuth, AuthTx, AuthKinds
  <2>2. authTx' = [authTx EXCEPT ![w] = tx]
    BY <1>6 DEF ReadUseLink, BeginAuth
  <2> HIDE DEF tx
  <2>3. TxOK(tx)
    BY <1>6, <2>1 DEF TxOK, ReadUseLink
  <2>4. QED
    BY <1>1, <2>1, <2>2, <2>3, RequestMoves
<1>7. ASSUME NEW x \in Identities, NEW s \in BOOLEAN, ReadCallback(w, x, s) PROVE SessionsInv'
  <2> DEFINE n == IF s THEN 1 ELSE 0
  <2> DEFINE tx == [IdleAuth EXCEPT !.kind = "callback", !.identity = x, !.subject = n]
  <2>1. n \in Nat
    OBVIOUS
  <2>2. authTx' = [authTx EXCEPT ![w] = tx]
    BY <1>7 DEF ReadCallback, BeginAuth
  <2> HIDE DEF n
  <2>3. tx \in AuthTx /\ tx.kind = "callback" /\ tx.identity = x
    BY <2>1 DEF IdleAuth, AuthTx, AuthKinds
  <2> HIDE DEF tx
  <2>4. TxOK(tx)
    BY <2>3 DEF TxOK
  <2>5. QED
    BY <1>1, <2>2, <2>3, <2>4, RequestMoves
<1>8. ASSUME NEW u \in Users, NEW e \in Emails, ReadProfile(w, u, e) PROVE SessionsInv'
  <2> DEFINE tx == [IdleAuth EXCEPT !.kind = "profile", !.user = u, !.email = e]
  <2>1. tx \in AuthTx /\ tx.kind = "profile" /\ tx.user = u /\ tx.email = e
    BY <1>2 DEF IdleAuth, AuthTx, AuthKinds
  <2>2. authTx' = [authTx EXCEPT ![w] = tx]
    BY <1>8 DEF ReadProfile, BeginAuth
  <2> HIDE DEF tx
  <2>3. TxOK(tx)
    BY <1>8, <2>1 DEF TxOK, ReadProfile
  <2>4. QED
    BY <1>1, <2>1, <2>2, <2>3, RequestMoves
<1>9. QED
  BY <1>3, <1>4, <1>5, <1>6, <1>7, <1>8

\* The provider answered and the user was looked up.
LEMMA ReadIdentityPreserves ==
  ASSUME SessionsInv, NEW w \in AuthWorkers, ReadIdentity(w)
  PROVE  SessionsInv'
<1> USE DEF SessionsInv
<1>1. PICK u \in Users \cup {Nobody}, e \in Emails \cup {Nobody} :
        authTx' = [authTx EXCEPT ![w].kind = "signin", ![w].user = u, ![w].email = e]
  <2>1. authTx[w].identity \in Identities
    BY DEF ReadIdentity, SubjectsOK, TxOK
  <2>2. EmailOf[authTx[w].identity] \in Emails
    BY <2>1, SessionsAssumption DEF SessionsAssumption
  <2>3. QED
    BY <2>2 DEF ReadIdentity
<1>2. authTx[w] \in AuthTx /\ authTx[w].identity \in Identities
  BY DEF SessionsTypeOK, ReadIdentity, SubjectsOK, TxOK
<1> DEFINE tx == [authTx[w] EXCEPT !.kind = "signin", !.user = u, !.email = e]
<1>3. tx \in AuthTx /\ tx.kind = "signin" /\ tx.identity \in Identities
  BY <1>2 DEF AuthTx, AuthKinds
<1>4. authTx' = [authTx EXCEPT ![w] = tx]
  BY <1>1 DEF SessionsTypeOK
<1> HIDE DEF tx
<1>5. TxOK(tx)
  BY <1>3 DEF TxOK
<1>6. /\ oauthState' \subseteq {"google", "github"}
      /\ UNCHANGED <<account, token, link, reported, contended, crossed>>
  BY DEF ReadIdentity, SessionsTypeOK
<1>7. account \in [Users -> AccountRow]
  BY DEF SessionsTypeOK
<1>8. QED
  BY <1>3, <1>4, <1>5, <1>6, <1>7, RequestMoves

\* A profile is written, or a request is given up.
LEMMA EndsPreserve ==
  ASSUME SessionsInv, NEW w \in AuthWorkers, CommitProfile(w) \/ AbortAuth(w)
  PROVE  SessionsInv'
<1> USE DEF SessionsInv
<1>1. /\ authTx' = [authTx EXCEPT ![w] = IdleAuth]
      /\ UNCHANGED <<oauthState, token, link, reported, contended, crossed>>
  BY DEF CommitProfile, AbortAuth, EndAuth
<1>2. account' \in [Users -> AccountRow]
  <2>1. CASE CommitProfile(w)
    <3>1. authTx[w].user \in Users /\ authTx[w].email \in Emails
      BY <2>1 DEF CommitProfile, SubjectsOK, TxOK
    <3>2. account' = [account EXCEPT ![authTx[w].user].email = authTx[w].email]
      BY <2>1 DEF CommitProfile
    <3>3. QED
      BY <3>1, <3>2 DEF SessionsTypeOK, AccountRow
  <2>2. CASE AbortAuth(w)
    BY <2>2 DEF AbortAuth, SessionsTypeOK
  <2>3. QED
    BY <2>1, <2>2
<1>3. oauthState \subseteq {"google", "github"}
  BY DEF SessionsTypeOK
<1>4. QED
  BY <1>1, <1>2, <1>3, IdleIsTx, RequestMoves

\* A link or a state of OAuth expires, a state is stored, an account is disabled or enabled.
LEMMA OutsidePreserves ==
  ASSUME SessionsInv,
         \/ \E l \in Links : LinkExpires(l)
         \/ \E p \in {"google", "github"} : store_state(p) \/ StateExpires(p)
         \/ \E u \in Users, b \in BOOLEAN : SetActive(u, b)
  PROVE  SessionsInv'
<1> USE DEF SessionsInv
<1>1. UNCHANGED <<token, authTx, reported, contended, crossed>>
  BY DEF LinkExpires, store_state, StateExpires, SetActive
<1>2. account' \in [Users -> AccountRow] /\ oauthState' \subseteq {"google", "github"}
  <2>1. ASSUME NEW u \in Users, NEW b \in BOOLEAN, SetActive(u, b)
        PROVE  account' \in [Users -> AccountRow] /\ oauthState' \subseteq {"google", "github"}
    BY <2>1 DEF SetActive, SessionsTypeOK, AccountRow
  <2>2. QED
    BY <2>1 DEF LinkExpires, store_state, StateExpires, SessionsTypeOK
<1>3. /\ link' \in [Links -> LinkRow]
      /\ \A l \in Links : /\ link'[l].status = link[l].status
                          /\ link'[l].user = link[l].user
                          /\ link'[l].kind = link[l].kind
  <2>1. ASSUME NEW l \in Links, LinkExpires(l)
        PROVE  /\ link' \in [Links -> LinkRow]
               /\ \A m \in Links : /\ link'[m].status = link[m].status
                                   /\ link'[m].user = link[m].user
                                   /\ link'[m].kind = link[m].kind
    <3>1. link' = [link EXCEPT ![l].expired = TRUE]
      BY <2>1 DEF LinkExpires
    <3>2. link \in [Links -> LinkRow]
      BY DEF SessionsTypeOK
    <3>3. PICK r \in LinkRow : r = link[l]
      BY <3>2
    <3>4. PICK n \in LinkRow : n = [r EXCEPT !.expired = TRUE]
      BY DEF LinkRow
    <3>5. n.user = r.user /\ n.kind = r.kind /\ n.status = r.status
      BY <3>4 DEF LinkRow
    <3>6. link' = [link EXCEPT ![l] = n]
      BY <3>1, <3>3, <3>4
    <3>7. link' \in [Links -> LinkRow] /\ link'[l] = n /\ \A m \in Links \ {l} : link'[m] = link[m]
      BY <3>2, <3>6
    <3>8. QED
      BY <3>3, <3>5, <3>7
  <2>2. QED
    BY <2>1 DEF store_state, StateExpires, SetActive, SessionsTypeOK
<1>4. SessionsTypeOK'
  BY <1>1, <1>2, <1>3 DEF SessionsTypeOK
<1>5. SubjectsOK'
  BY <1>1, <1>3 DEF SubjectsOK, TxOK, Issued
<1>6. FamiliesOK' /\ RotationOK'
  BY <1>1, RotationUntouched
<1>7. LinksOK'
  <2>1. \A l \in Links : link'[l].status # "none" => link'[l].user \in Users
    BY <1>3 DEF LinksOK
  <2>2. ASSUME NEW u \in Users, NEW k \in {"verify", "reset"}, <<u, k>> \notin crossed'
        PROVE  /\ \A l, m \in OpenLinks(u, k)' : l = m
               /\ \A w \in AuthWorkers : Sending(w, u, k)' =>
                    /\ OpenLinks(u, k)' \subseteq authTx'[w].links
                    /\ \A v \in AuthWorkers \ {w} : ~Sending(v, u, k)'
    <3>1. <<u, k>> \notin crossed
      BY <1>1, <2>2
    <3>2. /\ \A l, m \in OpenLinks(u, k) : l = m
          /\ \A w \in AuthWorkers : Sending(w, u, k) =>
               /\ OpenLinks(u, k) \subseteq authTx[w].links
               /\ \A v \in AuthWorkers \ {w} : ~Sending(v, u, k)
      BY <3>1 DEF LinksOK
    <3>3. OpenLinks(u, k)' = OpenLinks(u, k)
      BY <1>3 DEF OpenLinks
    <3>4. \A v \in AuthWorkers : Sending(v, u, k)' <=> Sending(v, u, k)
      BY <1>1 DEF Sending
    <3>5. QED
      BY <1>1, <3>2, <3>3, <3>4
  <2>3. QED
    BY <2>1, <2>2 DEF LinksOK
<1>8. ReuseOnlyAfterContention'
  BY <1>1 DEF ReuseOnlyAfterContention
<1>9. QED
  BY <1>4, <1>5, <1>6, <1>7, <1>8

----------------------------------------------------------------------------
(* Requests that write tokens *)

\* A registration, a login or a sign-in starts a family of its own.
LEMMA SessionStarts ==
  ASSUME SessionsInv, NEW w \in AuthWorkers, NEW t \in Tokens, NEW u \in Users,
         NextToken(t), StartSession(t, u), EndAuth(w),
         account' \in [Users -> AccountRow],
         UNCHANGED <<link, oauthState, reported, contended, crossed>>
  PROVE  SessionsInv'
<1> USE DEF SessionsInv
<1>1. /\ authTx' \in [AuthWorkers -> AuthTx]
      /\ authTx'[w] = IdleAuth
      /\ \A v \in AuthWorkers \ {w} : authTx'[v] = authTx[v]
  BY RequestEnds
<1>2. /\ t \in Nat /\ t # 0 /\ t \in 0..MaxTokens
      /\ ~Issued(t)
      /\ \A s \in Tokens : token[s].family # t
  BY NewFamily, SessionsAssumption DEF Tokens, SessionsAssumption, NextToken
<1>3. token' = [token EXCEPT ![t] = [status |-> "live", user |-> u, family |-> t, sequence |-> 1]]
  BY DEF StartSession, create_refresh_token
<1>4. /\ token' \in [Tokens -> TokenRow]
      /\ token'[t] = [status |-> "live", user |-> u, family |-> t, sequence |-> 1]
      /\ \A s \in Tokens \ {t} : token'[s] = token[s]
  BY <1>2, <1>3 DEF SessionsTypeOK, TokenRow
<1>5. SessionsTypeOK'
  BY <1>1, <1>4 DEF SessionsTypeOK
<1>6. SubjectsOK'
  BY <1>1, <1>4, IdleIsTx DEF SubjectsOK, TxOK, Issued, IdleAuth
<1>7. FamiliesOK'
  BY <1>4 DEF FamiliesOK, Issued
<1>8. RotationOK'
  <2>1. ASSUME NEW v \in AuthWorkers, NEW f \in Tokens, Refreshing(v, f)'
        PROVE  /\ Refreshing(v, f) /\ v # w /\ f # t /\ authTx'[v] = authTx[v]
               /\ authTx[v].subject \in Tokens \ {t}
    <3>1. authTx'[v].kind \in {"refresh", "rotate"} /\ token'[authTx'[v].subject].family = f
      BY <2>1 DEF Refreshing
    <3>2. v # w /\ authTx'[v] = authTx[v]
      BY <1>1, <3>1 DEF IdleAuth
    <3>3. authTx[v].subject \in Tokens /\ Issued(authTx[v].subject)
      BY <3>1, <3>2 DEF SubjectsOK, TxOK
    <3>4. authTx[v].subject \in Tokens \ {t}
      BY <1>2, <3>3
    <3>5. token[authTx[v].subject].family = f
      BY <1>4, <3>1, <3>2, <3>4
    <3>6. QED
      BY <1>2, <3>1, <3>2, <3>4, <3>5 DEF Refreshing
  <2>2. \A s \in Tokens, f \in Tokens \ {t} : InFamily(s, f)' => InFamily(s, f) /\ s # t
    BY <1>2, <1>4 DEF InFamily, Issued
  <2>3. \A s \in Tokens : InFamily(s, t)' => s = t
    BY <1>2, <1>4 DEF InFamily, Issued
  <2>4. \A s, r \in Tokens \ {t} : (Live(r)' => Live(r)) /\ (Rotates(s, r) => Rotates(s, r)')
    BY <1>4 DEF Live, Rotates
  <2>5. ASSUME NEW f \in Tokens \ contended', NEW s \in Tokens, NEW r \in Tokens,
               InFamily(s, f)', InFamily(r, f)', Live(r)', s # r
        PROVE  Rotates(s, r)'
    BY <2>2, <2>3, <2>4, <2>5 DEF RotationOK
  <2>6. ASSUME NEW f \in Tokens \ contended', NEW v \in AuthWorkers, Refreshing(v, f)'
        PROVE  RefreshOK(v, f)'
    <3>1. /\ Refreshing(v, f) /\ f # t /\ authTx'[v] = authTx[v]
          /\ authTx[v].subject \in Tokens \ {t}
      BY <2>1, <2>6
    <3>2. RefreshOK(v, f)
      BY <2>6, <3>1 DEF RotationOK
    <3>3. \A x \in AuthWorkers \ {v} : ~Refreshing(x, f)'
      BY <2>1, <3>2 DEF RefreshOK
    <3>4. ASSUME NEW s \in Tokens, InFamily(s, f)', s # authTx'[v].subject
          PROVE  Rotates(s, authTx[v].subject)'
      <4>1. InFamily(s, f) /\ s \in Tokens \ {t} /\ Rotates(s, authTx[v].subject)
        BY <2>2, <3>1, <3>2, <3>4 DEF RefreshOK
      <4>2. QED
        BY <1>4, <3>1, <4>1 DEF Rotates, Live
    <3>5. QED
      BY <3>1, <3>3, <3>4 DEF RefreshOK, Rotates, Live
  <2>7. QED
    BY <2>5, <2>6 DEF RotationOK
<1>9. LinksOK'
  BY <1>1, LinksUntouched DEF IdleAuth
<1>10. ReuseOnlyAfterContention'
  BY DEF ReuseOnlyAfterContention
<1>11. QED
  BY <1>5, <1>6, <1>7, <1>8, <1>9, <1>10

\* The four requests that start a session.
LEMMA SessionCommits ==
  ASSUME SessionsInv, NEW w \in AuthWorkers, NEW t \in Tokens,
         \/ CommitLogin(w, t)
         \/ CommitSignIn(w, t)
         \/ \E u \in Users : CommitRegister(w, u, t)
         \/ \E u \in Users, v \in BOOLEAN : CommitSignUp(w, u, t, v)
  PROVE  SessionsInv'
<1> USE DEF SessionsInv
<1>1. account \in [Users -> AccountRow] /\ \A v \in AuthWorkers : authTx[v] \in AuthTx
  BY DEF SessionsTypeOK
<1>2. CASE CommitLogin(w, t)
  <2>1. authTx[w].user \in Users
    BY <1>2 DEF CommitLogin, SubjectsOK, TxOK
  <2>2. QED
    BY <1>1, <1>2, <2>1, SessionStarts DEF CommitLogin
<1>3. CASE CommitSignIn(w, t)
  <2>1. authTx[w].identity \in Identities /\ authTx[w].user \in Users
    BY <1>1, <1>3 DEF CommitSignIn, SubjectsOK, TxOK, AuthTx
  <2>2. account' \in [Users -> AccountRow]
    <3>1. PICK ids \in SUBSET Identities :
            account' = account \/ account' = [account EXCEPT ![authTx[w].user].ids = ids]
      BY <1>1, <1>3, <2>1 DEF CommitSignIn, AccountRow
    <3>2. QED
      BY <1>1, <2>1, <3>1 DEF AccountRow
  <2>3. QED
    BY <1>3, <2>1, <2>2, SessionStarts DEF CommitSignIn
<1>4. ASSUME NEW u \in Users, CommitRegister(w, u, t) PROVE SessionsInv'
  <2>1. authTx[w].email \in Emails
    BY <1>4 DEF CommitRegister, SubjectsOK, TxOK
  <2>2. account' \in [Users -> AccountRow]
    BY <1>1, <1>4, <2>1 DEF CommitRegister, NoAccount, AccountRow
  <2>3. QED
    BY <1>4, <2>2, SessionStarts DEF CommitRegister
<1>5. ASSUME NEW u \in Users, NEW v \in BOOLEAN, CommitSignUp(w, u, t, v) PROVE SessionsInv'
  <2>1. authTx[w].identity \in Identities
    BY <1>5 DEF CommitSignUp, SubjectsOK, TxOK
  <2>2. EmailOf[authTx[w].identity] \in Emails
    BY <2>1, SessionsAssumption DEF SessionsAssumption
  <2>3. account' \in [Users -> AccountRow]
    BY <1>1, <1>5, <2>1, <2>2 DEF CommitSignUp, AccountRow
  <2>4. QED
    BY <1>5, <2>3, SessionStarts DEF CommitSignUp
<1>6. QED
  BY <1>2, <1>3, <1>4, <1>5

\* Opening a refresh: the family is contended, or the refresh is alone and presents its
\* latest token.
LEMMA ReadRefreshPreserves ==
  ASSUME SessionsInv, NEW w \in AuthWorkers, NEW t \in Tokens, ReadRefresh(w, t)
  PROVE  SessionsInv'
<1> DEFINE tx == [IdleAuth EXCEPT !.kind = "refresh", !.subject = t]
           g == token[t].family
<1> USE DEF SessionsInv
<1>1. /\ Live(t)
      /\ authTx' = [authTx EXCEPT ![w] = tx]
      /\ contended' = contended \cup
           (IF \E v \in AuthWorkers : Refreshing(v, g) THEN {g} ELSE {})
      /\ UNCHANGED <<account, token, link, oauthState, reported, crossed>>
  BY DEF ReadRefresh, Acceptable, BeginAuth
<1>2. t \in Nat /\ Issued(t) /\ g \in Tokens
  BY <1>1, SessionsAssumption DEF Live, Issued, FamiliesOK, Tokens, SessionsAssumption
<1>3. tx \in AuthTx /\ tx.kind = "refresh" /\ tx.subject = t
  BY <1>2 DEF IdleAuth, AuthTx, AuthKinds
<1> HIDE DEF tx
<1>4. \A v \in AuthWorkers : authTx'[v] = IF v = w THEN tx ELSE authTx[v]
  BY <1>1 DEF SessionsTypeOK
<1>5. SessionsTypeOK'
  BY <1>1, <1>2, <1>3 DEF SessionsTypeOK
<1>6. SubjectsOK'
  BY <1>1, <1>2, <1>3, <1>4 DEF SubjectsOK, TxOK, Issued
<1>7. FamiliesOK'
  BY <1>1 DEF FamiliesOK, Issued
<1>8. RotationOK'
  <2>1. \A v \in AuthWorkers, f \in Tokens :
          Refreshing(v, f)' <=> IF v = w THEN f = g ELSE Refreshing(v, f)
    BY <1>1, <1>3, <1>4 DEF Refreshing
  <2>2. \A s, f : InFamily(s, f)' <=> InFamily(s, f)
    BY <1>1 DEF InFamily, Issued
  <2>3. ASSUME NEW f \in Tokens \ contended', NEW s \in Tokens, NEW r \in Tokens,
               InFamily(s, f)', InFamily(r, f)', Live(r)', s # r
        PROVE  Rotates(s, r)'
    BY <1>1, <2>2, <2>3 DEF RotationOK, Rotates, Live
  <2>4. ASSUME NEW f \in Tokens \ contended', NEW v \in AuthWorkers, Refreshing(v, f)'
        PROVE  RefreshOK(v, f)'
    <3>1. CASE f = g
      <4>1. \A x \in AuthWorkers : ~Refreshing(x, g)
        BY <1>1, <2>4, <3>1
      <4>2. v = w
        BY <2>1, <2>4, <3>1, <4>1
      <4>3. \A x \in AuthWorkers \ {v} : ~Refreshing(x, f)'
        BY <2>1, <3>1, <4>1, <4>2
      <4>4. authTx'[v].subject = t
        BY <1>3, <1>4, <4>2
      <4>5. ASSUME NEW s \in Tokens, InFamily(s, f)', s # t PROVE Rotates(s, t)'
        <5>1. InFamily(s, g) /\ InFamily(t, g) /\ g \in Tokens \ contended
          BY <1>1, <1>2, <2>2, <2>4, <3>1, <4>5 DEF InFamily
        <5>2. Rotates(s, t)
          BY <1>1, <4>5, <5>1 DEF RotationOK
        <5>3. QED
          BY <1>1, <5>2 DEF Rotates, Live
      <4>6. QED
        BY <4>3, <4>4, <4>5 DEF RefreshOK, Rotates, Live
    <3>2. CASE f # g
      <4>1. v # w /\ Refreshing(v, f) /\ authTx'[v] = authTx[v]
        BY <1>4, <2>1, <2>4, <3>2
      <4>2. RefreshOK(v, f)
        BY <1>1, <2>4, <4>1 DEF RotationOK
      <4>3. \A x \in AuthWorkers \ {v} : ~Refreshing(x, f)'
        BY <2>1, <3>2, <4>2 DEF RefreshOK
      <4>4. QED
        BY <1>1, <2>2, <4>1, <4>2, <4>3 DEF RefreshOK, Rotates, Live
    <3>3. QED
      BY <3>1, <3>2
  <2>5. QED
    BY <2>3, <2>4 DEF RotationOK
<1>9. LinksOK'
  BY <1>1, <1>3, <1>4, LinksUntouched
<1>10. ReuseOnlyAfterContention'
  BY <1>1 DEF ReuseOnlyAfterContention
<1>11. QED
  BY <1>5, <1>6, <1>7, <1>8, <1>9, <1>10

\* The sequence is the latest: the refresh goes on.
LEMMA ReadSequencePreserves ==
  ASSUME SessionsInv, NEW w \in AuthWorkers, ReadSequence(w)
  PROVE  SessionsInv'
<1> USE DEF SessionsInv
<1>1. /\ authTx[w].kind = "refresh"
      /\ authTx' = [authTx EXCEPT ![w].kind = "rotate"]
      /\ UNCHANGED <<account, token, link, oauthState, reported, contended, crossed>>
  BY DEF ReadSequence
<1>2. /\ authTx' \in [AuthWorkers -> AuthTx]
      /\ authTx'[w].kind = "rotate" /\ authTx'[w].subject = authTx[w].subject
      /\ \A v \in AuthWorkers \ {w} : authTx'[v] = authTx[v]
  BY <1>1 DEF SessionsTypeOK, AuthTx, AuthKinds
<1>3. SessionsTypeOK'
  BY <1>1, <1>2 DEF SessionsTypeOK
<1>4. SubjectsOK'
  BY <1>1, <1>2 DEF SubjectsOK, TxOK, Issued
<1>5. FamiliesOK' /\ RotationOK'
  BY <1>1, <1>2, RotationUntouched
<1>6. LinksOK'
  BY <1>1, <1>2, LinksUntouched
<1>7. QED
  BY <1>1, <1>3, <1>4, <1>5, <1>6 DEF ReuseOnlyAfterContention

\* A later sequence means that another refresh of the family came between: it is contended.
LEMMA ReuseDetectedPreserves ==
  ASSUME SessionsInv, NEW w \in AuthWorkers, ReuseDetected(w)
  PROVE  SessionsInv'
<1> DEFINE old == authTx[w].subject
           f == token[old].family
<1> USE DEF SessionsInv
<1>1. /\ authTx[w].kind = "refresh"
      /\ \E n \in get_latest_sequence(f) : n > token[old].sequence
      /\ reported' = reported \cup {f}
      /\ UNCHANGED <<account, token, link, oauthState, contended, crossed>>
  BY DEF ReuseDetected
<1>2. /\ authTx' \in [AuthWorkers -> AuthTx]
      /\ authTx'[w] = IdleAuth
      /\ \A v \in AuthWorkers \ {w} : authTx'[v] = authTx[v]
  BY RequestEnds DEF ReuseDetected
<1>3. old \in Tokens /\ Issued(old) /\ f \in Tokens
  BY <1>1 DEF SubjectsOK, TxOK, FamiliesOK
<1>4. f \in contended
  <2> SUFFICES ASSUME f \notin contended PROVE FALSE
    OBVIOUS
  <2>1. RefreshOK(w, f)
    BY <1>1, <1>3 DEF RotationOK, Refreshing
  <2>2. PICK s \in Tokens : InFamily(s, f) /\ token[s].sequence > token[old].sequence
    BY <1>1 DEF get_latest_sequence, InFamily
  <2>3. token[s].sequence \in Nat /\ token[old].sequence \in Nat
    BY <1>3 DEF SessionsTypeOK, TokenRow
  <2>4. s # old
    BY <2>2, <2>3
  <2>5. token[s].sequence < token[old].sequence
    BY <2>1, <2>2, <2>4 DEF RefreshOK, Rotates
  <2>6. QED
    BY <2>2, <2>3, <2>5
<1>5. SessionsTypeOK'
  BY <1>1, <1>2, <1>3 DEF SessionsTypeOK
<1>6. SubjectsOK'
  BY <1>1, <1>2, IdleIsTx DEF SubjectsOK, TxOK, Issued, IdleAuth
<1>7. FamiliesOK' /\ RotationOK'
  BY <1>1, <1>2, RotationUntouched DEF IdleAuth
<1>8. LinksOK'
  BY <1>1, <1>2, LinksUntouched DEF IdleAuth
<1>9. QED
  BY <1>1, <1>4, <1>5, <1>6, <1>7, <1>8 DEF ReuseOnlyAfterContention

\* The rotation: the new token is the latest of its family, the old one is revoked.
LEMMA CommitRefreshPreserves ==
  ASSUME SessionsInv, NEW w \in AuthWorkers, NEW t \in Tokens, CommitRefresh(w, t)
  PROVE  SessionsInv'
<1> USE DEF SessionsInv
<1>1. PICK old \in Tokens : old = authTx[w].subject /\ Issued(old)
  BY DEF CommitRefresh, SubjectsOK, TxOK
<1>2. PICK g \in Tokens : g = token[old].family
  BY <1>1 DEF FamiliesOK
<1>3. PICK n \in Nat : n = token[old].sequence
  BY DEF SessionsTypeOK, TokenRow
<1>4. /\ authTx[w].kind = "rotate" /\ NextToken(t)
      /\ token' = Rotated(old, t)
      /\ UNCHANGED <<account, link, oauthState, reported, contended, crossed>>
  BY <1>1 DEF CommitRefresh
<1>5. /\ authTx' \in [AuthWorkers -> AuthTx]
      /\ authTx'[w] = IdleAuth
      /\ \A v \in AuthWorkers \ {w} : authTx'[v] = authTx[v]
  BY RequestEnds DEF CommitRefresh
<1>6. old # t /\ ~Issued(t) /\ g \in Tokens /\ g # 0 /\ g # t /\ token[old].user \in Users
  BY <1>1, <1>2, <1>4, SessionsAssumption
     DEF NextToken, FamiliesOK, Tokens, SessionsAssumption
<1>7. /\ token'[t] = [status |-> "live", user |-> token[old].user, family |-> g,
                      sequence |-> n + 1]
      /\ token'[old] = [token[old] EXCEPT !.status = "revoked"]
      /\ \A s \in Tokens \ {t, old} : token'[s] = token[s]
  BY <1>2, <1>3, <1>4, <1>6 DEF Rotated, Successor, create_refresh_token, SessionsTypeOK
<1>8. /\ token'[old].status = "revoked" /\ token'[old].user = token[old].user
      /\ token'[old].family = g /\ token'[old].sequence = n
  BY <1>2, <1>3, <1>7 DEF SessionsTypeOK, TokenRow
<1>9. /\ token'[t].status = "live" /\ token'[t].user \in Users
       /\ token'[t].family = g /\ token'[t].sequence = n + 1
  BY <1>6, <1>7
<1>10. \A s \in Tokens \ {t, old} : token'[s] = token[s]
  BY <1>7
<1>11. SessionsTypeOK'
  <2>1. Successor(old, t) \in TokenRow /\ [token[old] EXCEPT !.status = "revoked"] \in TokenRow
    BY <1>2, <1>3, <1>6
       DEF Successor, create_refresh_token, SessionsTypeOK, TokenRow, Tokens
  <2>2. token' = [[token EXCEPT ![t] = Successor(old, t)] EXCEPT
                     ![old] = [token[old] EXCEPT !.status = "revoked"]]
    BY <1>4, <1>6 DEF Rotated, SessionsTypeOK
  <2>3. token' \in [Tokens -> TokenRow]
    BY <2>1, <2>2 DEF SessionsTypeOK
  <2>4. QED
    BY <1>4, <1>5, <2>3 DEF SessionsTypeOK
<1>12. \A s \in Tokens : Issued(s)' <=> (s = t \/ Issued(s))
  BY <1>1, <1>8, <1>9, <1>10 DEF Issued
<1>13. SubjectsOK'
  BY <1>4, <1>5, <1>12, IdleIsTx DEF SubjectsOK, TxOK, IdleAuth
<1>14. FamiliesOK'
  <2> SUFFICES ASSUME NEW s \in Tokens
               PROVE  IF Issued(s)' THEN /\ token'[s].family \in Tokens
                                         /\ token'[token'[s].family].status # "none"
                                         /\ token'[s].user \in Users
                                    ELSE token'[s].family = 0
    BY DEF FamiliesOK, Issued
  <2>1. \A f \in Tokens : Issued(f) => token'[f].status # "none"
    BY <1>12 DEF Issued
  <2>2. token'[g].status # "none"
    BY <1>1, <1>2, <2>1 DEF FamiliesOK
  <2>3. CASE s = t
    BY <1>9, <1>12, <2>2, <2>3
  <2>4. CASE s = old
    BY <1>1, <1>6, <1>8, <1>12, <2>2, <2>4
  <2>5. CASE s \in Tokens \ {t, old}
    BY <1>10, <1>12, <2>1, <2>5 DEF FamiliesOK
  <2>6. QED
    BY <2>3, <2>4, <2>5
<1>15. RotationOK'
  <2>1. \A s, f \in Tokens : InFamily(s, f)' <=> (IF s = t THEN f = g ELSE InFamily(s, f))
    BY <1>1, <1>2, <1>8, <1>12, <1>9, <1>10 DEF InFamily
  <2>2. \A s \in Tokens : Live(s)' <=> (s = t \/ (Live(s) /\ s # old))
    BY <1>6, <1>8, <1>9, <1>10 DEF Live
  <2>3. \A v \in AuthWorkers, f \in Tokens : Refreshing(v, f)' =>
          v # w /\ authTx'[v] = authTx[v] /\ Refreshing(v, f) /\ authTx[v].subject \in Tokens
            /\ Issued(authTx[v].subject) /\ authTx[v].subject # t
    <3> SUFFICES ASSUME NEW v \in AuthWorkers, NEW f \in Tokens, Refreshing(v, f)'
                 PROVE  v # w /\ authTx'[v] = authTx[v] /\ Refreshing(v, f)
                          /\ authTx[v].subject \in Tokens
                          /\ Issued(authTx[v].subject) /\ authTx[v].subject # t
      OBVIOUS
    <3>1. authTx'[v].kind \in {"refresh", "rotate"} /\ token'[authTx'[v].subject].family = f
      BY DEF Refreshing
    <3>2. v # w /\ authTx'[v] = authTx[v]
      BY <1>5, <3>1 DEF IdleAuth
    <3>3. authTx[v].subject \in Tokens /\ Issued(authTx[v].subject)
      BY <3>1, <3>2 DEF SubjectsOK, TxOK
    <3>4. authTx[v].subject # t
      BY <1>6, <3>3
    <3>5. token'[authTx[v].subject].family = token[authTx[v].subject].family
      BY <1>2, <1>8, <1>10, <3>3, <3>4
    <3>6. QED
      BY <3>1, <3>2, <3>3, <3>4, <3>5 DEF Refreshing
  <2>4. Refreshing(w, g)
    BY <1>1, <1>2, <1>4 DEF Refreshing
  <2>5. ASSUME g \notin contended
        PROVE  /\ \A v \in AuthWorkers \ {w} : ~Refreshing(v, g)
               /\ \A s \in Tokens : InFamily(s, g) /\ s # old => Rotates(s, old)
    BY <1>1, <2>4, <2>5 DEF RotationOK, RefreshOK
  <2>6. ASSUME NEW f \in Tokens \ contended', NEW s \in Tokens, NEW r \in Tokens,
               InFamily(s, f)', InFamily(r, f)', Live(r)', s # r
        PROVE  Rotates(s, r)'
    <3>1. f \notin contended
      BY <1>4, <2>6
    <3>2. CASE f = g
      <4>1. r = t
        BY <2>1, <2>2, <2>5, <2>6, <3>1, <3>2 DEF Rotates
      <4>2. CASE s = old
        <5>1. token'[t].sequence = n + 1 /\ n < n + 1
          BY <1>9
        <5>2. QED
          BY <1>8, <4>1, <4>2, <5>1 DEF Rotates, Live
      <4>3. CASE s # old
        <5>1. s \in Tokens \ {t, old} /\ Rotates(s, old)
          BY <2>1, <2>5, <2>6, <3>1, <3>2, <4>1, <4>3
        <5>2. token[s].sequence \in Nat /\ token[s].sequence < n /\ ~Live(s)
          BY <1>3, <5>1 DEF Rotates, SessionsTypeOK, TokenRow
        <5>3. token'[s] = token[s] /\ token'[t].sequence = n + 1
          BY <1>9, <1>10, <5>1
        <5>4. QED
          BY <4>1, <5>2, <5>3 DEF Rotates, Live
      <4>4. QED
        BY <4>2, <4>3
    <3>3. CASE f # g
      <4>1. s \in Tokens \ {t, old} /\ r \in Tokens \ {t, old} /\ InFamily(s, f) /\ InFamily(r, f)
        BY <1>2, <2>1, <2>6, <3>3 DEF InFamily
      <4>2. Rotates(s, r)
        BY <2>2, <2>6, <3>1, <4>1 DEF RotationOK
      <4>3. token'[s] = token[s] /\ token'[r] = token[r]
        BY <1>10, <4>1
      <4>4. QED
        BY <4>2, <4>3 DEF Rotates, Live
    <3>4. QED
      BY <3>2, <3>3
  <2>7. ASSUME NEW f \in Tokens \ contended', NEW v \in AuthWorkers, Refreshing(v, f)'
        PROVE  RefreshOK(v, f)'
    <3>1. PICK m \in Tokens : m = authTx[v].subject
      BY <2>3, <2>7
    <3>2. v # w /\ Refreshing(v, f) /\ m # t /\ authTx'[v].subject = m
      BY <2>3, <2>7, <3>1
    <3>3. f # g /\ f \notin contended
      BY <1>4, <2>5, <2>7, <3>2
    <3>4. /\ \A x \in AuthWorkers \ {v} : ~Refreshing(x, f)
          /\ \A s \in Tokens : InFamily(s, f) /\ s # m => Rotates(s, m)
      BY <3>1, <3>2, <3>3 DEF RotationOK, RefreshOK
    <3>5. \A x \in AuthWorkers \ {v} : ~Refreshing(x, f)'
      BY <2>3, <3>4
    <3>6. m \in Tokens \ {t, old}
      BY <1>2, <3>1, <3>2, <3>3 DEF Refreshing
    <3>7. ASSUME NEW s \in Tokens, InFamily(s, f)', s # m PROVE Rotates(s, m)'
      <4>1. s \in Tokens \ {t, old} /\ InFamily(s, f)
        BY <1>2, <2>1, <3>3, <3>7 DEF InFamily
      <4>2. Rotates(s, m)
        BY <3>4, <3>7, <4>1
      <4>3. token'[s] = token[s] /\ token'[m] = token[m]
        BY <1>10, <3>6, <4>1
      <4>4. QED
        BY <4>2, <4>3 DEF Rotates, Live
    <3>8. QED
      BY <3>2, <3>5, <3>7 DEF RefreshOK, Rotates, Live
  <2>8. QED
    BY <2>6, <2>7 DEF RotationOK
<1>16. LinksOK'
  BY <1>4, <1>5, LinksUntouched DEF IdleAuth
<1>17. ReuseOnlyAfterContention'
  BY <1>4 DEF ReuseOnlyAfterContention
<1>18. QED
  BY <1>11, <1>13, <1>14, <1>15, <1>16, <1>17

\* A logout revokes the presented token.
LEMMA CommitLogoutPreserves ==
  ASSUME SessionsInv, NEW w \in AuthWorkers, CommitLogout(w)
  PROVE  SessionsInv'
<1> USE DEF SessionsInv
<1>1. PICK old \in Tokens : old = authTx[w].subject /\ Issued(old)
  BY DEF CommitLogout, SubjectsOK, TxOK
<1>2. /\ token' = [token EXCEPT ![old].status = "revoked"]
      /\ UNCHANGED <<account, link, oauthState, reported, contended, crossed>>
  BY <1>1 DEF CommitLogout
<1>3. /\ authTx' \in [AuthWorkers -> AuthTx]
      /\ authTx'[w] = IdleAuth
      /\ \A v \in AuthWorkers \ {w} : authTx'[v] = authTx[v]
  BY RequestEnds DEF CommitLogout
<1>4. token' \in [Tokens -> TokenRow]
  BY <1>2 DEF SessionsTypeOK, TokenRow
<1>5. \A s \in Tokens :
        /\ token'[s].status = IF s = old THEN "revoked" ELSE token[s].status
        /\ token'[s].user = token[s].user
        /\ token'[s].family = token[s].family
        /\ token'[s].sequence = token[s].sequence
  BY <1>2 DEF SessionsTypeOK, TokenRow
<1>6. \A s \in Tokens : Issued(s)' <=> Issued(s)
  BY <1>1, <1>5 DEF Issued
<1>7. SessionsTypeOK'
  BY <1>2, <1>3, <1>4 DEF SessionsTypeOK
<1>8. SubjectsOK'
  BY <1>2, <1>3, <1>6, IdleIsTx DEF SubjectsOK, TxOK, IdleAuth
<1>9. FamiliesOK'
  BY <1>5, <1>6 DEF FamiliesOK, Issued
<1>10. RotationOK'
  <2>1. \A s, f \in Tokens : InFamily(s, f)' <=> InFamily(s, f)
    BY <1>5, <1>6 DEF InFamily
  <2>2. \A s, t \in Tokens : (Live(t)' => Live(t)) /\ (Rotates(s, t) => Rotates(s, t)')
    BY <1>5 DEF Live, Rotates
  <2>3. ASSUME NEW v \in AuthWorkers, NEW f \in Tokens, Refreshing(v, f)'
        PROVE  /\ Refreshing(v, f) /\ authTx'[v] = authTx[v] /\ authTx[v].subject \in Tokens
    <3>1. authTx'[v].kind \in {"refresh", "rotate"} /\ token'[authTx'[v].subject].family = f
      BY <2>3 DEF Refreshing
    <3>2. authTx'[v] = authTx[v]
      BY <1>3, <3>1 DEF IdleAuth
    <3>3. authTx[v].subject \in Tokens
      BY <3>1, <3>2 DEF SubjectsOK, TxOK
    <3>4. QED
      BY <1>5, <3>1, <3>2, <3>3 DEF Refreshing
  <2>4. ASSUME NEW f \in Tokens \ contended', NEW s \in Tokens, NEW t \in Tokens,
               InFamily(s, f)', InFamily(t, f)', Live(t)', s # t
        PROVE  Rotates(s, t)'
    BY <1>2, <2>1, <2>2, <2>4 DEF RotationOK
  <2>5. ASSUME NEW f \in Tokens \ contended', NEW v \in AuthWorkers, Refreshing(v, f)'
        PROVE  RefreshOK(v, f)'
    <3>1. PICK m \in Tokens : m = authTx[v].subject /\ authTx'[v].subject = m
      BY <2>3, <2>5
    <3>2. /\ \A x \in AuthWorkers \ {v} : ~Refreshing(x, f)
          /\ \A s \in Tokens : InFamily(s, f) /\ s # m => Rotates(s, m)
      BY <1>2, <2>3, <2>5, <3>1 DEF RotationOK, RefreshOK
    <3>3. \A x \in AuthWorkers \ {v} : ~Refreshing(x, f)'
      BY <2>3, <3>2
    <3>4. \A s \in Tokens : InFamily(s, f)' /\ s # m => Rotates(s, m)'
      BY <2>1, <2>2, <3>2
    <3>5. QED
      BY <3>1, <3>3, <3>4 DEF RefreshOK, Rotates, Live
  <2>6. QED
    BY <2>4, <2>5 DEF RotationOK
<1>11. LinksOK'
  BY <1>2, <1>3, LinksUntouched DEF IdleAuth
<1>12. ReuseOnlyAfterContention'
  BY <1>2 DEF ReuseOnlyAfterContention
<1>13. QED
  BY <1>7, <1>8, <1>9, <1>10, <1>11, <1>12

----------------------------------------------------------------------------
(* Requests about links *)

\* A link is used: no link is opened.
LEMMA CommitUseLinkPreserves ==
  ASSUME SessionsInv, NEW w \in AuthWorkers, CommitUseLink(w)
  PROVE  SessionsInv'
<1> USE DEF SessionsInv
<1>1. PICK l \in Links : l = authTx[w].subject /\ link[l].status # "none"
  BY DEF CommitUseLink, SubjectsOK, TxOK
<1>2. /\ link' = [link EXCEPT ![l].status = "used"]
      /\ UNCHANGED <<token, oauthState, reported, contended, crossed>>
  BY <1>1 DEF CommitUseLink
<1>3. /\ authTx' \in [AuthWorkers -> AuthTx]
      /\ authTx'[w] = IdleAuth
      /\ \A v \in AuthWorkers \ {w} : authTx'[v] = authTx[v]
  BY RequestEnds DEF CommitUseLink
<1>4. account' \in [Users -> AccountRow]
  <2>1. link[l].user \in Users
    BY <1>1 DEF LinksOK
  <2>2. account' = account \/ account' = [account EXCEPT ![link[l].user].verified = TRUE]
    BY <1>1 DEF CommitUseLink
  <2>3. account \in [Users -> AccountRow]
    BY DEF SessionsTypeOK
  <2>4. [account[link[l].user] EXCEPT !.verified = TRUE] \in AccountRow
    BY <2>1, <2>3 DEF AccountRow
  <2>5. QED
    BY <2>1, <2>2, <2>3, <2>4
<1>5. /\ link' \in [Links -> LinkRow]
      /\ \A m \in Links : /\ link'[m].status = IF m = l THEN "used" ELSE link[m].status
                          /\ link'[m].user = link[m].user
                          /\ link'[m].kind = link[m].kind
  <2>1. link \in [Links -> LinkRow] /\ link' = [link EXCEPT ![l].status = "used"]
    BY <1>2 DEF SessionsTypeOK
  <2>2. QED
    BY <2>1, LinkMarkedUsed
<1>6. SessionsTypeOK'
  BY <1>2, <1>3, <1>4, <1>5 DEF SessionsTypeOK
<1>7. SubjectsOK'
  BY <1>2, <1>3, <1>5, IdleIsTx DEF SubjectsOK, TxOK, IdleAuth, Issued
<1>8. FamiliesOK' /\ RotationOK'
  BY <1>2, <1>3, RotationUntouched DEF IdleAuth
<1>9. LinksOK'
  <2>1. \A m \in Links : link'[m].status # "none" => link'[m].user \in Users
    BY <1>1, <1>5 DEF LinksOK
  <2>2. ASSUME NEW u \in Users, NEW k \in {"verify", "reset"}, <<u, k>> \notin crossed'
        PROVE  /\ \A m, n \in OpenLinks(u, k)' : m = n
               /\ \A v \in AuthWorkers : Sending(v, u, k)' =>
                    /\ OpenLinks(u, k)' \subseteq authTx'[v].links
                    /\ \A x \in AuthWorkers \ {v} : ~Sending(x, u, k)'
    <3>1. /\ \A m, n \in OpenLinks(u, k) : m = n
          /\ \A v \in AuthWorkers : Sending(v, u, k) =>
               /\ OpenLinks(u, k) \subseteq authTx[v].links
               /\ \A x \in AuthWorkers \ {v} : ~Sending(x, u, k)
      BY <1>2, <2>2 DEF LinksOK
    <3>2. OpenLinks(u, k)' \subseteq OpenLinks(u, k)
      BY <1>5 DEF OpenLinks
    <3>3. \A v \in AuthWorkers : Sending(v, u, k)' => Sending(v, u, k) /\ authTx'[v] = authTx[v]
      BY <1>3 DEF Sending, IdleAuth
    <3>4. QED
      BY <3>1, <3>2, <3>3
  <2>3. QED
    BY <2>1, <2>2 DEF LinksOK
<1>10. ReuseOnlyAfterContention'
  BY <1>2 DEF ReuseOnlyAfterContention
<1>11. QED
  BY <1>6, <1>7, <1>8, <1>9, <1>10

\* A link request opens: it is alone and sees every open link, or the kind is crossed.
LEMMA ReadSendLinkPreserves ==
  ASSUME SessionsInv, NEW w \in AuthWorkers, NEW u \in Users, NEW k \in {"verify", "reset"},
         ReadSendLink(w, u, k)
  PROVE  SessionsInv'
<1> USE DEF SessionsInv
<1> DEFINE tx == [IdleAuth EXCEPT !.kind = "sendlink", !.user = u, !.purpose = k,
                                  !.links = OpenLinks(u, k)]
<1>1. /\ authTx' = [authTx EXCEPT ![w] = tx]
      /\ crossed' = crossed \cup
           (IF \E v \in AuthWorkers : Sending(v, u, k) THEN {<<u, k>>} ELSE {})
      /\ UNCHANGED <<account, token, link, oauthState, reported, contended>>
  BY DEF ReadSendLink, BeginAuth, Sending
<1>2. OpenLinks(u, k) \in SUBSET Links
  BY DEF OpenLinks
<1>3. /\ tx \in AuthTx /\ tx.kind = "sendlink" /\ tx.user = u /\ tx.purpose = k
      /\ tx.links = OpenLinks(u, k)
  BY <1>2 DEF IdleAuth, AuthTx, AuthKinds
<1> HIDE DEF tx
<1>4. \A v \in AuthWorkers : authTx'[v] = IF v = w THEN tx ELSE authTx[v]
  BY <1>1 DEF SessionsTypeOK
<1>5. SessionsTypeOK'
  <2>1. crossed' \subseteq Users \X {"verify", "reset"}
    BY <1>1 DEF SessionsTypeOK
  <2>2. authTx' \in [AuthWorkers -> AuthTx]
    BY <1>1, <1>3 DEF SessionsTypeOK
  <2>3. QED
    BY <1>1, <2>1, <2>2 DEF SessionsTypeOK
<1>6. SubjectsOK'
  BY <1>1, <1>3, <1>4 DEF SubjectsOK, TxOK, Issued, OpenLinks
<1>7. FamiliesOK' /\ RotationOK'
  BY <1>1, <1>3, <1>4, RotationUntouched
<1>8. LinksOK'
  <2>1. \A l \in Links : link'[l].status # "none" => link'[l].user \in Users
    BY <1>1 DEF LinksOK
  <2>2. ASSUME NEW a \in Users, NEW b \in {"verify", "reset"}, <<a, b>> \notin crossed'
        PROVE  /\ \A l, m \in OpenLinks(a, b)' : l = m
               /\ \A v \in AuthWorkers : Sending(v, a, b)' =>
                    /\ OpenLinks(a, b)' \subseteq authTx'[v].links
                    /\ \A x \in AuthWorkers \ {v} : ~Sending(x, a, b)'
    <3>1. <<a, b>> \notin crossed
      BY <1>1, <2>2
    <3>2. /\ \A l, m \in OpenLinks(a, b) : l = m
          /\ \A v \in AuthWorkers : Sending(v, a, b) =>
               /\ OpenLinks(a, b) \subseteq authTx[v].links
               /\ \A x \in AuthWorkers \ {v} : ~Sending(x, a, b)
      BY <3>1 DEF LinksOK
    <3>3. OpenLinks(a, b)' = OpenLinks(a, b)
      BY <1>1 DEF OpenLinks
    <3>4. \A v \in AuthWorkers :
            Sending(v, a, b)' <=> (IF v = w THEN a = u /\ b = k ELSE Sending(v, a, b))
      BY <1>3, <1>4 DEF Sending
    <3>5. CASE a = u /\ b = k
      <4>1. \A v \in AuthWorkers : ~Sending(v, a, b)
        BY <1>1, <2>2, <3>5
      <4>2. \A v \in AuthWorkers : Sending(v, a, b)' => v = w
        BY <3>4, <4>1
      <4>3. authTx'[w].links = OpenLinks(a, b)
        BY <1>3, <1>4, <3>5
      <4>4. QED
        BY <3>2, <3>3, <4>2, <4>3
    <3>6. CASE ~(a = u /\ b = k)
      <4>1. \A v \in AuthWorkers : Sending(v, a, b)' => Sending(v, a, b) /\ authTx'[v] = authTx[v]
        BY <1>4, <3>4, <3>6
      <4>2. QED
        BY <3>2, <3>3, <4>1
    <3>7. QED
      BY <3>5, <3>6
  <2>3. QED
    BY <2>1, <2>2 DEF LinksOK
<1>9. ReuseOnlyAfterContention'
  BY <1>1 DEF ReuseOnlyAfterContention
<1>10. QED
  BY <1>5, <1>6, <1>7, <1>8, <1>9

\* The new link replaces the ones seen open.
LEMMA CommitSendLinkPreserves ==
  ASSUME SessionsInv, NEW w \in AuthWorkers, NEW l \in Links, CommitSendLink(w, l)
  PROVE  SessionsInv'
<1> USE DEF SessionsInv
<1>1. PICK u \in Users : u = authTx[w].user
  BY DEF CommitSendLink, SubjectsOK, TxOK
<1>2. PICK k \in {"verify", "reset"} : k = authTx[w].purpose
  BY DEF SessionsTypeOK, AuthTx
<1>3. PICK seen \in SUBSET Links : seen = authTx[w].links
  BY DEF SessionsTypeOK, AuthTx
<1>4. /\ authTx[w].kind = "sendlink" /\ link[l].status = "none"
      /\ link' = [m \in Links |->
           IF m = l THEN [status |-> "open", kind |-> k, user |-> u, expired |-> FALSE]
           ELSE IF m \in seen THEN [link[m] EXCEPT !.status = "used"]
           ELSE link[m]]
      /\ UNCHANGED <<account, token, oauthState, reported, contended, crossed>>
  BY <1>1, <1>2, <1>3 DEF CommitSendLink
<1>5. /\ authTx' \in [AuthWorkers -> AuthTx]
      /\ authTx'[w] = IdleAuth
      /\ \A v \in AuthWorkers \ {w} : authTx'[v] = authTx[v]
  BY RequestEnds DEF CommitSendLink
<1>6. /\ link'[l] = [status |-> "open", kind |-> k, user |-> u, expired |-> FALSE]
      /\ \A m \in Links \ {l} :
           /\ link'[m] \in LinkRow
           /\ link'[m].status = IF m \in seen THEN "used" ELSE link[m].status
           /\ link'[m].user = link[m].user
           /\ link'[m].kind = link[m].kind
  BY <1>4 DEF SessionsTypeOK, LinkRow
<1>7. link' \in [Links -> LinkRow]
  <2>1. link'[l] \in LinkRow
    BY <1>6 DEF LinkRow
  <2>2. QED
    BY <1>4, <1>6, <2>1
<1>8. SessionsTypeOK'
  BY <1>4, <1>5, <1>7 DEF SessionsTypeOK
<1>9. \A m \in Links : link[m].status # "none" => link'[m].status # "none"
  BY <1>4, <1>6
<1>10. SubjectsOK'
  BY <1>4, <1>5, <1>9, IdleIsTx DEF SubjectsOK, TxOK, IdleAuth, Issued
<1>11. FamiliesOK' /\ RotationOK'
  BY <1>4, <1>5, RotationUntouched DEF IdleAuth
<1>12. LinksOK'
  <2>1. \A m \in Links : link'[m].status # "none" => link'[m].user \in Users
    <3>1. ASSUME NEW m \in Links, link'[m].status # "none" PROVE link'[m].user \in Users
      <4>1. CASE m = l
        BY <1>6, <4>1
      <4>2. CASE m # l /\ m \notin seen
        BY <1>6, <3>1, <4>2 DEF LinksOK
      <4>3. CASE m # l /\ m \in seen
        <5>1. link[m].status # "none"
          BY <1>3, <1>4, <4>3 DEF SubjectsOK, TxOK
        <5>2. QED
          BY <1>6, <4>3, <5>1 DEF LinksOK
      <4>4. QED
        BY <4>1, <4>2, <4>3
    <3>2. QED
      BY <3>1
  <2>2. ASSUME NEW a \in Users, NEW b \in {"verify", "reset"}, <<a, b>> \notin crossed'
        PROVE  /\ \A m, n \in OpenLinks(a, b)' : m = n
               /\ \A v \in AuthWorkers : Sending(v, a, b)' =>
                    /\ OpenLinks(a, b)' \subseteq authTx'[v].links
                    /\ \A x \in AuthWorkers \ {v} : ~Sending(x, a, b)'
    <3>1. /\ \A m, n \in OpenLinks(a, b) : m = n
          /\ \A v \in AuthWorkers : Sending(v, a, b) =>
               /\ OpenLinks(a, b) \subseteq authTx[v].links
               /\ \A x \in AuthWorkers \ {v} : ~Sending(x, a, b)
      BY <1>4, <2>2 DEF LinksOK
    <3>2. \A v \in AuthWorkers : Sending(v, a, b)' =>
            v # w /\ Sending(v, a, b) /\ authTx'[v] = authTx[v]
      BY <1>5 DEF Sending, IdleAuth
    <3>3. \A m \in OpenLinks(a, b)' : m # l => m \in OpenLinks(a, b) /\ m \notin seen
      BY <1>6 DEF OpenLinks
    <3>4. CASE a = u /\ b = k
      <4>1. Sending(w, a, b)
        BY <1>1, <1>2, <1>4, <3>4 DEF Sending
      <4>2. OpenLinks(a, b) \subseteq seen /\ \A x \in AuthWorkers \ {w} : ~Sending(x, a, b)
        BY <1>3, <3>1, <4>1
      <4>3. QED
        BY <3>2, <3>3, <4>2
    <3>5. CASE ~(a = u /\ b = k)
      <4>1. l \notin OpenLinks(a, b)'
        BY <1>6, <3>5 DEF OpenLinks
      <4>2. OpenLinks(a, b)' \subseteq OpenLinks(a, b)
        BY <3>3, <4>1
      <4>3. QED
        BY <3>1, <3>2, <4>2
    <3>6. QED
      BY <3>4, <3>5
  <2>3. QED
    BY <2>1, <2>2 DEF LinksOK
<1>13. ReuseOnlyAfterContention'
  BY <1>4 DEF ReuseOnlyAfterContention
<1>14. QED
  BY <1>8, <1>10, <1>11, <1>12, <1>13

----------------------------------------------------------------------------
(* Theorems *)

\* SessionsInv is an invariant of the accounts and sessions: every step, of any number of
\* concurrent requests and of the administrators, preserves it.
THEOREM SessionsInvariant == SessionsSpec => []SessionsInv
<1>1. SessionsInv /\ [SessionsNext]_sessionsVars => SessionsInv'
  <2> SUFFICES ASSUME SessionsInv, [SessionsNext]_sessionsVars PROVE SessionsInv'
    OBVIOUS
  <2>1. ASSUME NEW w \in AuthWorkers, NEW t \in Tokens,
               \/ CommitLogin(w, t)
               \/ ReadRefresh(w, t)
               \/ CommitRefresh(w, t)
               \/ ReadLogout(w, t)
               \/ CommitSignIn(w, t)
               \/ \E u \in Users : CommitRegister(w, u, t)
               \/ \E u \in Users, v \in BOOLEAN : CommitSignUp(w, u, t, v)
        PROVE  SessionsInv'
    BY <2>1, SessionCommits, ReadRefreshPreserves, CommitRefreshPreserves, ReadsPreserve
  <2>2. ASSUME NEW w \in AuthWorkers,
               \/ ReadSequence(w)
               \/ ReuseDetected(w)
               \/ CommitLogout(w)
               \/ CommitUseLink(w)
               \/ ReadIdentity(w)
               \/ CommitProfile(w)
               \/ AbortAuth(w)
        PROVE  SessionsInv'
    BY <2>2, ReadSequencePreserves, ReuseDetectedPreserves, CommitLogoutPreserves,
       CommitUseLinkPreserves, ReadIdentityPreserves, EndsPreserve
  <2>3. ASSUME NEW w \in AuthWorkers,
               \/ \E e \in Emails : ReadRegister(w, e)
               \/ \E u \in Users : ReadLogin(w, u)
               \/ \E u \in Users, kind \in {"verify", "reset"} : ReadSendLink(w, u, kind)
               \/ \E l \in Links : CommitSendLink(w, l) \/ ReadUseLink(w, l)
               \/ \E x \in Identities, s \in BOOLEAN : ReadCallback(w, x, s)
               \/ \E u \in Users, e \in Emails : ReadProfile(w, u, e)
        PROVE  SessionsInv'
    BY <2>3, ReadsPreserve, ReadSendLinkPreserves, CommitSendLinkPreserves
  <2>4. CASE UNCHANGED sessionsVars
    BY <2>4 DEF sessionsVars, SessionsInv, SessionsTypeOK, SubjectsOK, TxOK, FamiliesOK, Issued,
                Live, InFamily, Rotates, Refreshing, RefreshOK, RotationOK, Sending, OpenLinks,
                LinksOK, ReuseOnlyAfterContention
  <2>5. QED
    BY <2>1, <2>2, <2>3, <2>4, OutsidePreserves DEF SessionsNext
<1>2. QED
  BY SessionsInitOK, <1>1, PTL DEF SessionsSpec

\* The rows, the transactions and the histories keep their types.
THEOREM SessionTypes == SessionsSpec => []SessionsTypeOK
<1>1. SessionsInv => SessionsTypeOK
  BY DEF SessionsInv
<1>2. QED
  BY SessionsInvariant, <1>1, PTL

\* A family without concurrent refreshes has at most one live token, its latest: rotation
\* by refresh (AuthService.refresh) keeps one session per sign-in.
THEOREM RotationKeepsOne == SessionsSpec => []LoneFamilyHasOneLiveToken
<1>1. SessionsInv => LoneFamilyHasOneLiveToken
  <2> SUFFICES ASSUME SessionsInv, NEW s \in Tokens, NEW t \in Tokens,
                      Live(t), Issued(s), s # t, token[s].family = token[t].family,
                      token[t].family \notin contended
               PROVE  ~Live(s) /\ token[s].sequence < token[t].sequence
    BY DEF LoneFamilyHasOneLiveToken
  <2>1. Issued(t) /\ token[t].family \in Tokens
    BY DEF SessionsInv, FamiliesOK, Live, Issued
  <2>2. Rotates(s, t)
    BY <2>1 DEF SessionsInv, RotationOK, InFamily
  <2>3. QED
    BY <2>2 DEF Rotates
<1>2. QED
  BY SessionsInvariant, <1>1, PTL

\* Reuse is answered only for a family with two refreshes open at once: the branch that
\* detects a replay (service.py, sequence check) cannot be reached by one client alone.
THEOREM ReuseNeedsContention == SessionsSpec => []ReuseOnlyAfterContention
<1>1. SessionsInv => ReuseOnlyAfterContention
  BY DEF SessionsInv
<1>2. QED
  BY SessionsInvariant, <1>1, PTL

\* A user has one open verification or reset link, unless two requests for one were open
\* at once.
THEOREM LinkIsAlone == SessionsSpec => []OneOpenLink
<1>1. SessionsInv => OneOpenLink
  <2> SUFFICES ASSUME SessionsInv, NEW l \in Links, NEW m \in Links,
                      link[l].status = "open", link[m].status = "open", l # m,
                      link[l].user = link[m].user, link[l].kind = link[m].kind
               PROVE  <<link[l].user, link[l].kind>> \in crossed
    BY DEF OneOpenLink
  <2>1. link[l].user \in Users /\ link[l].kind \in {"verify", "reset"}
    BY DEF SessionsInv, LinksOK, SessionsTypeOK, LinkRow
  <2>2. l \in OpenLinks(link[l].user, link[l].kind) /\ m \in OpenLinks(link[l].user, link[l].kind)
    BY DEF OpenLinks
  <2>3. QED
    BY <2>1, <2>2 DEF SessionsInv, LinksOK
<1>2. QED
  BY SessionsInvariant, <1>1, PTL
=============================================================================
