--------------------------- MODULE AccountsProofs ---------------------------
(***************************************************************************)
(* What holds of Accounts with any sessions, people, organizations,        *)
(* installations and repositories, however the requests interleave and     *)
(* wherever they fail.                                                     *)
(***************************************************************************)
EXTENDS Accounts, FiniteSetTheorems, TLAPS

\* Empty tables.
LEMMA TypeInit == Init => TypeOK
BY DEF Init, TypeOK, Work, Idle

\* An entry of work is one of Work's kinds, by where the session is.
LEMMA WorkKinds ==
    ASSUME TypeOK, NEW s \in Sessions
    PROVE  /\ work[s].at = "creating" => work[s].user \in Users
           /\ work[s].at \in {"adding", "storing"} => work[s].org \in Orgs /\ work[s].name \in Names
           /\ work[s].at = "missing" => work[s].inst \in Installations \cup {None}
           /\ work[s].at \in {"ready", "bound"} =>
                /\ work[s].org \in Orgs
                /\ work[s].by \in {"visit", "seed", "callback"}
                /\ work[s].by # "visit" => work[s].inst \in Installations
                /\ work[s].had \in Installations \cup {None}
           /\ work[s].at \in {"idle", "creating", "adding", "storing", "missing", "ready", "bound"}
BY DEF TypeOK, Work, Idle

\* Every entry of work that a step leaves is of a declared kind.
LEMMA WorkMoves ==
    ASSUME TypeOK, NEW s \in Sessions, NEW w \in Work, Turn(s, w)
    PROVE  /\ work' \in [Sessions -> Work] /\ work'[s] = w
           /\ \A t \in Sessions \ {s} : work'[t] = work[t]
BY DEF TypeOK, Turn

LEMMA LoadedIsWork ==
    ASSUME TypeOK, NEW o \in Orgs, NEW i \in Installations \cup {None},
           NEW by \in {"visit", "seed", "callback"},
           by = "visit" => i = None, by # "visit" => i \in Installations
    PROVE  Loaded(by, o, i) \in Work
<1>1. install[o] \in Installations \cup {None} /\ {} \in SUBSET Names
  BY DEF TypeOK
<1>. QED
  BY <1>1 DEF Loaded, Work

\* The rows and the work of every request stay within their types.
LEMMA TypeNext == TypeOK /\ [Next]_vars => TypeOK'
<1> SUFFICES ASSUME TypeOK, [Next]_vars PROVE TypeOK'
  OBVIOUS
<1> USE AccountsAssumption
<1>i. Idle \in Work
  BY DEF Work
<1>1. ASSUME NEW u \in People, Signup(u) \/ Login(u) PROVE TypeOK'
  <2>1. Token(u, None, FALSE) \in [user : Users, org : Orgs \cup {None}, ro : BOOLEAN]
    BY DEF Token, Users
  <2>2. Token(u, orgOf[u], FALSE) \in [user : Users, org : Orgs \cup {None}, ro : BOOLEAN]
    BY DEF Token, Users, TypeOK
  <2>. QED
    BY <1>1, <2>1, <2>2 DEF Signup, Login, TypeOK, tables, Users
<1>2. ASSUME NEW s \in Sessions, NEW w \in Work, Turn(s, w), UNCHANGED <<tables, tokens>>
      PROVE  TypeOK'
  BY <1>2, WorkMoves DEF TypeOK, tables
<1>3. ASSUME NEW s \in Sessions, Request(s) PROVE TypeOK'
  <2>1. ASSUME NEW tok \in tokens, LockUser(s, tok) PROVE TypeOK'
    <3>1. [at |-> "creating", user |-> tok.user] \in Work
      BY DEF TypeOK, Work
    <3>. QED
      BY <1>2, <2>1, <3>1 DEF LockUser, Begin, Turn
  <2>2. ASSUME NEW tok \in tokens, NEW i \in Installations, Callback(s, tok, i) PROVE TypeOK'
    <3>1. tok.org \in Orgs
      BY <2>2 DEF Callback, MayInstall, TypeOK
    <3>2. Loaded("callback", tok.org, i) \in Work
      BY <3>1, LoadedIsWork
    <3>. QED
      BY <1>2, <2>2, <3>2 DEF Callback, Begin, Turn
  <2>3. ASSUME NEW tok \in tokens, NEW n \in Names, AddRepo(s, tok, n) PROVE TypeOK'
    <3>1. [at |-> "adding", org |-> tok.org, name |-> n] \in Work
      BY <2>3 DEF AddRepo, TypeOK, Work
    <3>. QED
      BY <1>2, <2>3, <3>1 DEF AddRepo, Begin, Turn
  <2>4. ASSUME NEW i \in Installations \cup {None}, DemoFound(s, i) PROVE TypeOK'
    <3>1. PICK o \in demo : Begin(s, Loaded(By(i), o, i))
      BY <2>4 DEF DemoFound
    <3>2. Loaded(By(i), o, i) \in Work
      BY LoadedIsWork DEF By, TypeOK
    <3>. QED
      BY <1>2, <2>4, <3>1, <3>2 DEF DemoFound, Begin, Turn
  <2>5. ASSUME NEW i \in Installations \cup {None}, DemoMissing(s, i) PROVE TypeOK'
    <3>1. [at |-> "missing", inst |-> i] \in Work
      BY DEF Work
    <3>. QED
      BY <1>2, <2>5, <3>1 DEF DemoMissing, Begin, Turn
  <2>. QED
    BY <1>3, <2>1, <2>2, <2>3, <2>4, <2>5 DEF Request
<1>4. ASSUME NEW s \in Sessions, NEW o \in Orgs, CreateOrganization(s, o) PROVE TypeOK'
  <2>1. work[s].user \in Users
    BY <1>4, WorkKinds DEF CreateOrganization
  <2>2. Token(work[s].user, o, FALSE) \in [user : Users, org : Orgs \cup {None}, ro : BOOLEAN]
    BY <2>1 DEF Token
  <2>. QED
    BY <1>4, <1>i, <2>1, <2>2, WorkMoves DEF CreateOrganization, End, TypeOK
<1>5. ASSUME NEW s \in Sessions, NEW o \in Orgs, DemoInsert(s, o) PROVE TypeOK'
  <2>1. work[s].inst \in Installations \cup {None}
    BY <1>5, WorkKinds DEF DemoInsert
  <2>2. Loaded(By(work[s].inst), o, work[s].inst) \in Work
    BY <2>1, LoadedIsWork DEF By
  <2>. QED
    BY <1>2, <1>5, <2>2 DEF DemoInsert
<1>6. ASSUME NEW s \in Sessions, Refuse(s) PROVE TypeOK'
  BY <1>2, <1>6, <1>i DEF Refuse, End
<1>7. ASSUME NEW s \in Sessions, DemoSession(s) PROVE TypeOK'
  <2>1. work[s].org \in Orgs
    BY <1>7, WorkKinds DEF DemoSession
  <2>2. orgOf' \in [Users -> Orgs \cup {None}]
    BY <1>7, <2>1 DEF DemoSession, DemoRows, TypeOK
  <2>3. Token(DemoUser, orgOf'[DemoUser], TRUE) \in
          [user : Users, org : Orgs \cup {None}, ro : BOOLEAN]
    BY <2>2 DEF Token, Users
  <2>. QED
    BY <1>7, <1>i, <2>1, <2>2, <2>3, WorkMoves DEF DemoSession, DemoRows, End, TypeOK, Users
<1>8. ASSUME NEW s \in Sessions, BindInstallation(s) PROVE TypeOK'
  <2>1. [work[s] EXCEPT !.at = "bound", !.repos = repos[work[s].org]] \in Work
    <3>1. work[s] \in Work /\ work[s].at = "ready" /\ work[s].by # "visit"
      BY <1>8 DEF BindInstallation, TypeOK
    <3>2. repos[work[s].org] \in SUBSET Names
      BY <3>1, WorkKinds DEF TypeOK
    <3> DEFINE Bound == [at : {"ready", "bound"}, by : {"seed", "callback"}, org : Orgs,
                         inst : Installations, had : Installations \cup {None},
                         repos : SUBSET Names]
    <3>3. work[s] \in Bound
      BY <3>1 DEF Work, Idle
    <3>4. [work[s] EXCEPT !.at = "bound", !.repos = repos[work[s].org]] \in Bound
      BY <3>2, <3>3
    <3>. QED
      BY <3>4 DEF Work
  <2>. QED
    BY <1>2, <1>8, <2>1 DEF BindInstallation
<1>9. ASSUME NEW s \in Sessions, work[s].at = "bound", WriteInstallation(work[s])
      PROVE  install' \in [Orgs -> Installations \cup {None}]
  <2>1. work[s].org \in Orgs /\ work[s].inst \in Installations \cup {None}
    BY <1>9 DEF TypeOK, Work, Idle
  <2>. QED
    BY <1>9, <2>1 DEF WriteInstallation, TypeOK
<1>10. ASSUME NEW s \in Sessions, CommitCallback(s) PROVE TypeOK'
  BY <1>9, <1>10, <1>i, WorkMoves DEF CommitCallback, End, TypeOK
<1>11. ASSUME NEW s \in Sessions, CommitSeed(s) PROVE TypeOK'
  <2>1. work[s].org \in Orgs
    BY <1>11, WorkKinds DEF CommitSeed
  <2>. QED
    BY <1>9, <1>11, <1>i, <2>1, WorkMoves DEF CommitSeed, DemoRows, End, TypeOK, Users
<1>12. ASSUME NEW s \in Sessions, LockOrg(s) PROVE TypeOK'
  <2>1. [work[s] EXCEPT !.at = "storing"] \in Work
    BY <1>12 DEF LockOrg, TypeOK, Work, Idle
  <2>. QED
    BY <1>2, <1>12, <2>1 DEF LockOrg
<1>13. ASSUME NEW s \in Sessions, StoreRepo(s) PROVE TypeOK'
  BY <1>13, <1>i, WorkKinds, WorkMoves DEF StoreRepo, End, TypeOK
<1>14. CASE UNCHANGED vars
  BY <1>14 DEF vars, tables, TypeOK
<1>. QED
  BY <1>1, <1>3, <1>4, <1>5, <1>6, <1>7, <1>8, <1>10, <1>11, <1>12, <1>13, <1>14
     DEF Next, Advance, Abort, DemoClash, InstallationTaken, AddRefused

\* What a session holds between its steps is what its handler has read or locked.
THEOREM TypeCorrect == Spec => []TypeOK
BY TypeInit, TypeNext, PTL DEF Spec
-----------------------------------------------------------------------------
\* Sessions by what they hold.
Creating(s, u) == work[s].at = "creating" /\ work[s].user = u
Holding(s) == work[s].at \in {"ready", "bound"}
AtDemo(s) == Holding(s) /\ work[s].by # "callback"
AtOwn(s) == (Holding(s) /\ work[s].by = "callback") \/ work[s].at \in {"adding", "storing"}

\* What an organization that has not been committed has.
NewOrgsAreEmpty ==
    \A o \in Orgs \ orgs : install[o] = None /\ repos[o] = {}

\* Users, their tokens and the one session that may give them an organization.
UsersInv ==
    /\ \A u \in Users : orgOf[u] # None => orgOf[u] \in orgs
    /\ \A u \in Users \ users : orgOf[u] = None
    /\ \A tok \in tokens :
         /\ tok.user \in users
         /\ tok.org # None => orgOf[tok.user] = tok.org
         /\ tok.ro => tok.user = DemoUser
         /\ tok.ro => tok.org # None \/ SignedUp(DemoUser)
    /\ \A s \in Sessions : \A u \in Users : Creating(s, u) =>
         /\ u \in users /\ SignedUp(u) /\ orgOf[u] = None
         /\ \A t \in Sessions : Creating(t, u) => s = t

\* The demo organization is one, or one session is about to insert it; nobody but
\* the demo user and the seed script works on it.
DemoInv ==
    /\ \A o, p \in demo : o = p
    /\ \A u \in users : orgOf[u] \in demo => u = DemoUser /\ ~SignedUp(DemoUser)
    /\ DemoUser \in users => orgOf[DemoUser] \in demo \/ SignedUp(DemoUser)
    /\ \A s \in Sessions : AtDemo(s) =>
         IF work[s].org \in orgs THEN work[s].org \in demo
         ELSE demo = {} /\ \A t \in Sessions : (AtDemo(t) /\ work[t].org \notin orgs) => s = t
    /\ \A s \in Sessions : AtOwn(s) => work[s].org \in orgs \ demo

\* The plan's limit, and the session that will add one more.
LimitInv ==
    \A o \in orgs \ demo :
        /\ IsFiniteSet(repos[o]) /\ Cardinality(repos[o]) <= RepoLimit
        /\ \A s \in Sessions : (work[s].at = "storing" /\ work[s].org = o) =>
             /\ Cardinality(repos[o]) < RepoLimit
             /\ \A t \in Sessions : (work[t].at = "storing" /\ work[t].org = o) => s = t

AccInv ==
    /\ NewOrgsAreEmpty
    /\ OneOrgPerInstallation
    /\ UsersInv
    /\ DemoInv
    /\ LimitInv

\* A session token is never taken back.
LEMMA StaysSignedUp ==
    ASSUME NEW u, tokens \subseteq tokens', SignedUp(u)
    PROVE  SignedUp(u)'
BY DEF SignedUp

LEMMA AccInit == Init => AccInv
BY DEF Init, AccInv, NewOrgsAreEmpty, OneOrgPerInstallation, UsersInv, DemoInv, LimitInv,
       Creating, Holding, AtDemo, AtOwn, Idle, SignedUp

\* The steps that commit rows; all others leave the tables as they are.
Committing(s) ==
    \/ \E o \in Orgs : CreateOrganization(s, o)
    \/ DemoSession(s) \/ CommitCallback(s) \/ CommitSeed(s) \/ StoreRepo(s)

LEMMA StepKinds ==
    ASSUME [Next]_vars
    PROVE  \/ UNCHANGED tables
           \/ \E u \in People : Signup(u)
           \/ \E s \in Sessions : Committing(s)
<1>1. ASSUME NEW s \in Sessions, Request(s) PROVE UNCHANGED tables
  BY <1>1 DEF Request, LockUser, Callback, AddRepo, DemoFound, DemoMissing
<1>2. ASSUME NEW s \in Sessions, Advance(s) PROVE UNCHANGED tables \/ Committing(s)
  BY <1>2 DEF Advance, Committing, DemoInsert, DemoClash, Refuse, BindInstallation,
              InstallationTaken, LockOrg, AddRefused
<1>3. ASSUME NEW u \in People, Login(u) PROVE UNCHANGED tables
  BY <1>3 DEF Login
<1>4. ASSUME NEW s \in Sessions, Abort(s) PROVE UNCHANGED tables
  BY <1>4 DEF Abort, Refuse
<1>5. CASE UNCHANGED vars
  BY <1>5 DEF vars
<1>. QED
  BY <1>1, <1>2, <1>3, <1>4, <1>5 DEF Next

\* The organization a session commits to: a new one, the demo's or its own.
LEMMA CommitOrgs ==
    ASSUME TypeOK, AccInv, NEW s \in Sessions
    PROVE  /\ work[s].at \in {"ready", "bound", "storing"} => work[s].org \in Orgs
           /\ CommitCallback(s) \/ StoreRepo(s) => work[s].org \in orgs \ demo
           /\ DemoSession(s) \/ CommitSeed(s) => AtDemo(s)
BY WorkKinds DEF AccInv, DemoInv, AtOwn, AtDemo, Holding, CommitCallback, StoreRepo,
                 DemoSession, CommitSeed

\* Rows appear for committed organizations only.
LEMMA NewOrgsNext == TypeOK /\ AccInv /\ [Next]_vars => NewOrgsAreEmpty'
<1> SUFFICES ASSUME TypeOK, AccInv, [Next]_vars PROVE NewOrgsAreEmpty'
  OBVIOUS
<1> NewOrgsAreEmpty
  BY DEF AccInv
<1> USE DEF NewOrgsAreEmpty, TypeOK
<1>1. CASE UNCHANGED tables
  BY <1>1 DEF tables
<1>2. ASSUME NEW u \in People, Signup(u) PROVE NewOrgsAreEmpty'
  BY <1>2 DEF Signup
<1>3. ASSUME NEW s \in Sessions, NEW o \in Orgs, CreateOrganization(s, o) PROVE NewOrgsAreEmpty'
  BY <1>3 DEF CreateOrganization
<1>4. ASSUME NEW s \in Sessions, DemoSession(s) PROVE NewOrgsAreEmpty'
  BY <1>4 DEF DemoSession, DemoRows
<1>5. ASSUME NEW s \in Sessions, CommitCallback(s) PROVE NewOrgsAreEmpty'
  BY <1>5, CommitOrgs DEF CommitCallback, WriteInstallation
<1>6. ASSUME NEW s \in Sessions, CommitSeed(s) PROVE NewOrgsAreEmpty'
  BY <1>6 DEF CommitSeed, DemoRows, WriteInstallation
<1>7. ASSUME NEW s \in Sessions, StoreRepo(s) PROVE NewOrgsAreEmpty'
  BY <1>7, CommitOrgs DEF StoreRepo
<1>. QED
  BY <1>1, <1>2, <1>3, <1>4, <1>5, <1>6, <1>7, StepKinds DEF Committing

\* A commit of an installation passes the unique constraint.
LEMMA OneOrgNext == TypeOK /\ AccInv /\ [Next]_vars => OneOrgPerInstallation'
<1> SUFFICES ASSUME TypeOK, AccInv, [Next]_vars PROVE OneOrgPerInstallation'
  OBVIOUS
<1> OneOrgPerInstallation /\ NewOrgsAreEmpty
  BY DEF AccInv
<1> USE DEF OneOrgPerInstallation, NewOrgsAreEmpty, TypeOK
<1>1. CASE UNCHANGED tables
  BY <1>1 DEF tables
<1>2. ASSUME NEW u \in People, Signup(u) PROVE OneOrgPerInstallation'
  BY <1>2 DEF Signup
<1>3. ASSUME NEW s \in Sessions, NEW o \in Orgs, CreateOrganization(s, o)
      PROVE  OneOrgPerInstallation'
  BY <1>3 DEF CreateOrganization
<1>4. ASSUME NEW s \in Sessions, DemoSession(s) PROVE OneOrgPerInstallation'
  <2>1. orgs \subseteq orgs' /\ UNCHANGED install
    BY <1>4 DEF DemoSession, DemoRows
  <2>2. \A o \in orgs' \ orgs : install'[o] = None
    BY <1>4, <2>1, CommitOrgs DEF DemoSession, DemoRows
  <2>. QED
    BY <2>1, <2>2
<1>5. ASSUME NEW s \in Sessions, CommitCallback(s) PROVE OneOrgPerInstallation'
  BY <1>5, CommitOrgs DEF CommitCallback, WriteInstallation, UniqueInstallation, Taken
<1>6. ASSUME NEW s \in Sessions, CommitSeed(s) PROVE OneOrgPerInstallation'
  <2>1. orgs' = orgs \cup {work[s].org} /\ work[s].org \in Orgs
    BY <1>6, CommitOrgs DEF CommitSeed, DemoRows
  <2>2. CASE UNCHANGED install
    BY <2>1, <2>2
  <2>3. CASE /\ ~Taken(work[s].org, work[s].inst)
             /\ install' = [install EXCEPT ![work[s].org] = work[s].inst]
    BY <2>1, <2>3 DEF Taken
  <2>. QED
    BY <1>6, <2>2, <2>3 DEF CommitSeed, WriteInstallation, UniqueInstallation
<1>7. ASSUME NEW s \in Sessions, StoreRepo(s) PROVE OneOrgPerInstallation'
  BY <1>7 DEF StoreRepo
<1>. QED
  BY <1>1, <1>2, <1>3, <1>4, <1>5, <1>6, <1>7, StepKinds DEF Committing
-----------------------------------------------------------------------------
\* A step after which its session is not creating an organization.
LEMMA UsersWork ==
    ASSUME TypeOK, UsersInv, NEW s \in Sessions, NEW w \in Work, Turn(s, w),
           w.at # "creating", UNCHANGED <<users, orgOf, orgs, tokens>>
    PROVE  UsersInv'
<1>1. \A t \in Sessions : \A u \in Users : Creating(t, u)' => Creating(t, u) /\ t # s
  BY WorkMoves DEF Creating
<1>. QED
  BY <1>1 DEF UsersInv, SignedUp

LEMMA UsersRequest ==
    ASSUME TypeOK, AccInv, NEW s \in Sessions, Request(s)
    PROVE  UsersInv'
<1> UsersInv
  BY DEF AccInv
<1>1. ASSUME NEW w \in Work, Begin(s, w), w.at # "creating", UNCHANGED <<tables, tokens>>
      PROVE  UsersInv'
  BY <1>1, UsersWork DEF Begin, Turn, tables
<1>2. ASSUME NEW tok \in tokens, LockUser(s, tok) PROVE UsersInv'
  <2> DEFINE w == [at |-> "creating", user |-> tok.user]
  <2>1. tok.user \in Users /\ w \in Work
    BY DEF TypeOK, Work
  <2>2. Turn(s, w) /\ UNCHANGED <<users, orgOf, orgs, tokens>>
    BY <1>2 DEF LockUser, Begin, Turn, tables
  <2>3. \A t \in Sessions : ~Creating(t, tok.user)
    <3>1. \A t \in Sessions : Creating(t, tok.user) => work[t] = w
      BY DEF Creating, TypeOK, Work, Idle
    <3>. QED
      BY <1>2, <3>1 DEF LockUser, UserRowFree
  <2>4. tok.user \in users /\ SignedUp(tok.user) /\ orgOf[tok.user] = None
    BY <1>2 DEF LockUser, UsersInv, SignedUp
  <2>5. \A t \in Sessions : \A u \in Users :
          Creating(t, u)' => IF t = s THEN u = tok.user ELSE Creating(t, u)
    BY <2>1, <2>2, WorkMoves DEF Creating
  <2>. QED
    BY <2>2, <2>3, <2>4, <2>5 DEF UsersInv, SignedUp
<1>3. ASSUME NEW tok \in tokens, NEW i \in Installations, Callback(s, tok, i) PROVE UsersInv'
  <2>1. Loaded("callback", tok.org, i) \in Work
    BY <1>3, LoadedIsWork DEF Callback, MayInstall, TypeOK
  <2>2. Loaded("callback", tok.org, i).at # "creating"
    BY DEF Loaded
  <2>. QED
    BY <1>1, <1>3, <2>1, <2>2 DEF Callback
<1>4. ASSUME NEW tok \in tokens, NEW n \in Names, AddRepo(s, tok, n) PROVE UsersInv'
  <2>1. [at |-> "adding", org |-> tok.org, name |-> n] \in Work
    BY <1>4 DEF AddRepo, TypeOK, Work
  <2>. QED
    BY <1>1, <1>4, <2>1 DEF AddRepo
<1>5. ASSUME NEW i \in Installations \cup {None}, DemoFound(s, i) PROVE UsersInv'
  <2>1. PICK o \in demo : Begin(s, Loaded(By(i), o, i))
    BY <1>5 DEF DemoFound
  <2>2. Loaded(By(i), o, i) \in Work
    BY AccountsAssumption, LoadedIsWork DEF By, TypeOK
  <2>3. Loaded(By(i), o, i).at # "creating"
    BY DEF Loaded
  <2>. QED
    BY <1>1, <1>5, <2>1, <2>2, <2>3 DEF DemoFound
<1>6. ASSUME NEW i \in Installations \cup {None}, DemoMissing(s, i) PROVE UsersInv'
  <2>1. [at |-> "missing", inst |-> i] \in Work
    BY DEF Work
  <2>. QED
    BY <1>1, <1>6, <2>1 DEF DemoMissing
<1>. QED
  BY <1>2, <1>3, <1>4, <1>5, <1>6 DEF Request

\* The rows of the demo user and of its organization.
LEMMA UsersDemoRows ==
    ASSUME TypeOK, AccInv, NEW s \in Sessions, work[s].org \in Orgs,
           DemoRows(work[s].org), End(s),
           \/ UNCHANGED tokens
           \/ tokens' = tokens \cup {Token(DemoUser, orgOf'[DemoUser], TRUE)}
    PROVE  UsersInv'
<1> USE AccountsAssumption DEF TypeOK, Users
<1>1. UsersInv /\ (DemoUser \in users => orgOf[DemoUser] \in demo \/ SignedUp(DemoUser))
  BY DEF AccInv, DemoInv
<1>2. /\ users' = users \cup {DemoUser} /\ orgs \subseteq orgs'
      /\ \A u \in Users \ {DemoUser} : orgOf'[u] = orgOf[u]
      /\ DemoUser \in users => orgOf'[DemoUser] = orgOf[DemoUser]
      /\ DemoUser \notin users => orgOf'[DemoUser] = work[s].org /\ work[s].org \in orgs'
      /\ tokens \subseteq tokens'
  BY <1>1 DEF DemoRows
<1>3. \A t \in Sessions : \A u \in Users : Creating(t, u)' => Creating(t, u) /\ t # s
  <2>1. Idle \in Work
    BY DEF Work
  <2>. QED
    BY <2>1, WorkMoves DEF End, Creating, Idle
<1>4. \A u \in Users : orgOf'[u] # None => orgOf'[u] \in orgs'
  BY <1>1, <1>2 DEF UsersInv
<1>5. \A u \in Users \ users' : orgOf'[u] = None
  BY <1>1, <1>2 DEF UsersInv
<1>s. \A u \in Users : SignedUp(u) => SignedUp(u)'
  BY <1>2, StaysSignedUp
<1>6. \A tok \in tokens' :
         /\ tok.user \in users'
         /\ tok.org # None => orgOf'[tok.user] = tok.org
         /\ tok.ro => tok.user = DemoUser
         /\ tok.ro => tok.org # None \/ SignedUp(DemoUser)'
  <2>1. ASSUME NEW tok \in tokens
        PROVE  /\ tok.user \in users'
               /\ tok.org # None => orgOf'[tok.user] = tok.org
               /\ tok.ro => tok.user = DemoUser
               /\ tok.ro => tok.org # None \/ SignedUp(DemoUser)'
    <3>1. /\ tok.user \in Users /\ tok.user \in users
          /\ tok.org # None => orgOf[tok.user] = tok.org
          /\ tok.ro => tok.user = DemoUser
          /\ tok.ro => tok.org # None \/ SignedUp(DemoUser)
      BY <1>1 DEF UsersInv
    <3>2. orgOf'[tok.user] = orgOf[tok.user]
      BY <1>2, <3>1
    <3>. QED
      BY <1>2, <1>s, <3>1, <3>2
  <2>2. orgOf'[DemoUser] # None \/ SignedUp(DemoUser)'
    BY <1>1, <1>2, <1>s
  <2>3. ASSUME NEW tok \in tokens', tok \notin tokens
        PROVE  tok.user = DemoUser /\ tok.org = orgOf'[DemoUser]
    BY <2>3 DEF Token
  <2>. QED
    BY <1>2, <2>1, <2>2, <2>3
<1>7. \A t \in Sessions : \A u \in Users : Creating(t, u)' =>
         /\ u \in users' /\ SignedUp(u)' /\ orgOf'[u] = None
         /\ \A v \in Sessions : Creating(v, u)' => t = v
  BY <1>1, <1>2, <1>3, <1>s DEF UsersInv
<1>. QED
  BY <1>4, <1>5, <1>6, <1>7 DEF UsersInv

LEMMA UsersAdvance ==
    ASSUME TypeOK, AccInv, NEW s \in Sessions, Advance(s) \/ Abort(s)
    PROVE  UsersInv'
<1> UsersInv
  BY DEF AccInv
<1>i. Idle \in Work /\ Idle.at = "idle"
  BY DEF Work, Idle
<1>1. ASSUME NEW w \in Work, Turn(s, w), w.at # "creating",
             UNCHANGED <<users, orgOf, orgs, tokens>>
      PROVE  UsersInv'
  BY <1>1, UsersWork
<1>2. ASSUME NEW o \in Orgs, CreateOrganization(s, o) PROVE UsersInv'
  <2> DEFINE u == work[s].user
  <2> USE AccountsAssumption DEF TypeOK
  <2>1. /\ Creating(s, u) /\ u \in Users
        /\ orgs' = orgs \cup {o} /\ orgOf' = [orgOf EXCEPT ![u] = o]
        /\ tokens' = tokens \cup {Token(u, o, FALSE)} /\ UNCHANGED users
    BY <1>2, WorkKinds DEF CreateOrganization, Creating
  <2>2. \A t \in Sessions : \A x \in Users : Creating(t, x)' => Creating(t, x) /\ t # s
    BY <1>2, <1>i, WorkMoves DEF CreateOrganization, End, Creating
  <2>3. /\ u \in users /\ orgOf[u] = None
        /\ \A t \in Sessions : Creating(t, u) => s = t
    BY <2>1 DEF UsersInv
  <2>s. \A x \in Users : SignedUp(x) => SignedUp(x)'
    BY <2>1, StaysSignedUp
  <2>4. \A tok \in tokens' :
         /\ tok.user \in users'
         /\ tok.org # None => orgOf'[tok.user] = tok.org
         /\ tok.ro => tok.user = DemoUser
         /\ tok.ro => tok.org # None \/ SignedUp(DemoUser)'
    BY <2>1, <2>3, <2>s DEF UsersInv, Token, Users
  <2>5. \A t \in Sessions : \A x \in Users : Creating(t, x)' =>
         /\ x \in users' /\ SignedUp(x)' /\ orgOf'[x] = None
         /\ \A v \in Sessions : Creating(v, x)' => t = v
    BY <2>1, <2>2, <2>3, <2>s DEF UsersInv
  <2>6. \A x \in Users : orgOf'[x] # None => orgOf'[x] \in orgs'
    BY <2>1 DEF UsersInv
  <2>7. \A x \in Users \ users' : orgOf'[x] = None
    BY <2>1, <2>3 DEF UsersInv
  <2>. QED
    BY <2>4, <2>5, <2>6, <2>7 DEF UsersInv
<1>3. ASSUME NEW o \in Orgs, DemoInsert(s, o) PROVE UsersInv'
  <2>1. Loaded(By(work[s].inst), o, work[s].inst) \in Work
    BY <1>3, AccountsAssumption, WorkKinds, LoadedIsWork DEF DemoInsert, By
  <2>2. Loaded(By(work[s].inst), o, work[s].inst).at # "creating"
    BY DEF Loaded
  <2>. QED
    BY <1>1, <1>3, <2>1, <2>2 DEF DemoInsert, tables
<1>4. CASE DemoSession(s)
  BY <1>4, CommitOrgs, UsersDemoRows DEF DemoSession
<1>5. CASE CommitSeed(s)
  BY <1>5, CommitOrgs, UsersDemoRows DEF CommitSeed
<1>6. CASE BindInstallation(s) \/ LockOrg(s)
  <2>1. PICK w : Turn(s, w) /\ w.at # "creating" /\ UNCHANGED <<tables, tokens>>
    <3>1. [work[s] EXCEPT !.at = "storing"].at = "storing"
             \/ ~LockOrg(s)
      BY DEF LockOrg, TypeOK, Work, Idle
    <3>2. [work[s] EXCEPT !.at = "bound", !.repos = repos[work[s].org]].at = "bound"
             \/ ~BindInstallation(s)
      BY DEF BindInstallation, TypeOK, Work, Idle
    <3>. QED
      BY <1>6, <3>1, <3>2 DEF BindInstallation, LockOrg
  <2>2. \A t \in Sessions : \A u \in Users : Creating(t, u)' => Creating(t, u) /\ t # s
    BY <2>1 DEF Turn, Creating, TypeOK
  <2>. QED
    BY <2>1, <2>2 DEF UsersInv, SignedUp, tables
<1>7. CASE CommitCallback(s) \/ StoreRepo(s)
  BY <1>1, <1>7, <1>i DEF CommitCallback, StoreRepo, End
<1>8. CASE Refuse(s)
  BY <1>1, <1>8, <1>i DEF Refuse, End, tables
<1>. QED
  BY <1>2, <1>3, <1>4, <1>5, <1>6, <1>7, <1>8
     DEF Advance, Abort, DemoClash, InstallationTaken, AddRefused

\* A user gets an organization once, from the session that holds the row's lock.
LEMMA UsersNext == TypeOK /\ AccInv /\ [Next]_vars => UsersInv'
<1> SUFFICES ASSUME TypeOK, AccInv, [Next]_vars PROVE UsersInv'
  OBVIOUS
<1> UsersInv
  BY DEF AccInv
<1>1. ASSUME NEW u \in People, Signup(u) \/ Login(u) PROVE UsersInv'
  <2>1. /\ u \in Users /\ u \in users'
        /\ UNCHANGED <<orgOf, orgs, work>>
        /\ users \subseteq users' /\ users' \subseteq users \cup {u}
        /\ \/ tokens' = tokens \cup {Token(u, None, FALSE)}
           \/ tokens' = tokens \cup {Token(u, orgOf[u], FALSE)}
    <3>1. CASE Signup(u)
      BY <3>1 DEF Signup, Users
    <3>2. CASE Login(u)
      BY <3>2 DEF Login, SignedUp, UsersInv, tables, Users
    <3>. QED
      BY <1>1, <3>1, <3>2
  <2>2. \A tok \in tokens' : \/ tok \in tokens
                             \/ /\ tok.user = u /\ tok.ro = FALSE
                                /\ tok.org # None => tok.org = orgOf[u]
    BY <2>1 DEF Token
  <2>s. \A x \in Users : SignedUp(x) => SignedUp(x)'
    BY <2>1, StaysSignedUp
  <2>3. \A x \in Users : orgOf'[x] # None => orgOf'[x] \in orgs'
    BY <2>1 DEF UsersInv
  <2>4. \A x \in Users \ users' : orgOf'[x] = None
    BY <2>1 DEF UsersInv
  <2>5. \A tok \in tokens' :
         /\ tok.user \in users'
         /\ tok.org # None => orgOf'[tok.user] = tok.org
         /\ tok.ro => tok.user = DemoUser
         /\ tok.ro => tok.org # None \/ SignedUp(DemoUser)'
    <3>1. \A tok \in tokens :
           /\ tok.user \in users'
           /\ tok.org # None => orgOf'[tok.user] = tok.org
           /\ tok.ro => tok.user = DemoUser
           /\ tok.ro => tok.org # None \/ SignedUp(DemoUser)'
      BY <2>1, <2>s DEF UsersInv, Users
    <3>. QED
      BY <2>1, <2>2, <3>1
  <2>6. \A t \in Sessions : \A x \in Users : Creating(t, x)' =>
         /\ x \in users' /\ SignedUp(x)' /\ orgOf'[x] = None
         /\ \A v \in Sessions : Creating(v, x)' => t = v
    BY <2>1, <2>s DEF UsersInv, Creating
  <2>. QED
    BY <2>3, <2>4, <2>5, <2>6 DEF UsersInv
<1>2. CASE UNCHANGED vars
  BY <1>2 DEF vars, tables, UsersInv, Creating, SignedUp
<1>. QED
  BY <1>1, <1>2, UsersRequest, UsersAdvance DEF Next
-----------------------------------------------------------------------------
\* A step of one session that commits none of the rows of DemoInv: its session
\* keeps the organization it holds or takes one that it may work on.
LEMMA DemoMoves ==
    ASSUME TypeOK, DemoInv, NEW s \in Sessions, NEW w \in Work, Turn(s, w),
           UNCHANGED <<users, orgOf, orgs, demo, tokens>>,
           AtDemo(s)' => \/ w.org \in demo
                         \/ AtDemo(s) /\ w.org = work[s].org
                         \/ /\ demo = {} /\ w.org \notin orgs
                            /\ \A t \in Sessions : AtDemo(t) => work[t].org \in orgs,
           AtOwn(s)' => w.org \in orgs \ demo
    PROVE  DemoInv'
<1>1. work'[s] = w /\ \A t \in Sessions \ {s} : work'[t] = work[t]
  BY WorkMoves
<1>2. \A t \in Sessions \ {s} : (AtDemo(t)' <=> AtDemo(t)) /\ (AtOwn(t)' <=> AtOwn(t))
  BY <1>1 DEF AtDemo, AtOwn, Holding
<1>3. demo \subseteq orgs
  BY DEF TypeOK
<1>4. \A t \in Sessions : AtOwn(t)' => work'[t].org \in orgs \ demo
  BY <1>1, <1>2 DEF DemoInv
<1>5. \A t \in Sessions : AtDemo(t)' =>
         IF work'[t].org \in orgs THEN work'[t].org \in demo
         ELSE demo = {} /\ \A v \in Sessions : (AtDemo(v)' /\ work'[v].org \notin orgs) => t = v
  BY <1>1, <1>2, <1>3 DEF DemoInv
<1>. QED
  BY <1>4, <1>5 DEF DemoInv, SignedUp

\* The commit of the demo organization, by the one session that inserted it or
\* by any of those that found it.
LEMMA DemoCommits ==
    ASSUME TypeOK, AccInv, NEW s \in Sessions, work[s].org \in Orgs, AtDemo(s),
           DemoRows(work[s].org), End(s),
           \/ UNCHANGED tokens
           \/ tokens' = tokens \cup {Token(DemoUser, orgOf'[DemoUser], TRUE)}
    PROVE  DemoInv'
<1> DEFINE o == work[s].org
<1> USE AccountsAssumption DEF TypeOK, Users
<1>1. UsersInv /\ DemoInv
  BY DEF AccInv
<1>2. /\ work'[s] = Idle /\ \A t \in Sessions \ {s} : work'[t] = work[t]
      /\ ~AtDemo(s)' /\ ~AtOwn(s)'
      /\ \A t \in Sessions \ {s} : (AtDemo(t)' <=> AtDemo(t)) /\ (AtOwn(t)' <=> AtOwn(t))
  <2>1. Idle \in Work
    BY DEF Work
  <2>2. work'[s] = Idle /\ \A t \in Sessions \ {s} : work'[t] = work[t]
    BY <2>1, WorkMoves DEF End
  <2>. QED
    BY <2>2 DEF AtDemo, AtOwn, Holding, Idle
<1>3. /\ orgs' = orgs \cup {o} /\ demo' = demo \cup {o} /\ users' = users \cup {DemoUser}
      /\ \A u \in Users \ {DemoUser} : orgOf'[u] = orgOf[u]
      /\ DemoUser \in users => orgOf'[DemoUser] = orgOf[DemoUser]
      /\ DemoUser \notin users => orgOf'[DemoUser] = o
      /\ o # None
  BY DEF DemoRows
<1>s. /\ SignedUp(DemoUser)' <=> SignedUp(DemoUser)
      /\ SignedUp(DemoUser) => DemoUser \in users
  <2>1. \A tok : tok = Token(DemoUser, orgOf'[DemoUser], TRUE) => tok.ro
    BY DEF Token
  <2>2. \A tok \in tokens : tok \in tokens'
    OBVIOUS
  <2>3. \A tok \in tokens' : tok \in tokens \/ tok.ro
    BY <2>1
  <2>4. SignedUp(DemoUser)' <=> SignedUp(DemoUser)
    BY <2>2, <2>3 DEF SignedUp
  <2>. QED
    BY <1>1, <2>4 DEF SignedUp, UsersInv
<1>4. CASE o \in orgs
  <2>1. o \in demo /\ demo' = demo /\ orgs' = orgs
    BY <1>1, <1>3, <1>4 DEF DemoInv
  <2>2. \A p, q \in demo' : p = q
    BY <1>1, <2>1 DEF DemoInv
  <2>3. \A u \in users' : orgOf'[u] \in demo' => u = DemoUser /\ ~SignedUp(DemoUser)'
    BY <1>1, <1>3, <1>s, <2>1 DEF DemoInv
  <2>4. orgOf'[DemoUser] \in demo' \/ SignedUp(DemoUser)'
    BY <1>1, <1>3, <1>s, <2>1 DEF DemoInv
  <2>5. \A t \in Sessions : AtOwn(t)' => work'[t].org \in orgs' \ demo'
    BY <1>1, <1>2, <2>1 DEF DemoInv
  <2>6. \A t \in Sessions : AtDemo(t)' => work'[t].org \in demo'
    BY <1>1, <1>2, <2>1 DEF DemoInv
  <2>. QED
    BY <2>1, <2>2, <2>3, <2>4, <2>5, <2>6 DEF DemoInv
<1>5. CASE o \notin orgs
  <2>1. demo = {} /\ \A t \in Sessions : AtDemo(t) /\ work[t].org \notin orgs => s = t
    BY <1>1, <1>5 DEF DemoInv
  <2>2. \A t \in Sessions : AtDemo(t) => t = s
    BY <1>1, <2>1 DEF DemoInv
  <2>3. \A p, q \in demo' : p = q
    BY <1>3, <2>1
  <2>4. \A u \in users' : orgOf'[u] \in demo' => u = DemoUser /\ ~SignedUp(DemoUser)'
    <3>1. \A u \in users : orgOf[u] # o
      BY <1>1, <1>3, <1>5 DEF UsersInv
    <3>2. \A u \in users : orgOf'[u] \notin demo'
      BY <1>3, <2>1, <3>1
    <3>. QED
      BY <1>3, <1>s, <3>2
  <2>5. orgOf'[DemoUser] \in demo' \/ SignedUp(DemoUser)'
    BY <1>1, <1>3, <1>s, <2>1 DEF DemoInv
  <2>6. \A t \in Sessions : AtOwn(t)' => work'[t].org \in orgs' \ demo'
    BY <1>1, <1>2, <1>3, <1>5, <2>1 DEF DemoInv
  <2>7. \A t \in Sessions : ~AtDemo(t)'
    BY <1>2, <2>2
  <2>. QED
    BY <2>3, <2>4, <2>5, <2>6, <2>7 DEF DemoInv
<1>. QED
  BY <1>4, <1>5

\* A writable session's organization is not the demo's.
LEMMA OwnOrg ==
    ASSUME TypeOK, AccInv, NEW tok \in tokens, ~tok.ro, tok.org \in orgs
    PROVE  tok.org \in orgs \ demo
<1>1. tok.user \in users /\ orgOf[tok.user] = tok.org /\ SignedUp(tok.user)
  BY AccountsAssumption DEF AccInv, UsersInv, TypeOK, SignedUp
<1>. QED
  BY <1>1 DEF AccInv, DemoInv

LEMMA DemoRequest ==
    ASSUME TypeOK, AccInv, NEW s \in Sessions, Request(s)
    PROVE  DemoInv'
<1> DemoInv
  BY DEF AccInv
<1>1. ASSUME NEW w \in Work, Begin(s, w), UNCHANGED <<tables, tokens>>,
             w.at = "ready" =>
                IF w.by = "callback" THEN w.org \in orgs \ demo ELSE w.org \in demo,
             w.at # "bound",
             w.at \in {"adding", "storing"} => w.org \in orgs \ demo
      PROVE  DemoInv'
  <2>1. Turn(s, w) /\ work'[s] = w
    BY <1>1, WorkMoves DEF Begin, Turn
  <2>2. AtDemo(s)' => w.org \in demo
    BY <1>1, <2>1 DEF AtDemo, Holding
  <2>3. AtOwn(s)' => w.org \in orgs \ demo
    BY <1>1, <2>1 DEF AtOwn, Holding
  <2>. QED
    BY <1>1, <2>1, <2>2, <2>3, DemoMoves DEF tables
<1>2. ASSUME NEW tok \in tokens, LockUser(s, tok) PROVE DemoInv'
  <2> DEFINE w == [at |-> "creating", user |-> tok.user]
  <2>1. w \in Work
    BY DEF TypeOK, Work
  <2>. QED
    BY <1>1, <1>2, <2>1 DEF LockUser
<1>3. ASSUME NEW tok \in tokens, NEW i \in Installations, Callback(s, tok, i) PROVE DemoInv'
  <2> DEFINE w == Loaded("callback", tok.org, i)
  <2>1. tok.org \in orgs \ demo
    BY <1>3, OwnOrg DEF Callback, MayInstall
  <2>2. w \in Work
    BY <2>1, LoadedIsWork DEF TypeOK
  <2>3. w.at = "ready" /\ w.by = "callback" /\ w.org = tok.org
    BY DEF Loaded
  <2>4. Begin(s, w) /\ UNCHANGED <<tables, tokens>>
    BY <1>3 DEF Callback
  <2> HIDE DEF w
  <2>. QED
    BY <1>1, <2>1, <2>2, <2>3, <2>4
<1>4. ASSUME NEW tok \in tokens, NEW n \in Names, AddRepo(s, tok, n) PROVE DemoInv'
  <2> DEFINE w == [at |-> "adding", org |-> tok.org, name |-> n]
  <2>1. tok.org \in orgs \ demo
    BY <1>4, OwnOrg DEF AddRepo
  <2>2. w \in Work
    BY <2>1 DEF Work, TypeOK
  <2>. QED
    BY <1>1, <1>4, <2>1, <2>2 DEF AddRepo
<1>5. ASSUME NEW i \in Installations \cup {None}, DemoFound(s, i) PROVE DemoInv'
  <2>1. PICK o \in demo : Begin(s, Loaded(By(i), o, i))
    BY <1>5 DEF DemoFound
  <2> DEFINE w == Loaded(By(i), o, i)
  <2>2. w \in Work
    BY AccountsAssumption, LoadedIsWork DEF By, TypeOK
  <2>3. w.at = "ready" /\ w.by # "callback" /\ w.org = o
    BY DEF Loaded, By
  <2>4. Begin(s, w) /\ UNCHANGED <<tables, tokens>>
    BY <1>5, <2>1 DEF DemoFound
  <2> HIDE DEF w
  <2>. QED
    BY <1>1, <2>2, <2>3, <2>4
<1>6. ASSUME NEW i \in Installations \cup {None}, DemoMissing(s, i) PROVE DemoInv'
  <2>1. [at |-> "missing", inst |-> i] \in Work
    BY DEF Work
  <2>. QED
    BY <1>1, <1>6, <2>1 DEF DemoMissing
<1>. QED
  BY <1>2, <1>3, <1>4, <1>5, <1>6 DEF Request

LEMMA DemoAdvance ==
    ASSUME TypeOK, AccInv, NEW s \in Sessions, Advance(s) \/ Abort(s)
    PROVE  DemoInv'
<1> UsersInv /\ DemoInv
  BY DEF AccInv
<1>i. Idle \in Work /\ Idle.at = "idle"
  BY DEF Work, Idle
<1>1. ASSUME End(s), UNCHANGED <<users, orgOf, orgs, demo, tokens>> PROVE DemoInv'
  <2>1. ~AtDemo(s)' /\ ~AtOwn(s)'
    BY <1>1, <1>i, WorkMoves DEF End, AtDemo, AtOwn, Holding
  <2>. QED
    BY <1>1, <1>i, <2>1, DemoMoves DEF End
<1>2. ASSUME NEW o \in Orgs, CreateOrganization(s, o) PROVE DemoInv'
  <2> DEFINE u == work[s].user
  <2> USE AccountsAssumption DEF TypeOK
  <2>1. /\ Creating(s, u) /\ u \in Users
        /\ orgs' = orgs \cup {o} /\ orgOf' = [orgOf EXCEPT ![u] = o]
        /\ UNCHANGED <<users, demo>>
        /\ o \notin orgs
        /\ tokens' = tokens \cup {Token(u, o, FALSE)}
    BY <1>2, WorkKinds DEF CreateOrganization, Creating
  <2>2. u \in users /\ SignedUp(u) /\ o \notin demo
    BY <2>1 DEF UsersInv
  <2>s. SignedUp(DemoUser)' <=> SignedUp(DemoUser)
    <3>1. \A tok \in tokens' : tok \in tokens \/ tok.user = u
      BY <2>1 DEF Token
    <3>2. SignedUp(DemoUser)' => SignedUp(DemoUser)
      BY <2>2, <3>1 DEF SignedUp
    <3>. QED
      BY <2>1, <3>2, StaysSignedUp
  <2>3. /\ \A t \in Sessions : AtDemo(t)' => AtDemo(t) /\ work'[t] = work[t]
        /\ \A t \in Sessions : AtOwn(t)' => AtOwn(t) /\ work'[t] = work[t]
    BY <1>2, <1>i, WorkMoves DEF CreateOrganization, End, AtDemo, AtOwn, Holding
  <2>4. \A t \in Sessions : AtDemo(t) /\ work[t].org \notin orgs => work[t].org # o
    BY <1>2 DEF CreateOrganization, Inserting, AtDemo, Holding
  <2>5. \A x \in users' : orgOf'[x] \in demo' => x = DemoUser /\ ~SignedUp(DemoUser)'
    BY <2>1, <2>2, <2>s DEF DemoInv
  <2>6. DemoUser \in users' => orgOf'[DemoUser] \in demo' \/ SignedUp(DemoUser)'
    BY <2>1, <2>2, <2>s DEF DemoInv, Users
  <2>7. \A t \in Sessions : AtOwn(t)' => work'[t].org \in orgs' \ demo'
    BY <2>1, <2>3 DEF DemoInv
  <2>8. \A t \in Sessions : AtDemo(t)' =>
          IF work'[t].org \in orgs' THEN work'[t].org \in demo'
          ELSE demo' = {} /\ \A v \in Sessions :
                               (AtDemo(v)' /\ work'[v].org \notin orgs') => t = v
    BY <2>1, <2>3, <2>4 DEF DemoInv
  <2>9. \A p, q \in demo' : p = q
    BY <2>1 DEF DemoInv
  <2>. QED
    BY <2>5, <2>6, <2>7, <2>8, <2>9 DEF DemoInv
<1>3. ASSUME NEW o \in Orgs, DemoInsert(s, o) PROVE DemoInv'
  <2> DEFINE w == Loaded(By(work[s].inst), o, work[s].inst)
  <2>1. w \in Work
    BY <1>3, AccountsAssumption, WorkKinds, LoadedIsWork DEF DemoInsert, By
  <2>2. w.at = "ready" /\ w.by # "callback" /\ w.org = o
    BY DEF Loaded, By
  <2>3. /\ Turn(s, w) /\ UNCHANGED <<tables, tokens>>
        /\ demo = {} /\ Inserting = {} /\ o \notin orgs
    BY <1>3 DEF DemoInsert, SlugFree
  <2> HIDE DEF w
  <2>4. \A t \in Sessions : AtDemo(t) => work[t].org \in orgs
    BY <2>3 DEF Inserting, AtDemo, Holding
  <2>5. ~AtOwn(s)'
    BY <2>1, <2>2, <2>3, WorkMoves DEF AtOwn, Holding
  <2>. QED
    BY <2>1, <2>2, <2>3, <2>4, <2>5, DemoMoves DEF tables
<1>4. CASE DemoSession(s) \/ CommitSeed(s)
  BY <1>4, CommitOrgs, DemoCommits DEF DemoSession, CommitSeed
<1>5. CASE BindInstallation(s) \/ LockOrg(s)
  <2>1. PICK w \in Work : /\ Turn(s, w) /\ UNCHANGED <<tables, tokens>>
                          /\ w.org = work[s].org
                          /\ \/ /\ work[s].at = "ready" /\ w.at = "bound" /\ w.by = work[s].by
                             \/ /\ work[s].at = "adding" /\ w.at = "storing"
    <3>1. ASSUME LockOrg(s)
          PROVE  LET w == [work[s] EXCEPT !.at = "storing"]
                 IN  w \in Work /\ w.org = work[s].org /\ w.at = "storing"
      BY <3>1 DEF LockOrg, TypeOK, Work, Idle
    <3>2. ASSUME BindInstallation(s)
          PROVE  LET w == [work[s] EXCEPT !.at = "bound", !.repos = repos[work[s].org]]
                 IN  /\ w \in Work /\ w.org = work[s].org /\ w.at = "bound"
                     /\ w.by = work[s].by
      <4> DEFINE Bound == [at : {"ready", "bound"}, by : {"seed", "callback"}, org : Orgs,
                           inst : Installations, had : Installations \cup {None},
                           repos : SUBSET Names]
      <4>1. work[s] \in Bound
        BY <3>2 DEF BindInstallation, TypeOK, Work, Idle
      <4>2. repos[work[s].org] \in SUBSET Names
        BY <4>1 DEF TypeOK
      <4>3. [work[s] EXCEPT !.at = "bound", !.repos = repos[work[s].org]] \in Bound
        BY <4>1, <4>2
      <4>. QED
        BY <4>1, <4>3 DEF Work
    <3>. QED
      BY <1>5, <3>1, <3>2 DEF BindInstallation, LockOrg
  <2>2. work'[s] = w
    BY <2>1, WorkMoves
  <2>3. AtDemo(s)' => AtDemo(s)
    BY <2>1, <2>2 DEF AtDemo, Holding
  <2>4. AtOwn(s)' => AtOwn(s)
    BY <2>1, <2>2 DEF AtOwn, Holding
  <2>5. AtOwn(s)' => w.org \in orgs \ demo
    BY <2>1, <2>4 DEF DemoInv
  <2>. QED
    BY <2>1, <2>3, <2>5, DemoMoves DEF tables
<1>6. CASE CommitCallback(s) \/ StoreRepo(s)
  BY <1>1, <1>6 DEF CommitCallback, StoreRepo
<1>7. CASE Refuse(s)
  BY <1>1, <1>7 DEF Refuse, tables
<1>. QED
  BY <1>2, <1>3, <1>4, <1>5, <1>6, <1>7
     DEF Advance, Abort, DemoClash, InstallationTaken, AddRefused

\* There is one demo organization, and only its user and the seed script use it.
LEMMA DemoNext == TypeOK /\ AccInv /\ [Next]_vars => DemoInv'
<1> SUFFICES ASSUME TypeOK, AccInv, [Next]_vars PROVE DemoInv'
  OBVIOUS
<1> UsersInv /\ DemoInv
  BY DEF AccInv
<1>1. ASSUME NEW u \in People, Signup(u) \/ Login(u) PROVE DemoInv'
  <2>1. /\ u \in Users
        /\ UNCHANGED <<orgOf, orgs, demo, work>>
        /\ users \subseteq users' /\ users' \subseteq users \cup {u}
    BY <1>1 DEF Signup, Login, tables, Users
  <2>2. u \notin users => orgOf[u] = None
    BY <2>1 DEF UsersInv
  <2>3. /\ SignedUp(DemoUser) => SignedUp(DemoUser)'
        /\ SignedUp(DemoUser)' => SignedUp(DemoUser) \/ (u = DemoUser /\ DemoUser \notin users)
        /\ DemoUser \in users' \ users => SignedUp(DemoUser)'
    <3>1. CASE Signup(u)
      <4>1. tokens' = tokens \cup {Token(u, None, FALSE)} /\ u \notin users /\ users' = users \cup {u}
        BY <3>1 DEF Signup
      <4>2. Token(u, None, FALSE).user = u /\ ~Token(u, None, FALSE).ro
        BY DEF Token
      <4>3. \A tok \in tokens' : tok \in tokens \/ tok.user = u
        BY <4>1, <4>2
      <4>4. SignedUp(u)'
        BY <4>1, <4>2 DEF SignedUp
      <4>. QED
        BY <4>1, <4>3, <4>4 DEF SignedUp
    <3>2. CASE Login(u)
      <4>1. tokens' = tokens \cup {Token(u, orgOf[u], FALSE)} /\ SignedUp(u) /\ users' = users
        BY <3>2 DEF Login, tables
      <4>2. Token(u, orgOf[u], FALSE).user = u
        BY DEF Token
      <4>3. \A tok \in tokens' : tok \in tokens \/ tok.user = u
        BY <4>1, <4>2
      <4>4. SignedUp(DemoUser)' => SignedUp(DemoUser)
        BY <4>1, <4>3 DEF SignedUp
      <4>. QED
        BY <4>1, <4>4, StaysSignedUp
    <3>. QED
      BY <1>1, <3>1, <3>2
  <2>4. \A x \in users' : orgOf[x] \in demo => x \in users
    BY <2>1, <2>2, AccountsAssumption DEF TypeOK
  <2>5. \A x \in users' : orgOf'[x] \in demo' => x = DemoUser /\ ~SignedUp(DemoUser)'
    BY <2>1, <2>3, <2>4 DEF DemoInv
  <2>6. DemoUser \in users' => orgOf'[DemoUser] \in demo' \/ SignedUp(DemoUser)'
    BY <2>1, <2>3 DEF DemoInv
  <2>. QED
    BY <2>1, <2>5, <2>6 DEF DemoInv, AtDemo, AtOwn, Holding
<1>2. CASE UNCHANGED vars
  BY <1>2 DEF vars, tables, DemoInv, AtDemo, AtOwn, Holding, SignedUp
<1>. QED
  BY <1>1, <1>2, DemoRequest, DemoAdvance DEF Next
-----------------------------------------------------------------------------
\* Steps that store no repository: a session may take the lock of an organization
\* that has room, and an organization may be committed without repositories.
LEMMA LimitMoves ==
    ASSUME TypeOK, AccInv, UNCHANGED repos,
           \A o \in orgs' \ demo' : o \in orgs \ demo \/ (o \notin orgs /\ o \in Orgs),
           \A s \in Sessions : work'[s].at = "storing" =>
              /\ work'[s].org = work[s].org
              /\ \/ work[s].at = "storing"
                 \/ /\ work[s].at = "adding" /\ OrgRowFree(work[s].org)
                    /\ Cardinality(repos[work[s].org]) < RepoLimit
                    /\ \A t \in Sessions \ {s} : work'[t] = work[t]
    PROVE  LimitInv'
<1> SUFFICES ASSUME NEW o \in orgs' \ demo'
             PROVE  /\ IsFiniteSet(repos[o]) /\ Cardinality(repos[o]) <= RepoLimit
                    /\ \A s \in Sessions : (work'[s].at = "storing" /\ work'[s].org = o) =>
                         /\ Cardinality(repos[o]) < RepoLimit
                         /\ \A t \in Sessions :
                              (work'[t].at = "storing" /\ work'[t].org = o) => s = t
  BY DEF LimitInv
<1>1. CASE o \in orgs \ demo
  BY <1>1 DEF AccInv, LimitInv, OrgRowFree
<1>2. CASE o \in Orgs \ orgs
  <2>1. repos[o] = {}
    BY <1>2 DEF AccInv, NewOrgsAreEmpty
  <2>2. \A s \in Sessions : work'[s].at = "storing" => work'[s].org # o
    BY <1>2 DEF AccInv, DemoInv, AtOwn
  <2>. QED
    BY <2>1, <2>2, FS_EmptySet, AccountsAssumption
<1>. QED
  BY <1>1, <1>2

\* The lock is held from the count to the insert of one more repository.
LEMMA LimitNext == TypeOK /\ AccInv /\ [Next]_vars => LimitInv'
<1> SUFFICES ASSUME TypeOK, AccInv, [Next]_vars PROVE LimitInv'
  OBVIOUS
<1>i. Idle \in Work /\ Idle.at = "idle"
  BY DEF Work, Idle
<1>1. ASSUME NEW s \in Sessions, NEW w \in Work, Turn(s, w), w.at # "storing", UNCHANGED repos,
             \A o \in orgs' \ demo' : o \in orgs \ demo \/ (o \notin orgs /\ o \in Orgs)
      PROVE  LimitInv'
  <2>1. work'[s] = w /\ \A t \in Sessions \ {s} : work'[t] = work[t]
    BY <1>1, WorkMoves
  <2>2. \A t \in Sessions : work'[t].at = "storing" => work'[t] = work[t]
    BY <1>1, <2>1
  <2>. QED
    BY <1>1, <2>2, LimitMoves
<1>2. ASSUME NEW s \in Sessions, NEW w \in Work, Turn(s, w), w.at # "storing",
             UNCHANGED <<tables, tokens>>
      PROVE  LimitInv'
  <2>1. \A o \in orgs' \ demo' : o \in orgs \ demo
    BY <1>2 DEF tables
  <2>. QED
    BY <1>1, <1>2, <2>1 DEF tables
<1>3. ASSUME NEW s \in Sessions, Request(s) PROVE LimitInv'
  <2>1. PICK w : Turn(s, w) /\ w.at # "storing" /\ UNCHANGED <<tables, tokens>>
    <3>1. ASSUME NEW w, Begin(s, w), w.at # "storing", UNCHANGED <<tables, tokens>>
          PROVE  \E v : Turn(s, v) /\ v.at # "storing" /\ UNCHANGED <<tables, tokens>>
      BY <3>1 DEF Begin, Turn
    <3>2. CASE \E tok \in tokens : \/ LockUser(s, tok)
                                   \/ \E n \in Names : AddRepo(s, tok, n)
      BY <3>1, <3>2 DEF LockUser, AddRepo
    <3>3. ASSUME NEW tok \in tokens, NEW i \in Installations, Callback(s, tok, i)
          PROVE  \E v : Turn(s, v) /\ v.at # "storing" /\ UNCHANGED <<tables, tokens>>
      <4>1. Loaded("callback", tok.org, i).at # "storing"
        BY DEF Loaded
      <4>. QED
        BY <3>1, <3>3, <4>1 DEF Callback
    <3>4. ASSUME NEW i \in Installations \cup {None}, DemoFound(s, i)
          PROVE  \E v : Turn(s, v) /\ v.at # "storing" /\ UNCHANGED <<tables, tokens>>
      <4>1. PICK o \in demo : Begin(s, Loaded(By(i), o, i))
        BY <3>4 DEF DemoFound
      <4>2. Loaded(By(i), o, i).at # "storing"
        BY DEF Loaded
      <4>. QED
        BY <3>1, <3>4, <4>1, <4>2 DEF DemoFound
    <3>5. ASSUME NEW i \in Installations \cup {None}, DemoMissing(s, i)
          PROVE  \E v : Turn(s, v) /\ v.at # "storing" /\ UNCHANGED <<tables, tokens>>
      BY <3>1, <3>5 DEF DemoMissing
    <3>. QED
      BY <1>3, <3>2, <3>3, <3>4, <3>5 DEF Request
  <2>2. \A t \in Sessions : work'[t].at = "storing" => work'[t] = work[t]
    BY <2>1 DEF Turn, TypeOK
  <2>3. \A o \in orgs' \ demo' : o \in orgs \ demo
    BY <2>1 DEF tables
  <2>. QED
    BY <2>1, <2>2, <2>3, LimitMoves DEF tables
<1>4. ASSUME NEW s \in Sessions, NEW o \in Orgs, CreateOrganization(s, o) PROVE LimitInv'
  BY <1>1, <1>4, <1>i DEF CreateOrganization, End
<1>5. ASSUME NEW s \in Sessions, NEW o \in Orgs, DemoInsert(s, o) PROVE LimitInv'
  <2>1. Loaded(By(work[s].inst), o, work[s].inst) \in Work
    BY <1>5, AccountsAssumption, WorkKinds, LoadedIsWork DEF DemoInsert, By
  <2>2. Loaded(By(work[s].inst), o, work[s].inst).at # "storing"
    BY DEF Loaded
  <2>. QED
    BY <1>2, <1>5, <2>1, <2>2 DEF DemoInsert
<1>6. ASSUME NEW s \in Sessions, DemoSession(s) PROVE LimitInv'
  <2>1. \A o \in orgs' \ demo' : o \in orgs \ demo
    BY <1>6 DEF DemoSession, DemoRows
  <2>. QED
    BY <1>1, <1>6, <1>i, <2>1 DEF DemoSession, End
<1>7. ASSUME NEW s \in Sessions, CommitSeed(s) PROVE LimitInv'
  <2>1. /\ \A o \in orgs' \ demo' : o \in orgs \ demo /\ repos'[o] = repos[o]
        /\ End(s)
    BY <1>7 DEF CommitSeed, DemoRows, TypeOK
  <2>2. \A t \in Sessions : work'[t].at = "storing" => work'[t] = work[t]
    BY <1>i, <2>1, WorkMoves DEF End
  <2>. QED
    BY <2>1, <2>2 DEF AccInv, LimitInv
<1>8. ASSUME NEW s \in Sessions, BindInstallation(s) PROVE LimitInv'
  <2>1. [work[s] EXCEPT !.at = "bound", !.repos = repos[work[s].org]].at = "bound"
    BY <1>8 DEF BindInstallation, TypeOK, Work, Idle
  <2>2. \A t \in Sessions : work'[t].at = "storing" => work'[t] = work[t]
    BY <1>8, <2>1 DEF BindInstallation, Turn, TypeOK
  <2>3. \A o \in orgs' \ demo' : o \in orgs \ demo
    BY <1>8 DEF BindInstallation, tables
  <2>. QED
    BY <1>8, <2>2, <2>3, LimitMoves DEF BindInstallation, tables
<1>9. ASSUME NEW s \in Sessions, LockOrg(s) PROVE LimitInv'
  <2>1. /\ work'[s].org = work[s].org
        /\ \A t \in Sessions \ {s} : work'[t] = work[t]
    BY <1>9 DEF LockOrg, Turn, TypeOK, Work, Idle
  <2>2. \A o \in orgs' \ demo' : o \in orgs \ demo
    BY <1>9 DEF LockOrg, tables
  <2>3. /\ UNCHANGED repos /\ work[s].at = "adding"
        /\ OrgRowFree(work[s].org) /\ Cardinality(repos[work[s].org]) < RepoLimit
    BY <1>9 DEF LockOrg, MayAdd, tables
  <2>. QED
    BY <2>1, <2>2, <2>3, LimitMoves
<1>10. ASSUME NEW s \in Sessions, CommitCallback(s) PROVE LimitInv'
  <2>1. \A o \in orgs' \ demo' : o \in orgs \ demo
    BY <1>10 DEF CommitCallback
  <2>. QED
    BY <1>1, <1>10, <1>i, <2>1 DEF CommitCallback, End
<1>11. ASSUME NEW s \in Sessions, StoreRepo(s) PROVE LimitInv'
  <2> DEFINE o == work[s].org
  <2>1. /\ o \in orgs \ demo /\ o \in Orgs /\ work[s].at = "storing"
        /\ UNCHANGED <<orgs, demo>>
        /\ repos' = [repos EXCEPT ![o] = @ \cup {work[s].name}] /\ End(s)
    BY <1>11, CommitOrgs DEF StoreRepo, TypeOK
  <2>2. /\ work'[s].at = "idle" /\ \A t \in Sessions \ {s} : work'[t] = work[t]
    BY <1>i, <2>1, WorkMoves DEF End
  <2>3. /\ IsFiniteSet(repos[o]) /\ Cardinality(repos[o]) < RepoLimit
        /\ \A t \in Sessions : (work[t].at = "storing" /\ work[t].org = o) => s = t
    BY <2>1 DEF AccInv, LimitInv
  <2>4. IsFiniteSet(repos'[o]) /\ Cardinality(repos'[o]) <= RepoLimit
    <3>1. repos'[o] = repos[o] \cup {work[s].name}
      BY <2>1 DEF TypeOK
    <3>2. /\ IsFiniteSet(repos[o] \cup {work[s].name})
          /\ \/ Cardinality(repos[o] \cup {work[s].name}) = Cardinality(repos[o])
             \/ Cardinality(repos[o] \cup {work[s].name}) = Cardinality(repos[o]) + 1
      BY <2>3, FS_AddElement
    <3>3. Cardinality(repos[o]) \in Nat
      BY <2>3, FS_CardinalityType
    <3>. QED
      BY <2>3, <3>1, <3>2, <3>3, AccountsAssumption
  <2>5. \A t \in Sessions : work'[t].at = "storing" => work'[t] = work[t] /\ work[t].org # o
    BY <2>2, <2>3
  <2>6. \A p \in orgs \ demo : p # o => repos'[p] = repos[p]
    BY <2>1 DEF TypeOK
  <2>7. \A p \in orgs \ demo : p # o =>
          /\ IsFiniteSet(repos'[p]) /\ Cardinality(repos'[p]) <= RepoLimit
          /\ \A v \in Sessions : (work'[v].at = "storing" /\ work'[v].org = p) =>
               /\ Cardinality(repos'[p]) < RepoLimit
               /\ \A t \in Sessions :
                    (work'[t].at = "storing" /\ work'[t].org = p) => v = t
    BY <2>5, <2>6 DEF AccInv, LimitInv
  <2>8. \A v \in Sessions : ~(work'[v].at = "storing" /\ work'[v].org = o)
    BY <2>5
  <2>. QED
    BY <2>1, <2>4, <2>7, <2>8 DEF LimitInv
<1>12. ASSUME NEW s \in Sessions, Refuse(s) PROVE LimitInv'
  BY <1>2, <1>12, <1>i DEF Refuse, End
<1>13. ASSUME UNCHANGED <<orgs, demo, repos, work>> PROVE LimitInv'
  BY <1>13 DEF AccInv, LimitInv
<1>14. ASSUME NEW u \in People, Signup(u) \/ Login(u) PROVE LimitInv'
  BY <1>13, <1>14 DEF Signup, Login, tables
<1>15. CASE UNCHANGED vars
  BY <1>13, <1>15 DEF vars, tables
<1>. QED
  BY <1>3, <1>4, <1>5, <1>6, <1>7, <1>8, <1>9, <1>10, <1>11, <1>12, <1>14, <1>15
     DEF Next, Advance, Abort, DemoClash, InstallationTaken, AddRefused
-----------------------------------------------------------------------------
\* The inductive invariant of the accounts.
THEOREM AccInvariant == Spec => [](TypeOK /\ AccInv)
<1>1. Init => TypeOK /\ AccInv
  BY TypeInit, AccInit
<1>2. TypeOK /\ AccInv /\ [Next]_vars => (TypeOK /\ AccInv)'
  BY TypeNext, NewOrgsNext, OneOrgNext, UsersNext, DemoNext, LimitNext DEF AccInv
<1>. QED
  BY <1>1, <1>2, PTL DEF Spec

\* The unique constraint settles what owner_of's check leaves open.
THEOREM InstallationsAreOwned == Spec => []OneOrgPerInstallation
<1>1. AccInv => OneOrgPerInstallation
  BY DEF AccInv
<1>. QED
  BY <1>1, AccInvariant, PTL

\* The lock of the user's row makes every token issued agree with it for good.
THEOREM TokensNeverStale == Spec => []TokensAgree
<1>1. AccInv => TokensAgree
  BY DEF AccInv, UsersInv, TokensAgree
<1>. QED
  BY <1>1, AccInvariant, PTL

\* The lock of the organization's row makes its plan's limit hold.
THEOREM PlansHold == Spec => []PlanLimitHolds
<1>1. AccInv => PlanLimitHolds
  BY DEF AccInv, LimitInv, PlanLimitHolds
<1>. QED
  BY <1>1, AccInvariant, PTL

\* The unique slug leaves one demo organization; only demo sessions are for it, and
\* all of them are if nobody signed up with the demo's address.
THEOREM OneDemo == Spec => []DemoIsOne
<1>1. TypeOK /\ AccInv => DemoIsOne
  <2> SUFFICES ASSUME TypeOK, AccInv PROVE DemoIsOne
    OBVIOUS
  <2> UsersInv /\ DemoInv
    BY DEF AccInv
  <2>1. Cardinality(demo) <= 1
    <3>1. CASE demo = {}
      BY <3>1, FS_EmptySet
    <3>2. ASSUME NEW o \in demo PROVE Cardinality(demo) <= 1
      <4>1. demo = {o}
        BY <3>2 DEF DemoInv
      <4>. QED
        BY <4>1, FS_Singleton
    <3>. QED
      BY <3>1, <3>2
  <2>2. \A tok \in tokens : tok.org \in demo => tok.ro
    <3>1. \A tok \in tokens : tok.org \in demo => tok.org \in orgs
      BY DEF TypeOK
    <3>. QED
      BY <3>1, OwnOrg
  <2>3. \A tok \in tokens : tok.ro => tok.org \in demo \/ SignedUp(DemoUser)
    <3>1. \A tok \in tokens : tok.ro =>
            /\ tok.user = DemoUser /\ DemoUser \in users
            /\ tok.org = orgOf[DemoUser] \/ SignedUp(DemoUser)
      BY DEF UsersInv
    <3>. QED
      BY <3>1 DEF DemoInv
  <2>. QED
    BY <2>1, <2>2, <2>3 DEF DemoIsOne
<1>. QED
  BY <1>1, AccInvariant, PTL

\* Only the seed script's commit changes the demo organization's data.
THEOREM DemoIsSeeded == Spec => DemoOnlySeeded
<1> DEFINE Seeded == \A o \in demo :
         (install'[o] # install[o] \/ repos'[o] # repos[o]) =>
             \E s \in Sessions : work[s].at = "bound" /\ work[s].by = "seed"
                                 /\ work[s].org = o /\ work'[s] = Idle
<1>1. TypeOK /\ AccInv /\ [Next]_vars => [Seeded]_vars
  <2> SUFFICES ASSUME TypeOK, AccInv, [Next]_vars PROVE Seeded
    OBVIOUS
  <2> SUFFICES ASSUME NEW o \in demo, install'[o] # install[o] \/ repos'[o] # repos[o]
               PROVE  \E s \in Sessions : work[s].at = "bound" /\ work[s].by = "seed"
                                          /\ work[s].org = o /\ work'[s] = Idle
    OBVIOUS
  <2>1. PICK s \in Sessions : CommitCallback(s) \/ CommitSeed(s) \/ StoreRepo(s)
    BY StepKinds DEF tables, Signup, Committing, CreateOrganization, DemoSession
  <2>2. work[s].org = o
    BY <2>1, CommitOrgs DEF CommitCallback, CommitSeed, StoreRepo, WriteInstallation, TypeOK
  <2>3. CommitSeed(s)
    BY <2>1, <2>2, CommitOrgs
  <2>4. work'[s] = Idle
    BY <2>3, WorkMoves DEF CommitSeed, End, Work
  <2>. QED
    BY <2>2, <2>3, <2>4 DEF CommitSeed
<1>. QED
  BY <1>1, AccInvariant, PTL DEF Spec, DemoOnlySeeded
=============================================================================
