------------------------------ MODULE Accounts ------------------------------
(***************************************************************************)
(* Accounts: signing up and in (src/api/auth.py, src/auth.py), creating an *)
(* organization (src/api/organizations.py), connecting a GitHub App        *)
(* installation (src/api/integrations.py, src/github/installation.py), the *)
(* demo organization, which a visitor or the seed script creates           *)
(* (src/demo.py), and the plan's limit on repositories (src/api/repos.py). *)
(*                                                                         *)
(* A session is one database session at work on one request, or the seed   *)
(* script's.  The steps of a handler are separate where another session    *)
(* can act between a read and the write that relies on it; a row lock is   *)
(* held from the step that takes it to the step that commits.  Handlers    *)
(* with one transaction, or whose answer depends on one read, are a step.  *)
(***************************************************************************)
EXTENDS Naturals, FiniteSets

CONSTANTS
    Sessions,       \* database sessions at work at the same time
    People,         \* the addresses people sign up with
    DemoUser,       \* DEMO_EMAIL; People may have it, as an address like any other
    Orgs,           \* ids of organizations
    Installations,  \* ids of GitHub App installations
    Names,          \* full names of repositories
    DemoRepo,       \* settings.demo_repo
    RepoLimit,      \* Organization.repo_limit of the plan
    None            \* null

Users == People \cup {DemoUser}

ASSUME AccountsAssumption ==
    /\ None \notin Orgs /\ None \notin Installations
    /\ DemoRepo \in Names
    /\ RepoLimit \in Nat

VARIABLES
    users,      \* the rows of users
    orgOf,      \* users.organization_id
    orgs,       \* the rows of organizations
    demo,       \* those with the slug "demo"
    install,    \* organizations.github_installation_id
    repos,      \* the rows of repos of each organization
    tokens,     \* the session tokens issued so far
    work        \* what each session is doing

tables == <<users, orgOf, orgs, demo, install, repos>>
vars == <<tables, tokens, work>>
-----------------------------------------------------------------------------
Token(u, o, ro) == [user |-> u, org |-> o, ro |-> ro]

Idle == [at |-> "idle"]

\* creating  the user's row is locked and has no organization
\* adding    add_repo has seen an installation; storing: it holds the lock
\* missing   no demo organization was found
\* ready     the organization is loaded or inserted; had: its installation then
\* bound     owner_of has found no other owner; repos: the repositories then
Work == {Idle}
    \cup [at : {"creating"}, user : Users]
    \cup [at : {"adding", "storing"}, org : Orgs, name : Names]
    \cup [at : {"missing"}, inst : Installations \cup {None}]
    \cup [at : {"ready"}, by : {"visit"}, org : Orgs, inst : {None},
          had : Installations \cup {None}, repos : SUBSET Names]
    \cup [at : {"ready", "bound"}, by : {"seed", "callback"}, org : Orgs,
          inst : Installations, had : Installations \cup {None}, repos : SUBSET Names]

TypeOK ==
    /\ users \subseteq Users
    /\ orgOf \in [Users -> Orgs \cup {None}]
    /\ orgs \subseteq Orgs
    /\ demo \subseteq orgs
    /\ install \in [Orgs -> Installations \cup {None}]
    /\ repos \in [Orgs -> SUBSET Names]
    /\ tokens \subseteq [user : Users, org : Orgs \cup {None}, ro : BOOLEAN]
    /\ work \in [Sessions -> Work]

Init ==
    /\ users = {} /\ orgs = {} /\ demo = {} /\ tokens = {}
    /\ orgOf = [u \in Users |-> None]
    /\ install = [o \in Orgs |-> None]
    /\ repos = [o \in Orgs |-> {}]
    /\ work = [s \in Sessions |-> Idle]

Begin(s, w) == work[s] = Idle /\ work' = [work EXCEPT ![s] = w]
Turn(s, w) == work' = [work EXCEPT ![s] = w]
End(s) == Turn(s, Idle)

\* A request answered with an error and rolled back.
Refuse(s) == End(s) /\ UNCHANGED <<tables, tokens>>

\* Organizations inserted and not committed: their ids are taken.
Inserting == {work[s].org : s \in {t \in Sessions : /\ work[t].at \in {"ready", "bound"}
                                                    /\ work[t].org \notin orgs}}
-----------------------------------------------------------------------------
(* Signing up and in. *)

\* The email is unique: the second of two requests is answered 409.
Signup(u) ==
    /\ u \in People \ users
    /\ users' = users \cup {u}
    /\ tokens' = tokens \cup {Token(u, None, FALSE)}
    /\ UNCHANGED <<orgOf, orgs, demo, install, repos, work>>

\* Somebody signed up with the address and has its password: the password the
\* demo's user is created with is thrown away.
SignedUp(u) == \E tok \in tokens : tok.user = u /\ ~tok.ro

Login(u) ==
    /\ u \in People /\ SignedUp(u)
    /\ tokens' = tokens \cup {Token(u, orgOf[u], FALSE)}
    /\ UNCHANGED <<tables, work>>
-----------------------------------------------------------------------------
(* create_organization: SELECT .. FOR UPDATE, the check, INSERT, UPDATE, COMMIT. *)

\* Mutant of UserRowFree: the row is read without a lock.
UserRowReadable(u) == TRUE

UserRowFree(u) == \A t \in Sessions : work[t] # [at |-> "creating", user |-> u]

\* writable_user lets the token through; a user with an organization gets 409.
LockUser(s, tok) ==
    /\ ~tok.ro
    /\ UserRowFree(tok.user)
    /\ orgOf[tok.user] = None
    /\ Begin(s, [at |-> "creating", user |-> tok.user])
    /\ UNCHANGED <<tables, tokens>>

CreateOrganization(s, o) ==
    /\ work[s].at = "creating"
    /\ o \notin orgs \cup Inserting
    /\ orgs' = orgs \cup {o}
    /\ orgOf' = [orgOf EXCEPT ![work[s].user] = o]
    /\ tokens' = tokens \cup {Token(work[s].user, o, FALSE)}
    /\ End(s)
    /\ UNCHANGED <<users, demo, install, repos>>
-----------------------------------------------------------------------------
(* The demo organization: get_or_create_demo_org, get_or_create_demo_user. *)

\* What a handler holds once it has loaded organization o.
Loaded(by, o, i) ==
    [at |-> "ready", by |-> by, org |-> o, inst |-> i, had |-> install[o], repos |-> {}]

By(i) == IF i = None THEN "visit" ELSE "seed"

\* A visitor (i is None), or the seed script with the installation it resolved:
\* its argument, the setting, the demo's own or another organization's.
DemoFound(s, i) ==
    /\ \E o \in demo : Begin(s, Loaded(By(i), o, i))
    /\ UNCHANGED <<tables, tokens>>

DemoMissing(s, i) ==
    /\ demo = {}
    /\ Begin(s, [at |-> "missing", inst |-> i])
    /\ UNCHANGED <<tables, tokens>>

\* Mutant of SlugFree: the slug column has no unique constraint.
SlugUnchecked(s) == TRUE

\* The unique slug makes an insert wait for one that has not been committed,
\* and fail if that one is.
SlugFree(s) == demo = {} /\ Inserting = {}

DemoInsert(s, o) ==
    /\ work[s].at = "missing"
    /\ SlugFree(s)
    /\ o \notin orgs \cup Inserting
    /\ Turn(s, Loaded(By(work[s].inst), o, work[s].inst))
    /\ UNCHANGED <<tables, tokens>>

DemoClash(s) == work[s].at = "missing" /\ demo # {} /\ Refuse(s)

\* The rows of the demo organization and user, if they were missing: a user with
\* the demo's address is taken for the demo's, whatever its organization.
DemoRows(o) ==
    /\ orgs' = orgs \cup {o}
    /\ demo' = demo \cup {o}
    /\ users' = users \cup {DemoUser}
    /\ orgOf' = IF DemoUser \in users THEN orgOf ELSE [orgOf EXCEPT ![DemoUser] = o]

DemoSession(s) ==
    /\ work[s].at = "ready" /\ work[s].by = "visit"
    /\ DemoRows(work[s].org)
    /\ tokens' = tokens \cup {Token(DemoUser, orgOf'[DemoUser], TRUE)}
    /\ End(s)
    /\ UNCHANGED <<install, repos>>
-----------------------------------------------------------------------------
(* Installations: the callback's and the seed script's. *)

\* Mutant of MayInstall: the install URL is handed to read-only sessions too.
AnyoneMayInstall(tok) == tok.org \in orgs

\* get_install_url signs the organization of a writable session into the state
\* the callback gets back; organizations are never deleted.
MayInstall(tok) == ~tok.ro /\ tok.org \in orgs

\* Mutant of Callback: the installation id is not required.
CallbackWithoutId(s, tok, i) ==
    /\ MayInstall(tok)
    /\ Begin(s, Loaded("callback", tok.org, None))
    /\ UNCHANGED <<tables, tokens>>

\* The organization is loaded before GitHub is asked about the account.
Callback(s, tok, i) ==
    /\ MayInstall(tok)
    /\ Begin(s, Loaded("callback", tok.org, i))
    /\ UNCHANGED <<tables, tokens>>

\* owner_of: another organization has the installation.
Taken(o, i) == \E p \in orgs \ {o} : install[p] = i

BindInstallation(s) ==
    /\ work[s].at = "ready" /\ work[s].by # "visit"
    /\ ~Taken(work[s].org, work[s].inst)
    /\ Turn(s, [work[s] EXCEPT !.at = "bound", !.repos = repos[work[s].org]])
    /\ UNCHANGED <<tables, tokens>>

InstallationTaken(s) ==
    /\ work[s].at = "ready" /\ work[s].by # "visit"
    /\ Taken(work[s].org, work[s].inst)
    /\ Refuse(s)

\* Mutant of OrgRowFree: the organization's row is not locked.
OrgRowReadable(o) == TRUE

OrgRowFree(o) == \A t \in Sessions : work[t].at = "storing" => work[t].org # o

\* Mutant of UniqueInstallation: the check of owner_of is all there is.
InstallationUnchecked(o, i) == TRUE

\* The column's unique constraint.
UniqueInstallation(o, i) == ~Taken(o, i)

\* An attribute set to the value it was loaded with is not written.
WriteInstallation(w) ==
    IF w.had = w.inst THEN UNCHANGED install
    ELSE /\ UniqueInstallation(w.org, w.inst)
         /\ OrgRowFree(w.org)
         /\ install' = [install EXCEPT ![w.org] = w.inst]

CommitCallback(s) ==
    /\ work[s].at = "bound" /\ work[s].by = "callback"
    /\ WriteInstallation(work[s])
    /\ End(s)
    /\ UNCHANGED <<users, orgOf, orgs, demo, repos, tokens>>

\* seed_demo commits the organization, the user, the installation and the
\* repository together; (organization_id, github_full_name) is unique.
CommitSeed(s) ==
    /\ work[s].at = "bound" /\ work[s].by = "seed"
    /\ DemoRepo \in repos[work[s].org] => DemoRepo \in work[s].repos
    /\ DemoRows(work[s].org)
    /\ WriteInstallation(work[s])
    /\ repos' = [repos EXCEPT ![work[s].org] = @ \cup {DemoRepo}]
    /\ End(s)
    /\ UNCHANGED tokens
-----------------------------------------------------------------------------
(* add_repo: the installation, then the limit under a lock. *)

\* The organization's row is read without a lock: no installation, 409.
AddRepo(s, tok, n) ==
    /\ ~tok.ro /\ tok.org \in orgs
    /\ install[tok.org] # None
    /\ Begin(s, [at |-> "adding", org |-> tok.org, name |-> n])
    /\ UNCHANGED <<tables, tokens>>

MayAdd(o, n) == Cardinality(repos[o]) < RepoLimit /\ n \notin repos[o]

LockOrg(s) ==
    /\ work[s].at = "adding"
    /\ OrgRowFree(work[s].org)
    /\ MayAdd(work[s].org, work[s].name)
    /\ Turn(s, [work[s] EXCEPT !.at = "storing"])
    /\ UNCHANGED <<tables, tokens>>

AddRefused(s) ==
    /\ work[s].at = "adding"
    /\ OrgRowFree(work[s].org)
    /\ ~MayAdd(work[s].org, work[s].name)
    /\ Refuse(s)

StoreRepo(s) ==
    /\ work[s].at = "storing"
    /\ repos' = [repos EXCEPT ![work[s].org] = @ \cup {work[s].name}]
    /\ End(s)
    /\ UNCHANGED <<users, orgOf, orgs, demo, install, tokens>>
-----------------------------------------------------------------------------
\* GitHub does not answer, the database raises (a unique constraint among
\* others), or the process dies: the transaction is rolled back.
Abort(s) == work[s] # Idle /\ Refuse(s)

Request(s) ==
    \/ \E tok \in tokens :
        \/ LockUser(s, tok)
        \/ \E i \in Installations : Callback(s, tok, i)
        \/ \E n \in Names : AddRepo(s, tok, n)
    \/ \E i \in Installations \cup {None} : DemoFound(s, i) \/ DemoMissing(s, i)

Advance(s) ==
    \/ \E o \in Orgs : CreateOrganization(s, o) \/ DemoInsert(s, o)
    \/ DemoClash(s) \/ DemoSession(s)
    \/ BindInstallation(s) \/ InstallationTaken(s) \/ CommitCallback(s) \/ CommitSeed(s)
    \/ LockOrg(s) \/ AddRefused(s) \/ StoreRepo(s)

Next ==
    \/ \E u \in People : Signup(u) \/ Login(u)
    \/ \E s \in Sessions : Request(s) \/ Advance(s) \/ Abort(s)

Spec == Init /\ [][Next]_vars
-----------------------------------------------------------------------------
\* "One installation belongs to one organization": whichever handlers race, the
\* webhook finds one organization for it (installation.py, db/models.py).
OneOrgPerInstallation ==
    \A o, p \in orgs : (install[o] # None /\ install[o] = install[p]) => o = p

\* A session token, which carries its organization for seven days, never
\* disagrees with the user's row: create_organization locks that row for it.
TokensAgree ==
    \A tok \in tokens : tok.org # None =>
        tok.user \in users /\ orgOf[tok.user] = tok.org

\* An organization does not pass its plan's limit however many requests to add
\* a repository are under way (add_repo).
PlanLimitHolds == \A o \in orgs \ demo : Cardinality(repos[o]) <= RepoLimit

\* Visitors and the seed script meet in one organization (demo.py's first lines),
\* which nobody but a visitor has a session for; and demo sessions are for it,
\* unless somebody signed up with the demo's address before there was a demo user.
DemoIsOne ==
    /\ Cardinality(demo) <= 1
    /\ \A tok \in tokens : tok.org \in demo => tok.ro
    /\ \A tok \in tokens : tok.ro => tok.org \in demo \/ SignedUp(DemoUser)

\* Only the seed script changes the demo organization's data: no request of a
\* demo session does, at once or through a callback that follows it.
DemoOnlySeeded ==
    [][\A o \in demo :
         (install'[o] # install[o] \/ repos'[o] # repos[o]) =>
             \E s \in Sessions : work[s].at = "bound" /\ work[s].by = "seed"
                                 /\ work[s].org = o /\ work'[s] = Idle]_vars
=============================================================================
