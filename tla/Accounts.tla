------------------------------ MODULE Accounts ------------------------------
(***************************************************************************)
(* The accounts: seeding by the processes that start at the same time      *)
(* (_seed_default_users of main.py), registration and login                *)
(* (api_gateway/router.py) and the checks of every request                 *)
(* (shared/auth.py).  Passwords and signatures are abstracted: who logs in *)
(* as a name knows its password, and a token is not forged.                *)
(***************************************************************************)
EXTENDS Integers, FiniteSets

CONSTANTS
    Workers,   \* the server processes
    Visitors,  \* clients that register
    Names      \* the usernames and email addresses they try

VARIABLES
    users,   \* the committed rows
    boot,    \* per process: how far its start-up is
    visit,   \* per visitor: its registration
    tokens   \* the tokens that were issued and have not expired

accountVars == <<users, boot, visit, tokens>>

User(name, email, role, tags) ==
    [username |-> name, email |-> email, role |-> role, access_tags |-> tags]

DefaultUsers == {
    User("admin", "admin", "ADMIN",
         {"general", "engineering", "finance", "operations", "reports", "classified"}),
    User("engineer", "engineer", "ENGINEER", {"general", "engineering", "operations"}),
    User("analyst", "analyst", "ANALYST", {"general", "finance", "reports"}),
    User("viewer", "viewer", "VIEWER", {"general"})}

Taken(us) == \E u \in us, v \in users : u.username = v.username \/ u.email = v.email
Named(n) == {u \in users : u.username = n}

AccountInit ==
    /\ users = {}
    /\ boot = [p \in Workers |-> "down"]
    /\ visit = [v \in Visitors |-> [at |-> "new"]]
    /\ tokens = {}

\* A process starts: it seeds the table unless it finds an admin.
CheckSeeds(p) ==
    /\ boot[p] = "down"
    /\ boot' = [boot EXCEPT ![p] = IF Named("admin") = {} THEN "seeding" ELSE "up"]
    /\ UNCHANGED <<users, visit, tokens>>

\* Faulty variant: the admin is committed first, the others after it.
SeedAdminFirst(p) ==
    /\ boot[p] = "seeding"
    /\ IF Named("admin") = {}
         THEN users' = users \cup {u \in DefaultUsers : u.username = "admin"} /\ UNCHANGED boot
         ELSE /\ users' = users \cup {u \in DefaultUsers : ~Taken({u})}
              /\ boot' = [boot EXCEPT ![p] = "up"]
    /\ UNCHANGED <<visit, tokens>>

\* The commit adds all of them, or none if one is there by now.
SeedDefaultUsers(p) ==
    /\ boot[p] = "seeding"
    /\ users' = IF Taken(DefaultUsers) THEN users ELSE users \cup DefaultUsers
    /\ boot' = [boot EXCEPT ![p] = "up"]
    /\ UNCHANGED <<visit, tokens>>

\* The process stops at any point of its start-up or after it.
Stop(p) ==
    /\ boot[p] # "down"
    /\ boot' = [boot EXCEPT ![p] = "down"]
    /\ UNCHANGED <<users, visit, tokens>>

Serving == \E p \in Workers : boot[p] = "up"

\* register: a name that is there is answered with 409;
RegisterUser(v, n, e) ==
    /\ Serving /\ visit[v].at = "new"
    /\ visit' = [visit EXCEPT ![v] = IF Named(n) # {} THEN [at |-> "ended"]
                                     ELSE [at |-> "checked", user |-> User(n, e, "VIEWER", {"general"})]]
    /\ UNCHANGED <<users, boot, tokens>>

\* the insert fails (500) if the name or the address is there by now.
InsertUser(v) ==
    /\ visit[v].at = "checked"
    /\ users' = IF Taken({visit[v].user}) THEN users ELSE users \cup {visit[v].user}
    /\ visit' = [visit EXCEPT ![v] = [at |-> "ended"]]
    /\ UNCHANGED <<boot, tokens>>

\* login: the token carries the username, the role and the tags of the row.
Login(n) ==
    /\ Serving
    /\ tokens' = tokens \cup Named(n)
    /\ UNCHANGED <<users, boot, visit>>

Expire(t) ==
    /\ tokens' = tokens \ {t}
    /\ UNCHANGED <<users, boot, visit>>

\* get_current_user: the row, not the token, says what the user may do.
CurrentUser(t) == Named(t.username)
MayAdminister(t) == \E u \in CurrentUser(t) : u.role = "ADMIN"

AccountNext ==
    \/ \E p \in Workers : CheckSeeds(p) \/ SeedDefaultUsers(p) \/ Stop(p)
    \/ \E v \in Visitors : InsertUser(v) \/ \E n, e \in Names : RegisterUser(v, n, e)
    \/ \E n \in Names : Login(n)
    \/ \E t \in tokens : Expire(t)

AccountSpec == AccountInit /\ [][AccountNext]_accountVars

-----------------------------------------------------------------------------
AccountTypeOK ==
    /\ users \cup tokens \subseteq
         DefaultUsers \cup {User(n, e, "VIEWER", {"general"}) : n, e \in Names}
    /\ boot \in [Workers -> {"down", "seeding", "up"}]
    /\ \A v \in Visitors : visit[v].at \in {"new", "checked", "ended"}

\* Whichever processes start, seed and stop at once and whoever registers
\* meanwhile: a process that serves finds each of the default users with its
\* own role, no name is there twice, and only the seeded admin may administer.
AccountsAreSound ==
    /\ Serving => DefaultUsers \subseteq users
    /\ \A u, v \in users : u.username = v.username => u = v
    /\ \A t \in tokens : MayAdminister(t) <=> t.username = "admin"
=============================================================================
