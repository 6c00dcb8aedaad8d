--------------------------- MODULE AccessControl ---------------------------
(***************************************************************************)
(* Who is let in: the users, their tokens, the cases and the grants on     *)
(* them, and the gates in front of the routes.                             *)
(*                                                                         *)
(* A token is good until it expires; neither a logout nor the end of an    *)
(* account takes it back, so get_current_user reads the user's row again   *)
(* for every request.  A grant is a row of identity.case_access; the       *)
(* application writes one together with a case and never removes one.      *)
(* Accounts are closed and reopened, and grants given and withdrawn, by    *)
(* maintenance of the database while the application runs.  The columns    *)
(* access_level and expires_at of a grant are never read.                  *)
(***************************************************************************)
EXTENDS FiniteSets

CONSTANTS
    Users,
    RoleOf,         \* the role in each user's row
    Cases,
    Creators,       \* the users who try to create each case
    Maintained      \* the users whose account and grants maintenance changes

Roles == {"administrator", "investigator", "analyst"}

ASSUME AccessAssumption ==
    /\ RoleOf \in [Users -> Roles]
    /\ Creators \in [Cases -> SUBSET Users]
    /\ Maintained \subseteq Users

VARIABLES
    active,         \* table users: the rows with is_active
    tokens,         \* the users who hold a token that has not expired
    cases,          \* table investigation_cases
    grants,         \* table case_access: <<user, case>>
    trail           \* the refusals in table audit_events: <<action, user, case or "system">>

accessVars == <<active, tokens, cases, grants, trail>>

Denials == {"access_denied", "case_access_denied"}

AccessTypeOK ==
    /\ active \subseteq Users
    /\ tokens \subseteq Users
    /\ cases \subseteq Cases
    /\ grants \subseteq Users \X cases
    /\ trail \subseteq Denials \X Users \X (Cases \cup {"system"})

AccessInit ==
    /\ active = Users
    /\ tokens = {}
    /\ cases = {}
    /\ grants = {}
    /\ trail = {}

Record(action, u, target) == trail' = trail \cup {<<action, u, target>>}

-----------------------------------------------------------------------------
(***************************************************************************)
(* The gates.                                                              *)
(***************************************************************************)

\* Mutant of KnownUser: the token is trusted and the row of the user is not read.
KnownByToken(u) == u \in tokens

\* get_current_user
KnownUser(u) == u \in tokens /\ u \in active

\* verify_case_access_direct; an administrator passes for any case, also for none.
MayRead(u, c) == RoleOf[u] = "administrator" \/ <<u, c>> \in grants

\* The cases that list_cases shows.
Listed(u) == {c \in cases : MayRead(u, c)}

-----------------------------------------------------------------------------
(***************************************************************************)
(* The session routes, the creation of a case, and maintenance.            *)
(***************************************************************************)

\* The password is right and the account open.
Login(u) ==
    /\ u \in active
    /\ tokens' = tokens \cup {u}
    /\ UNCHANGED <<active, cases, grants, trail>>

Expire(u) ==
    /\ tokens' = tokens \ {u}
    /\ UNCHANGED <<active, cases, grants, trail>>

\* Mutant of CreateCase: the grant is committed without the case.
CreateGrantOnly(u, c) ==
    /\ KnownUser(u) /\ u \in Creators[c]
    /\ RoleOf[u] \in {"administrator", "investigator"}
    /\ grants' = grants \cup {<<u, c>>}
    /\ UNCHANGED <<active, tokens, cases, trail>>

\* RequireRole, then the row and the creator's grant in one commit.
CreateCase(u, c) ==
    /\ KnownUser(u) /\ u \in Creators[c]
    /\ c \notin cases
    /\ IF RoleOf[u] \in {"administrator", "investigator"}
       THEN cases' = cases \cup {c} /\ grants' = grants \cup {<<u, c>>} /\ UNCHANGED trail
       ELSE Record("access_denied", u, "system") /\ UNCHANGED <<cases, grants>>
    /\ UNCHANGED <<active, tokens>>

SetActive(u) ==
    /\ u \in Maintained
    /\ active' = IF u \in active THEN active \ {u} ELSE active \cup {u}
    /\ UNCHANGED <<tokens, cases, grants, trail>>

SetGrant(u, c) ==
    /\ u \in Maintained /\ c \in cases
    /\ grants' = IF <<u, c>> \in grants THEN grants \ {<<u, c>>} ELSE grants \cup {<<u, c>>}
    /\ UNCHANGED <<active, tokens, cases, trail>>

AccessNext ==
    \E u \in Users :
        \/ Login(u) \/ Expire(u) \/ SetActive(u)
        \/ \E c \in Cases : CreateCase(u, c) \/ SetGrant(u, c)

=============================================================================
