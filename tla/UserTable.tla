------------------------------ MODULE UserTable ------------------------------
(***************************************************************************)
(* The users table: a row for each account, soft-deleted by its deleted_at,  *)
(* with the Google identity it is linked to and its membership in            *)
(* admin_users.  A user's id and name are one here: names are unique, those  *)
(* of deleted rows included, so a name is taken once.                        *)
(***************************************************************************)
CONSTANTS
    Users,
    NoUser,
    Registered,     \* the users that are there at the start
    Admins,         \* those of them in admin_users
    Googles,        \* identities at Google (sub)
    NoGoogle

ASSUME UserAssumption ==
    /\ NoUser \notin Users /\ NoGoogle \notin Googles
    /\ Admins \subseteq Registered /\ Registered \subseteq Users

VARIABLE user

UserRow == [row: {"none", "active", "deleted"}, sub: Googles \cup {NoGoogle}, admin: BOOLEAN]

UserTypeOK == user \in [Users -> UserRow]

UserInit ==
    user = [u \in Users |-> [row   |-> IF u \in Registered THEN "active" ELSE "none",
                             sub   |-> NoGoogle,
                             admin |-> u \in Admins]]

\* What a query finds: gorm leaves out rows that are soft-deleted.
Found(u) == user[u].row = "active"
HasIdentity(u, g) == Found(u) /\ user[u].sub = g

\* The unique index on google_sub, which deleted rows are in, too.
IdentityFree(u, g) == \A v \in Users \ {u} : user[v].row # "none" => user[v].sub # g

\* The INSERT of a new row.
CreateUser(u, g) ==
    /\ user[u].row = "none"
    /\ user' = [user EXCEPT ![u] = [row |-> "active", sub |-> g, admin |-> FALSE]]

\* db.Save: UPDATE of every column of a row that is not deleted, or, when that
\* touches no row, INSERT ... ON CONFLICT DO UPDATE of every column, deleted_at too.
SaveIdentity(u, g) ==
    user' = [user EXCEPT ![u].row = "active", ![u].sub = g]

\* The rows of the user in ScheduleUserDeletion; homes are in HomeJobs.
SoftDelete(u) ==
    user' = [user EXCEPT ![u].row = "deleted", ![u].admin = FALSE]

=============================================================================
