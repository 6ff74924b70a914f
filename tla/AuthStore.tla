------------------------------ MODULE AuthStore ------------------------------
(***************************************************************************)
(* Users and groups: internal/auth/auth.go, the admin requests of          *)
(* internal/httpapi/server.go that change them, and the start of the       *)
(* daemon, which makes sure that the bootstrap admin exists.               *)
(*                                                                         *)
(* Every method of the store runs under Store.mu and is one step.  A       *)
(* request is two: its principal is checked first, and the change is made  *)
(* later, when the principal may no longer be an admin.  Of permissions    *)
(* only Admin is kept; a password is set or it is not.  Names are taken as *)
(* valid: a name ValidateName refuses changes nothing.                     *)
(***************************************************************************)
EXTENDS Naturals, FiniteSets

CONSTANTS
  Users,     \* user names
  Groups,    \* group names
  Boot,      \* the bootstrap admin
  Admins,    \* the group "admins" that BootstrapAdmin writes
  Procs,     \* admin requests in progress at once
  Nobody,    \* the absence of a user, of a group, of a principal
  Handlers,  \* subset of {"user", "delete", "grant", "revoke"}
  Faults     \* subset of {"save", "crash"}

UserType == [admin : BOOLEAN, groups : SUBSET Groups, disabled : BOOLEAN, password : BOOLEAN]

ASSUME AuthConstants ==
  /\ Boot \in Users
  /\ Admins \in Groups
  /\ Nobody \notin Users \cup {TRUE, FALSE} \cup UserType
  /\ Handlers \subseteq {"user", "delete", "grant", "revoke"}
  /\ Faults \subseteq {"save", "crash"}

VARIABLES
  users,     \* Store.db.Users
  groups,    \* Store.db.Groups: groups[g] says whether g makes its members admins
  disk,      \* the contents of users.json
  up,        \* both servers are accepting connections
  principal  \* principal[p]: the admin whose request p has been let in

vars == <<users, groups, disk, up, principal>>

Databases == [users : [Users -> UserType \cup {Nobody}], groups : [Groups -> BOOLEAN \cup {Nobody}]]

Database(us, gs) == [users |-> us, groups |-> gs]

\* The store keeps no user without a password.
AllHavePasswords(us) == \A u \in Users : us[u] # Nobody => us[u].password

TypeOK ==
  /\ users \in [Users -> UserType \cup {Nobody}] /\ AllHavePasswords(users)
  /\ groups \in [Groups -> BOOLEAN \cup {Nobody}]
  /\ disk \in Databases /\ AllHavePasswords(disk.users)
  /\ up \in BOOLEAN
  /\ principal \in [Procs -> Users \cup {Nobody}]

-----------------------------------------------------------------------------
\* userWouldBeAdminLocked with permissionsLocked: a missing group is skipped.
WouldBeAdmin(user, gs) ==
  /\ user # Nobody
  /\ ~user.disabled
  /\ user.admin \/ \E g \in user.groups : gs[g] = TRUE

\* Mutant of IsLastAdmin: disabled users are counted as admins.
IsLastAdminCountingDisabled(u) ==
  /\ WouldBeAdmin(users[u], groups)
  /\ \A v \in Users \ {u} :
       users[v] # Nobody => ~(users[v].admin \/ \E g \in users[v].groups : groups[g] = TRUE)

\* isLastAdminLocked
IsLastAdmin(u) ==
  /\ WouldBeAdmin(users[u], groups)
  /\ \A v \in Users \ {u} : ~WouldBeAdmin(users[v], groups)

\* saveLocked renames a complete temporary file over users.json; when it fails
\* the file keeps its old contents, and memory has changed all the same.
Save(us, gs) ==
  /\ users' = us
  /\ groups' = gs
  /\ disk' = Database(us, gs)

SaveFails(us, gs) ==
  /\ "save" \in Faults
  /\ users' = us
  /\ groups' = gs
  /\ UNCHANGED disk

-----------------------------------------------------------------------------
\* No users.json yet: load writes an empty one.
Init ==
  /\ users = [u \in Users |-> Nobody]
  /\ groups = [g \in Groups |-> Nobody]
  /\ disk = Database(users, groups)
  /\ up = FALSE
  /\ principal = [p \in Procs |-> Nobody]

BootAdmin == [admin |-> TRUE, groups |-> {Admins}, disabled |-> FALSE, password |-> TRUE]

WithBoot == [disk.users EXCEPT ![Boot] = BootAdmin]
WithAdmins == [disk.groups EXCEPT ![Admins] = TRUE]

\* main: load, then BootstrapAdmin, which leaves a user of that name alone.  A
\* save that fails ends the process before any request is accepted.
Start ==
  /\ ~up
  /\ IF disk.users[Boot] # Nobody
       THEN users' = disk.users /\ groups' = disk.groups /\ UNCHANGED disk
       ELSE Save(WithBoot, WithAdmins)
  /\ up' = TRUE
  /\ UNCHANGED principal

Crash ==
  /\ "crash" \in Faults
  /\ up
  /\ up' = FALSE
  /\ principal' = [p \in Procs |-> Nobody]
  /\ UNCHANGED <<users, groups, disk>>

\* requireAdmin lets the request in; one that is refused changes nothing.
RequireAdmin(p, u) ==
  /\ up
  /\ principal[p] = Nobody
  /\ WouldBeAdmin(users[u], groups)
  /\ principal' = [principal EXCEPT ![p] = u]
  /\ UNCHANGED <<users, groups, disk, up>>

\* The request of p makes its change and is answered.
Answer(p) == principal[p] # Nobody /\ principal' = [principal EXCEPT ![p] = Nobody]

\* Mutant of UpsertUser: an edit without a password clears the password.
UpsertUserClearsPassword(p, u, new) ==
  /\ "user" \in Handlers
  /\ Answer(p)
  /\ new.password \/ users[u] # Nobody
  /\ IsLastAdmin(u) => WouldBeAdmin(new, groups)
  /\ LET us == [users EXCEPT ![u] = new] IN Save(us, groups) \/ SaveFails(us, groups)
  /\ UNCHANGED up

\* POST and PUT of /api/users and the form of the admin page: a new user needs
\* a password, an edit without one keeps the old one.
UpsertUser(p, u, new) ==
  LET user == [new EXCEPT !.password = @ \/ (users[u] # Nobody /\ users[u].password)] IN
  /\ "user" \in Handlers
  /\ Answer(p)
  /\ user.password
  /\ IsLastAdmin(u) => WouldBeAdmin(user, groups)
  /\ LET us == [users EXCEPT ![u] = user] IN Save(us, groups) \/ SaveFails(us, groups)
  /\ UNCHANGED up

BlankUser == [admin |-> FALSE, groups |-> {}, disabled |-> FALSE, password |-> FALSE]

\* Mutant of DeleteUser: a zero User{} takes the place of the record in the map.
DeleteUserBlanks(p, u) ==
  /\ "delete" \in Handlers
  /\ Answer(p)
  /\ ~IsLastAdmin(u)
  /\ LET us == [users EXCEPT ![u] = BlankUser] IN Save(us, groups) \/ SaveFails(us, groups)
  /\ UNCHANGED up

\* Deleting a name nobody has still saves.
DeleteUser(p, u) ==
  /\ "delete" \in Handlers
  /\ Answer(p)
  /\ ~IsLastAdmin(u)
  /\ LET us == [users EXCEPT ![u] = Nobody] IN Save(us, groups) \/ SaveFails(us, groups)
  /\ UNCHANGED up

\* A request that the store refuses, and one that only reads.
Refused(p) == Answer(p) /\ UNCHANGED <<users, groups, disk, up>>

\* UpsertGroup replaces the group and looks at nothing else.
UpsertGroup(p, g, admin) ==
  /\ (IF admin THEN "grant" ELSE "revoke") \in Handlers
  /\ Answer(p)
  /\ LET gs == [groups EXCEPT ![g] = admin] IN Save(users, gs) \/ SaveFails(users, gs)
  /\ UNCHANGED up

Next ==
  \/ Start
  \/ Crash
  \/ \E p \in Procs :
       \/ \E u \in Users : RequireAdmin(p, u) \/ DeleteUser(p, u)
       \/ \E u \in Users, new \in UserType : UpsertUser(p, u, new)
       \/ \E g \in Groups, admin \in BOOLEAN : UpsertGroup(p, g, admin)
       \/ Refused(p)

Spec == Init /\ [][Next]_vars

-----------------------------------------------------------------------------
\* Somebody can log in as an admin.
HasAdmin(us, gs) == \E u \in Users : WouldBeAdmin(us[u], gs) /\ us[u].password

\* A running daemon always has an enabled admin with a password, however
\* requests of several admins, already let in, delete, disable or demote each
\* other ("refusing to remove or disable the last admin").
AdminRemains == up => HasAdmin(users, groups)

\* The same holds of users.json at every moment, so that a crash between any
\* two changes, some of them unsaved, does not lock everybody out.
RestartKeepsAdmin ==
  (\E u \in Users : disk.users[u] # Nobody) => HasAdmin(disk.users, disk.groups)
=============================================================================
