--------------------------- MODULE AuthStoreProofs ---------------------------
(***************************************************************************)
(* Somebody can always log in as an admin, for any set of users, groups    *)
(* and concurrent requests, as long as no group loses its admin permission.*)
(***************************************************************************)
EXTENDS AuthStore, TLAPS

UserMaps == [Users -> UserType \cup {Nobody}]
GroupMaps == [Groups -> BOOLEAN \cup {Nobody}]

\* What AdminRemains needs beyond itself: requests are let in only while the
\* daemon is up, users have passwords (by TypeOK), and users.json is never without
\* an admin.
AuthInv ==
  /\ TypeOK
  /\ AdminRemains
  /\ RestartKeepsAdmin
  /\ \A p \in Procs : principal[p] # Nobody => up

\* Memory after a change and the file after its save or failed save.
Good(us, gs) ==
  /\ us \in UserMaps
  /\ gs \in GroupMaps
  /\ HasAdmin(us, gs)
  /\ AllHavePasswords(us)

\* A good database that is saved, or not, keeps the invariant.
LEMMA SavedOrNot ==
  ASSUME AuthInv, NEW us, NEW gs, Good(us, gs),
         Save(us, gs) \/ SaveFails(us, gs),
         UNCHANGED up, up,
         principal' \in [Procs -> Users \cup {Nobody}]
  PROVE  AuthInv'
<1>1. disk' \in Databases /\ RestartKeepsAdmin' /\ AllHavePasswords(disk'.users)
  BY DEF AuthInv, TypeOK, Good, Save, SaveFails, Database, Databases, UserMaps, GroupMaps,
         RestartKeepsAdmin, HasAdmin, WouldBeAdmin, AllHavePasswords
<1>2. users' = us /\ groups' = gs
  BY DEF Save, SaveFails
<1>. QED
  BY <1>1, <1>2 DEF AuthInv, TypeOK, Good, UserMaps, GroupMaps, AdminRemains, HasAdmin,
                    WouldBeAdmin, AllHavePasswords

\* Replacing the user u by one that the last-admin rule admits leaves an admin.
LEMMA RuleKeepsAdmin ==
  ASSUME users \in UserMaps, groups \in GroupMaps,
         HasAdmin(users, groups), AllHavePasswords(users),
         NEW u \in Users, NEW x \in UserType \cup {Nobody},
         x # Nobody => x.password,
         IsLastAdmin(u) => WouldBeAdmin(x, groups)
  PROVE  Good([users EXCEPT ![u] = x], groups)
<1> DEFINE us == [users EXCEPT ![u] = x]
<1> SUFFICES Good(us, groups)
  OBVIOUS
<1>1. us \in UserMaps /\ AllHavePasswords(us)
  BY DEF UserMaps, AllHavePasswords
<1>2. \A v \in Users \ {u} : us[v] = users[v]
  BY DEF UserMaps
<1>3. us[u] = x
  BY DEF UserMaps
<1>4. PICK a \in Users : WouldBeAdmin(users[a], groups) /\ users[a].password
  BY DEF HasAdmin
<1> HIDE DEF us
<1>5. CASE a # u
  BY <1>1, <1>2, <1>4, <1>5 DEF Good, HasAdmin
<1>6. CASE a = u /\ IsLastAdmin(u)
  BY <1>1, <1>3, <1>6 DEF Good, HasAdmin, WouldBeAdmin
<1>7. CASE a = u /\ ~IsLastAdmin(u)
  <2>1. PICK v \in Users \ {u} : WouldBeAdmin(users[v], groups)
    BY <1>4, <1>7 DEF IsLastAdmin
  <2>2. users[v].password
    BY <2>1 DEF WouldBeAdmin, AllHavePasswords
  <2>. QED
    BY <1>1, <1>2, <2>1, <2>2 DEF Good, HasAdmin
<1>. QED
  BY <1>5, <1>6, <1>7

\* The empty store satisfies the invariant.
LEMMA AuthInit == Init => AuthInv
<1> SUFFICES ASSUME Init PROVE AuthInv
  OBVIOUS
<1>1. disk.users = users /\ disk.groups = groups /\ \A u \in Users : users[u] = Nobody
  BY DEF Init, Database
<1>2. users \in [Users -> UserType \cup {Nobody}] /\ groups \in [Groups -> BOOLEAN \cup {Nobody}]
  BY DEF Init
<1>3. disk \in Databases
  BY <1>2 DEF Init, Database, Databases
<1>4. up = FALSE /\ principal = [p \in Procs |-> Nobody]
  BY DEF Init
<1>5. TypeOK
  BY <1>1, <1>2, <1>3, <1>4 DEF TypeOK, AllHavePasswords
<1>. QED
  BY <1>1, <1>4, <1>5 DEF AuthInv, AdminRemains, RestartKeepsAdmin, AllHavePasswords

\* Every step keeps the invariant, unless it takes the admin permission from a
\* group.
LEMMA AuthStep ==
  ASSUME "revoke" \notin Handlers, AuthInv, [Next]_vars
  PROVE  AuthInv'
<1> USE AuthConstants
<1>0. /\ users \in UserMaps /\ groups \in GroupMaps
      /\ disk.users \in UserMaps /\ disk.groups \in GroupMaps
      /\ principal \in [Procs -> Users \cup {Nobody}]
      /\ AllHavePasswords(users) /\ AllHavePasswords(disk.users)
  BY DEF AuthInv, TypeOK, Databases, UserMaps, GroupMaps
<1>1. CASE Start
  <2>1. CASE disk.users[Boot] # Nobody
    BY <1>0, <1>1, <2>1
    DEF Start, AuthInv, TypeOK, AdminRemains, RestartKeepsAdmin, AllHavePasswords, HasAdmin,
        WouldBeAdmin, UserMaps, GroupMaps
  <2>2. CASE disk.users[Boot] = Nobody
    <3>0. BootAdmin \in UserType
      BY DEF BootAdmin, UserType
    <3>1. BootAdmin \in UserType /\ WouldBeAdmin(BootAdmin, WithAdmins) /\ BootAdmin.password
      <4>1. BootAdmin # Nobody
        BY <3>0
      <4>2. BootAdmin.admin /\ ~BootAdmin.disabled /\ BootAdmin.password
        BY DEF BootAdmin
      <4>. QED
        BY <3>0, <4>1, <4>2 DEF WouldBeAdmin
    <3>2. WithBoot \in UserMaps /\ WithAdmins \in GroupMaps /\ WithBoot[Boot] = BootAdmin
      BY <1>0, <3>1 DEF WithBoot, WithAdmins, UserMaps, GroupMaps
    <3>3. AllHavePasswords(WithBoot)
      BY <1>0, <3>1 DEF WithBoot, AllHavePasswords, AuthInv, UserMaps
    <3>4. HasAdmin(WithBoot, WithAdmins)
      BY <3>1, <3>2 DEF HasAdmin
    <3>5. /\ users' = WithBoot /\ groups' = WithAdmins /\ up' /\ principal' = principal
          /\ disk' = Database(WithBoot, WithAdmins)
      BY <1>1, <2>2 DEF Start, Save
    <3>6. disk'.users = WithBoot /\ disk'.groups = WithAdmins /\ disk' \in Databases
      BY <3>2, <3>5 DEF Database, Databases, UserMaps, GroupMaps
    <3>. HIDE DEF WithBoot, WithAdmins
    <3>7. AllHavePasswords(users)' /\ AllHavePasswords(disk.users)'
      BY <3>3, <3>5, <3>6 DEF AllHavePasswords
    <3>8. TypeOK'
      BY <1>0, <3>2, <3>5, <3>6, <3>7 DEF TypeOK, UserMaps, GroupMaps, AuthInv
    <3>9. AdminRemains' /\ RestartKeepsAdmin'
      BY <3>4, <3>5, <3>6 DEF AdminRemains, RestartKeepsAdmin, HasAdmin, WouldBeAdmin
    <3>. QED
      BY <3>5, <3>8, <3>9 DEF AuthInv
  <2>. QED
    BY <2>1, <2>2
<1>2. CASE Crash
  BY <1>2 DEF Crash, AuthInv, TypeOK, AdminRemains, RestartKeepsAdmin, AllHavePasswords, HasAdmin,
              WouldBeAdmin
<1>3. ASSUME NEW p \in Procs, NEW u \in Users, RequireAdmin(p, u)
      PROVE  AuthInv'
  BY <1>0, <1>3 DEF RequireAdmin, AuthInv, TypeOK, AdminRemains, RestartKeepsAdmin,
                    AllHavePasswords, HasAdmin, WouldBeAdmin
<1>4. ASSUME NEW p \in Procs, Answer(p)
      PROVE  up /\ principal' \in [Procs -> Users \cup {Nobody}] /\ HasAdmin(users, groups)
  BY <1>0, <1>4 DEF Answer, AuthInv, AdminRemains
<1>5. ASSUME NEW p \in Procs, NEW u \in Users, DeleteUser(p, u)
      PROVE  AuthInv'
  <2>1. up /\ principal' \in [Procs -> Users \cup {Nobody}] /\ HasAdmin(users, groups)
    BY <1>4, <1>5 DEF DeleteUser
  <2>2. Good([users EXCEPT ![u] = Nobody], groups)
    BY <1>0, <1>5, <2>1, RuleKeepsAdmin DEF DeleteUser, AuthInv
  <2>. QED
    BY <1>5, <2>1, <2>2, SavedOrNot DEF DeleteUser
<1>6. ASSUME NEW p \in Procs, NEW u \in Users, NEW new \in UserType, UpsertUser(p, u, new)
      PROVE  AuthInv'
  <2> DEFINE user == [new EXCEPT !.password = @ \/ (users[u] # Nobody /\ users[u].password)]
  <2>1. up /\ principal' \in [Procs -> Users \cup {Nobody}] /\ HasAdmin(users, groups)
    BY <1>4, <1>6 DEF UpsertUser
  <2>2. user \in UserType
    BY <1>0, Zenon DEF UserType, UserMaps
  <2>3. /\ user.password
        /\ IsLastAdmin(u) => WouldBeAdmin(user, groups)
        /\ Save([users EXCEPT ![u] = user], groups) \/ SaveFails([users EXCEPT ![u] = user], groups)
        /\ UNCHANGED up
    BY <1>6 DEF UpsertUser
  <2> HIDE DEF user
  <2>4. Good([users EXCEPT ![u] = user], groups)
    BY <1>0, <2>1, <2>2, <2>3, RuleKeepsAdmin DEF AuthInv
  <2>. QED
    BY <2>1, <2>3, <2>4, SavedOrNot
<1>7. ASSUME NEW p \in Procs, NEW g \in Groups, NEW admin \in BOOLEAN, UpsertGroup(p, g, admin)
      PROVE  AuthInv'
  <2> DEFINE gs == [groups EXCEPT ![g] = admin]
  <2>1. up /\ principal' \in [Procs -> Users \cup {Nobody}] /\ HasAdmin(users, groups)
    BY <1>4, <1>7 DEF UpsertGroup
  <2>2. admin = TRUE /\ (Save(users, gs) \/ SaveFails(users, gs)) /\ UNCHANGED up
    BY <1>7 DEF UpsertGroup
  <2>3. gs \in GroupMaps /\ \A h \in Groups : groups[h] = TRUE => gs[h] = TRUE
    BY <1>0, <2>2 DEF GroupMaps
  <2> HIDE DEF gs
  <2>4. \A x \in UserType \cup {Nobody} : WouldBeAdmin(x, groups) => WouldBeAdmin(x, gs)
    BY <2>3 DEF WouldBeAdmin, UserType
  <2>5. Good(users, gs)
    BY <1>0, <2>1, <2>3, <2>4 DEF Good, HasAdmin, AuthInv, UserMaps
  <2>. QED
    BY <2>1, <2>2, <2>5, SavedOrNot
<1>8. ASSUME NEW p \in Procs, Refused(p)
      PROVE  AuthInv'
  BY <1>0, <1>8 DEF Refused, Answer, AuthInv, TypeOK, AdminRemains, RestartKeepsAdmin,
                    AllHavePasswords, HasAdmin, WouldBeAdmin
<1>9. CASE UNCHANGED vars
  BY <1>9 DEF vars, AuthInv, TypeOK, AdminRemains, RestartKeepsAdmin, AllHavePasswords, HasAdmin,
              WouldBeAdmin
<1>. QED
  BY <1>1, <1>2, <1>3, <1>5, <1>6, <1>7, <1>8, <1>9 DEF Next

\* The invariant holds for ever as long as no group is demoted.
LEMMA AuthInvariant ==
  ASSUME "revoke" \notin Handlers
  PROVE  Spec => []AuthInv
<1>1. AuthInv /\ [Next]_vars => AuthInv'
  BY AuthStep
<1>. QED
  BY AuthInit, <1>1, PTL DEF Spec

\* The last-admin rule of UpsertUser and DeleteUser keeps an admin who can log
\* in, whatever requests overlap and whichever saves fail, as long as no group
\* is demoted.
THEOREM AuthAdminRemains ==
  ASSUME "revoke" \notin Handlers
  PROVE  Spec => []AdminRemains
<1>1. AuthInv => AdminRemains
  BY DEF AuthInv
<1>. QED
  BY AuthInvariant, <1>1, PTL

\* The same holds of users.json whenever the daemon may die (load, saveLocked).
THEOREM AuthRestartKeepsAdmin ==
  ASSUME "revoke" \notin Handlers
  PROVE  Spec => []RestartKeepsAdmin
<1>1. AuthInv => RestartKeepsAdmin
  BY DEF AuthInv
<1>. QED
  BY AuthInvariant, <1>1, PTL

\* The store and users.json hold well-formed accounts and groups after every
\* handler, as long as no group is demoted.
THEOREM AuthTypesKept ==
  ASSUME "revoke" \notin Handlers
  PROVE  Spec => []TypeOK
<1>1. AuthInv => TypeOK
  BY DEF AuthInv
<1>. QED
  BY AuthInvariant, <1>1, PTL
=============================================================================
