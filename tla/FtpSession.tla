------------------------------ MODULE FtpSession ------------------------------
(***************************************************************************)
(* The control connections of internal/ftpserver: what dispatch remembers  *)
(* from one command to the next (name, account, TLS), next to the account *)
(* store, which an admin may change between any two commands, and to the   *)
(* limiter in front of PASS.                                               *)
(*                                                                         *)
(* Every session comes from one host, so a limiter key is the name that    *)
(* USER sent, without spaces around it and in lower case.  The store drops *)
(* further characters, so that several keys may lead to one account.       *)
(* Left out because this state does not depend on them:                    *)
(* commands that only answer (SYST, FEAT, TYPE, NOOP...), PASS before any  *)
(* USER, which is refused and counted under a key no account has, and the  *)
(* level PROT sets.  RNFR's pending source is in Storage, data connections *)
(* are in PassivePorts, REST and the transfers in FtpTransfer.             *)
(***************************************************************************)
EXTENDS RateLimiter

CONSTANTS
  Users,       \* account names; the store may know them
  Normal,      \* Normal[k]: NormalizeName of the name sent as k
  Perms,       \* the permissions commands ask for
  RequireTLS   \* ftp.require_tls

ASSUME SessionConstants ==
  /\ Normal \in [Keys -> Users] /\ Nil \notin Users
  /\ Perms \cap {"off", "on", "check"} = {}
  /\ RequireTLS \in BOOLEAN

VARIABLES
  account,   \* account[u]: the permissions of u in the store, or Nil
  st,        \* st[s]: what session s is doing
  name,      \* session.username
  user,      \* session.user, Nil before the first login
  granted,   \* session.perms
  auth,      \* session.authenticated
  secure,    \* session.secure
  proven     \* history: whose password session s gave last, Nil if none

session == <<st, name, user, granted, auth, secure, proven>>
vars == <<limiter, account, session>>

States == {"off", "on", "check"} \cup Perms

SessionTypeOK ==
  /\ LimiterTypeOK
  /\ account \in [Users -> (SUBSET Perms) \cup {Nil}]
  /\ st \in [Clients -> States]
  /\ name \in [Clients -> Keys \cup {Nil}]
  /\ user \in [Clients -> Users \cup {Nil}]
  /\ granted \in [Clients -> SUBSET Perms]
  /\ auth \in [Clients -> BOOLEAN]
  /\ secure \in [Clients -> BOOLEAN]
  /\ proven \in [Clients -> Users \cup {Nil}]

SessionInit ==
  /\ LimiterInit
  /\ account \in [Users -> (SUBSET Perms) \cup {Nil}]
  /\ st = [s \in Clients |-> "off"]
  /\ name = [s \in Clients |-> Nil]
  /\ user = [s \in Clients |-> Nil]
  /\ granted = [s \in Clients |-> {}]
  /\ auth = [s \in Clients |-> FALSE]
  /\ secure = [s \in Clients |-> FALSE]
  /\ proven = [s \in Clients |-> Nil]

-----------------------------------------------------------------------------
\* handle: a new session value, and the greeting.
Connect(s) ==
  /\ st[s] = "off"
  /\ st' = [st EXCEPT ![s] = "on"]
  /\ UNCHANGED <<limiter, account, name, user, granted, auth, secure, proven>>

\* The session value is gone: nothing of it reaches the next connection.
Forget(s) ==
  /\ st' = [st EXCEPT ![s] = "off"]
  /\ name' = [name EXCEPT ![s] = Nil]
  /\ user' = [user EXCEPT ![s] = Nil]
  /\ granted' = [granted EXCEPT ![s] = {}]
  /\ auth' = [auth EXCEPT ![s] = FALSE]
  /\ secure' = [secure EXCEPT ![s] = FALSE]
  /\ proven' = [proven EXCEPT ![s] = Nil]

\* QUIT, a lost connection, the idle timeout.
Quit(s) ==
  /\ st[s] = "on"
  /\ Forget(s)
  /\ UNCHANGED <<limiter, account>>

\* Mutant of UserCommand: the named account takes effect at once.
UserCommandSwitches(s, n) ==
  /\ st[s] = "on"
  /\ name' = [name EXCEPT ![s] = n]
  /\ user' = [user EXCEPT ![s] = Normal[n]]
  /\ UNCHANGED <<limiter, account, st, granted, auth, secure, proven>>

\* USER names an account; a login that is in effect stays in effect.
UserCommand(s, n) ==
  /\ st[s] = "on"
  /\ name' = [name EXCEPT ![s] = n]
  /\ UNCHANGED <<limiter, account, st, user, granted, auth, secure, proven>>

\* PASS, once it may ask the limiter at all.
MayPass(s) == st[s] = "on" /\ name[s] # Nil /\ (RequireTLS => secure[s])

\* The limiter lets PASS on to the password check.
PassBegins(s) ==
  /\ MayPass(s)
  /\ Allow(s, name[s])
  /\ st' = [st EXCEPT ![s] = "check"]
  /\ UNCHANGED <<account, name, user, granted, auth, secure, proven>>

\* 421: too many failures, and the connection is closed.
PassLimited(s) ==
  /\ MayPass(s)
  /\ Refuse(s, name[s])
  /\ Forget(s)
  /\ UNCHANGED account

\* 530: wrong password, or no such account.  An earlier login stays.
PassFails(s) ==
  /\ st[s] = "check"
  /\ Fail(s)
  /\ st' = [st EXCEPT ![s] = "on"]
  /\ UNCHANGED <<account, name, user, granted, auth, secure, proven>>

\* 230: the account is there and the password is right.
PassSucceeds(s) ==
  LET u == Normal[name[s]] IN
  /\ st[s] = "check"
  /\ account[u] # Nil
  /\ Reset(s)
  /\ st' = [st EXCEPT ![s] = "on"]
  /\ user' = [user EXCEPT ![s] = u]
  /\ granted' = [granted EXCEPT ![s] = account[u]]
  /\ auth' = [auth EXCEPT ![s] = TRUE]
  /\ proven' = [proven EXCEPT ![s] = u]
  /\ UNCHANGED <<account, name, secure>>

\* AUTH TLS: reply 234 and the handshake, during which the session reads no
\* other command.
AuthTLS(s) ==
  /\ st[s] = "on" /\ ~secure[s]
  /\ secure' = [secure EXCEPT ![s] = TRUE]
  /\ UNCHANGED <<limiter, account, st, name, user, granted, auth, proven>>

\* The handshake fails: authTLS closes the connection and the next read ends
\* the session.
AuthTLSFails(s) ==
  /\ st[s] = "on" /\ ~secure[s]
  /\ Forget(s)
  /\ UNCHANGED <<limiter, account>>

-----------------------------------------------------------------------------
\* requireAuth: the account is read again for every command.
Readmitted(s) == auth[s] /\ account[user[s]] # Nil

\* The account is gone or disabled: the login ends, the connection stays.
AccountUnavailable(s) ==
  /\ st[s] = "on" /\ auth[s]
  /\ ~Readmitted(s)
  /\ auth' = [auth EXCEPT ![s] = FALSE]
  /\ granted' = [granted EXCEPT ![s] = {}]
  /\ UNCHANGED <<limiter, account, st, name, user, secure, proven>>

\* 550: requireAuthPerm has taken over what the store says and refuses.
Denied(s, p) ==
  /\ st[s] = "on"
  /\ Readmitted(s)
  /\ granted' = [granted EXCEPT ![s] = account[user[s]]]
  /\ p \notin granted'[s]
  /\ UNCHANGED <<limiter, account, st, name, user, auth, secure, proven>>

\* Mutant of Admitted: the permissions are those of the login.
AdmittedAtLogin(s, p) ==
  /\ st[s] = "on"
  /\ auth[s]
  /\ p \in granted[s]
  /\ UNCHANGED granted

Admitted(s, p) ==
  /\ st[s] = "on"
  /\ Readmitted(s)
  /\ granted' = [granted EXCEPT ![s] = account[user[s]]]
  /\ p \in granted'[s]

\* A command that needs p runs; a transfer may take long.
Command(s, p) ==
  /\ Admitted(s, p)
  /\ st' = [st EXCEPT ![s] = p]
  /\ UNCHANGED <<limiter, account, name, user, auth, secure, proven>>

Done(s) ==
  /\ st[s] \in Perms
  /\ st' = [st EXCEPT ![s] = "on"]
  /\ UNCHANGED <<limiter, account, name, user, granted, auth, secure, proven>>

\* UpsertUser, DeleteUser and UpsertGroup, as a session notices them.
EditAccount(u, a) ==
  /\ account' = [account EXCEPT ![u] = a]
  /\ UNCHANGED <<limiter, session>>

SessionNext ==
  \/ \E s \in Clients :
       \/ Connect(s) \/ Quit(s)
       \/ \E n \in Keys : UserCommand(s, n)
       \/ PassBegins(s) \/ PassLimited(s) \/ PassFails(s) \/ PassSucceeds(s)
       \/ AuthTLS(s) \/ AuthTLSFails(s)
       \/ AccountUnavailable(s)
       \/ \E p \in Perms : Denied(s, p) \/ Command(s, p)
       \/ Done(s)
  \/ \E u \in Users, a \in (SUBSET Perms) \cup {Nil} : EditAccount(u, a)
  \/ Tick /\ UNCHANGED <<account, session>>

Spec == SessionInit /\ [][SessionNext]_vars

-----------------------------------------------------------------------------
\* A session acts for an account whose password it has given itself, over TLS
\* where TLS is required: USER alone, a failed PASS, a later AUTH or a new
\* connection never change on whose behalf it acts.
LoginProven ==
  \A s \in Clients : auth[s] => user[s] = proven[s] /\ (RequireTLS => secure[s])

\* "disabled user retained access through an existing FTP session" must not
\* happen: whatever the session remembers from its login or from its last
\* command, an operation begins only if the store grants it at that moment.
RevokedStops ==
  [][\A s \in Clients : st[s] \notin Perms /\ st'[s] \in Perms =>
       account[user[s]] # Nil /\ st'[s] \in account[user[s]]]_vars
=============================================================================
