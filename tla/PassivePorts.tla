----------------------------- MODULE PassivePorts -----------------------------
(***************************************************************************)
(* Passive data ports of the FTP server and their mappings on the router:  *)
(* enterPassive, listenPassive, openData, closePassive and the calls that  *)
(* map and unmap a port, in internal/ftpserver/server.go.                  *)
(*                                                                         *)
(* A session is one goroutine that serves one command at a time.  Mapping  *)
(* and unmapping are network calls, each a step of its own; NAT-PMP and    *)
(* UPnP are taken together as "the router".  Go listens with SO_REUSEADDR, *)
(* so a port can be bound again as soon as its listener is closed, though  *)
(* the connection it accepted is still open.  auto_map is on.              *)
(***************************************************************************)
EXTENDS Naturals, FiniteSets

CONSTANTS
  Sessions,  \* FTP sessions; a session that ends makes room for a new one
  N,         \* number of configured passive ports
  NoSession, \* nobody listens
  Faults     \* subset of {"map", "unmap", "handshake"}

Ports == 0..(N - 1)
NoPort == N

ASSUME PassiveConstants ==
  /\ N \in Nat \ {0}
  /\ NoSession \notin Sessions
  /\ Faults \subseteq {"map", "unmap", "handshake"}

VARIABLES
  nextPort, \* Server.nextPort
  bound,    \* bound[q]: the session that listens on port q
  mapped,   \* ports the router forwards
  orphans,  \* history: mappings whose removal failed or whose daemon died
  port,     \* port[s]: session.passivePort, or the port of its data connection
  pc,       \* pc[s]: the next step of session s
  then      \* then[s]: what s does after the unmap call

passive == <<nextPort, bound, mapped, orphans, port, pc, then>>

Steps == {"idle", "unmap", "listen", "map", "accept", "giveup", "transfer"}

TypeOK ==
  /\ nextPort \in Ports
  /\ bound \in [Ports -> Sessions \cup {NoSession}]
  /\ mapped \in SUBSET Ports
  /\ orphans \in SUBSET mapped
  /\ port \in [Sessions -> Ports \cup {NoPort}]
  /\ pc \in [Sessions -> Steps]
  /\ then \in [Sessions -> {"idle", "listen"}]

Init ==
  /\ nextPort = 0
  /\ bound = [q \in Ports |-> NoSession]
  /\ mapped = {}
  /\ orphans = {}
  /\ port = [s \in Sessions |-> NoPort]
  /\ pc = [s \in Sessions |-> "idle"]
  /\ then = [s \in Sessions |-> "idle"]

-----------------------------------------------------------------------------
Goto(s, step) == pc' = [pc EXCEPT ![s] = step]

\* Mutant of ClosePassive: the listener is forgotten, not closed.
ClosePassiveLeaks(s, step) ==
  /\ pc[s] = "idle"
  /\ IF port[s] = NoPort
       THEN Goto(s, step) /\ UNCHANGED <<bound, then>>
       ELSE /\ UNCHANGED bound
            /\ then' = [then EXCEPT ![s] = step]
            /\ Goto(s, "unmap")
  /\ UNCHANGED <<nextPort, mapped, orphans, port>>

\* closePassive: the listener is closed first and the port unmapped afterwards.
ClosePassive(s, step) ==
  /\ pc[s] = "idle"
  /\ IF port[s] = NoPort
       THEN Goto(s, step) /\ UNCHANGED <<bound, then>>
       ELSE /\ bound' = [bound EXCEPT ![port[s]] = NoSession]
            /\ then' = [then EXCEPT ![s] = step]
            /\ Goto(s, "unmap")
  /\ UNCHANGED <<nextPort, mapped, orphans, port>>

\* PORT and EPRT.
EnterActive(s) == ClosePassive(s, "idle")

\* closeDataSetup: RETR, STOR or APPE fails before its data connection.
CloseDataSetup(s) == ClosePassive(s, "idle")

\* QUIT, a lost control connection or the idle timeout.
Close(s) == ClosePassive(s, "idle")

\* PASV and EPSV drop an earlier passive port first.
EnterPassive(s) == ClosePassive(s, "listen")

\* The call that removes the mapping of q succeeds, or fails and is logged.
Unmapped(q) ==
  \/ mapped' = mapped \ {q} /\ orphans' = orphans \ {q}
  \/ /\ "unmap" \in Faults
     /\ orphans' = orphans \cup ({q} \cap mapped)
     /\ UNCHANGED mapped

\* unmapPassivePort
Unmap(s) ==
  /\ pc[s] = "unmap"
  /\ Unmapped(port[s])
  /\ port' = [port EXCEPT ![s] = NoPort]
  /\ Goto(s, then[s])
  /\ UNCHANGED <<nextPort, bound, then>>

\* The first free port at or after nextPort, in turn.
FreePort(q) ==
  /\ bound[q] = NoSession
  /\ \A i \in Ports :
       bound[(nextPort + i) % N] = NoSession
         => \E j \in 0..i : q = (nextPort + j) % N

\* Mutant of ListenPassive: nextPort is not taken modulo the number of ports.
ListenPassiveNoWrap(s) ==
  \E q \in Ports :
    /\ pc[s] = "listen"
    /\ FreePort(q)
    /\ bound' = [bound EXCEPT ![q] = s]
    /\ nextPort' = q + 1
    /\ port' = [port EXCEPT ![s] = q]
    /\ Goto(s, "map")
    /\ UNCHANGED <<mapped, orphans, then>>

\* listenPassive under portMu.
ListenPassive(s) ==
  \E q \in Ports :
    /\ pc[s] = "listen"
    /\ FreePort(q)
    /\ bound' = [bound EXCEPT ![q] = s]
    /\ nextPort' = (q + 1) % N
    /\ port' = [port EXCEPT ![s] = q]
    /\ Goto(s, "map")
    /\ UNCHANGED <<mapped, orphans, then>>

\* 421: no free passive ports.
NoPassivePort(s) ==
  /\ pc[s] = "listen"
  /\ \A q \in Ports : bound[q] # NoSession
  /\ Goto(s, "idle")
  /\ UNCHANGED <<nextPort, bound, mapped, orphans, port, then>>

\* mapPassivePort, whose failure is only logged; then the 227 or 229 reply.
MapPassivePort(s) ==
  /\ pc[s] = "map"
  /\ \/ mapped' = mapped \cup {port[s]} /\ orphans' = orphans \ {port[s]}
     \/ "map" \in Faults /\ UNCHANGED <<mapped, orphans>>
  /\ Goto(s, "idle")
  /\ UNCHANGED <<nextPort, bound, port, then>>

-----------------------------------------------------------------------------
\* A transfer command waits for the client on the passive listener.
OpenData(s) ==
  /\ pc[s] = "idle"
  /\ port[s] # NoPort
  /\ Goto(s, "accept")
  /\ UNCHANGED <<nextPort, bound, mapped, orphans, port, then>>

\* The client connects: openData returns and its deferred Close ends the
\* listener.  Connections from other hosts are dropped without a trace.
Accept(s) ==
  /\ pc[s] = "accept"
  /\ bound' = [bound EXCEPT ![port[s]] = NoSession]
  /\ Goto(s, "transfer")
  /\ UNCHANGED <<nextPort, mapped, orphans, port, then>>

\* Nobody connects for 30 seconds: the port is unmapped, then the listener
\* closed.
AcceptFails(s) ==
  /\ pc[s] = "accept"
  /\ Unmapped(port[s])
  /\ Goto(s, "giveup")
  /\ UNCHANGED <<nextPort, bound, port, then>>

CloseListener(s) ==
  /\ pc[s] = "giveup"
  /\ bound' = [bound EXCEPT ![port[s]] = NoSession]
  /\ port' = [port EXCEPT ![s] = NoPort]
  /\ Goto(s, "idle")
  /\ UNCHANGED <<nextPort, mapped, orphans, then>>

\* Mutant of EndTransfer: the port stays mapped.
EndTransferKeeps(s) ==
  /\ pc[s] = "transfer"
  /\ port' = [port EXCEPT ![s] = NoPort]
  /\ Goto(s, "idle")
  /\ UNCHANGED <<nextPort, bound, mapped, orphans, then>>

\* passiveDataConn.Close: the connection is closed and its port unmapped.
EndTransfer(s) ==
  /\ pc[s] = "transfer"
  /\ then' = [then EXCEPT ![s] = "idle"]
  /\ Goto(s, "unmap")
  /\ UNCHANGED <<nextPort, bound, mapped, orphans, port>>

\* The TLS handshake of the data connection fails: protectDataConn returns a
\* nil connection, and closing it ends the process.  A new one starts.
HandshakeFails(s) ==
  /\ pc[s] = "transfer"
  /\ "handshake" \in Faults
  /\ nextPort' = 0
  /\ bound' = [q \in Ports |-> NoSession]
  /\ orphans' = mapped
  /\ port' = [t \in Sessions |-> NoPort]
  /\ pc' = [t \in Sessions |-> "idle"]
  /\ then' = [t \in Sessions |-> "idle"]
  /\ UNCHANGED mapped

Next ==
  \E s \in Sessions :
    \/ EnterActive(s) \/ CloseDataSetup(s) \/ Close(s) \/ EnterPassive(s)
    \/ Unmap(s) \/ ListenPassive(s) \/ NoPassivePort(s) \/ MapPassivePort(s)
    \/ OpenData(s) \/ Accept(s) \/ AcceptFails(s) \/ CloseListener(s)
    \/ EndTransfer(s) \/ HandshakeFails(s)

PassiveSpec == Init /\ [][Next]_passive

-----------------------------------------------------------------------------
\* Steps in which a session has its listener open.
Listening(s) ==
  \/ pc[s] = "idle" /\ port[s] # NoPort
  \/ pc[s] \in {"map", "accept", "giveup"}

\* A port is bound exactly while one session listens on it: no path through a
\* command leaks a listener, so "no free passive ports" is never caused by one,
\* and no two sessions believe that they listen on the same port.
ListenersReclaimed ==
  \A s \in Sessions, q \in Ports : bound[q] = s <=> Listening(s) /\ port[s] = q

\* A mapping lasts only as long as some session listens on the port, transfers
\* over it or is about to unmap it ("released after the data connection is
\* closed or the passive setup is abandoned"), unless the router refused to
\* remove it or the daemon died.
MappingsReleased ==
  mapped \subseteq orphans \cup {port[s] : s \in Sessions}

\* The port that a 227 reply has announced stays mapped until the client has
\* connected or the setup is abandoned.
MappedWhileWaiting ==
  \A s \in Sessions :
    (pc[s] = "idle" /\ port[s] # NoPort) \/ pc[s] = "accept" => port[s] \in mapped
=============================================================================
