--------------------------- MODULE ChainNodeProofs ---------------------------
(***************************************************************************)
(* Proofs about ChainNode for any runs and any number of servers, whether  *)
(* they may be killed or not.                                              *)
(***************************************************************************)
EXTENDS ChainNode, TLAPS

Up == {"waiting", "deploying", "binding", "serving", "draining", "exiting"}

(* A process that is up has a number. *)
Numbered == phase # "down" => server \in Nodes

(* Unless a server was killed, the only node that can be alive is that of  *)
(* the server that is up, and only before it dropped its handle.           *)
OwnNodeOnly ==
  ~killed =>
    alive \subseteq
      IF managed /\ phase \notin {"down", "exiting"} THEN {server} ELSE {}

(* The node a server's contract was deployed on, be it its own or that of  *)
(* a dead one, has the port until it gets a Ctrl-C.                        *)
Deployed ==
  managed /\ phase \in {"binding", "serving", "draining"} =>
    \E n \in Nodes : server \in verifiers[n] /\ (port = n \/ n \in signalled)

(* Clients are connected only to a server that serves or drains. *)
ConnectedToServer ==
  \A r \in Runs : conn[r] = "open" => phase \in {"serving", "draining"}

Inv == TypeOK /\ Numbered /\ OwnNodeOnly /\ Deployed /\ ConnectedToServer

USE DEF runVars, chainVars

LEMMA InvInit == Init => Inv
<1> SUFFICES ASSUME Init PROVE Inv
  OBVIOUS
<1>1. server \in 0 .. MaxServers
  BY ChainAssumption DEF Init
<1>2. TypeOK
  BY <1>1 DEF Init, TypeOK
<1>3. QED
  BY <1>2 DEF Init, Inv, Numbered, OwnNodeOnly, Deployed, ConnectedToServer

(* What the end of a node does to the processes and the port. *)
LEMMA EndOfANode ==
  ASSUME TypeOK, NEW n, NodeEnds(n)
  PROVE  /\ alive' = alive \ {n}
         /\ alive' \subseteq Nodes
         /\ port' \in alive' \cup {None}
         /\ n # port => port' = port
BY DEF TypeOK, NodeEnds

LEMMA HandleDropped ==
  ASSUME Inv, DropHandle, phase # "down"
  PROVE  /\ alive' \subseteq Nodes
         /\ port' \in alive' \cup {None}
         /\ ~killed => alive' = {}
<1>1. CASE managed
  BY <1>1, EndOfANode DEF Inv, DropHandle, OwnNodeOnly
<1>2. CASE ~managed
  BY <1>2 DEF Inv, DropHandle, OwnNodeOnly, TypeOK
<1>3. QED
  BY <1>1, <1>2

LEMMA InvStep == Inv /\ [Next]_vars => Inv'
<1> SUFFICES ASSUME Inv, [Next]_vars PROVE Inv'
  OBVIOUS
<1> USE DEF Inv, Numbered, OwnNodeOnly, ConnectedToServer
<1>1. CASE StartServer
  <2>1. server' \in Nodes /\ server' \in 0 .. MaxServers
    BY <1>1, ChainAssumption DEF StartServer, TypeOK, Nodes
  <2>2. QED
    BY <1>1, <2>1 DEF StartServer, TypeOK, Deployed
<1>2. CASE StartExternal
  <2>1. server' \in Nodes /\ server' \in 0 .. MaxServers
    BY <1>2, ChainAssumption DEF StartExternal, TypeOK, Nodes
  <2>2. QED
    BY <1>2, <2>1 DEF StartExternal, TypeOK, Deployed
<1>3. CASE Responds
  BY <1>3 DEF Responds, TypeOK, Deployed
<1>4. CASE Deploy
  <2>1. port \in Nodes /\ server \in Nodes
    BY <1>4 DEF Deploy, TypeOK
  <2>2. /\ verifiers' \in [Nodes -> SUBSET Nodes]
        /\ server \in verifiers'[port]
    BY <1>4, <2>1 DEF Deploy, TypeOK
  <2>3. QED
    BY <1>4, <2>1, <2>2 DEF Deploy, TypeOK, Deployed
<1>5. CASE StartFails
  BY <1>5, HandleDropped DEF StartFails, TypeOK, Deployed
<1>6. CASE Serve
  BY <1>6 DEF Serve, TypeOK, Deployed
<1>7. ASSUME NEW n \in Nodes, NodeBinds(n) PROVE Inv'
  <2>1. CASE port = None
    <3>1. /\ port' = n /\ n \in alive
          /\ UNCHANGED <<alive, server, managed, phase, verifiers, signalled, killed, runVars>>
      BY <1>7, <2>1 DEF NodeBinds
    <3>2. TypeOK'
      BY <3>1 DEF TypeOK
    <3>3. Deployed'
      BY <2>1, <3>1 DEF Deployed, None, Nodes
    <3>4. QED
      BY <3>1, <3>2, <3>3
  <2>2. CASE port # None
    <3>1. NodeEnds(n) /\ n # port
      BY <1>7, <2>2 DEF NodeBinds
    <3>2. QED
      BY <1>7, <3>1, EndOfANode DEF NodeBinds, TypeOK, Deployed
  <2>3. QED
    BY <2>1, <2>2
<1>8. ASSUME NEW n \in Nodes, NodeDies(n) PROVE Inv'
  BY <1>8, EndOfANode DEF NodeDies, TypeOK, Deployed
<1>9. ASSUME NEW r \in Runs, Accept(r) PROVE Inv'
  BY <1>9 DEF Accept, TypeOK, Deployed
<1>10. ASSUME NEW r \in Runs, Worker(r) PROVE Inv'
  BY <1>10 DEF Worker, Verify, RunFails, Answers, TypeOK, Deployed
<1>11. ASSUME NEW r \in Runs, StreamEnds(r) \/ Leave(r) PROVE Inv'
  BY <1>11 DEF StreamEnds, Leave, TypeOK, Deployed
<1>12. CASE CtrlC
  <2>1. signalled \subseteq signalled' /\ signalled' \subseteq Nodes
    BY <1>12 DEF CtrlC, Signals, TypeOK
  <2>2. QED
    BY <1>12, <2>1 DEF CtrlC, TypeOK, Deployed
<1>13. CASE ServeReturns
  BY <1>13, HandleDropped DEF ServeReturns, Drained, TypeOK, Deployed
<1>14. CASE ProcessExits
  BY <1>14 DEF ProcessExits, TypeOK, Deployed
<1>15. CASE Kill
  <2>1. signalled' \subseteq Nodes
    BY <1>15 DEF Kill, Signals, TypeOK
  <2>2. QED
    BY <1>15, <2>1 DEF Kill, TypeOK, Deployed
<1>16. CASE UNCHANGED vars
  BY <1>16 DEF vars, TypeOK, Deployed
<1>17. QED
  BY <1>1, <1>2, <1>3, <1>4, <1>5, <1>6, <1>7, <1>8, <1>9, <1>10, <1>11, <1>12,
     <1>13, <1>14, <1>15, <1>16 DEF Next

LEMMA Invariant == Spec => []Inv
BY InvInit, InvStep, PTL DEF Spec

(* Every variable keeps its type: in particular nobody listens on the port *)
(* who has ended (NodeEnds).                                               *)
THEOREM TypeCorrect == Spec => []TypeOK
<1>1. Inv => TypeOK
  BY DEF Inv
<1>2. QED
  BY <1>1, Invariant, PTL

(* No way out of main leaves a node behind, unless the server was killed   *)
(* (AnvilHandle::drop).                                                    *)
THEOREM NoStraysUnlessKilled == Spec => []NoStrayUnlessKilled
<1>1. Inv => NoStrayUnlessKilled
  BY DEF Inv, OwnNodeOnly, NoStrayUnlessKilled, NoStrayNode
<1>2. QED
  BY <1>1, Invariant, PTL

(* A client that stays misses the answer of the contract only if the node  *)
(* the contract is on got a Ctrl-C (init_managed_anvil, main after serve). *)
THEOREM ClientsGetAVerdict == Spec => ConnectedClientsGetAVerdict
<1>1. ASSUME Inv, [Next]_vars, NEW r \in Runs, conn[r] = "open", managed,
             answer[r] # answer'[r], answer'[r] = "absent"
      PROVE  \E n \in signalled : server \in verifiers[n]
  <2>1. Verify(r)
    <3>1. (\E s \in Runs : Verify(s)) \/ answer' = answer
      BY <1>1 DEF Next, vars, StartServer, StartExternal, Responds, Deploy, StartFails,
         Serve, NodeBinds, NodeDies, Accept, Worker, RunFails, StreamEnds, Leave, CtrlC,
         ServeReturns, ProcessExits, Kill
    <3>2. QED
      BY <1>1, <3>1 DEF Verify, Inv, TypeOK
  <2>2. "absent" \in Answers
    BY <1>1, <2>1 DEF Verify, Inv, TypeOK
  <2>3. ~(port # None /\ server \in verifiers[port])
    BY <1>1, <2>2 DEF Answers
  <2>4. PICK n \in Nodes : server \in verifiers[n] /\ (port = n \/ n \in signalled)
    BY <1>1 DEF Inv, Deployed, ConnectedToServer
  <2>5. QED
    BY <2>3, <2>4 DEF None, Nodes
<1>2. Inv /\ [Next]_vars =>
        [\A r \in Runs :
           (conn[r] = "open" /\ managed /\ answer[r] # answer'[r] /\ answer'[r] = "absent")
           => \E n \in signalled : server \in verifiers[n]]_vars
  BY <1>1
<1>3. QED
  BY <1>2, Invariant, PTL DEF Spec, ConnectedClientsGetAVerdict
=============================================================================
