----------------------------- MODULE ChainNode ------------------------------
(***************************************************************************)
(* The life of the demo's local chain (proveno-demo/src/chain.rs, main.rs):*)
(* the server spawns an anvil node, waits until the port answers, deploys  *)
(* the verifier contract, serves runs that ask that contract about their   *)
(* proofs, and on Ctrl-C drains its connections and kills the node.        *)
(*                                                                         *)
(* Servers are started one after the other on one machine; the node of the *)
(* i-th is known as i.  All the nodes want the same port, ANVIL_PORT.      *)
(* A server may also be killed by a signal it does not handle.  A Ctrl-C   *)
(* typed at a terminal goes to the server and to its node, which share a   *)
(* process group: a node that got it may end at any time after.            *)
(* With RPC_URL set a server has no node and asks a chain of others.       *)
(***************************************************************************)
EXTENDS Integers

CONSTANTS
  Runs,         \* POSTs to /run
  MaxServers,   \* how often the server is started
  MayBeKilled   \* whether a signal other than Ctrl-C may end it

ASSUME ChainAssumption ==
  /\ MaxServers \in Nat
  /\ MayBeKilled \in BOOLEAN

Nodes == 1 .. MaxServers
None == 0

VARIABLES
  server,     \* the number of the server that was started last
  managed,    \* whether it has a node of its own
  phase,      \* where its main function is
  alive,      \* the anvil processes
  port,       \* the one that listens on ANVIL_PORT
  verifiers,  \* the servers whose contracts are deployed on each node
  conn,       \* the response stream of each run
  worker,     \* the worker of each run
  answer,     \* who answered its verify_on_chain: the contract, or nobody
  signalled,  \* the nodes that got a Ctrl-C
  killed      \* (history) a server was killed

(* What only runs change, and what they leave alone. *)
runVars == <<conn, worker, answer>>
chainVars == <<server, managed, phase, alive, port, verifiers, signalled, killed>>
vars == <<chainVars, runVars>>

-----------------------------------------------------------------------------
Init ==
  /\ server = 0
  /\ managed = TRUE
  /\ phase = "down"
  /\ alive = {}
  /\ port = None
  /\ verifiers = [n \in Nodes |-> {}]
  /\ conn = [r \in Runs |-> "none"]
  /\ worker = [r \in Runs |-> "none"]
  /\ answer = [r \in Runs |-> "none"]
  /\ signalled = {}
  /\ killed = FALSE

(* A bug: a node that has ended is still believed to listen. *)
NodeEndsListening(n) == alive' = alive \ {n} /\ UNCHANGED port

(* The end of the node n, if it is still alive, and of its listening. *)
NodeEnds(n) ==
  /\ alive' = alive \ {n}
  /\ port' = IF port = n THEN None ELSE port

(* A bug: the child is not owned by anything that kills it. *)
DropDetaches == UNCHANGED <<alive, port>>

(* AnvilHandle::drop, on every way out of main but a signal: kill the child. *)
(* In external mode there is no handle.                                      *)
DropHandle ==
  IF managed THEN NodeEnds(server) ELSE UNCHANGED <<alive, port>>

(* RPC_URL is not set: init_managed_anvil spawns the node. *)
StartServer ==
  /\ phase = "down"
  /\ server < MaxServers
  /\ server' = server + 1
  /\ managed' = TRUE
  /\ alive' = alive \cup {server + 1}
  /\ phase' = "waiting"
  /\ UNCHANGED <<port, verifiers, signalled, killed, runVars>>

(* RPC_URL is set: the contract is where PROVENO_VERIFIER_ADDR says. *)
StartExternal ==
  /\ phase = "down"
  /\ server < MaxServers
  /\ server' = server + 1
  /\ managed' = FALSE
  /\ phase' = "binding"
  /\ UNCHANGED <<alive, port, verifiers, signalled, killed, runVars>>

(* anvil gets the port, or exits because another node has it. *)
NodeBinds(n) ==
  /\ n \in alive
  /\ port # n
  /\ IF port = None
     THEN port' = n /\ UNCHANGED alive
     ELSE NodeEnds(n)
  /\ UNCHANGED <<server, managed, phase, verifiers, signalled, killed, runVars>>

(* anvil ends on a SIGINT, in its own time. *)
NodeDies(n) ==
  /\ n \in signalled \cap alive
  /\ NodeEnds(n)
  /\ UNCHANGED <<server, managed, phase, verifiers, signalled, killed, runVars>>

(* wait_for_anvil: something answers on the port. *)
Responds ==
  /\ phase = "waiting"
  /\ port # None
  /\ phase' = "deploying"
  /\ UNCHANGED <<server, managed, alive, port, verifiers, signalled, killed,
                 runVars>>

(* deploy_contracts, on whatever node listens. *)
Deploy ==
  /\ phase = "deploying"
  /\ port # None
  /\ verifiers' = [verifiers EXCEPT ![port] = @ \cup {server}]
  /\ phase' = "binding"
  /\ UNCHANGED <<server, managed, alive, port, signalled, killed, runVars>>

(* 100 polls without a good answer, a failed deployment, a bad setting in  *)
(* the environment, port 3001 in use: main exits or panics, after the      *)
(* handle was dropped.                                                     *)
StartFails ==
  /\ phase \in {"waiting", "deploying", "binding"}
  /\ phase' = "down"
  /\ DropHandle
  /\ UNCHANGED <<server, managed, verifiers, signalled, killed, runVars>>

Serve ==
  /\ phase = "binding"
  /\ phase' = "serving"
  /\ UNCHANGED <<server, managed, alive, port, verifiers, signalled, killed,
                 runVars>>

-----------------------------------------------------------------------------
(* Runs.  What a worker does before it asks the chain is not looked at.    *)

Accept(r) ==
  /\ phase = "serving"
  /\ conn[r] = "none"
  /\ conn' = [conn EXCEPT ![r] = "open"]
  /\ worker' = [worker EXCEPT ![r] = "running"]
  /\ UNCHANGED <<chainVars, answer>>

(* What the configured chain can answer: the node that listens, if it has  *)
(* the contract of this server; the chain of others may be away.  When the  *)
(* contract is absent the call's error reads as a rejection with reason     *)
(* "unknown"; so does a contract that returns false, or reverts with an     *)
(* error classify_revert does not know, but that is its verdict.            *)
Answers ==
  IF ~managed THEN {"contract", "absent"}
  ELSE IF port # None /\ server \in verifiers[port] THEN {"contract"}
  ELSE {"absent"}

(* verify_on_chain, which waits for an answer without a limit of time.      *)
Verify(r) ==
  /\ worker[r] = "running"
  /\ worker' = [worker EXCEPT ![r] = "done"]
  /\ \E a \in Answers : answer' = [answer EXCEPT ![r] = a]
  /\ UNCHANGED <<chainVars, conn>>

(* The run fails before it comes to the chain. *)
RunFails(r) ==
  /\ worker[r] = "running"
  /\ worker' = [worker EXCEPT ![r] = "done"]
  /\ UNCHANGED <<chainVars, conn, answer>>

(* The client has read the stream to its end. *)
StreamEnds(r) ==
  /\ conn[r] = "open" /\ worker[r] = "done"
  /\ conn' = [conn EXCEPT ![r] = "ended"]
  /\ UNCHANGED <<chainVars, worker, answer>>

(* The client leaves; the worker does not know yet. *)
Leave(r) ==
  /\ conn[r] = "open"
  /\ conn' = [conn EXCEPT ![r] = "gone"]
  /\ UNCHANGED <<chainVars, worker, answer>>

-----------------------------------------------------------------------------
(* The end of a server. *)

(* At a terminal the node gets the signal too, with `kill` it does not. *)
Signals == {signalled} \cup IF managed THEN {signalled \cup {server}} ELSE {}

(* shutdown_signal; once it has fired another Ctrl-C does nothing to the   *)
(* server, but it still reaches the node.                                  *)
CtrlC ==
  /\ phase \in {"serving", "draining", "exiting"}
  /\ phase' = IF phase = "serving" THEN "draining" ELSE phase
  /\ signalled' \in Signals
  /\ UNCHANGED <<server, managed, alive, port, verifiers, killed, runVars>>

(* A bug: serve is not asked to shut down gracefully. *)
DrainedAtOnce == TRUE

(* A bug: connections whose client has left are waited for as well. *)
DrainedOfAll == \A r \in Runs : conn[r] \notin {"open", "gone"}

(* axum::serve returns once every connection is done. *)
Drained == \A r \in Runs : conn[r] # "open"

ServeReturns ==
  /\ phase = "draining"
  /\ Drained
  /\ phase' = "exiting"
  /\ DropHandle
  /\ UNCHANGED <<server, managed, verifiers, signalled, killed, runVars>>

(* main has returned; the runtime waits for the workers nobody listens to. *)
ProcessExits ==
  /\ phase = "exiting"
  /\ \A r \in Runs : worker[r] # "running"
  /\ phase' = "down"
  /\ UNCHANGED <<server, managed, alive, port, verifiers, signalled, killed,
                 runVars>>

(* SIGKILL, SIGTERM, or a SIGINT that comes before serve listens for it:   *)
(* nothing is dropped; of these the node gets a Ctrl-C typed at a terminal. *)
Kill ==
  /\ MayBeKilled
  /\ phase # "down"
  /\ phase' = "down"
  /\ killed' = TRUE
  /\ conn' = [r \in Runs |-> IF conn[r] = "open" THEN "gone" ELSE conn[r]]
  /\ worker' = [r \in Runs |-> IF worker[r] = "running" THEN "done" ELSE worker[r]]
  /\ signalled' \in IF phase \in {"waiting", "deploying", "binding"}
                    THEN Signals ELSE {signalled}
  /\ UNCHANGED <<server, managed, alive, port, verifiers, answer>>

Worker(r) == Verify(r) \/ RunFails(r)

Next ==
  \/ StartServer \/ StartExternal \/ Responds \/ Deploy \/ StartFails \/ Serve
  \/ \E n \in Nodes : NodeBinds(n) \/ NodeDies(n)
  \/ \E r \in Runs : Accept(r) \/ Worker(r) \/ StreamEnds(r) \/ Leave(r)
  \/ CtrlC \/ ServeReturns \/ ProcessExits \/ Kill

(* main goes on; nobody has to press Ctrl-C, and nothing is asked of a     *)
(* client, of the chain or of the prover.                                  *)
Spec ==
  /\ Init /\ [][Next]_vars
  /\ WF_vars(ServeReturns) /\ WF_vars(ProcessExits)

(* Whatever the run r waits for answers it, the chain in particular.       *)
OthersAnswer(r) == WF_vars(Worker(r))

-----------------------------------------------------------------------------
TypeOK ==
  /\ server \in 0 .. MaxServers
  /\ managed \in BOOLEAN
  /\ phase \in {"down", "waiting", "deploying", "binding", "serving",
                "draining", "exiting"}
  /\ alive \subseteq Nodes
  /\ port \in alive \cup {None}
  /\ verifiers \in [Nodes -> SUBSET Nodes]
  /\ conn \in [Runs -> {"none", "open", "ended", "gone"}]
  /\ worker \in [Runs -> {"none", "running", "done"}]
  /\ answer \in [Runs -> {"none", "contract", "absent"}]
  /\ signalled \subseteq Nodes
  /\ killed \in BOOLEAN

(* A client that stays to the end, be it through a shutdown or on a server *)
(* that found the port taken by the node of a dead one, never gets its     *)
(* proof rejected because the contract was not there (init_managed_anvil       *)
(* deploys after waiting, main drops the handle after serve): only a node  *)
(* that itself got a Ctrl-C, and only the one the contract was deployed    *)
(* on, can be missing.                                                     *)
ConnectedClientsGetAVerdict ==
  [][\A r \in Runs :
       (conn[r] = "open" /\ managed /\ answer[r] # answer'[r] /\ answer'[r] = "absent")
       => \E n \in signalled : server \in verifiers[n]]_vars

(* "Owns a spawned `anvil` child and kills it on drop so a server crash    *)
(* doesn't leave a stray node listening" (chain.rs:97).                    *)
NoStrayNode == phase = "down" => alive = {}

(* Unless a server was killed from outside, no way out of main, be it a    *)
(* failed start or a shutdown, leaves a node behind.                       *)
NoStrayUnlessKilled == ~killed => NoStrayNode

(* A shutdown comes to its end, with runs under way and with workers whose *)
(* clients have left, if the clients that stay read what they are sent (a  *)
(* response nobody reads keeps the server: with_graceful_shutdown) and if  *)
(* every run is answered (chain.rs: no timeout).                           *)
ShutdownCompletes ==
  (\A r \in Runs : OthersAnswer(r) /\ WF_vars(StreamEnds(r))) =>
    (phase = "draining" ~> phase = "down")

=============================================================================
