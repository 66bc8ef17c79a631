----------------------------- MODULE DemoServer -----------------------------
(***************************************************************************)
(* The demo's HTTP server: POST /run (proveno-demo/src/lib.rs) and the     *)
(* pipeline it starts (proveno-demo/src/runner.rs).                        *)
(*                                                                         *)
(* A request takes a permit of the semaphore or is answered 429.  An       *)
(* admitted request gets a bounded channel and a blocking worker thread.   *)
(* The worker owns the permit and the sending half of the channel, walks   *)
(* through the pipeline and announces each stage with a blocking send; the *)
(* HTTP response streams what the receiving half yields.  The client may   *)
(* read at any pace, stop reading, or leave.                               *)
(*                                                                         *)
(* What the pipeline computes is abstracted to whether a piece of work     *)
(* succeeds, fails or panics, and to how many tool calls it made.          *)
(***************************************************************************)
EXTENDS Integers, Sequences, FiniteSets

CONSTANTS
  Requests,      \* the POSTs to /run that may arrive
  MaxRuns,       \* MAX_CONCURRENT_RUNS, or the argument of app_with_max_runs
  ChanCap,       \* the capacity given to mpsc::channel
  MaxToolCalls   \* MAX_TOOL_CALLS, which the VM enforces on a run

FixedEvents == 8 \* what a complete run sends besides its tool calls

(* In the code MaxRuns = 5 (0 in a test), MaxToolCalls = 10, ChanCap = 32. *)
ASSUME ServerAssumption ==
  /\ IsFiniteSet(Requests)
  /\ MaxRuns \in Nat
  /\ MaxToolCalls \in Nat
  /\ ChanCap \in Nat
  /\ ChanCap >= FixedEvents + MaxToolCalls

VARIABLES
  permits,  \* permits left in the semaphore
  conn,     \* the HTTP exchange of each request, as its client sees it
  pc,       \* what the worker of each request does next
  calls,    \* tool calls of the transcript the worker has still to report
  fault,    \* why the worker stopped early: the at_stage of its StageError
  chan,     \* events sent and not yet read
  seen      \* the last event the client has read

vars == <<permits, conn, pc, calls, fault, chan, seen>>

-----------------------------------------------------------------------------
(* The pipeline: the stages it announces and the work between them. *)

(* A worker whose pc is one of these is about to send the event so named. *)
Announcing == {"generating_lua", "lua_ready", "compiling", "executing",
               "tool_call", "proving", "complete", "verifying_on_chain",
               "verified_on_chain", "error"}

Working == {"llm", "compile", "execute", "prove", "verify"}

(* "close" drops the sender, "release" drops the permit. *)
Live == Announcing \cup Working \cup {"close", "release"}

(* Where a worker goes after sending e, n tool calls being left to report. *)
AfterSend(e, n) ==
  CASE e = "generating_lua"     -> "llm"
    [] e = "lua_ready"          -> "compiling"
    [] e = "compiling"          -> "compile"
    [] e = "executing"          -> "execute"
    [] e = "tool_call"          -> IF n > 1 THEN "tool_call" ELSE "proving"
    [] e = "proving"            -> "prove"
    [] e = "complete"           -> "verifying_on_chain"
    [] e = "verifying_on_chain" -> "verify"
    [] OTHER                    -> "close"

(* A bug: the chain is asked before the result is announced. *)
AfterWorkSkipsResult(w, n) ==
  CASE w = "llm"     -> "lua_ready"
    [] w = "compile" -> "executing"
    [] w = "execute" -> IF n > 0 THEN "tool_call" ELSE "proving"
    [] w = "prove"   -> "verifying_on_chain"
    [] w = "verify"  -> "verified_on_chain"

(* Where a worker goes after the work w, which left n tool calls to report. *)
AfterWork(w, n) ==
  CASE w = "llm"     -> "lua_ready"
    [] w = "compile" -> "executing"
    [] w = "execute" -> IF n > 0 THEN "tool_call" ELSE "proving"
    [] w = "prove"   -> "complete"
    [] w = "verify"  -> "verified_on_chain"

(* A bug: what fails before the proof is all blamed on the generator. *)
StageOfBlamesGenerator(w) ==
  CASE w = "prove"  -> "proving"
    [] w = "verify" -> "verifying_on_chain"
    [] OTHER        -> "generating_lua"

(* The at_stage of a StageError raised by the work w. *)
StageOf(w) ==
  CASE w = "llm"     -> "generating_lua"
    [] w = "compile" -> "compiling"
    [] w = "execute" -> "executing"
    [] w = "prove"   -> "proving"
    [] w = "verify"  -> "verifying_on_chain"

(* A bug: the limit on tool calls is tested after the call. *)
TranscriptsOffByOne(w) == IF w = "execute" THEN 0 .. MaxToolCalls + 1 ELSE {0}

(* How many tool calls the work w may have recorded. *)
Transcripts(w) == IF w = "execute" THEN 0 .. MaxToolCalls ELSE {0}

Event(e, at) == [stage |-> e, at |-> at]
Nothing == Event("none", "none")

-----------------------------------------------------------------------------
Init ==
  /\ permits = MaxRuns
  /\ conn  = [r \in Requests |-> "idle"]
  /\ pc    = [r \in Requests |-> "none"]
  /\ calls = [r \in Requests |-> 0]
  /\ fault = [r \in Requests |-> "none"]
  /\ chan  = [r \in Requests |-> <<>>]
  /\ seen  = [r \in Requests |-> Nothing]

(* POST /run with a permit left: the handler starts the worker. *)
Admit(r) ==
  /\ conn[r] = "idle"
  /\ permits > 0
  /\ permits' = permits - 1
  /\ conn' = [conn EXCEPT ![r] = "open"]
  /\ pc' = [pc EXCEPT ![r] = "generating_lua"]
  /\ UNCHANGED <<calls, fault, chan, seen>>

(* A bug: the last permit is never given out. *)
RefuseKeepsOne(r) ==
  /\ conn[r] = "idle"
  /\ permits <= 1
  /\ conn' = [conn EXCEPT ![r] = "refused"]
  /\ UNCHANGED <<permits, pc, calls, fault, chan, seen>>

(* POST /run with no permit left is answered 429. *)
Refuse(r) ==
  /\ conn[r] = "idle"
  /\ permits = 0
  /\ conn' = [conn EXCEPT ![r] = "refused"]
  /\ UNCHANGED <<permits, pc, calls, fault, chan, seen>>

(* blocking_send into a channel somebody still listens to: it waits for room. *)
Send(r) ==
  /\ pc[r] \in Announcing
  /\ conn[r] = "open"
  /\ Len(chan[r]) < ChanCap
  /\ chan' = [chan EXCEPT ![r] = Append(@,
                Event(pc[r], IF pc[r] = "error" THEN fault[r] ELSE "none"))]
  /\ pc' = [pc EXCEPT ![r] = AfterSend(pc[r], calls[r])]
  /\ calls' = [calls EXCEPT ![r] = IF pc[r] = "tool_call" THEN @ - 1 ELSE @]
  /\ UNCHANGED <<permits, conn, fault, seen>>

(* A bug: a failed send of a stage is ignored, as that of an error is. *)
SendIgnoresFailure(r) ==
  /\ pc[r] \in Announcing
  /\ conn[r] # "open"
  /\ pc' = [pc EXCEPT ![r] = AfterSend(pc[r], calls[r])]
  /\ calls' = [calls EXCEPT ![r] = IF pc[r] = "tool_call" THEN @ - 1 ELSE @]
  /\ UNCHANGED <<permits, conn, fault, chan, seen>>

(* blocking_send after the receiver is dropped: the run ends with an error at *)
(* "send", whose own send fails too and is ignored.                           *)
SendFails(r) ==
  /\ pc[r] \in Announcing
  /\ conn[r] # "open"
  /\ IF pc[r] = "error"
     THEN /\ pc' = [pc EXCEPT ![r] = "close"]
          /\ UNCHANGED fault
     ELSE /\ pc' = [pc EXCEPT ![r] = "error"]
          /\ fault' = [fault EXCEPT ![r] = "send"]
  /\ calls' = [calls EXCEPT ![r] = 0]
  /\ UNCHANGED <<permits, conn, chan, seen>>

WorkSucceeds(r) ==
  /\ pc[r] \in Working
  /\ \E n \in Transcripts(pc[r]) :
       /\ calls' = [calls EXCEPT ![r] = n]
       /\ pc' = [pc EXCEPT ![r] = AfterWork(pc[r], n)]
  /\ UNCHANGED <<permits, conn, fault, chan, seen>>

(* A bug: an error is dropped instead of being sent. *)
WorkFailsSilently(r) ==
  /\ pc[r] \in Working
  /\ pc' = [pc EXCEPT ![r] = "close"]
  /\ fault' = [fault EXCEPT ![r] = StageOf(pc[r])]
  /\ UNCHANGED <<permits, conn, calls, chan, seen>>

WorkFails(r) ==
  /\ pc[r] \in Working
  /\ pc' = [pc EXCEPT ![r] = "error"]
  /\ fault' = [fault EXCEPT ![r] = StageOf(pc[r])]
  /\ UNCHANGED <<permits, conn, calls, chan, seen>>

(* A panic unwinds through run_pipeline: no event, then the same drops. *)
WorkPanics(r) ==
  /\ pc[r] \in Working
  /\ pc' = [pc EXCEPT ![r] = "close"]
  /\ fault' = [fault EXCEPT ![r] = "panic"]
  /\ UNCHANGED <<permits, conn, calls, chan, seen>>

(* A bug: the worker stays until its client has taken every event. *)
CloseAfterReader(r) ==
  /\ pc[r] = "close"
  /\ conn[r] = "open" => chan[r] = <<>>
  /\ pc' = [pc EXCEPT ![r] = "release"]
  /\ UNCHANGED <<permits, conn, calls, fault, chan, seen>>

(* run_pipeline returns and drops the sender: the stream can end... *)
Close(r) ==
  /\ pc[r] = "close"
  /\ pc' = [pc EXCEPT ![r] = "release"]
  /\ UNCHANGED <<permits, conn, calls, fault, chan, seen>>

(* ...and only then does the closure around it drop the permit. *)
Release(r) ==
  /\ pc[r] = "release"
  /\ pc' = [pc EXCEPT ![r] = "exited"]
  /\ permits' = permits + 1
  /\ UNCHANGED <<conn, calls, fault, chan, seen>>

-----------------------------------------------------------------------------
(* The response body, and the client at the other end of it. *)

Read(r) ==
  /\ conn[r] = "open"
  /\ chan[r] # <<>>
  /\ seen' = [seen EXCEPT ![r] = Head(chan[r])]
  /\ chan' = [chan EXCEPT ![r] = Tail(@)]
  /\ UNCHANGED <<permits, conn, pc, calls, fault>>

(* A bug: the handler keeps a clone of the sender. *)
SenderKept(r) == FALSE

(* No sender is left, so an empty channel is the end of the stream. *)
SenderDropped(r) == pc[r] \in {"release", "exited"}

EndOfStream(r) ==
  /\ conn[r] = "open"
  /\ chan[r] = <<>>
  /\ SenderDropped(r)
  /\ conn' = [conn EXCEPT ![r] = "ended"]
  /\ UNCHANGED <<permits, pc, calls, fault, chan, seen>>

(* A bug: the response owns the permit, so a client who leaves frees it. *)
LeaveFreesPermit(r) ==
  /\ conn[r] = "open"
  /\ conn' = [conn EXCEPT ![r] = "gone"]
  /\ chan' = [chan EXCEPT ![r] = <<>>]
  /\ permits' = permits + 1
  /\ seen' = [seen EXCEPT ![r] = Nothing]
  /\ UNCHANGED <<pc, calls, fault>>

(* The client goes away: the response and the receiver in it are dropped, and *)
(* with the client what it had seen.                                          *)
Leave(r) ==
  /\ conn[r] = "open"
  /\ conn' = [conn EXCEPT ![r] = "gone"]
  /\ chan' = [chan EXCEPT ![r] = <<>>]
  /\ seen' = [seen EXCEPT ![r] = Nothing]
  /\ UNCHANGED <<permits, pc, calls, fault>>

-----------------------------------------------------------------------------
Worker(r) ==
  \/ Send(r) \/ SendFails(r)
  \/ WorkSucceeds(r) \/ WorkFails(r) \/ WorkPanics(r)
  \/ Close(r) \/ Release(r)

Client(r) == Read(r) \/ EndOfStream(r) \/ Leave(r)

Next == \E r \in Requests : Admit(r) \/ Refuse(r) \/ Worker(r) \/ Client(r)

(* Work that depends on others and that nothing cuts short: the prover, and   *)
(* the chain, whose RPC client is built without a timeout.  The other work    *)
(* ends by itself: the HTTP clients of the LLM and of the tools have timeouts *)
(* and the VM charges gas.                                                    *)
Unbounded == {"prove", "verify"}

(* A worker thread makes its next step once it can, unless it is in unbounded *)
(* work.  Nothing is asked of a client.                                       *)
Spec ==
  /\ Init
  /\ [][Next]_vars
  /\ \A r \in Requests : WF_vars(Worker(r) /\ pc[r] \notin Unbounded)

(* The prover and the chain answer r, be it with a failure.  No part of Spec: *)
(* a chain that accepts the connection and stays silent is not ruled out.     *)
OthersAnswer(r) == WF_vars(Worker(r) /\ pc[r] \in Unbounded)

-----------------------------------------------------------------------------
(* Properties. *)

Stages == Announcing \cup {"none"}
Faults == {"none", "send", "panic", "generating_lua", "compiling", "executing",
           "proving", "verifying_on_chain"}
Events == [stage : Stages, at : Faults]

(* Every variable has its type. *)
TypeOK ==
  /\ permits \in 0 .. MaxRuns
  /\ conn \in [Requests -> {"idle", "open", "ended", "gone", "refused"}]
  /\ pc \in [Requests -> Live \cup {"none", "exited"}]
  /\ calls \in [Requests -> 0 .. MaxToolCalls]
  /\ fault \in [Requests -> Faults]
  /\ chan \in [Requests -> Seq(Events)]
  /\ seen \in [Requests -> Events]

Holders == {r \in Requests : pc[r] \in Live}

(* Every permit is in the semaphore or with exactly one live worker, also when *)
(* clients leave, workers fail or panic: no permit leaks or is doubled         *)
(* (run in lib.rs moves the permit into the worker's closure).                 *)
PermitsConserved == permits + Cardinality(Holders) = MaxRuns

(* A worker never waits for its client: whoever stops reading cannot keep a    *)
(* worker, and its permit, in blocking_send (lib.rs: capacity 32; runner.rs: at *)
(* most 8 + MAX_TOOL_CALLS events).                                            *)
NeverBlocksOnClient ==
  \A r \in Requests : pc[r] \in Announcing => Len(chan[r]) < ChanCap

(* What the page's event handler takes for granted: which stage may come after *)
(* which, with an error only where work was announced (events.rs, app.js).     *)
MayFollow(s) ==
  CASE s = "none"               -> {"generating_lua"}
    [] s = "generating_lua"     -> {"lua_ready", "error"}
    [] s = "lua_ready"          -> {"compiling"}
    [] s = "compiling"          -> {"executing", "error"}
    [] s = "executing"          -> {"tool_call", "proving", "error"}
    [] s = "tool_call"          -> {"tool_call", "proving"}
    [] s = "proving"            -> {"complete", "error"}
    [] s = "complete"           -> {"verifying_on_chain"}
    [] s = "verifying_on_chain" -> {"verified_on_chain", "error"}
    [] OTHER                    -> {}

(* What the client last saw and what is on its way to it. *)
Pending(r) == <<seen[r]>> \o chan[r]

(* The events of a stream come in the order of the pipeline, whatever the      *)
(* interleaving of worker and client, and nothing comes after the last one.    *)
EventOrder ==
  \A r \in Requests : \A i \in 1 .. Len(chan[r]) :
    Pending(r)[i + 1].stage \in MayFollow(Pending(r)[i].stage)

(* An error event names the stage announced just before it, and the error of a *)
(* failed send ("client disconnected") reaches nobody.                         *)
ErrorNamesItsStage ==
  \A r \in Requests : \A i \in 1 .. Len(chan[r]) :
    LET e == Pending(r)[i + 1]
    IN  e.stage = "error" => e.at = Pending(r)[i].stage

(* A client whose stream has ended has been told how the run ended, unless its *)
(* worker panicked (integration.rs: an error event, then a clean close).       *)
EndedStreamIsConclusive ==
  \A r \in Requests :
    conn[r] = "ended" =>
      \/ seen[r].stage = "verified_on_chain"
      \/ seen[r].stage = "error" /\ seen[r].at = fault[r]
      \/ fault[r] = "panic"

(* Once its client has left, a worker may finish the work it is in but starts  *)
(* no other: no proof and no chain call is made for nobody (send in runner.rs).*)
OrphanStartsNoWork ==
  [][\A r \in Requests :
       conn[r] = "gone" /\ pc'[r] \in Working => pc[r] = pc'[r]]_vars

(* The server implements the admission it promises: a request is refused only  *)
(* when every slot is taken, and a slot is given back by its own run alone.    *)
Slots == INSTANCE RunSlots WITH
  fresh   <- {r \in Requests : conn[r] = "idle"},
  active  <- Holders,
  refused <- {r \in Requests : conn[r] = "refused"}

ImplementsRunSlots == Slots!Spec

(* Every admitted run gives its slot back, however slow or absent its client,  *)
(* if the prover and the chain answer it: a run that others keep waiting holds *)
(* its slot, and no other run's, for as long (chain.rs: no timeout).           *)
SlotsComeBack ==
  \A r \in Requests : OthersAnswer(r) => Slots!Returns(r)

(* The stream of a client that keeps reading ends, if the prover and the chain *)
(* answer its run.                                                             *)
ReadStreamEnds ==
  \A r \in Requests :
    OthersAnswer(r) /\ WF_vars(Read(r) \/ EndOfStream(r)) =>
      (conn[r] = "open" ~> conn[r] # "open")

=============================================================================
