# A TLA+ model of proveno-orchestrator and its demo

The repository asks an LLM for a Lua program, runs it against live tools in a
deterministic VM, and proves the run. It has two programs: a command line
(`proveno-orchestrator`) and a web demo (`proveno-demo`: a server, a page and a
local chain), and beside them the code with which a guest re-verifies the TLS
certificates of the answers its tools got (`src/tls`). This directory models the control
of all three, in six groups of modules. The Lua compiler, the VM and the provers are dependencies that live in
other repositories; the models take from them only what this code relies on.

```
                    LLM, tools' remote ends, compiler, VM        (external)
                       |                          |
  ProofArtifacts <- Orchestrator              DemoServer -- implements --> RunSlots
  (--prove: files,   (the retry loop,          (POST /run: permits,
   child, policy)     conversation, tools)      workers, event streams)
                                                  |            |
  Attestation                                  DemoPage     ChainNode
  (re-verified records, their hash)            (app.js,     (anvil, start,
        | EXTENDS                               EXTENDS      shutdown, signals)
  SubjectAltName                                DemoServer)
  (names of a certificate)
```

`Orchestrator` and `ProofArtifacts` meet at one step: `Prove` of the former, with
its two outcomes, is a whole run of the latter. `DemoServer` and `ChainNode` meet at
the work "verify". `DemoPage` contains the server and adds the page. `Attestation`
stands by itself: the repository has the code, and the guest that calls it is elsewhere.

## Inventory

| part (source) | state | operations | hard about it | what makes it correct |
|---|---|---|---|---|
| Demo server (`proveno-demo/src/lib.rs`, `runner.rs`, `events.rs`) | semaphore of `MAX_CONCURRENT_RUNS`; a worker thread, a bounded channel and a response stream for each admitted request | `POST /run` admits or answers 429; the worker sends events with `blocking_send`, works, fails or panics; the client reads, stops reading or leaves | threads against slow or vanished clients; what is dropped, and in which order; a full channel | permits are conserved; nobody who stops reading holds a worker; events are in order; a stream ends with a verdict; no work is begun for a client who left |
| Orchestrator (`main.rs`, `tools.rs`, `llm.rs`, `pipeline.rs`) | conversation, loop variable, token total, the `LiveHost` of the attempt with its key-value store, transcript, artifacts | generate, compile, execute with tool calls, retry, prove, report | failure of any step; state that must not outlive its attempt; effects on the world (POST) that a retry repeats | conversation, store, transcript and report are those of the right attempt; the transcript accounts for the POSTs of its own attempt; a success is final; the process ends |
| Proof artifacts (`prove.rs`) | three files in an output directory, a proof file, a policy file, a child process | write the files, let the child read and prove, read them back, replay; or prove in-process (Noir) | nothing is locked, nothing is written atomically, the policy is loaded three times; kills, which the child survives; a directory that was used before | what a run reports is about its own program, transcript and policy |
| Demo page (`static/app.js`) | the button, six rows and their timers, a banner, the panels | submit, read loop, `handleEvent`, ticker | overlapping read loops that write to the same elements; streams that end early | what stands side by side belongs together; the page comes to rest |
| Chain (`proveno-demo/src/chain.rs`, `main.rs`) | the anvil child, the port, the deployed verifier; the phase of `main` | spawn, wait, deploy, serve, verify, shut down, drop | start that fails half-way, shutdown with runs under way, signals, a port that is taken | connected clients are not told that a contract is missing; the node does not outlive the server; a shutdown ends |
| TLS chain and attestation hash (`src/src/tls`) | none kept between calls; an index along the chain, a position in the leaf's SubjectAltName | verify a chain, read the names, re-verify records, encode and hash them | index boundaries, lengths of DER in a `usize` of 32 or 64 bits, wildcards, keys of several kinds, what a prover merely claims | a record is verified exactly if it is genuine; the hash is over the genuine keys; the walk ends |
| Telemetry of `--generate-and-compile` (`pipeline.rs`, `main.rs`) | the outcomes of a batch | independent runs, histogram | a run that fails amid others | the runs do not disturb each other; every one is counted once |
| Public inputs, prompts, benchmarks, scripts, examples | none | text and conversions | – | – |

All but the last row are modelled (telemetry as part of `Orchestrator`); the last row is
listed under "Not modelled".

## Conventions

* Programs, transcripts and files are known by the number or the name of the run
  or attempt they stem from. "The report is about the right attempt" is then an
  equation between two numbers.
* Whatever an external part does is a choice between its outcomes: success,
  failure, and panic where the code can panic.
* Definitions preceded by the comment "A bug: ..." are no part of the
  specifications. Each is a plausible mistake in the definition below it and
  is used to see that a property notices it.
* Variables marked *(history)* do not exist in the code: `met` of
  `ProofArtifacts`, `posted` of `Orchestrator`, `killed` of `ChainNode`, `current`,
  `overlapped` and `lastClick` of `DemoPage`.
  No guard reads them.
* The proofs about a module `M` are in `MProofs`, for every value of the constants that
  `M`'s assumption allows. A property is seldom inductive; "What is proved" says what
  was added to it and why.
* An MC module and its `.cfg` make an instance for TLC. `CHECK_DEADLOCK FALSE`
  is given where the system may really stop: all requests served, the process
  exited, all servers ended.

## DemoServer, RunSlots, DemoServerProofs

`DemoServer` has one action per step that another thread can see. `Admit` and `Refuse`
are the handler `run` of `lib.rs`: `try_acquire_owned`, then a channel, a worker and
an open stream, or 429. `pc[r]` is the place of the worker in `run_pipeline_inner`:
a name in `Announcing` means that the worker is about to send the event of that
name, a name in `Working` that it is in a long call. `Send` is a `blocking_send`
that finds room and a listener (with a full channel it is not enabled: the thread
waits), `SendFails` one whose receiver is gone. `WorkSucceeds`, `WorkFails` and
`WorkPanics` are the outcomes of a call. `Close` and `Release` are the two drops at
the end, in the order of the code: the sender inside `run_pipeline`, then the
permit. A client can therefore see its stream end and post again before the permit is
back, and be refused; `RunSlots` allows this, for a run gives its slot back only by
its own step. `Read`, `EndOfStream` and `Leave` belong to the client.

`calls[r]` counts the tool calls still to be reported: the VM has executed them
all before the first is sent, so they are a replay of the transcript.

| property | says |
|---|---|
| `TypeOK` | types; `permits` is at most `MaxRuns` |
| `PermitsConserved` | permits in the semaphore plus live workers is `MaxRuns` |
| `NeverBlocksOnClient` | a worker that is about to send finds room, whatever the client reads |
| `EventOrder` | what was read last and what is on its way follow the pipeline's order |
| `ErrorNamesItsStage` | an error names the stage announced just before it; the "client disconnected" error reaches nobody |
| `EndedStreamIsConclusive` | a stream that ended told the client how, unless the worker panicked |
| `OrphanStartsNoWork` | after the client left, a worker starts no further work |
| `ImplementsRunSlots` | refinement of `RunSlots`: a request is refused only when all slots are taken, and only a run itself gives its slot back |
| `SlotsComeBack` | an admitted run gives its slot back, however slow or absent its client, if the prover and the chain answer it |
| `ReadStreamEnds` | the stream of a client that keeps reading ends, if the prover and the chain answer its run |

Fairness: weak, on the steps of each worker but those out of `Unbounded`, the calls of the prover and
of the chain. Other work ends by itself: the HTTP clients of the LLM and of the tools have timeouts
and the VM charges gas. `verify_on_chain` builds its RPC provider without a timeout, and nothing
limits the prover; a chain that accepts the connection and never answers keeps the worker, its permit
and its stream, and this is a behaviour of the model. Both liveness properties are about runs for
which the missing part is given, as a premise: `OthersAnswer(r)`, weak fairness of r's worker out of
`Unbounded`. The premise is per run: one that is kept waiting keeps no other run's slot.
Nothing is assumed of a client; `ReadStreamEnds` has the reading of the one client it speaks
of in its premise too.

Run `server`: two requests, one permit, up to two tool calls and a channel of exactly
`FixedEvents + MaxToolCalls` = 10, the least the assumption permits (in the code:
32, for 8 + 10). The runs meet only at the semaphore, so this is the smallest instance in which one runs, another is
refused, and a permit comes back and is reused, also while the former holder's stream is still being read.
More requests and permits are left to the proofs, which are about any number of them. No symmetry, because
liveness is checked.

### What is proved

`DemoServerProofs` proves for every finite set of requests, every number of permits and of tool
calls and every channel of at least `FixedEvents + MaxToolCalls` places
(`ServerAssumption`; the code's numbers satisfy it):

* `TypeCorrect`, `PermitsAreConserved`, `WorkersNeverBlock`, `StreamsAreOrdered`,
  `ErrorsNameTheirStage`, `EndedStreamsAreConclusive`: the invariants above;
* `OrphansStartNoWork`: the action property;
* `ImplementsAdmission`: the refinement, every step of the server is a step of `RunSlots` or a stutter.

None of the invariants but the first is inductive. The argument goes through four
strengthenings:

1. `Base` is types with `permits` only a natural number, and `Linked`: which
   requests have workers, when tool calls are left, that only open streams hold
   events. It is inductive by itself.
2. `PermitsConserved` on top of `Base`. `Admit` adds one element to the set of
   live workers and `Release` removes one (`HoldersStep`), and the library's
   theorems on cardinality do the rest. Only now does `permits <= MaxRuns` follow,
   and with it `TypeOK`.
3. `Budget`: at each place of the pipeline at most `MostSent(pc)` events have been
   put in the channel, and those plus the calls left never exceed it. That the
   sum stays within the capacity is what makes `NeverBlocksOnClient` true.
4. `Streams`: what is in the channel is chained by `MayFollow`, and the last event
   is one after which the worker's place is *due* (`Due`). From it follow the
   order, the stage of the errors, and the conclusive end.

Every invariant is first proved of `Safety`, the specification without its fairness:
the page's system satisfies `Safety` as well, and its proofs cite these lemmas.
`ImplementsAdmission` is the whole of `ImplementsRunSlots`, which is a safety property. Liveness
(`SlotsComeBack`, `ReadStreamEnds`) is checked by TLC only.

## Orchestrator, OrchestratorProofs, Induction

The variables are those of `main` and of the objects it owns; `pc` is the place in it.
`cli` is the parsed command line with what decides whether it can be served (policy file,
provider, key); `StartFails` is every way it is refused. With `--generate-and-compile`,
`BatchRun` and `BatchReport` take the place of the loop: each run asks with the task
alone and ends in one of five stages, and the histogram is folded from the outcomes. `stdout`
lists what is printed on standard output, piece by piece.

In the loop, `Retry(e)` is what stands at both `continue`s: the answer and the
complaint are pushed if another attempt follows, else the process gives up.
`Compile` creates the `LiveHost` (an empty store, an empty transcript) inside the loop.
During an execution the program makes calls: `KvSet`, `KvGet`, `HttpPost`, `LlmQuery`
(an answer of the same LLM as the loop's, whose usage `tools.rs` drops), `Ask` (tools that keep
nothing here), `CallFails`, and `ToolPanics` for the slice at 1 MB that
may fall inside a character. The policy either allows POSTs or does not; that is what
can be told apart here. `posted` *(history)* has the attempts of which a POST has left the machine,
answered or not.

| property | says |
|---|---|
| `ConversationMatchesAttempts` | after the task, one answer and one complaint per failed attempt, in order and about that answer |
| `TranscriptReplays` | what `kv_get` returned follows from the transcript alone, though earlier attempts had stores too |
| `ReportIsOfOneAttempt` | program, transcript and proof of a report are those of the last attempt; its tokens are those of the generations of all attempts, each once. What `llm_query` cost is in no report |
| `GivesUpOnlyWhenExhausted` | exit 0 exactly with a report; "exhausted" only after `max_retries + 1` answers |
| `PostsAreOnRecord` | the transcript of an attempt shows an answered POST only if this attempt sent one, and if it sent one it is there, answered or failed. That a retry repeats what a failed attempt sent is possible and on no record |
| `BatchRunsAreIndependent` | each run of a batch asks with the task alone, has its own answer whatever failed before it, and executes nothing |
| `HistogramAddsUp` | every run that was asked for is counted once, under the stage it ended in |
| `SuccessIsFinal` | after a success nothing is generated or executed again, whatever becomes of the proof |
| `Terminates` | the process ends |

Run `orchestrator`: every command line with up to two retries, up to three calls
per execution, one key and two values, batches of none to three runs. Three runs are enough for
a failure before, between and after others. Two retries give a first, a middle and a
last attempt; three calls give a set, another set and a get. `attempt` is taken not to wrap
(`max_retries` would have to be the largest `usize`). Fairness: weak on `Next`. The clients of the LLM
(300 s) and of the tools (30 s) have timeouts and the VM has gas; the proving that `--prove` asks for has no
limit and is taken to return, so `Terminates` says nothing of a prover that hangs.

### What is proved

`OrchestratorProofs` proves for every number of retries, of measured runs and of tool calls,
and for all keys and values (`OrchestratorAssumption`: the three numbers are naturals, and the
answer of `kv_get` for a missing key is no value): `ConversationsMatch`, `GivesUpWhenExhausted`,
`ReportsAreOfOneAttempt`, `SuccessesAreFinal`, `PostsOnRecord`, `TranscriptsReplay`,
`BatchesAreIndependent`, `HistogramsAddUp` and `TypesHold`; each states the property in the table that its name recalls. The strengthenings:

1. `Control`, inductive by itself: where the process can be with which command line (`Places`), that in
   the middle of an attempt the answers, the attempt and the source are one number (`Counts`), and
   that artifacts are built only after a success (`Proved`). `SuccessesAreFinal` follows from it at once.
2. `Conversation`: `messages` is a sequence of turns, empty before the task. A failed attempt appends
   two (`RetryContinues`), and `Counts` says that they are about its own answer.
3. `Verdict`: what the exit and the report say, inductive relative to `Control`.
   `Posts` says of the POSTs what `PostsAreOnRecord` says, and that no attempt to come has sent one:
   that is why an empty transcript, at `Compile`, is in order.
4. `Stored`: `kv[k]` is what the last `kv_set` of `k` in the transcript wrote. Each new call either
   moves that last write or reads it; `Compile` resets both sides together.
5. `Batch`: `answers` is the number of runs so far that got a program, and the source of each such run
   is that number at its time. A run appends one outcome (`GeneratedAfterAppend`).

6. `Measured`: once a batch has reported, the histogram is that of all its outcomes. That the
   fold counts every outcome once (`HistogramCounts`), and that the bins sum to the number of runs
   (`CountsAddUp`), is induction over the number of outcomes; `TypeOK` needs it too, for its bound on the histogram.

What a recursive function computes needs induction over its argument. The library's induction
theorems take a predicate as a parameter, which the provers do not instantiate, so
`Induction` says them of sets: a set of numbers that has 0 and the successor of each of its
numbers is all of `Nat` (`AllNumbers`, by way of `LeastNumber`, from the
well-foundedness of inclusion between finite sets). `Steps(f, N, V, b, g)` says that `f`
is what starts with `b` and goes on along `0 .. N` by the table `g`; there is such an `f`
(`StepsExist`), two agree as far as their tables do (`StepsAgree`), and one more step extends
it (`OneMoreStep`). The models' recursive functions are instances.

`Terminates` is liveness and stays with TLC.

## ProofArtifacts, ProofArtifactsProofs

A run goes through `prove.rs` one system call at a time: `Open` truncates a file,
`Fill` completes it, `KilledWriting` leaves half of it. `Spawn` starts the
OpenVM child and `Collect` takes its result. `ChildReads`, `ChildProves` and `ChildFails` are the child, a
process of its own that loads the files and the policy for itself: `Command::output` waits for it,
but a kill of the run does not end it, so it may read the directory and write its proof file while
later runs are under way (`Orphan`). `ReadDry`,
`ReadCompiled` and `Replay` are the run reading back; `ProveNoir` is the in-process
backend. `Fails` is an error at any step. `EditPolicy` is somebody editing the file.
Runs may share the directory, in turn or at once.

| property | says |
|---|---|
| `UndisturbedReportIsTrue` | if nobody else used the directory meanwhile, public inputs and proof are about this run; if also nobody edited the policy, OpenVM's commit the policy that was enforced |
| `ReportedFilesAreOfTheRun` | when the artifacts are returned, the files are this run's, whatever an earlier run or a kill left, unless another run was active there; and the proof file holds the proof that is reported, unless the child of a killed run was still at work there when this run started |

Run `proof_artifacts`: two runs, one directory, Noir and both levels of OpenVM, one edit of the
policy. A second run may start beside the first, after it, or beside the child it left. Two runs
suffice because a file remembers only who wrote it last; a second directory would
separate them. No fairness: nothing limits the proving, and the properties are about what
is reported, if it is. The two OpenVM levels (`app`, `stark`) leave
their proofs in files of different names; what else distinguishes them is inside the child.

### What is proved

`ProofArtifactsProofs` proves for any runs, directories and policy versions, any of the three
backends and any number of edits (`ArtifactsAssumption`; the contents of a file that nobody wrote to the
end are not the name of a run): `TypeCorrect`, `UndisturbedReportsAreTrue` and, as an
action property, `ReportedFilesAreOwn`. The property says only what holds at the end. What makes it hold is:

1. `Branches`: which backend visits which places.
2. `Exclusive`: two runs that are active in one directory have met, both of them know it.
   This is what lets a write of another run be disregarded: it is in another directory, or the run is
   not undisturbed.
3. `Children`: a child is started once, and a run that has collected it is behind it, so an active run whose
   child is running waits for it. A child writes proof files and nothing else, and by `Exclusive` a run has
   met the children of runs that were killed before it started.
4. `PolicyKept`: as long as nobody edits it, the policy file holds what `main` loaded, so the child and
   the replay load the same.
5. `Undisturbed(r)`, for a run that met no other run: the files it has completed are its own and the one it
   has open is empty (`OwnFiles`), and what it has read back, had proved and reported is about its own
   program and calls (`OwnView`, `OwnProof`, `OwnReport`), under its own policy if it met nobody
   at all. Each system call moves one of these from the disk to the view, from the view to the proof
   file, or from there to the report.

## DemoPage, DemoPageProofs

`DemoPage` extends `DemoServer`: each step of the server is a step of the page's system,
and the steps of the client are now the page's. `page` has what the page shows;
`of` says which run each element is about. `ResetUI`, `SetStep`, `Handle`, `OnError`,
`OnComplete`, `OnVerified` are the functions of `app.js` with these names or its cases.
`LoopEnds` covers the normal end of the read loop and a read that rejects, which
nothing catches. A user may submit at any time, for Enter does not look at the disabled
button; `overlapped` remembers which runs were not over at the last submission. `Attack` is a click on an
attack button. Each click starts a timeout of its own: `pending` has those the browser holds, `attackTimers` the
one that `app.js` remembers for each row and clears at the next click or reset, and `AttackTimeout` is one that
runs and takes the mark of its row away, whichever click it is of.

| property | says |
|---|---|
| `OnlyOverlapsMix` | what is shown is of the last run, or of one that was not over when it was submitted |
| `RowsAdvanceInOrder` | if nothing overlaps, a row is touched only when the one before it is done |
| `ResultStandsByItsHashes` | whatever overlaps: a success banner stands beside the hashes of the same run |
| `RestsWhenAllIsTold` | whatever overlaps: once all the streams have ended by themselves the button is enabled, no row is active, the interval can stop |
| `MarksLastTheirTime` | a row is marked as tampered with exactly as long as the timeout of the last click on it runs: an earlier click's, or one from before a reset, never takes the mark away |

Run `page`: two requests, one permit, one tool call, one row to attack (timeouts of different rows do not
touch each other) and two clicks (`MaxClicks`), at once or before and after a second submission: two clicks are what
it takes for one timeout to meet the mark of another click. One permit still lets two streams overlap
in every way, for a channel holds a whole run and its reader may be slow. No fairness
is needed, as these are invariants. What is *not* true is not claimed: who submits while a run is
on can see a note of one run in another's banner, and a panic of the worker leaves the button
disabled (listed as hazards).

### What is proved

`DemoPageProofs` proves all six for every finite set of requests, every number of permits and tool calls,
every channel the server's assumption allows, any attack buttons and any number of clicks (`PageAssumption`:
no request is called `NoRun`, the limit of clicks is a number): `PageTypeCorrect`, `OnlyOverlapsMixOnThePage`, `PageComesToRest`,
`ResultsStandByTheirHashes`, `RowsAreInOrder`, `MarksKeepTheirTime`.

`PageIsServer` shows that the page's system satisfies the server's `Safety`, so that the order of events
and the conclusive end of a stream, proved there, can be used: what the page shows is right
only because events arrive in the pipeline's order. Then `PageInv`:

1. `Fetches`: a run that is not over is the last one or among those it overlapped with; `OnlyOverlapsMix`
   is inductive with it.
2. `WaitsForCurrent`: a disabled button and a hidden banner wait for the result of the run that was
   submitted last, whatever other streams do in between. An earlier run's event can only enable the button
   too early, never leave it disabled.
3. `RowsWait`: an active row was made active by the last event of some stream, or the stream broke.
   With 2 and the server's `EndedStreamIsConclusive` this gives `RestsWhenAllIsTold`.
4. `RowsFollow`: as long as nothing overlaps, the rows are a function (`RowsAt`) of the last event of
   the last run, and in order.
5. `ShownBelongs`: the banner with its hashes, the running times with the active rows; the marks:
   a pending timeout is the one that is remembered for its row, clicks have numbers of their own, and so the last
   click's timeout is the only one that can be pending. Here nothing about the server is needed.

The effect of `handleEvent` is first tabulated event by event (`HandleTable` and the lemmas before it),
so that these five are proved from the table and not from nested updates of a record.

## ChainNode, ChainNodeProofs

`phase` is the place in `main`: waiting for the port, deploying, binding port 3001, serving, draining,
exiting. All the nodes want port 38545; a node that cannot bind it ends. `Responds` and
`Deploy` reach *whatever* listens there. `DropHandle` is `AnvilHandle::drop`, part of each way out of
`main`; `Kill` is a signal without a handler and drops nothing. A Ctrl-C typed at a terminal
reaches the server and its node, which share a process group, and one sent with `kill` only the
server: `CtrlC` and an early `Kill` choose, `signalled` holds the nodes that got it, and such a
node may end at any time (`NodeDies`), even under the next server. With `RPC_URL` set
(`StartExternal`) there is no node and no handle, and the chain of others may or may not
answer. Workers are reduced to what
matters here: running, then done, with an answer of the contract or with the contract absent. (The page shows
"unknown" for an absent contract, but also for a live one that answers false, `chain.rs:337-341`, or reverts
with what `classify_revert` does not know; the model tells the two apart, a page cannot.)

| property | says |
|---|---|
| `ConnectedClientsGetAVerdict` | a client that stays finds no contract only if the node the contract is on got a Ctrl-C itself; a shutdown, a dead server's node on the port, or a failed start never cause it |
| `NoStrayUnlessKilled` | no way out of `main` leaves a node behind |
| `ShutdownCompletes` | after Ctrl-C the server ends, if the clients that stay read and every run is answered |

Run `chain_node`: three servers, two runs, kills. Three, so that a stray node meets a second
server and what that leaves meets a third. Fairness: weak on the two steps of
`main` that shut down. Nobody has to press Ctrl-C, and nothing is asked of clients or workers: that the clients
that stay read, and that every run is answered (`OthersAnswer`; the chain's RPC client has no timeout and the
prover no limit), is in the premise of `ShutdownCompletes`. Without it a shutdown can hang, and does in the model. `conn[r]` of an accepted run never returns to "none": requests are not
reused, so a run belongs to one server. A node ends by a
signal or because another has its port; it does not crash by itself.

### What is proved

`ChainNodeProofs` proves for any runs and any number of servers, killed or not
(`ChainAssumption`): `TypeCorrect`, `NoStraysUnlessKilled` and, as an action property,
`ClientsGetAVerdict`. `Inv` adds to the types:

1. `Numbered`: a process that is up has a number among `Nodes`.
2. `OwnNodeOnly`: unless a server was killed, the one node that can be alive is that of the server
   that is up, and only until it has dropped its handle. `NoStrayUnlessKilled` is the case of nobody being up.
3. `Deployed`: from the deployment on, the node that has the server's contract also has the port, unless
   it got a Ctrl-C. The node need not be the server's own: if a stray one had the port, the
   contract is on the stray one, and the server's node, which cannot bind, does not matter.
4. `ConnectedToServer`: a client is connected only while the server serves or drains.

3 and 4 give `ConnectedClientsGetAVerdict`: the step that tells a connected client
"absent" is one at which no node with its contract has the port. `ShutdownCompletes` is liveness.

## SubjectAltName, Attestation, SubjectAltNameProofs, AttestationProofs

`Attestation` walks a list of records as `reverify_attestations` does, one certificate and one
SAN entry at a time: `BeginRecord` are the early returns, `CheckLink` and `CheckAnchor` the
two parts of `verify_p256_chain`, `OpenSan`, `SanNext`, `SanMatches` and `SanEnds` the
loop of `san_contains_hostname`, `Hash` is `compute_tls_attestation_hash`. A failing
record is answered by `Unavailable`, nothing of it being kept. `SubjectAltName` has the DER reader
(`DerReadLength`, `DerReadTlv`, `DerInner`) on bytes, `DnsNameMatches` on bytes, and, written in
another way, as a relation between lists of labels, the names a certificate is good for
(`GoodFor`). A certificate is a record of what the parser finds; the key its
signature is valid under is one of the fields; the sponge is one to one, so a hash is known by
what was hashed.

| property | says |
|---|---|
| `OnlyTheGenuineAttest` | a record comes out verified exactly if chain, host and names deserve it (said without the order of the checks), in its place of the list, whatever the prover claimed |
| `HashIsOfGenuineKeys` | what is hashed are the readable P-256 keys of the genuine chains, each once, in order |
| `DistinctRecordsEncodeApart` | different records, none of whose parts is longer than a `u32` can say (`Fits`), have different attestation bytes |
| `NeverPanics` | the reader never slices out of range, neither at the wrapper of an extension nor at an entry |
| `Answers` | every list is answered, however damaged a SAN is |

Run `attestation`: a byte has 16 values, which leaves room for short and long lengths, the
length forms the code refuses, a dot, a star and two cases of a letter. Chains of up to three of eleven
certificates (leaf, issuers with P-256, P-384 and RSA keys, undecodable key, compressed key, wrong signature
algorithm, cross-signed root, one that does not parse): a chain of three has a first, a middle and a
last certificate, and a fourth would be another middle. Hosts and patterns of one and two labels, some of three, empty
labels included; lists of one or two SAN entries in every length form, cut short by up to five bytes and
with damaged wrappers; up to three records. In this run a `usize`
is wider than four octets with their header (`Wide`: 64 bits, the host). A `u32` has four values, so that some hosts
are too long for their length and others fit. Fairness: weak on `Next`, as these are plain function calls;
a panic has no next step.

Two runs show what the doc comments of `verify.rs` say and the code does not do: `guest_word` (a `usize` of
four octets, as in the zkVM guest) and `issuers`; see Findings. `OnlyTheGenuineAttest` and
`HashIsOfGenuineKeys` are stated for what the code accepts and hashes: chains whose *leaf* is P-256, and the
P-256 keys of all certificates, which is less than is promised.

### What is proved

The assumptions are on the encoding and on what is handed over, and the code's values satisfy them.
`SanAssumption`: a length byte has room for the five forms, a `usize` for every length of four octets
(32 bits or more), the two tags differ, a star is no dot, and lower case makes no other byte a dot.
`AttestationAssumption`: a `u32` has some values; a list is of records whose chains are what `from_der` makes
of bytes, so that two certificates of the same bytes are the same; the roots are keys; and a host
is not the one empty label, which has the bytes of no host. Chains, lists of names, hosts and lists
of records have any length, with extensions up to the 64 kB that two length octets can count. What a
certificate's fields mean stays modelled: signatures, the X.509 parser and the sponge are libraries.

`SubjectAltNameProofs` proves three things about bytes.

* `DnsMatchesAreCovers`: `dns_name_matches`, which looks for the first dot in the bytes of a name, says
  exactly what `Covers` says of the labels. Two names without dots in their labels have
  the same bytes up to case exactly if the labels are, one by one; a wildcard takes the place of the bytes
  up to the first dot.
* `SanIsRead` and `NextEntryIsRead`: the reader finds in the bytes of an extension the
  entries that were written, one after the other, up to the first that is cut short or has a length
  in a form it refuses, and finds nothing there. This needs 32 bits only: what is written is
  never long enough to wrap.
* `WideReaderNeverPanics`: where `Wide` holds, no string of bytes whatever makes `der_read_tlv` or
  `der_inner` slice out of range.

`AttestationProofs` proves:

* `GenuineAttest` (`OnlyTheGenuineAttest`). `Inv` says that each answer is the verdict on its record
  (`Answered`), that the record in hand has passed the checks in front of the next one (`Begun`, `LinkedTo`,
  `Anchored`), and that within an extension the position is just behind the first `k` entries, all of them
  readable and none of them matching (`Passed`). When a check fails, the record fails `Genuine`, which is
  said without an order; when the last one succeeds, it is `Genuine` (`TrustedIsChecked`, `GenuineIsChecked`).
* `TypesOfAttestation` (`TypeOK`), and `ReaderNeverPanics` (`NeverPanics`), which is conditional on `Wide`: with the
  guest's 32 bits it is false.
* `GenuineKeysAreHashed` (`HashIsOfGenuineKeys`). The code appends keys, chain by chain; the property says which
  key stands at which place. The proof counts: an element is at the place that is the number of
  readable ones up to it.
* `RecordsEncodeApart` (`DistinctRecordsEncodeApart`): each part of a record's bytes that `Fits` has its length in front, uncut, so
  the parts can be told apart from the left (`PrefixedApart`), certificate by certificate (`DersApart`), and a
  host's labels from its bytes (`HostsApart`).

They use `Induction`: along the labels of a name, the entries of an extension, a chain and a list.
`Answers` is liveness.

## Findings

Runs that are expected to end in a violation; each checks what a comment of the code says.

| run | says | does |
|---|---|---|
| `policy_drift` | `main.rs:97`: the policy is resolved once, as loading it twice is how enforcement and commitment drift apart | the child and the replay load it again: an edit in between is committed, not enforced |
| `stale_proof` | `prove.rs:18`: `program.lua` lies beside the artifacts so that a proof does not lose its program | a later run that fails to prove replaces the source and leaves the old proof |
| `json_stdout` | `main.rs:28`: `--json` is "Print output as JSON" | a program that does not parse is printed on standard output as well, before the JSON of the attempt that succeeds |
| `guest_word` | `verify.rs:25`: "Returns `false` on any parse error"; `docs/tls-attestation.md:80`: "no panic" | with the guest's 32-bit `usize`, `1 + header_len + len` wraps for a length close to 2^32, and the slice panics (a bug; a `usize` of 64 bits is proved safe) |
| `issuers` | `verify.rs:21`, `mod.rs:54`, `docs/tls-attestation.md:9-11`: all signatures are by P-256 keys | only the leaf must be P-256; issuers may have P-384 or RSA keys |
| `stray_node` | `chain.rs:97`: a crash of the server leaves no stray node | SIGTERM and SIGKILL do, and SIGINT before the server serves |

Where the code and a comment or a document disagree on more than these runs show:

* `main.rs:68` says that `--policy` is enforced "and commit its hash". The Noir backend is given no policy
  (`main.rs:334`): its proofs commit zeros, which is in `ProveNoir`, and `EnforcedPolicyIsCommitted` fails for every
  Noir run with a policy. `prove.rs:236` and `chain.rs:245` know of it.
* `docs/tls-attestation.md:47-49` says that the hash commits the leaf's `not_after`; the hash is over keys only, as
  `docs/tls-attestation.md:36` and `mod.rs:23` say, and as `HashIsOfGenuineKeys` states it.
* `mod.rs:134` says that distinct records cannot share an encoding. The three lengths are written `as u32`, which cuts
  those of 4 GiB and more; `DistinctRecordsEncodeApart` is about records whose parts are shorter.
* `mod.rs:66` speaks of a zero hash for an unavailable record; the hash of no keys is `EmptyHash`, the
  sponge of an empty input.

## Not modelled

* In `src/tls`: cryptography, the X.509 parser and the list of roots are libraries; the
  time is not checked by the code, only reported.
* `public_inputs.rs`, the hexadecimal conversions of `prove.rs`, formatting in
  `pipeline.rs`, `prompt.rs`: text and conversions on which no behaviour depends.
* The copy buttons and presets of the page, its formatting, the split of the byte stream into events.
* Headers and bodies of the HTTP tools, beyond whether a call succeeds, fails or panics.
* `bin/bench.rs`, `bench/`, `examples/`, the `demo-*.sh` scripts (not runnable at this
  commit, as the repository's README says).
* Compiler, VM, replay, provers, anvil: other repositories.

## What stays with TLC

Every invariant and every action property of the runs that pass is a theorem (`NeverPanics` for a wide
`usize`, which is that of its run), and so is the refinement `ImplementsRunSlots`. Five properties are only
model-checked, all because they are liveness, which the prover does not treat: `SlotsComeBack`,
`ReadStreamEnds`, `Terminates`, `ShutdownCompletes` and `Answers`. The findings
are counterexamples of small instances and need no proof.

## Plan

* State what a tool's request becomes on the wire (`tools.rs`: headers, caps on bodies) as far as a
  transcript depends on it, and compose it with `Orchestrator`.
* The gas and memory of an attempt, if the VM's interface comes to be described in this repository.
* Proofs for what these add, beside the component as the others are.
