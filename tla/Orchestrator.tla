---------------------------- MODULE Orchestrator ----------------------------
(***************************************************************************)
(* The command-line orchestrator (proveno-orchestrator/src/main.rs): ask   *)
(* the LLM for a Lua program, compile it, execute it against the live      *)
(* tools (tools.rs), and on a compile or runtime error ask again with the  *)
(* error in the conversation, until a program succeeds or the attempts are *)
(* used up.  A success is proved if --prove asks for it, and reported.     *)
(* --generate-and-compile measures instead: so many independent runs that  *)
(* end after the compiler, and a histogram of how far they got.            *)
(*                                                                         *)
(* The programs the LLM answers with are numbered in the order they        *)
(* arrive; a source and a proof are known by the number of the answer they *)
(* stem from.  A tool call is kept as the VM's transcript keeps it.  The VM and *)
(* the remote ends of the tools are external: what they do is a choice.    *)
(***************************************************************************)
EXTENDS Integers, Sequences, FiniteSets

CONSTANTS
  MaxRetries,    \* the largest --max-retries considered
  MaxRepeat,     \* the largest --repeat considered
  MaxToolCalls,  \* config.max_tool_calls, which the VM enforces
  Keys, Values,  \* of the tools kv_get and kv_set
  Missing        \* what kv_get returns for a key that is not in the store

(* attempt runs to max_retries + 1, computed in a usize: as here, it does  *)
(* not wrap.                                                               *)
ASSUME OrchestratorAssumption ==
  /\ MaxRetries \in Nat
  /\ MaxToolCalls \in Nat
  /\ MaxRepeat \in Nat
  /\ Missing \notin Values

VARIABLES
  cli,         \* the command line, parsed, and whether it can be served
  pc,          \* what the program does next
  attempt,     \* the loop variable of main
  messages,    \* the conversation sent to the LLM
  answers,     \* programs generated so far; llm_query's answers are not among them
  usage,       \* total_usage, in generations
  source,      \* the program of this attempt
  kv,          \* the store of this attempt's LiveHost
  transcript,  \* the tool calls of this execution
  posted,      \* (history) the attempts of which a POST has left the machine
  proof,       \* what prove_artifacts is about, 0 if there are none
  outcomes,    \* what became of the runs of --generate-and-compile
  stdout,      \* the pieces written to standard output
  report,      \* what the last of them says
  exit         \* how the process ended

llmVars == <<messages, answers, usage>>
hostVars == <<kv, transcript, posted>>
outVars == <<stdout, report>>
vars == <<cli, pc, attempt, llmVars, source, hostVars, proof, outcomes,
          outVars, exit>>

-----------------------------------------------------------------------------
(* An option that may be missing is a sequence of at most one value.  A    *)
(* command line is usable if its policy loads, its provider is known and   *)
(* that provider's key is there.                                           *)
Options == [maxRetries : 0 .. MaxRetries, generateOnly : BOOLEAN,
            generateAndCompile : BOOLEAN,
            repeat : {<<>>} \cup {<<n>> : n \in 0 .. MaxRepeat},
            prove : BOOLEAN, knownBackend : BOOLEAN, allowsPost : BOOLEAN,
            json : BOOLEAN, usable : BOOLEAN]

(* The task, an answer of the LLM, and what is wrong with an answer. *)
Task == [role |-> "user", about |-> 0, error |-> "none"]
Said(n) == [role |-> "assistant", about |-> n, error |-> "none"]
Feedback(n, e) == [role |-> "user", about |-> n, error |-> e]

(* A call as the transcript has it.  A call that failed, of whatever tool, *)
(* is a "failed"; http_get and time_now are an "ask": they answer from     *)
(* outside and keep nothing on this machine.                               *)
Tools == {"kv_get", "kv_set", "http_post", "llm_query", "ask", "failed"}
NoKey == "no_key"
Call(tool, key, value) == [tool |-> tool, key |-> key, value |-> value]
Other(tool) == Call(tool, NoKey, Missing)

EmptyStore == [k \in Keys |-> Missing]
NoReport == [source |-> 0]

Exit(how) ==
  /\ pc' = "exited"
  /\ exit' = how

WriteOut(piece) == stdout' = Append(stdout, piece)

Init ==
  /\ cli \in Options
  /\ pc = "start"
  /\ attempt = 1
  /\ messages = <<>>
  /\ answers = 0
  /\ usage = 0
  /\ source = 0
  /\ kv = EmptyStore
  /\ transcript = <<>>
  /\ posted = {}
  /\ proof = 0
  /\ outcomes = <<>>
  /\ stdout = <<>>
  /\ report = NoReport
  /\ exit = "none"

-----------------------------------------------------------------------------
(* --generate-and-compile goes before everything else the line asks for.   *)

BadRepeat == IF cli.generateAndCompile THEN cli.repeat = <<0>>
                                       ELSE cli.repeat # <<>>

StartFails ==
  /\ pc = "start"
  /\ ~cli.usable \/ BadRepeat
  /\ Exit("usage")
  /\ UNCHANGED <<cli, attempt, llmVars, source, hostVars, proof, outcomes, outVars>>

Start ==
  /\ pc = "start"
  /\ cli.usable /\ ~BadRepeat
  /\ IF cli.generateAndCompile
     THEN pc' = "batch" /\ UNCHANGED messages
     ELSE pc' = "generate" /\ messages' = <<Task>>
  /\ UNCHANGED <<cli, attempt, answers, usage, source, hostVars, proof, outcomes,
                 outVars, exit>>

(* client.generate answers; --generate-only prints the source and is done. *)
Generate ==
  /\ pc = "generate"
  /\ answers' = answers + 1
  /\ usage' = usage + 1
  /\ source' = answers + 1
  /\ IF cli.generateOnly
     THEN /\ WriteOut("program")
          /\ report' = [source |-> answers + 1]
          /\ Exit("ok")
     ELSE /\ pc' = "compile"
          /\ UNCHANGED <<outVars, exit>>
  /\ UNCHANGED <<cli, attempt, messages, hostVars, proof, outcomes>>

(* An error of the LLM client, an empty answer too, is not retried. *)
GenerateFails ==
  /\ pc = "generate"
  /\ Exit("llm_error")
  /\ UNCHANGED <<cli, attempt, llmVars, source, hostVars, proof, outcomes, outVars>>

(* A bug: one retry is lost. *)
RetryOffByOne(e) ==
  /\ IF attempt < cli.maxRetries
     THEN /\ attempt' = attempt + 1
          /\ messages' = messages \o <<Said(answers), Feedback(source, e)>>
          /\ pc' = "generate"
          /\ UNCHANGED exit
     ELSE /\ Exit("exhausted")
          /\ UNCHANGED <<attempt, messages>>
  /\ UNCHANGED <<cli, answers, usage, source, hostVars, proof, outcomes, report>>

(* A bug: the answer itself is left out of the conversation. *)
RetryForgetsAnswer(e) ==
  /\ IF attempt <= cli.maxRetries
     THEN /\ attempt' = attempt + 1
          /\ messages' = Append(messages, Feedback(source, e))
          /\ pc' = "generate"
          /\ UNCHANGED exit
     ELSE /\ Exit("exhausted")
          /\ UNCHANGED <<attempt, messages>>
  /\ UNCHANGED <<cli, answers, usage, source, hostVars, proof, outcomes, report>>

(* A bug: one attempt too many. *)
RetryOnceMore(e) ==
  /\ IF attempt <= cli.maxRetries + 1
     THEN /\ attempt' = attempt + 1
          /\ messages' = messages \o <<Said(answers), Feedback(source, e)>>
          /\ pc' = "generate"
          /\ UNCHANGED exit
     ELSE /\ Exit("exhausted")
          /\ UNCHANGED <<attempt, messages>>
  /\ UNCHANGED <<cli, answers, usage, source, hostVars, proof, outcomes, report>>

(* After the error e: ask again if an attempt is left, else give up. *)
Retry(e) ==
  /\ IF attempt <= cli.maxRetries
     THEN /\ attempt' = attempt + 1
          /\ messages' = messages \o <<Said(answers), Feedback(source, e)>>
          /\ pc' = "generate"
          /\ UNCHANGED exit
     ELSE /\ Exit("exhausted")
          /\ UNCHANGED <<attempt, messages>>
  /\ UNCHANGED <<cli, answers, usage, source, hostVars, proof, outcomes, report>>

(* A bug: the host outlives the attempt. *)
CompileKeepsHost ==
  /\ pc = "compile"
  /\ pc' = "execute"
  /\ transcript' = <<>>
  /\ UNCHANGED <<cli, attempt, llmVars, source, kv, posted, proof, outcomes,
                 outVars, exit>>

(* A bug: the transcript is that of all the attempts. *)
CompileKeepsTranscript ==
  /\ pc = "compile"
  /\ pc' = "execute"
  /\ kv' = EmptyStore
  /\ UNCHANGED <<cli, attempt, llmVars, source, transcript, posted, proof, outcomes,
                 outVars, exit>>

(* compile_and_verify succeeds: execution starts on a LiveHost of its own. *)
Compile ==
  /\ pc = "compile"
  /\ pc' = "execute"
  /\ kv' = EmptyStore
  /\ transcript' = <<>>
  /\ UNCHANGED <<cli, attempt, llmVars, source, posted, proof, outcomes,
                 outVars, exit>>

(* A program that does not parse is printed; one that does not compile or  *)
(* verify is not.                                                          *)
CompileFails ==
  /\ pc = "compile"
  /\ \/ Retry("parse") /\ WriteOut("program")
     \/ Retry("compile") /\ UNCHANGED stdout

-----------------------------------------------------------------------------
(* Execution: the program calls tools, then returns or fails. *)

(* The VM records a call, if the program has calls left. *)
Record(call) ==
  /\ pc = "execute"
  /\ Len(transcript) < MaxToolCalls
  /\ transcript' = Append(transcript, call)
  /\ UNCHANGED <<cli, pc, attempt, llmVars, source, proof, outcomes, outVars, exit>>

KvSet(k, v) ==
  /\ Record(Call("kv_set", k, v))
  /\ kv' = [kv EXCEPT ![k] = v]
  /\ UNCHANGED posted

KvGet(k) ==
  /\ Record(Call("kv_get", k, kv[k]))
  /\ UNCHANGED <<kv, posted>>

(* Whether the policy of the run, if there is one, lets a POST through. *)
Allowed == cli.allowsPost

(* A bug: the host adds what llm_query cost to the report's total. *)
LlmQueryBilled ==
  /\ pc = "execute"
  /\ Len(transcript) < MaxToolCalls
  /\ transcript' = Append(transcript, Other("llm_query"))
  /\ usage' = usage + 1
  /\ UNCHANGED <<cli, pc, attempt, messages, answers, source, kv, posted, proof,
                 outcomes, outVars, exit>>

(* The program asks the LLM itself, outside the conversation.  The answer  *)
(* is billed like any other, but its usage is dropped.                     *)
LlmQuery ==
  /\ Record(Other("llm_query"))
  /\ UNCHANGED <<kv, posted>>

Ask ==
  /\ Record(Other("ask"))
  /\ UNCHANGED <<kv, posted>>

(* A POST is sent; its answer may time out or be unusable. *)
HttpPost ==
  /\ Allowed
  /\ \E outcome \in {"http_post", "failed"} : Record(Other(outcome))
  /\ posted' = posted \cup {attempt}
  /\ UNCHANGED kv

(* Any call may fail without an effect: refused by the policy, wrong      *)
(* arguments, unknown tool, no connection.  The program may catch it with *)
(* pcall and go on.                                                       *)
CallFails ==
  /\ Record(Other("failed"))
  /\ UNCHANGED <<kv, posted>>

(* The slice that limits a response to 1 MB may panic. *)
ToolPanics ==
  /\ pc = "execute"
  /\ Len(transcript) < MaxToolCalls
  /\ Exit("panic")
  /\ posted' \in {posted, IF Allowed THEN posted \cup {attempt} ELSE posted}
  /\ UNCHANGED <<cli, attempt, llmVars, source, kv, transcript, proof, outcomes,
                 outVars>>

Execute ==
  /\ pc = "execute"
  /\ pc' = IF cli.prove THEN "prove" ELSE "report"
  /\ UNCHANGED <<cli, attempt, llmVars, source, hostVars, proof, outcomes,
                 outVars, exit>>

(* An error nobody caught, or a limit of the VM. *)
ExecuteFails ==
  /\ pc = "execute"
  /\ Retry("runtime")
  /\ UNCHANGED stdout

-----------------------------------------------------------------------------
(* A bug: a proof that cannot be made counts as a failed attempt. *)
ProveFailureRetries ==
  /\ pc = "prove"
  /\ cli.knownBackend
  /\ Retry("prove")
  /\ UNCHANGED stdout

(* The artifacts are built, or it is reported that they are not. *)
Prove ==
  /\ pc = "prove"
  /\ cli.knownBackend
  /\ pc' = "report"
  /\ proof' \in {0, source}
  /\ UNCHANGED <<cli, attempt, llmVars, source, hostVars, outcomes, outVars, exit>>

(* A bug: the unknown name is complained about and looked at again. *)
UnknownBackendRepeats ==
  /\ pc = "prove"
  /\ ~cli.knownBackend
  /\ UNCHANGED vars

(* The name of the backend is looked at only now. *)
UnknownBackend ==
  /\ pc = "prove"
  /\ ~cli.knownBackend
  /\ Exit("unknown_backend")
  /\ UNCHANGED <<cli, attempt, llmVars, source, hostVars, proof, outcomes, outVars>>

Report ==
  /\ pc = "report"
  /\ report' = [source |-> source, transcript |-> transcript,
                attempts |-> attempt, usage |-> usage, proof |-> proof]
  /\ WriteOut(IF cli.json THEN "json" ELSE "text")
  /\ Exit("ok")
  /\ UNCHANGED <<cli, attempt, llmVars, source, hostVars, proof, outcomes>>

-----------------------------------------------------------------------------
(* --generate-and-compile: runs with a conversation of their own each, of  *)
(* which none is retried and none ends the batch.                          *)

Runs == IF cli.repeat = <<>> THEN 1 ELSE cli.repeat[1]
Stages == {"generate", "parse", "compile", "verify", "compiled"}
Outcome(stage, of) == [stage |-> stage, source |-> of]

(* A bug: the runs go on with one conversation. *)
BatchRunKeepsTalking ==
  /\ pc = "batch"
  /\ Len(outcomes) < Runs
  /\ \/ /\ outcomes' = Append(outcomes, Outcome("generate", 0))
        /\ UNCHANGED <<answers, usage, messages>>
     \/ /\ \E stage \in Stages \ {"generate"} :
             outcomes' = Append(outcomes, Outcome(stage, answers + 1))
        /\ answers' = answers + 1
        /\ usage' = usage + 1
        /\ messages' = Append(messages, Task)
  /\ UNCHANGED <<cli, pc, attempt, source, hostVars, proof, outVars, exit>>

BatchRun ==
  /\ pc = "batch"
  /\ Len(outcomes) < Runs
  /\ messages' = <<Task>>
  /\ \/ /\ outcomes' = Append(outcomes, Outcome("generate", 0))
        /\ UNCHANGED <<answers, usage>>
     \/ /\ \E stage \in Stages \ {"generate"} :
             outcomes' = Append(outcomes, Outcome(stage, answers + 1))
        /\ answers' = answers + 1
        /\ usage' = usage + 1
  /\ UNCHANGED <<cli, pc, attempt, source, hostVars, proof, outVars, exit>>

(* A bug: a failed generation is not counted. *)
GeneratedOnly(list) ==
  LET upTo[i \in 0 .. Len(list)] ==
        IF i = 0 THEN [stage \in Stages |-> 0]
        ELSE IF list[i].stage = "generate" THEN upTo[i - 1]
        ELSE [upTo[i - 1] EXCEPT ![list[i].stage] = @ + 1]
  IN  upTo[Len(list)]

FromOutcomes(list) ==
  LET upTo[i \in 0 .. Len(list)] ==
        IF i = 0 THEN [stage \in Stages |-> 0]
        ELSE [upTo[i - 1] EXCEPT ![list[i].stage] = @ + 1]
  IN  upTo[Len(list)]

Total(hist) == hist["generate"] + hist["parse"] + hist["compile"]
                 + hist["verify"] + hist["compiled"]

BatchReport ==
  /\ pc = "batch"
  /\ Len(outcomes) = Runs
  /\ LET hist == FromOutcomes(outcomes) IN
     report' = [source |-> 0, histogram |-> hist, total |-> Total(hist)]
  /\ WriteOut(IF cli.json THEN "json" ELSE "text")
  /\ Exit("ok")
  /\ UNCHANGED <<cli, attempt, llmVars, source, hostVars, proof, outcomes>>

Next ==
  \/ Start \/ StartFails
  \/ Generate \/ GenerateFails
  \/ Compile \/ CompileFails
  \/ \E k \in Keys : KvGet(k) \/ \E v \in Values : KvSet(k, v)
  \/ LlmQuery \/ Ask \/ HttpPost \/ CallFails \/ ToolPanics
  \/ Execute \/ ExecuteFails
  \/ Prove \/ UnknownBackend
  \/ Report
  \/ BatchRun \/ BatchReport

(* The calls of the LLM and of the tools time out, the VM charges gas for  *)
(* what a program does: the process always takes another step.             *)
Spec == Init /\ [][Next]_vars /\ WF_vars(Next)

-----------------------------------------------------------------------------
Calls == [tool : Tools, key : Keys \cup {NoKey}, value : Values \cup {Missing}]

TypeOK ==
  /\ cli \in Options
  /\ pc \in {"start", "generate", "compile", "execute", "prove", "report",
             "batch", "exited"}
  /\ attempt \in 1 .. cli.maxRetries + 1
  /\ messages \in Seq([role : {"user", "assistant"}, about : Nat,
                       error : {"none", "parse", "compile", "runtime"}])
  /\ answers \in Nat /\ usage \in Nat /\ source \in Nat
  /\ kv \in [Keys -> Values \cup {Missing}]
  /\ transcript \in Seq(Calls) /\ Len(transcript) <= MaxToolCalls
  /\ posted \subseteq 1 .. cli.maxRetries + 1
  /\ proof \in Nat
  /\ report \in [source : Nat]
       \cup [source : Nat, transcript : Seq(Calls), attempts : Nat,
             usage : Nat, proof : Nat]
       \cup [source : {0}, histogram : [Stages -> 0 .. Runs],
             total : 0 .. Runs]
  /\ outcomes \in Seq([stage : Stages, source : Nat])
  /\ stdout \in Seq({"program", "json", "text"})
  /\ exit \in {"none", "usage", "ok", "llm_error", "exhausted", "panic",
               "unknown_backend"}

(* The conversation has, after the task, one answer and one complaint for  *)
(* each attempt that failed, in order, and the complaint is about that     *)
(* answer (messages.push at the two `continue`s of main's loop).           *)
ConversationMatchesAttempts ==
  messages # <<>> /\ ~cli.generateAndCompile =>
  /\ Len(messages) = 2 * attempt - 1
  /\ messages[1] = Task
  /\ \A n \in 1 .. attempt - 1 :
       /\ messages[2 * n] = Said(n)
       /\ messages[2 * n + 1] \in {Feedback(n, e) : e \in {"parse", "compile", "runtime"}}

(* The calls before the i-th which set the key that the i-th is about. *)
Writes(t, i) ==
  {j \in 1 .. i - 1 : t[j].tool = "kv_set" /\ t[j].key = t[i].key}

(* Whether the i-th call returned what the last call that set its key gave *)
(* it, or nothing if no call had set it.                                   *)
Replays(t, i) ==
  \/ Writes(t, i) = {} /\ t[i].value = Missing
  \/ \E j \in Writes(t, i) :
       /\ t[i].value = t[j].value
       /\ \A k \in Writes(t, i) : k <= j

(* What kv_get returned follows from the transcript alone: an execution    *)
(* starts from an empty store, though the attempts before it had stores of *)
(* their own (LiveHost::new inside the loop).  A verifier has nothing but  *)
(* the transcript to make sense of the run.                                *)
TranscriptReplays ==
  \A i \in DOMAIN transcript :
    transcript[i].tool = "kv_get" => Replays(transcript, i)

(* What is printed is about one attempt, the last: its program, the calls  *)
(* of its execution, a proof of it or none.  Only the tokens are of all    *)
(* the attempts: of the generations, each counted once, and of nothing     *)
(* else; what the programs spent with llm_query is not in the total        *)
(* (PipelineResult, total_usage in main, tool_llm_query).                  *)
ReportIsOfOneAttempt ==
  report # NoReport /\ ~cli.generateOnly /\ ~cli.generateAndCompile =>
    /\ report.source = answers
    /\ report.transcript = transcript
    /\ report.attempts = answers
    /\ report.usage = answers
    /\ report.proof \in {0, answers}
    /\ cli.prove \/ report.proof = 0

(* The process exits with 0 exactly when it has printed a report, and it   *)
(* says "all attempts exhausted" only after max_retries + 1 answers.       *)
GivesUpOnlyWhenExhausted ==
  /\ exit = "ok" <=> report # NoReport
  /\ exit = "exhausted" => answers = cli.maxRetries + 1

Made == {transcript[i].tool : i \in DOMAIN transcript}

(* An execution under way, or one that the report is about. *)
Executed ==
  \/ pc \in {"execute", "prove", "report"}
  \/ exit = "ok" /\ ~cli.generateOnly /\ ~cli.generateAndCompile

(* The transcript accounts for the POSTs of its own attempt and of no      *)
(* other: if it shows one that was answered, this attempt has sent it; if  *)
(* this attempt has sent one, it is there, answered or failed.  A retry    *)
(* may send again what the failed attempt had sent, and nothing that is    *)
(* printed or proved tells (main's loop: a new transcript each time).      *)
PostsAreOnRecord ==
  Executed =>
    /\ "http_post" \in Made => attempt \in posted
    /\ attempt \in posted => Made \cap {"http_post", "failed"} # {}

(* The runs of a batch do not disturb each other: every one asks with the  *)
(* task alone, a run that failed leaves the next its own answer, and       *)
(* nothing is executed (generate_and_compile: "no retry feedback can       *)
(* contaminate the signal").                                               *)
BatchRunsAreIndependent ==
  cli.generateAndCompile =>
    /\ messages \in {<<>>, <<Task>>}
    /\ \A i \in DOMAIN outcomes : outcomes[i].stage # "generate" =>
         outcomes[i].source =
           Cardinality({j \in 1 .. i : outcomes[j].stage # "generate"})
    /\ transcript = <<>> /\ posted = {}

(* Every run asked for is in the histogram once, under the stage it ended  *)
(* in, whatever failed (StageHistogram::from_outcomes and total).          *)
HistogramAddsUp ==
  report # NoReport /\ cli.generateAndCompile =>
    /\ report.total = Runs
    /\ \A stage \in Stages : report.histogram[stage] =
         Cardinality({i \in DOMAIN outcomes : outcomes[i].stage = stage})

(* With --json a successful run prints one document and nothing else       *)
(* ("Print output as JSON", main.rs:28); --generate-only prints Lua.       *)
JsonIsAllThatIsPrinted ==
  exit = "ok" /\ cli.json /\ ~cli.generateOnly => stdout = <<"json">>

Succeeded == pc \in {"prove", "report"}

(* An execution that succeeded is final: whatever becomes of the proof, no *)
(* other program is asked for or run, so no effect of it is repeated.      *)
SuccessIsFinal ==
  [][Succeeded =>
       /\ pc' \in {"prove", "report", "exited"}
       /\ UNCHANGED <<answers, source, transcript, posted>>]_vars

(* The process ends, whatever the LLM and the tools do; the proving, which *)
(* has no limit of time, is taken to return.                               *)
Terminates == <>(pc = "exited")

=============================================================================
