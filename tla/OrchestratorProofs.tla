------------------------- MODULE OrchestratorProofs -------------------------
(***************************************************************************)
(* Proofs about Orchestrator for every number of retries, of repeated runs *)
(* and of tool calls, and for all keys and values of the store.            *)
(***************************************************************************)
EXTENDS Orchestrator, Induction

(* Where the process is, how many answers it has, and what it cannot have  *)
(* printed yet: in the middle of an attempt the answers, the attempt and   *)
(* the source are one number.                                              *)
Places ==
  /\ pc \in {"start", "generate", "compile", "execute", "prove", "report",
             "batch", "exited"}
  /\ pc # "exited" => exit = "none" /\ report = NoReport
  /\ cli.generateAndCompile => pc \in {"start", "batch", "exited"}
  /\ pc = "batch" => cli.generateAndCompile
  /\ pc = "prove" => cli.prove

Counts ==
  /\ cli.maxRetries \in Nat
  /\ attempt \in 1 .. cli.maxRetries + 1
  /\ answers \in Nat
  /\ usage = answers
  /\ pc = "start" => answers = 0 /\ attempt = 1
  /\ pc = "generate" => answers = attempt - 1
  /\ pc \in {"compile", "execute", "prove", "report"} =>
       answers = attempt /\ source = attempt

(* Artifacts are built only after a success, and are about its source.     *)
Proved ==
  /\ pc \in {"start", "generate", "compile", "execute", "prove"} => proof = 0
  /\ pc = "report" => proof \in {0, source} /\ (cli.prove \/ proof = 0)

Control == Places /\ Counts /\ Proved

USE DEF Exit, WriteOut, llmVars, hostVars, outVars, NoReport

LEMMA ControlInit == Init => Control
BY OrchestratorAssumption DEF Init, Options, Control, Places, Counts, Proved

LEMMA ControlStep == Control /\ [Next]_vars => Control'
<1> SUFFICES ASSUME Control, [Next]_vars PROVE Control'
  OBVIOUS
<1> USE DEF Control, Places, Counts, Proved
<1>1. CASE Start
  BY <1>1 DEF Start
<1>2. CASE StartFails
  BY <1>2 DEF StartFails
<1>3. CASE Generate
  BY <1>3 DEF Generate
<1>4. CASE GenerateFails
  BY <1>4 DEF GenerateFails
<1>5. CASE Compile
  BY <1>5 DEF Compile
<1>6. CASE CompileFails \/ ExecuteFails
  BY <1>6 DEF CompileFails, ExecuteFails, Retry
<1>7. CASE \E k \in Keys : KvGet(k) \/ \E v \in Values : KvSet(k, v)
  BY <1>7 DEF KvGet, KvSet, Record
<1>8. CASE LlmQuery \/ Ask \/ HttpPost \/ CallFails
  BY <1>8 DEF LlmQuery, Ask, HttpPost, CallFails, Record
<1>9. CASE ToolPanics
  BY <1>9 DEF ToolPanics
<1>10. CASE Execute
  BY <1>10 DEF Execute
<1>11. CASE Prove
  BY <1>11 DEF Prove
<1>12. CASE UnknownBackend
  BY <1>12 DEF UnknownBackend
<1>13. CASE Report
  BY <1>13 DEF Report
<1>14. CASE BatchRun
  BY <1>14 DEF BatchRun
<1>15. CASE BatchReport
  BY <1>15 DEF BatchReport
<1>16. CASE UNCHANGED vars
  BY <1>16 DEF vars
<1>17. QED
  BY <1>1, <1>2, <1>3, <1>4, <1>5, <1>6, <1>7, <1>8, <1>9, <1>10, <1>11,
     <1>12, <1>13, <1>14, <1>15, <1>16 DEF Next

LEMMA ControlInvariant == Spec => []Control
BY ControlInit, ControlStep, PTL DEF Spec

-----------------------------------------------------------------------------
(* The conversation: `messages` of main.                                   *)

Complaints == {"parse", "compile", "runtime"}
Turns == {Task} \cup {Said(n) : n \in Nat}
           \cup {Feedback(n, e) : n \in Nat, e \in Complaints}

Conversation ==
  /\ messages \in Seq(Turns)
  /\ ~cli.generateAndCompile /\ pc = "start" => messages = <<>>
  /\ ~cli.generateAndCompile /\ pc \notin {"start", "exited"} => messages # <<>>
  /\ ConversationMatchesAttempts

LEMMA PushTwo ==
  ASSUME NEW S, NEW s \in Seq(S), NEW a \in S, NEW b \in S
  PROVE  /\ s \o <<a, b>> \in Seq(S)
         /\ Len(s \o <<a, b>>) = Len(s) + 2
         /\ \A i \in 1 .. Len(s) : (s \o <<a, b>>)[i] = s[i]
         /\ (s \o <<a, b>>)[Len(s) + 1] = a
         /\ (s \o <<a, b>>)[Len(s) + 2] = b
OBVIOUS

(* The two pushes before an attempt: as many turns as that attempt needs,  *)
(* and the earlier ones as they were.                                      *)
LEMMA RetryContinues ==
  ASSUME Control, Conversation, ~cli.generateAndCompile,
         pc \in {"compile", "execute"}, NEW e \in Complaints, Retry(e)
  PROVE  messages' \in Seq(Turns) /\ ConversationMatchesAttempts'
<1> DEFINE t == messages \o <<Said(attempt), Feedback(attempt, e)>>
<1>1. /\ answers = attempt /\ source = attempt
      /\ attempt \in Nat \ {0}
      /\ cli.maxRetries \in Nat
  BY DEF Control, Counts
<1>2. /\ messages \in Seq(Turns) /\ messages # <<>>
      /\ ConversationMatchesAttempts
  BY DEF Conversation
<1>3. /\ Len(messages) = 2 * attempt - 1
      /\ messages[1] = Task
      /\ \A n \in 1 .. attempt - 1 :
           /\ messages[2 * n] = Said(n)
           /\ messages[2 * n + 1] \in {Feedback(n, x) : x \in Complaints}
  BY <1>2 DEF ConversationMatchesAttempts, Complaints
<1>4. CASE attempt <= cli.maxRetries
  <2>1. messages' = t /\ attempt' = attempt + 1 /\ cli' = cli
    BY <1>1, <1>4 DEF Retry
  <2>2. Said(attempt) \in Turns /\ Feedback(attempt, e) \in Turns
    BY <1>1 DEF Turns
  <2>3. /\ t \in Seq(Turns)
        /\ Len(t) = 2 * attempt - 1 + 2
        /\ \A i \in 1 .. 2 * attempt - 1 : t[i] = messages[i]
        /\ t[2 * attempt - 1 + 1] = Said(attempt)
        /\ t[2 * attempt - 1 + 2] = Feedback(attempt, e)
    <3> HIDE DEF t
    <3>1. /\ t \in Seq(Turns)
          /\ Len(t) = Len(messages) + 2
          /\ \A i \in 1 .. Len(messages) : t[i] = messages[i]
          /\ t[Len(messages) + 1] = Said(attempt)
          /\ t[Len(messages) + 2] = Feedback(attempt, e)
      BY <1>2, <2>2, PushTwo DEF t
    <3>2. QED
      BY <1>3, <3>1
  <2> HIDE DEF t
  <2>4. /\ Len(t) = 2 * attempt + 1
        /\ t[2 * attempt] = Said(attempt)
        /\ t[2 * attempt + 1] = Feedback(attempt, e)
        /\ t[1] = Task
    <3>1. /\ 2 * attempt - 1 + 1 = 2 * attempt
          /\ 2 * attempt - 1 + 2 = 2 * attempt + 1
          /\ 1 \in 1 .. 2 * attempt - 1
      BY <1>1
    <3>2. QED
      BY <1>3, <2>3, <3>1
  <2>5. ASSUME NEW n \in 1 .. attempt
        PROVE  /\ t[2 * n] = Said(n)
               /\ t[2 * n + 1] \in {Feedback(n, x) : x \in Complaints}
    <3>1. CASE n = attempt
      BY <2>4, <3>1
    <3>2. CASE n # attempt
      <4>1. /\ n \in 1 .. attempt - 1
            /\ 2 * n \in 1 .. 2 * attempt - 1
            /\ 2 * n + 1 \in 1 .. 2 * attempt - 1
        BY <1>1, <3>2
      <4>2. QED
        BY <1>3, <2>3, <4>1
    <3>3. QED
      BY <3>1, <3>2
  <2>6. /\ Len(t) = 2 * (attempt + 1) - 1
        /\ attempt + 1 - 1 = attempt
    BY <1>1, <2>4
  <2>7. Len(messages') = 2 * attempt' - 1
    BY <2>1, <2>6
  <2>8. messages'[1] = Task
    BY <2>1, <2>4
  <2>9. ASSUME NEW n \in 1 .. attempt' - 1
        PROVE  /\ messages'[2 * n] = Said(n)
               /\ messages'[2 * n + 1]
                    \in {Feedback(n, x) : x \in {"parse", "compile", "runtime"}}
    <3>1. n \in 1 .. attempt
      BY <1>1, <2>1
    <3>2. /\ t[2 * n] = Said(n)
          /\ t[2 * n + 1] \in {Feedback(n, x) : x \in Complaints}
      BY <2>5, <3>1
    <3>3. QED
      BY <2>1, <3>2, Zenon DEF Complaints
  <2>10. QED
    BY <2>1, <2>3, <2>7, <2>8, <2>9 DEF ConversationMatchesAttempts
<1>5. CASE ~(attempt <= cli.maxRetries)
  BY <1>2, <1>5 DEF Retry, ConversationMatchesAttempts
<1>6. QED
  BY <1>4, <1>5

LEMMA ConversationStep ==
  Control /\ Conversation /\ [Next]_vars => Conversation'
<1> SUFFICES ASSUME Control, Conversation, [Next]_vars PROVE Conversation'
  OBVIOUS
<1> USE DEF Control, Places, Counts, Conversation
<1>1. CASE Start
  <2>1. CASE cli.generateAndCompile
    BY <1>1, <2>1 DEF Start, ConversationMatchesAttempts
  <2>2. CASE ~cli.generateAndCompile
    <3>1. /\ messages' = <<Task>> /\ attempt' = 1 /\ cli' = cli
          /\ pc' = "generate"
      BY <1>1, <2>2 DEF Start
    <3>2. /\ <<Task>> \in Seq(Turns) /\ <<Task>> # <<>>
          /\ Len(<<Task>>) = 1 /\ <<Task>>[1] = Task
      BY DEF Turns
    <3>3. ConversationMatchesAttempts'
      BY <3>1, <3>2 DEF ConversationMatchesAttempts
    <3>4. QED
      BY <3>1, <3>2, <3>3
  <2>3. QED
    BY <2>1, <2>2
<1>2. CASE BatchRun
  <2>1. Task \in Turns
    BY DEF Turns
  <2>2. QED
    BY <1>2, <2>1 DEF BatchRun, ConversationMatchesAttempts
<1>3. ASSUME NEW e \in Complaints, Retry(e), pc \in {"compile", "execute"}
      PROVE  Conversation'
  <2>1. messages' \in Seq(Turns) /\ ConversationMatchesAttempts'
    BY <1>3, RetryContinues
  <2>2. cli' = cli /\ pc' \in {"generate", "exited"}
    BY <1>3 DEF Retry
  <2>3. pc' = "generate" => messages' # <<>>
    <3>1. ASSUME pc' = "generate" PROVE Len(messages') # 0
      BY <1>3, <3>1 DEF Retry, ConversationMatchesAttempts
    <3>2. QED
      BY <3>1
  <2>4. QED
    BY <2>1, <2>2, <2>3
<1>4. CASE CompileFails
  BY <1>3, <1>4 DEF CompileFails, Complaints
<1>5. CASE ExecuteFails
  BY <1>3, <1>5 DEF ExecuteFails, Complaints
<1>6. CASE StartFails \/ Generate \/ GenerateFails \/ Compile
  BY <1>6 DEF StartFails, Generate, GenerateFails, Compile, ConversationMatchesAttempts
<1>7. CASE \E k \in Keys : KvGet(k) \/ \E v \in Values : KvSet(k, v)
  BY <1>7 DEF KvGet, KvSet, Record, ConversationMatchesAttempts
<1>8. CASE LlmQuery \/ Ask \/ HttpPost \/ CallFails \/ ToolPanics
  BY <1>8 DEF LlmQuery, Ask, HttpPost, CallFails, ToolPanics, Record, ConversationMatchesAttempts
<1>9. CASE Execute \/ Prove \/ UnknownBackend \/ Report \/ BatchReport
  BY <1>9 DEF Execute, Prove, UnknownBackend, Report, BatchReport,
     ConversationMatchesAttempts
<1>10. CASE UNCHANGED vars
  BY <1>10 DEF vars, ConversationMatchesAttempts
<1>11. QED
  BY <1>1, <1>2, <1>4, <1>5, <1>6, <1>7, <1>8, <1>9, <1>10 DEF Next

(* After the task the conversation has one answer and one complaint about  *)
(* it for each failed attempt, in order (messages.push in main's loop).    *)
THEOREM ConversationsMatch == Spec => []ConversationMatchesAttempts
<1>1. Init => Conversation
  BY DEF Init, Conversation, ConversationMatchesAttempts
<1>2. Conversation => ConversationMatchesAttempts
  BY DEF Conversation
<1>3. QED
  BY <1>1, <1>2, ConversationStep, ControlInvariant, PTL DEF Spec

-----------------------------------------------------------------------------
(* What the process prints and how it ends.                                *)

(* When it has printed a report, and what that says. *)
Verdict ==
  /\ GivesUpOnlyWhenExhausted
  /\ ReportIsOfOneAttempt

LEMMA VerdictStep ==
  Control /\ Verdict /\ [Next]_vars => Verdict'
<1> SUFFICES ASSUME Control, Verdict, [Next]_vars PROVE Verdict'
  OBVIOUS
<1> USE DEF Control, Places, Counts, Verdict, GivesUpOnlyWhenExhausted,
            ReportIsOfOneAttempt
<1>1. CASE Generate
  BY <1>1 DEF Generate
<1>2. CASE CompileFails \/ ExecuteFails
  BY <1>2 DEF CompileFails, ExecuteFails, Retry
<1>3. CASE Report
  <2>1. /\ report' = [source |-> source, transcript |-> transcript,
                      attempts |-> attempt, usage |-> usage, proof |-> proof]
        /\ exit' = "ok"
        /\ UNCHANGED <<cli, answers, transcript>>
        /\ pc = "report"
    BY <1>3 DEF Report
  <2>2. report'.source = answers
    BY <2>1
  <2>3. report' # [source |-> 0]
    BY <2>1, <2>2
  <2>4. GivesUpOnlyWhenExhausted'
    BY <2>1, <2>3
  <2>5. ReportIsOfOneAttempt'
    BY <2>1 DEF Proved
  <2>6. QED
    BY <2>4, <2>5
<1>4. CASE BatchReport
  <2>1. PICK h, n : report' = [source |-> 0, histogram |-> h, total |-> n]
    BY <1>4 DEF BatchReport
  <2>2. report' # [source |-> 0]
    <3>1. "total" \in DOMAIN report' /\ "total" \notin DOMAIN [source |-> 0]
      BY <2>1
    <3>2. QED
      BY <3>1
  <2>3. QED
    BY <1>4, <2>2 DEF BatchReport
<1>5. CASE Start \/ StartFails \/ GenerateFails \/ Compile
  BY <1>5 DEF Start, StartFails, GenerateFails, Compile
<1>6. CASE \E k \in Keys : KvGet(k) \/ \E v \in Values : KvSet(k, v)
  BY <1>6 DEF KvGet, KvSet, Record
<1>7. CASE LlmQuery \/ Ask \/ HttpPost \/ CallFails
  BY <1>7 DEF LlmQuery, Ask, HttpPost, CallFails, Record
<1>8. CASE ToolPanics
  BY <1>8 DEF ToolPanics
<1>9. CASE Execute \/ Prove \/ UnknownBackend \/ BatchRun
  BY <1>9 DEF Execute, Prove, UnknownBackend, BatchRun
<1>10. CASE UNCHANGED vars
  BY <1>10 DEF vars
<1>11. QED
  BY <1>1, <1>2, <1>3, <1>4, <1>5, <1>6, <1>7, <1>8, <1>9, <1>10 DEF Next

LEMMA VerdictInvariant == Spec => []Verdict
<1>1. Init => Verdict
  BY DEF Init, Verdict, GivesUpOnlyWhenExhausted, ReportIsOfOneAttempt
<1>2. QED
  BY <1>1, VerdictStep, ControlInvariant, PTL DEF Spec

(* Exit 0 comes exactly with a report, and "all attempts exhausted" only    *)
(* after max_retries + 1 answers of the LLM (the two `continue`s).          *)
THEOREM GivesUpWhenExhausted == Spec => []GivesUpOnlyWhenExhausted
<1>1. Verdict => GivesUpOnlyWhenExhausted
  BY DEF Verdict
<1>2. QED
  BY <1>1, VerdictInvariant, PTL

(* The report is about the last attempt in every part (print_json).        *)
THEOREM ReportsAreOfOneAttempt == Spec => []ReportIsOfOneAttempt
<1>1. Verdict => ReportIsOfOneAttempt
  BY DEF Verdict
<1>2. QED
  BY <1>1, VerdictInvariant, PTL

(* After an execution that succeeded nothing is asked for or executed      *)
(* again, whatever becomes of the proof (main after the match on execute). *)
THEOREM SuccessesAreFinal == Spec => SuccessIsFinal
<1>1. [Next]_vars => [Succeeded =>
                        /\ pc' \in {"prove", "report", "exited"}
                        /\ UNCHANGED <<answers, source, transcript, posted>>]_vars
  <2> SUFFICES ASSUME [Next]_vars, Succeeded
               PROVE  /\ pc' \in {"prove", "report", "exited"}
                      /\ UNCHANGED <<answers, source, transcript, posted>>
    OBVIOUS
  <2> USE DEF Succeeded
  <2>1. CASE Prove \/ UnknownBackend \/ Report
    BY <2>1 DEF Prove, UnknownBackend, Report
  <2>2. CASE UNCHANGED vars
    BY <2>2 DEF vars
  <2>3. ~(Start \/ StartFails \/ Generate \/ GenerateFails \/ Compile)
    BY DEF Start, StartFails, Generate, GenerateFails, Compile
  <2>4. ~(CompileFails \/ Execute \/ ExecuteFails \/ ToolPanics)
    BY DEF CompileFails, Execute, ExecuteFails, ToolPanics
  <2>5. ~(LlmQuery \/ Ask \/ HttpPost \/ CallFails \/ BatchRun \/ BatchReport)
    BY DEF LlmQuery, Ask, HttpPost, CallFails, Record, BatchRun, BatchReport
  <2>6. ~(\E k \in Keys : KvGet(k) \/ \E v \in Values : KvSet(k, v))
    BY DEF KvGet, KvSet, Record
  <2>7. QED
    BY <2>1, <2>2, <2>3, <2>4, <2>5, <2>6 DEF Next
<1>2. QED
  BY <1>1, PTL DEF Spec, SuccessIsFinal

-----------------------------------------------------------------------------
(* The tools of an execution.                                              *)

(* The calls of t that set k, and that v is what the last of them set.     *)
Sets(t, k) == {j \in 1 .. Len(t) : t[j].tool = "kv_set" /\ t[j].key = k}
LastSet(t, k, v) ==
  \/ Sets(t, k) = {} /\ v = Missing
  \/ \E j \in Sets(t, k) : v = t[j].value /\ \A i \in Sets(t, k) : i <= j

(* The store is what the transcript says, which is why it need not be kept. *)
Stored ==
  /\ transcript \in Seq(Calls)
  /\ kv \in [Keys -> Values \cup {Missing}]
  /\ pc = "execute" => \A k \in Keys : LastSet(transcript, k, kv[k])
  /\ TranscriptReplays

LEMMA CallsAreCalls ==
  /\ \A k \in Keys, v \in Values \cup {Missing} :
       Call("kv_set", k, v) \in Calls /\ Call("kv_get", k, v) \in Calls
  /\ \A tool \in {"llm_query", "ask", "http_post", "failed"} :
       Other(tool) \in Calls /\ Other(tool).tool = tool
BY DEF Call, Other, Calls, Tools

LEMMA AppendedCall ==
  ASSUME NEW t \in Seq(Calls), NEW c \in Calls
  PROVE  /\ Append(t, c) \in Seq(Calls)
         /\ Len(t) \in Nat
         /\ Len(Append(t, c)) = Len(t) + 1
         /\ \A i \in 1 .. Len(t) : Append(t, c)[i] = t[i]
         /\ Append(t, c)[Len(t) + 1] = c
OBVIOUS

LEMMA AppendKeepsLastSet ==
  ASSUME NEW t \in Seq(Calls), NEW c \in Calls, NEW k, NEW v, LastSet(t, k, v),
         c.tool # "kv_set" \/ c.key # k
  PROVE  LastSet(Append(t, c), k, v)
<1> DEFINE u == Append(t, c)
<1>1. /\ Len(t) \in Nat /\ Len(u) = Len(t) + 1
      /\ \A i \in 1 .. Len(t) : u[i] = t[i]
      /\ u[Len(t) + 1] = c
  BY AppendedCall
<1> HIDE DEF u
<1>2. Sets(u, k) = Sets(t, k)
  BY <1>1 DEF Sets
<1>3. \A j \in Sets(t, k) : u[j] = t[j]
  BY <1>1 DEF Sets
<1>4. LastSet(u, k, v)
  BY <1>2, <1>3 DEF LastSet
<1>5. QED
  BY <1>4 DEF u

LEMMA AppendSetsLast ==
  ASSUME NEW t \in Seq(Calls), NEW c \in Calls, c.tool = "kv_set"
  PROVE  LastSet(Append(t, c), c.key, c.value)
<1> DEFINE u == Append(t, c)
<1>1. Len(t) \in Nat /\ Len(u) = Len(t) + 1 /\ u[Len(t) + 1] = c
  BY AppendedCall
<1> HIDE DEF u
<1>2. Len(u) \in Sets(u, c.key) /\ \A i \in Sets(u, c.key) : i <= Len(u)
  BY <1>1 DEF Sets
<1>3. LastSet(u, c.key, c.value)
  BY <1>1, <1>2 DEF LastSet
<1>4. QED
  BY <1>3 DEF u

(* A call whose answer is that of the store leaves a transcript that       *)
(* replays.                                                                *)
LEMMA AppendReplays ==
  ASSUME NEW t \in Seq(Calls), NEW c \in Calls,
         \A i \in DOMAIN t : t[i].tool = "kv_get" => Replays(t, i),
         c.tool = "kv_get" => LastSet(t, c.key, c.value)
  PROVE  \A i \in DOMAIN Append(t, c) :
           Append(t, c)[i].tool = "kv_get" => Replays(Append(t, c), i)
<1> DEFINE u == Append(t, c)
<1>1. /\ Len(t) \in Nat /\ Len(u) = Len(t) + 1
      /\ \A i \in 1 .. Len(t) : u[i] = t[i]
      /\ u[Len(t) + 1] = c
      /\ DOMAIN t = 1 .. Len(t) /\ DOMAIN u = 1 .. Len(u)
  BY AppendedCall
<1> HIDE DEF u
<1>2. ASSUME NEW i \in DOMAIN u, u[i].tool = "kv_get" PROVE Replays(u, i)
  <2>1. CASE i \in 1 .. Len(t)
    <3>1. u[i] = t[i] /\ Replays(t, i)
      BY <1>1, <1>2, <2>1
    <3>2. Writes(u, i) = Writes(t, i)
      BY <1>1, <2>1 DEF Writes
    <3>3. \A j \in Writes(t, i) : u[j] = t[j]
      BY <1>1, <2>1 DEF Writes
    <3>4. QED
      BY <3>1, <3>2, <3>3 DEF Replays
  <2>2. CASE i = Len(t) + 1
    <3>1. u[i] = c /\ LastSet(t, c.key, c.value)
      BY <1>1, <1>2, <2>2
    <3>2. Writes(u, i) = Sets(t, c.key)
      BY <1>1, <2>2 DEF Writes, Sets
    <3>3. \A j \in Sets(t, c.key) : u[j] = t[j]
      BY <1>1 DEF Sets
    <3>4. QED
      BY <3>1, <3>2, <3>3 DEF Replays, LastSet
  <2>3. QED
    BY <1>1, <2>1, <2>2
<1>3. QED
  BY <1>2 DEF u

LEMMA StoredStep == Stored /\ [Next]_vars => Stored'
<1> SUFFICES ASSUME Stored, [Next]_vars PROVE Stored'
  OBVIOUS
<1>1. /\ transcript \in Seq(Calls)
      /\ kv \in [Keys -> Values \cup {Missing}]
      /\ TranscriptReplays
  BY DEF Stored
<1>2. ASSUME NEW c \in Calls, c.tool # "kv_set", Record(c), kv' = kv,
             c.tool = "kv_get" => c.key \in Keys /\ c.value = kv[c.key]
      PROVE  Stored'
  <2>1. /\ transcript' = Append(transcript, c)
        /\ \A k \in Keys : LastSet(transcript, k, kv[k])
    BY <1>2 DEF Record, Stored
  <2>2. \A k \in Keys : LastSet(transcript', k, kv'[k])
    BY <1>1, <1>2, <2>1, AppendKeepsLastSet
  <2>3. TranscriptReplays'
    BY <1>1, <1>2, <2>1, AppendReplays DEF TranscriptReplays
  <2>4. transcript' \in Seq(Calls)
    BY <1>1, <2>1, AppendedCall
  <2>5. QED
    BY <1>1, <1>2, <2>2, <2>3, <2>4 DEF Stored
<1>3. ASSUME NEW k \in Keys, NEW v \in Values, KvSet(k, v) PROVE Stored'
  <2> DEFINE c == Call("kv_set", k, v)
  <2>1. c \in Calls /\ c.tool = "kv_set" /\ c.key = k /\ c.value = v
    BY CallsAreCalls DEF Call
  <2>2. /\ transcript' = Append(transcript, c)
        /\ kv' = [kv EXCEPT ![k] = v]
        /\ \A l \in Keys : LastSet(transcript, l, kv[l])
    BY <1>3 DEF KvSet, Record, Stored
  <2> HIDE DEF c
  <2>3. ASSUME NEW l \in Keys PROVE LastSet(transcript', l, kv'[l])
    <3>1. CASE l = k
      BY <1>1, <2>1, <2>2, <3>1, AppendSetsLast
    <3>2. CASE l # k
      BY <1>1, <2>1, <2>2, <3>2, AppendKeepsLastSet
    <3>3. QED
      BY <3>1, <3>2
  <2>4. TranscriptReplays'
    BY <1>1, <2>1, <2>2, AppendReplays DEF TranscriptReplays
  <2>5. transcript' \in Seq(Calls) /\ kv' \in [Keys -> Values \cup {Missing}]
    BY <1>1, <2>1, <2>2, AppendedCall
  <2>6. QED
    BY <2>3, <2>4, <2>5 DEF Stored
<1>4. ASSUME NEW k \in Keys, KvGet(k) PROVE Stored'
  <2>1. /\ Call("kv_get", k, kv[k]) \in Calls
        /\ Call("kv_get", k, kv[k]).tool = "kv_get"
        /\ Call("kv_get", k, kv[k]).key = k
        /\ Call("kv_get", k, kv[k]).value = kv[k]
    BY <1>1, CallsAreCalls DEF Call
  <2>2. QED
    BY <1>2, <1>4, <2>1 DEF KvGet
<1>5. CASE LlmQuery \/ Ask \/ HttpPost \/ CallFails
  BY <1>2, <1>5, CallsAreCalls DEF LlmQuery, Ask, HttpPost, CallFails
<1>6. CASE Compile
  <2>1. transcript' = <<>> /\ kv' = EmptyStore
    BY <1>6 DEF Compile
  <2>2. \A k \in Keys : LastSet(transcript', k, kv'[k])
    BY <2>1 DEF LastSet, Sets, EmptyStore
  <2>3. QED
    BY <2>1, <2>2 DEF Stored, EmptyStore, TranscriptReplays
<1>7. ASSUME pc' # "execute", UNCHANGED <<kv, transcript>> PROVE Stored'
  BY <1>1, <1>7 DEF Stored, TranscriptReplays, Replays, Writes
<1>8. CASE CompileFails \/ ExecuteFails
  BY <1>7, <1>8 DEF CompileFails, ExecuteFails, Retry
<1>9. CASE Start \/ StartFails \/ Generate \/ GenerateFails \/ ToolPanics
  BY <1>7, <1>9 DEF Start, StartFails, Generate, GenerateFails, ToolPanics
<1>10. CASE Execute \/ Prove \/ UnknownBackend \/ Report
  BY <1>7, <1>10 DEF Execute, Prove, UnknownBackend, Report
<1>11. CASE BatchRun \/ BatchReport
  BY <1>7, <1>11 DEF BatchRun, BatchReport
<1>12. CASE UNCHANGED vars
  BY <1>12 DEF vars, Stored, TranscriptReplays, Replays, Writes
<1>13. QED
  BY <1>3, <1>4, <1>5, <1>6, <1>8, <1>9, <1>10, <1>11, <1>12 DEF Next

LEMMA StoredInvariant == Spec => []Stored
<1>1. Init => Stored
  BY DEF Init, Stored, EmptyStore, TranscriptReplays
<1>2. QED
  BY <1>1, StoredStep, PTL DEF Spec

(* What kv_get returned follows from the calls before it in the transcript *)
(* (LiveHost::new inside main's loop, tool_kv_set, tool_kv_get).           *)
THEOREM TranscriptsReplay == Spec => []TranscriptReplays
<1>1. Stored => TranscriptReplays
  BY DEF Stored
<1>2. QED
  BY <1>1, StoredInvariant, PTL

(* An attempt that has not been compiled yet has sent nothing.             *)
Posts ==
  /\ posted \subseteq 1 .. attempt
  /\ pc \in {"start", "generate", "compile", "batch"} => attempt \notin posted
  /\ PostsAreOnRecord

LEMMA AppendMade ==
  ASSUME transcript \in Seq(Calls), NEW call \in Calls,
         transcript' = Append(transcript, call)
  PROVE  Made' = Made \cup {call.tool}
BY DEF Made

LEMMA PostsStep == Control /\ Stored /\ Posts /\ [Next]_vars => Posts'
<1> SUFFICES ASSUME Control, Stored, Posts, [Next]_vars PROVE Posts'
  OBVIOUS
<1> USE DEF Posts, PostsAreOnRecord, Executed, Control, Places, Counts
<1>1. CASE Start \/ StartFails \/ Generate \/ GenerateFails
  BY <1>1 DEF Start, StartFails, Generate, GenerateFails, Made
<1>2. CASE Compile
  BY <1>2 DEF Compile, Made
<1>3. CASE CompileFails \/ ExecuteFails
  <2>1. attempt \in Nat /\ posted \subseteq 1 .. attempt
    OBVIOUS
  <2>2. CASE attempt' = attempt + 1 /\ pc' = "generate" /\ posted' = posted
    <3>1. attempt + 1 \notin 1 .. attempt /\ 1 .. attempt \subseteq 1 .. attempt + 1
      BY <2>1
    <3>2. exit' # "ok"
      BY <1>3, <2>2 DEF CompileFails, ExecuteFails, Retry
    <3>3. QED
      BY <2>1, <2>2, <3>1, <3>2
  <2>3. CASE pc' = "exited" /\ exit' = "exhausted" /\ UNCHANGED <<attempt, posted>>
    BY <2>1, <2>3
  <2>4. QED
    BY <1>3, <2>2, <2>3 DEF CompileFails, ExecuteFails, Retry
<1>4. ASSUME NEW call \in Calls, Record(call), posted' = posted,
             call.tool # "http_post"
      PROVE  Posts'
  <2>1. Made' = Made \cup {call.tool}
    BY <1>4, AppendMade DEF Record, Stored
  <2>2. QED
    BY <1>4, <2>1 DEF Record
<1>5. CASE \E k \in Keys : KvGet(k) \/ \E v \in Values : KvSet(k, v)
  <2>1. ASSUME NEW k \in Keys, KvGet(k) PROVE Posts'
    <3>1. kv[k] \in Values \cup {Missing}
      BY DEF Stored
    <3>2. QED
      BY <1>4, <2>1, <3>1, CallsAreCalls DEF KvGet, Call
  <2>2. ASSUME NEW k \in Keys, NEW v \in Values, KvSet(k, v) PROVE Posts'
    BY <1>4, <2>2, CallsAreCalls DEF KvSet, Call
  <2>3. QED
    BY <1>5, <2>1, <2>2
<1>6. CASE LlmQuery \/ Ask \/ CallFails
  BY <1>4, <1>6, CallsAreCalls DEF LlmQuery, Ask, CallFails
<1>7. CASE HttpPost
  <2>1. PICK outcome \in {"http_post", "failed"} :
          Record(Other(outcome)) /\ posted' = posted \cup {attempt}
    BY <1>7 DEF HttpPost
  <2>2. Made' = Made \cup {outcome}
    BY <2>1, AppendMade, CallsAreCalls DEF Record, Stored
  <2>3. pc = "execute" /\ UNCHANGED <<cli, pc, attempt, exit>>
    BY <2>1 DEF Record
  <2>4. QED
    BY <2>1, <2>2, <2>3
<1>8. CASE ToolPanics
  BY <1>8 DEF ToolPanics
<1>9. CASE Execute \/ Prove \/ UnknownBackend \/ Report
  BY <1>9 DEF Execute, Prove, UnknownBackend, Report, Made
<1>10. CASE BatchRun \/ BatchReport
  BY <1>10 DEF BatchRun, BatchReport, Made
<1>11. CASE UNCHANGED vars
  BY <1>11 DEF vars, Made
<1>12. QED
  BY <1>1, <1>2, <1>3, <1>5, <1>6, <1>7, <1>8, <1>9, <1>10, <1>11 DEF Next

(* The transcript of an attempt, and with it the report, accounts for the  *)
(* POSTs of that attempt and of no other (main's loop, LiveHost).          *)
THEOREM PostsOnRecord == Spec => []PostsAreOnRecord
<1>1. Init => Posts
  BY DEF Init, Posts, PostsAreOnRecord, Executed
<1>2. Posts => PostsAreOnRecord
  BY DEF Posts
<1>3. QED
  BY <1>1, <1>2, PostsStep, ControlInvariant, StoredInvariant, PTL DEF Spec

-----------------------------------------------------------------------------
(* --generate-and-compile.                                                 *)

(* The first n runs of list that got a program from the LLM. *)
Generated(list, n) == {j \in 1 .. n : list[j].stage # "generate"}

Batch ==
  /\ outcomes \in Seq([stage : Stages, source : Nat])
  /\ pc = "start" => outcomes = <<>>
  /\ cli.generateAndCompile =>
       /\ answers = Cardinality(Generated(outcomes, Len(outcomes)))
       /\ \A i \in DOMAIN outcomes : outcomes[i].stage # "generate" =>
            outcomes[i].source = Cardinality(Generated(outcomes, i))
       /\ messages \in {<<>>, <<Task>>}
       /\ transcript = <<>> /\ posted = {}

LEMMA AppendedOutcome ==
  ASSUME NEW S, NEW list \in Seq(S), NEW x \in S
  PROVE  /\ Append(list, x) \in Seq(S)
         /\ Len(list) \in Nat
         /\ Len(Append(list, x)) = Len(list) + 1
         /\ \A i \in 1 .. Len(list) : Append(list, x)[i] = list[i]
         /\ Append(list, x)[Len(list) + 1] = x
         /\ DOMAIN list = 1 .. Len(list)
         /\ DOMAIN Append(list, x) = 1 .. Len(list) + 1
OBVIOUS

LEMMA GeneratedAfterAppend ==
  ASSUME NEW S, NEW list \in Seq(S), NEW x \in S
  PROVE  /\ \A i \in 1 .. Len(list) :
              Generated(Append(list, x), i) = Generated(list, i)
         /\ Generated(Append(list, x), Len(list) + 1) =
              Generated(list, Len(list)) \cup
                (IF x.stage # "generate" THEN {Len(list) + 1} ELSE {})
         /\ Cardinality(Generated(Append(list, x), Len(list) + 1)) =
              Cardinality(Generated(list, Len(list))) +
                (IF x.stage # "generate" THEN 1 ELSE 0)
<1> DEFINE u == Append(list, x)
           G == Generated(list, Len(list))
<1>1. /\ Len(list) \in Nat
      /\ \A i \in 1 .. Len(list) : u[i] = list[i]
      /\ u[Len(list) + 1] = x
  BY AppendedOutcome
<1>2. IsFiniteSet(G)
  <2>1. IsFiniteSet(1 .. Len(list))
    BY <1>1, FS_Interval
  <2>2. G \subseteq 1 .. Len(list)
    BY DEF Generated
  <2>3. QED
    BY <2>1, <2>2, FS_Subset
<1>3. Len(list) + 1 \notin G
  BY <1>1 DEF Generated
<1> HIDE DEF u
<1>4. \A i \in 1 .. Len(list) : Generated(u, i) = Generated(list, i)
  BY <1>1 DEF Generated
<1>5. Generated(u, Len(list) + 1) =
        G \cup (IF x.stage # "generate" THEN {Len(list) + 1} ELSE {})
  BY <1>1 DEF Generated
<1> HIDE DEF G
<1>6. Cardinality(Generated(u, Len(list) + 1)) =
        Cardinality(G) + (IF x.stage # "generate" THEN 1 ELSE 0)
  <2>1. Cardinality(G) \in Nat
    BY <1>2, FS_CardinalityType
  <2>2. CASE x.stage # "generate"
    BY <1>2, <1>3, <1>5, <2>2, FS_AddElement
  <2>3. CASE ~(x.stage # "generate")
    <3>1. Generated(u, Len(list) + 1) = G
      BY <1>5, <2>3
    <3>2. QED
      BY <2>1, <2>3, <3>1
  <2>4. QED
    BY <2>2, <2>3
<1>7. QED
  BY <1>4, <1>5, <1>6 DEF u, G

(* One more run of a batch, with or without a program from the LLM.        *)
LEMMA BatchRunStep == Control /\ Batch /\ BatchRun => Batch'
<1> SUFFICES ASSUME Control, Batch, BatchRun PROVE Batch'
  OBVIOUS
<1>1. /\ cli.generateAndCompile /\ cli' = cli /\ pc = "batch" /\ pc' = pc
      /\ messages' = <<Task>>
      /\ transcript' = transcript /\ posted' = posted
  BY DEF BatchRun, Control, Places
<1>2. /\ outcomes \in Seq([stage : Stages, source : Nat])
      /\ answers \in Nat
      /\ answers = Cardinality(Generated(outcomes, Len(outcomes)))
      /\ \A i \in DOMAIN outcomes : outcomes[i].stage # "generate" =>
           outcomes[i].source = Cardinality(Generated(outcomes, i))
      /\ transcript = <<>> /\ posted = {}
  BY <1>1 DEF Batch, Control, Counts
<1>3. PICK x \in [stage : Stages, source : Nat] :
        /\ outcomes' = Append(outcomes, x)
        /\ answers' = answers + IF x.stage # "generate" THEN 1 ELSE 0
        /\ x.stage # "generate" => x.source = answers + 1
  <2>1. CASE outcomes' = Append(outcomes, Outcome("generate", 0)) /\ answers' = answers
    BY <1>2, <2>1 DEF Outcome, Stages
  <2>2. ASSUME NEW stage \in Stages \ {"generate"}, answers' = answers + 1,
               outcomes' = Append(outcomes, Outcome(stage, answers + 1))
        PROVE  \E x \in [stage : Stages, source : Nat] :
                 /\ outcomes' = Append(outcomes, x)
                 /\ answers' = answers + IF x.stage # "generate" THEN 1 ELSE 0
                 /\ x.stage # "generate" => x.source = answers + 1
    BY <1>2, <2>2 DEF Outcome
  <2>3. QED
    BY <2>1, <2>2 DEF BatchRun
<1>4. /\ outcomes' \in Seq([stage : Stages, source : Nat])
      /\ Len(outcomes) \in Nat
      /\ Len(outcomes') = Len(outcomes) + 1
      /\ \A i \in 1 .. Len(outcomes) : outcomes'[i] = outcomes[i]
      /\ outcomes'[Len(outcomes) + 1] = x
      /\ DOMAIN outcomes = 1 .. Len(outcomes)
      /\ DOMAIN outcomes' = 1 .. Len(outcomes) + 1
  BY <1>2, <1>3, AppendedOutcome
<1>5. /\ \A i \in 1 .. Len(outcomes) :
            Generated(outcomes', i) = Generated(outcomes, i)
      /\ Cardinality(Generated(outcomes', Len(outcomes) + 1)) =
           answers + IF x.stage # "generate" THEN 1 ELSE 0
  <2> DEFINE R == [stage : Stages, source : Nat]
  <2>1. outcomes \in Seq(R) /\ x \in R
    BY <1>2, <1>3
  <2> HIDE DEF R
  <2>2. /\ \A i \in 1 .. Len(outcomes) :
              Generated(Append(outcomes, x), i) = Generated(outcomes, i)
        /\ Cardinality(Generated(Append(outcomes, x), Len(outcomes) + 1)) =
             Cardinality(Generated(outcomes, Len(outcomes))) +
               (IF x.stage # "generate" THEN 1 ELSE 0)
    BY <2>1, GeneratedAfterAppend
  <2>3. outcomes' = Append(outcomes, x)
    BY <1>3
  <2>4. answers = Cardinality(Generated(outcomes, Len(outcomes)))
    BY <1>2
  <2>5. QED
    BY <2>2, <2>3, <2>4
<1>6. answers' = Cardinality(Generated(outcomes', Len(outcomes')))
  BY <1>3, <1>4, <1>5
<1>7. ASSUME NEW i \in DOMAIN outcomes', outcomes'[i].stage # "generate"
      PROVE  outcomes'[i].source = Cardinality(Generated(outcomes', i))
  <2>1. CASE i \in 1 .. Len(outcomes)
    BY <1>2, <1>4, <1>5, <1>7, <2>1
  <2>2. CASE i = Len(outcomes) + 1
    BY <1>2, <1>3, <1>4, <1>5, <1>7, <2>2
  <2>3. QED
    BY <1>4, <2>1, <2>2
<1>8. QED
  BY <1>1, <1>2, <1>4, <1>6, <1>7 DEF Batch

LEMMA BatchStep == Control /\ Batch /\ [Next]_vars => Batch'
<1> SUFFICES ASSUME Control, Batch, [Next]_vars PROVE Batch'
  OBVIOUS
<1>1. CASE BatchRun
  BY <1>1, BatchRunStep
<1>2. ASSUME cli' = cli, outcomes' = outcomes, pc' # "start",
             cli.generateAndCompile =>
               UNCHANGED <<answers, messages, transcript, posted>>
      PROVE  Batch'
  BY <1>2 DEF Batch, Generated
<1>3. CASE Start \/ StartFails \/ BatchReport
  BY <1>2, <1>3 DEF Start, StartFails, BatchReport
<1>4. CASE Generate \/ GenerateFails \/ Compile \/ Execute
  BY <1>2, <1>4 DEF Generate, GenerateFails, Compile, Execute, Control, Places
<1>5. CASE CompileFails \/ ExecuteFails
  BY <1>2, <1>5 DEF CompileFails, ExecuteFails, Retry, Control, Places
<1>6. CASE \E k \in Keys : KvGet(k) \/ \E v \in Values : KvSet(k, v)
  BY <1>2, <1>6 DEF KvGet, KvSet, Record, Control, Places
<1>7. CASE LlmQuery \/ Ask \/ HttpPost \/ CallFails \/ ToolPanics
  BY <1>2, <1>7 DEF LlmQuery, Ask, HttpPost, CallFails, ToolPanics, Record, Control, Places
<1>8. CASE Prove \/ UnknownBackend \/ Report
  BY <1>2, <1>8 DEF Prove, UnknownBackend, Report, Control, Places
<1>9. CASE UNCHANGED vars
  BY <1>9 DEF vars, Batch, Generated
<1>10. QED
  BY <1>1, <1>3, <1>4, <1>5, <1>6, <1>7, <1>8, <1>9 DEF Next

LEMMA BatchInvariant == Spec => []Batch
<1>1. Init => Batch
  <2>1. Generated(<<>>, Len(<<>>)) = {}
    BY DEF Generated
  <2>2. SUFFICES ASSUME Init PROVE Batch
    OBVIOUS
  <2>3. /\ outcomes = <<>> /\ answers = 0 /\ messages = <<>>
        /\ transcript = <<>> /\ posted = {}
    BY <2>2 DEF Init
  <2>4. outcomes \in Seq([stage : Stages, source : Nat])
    BY <2>3
  <2>5. answers = Cardinality(Generated(outcomes, Len(outcomes)))
    BY <2>1, <2>3, FS_EmptySet
  <2>6. DOMAIN outcomes = {}
    BY <2>3
  <2>7. QED
    BY <2>3, <2>4, <2>5, <2>6 DEF Batch
<1>2. QED
  BY <1>1, BatchStep, ControlInvariant, PTL DEF Spec

(* The runs of a batch do not disturb each other: each asks with the task  *)
(* alone and has its own answer, whatever failed before it, and nothing is *)
(* executed (generate_and_compile).                                        *)
THEOREM BatchesAreIndependent == Spec => []BatchRunsAreIndependent
<1>1. Batch => BatchRunsAreIndependent
  BY DEF Batch, BatchRunsAreIndependent, Generated
<1>2. QED
  BY <1>1, BatchInvariant, PTL

-----------------------------------------------------------------------------
(* The histogram of a batch. *)

(* Those of the first n runs of list that ended in this stage. *)
EndedIn(list, n, stage) == {i \in 1 .. n : list[i].stage = stage}
Counted(list, n) == [stage \in Stages |-> Cardinality(EndedIn(list, n, stage))]

(* One more run adds one, under its stage. *)
LEMMA CountedNext ==
  ASSUME NEW list, NEW n \in Nat, list[n + 1].stage \in Stages
  PROVE  /\ Counted(list, n) \in [Stages -> Nat]
         /\ Counted(list, n + 1) = [Counted(list, n) EXCEPT ![list[n + 1].stage] = @ + 1]
<1>1. ASSUME NEW stage \in Stages
      PROVE  /\ Cardinality(EndedIn(list, n, stage)) \in Nat
             /\ Cardinality(EndedIn(list, n + 1, stage)) =
                  Cardinality(EndedIn(list, n, stage))
                    + IF list[n + 1].stage = stage THEN 1 ELSE 0
  <2> DEFINE E == EndedIn(list, n, stage)
  <2>1. IsFiniteSet(1 .. n)
    BY FS_Interval
  <2>2. E \subseteq 1 .. n /\ n + 1 \notin E
    BY DEF EndedIn
  <2>3. IsFiniteSet(E) /\ Cardinality(E) \in Nat
    BY <2>1, <2>2, FS_Subset, FS_CardinalityType
  <2>4. EndedIn(list, n + 1, stage) =
          E \cup (IF list[n + 1].stage = stage THEN {n + 1} ELSE {})
    BY DEF EndedIn
  <2> HIDE DEF E
  <2>5. CASE list[n + 1].stage = stage
    BY <2>2, <2>3, <2>4, <2>5, FS_AddElement DEF E
  <2>6. CASE list[n + 1].stage # stage
    <3>1. EndedIn(list, n + 1, stage) = E
      BY <2>4, <2>6
    <3>2. QED
      BY <2>3, <2>6, <3>1 DEF E
  <2>7. QED
    BY <2>3, <2>5, <2>6 DEF E
<1>2. QED
  BY <1>1 DEF Counted

(* Counting run by run is counting. *)
LEMMA HistogramCounts ==
  ASSUME NEW R, NEW list \in Seq(R), \A x \in R : x.stage \in Stages
  PROVE  FromOutcomes(list) = Counted(list, Len(list))
<1> DEFINE N == Len(list)
           Rec(f) == [i \in 0 .. N |->
                        IF i = 0 THEN [stage \in Stages |-> 0]
                        ELSE [f[i - 1] EXCEPT ![list[i].stage] = @ + 1]]
           upTo == CHOOSE f : f = Rec(f)
           counts == [i \in 0 .. N |-> Counted(list, i)]
<1>1. N \in Nat /\ \A n \in 0 .. N - 1 : list[n + 1].stage \in Stages
  OBVIOUS
<1>2. FromOutcomes(list) = upTo[N]
  BY Zenon DEF FromOutcomes
<1> HIDE DEF N
<1>3. Counted(list, 0) = [stage \in Stages |-> 0]
  <2>1. \A stage : EndedIn(list, 0, stage) = {}
    BY DEF EndedIn
  <2>2. QED
    BY <2>1, FS_EmptySet DEF Counted
<1>4. \A n \in 0 .. N - 1 :
        Counted(list, n + 1) = [Counted(list, n) EXCEPT ![list[n + 1].stage] = @ + 1]
  BY <1>1, CountedNext
<1>5. counts = Rec(counts)
  <2>1. ASSUME NEW i \in 0 .. N PROVE counts[i] = Rec(counts)[i]
    <3>1. CASE i = 0
      BY <1>1, <1>3, <3>1
    <3>2. CASE i # 0
      <4>1. i - 1 \in 0 .. N - 1 /\ i - 1 \in 0 .. N /\ (i - 1) + 1 = i
        BY <1>1, <3>2
      <4>2. Counted(list, i) = [Counted(list, i - 1) EXCEPT ![list[i].stage] = @ + 1]
        BY <1>4, <4>1
      <4>3. QED
        BY <3>2, <4>1, <4>2
    <3>3. QED
      BY <3>1, <3>2
  <2>2. QED
    BY <2>1
<1>6. upTo = Rec(upTo)
  <2>1. \E f : f = Rec(f)
    BY <1>5
  <2> HIDE DEF Rec
  <2>2. QED
    BY <2>1, Zenon
<1> HIDE DEF upTo, counts
<1>7. \A n \in 0 .. N : upTo[n] = Counted(list, n)
  <2> DEFINE S == {n \in 0 .. N : upTo[n] = Counted(list, n)}
  <2>1. 0 \in S
    BY <1>1, <1>3, <1>6
  <2>2. ASSUME NEW n \in 0 .. N - 1, n \in S PROVE n + 1 \in S
    <3>1. n + 1 \in 0 .. N /\ n + 1 # 0 /\ (n + 1) - 1 = n
      BY <1>1
    <3>2. upTo[n + 1] = [upTo[n] EXCEPT ![list[n + 1].stage] = @ + 1]
      BY <1>6, <3>1
    <3>3. QED
      BY <1>4, <2>2, <3>1, <3>2
  <2> HIDE DEF S
  <2>3. \A n \in 0 .. N : n \in S
    BY <1>1, <2>1, <2>2, NumbersUpTo
  <2>4. QED
    BY <2>3 DEF S
<1>8. QED
  BY <1>1, <1>2, <1>7 DEF N

(* One more run under whatever stage is one more in all. *)
LEMMA TotalOfOneMore ==
  ASSUME NEW h \in [Stages -> Nat], NEW s \in Stages
  PROVE  /\ Total(h) \in Nat
         /\ Total([h EXCEPT ![s] = @ + 1]) = Total(h) + 1
<1> DEFINE g == [h EXCEPT ![s] = @ + 1]
<1>1. \A stage \in Stages : h[stage] \in Nat
  OBVIOUS
<1>2. \A stage \in Stages : g[stage] = IF stage = s THEN h[stage] + 1 ELSE h[stage]
  OBVIOUS
<1> HIDE DEF g
<1>3. Total(g) = Total(h) + 1
  BY <1>1, <1>2 DEF Total, Stages
<1>4. QED
  BY <1>1, <1>3 DEF Total, Stages, g

(* Every run is under one stage. *)
LEMMA CountsAddUp ==
  ASSUME NEW R, NEW list \in Seq(R), \A x \in R : x.stage \in Stages
  PROVE  Total(Counted(list, Len(list))) = Len(list)
<1> DEFINE N == Len(list)
           S == {n \in 0 .. N : Total(Counted(list, n)) = n}
<1>1. N \in Nat /\ \A n \in 0 .. N - 1 : list[n + 1].stage \in Stages
  OBVIOUS
<1> HIDE DEF N
<1>2. 0 \in S
  <2>1. \A stage : EndedIn(list, 0, stage) = {}
    BY DEF EndedIn
  <2>2. \A stage \in Stages : Counted(list, 0)[stage] = 0
    BY <2>1, FS_EmptySet DEF Counted
  <2>3. Total(Counted(list, 0)) = 0
    BY <2>2 DEF Total, Stages
  <2>4. QED
    BY <1>1, <2>3
<1>3. ASSUME NEW n \in 0 .. N - 1, n \in S PROVE n + 1 \in S
  <2>1. /\ Counted(list, n) \in [Stages -> Nat]
        /\ Counted(list, n + 1) = [Counted(list, n) EXCEPT ![list[n + 1].stage] = @ + 1]
        /\ list[n + 1].stage \in Stages
    BY <1>1, CountedNext
  <2>2. Total(Counted(list, n + 1)) = Total(Counted(list, n)) + 1
    BY <2>1, TotalOfOneMore
  <2>3. QED
    BY <1>1, <1>3, <2>2
<1> HIDE DEF S
<1>4. \A n \in 0 .. N : n \in S
  BY <1>1, <1>2, <1>3, NumbersUpTo
<1>5. QED
  BY <1>1, <1>4 DEF S, N

(* What the report of a batch says, once it is written: nothing is run     *)
(* after it.                                                               *)
Measured ==
  report # NoReport /\ cli.generateAndCompile =>
    /\ Len(outcomes) = Runs
    /\ report.histogram = Counted(outcomes, Len(outcomes))
    /\ report.total = Len(outcomes)

LEMMA MeasuredStep ==
  Control /\ Batch /\ Measured /\ [Next]_vars => Measured'
<1> SUFFICES ASSUME Control, Batch, Measured, [Next]_vars PROVE Measured'
  OBVIOUS
<1>1. CASE BatchReport
  <2> DEFINE R == [stage : Stages, source : Nat]
  <2>1. /\ report' = [source |-> 0, histogram |-> FromOutcomes(outcomes),
                      total |-> Total(FromOutcomes(outcomes))]
        /\ Len(outcomes) = Runs
        /\ UNCHANGED <<cli, outcomes>>
    BY <1>1 DEF BatchReport
  <2>2. outcomes \in Seq(R) /\ \A x \in R : x.stage \in Stages
    BY DEF Batch
  <2> HIDE DEF R
  <2>3. FromOutcomes(outcomes) = Counted(outcomes, Len(outcomes))
    BY <2>2, HistogramCounts
  <2>4. Total(FromOutcomes(outcomes)) = Len(outcomes)
    BY <2>2, <2>3, CountsAddUp
  <2>5. /\ report'.histogram = Counted(outcomes, Len(outcomes))
        /\ report'.total = Len(outcomes)
    BY <2>1, <2>3, <2>4
  <2>6. QED
    BY <2>1, <2>5 DEF Measured, Runs
<1>2. ASSUME report' = NoReport PROVE Measured'
  BY <1>2 DEF Measured
<1>3. CASE Start \/ StartFails \/ BatchRun
  BY <1>2, <1>3 DEF Start, StartFails, BatchRun, Control, Places
<1>4. CASE UNCHANGED vars
  BY <1>4 DEF vars, Measured, Runs
<1>5. ASSUME ~cli.generateAndCompile, cli' = cli PROVE Measured'
  BY <1>5 DEF Measured
<1>6. CASE Generate \/ GenerateFails \/ Compile \/ Execute
  BY <1>5, <1>6 DEF Generate, GenerateFails, Compile, Execute, Control, Places
<1>7. CASE CompileFails \/ ExecuteFails
  BY <1>5, <1>7 DEF CompileFails, ExecuteFails, Retry, Control, Places
<1>8. CASE \E k \in Keys : KvGet(k) \/ \E v \in Values : KvSet(k, v)
  BY <1>5, <1>8 DEF KvGet, KvSet, Record, Control, Places
<1>9. CASE LlmQuery \/ Ask \/ HttpPost \/ CallFails \/ ToolPanics
  BY <1>5, <1>9 DEF LlmQuery, Ask, HttpPost, CallFails, ToolPanics, Record, Control, Places
<1>10. CASE Prove \/ UnknownBackend \/ Report
  BY <1>5, <1>10 DEF Prove, UnknownBackend, Report, Control, Places
<1>11. QED
  BY <1>1, <1>3, <1>4, <1>6, <1>7, <1>8, <1>9, <1>10 DEF Next

(* Every run asked for is in the histogram once, under the stage it ended  *)
(* in, whatever failed (StageHistogram::from_outcomes and total).          *)
THEOREM HistogramsAddUp == Spec => []HistogramAddsUp
<1>1. Init => Measured
  BY DEF Init, Measured
<1>2. Batch /\ Measured => HistogramAddsUp
  <2> SUFFICES ASSUME Batch, Measured, report # NoReport, cli.generateAndCompile
               PROVE  /\ report.total = Runs
                      /\ \A stage \in Stages : report.histogram[stage] =
                           Cardinality({i \in DOMAIN outcomes : outcomes[i].stage = stage})
    BY DEF HistogramAddsUp
  <2>1. report.total = Runs
    BY DEF Measured
  <2>2. DOMAIN outcomes = 1 .. Len(outcomes)
    BY DEF Batch
  <2>3. \A stage \in Stages :
          report.histogram[stage] = Cardinality(EndedIn(outcomes, Len(outcomes), stage))
    BY DEF Measured, Counted
  <2>4. QED
    BY <2>1, <2>2, <2>3 DEF EndedIn
<1>3. QED
  BY <1>1, <1>2, BatchInvariant, MeasuredStep, ControlInvariant, PTL DEF Spec

-----------------------------------------------------------------------------
(* The types. *)

Reports ==
  [source : Nat]
    \cup [source : Nat, transcript : Seq(Calls), attempts : Nat,
          usage : Nat, proof : Nat]
    \cup [source : {0}, histogram : [Stages -> 0 .. Runs], total : 0 .. Runs]

(* What TypeOK says beyond Control, Stored and Batch. *)
Kept ==
  /\ cli \in Options
  /\ messages \in Seq([role : {"user", "assistant"}, about : Nat,
                       error : {"none", "parse", "compile", "runtime"}])
  /\ source \in Nat /\ proof \in Nat
  /\ Len(transcript) <= MaxToolCalls
  /\ posted \subseteq 1 .. cli.maxRetries + 1

Printed ==
  /\ report \in Reports
  /\ stdout \in Seq({"program", "json", "text"})
  /\ exit \in {"none", "usage", "ok", "llm_error", "exhausted", "panic",
               "unknown_backend"}

LEMMA KeptStep ==
  Control /\ Stored /\ Kept /\ [Next]_vars => Kept'
<1> SUFFICES ASSUME Control, Stored, Kept, [Next]_vars PROVE Kept'
  OBVIOUS
<1> DEFINE Turn == [role : {"user", "assistant"}, about : Nat,
                    error : {"none", "parse", "compile", "runtime"}]
<1>1. /\ answers \in Nat /\ attempt \in 1 .. cli.maxRetries + 1
      /\ transcript \in Seq(Calls)
  BY DEF Control, Counts, Stored
<1>2. /\ cli \in Options /\ messages \in Seq(Turn)
      /\ source \in Nat /\ proof \in Nat
      /\ Len(transcript) <= MaxToolCalls
      /\ posted \subseteq 1 .. cli.maxRetries + 1
  BY DEF Kept
<1>3. /\ Task \in Turn /\ <<Task>> \in Seq(Turn)
      /\ \A n \in Nat : Said(n) \in Turn
      /\ \A n \in Nat, e \in Complaints : Feedback(n, e) \in Turn
  BY DEF Task, Said, Feedback, Complaints
<1> HIDE DEF Turn
<1>4. ASSUME cli' = cli, messages' \in Seq(Turn), source' \in Nat, proof' \in Nat,
             transcript' = transcript, posted' = posted
      PROVE  Kept'
  BY <1>2, <1>4 DEF Kept, Turn
<1>5. ASSUME UNCHANGED <<cli, messages, source, proof>>,
             Len(transcript') <= MaxToolCalls,
             posted' \subseteq 1 .. cli.maxRetries + 1
      PROVE  Kept'
  BY <1>2, <1>5 DEF Kept, Turn
<1>6. CASE Start \/ StartFails \/ BatchRun \/ BatchReport
  BY <1>2, <1>3, <1>4, <1>6 DEF Start, StartFails, BatchRun, BatchReport
<1>7. CASE Generate \/ GenerateFails
  BY <1>1, <1>2, <1>4, <1>7 DEF Generate, GenerateFails
<1>8. CASE Compile
  BY <1>2, <1>8, OrchestratorAssumption, <1>5 DEF Compile
<1>9. ASSUME NEW e \in Complaints, Retry(e) PROVE Kept'
  <2>1. Said(answers) \in Turn /\ Feedback(source, e) \in Turn
    BY <1>1, <1>2, <1>3
  <2>2. messages \o <<Said(answers), Feedback(source, e)>> \in Seq(Turn)
    BY <1>2, <2>1, PushTwo
  <2>3. QED
    BY <1>2, <1>4, <1>9, <2>2 DEF Retry
<1>10. CASE CompileFails \/ ExecuteFails
  BY <1>9, <1>10 DEF CompileFails, ExecuteFails, Complaints
<1>11. ASSUME NEW call \in Calls, Record(call),
              posted' \subseteq posted \cup {attempt}
       PROVE  Kept'
  <2>1. Len(transcript') = Len(transcript) + 1 /\ Len(transcript) < MaxToolCalls
    BY <1>1, <1>11, AppendedCall DEF Record
  <2>2. Len(transcript') <= MaxToolCalls
    BY <1>1, <2>1, OrchestratorAssumption
  <2>3. QED
    BY <1>1, <1>2, <1>5, <1>11, <2>2 DEF Record
<1>12. CASE \E k \in Keys : KvGet(k) \/ \E v \in Values : KvSet(k, v)
  BY <1>11, <1>12, CallsAreCalls DEF KvGet, KvSet, Stored
<1>13. CASE LlmQuery \/ Ask \/ HttpPost \/ CallFails
  BY <1>11, <1>13, CallsAreCalls DEF LlmQuery, Ask, HttpPost, CallFails
<1>14. CASE ToolPanics
  BY <1>1, <1>2, <1>5, <1>14 DEF ToolPanics
<1>15. CASE Execute \/ Prove \/ UnknownBackend \/ Report
  BY <1>2, <1>4, <1>15 DEF Execute, Prove, UnknownBackend, Report
<1>16. CASE UNCHANGED vars
  BY <1>2, <1>4, <1>16 DEF vars
<1>17. QED
  BY <1>6, <1>7, <1>8, <1>10, <1>12, <1>13, <1>14, <1>15, <1>16 DEF Next

LEMMA BatchReported ==
  ASSUME Batch, BatchReport
  PROVE  report' \in Reports
<1> DEFINE R == [stage : Stages, source : Nat]
           hist == FromOutcomes(outcomes)
<1>1. /\ outcomes \in Seq(R) /\ \A x \in R : x.stage \in Stages
      /\ Len(outcomes) \in Nat
  BY DEF Batch
<1>2. /\ report' = [source |-> 0, histogram |-> hist, total |-> Total(hist)]
      /\ Len(outcomes) = Runs
  BY DEF BatchReport
<1> HIDE DEF R
<1>3. hist = Counted(outcomes, Runs) /\ Total(hist) = Runs
  BY <1>1, <1>2, HistogramCounts, CountsAddUp
<1>4. ASSUME NEW stage \in Stages
      PROVE  Cardinality(EndedIn(outcomes, Runs, stage)) \in 0 .. Runs
  <2>1. IsFiniteSet(1 .. Runs) /\ Cardinality(1 .. Runs) = Runs
    BY <1>1, <1>2, FS_Interval
  <2>2. EndedIn(outcomes, Runs, stage) \subseteq 1 .. Runs
    BY DEF EndedIn
  <2>3. QED
    BY <1>1, <1>2, <2>1, <2>2, FS_Subset, FS_CardinalityType
<1>5. hist \in [Stages -> 0 .. Runs] /\ Total(hist) \in 0 .. Runs
  BY <1>1, <1>2, <1>3, <1>4 DEF Counted
<1> HIDE DEF hist
<1>6. QED
  BY <1>2, <1>5 DEF Reports

LEMMA PrintedStep ==
  Control /\ Stored /\ Batch /\ Kept /\ Printed /\ [Next]_vars => Printed'
<1> SUFFICES ASSUME Control, Stored, Batch, Kept, Printed, [Next]_vars
             PROVE  Printed'
  OBVIOUS
<1>1. /\ report \in Reports
      /\ stdout \in Seq({"program", "json", "text"})
      /\ exit \in {"none", "usage", "ok", "llm_error", "exhausted", "panic",
                   "unknown_backend"}
  BY DEF Printed
<1>2. cli' = cli
  BY DEF Next, vars, Start, StartFails, Generate, GenerateFails, Compile,
     CompileFails, ExecuteFails, Retry, KvGet, KvSet, LlmQuery, Ask, HttpPost, CallFails,
     Record, ToolPanics, Execute, Prove, UnknownBackend, Report, BatchRun,
     BatchReport
<1>3. Reports' = Reports
  BY <1>2 DEF Reports, Runs
<1>4. ASSUME report' \in Reports,
             stdout' \in {stdout} \cup {Append(stdout, piece) :
                                          piece \in {"program", "json", "text"}},
             exit' \in {exit, "usage", "ok", "llm_error", "exhausted", "panic",
                        "unknown_backend"}
      PROVE  Printed'
  <2>1. stdout' \in Seq({"program", "json", "text"})
    BY <1>1, <1>4
  <2>2. QED
    BY <1>1, <1>3, <1>4, <2>1 DEF Printed
<1>5. CASE BatchReport
  BY <1>4, <1>5, BatchReported DEF BatchReport
<1>6. CASE Report
  <2>1. /\ source \in Nat /\ proof \in Nat /\ transcript \in Seq(Calls)
        /\ attempt \in Nat /\ usage \in Nat
    BY DEF Kept, Stored, Control, Counts
  <2>2. report' = [source |-> source, transcript |-> transcript,
                   attempts |-> attempt, usage |-> usage, proof |-> proof]
    BY <1>6 DEF Report
  <2>3. report' \in Reports
    BY <2>1, <2>2 DEF Reports
  <2>4. QED
    BY <1>4, <1>6, <2>3 DEF Report
<1>7. CASE Generate
  <2>1. [source |-> answers + 1] \in Reports
    BY DEF Control, Counts, Reports
  <2>2. QED
    BY <1>1, <1>4, <1>7, <2>1 DEF Generate
<1>8. CASE CompileFails \/ ExecuteFails
  BY <1>1, <1>4, <1>8 DEF CompileFails, ExecuteFails, Retry
<1>9. CASE Start \/ StartFails \/ GenerateFails \/ Compile
  BY <1>1, <1>4, <1>9 DEF Start, StartFails, GenerateFails, Compile
<1>10. CASE \E k \in Keys : KvGet(k) \/ \E v \in Values : KvSet(k, v)
  BY <1>1, <1>4, <1>10 DEF KvGet, KvSet, Record
<1>11. CASE LlmQuery \/ Ask \/ HttpPost \/ CallFails \/ ToolPanics
  BY <1>1, <1>4, <1>11 DEF LlmQuery, Ask, HttpPost, CallFails, ToolPanics, Record
<1>12. CASE Execute \/ Prove \/ UnknownBackend \/ BatchRun
  BY <1>1, <1>4, <1>12 DEF Execute, Prove, UnknownBackend, BatchRun
<1>13. CASE UNCHANGED vars
  BY <1>1, <1>4, <1>13 DEF vars
<1>14. QED
  BY <1>5, <1>6, <1>7, <1>8, <1>9, <1>10, <1>11, <1>12, <1>13 DEF Next

(* Every variable keeps its type: no attempt beyond max_retries + 1, no    *)
(* transcript longer than the VM allows, no histogram beyond the runs.     *)
THEOREM TypesHold == Spec => []TypeOK
<1>1. Init => Kept /\ Printed
  BY OrchestratorAssumption DEF Init, Kept, Printed, Reports
<1>2. Control /\ Stored /\ Batch /\ Kept /\ Printed => TypeOK
  BY DEF TypeOK, Control, Places, Counts, Stored, Batch, Kept, Printed, Reports
<1>3. QED
  BY <1>1, <1>2, KeptStep, PrintedStep, StoredInvariant, BatchInvariant,
     ControlInvariant, PTL DEF Spec
=============================================================================
