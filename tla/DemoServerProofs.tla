-------------------------- MODULE DemoServerProofs --------------------------
(***************************************************************************)
(* Proofs about DemoServer for every set of requests, every number of      *)
(* permits, every limit on tool calls and every channel that holds         *)
(* FixedEvents + MaxToolCalls events.                                      *)
(***************************************************************************)
EXTENDS DemoServer, FiniteSetTheorems, TLAPS

(* Types, with permits only known to be a number: that they stay below      *)
(* MaxRuns takes PermitsConserved.  A request without a worker is one that  *)
(* was not admitted, and a worker reports a tool call only when one is left.*)
TypeInv ==
  /\ permits \in Nat
  /\ conn \in [Requests -> {"idle", "open", "ended", "gone", "refused"}]
  /\ pc \in [Requests -> Live \cup {"none", "exited"}]
  /\ calls \in [Requests -> 0 .. MaxToolCalls]
  /\ fault \in [Requests -> Faults]
  /\ chan \in [Requests -> Seq(Events)]
  /\ seen \in [Requests -> Events]

Linked ==
  \A r \in Requests :
    /\ pc[r] = "none" <=> conn[r] \in {"idle", "refused"}
    /\ pc[r] = "tool_call" => calls[r] > 0
    /\ pc[r] \notin {"tool_call", "close", "release", "exited"} => calls[r] = 0 
    /\ conn[r] # "open" => chan[r] = <<>>

Base == TypeInv /\ Linked

USE DEF Announcing, Working, Live

(* The tables of the pipeline, row by row. *)
LEMMA AfterSendTable ==
  ASSUME NEW n
  PROVE  /\ AfterSend("generating_lua", n) = "llm"
         /\ AfterSend("lua_ready", n) = "compiling"
         /\ AfterSend("compiling", n) = "compile"
         /\ AfterSend("executing", n) = "execute"
         /\ AfterSend("tool_call", n) = IF n > 1 THEN "tool_call" ELSE "proving"
         /\ AfterSend("proving", n) = "prove"
         /\ AfterSend("complete", n) = "verifying_on_chain"
         /\ AfterSend("verifying_on_chain", n) = "verify"
         /\ AfterSend("verified_on_chain", n) = "close"
         /\ AfterSend("error", n) = "close"
BY Zenon DEF AfterSend

LEMMA AfterSendRange ==
  ASSUME NEW e \in Announcing, NEW n
  PROVE  /\ AfterSend(e, n) \in Live
         /\ e # "tool_call" => AfterSend(e, n) # "tool_call"
BY AfterSendTable

LEMMA AfterWorkTable ==
  ASSUME NEW n
  PROVE  /\ AfterWork("llm", n) = "lua_ready"
         /\ AfterWork("compile", n) = "executing"
         /\ AfterWork("execute", n) = IF n > 0 THEN "tool_call" ELSE "proving"
         /\ AfterWork("prove", n) = "complete"
         /\ AfterWork("verify", n) = "verified_on_chain"
BY Zenon DEF AfterWork

LEMMA StageOfTable ==
  /\ StageOf("llm") = "generating_lua"
  /\ StageOf("compile") = "compiling"
  /\ StageOf("execute") = "executing"
  /\ StageOf("prove") = "proving"
  /\ StageOf("verify") = "verifying_on_chain"
BY Zenon DEF StageOf

LEMMA EventTypes ==
  /\ Nothing \in Events
  /\ \A e \in Announcing, f \in Faults : Event(e, f) \in Events
BY DEF Nothing, Event, Events, Stages, Faults

(* Of Spec the proofs of invariants need no fairness: what holds of Safety *)
(* holds of whatever refines it, the page with its server among others.    *)
Safety == Init /\ [][Next]_vars

LEMMA BaseInvariant == Safety => []Base
<1> USE ServerAssumption DEF FixedEvents
<1>1. Init => Base
  BY EventTypes DEF Init, Base, Faults, TypeInv, Linked
<1>2. Base /\ [Next]_vars => Base'
  <2> SUFFICES ASSUME Base, [Next]_vars PROVE Base'
    OBVIOUS
  <2> USE DEF Base, TypeInv, Linked
  <2>1. ASSUME NEW r \in Requests, Admit(r) PROVE Base'
    BY <2>1 DEF Admit
  <2>2. ASSUME NEW r \in Requests, Refuse(r) PROVE Base'
    BY <2>2 DEF Refuse
  <2>3. ASSUME NEW r \in Requests, Send(r) PROVE Base'
    <3> DEFINE e == Event(pc[r], IF pc[r] = "error" THEN fault[r] ELSE "none")
    <3>1. /\ e \in Events
          /\ chan' = [chan EXCEPT ![r] = Append(@, e)]
      BY <2>3, EventTypes DEF Send, Faults
    <3> HIDE DEF e
    <3>2. /\ AfterSend(pc[r], calls[r]) \in Live
          /\ calls'[r] \in 0 .. MaxToolCalls
          /\ AfterSend(pc[r], calls[r]) = "tool_call" => calls'[r] > 0
          /\ AfterSend(pc[r], calls[r]) # "tool_call" => calls'[r] = 0
      <4>1. CASE pc[r] = "tool_call"
        BY <2>3, <4>1, AfterSendTable DEF Send
      <4>2. CASE pc[r] # "tool_call"
        BY <2>3, <4>2, AfterSendRange DEF Send
      <4>3. QED
        BY <4>1, <4>2
    <3>3. TypeInv'
      BY <2>3, <3>1, <3>2 DEF Send
    <3>4. Linked'
      BY <2>3, <3>1, <3>2 DEF Send
    <3>5. QED
      BY <3>3, <3>4
  <2>4. ASSUME NEW r \in Requests, SendFails(r) PROVE Base'
    <3>1. CASE pc[r] = "error"
      BY <2>4, <3>1 DEF SendFails
    <3>2. CASE pc[r] # "error"
      <4>1. TypeInv'
        <5>1. fault' \in [Requests -> Faults]
          BY <2>4, <3>2 DEF SendFails, Faults
        <5>2. QED
          BY <2>4, <3>2, <5>1 DEF SendFails
      <4>2. Linked'
        BY <2>4, <3>2 DEF SendFails
      <4>3. QED
        BY <4>1, <4>2
    <3>3. QED
      BY <3>1, <3>2
  <2>5. ASSUME NEW r \in Requests, WorkSucceeds(r) PROVE Base'
    BY <2>5, AfterWorkTable DEF WorkSucceeds, Transcripts
  <2>6. ASSUME NEW r \in Requests, WorkFails(r) PROVE Base'
    BY <2>6, StageOfTable DEF WorkFails, Faults
  <2>7. ASSUME NEW r \in Requests, WorkPanics(r) PROVE Base'
    BY <2>7 DEF WorkPanics, Faults
  <2>8. ASSUME NEW r \in Requests, Close(r) PROVE Base'
    BY <2>8 DEF Close
  <2>9. ASSUME NEW r \in Requests, Release(r) PROVE Base'
    BY <2>9 DEF Release
  <2>10. ASSUME NEW r \in Requests, Read(r) PROVE Base'
    BY <2>10 DEF Read
  <2>11. ASSUME NEW r \in Requests, EndOfStream(r) PROVE Base'
    BY <2>11 DEF EndOfStream, SenderDropped
  <2>12. ASSUME NEW r \in Requests, Leave(r) PROVE Base'
    BY <2>12, EventTypes DEF Leave
  <2>13. CASE UNCHANGED vars
    BY <2>13 DEF vars
  <2>14. QED
    BY <2>1, <2>2, <2>3, <2>4, <2>5, <2>6, <2>7, <2>8, <2>9, <2>10, <2>11,
       <2>12, <2>13 DEF Next, Worker, Client
<1>3. QED
  BY <1>1, <1>2, PTL DEF Safety

-----------------------------------------------------------------------------
(* Permits. *)

LEMMA HoldersFinite == IsFiniteSet(Holders) /\ IsFiniteSet(Holders)'
<1>1. Holders \in SUBSET Requests /\ Holders' \in SUBSET Requests
  BY DEF Holders
<1>2. QED
  BY <1>1, FS_Subset, ServerAssumption

(* Only admission adds a holder, only a release removes one. *)
LEMMA HoldersStep ==
  ASSUME Base, NEW r \in Requests
  PROVE  /\ Admit(r) => r \notin Holders /\ Holders' = Holders \cup {r}
         /\ Release(r) => r \in Holders /\ Holders' = Holders \ {r}
         /\ Refuse(r) \/ Client(r) => Holders' = Holders
         /\ Worker(r) => Release(r) \/ Holders' = Holders
<1> USE DEF Base, TypeInv, Holders
<1>1. Admit(r) => r \notin Holders /\ Holders' = Holders \cup {r}
  BY DEF Admit, Linked
<1>2. Release(r) => r \in Holders /\ Holders' = Holders \ {r}
  BY DEF Release
<1>3. Refuse(r) \/ Client(r) => Holders' = Holders
  BY DEF Refuse, Client, Read, EndOfStream, Leave
<1>4. Send(r) => Holders' = Holders
  BY AfterSendRange DEF Send
<1>5. WorkSucceeds(r) => Holders' = Holders
  BY AfterWorkTable DEF WorkSucceeds
<1>6. SendFails(r) \/ WorkFails(r) \/ WorkPanics(r) \/ Close(r) => Holders' = Holders
  BY DEF SendFails, WorkFails, WorkPanics, Close
<1>7. QED
  BY <1>1, <1>2, <1>3, <1>4, <1>5, <1>6 DEF Worker

LEMMA PermitsInvariant == Safety => []PermitsConserved
<1>1. Init => PermitsConserved
  <2> SUFFICES ASSUME Init PROVE PermitsConserved
    OBVIOUS
  <2>1. Holders = {}
    BY DEF Init, Holders
  <2>2. QED
    BY <2>1, FS_EmptySet, ServerAssumption DEF Init, PermitsConserved
<1>2. Base /\ PermitsConserved /\ [Next]_vars => PermitsConserved'
  <2> SUFFICES ASSUME Base, PermitsConserved, [Next]_vars
               PROVE  PermitsConserved'
    OBVIOUS
  <2>1. Cardinality(Holders) \in Nat /\ permits \in Nat /\ MaxRuns \in Nat
    BY HoldersFinite, FS_CardinalityType, ServerAssumption DEF Base, TypeInv
  <2>2. ASSUME NEW r \in Requests, Admit(r) PROVE PermitsConserved'
    <3>1. Cardinality(Holders') = Cardinality(Holders) + 1
      BY <2>2, HoldersStep, HoldersFinite, FS_AddElement
    <3>2. QED
      BY <2>1, <2>2, <3>1 DEF PermitsConserved, Admit
  <2>3. ASSUME NEW r \in Requests, Release(r) PROVE PermitsConserved'
    <3>1. Cardinality(Holders') = Cardinality(Holders) - 1
      BY <2>3, HoldersStep, HoldersFinite, FS_RemoveElement
    <3>2. QED
      BY <2>1, <2>3, <3>1 DEF PermitsConserved, Release
  <2>4. ASSUME permits' = permits, Holders' = Holders PROVE PermitsConserved'
    BY <2>4 DEF PermitsConserved
  <2>5. ASSUME NEW r \in Requests, Refuse(r) \/ Client(r) PROVE PermitsConserved'
    BY <2>4, <2>5, HoldersStep DEF Refuse, Client, Read, EndOfStream, Leave
  <2>6. ASSUME NEW r \in Requests, Worker(r), ~Release(r) PROVE PermitsConserved'
    <3>1. permits' = permits
      BY <2>6 DEF Worker, Send, SendFails, WorkSucceeds, WorkFails, WorkPanics, Close
    <3>2. QED
      BY <2>4, <2>6, <3>1, HoldersStep
  <2>7. CASE UNCHANGED vars
    BY <2>4, <2>7 DEF vars, Holders
  <2>8. QED
    BY <2>2, <2>3, <2>5, <2>6, <2>7 DEF Next
<1>3. QED
  BY <1>1, <1>2, BaseInvariant, PTL DEF Safety

(* The semaphore counts the workers alive: every permit is accounted for. *)
THEOREM PermitsAreConserved == Spec => []PermitsConserved
BY PermitsInvariant, PTL DEF Spec, Safety

LEMMA TypeInvariant == Safety => []TypeOK
<1>1. Base /\ PermitsConserved => TypeOK
  <2> SUFFICES ASSUME Base, PermitsConserved PROVE TypeOK
    OBVIOUS
  <2>1. Cardinality(Holders) \in Nat
    BY HoldersFinite, FS_CardinalityType
  <2>2. permits \in 0 .. MaxRuns
    BY <2>1, ServerAssumption DEF Base, TypeInv, PermitsConserved
  <2>3. QED
    BY <2>2 DEF TypeOK, Base, TypeInv
<1>2. QED
  BY <1>1, BaseInvariant, PermitsInvariant, PTL

(* Every variable keeps its type. *)
THEOREM TypeCorrect == Spec => []TypeOK
BY TypeInvariant, PTL DEF Spec, Safety

-----------------------------------------------------------------------------
(* Room in the channel. *)

(* At most how many events, those still due for tool calls included, a worker *)
(* has sent when it gets to p.                                                *)
MostSent(p) ==
  CASE p = "generating_lua"            -> 0
    [] p \in {"llm", "lua_ready"}      -> 1
    [] p = "compiling"                 -> 2
    [] p \in {"compile", "executing"}  -> 3
    [] p = "execute"                   -> 4
    [] p \in {"tool_call", "proving"}  -> 4 + MaxToolCalls
    [] p \in {"prove", "complete"}     -> 5 + MaxToolCalls
    [] p = "verifying_on_chain"        -> 6 + MaxToolCalls
    [] OTHER                           -> 7 + MaxToolCalls

LEMMA MostSentTable ==
  /\ MostSent("generating_lua") = 0
  /\ MostSent("llm") = 1 /\ MostSent("lua_ready") = 1
  /\ MostSent("compiling") = 2
  /\ MostSent("compile") = 3 /\ MostSent("executing") = 3
  /\ MostSent("execute") = 4
  /\ MostSent("tool_call") = 4 + MaxToolCalls
  /\ MostSent("proving") = 4 + MaxToolCalls
  /\ MostSent("prove") = 5 + MaxToolCalls
  /\ MostSent("complete") = 5 + MaxToolCalls
  /\ MostSent("verifying_on_chain") = 6 + MaxToolCalls
  /\ MostSent("verify") = 7 + MaxToolCalls
  /\ MostSent("verified_on_chain") = 7 + MaxToolCalls
  /\ MostSent("error") = 7 + MaxToolCalls
BY Zenon DEF MostSent

(* What is in the channel has been sent. *)
Budget ==
  \A r \in Requests :
    pc[r] \in Announcing \cup Working =>
      Len(chan[r]) + calls[r] <= MostSent(pc[r])

(* A worker moves on only when the event it sends fits its budget. *)
LEMMA SendBudget ==
  ASSUME NEW e \in Announcing, NEW n \in Nat, NEW m \in Nat,
         e = "tool_call" => n > 0,  e # "tool_call" => n = 0,
         m + n <= MostSent(e),
         AfterSend(e, n) \in Announcing \cup Working
  PROVE  m + 1 + (IF e = "tool_call" THEN n - 1 ELSE n) <= MostSent(AfterSend(e, n))
BY MostSentTable, AfterSendTable, ServerAssumption

LEMMA WorkBudget ==
  ASSUME NEW w \in Working, NEW n \in Transcripts(w), NEW m \in Nat,
         m <= MostSent(w)
  PROVE  /\ m + n <= MostSent(AfterWork(w, n))
         /\ m <= MostSent("error")
BY MostSentTable, AfterWorkTable, ServerAssumption DEF Transcripts

LEMMA BudgetInvariant == Safety => []Budget
<1>1. Init => Budget
  BY DEF Init, Budget
<1>2. Base /\ Budget /\ [Next]_vars => Budget'
  <2> SUFFICES ASSUME Base, Budget, [Next]_vars,
                      NEW q \in Requests, pc'[q] \in Announcing \cup Working
               PROVE  Len(chan'[q]) + calls'[q] <= MostSent(pc'[q])
    BY DEF Budget
  <2> DEFINE Goal == Len(chan'[q]) + calls'[q] <= MostSent(pc'[q])
  <2>1. /\ chan[q] \in Seq(Events) /\ Len(chan[q]) \in Nat /\ calls[q] \in Nat
        /\ calls[q] \in 0 .. MaxToolCalls
        /\ pc[q] \in Announcing \cup Working =>
             Len(chan[q]) + calls[q] <= MostSent(pc[q])
    BY ServerAssumption DEF Base, TypeInv, Budget
  <2>2. ASSUME chan'[q] = chan[q], calls'[q] = calls[q], pc'[q] = pc[q] PROVE Goal
    BY <2>1, <2>2
  <2>3. ASSUME NEW r \in Requests, r # q, Admit(r) \/ Refuse(r) \/ Worker(r) \/ Client(r)
        PROVE  Goal
    <3>1. chan'[q] = chan[q] /\ calls'[q] = calls[q] /\ pc'[q] = pc[q]
      BY <2>3 DEF Base, TypeInv, Admit, Refuse, Worker, Send, SendFails,
         WorkSucceeds, WorkFails, WorkPanics, Close, Release, Client, Read,
         EndOfStream, Leave
    <3>2. QED
      BY <2>2, <3>1
  <2>4. ASSUME Admit(q) PROVE Goal
    <3>1. chan[q] = <<>> /\ calls[q] = 0
      BY <2>4 DEF Admit, Base, Linked
    <3>2. QED
      BY <2>4, <3>1, MostSentTable DEF Admit, Base, TypeInv
  <2>5. ASSUME Send(q) PROVE Goal
    <3>1. /\ pc[q] = "tool_call" => calls[q] > 0
          /\ pc[q] # "tool_call" => calls[q] = 0
      BY <2>5 DEF Send, Base, Linked
    <3>2. /\ Len(chan'[q]) = Len(chan[q]) + 1
          /\ pc'[q] = AfterSend(pc[q], calls[q])
          /\ calls'[q] = IF pc[q] = "tool_call" THEN calls[q] - 1 ELSE calls[q]
      BY <2>1, <2>5 DEF Send, Base, TypeInv
    <3>3. /\ pc[q] \in Announcing
          /\ AfterSend(pc[q], calls[q]) \in Announcing \cup Working
      BY <2>5, <3>2 DEF Send
    <3>4. Len(chan[q]) + 1 + (IF pc[q] = "tool_call" THEN calls[q] - 1 ELSE calls[q])
            <= MostSent(AfterSend(pc[q], calls[q]))
      BY <2>1, <3>1, <3>3, SendBudget
    <3>5. QED
      BY <3>2, <3>4
  <2>6. ASSUME SendFails(q) PROVE Goal
    <3>1. chan[q] = <<>> /\ chan'[q] = <<>>
      BY <2>6 DEF SendFails, Base, Linked
    <3>2. calls'[q] = 0 /\ pc'[q] \in {"error", "close"}
      BY <2>6 DEF SendFails, Base, TypeInv
    <3>3. QED
      BY <3>1, <3>2, MostSentTable, ServerAssumption
  <2>7. ASSUME WorkSucceeds(q) PROVE Goal
    <3>1. PICK n \in Transcripts(pc[q]) :
            calls'[q] = n /\ pc'[q] = AfterWork(pc[q], n)
      BY <2>7 DEF WorkSucceeds, Base, TypeInv
    <3>2. calls[q] = 0 /\ chan'[q] = chan[q]
      BY <2>7 DEF WorkSucceeds, Base, Linked
    <3>3. QED
      BY <2>1, <2>7, <3>1, <3>2, WorkBudget DEF WorkSucceeds
  <2>8. ASSUME WorkFails(q) PROVE Goal
    <3>1. calls[q] = 0 /\ calls'[q] = 0 /\ chan'[q] = chan[q] /\ pc'[q] = "error"
      BY <2>8 DEF WorkFails, Base, TypeInv, Linked
    <3>2. 0 \in Transcripts(pc[q])
      BY ServerAssumption DEF Transcripts
    <3>3. QED
      BY <2>1, <2>8, <3>1, <3>2, WorkBudget, MostSentTable DEF WorkFails
  <2>9. ASSUME WorkPanics(q) \/ Close(q) \/ Release(q) PROVE Goal
    BY <2>9 DEF WorkPanics, Close, Release, Base, TypeInv
  <2>10. ASSUME Read(q) PROVE Goal
    <3>1. Len(chan'[q]) = Len(chan[q]) - 1
      BY <2>1, <2>10 DEF Read, Base, TypeInv
    <3>2. pc'[q] = pc[q] /\ calls'[q] = calls[q]
      BY <2>10 DEF Read
    <3>3. pc[q] \in Announcing \cup Working => MostSent(pc[q]) \in Nat
      BY MostSentTable, ServerAssumption
    <3>4. QED
      BY <2>1, <3>1, <3>2, <3>3
  <2>11. ASSUME Leave(q) PROVE Goal
    <3>1. /\ Len(chan'[q]) = 0 /\ pc'[q] = pc[q] /\ calls'[q] = calls[q]
      BY <2>11 DEF Leave, Base, TypeInv
    <3>2. pc[q] \in Announcing \cup Working => MostSent(pc[q]) \in Nat
      BY MostSentTable, ServerAssumption
    <3>3. QED
      BY <2>1, <3>1, <3>2
  <2>12. CASE Refuse(q) \/ EndOfStream(q) \/ UNCHANGED vars
    BY <2>2, <2>12 DEF Refuse, EndOfStream, vars
  <2>13. QED
    BY <2>3, <2>4, <2>5, <2>6, <2>7, <2>8, <2>9, <2>10, <2>11, <2>12
       DEF Next, Worker, Client
<1>3. QED
  BY <1>1, <1>2, BaseInvariant, PTL DEF Safety

(* There is always room for the event a worker is about to send. *)
THEOREM WorkersNeverBlock == Spec => []NeverBlocksOnClient
<1>1. Base /\ Budget => NeverBlocksOnClient
  <2> SUFFICES ASSUME Base, Budget, NEW r \in Requests, pc[r] \in Announcing
               PROVE  Len(chan[r]) < ChanCap
    BY DEF NeverBlocksOnClient
  <2>1. Len(chan[r]) \in Nat /\ calls[r] \in Nat
    BY ServerAssumption DEF Base, TypeInv
  <2>2. Len(chan[r]) + calls[r] <= MostSent(pc[r])
    BY DEF Budget
  <2>3. MostSent(pc[r]) <= 7 + MaxToolCalls /\ MostSent(pc[r]) \in Nat
    BY MostSentTable, ServerAssumption
  <2>4. QED
    BY <2>1, <2>2, <2>3, ServerAssumption DEF FixedEvents
<1>2. QED
  BY <1>1, BaseInvariant, BudgetInvariant, PTL DEF Spec, Safety

-----------------------------------------------------------------------------
(* The order of a stream. *)

(* b may stand right after a. *)
Fits(a, b) ==
  /\ b.stage \in MayFollow(a.stage)
  /\ b.stage = "error" => b.at = a.stage

(* The events q may come, in this order, after the event s. *)
Chained(s, q) ==
  \A i \in 1 .. Len(q) : Fits(IF i = 1 THEN s ELSE q[i - 1], q[i])

Latest(s, q) == IF q = <<>> THEN s ELSE q[Len(q)]

LEMMA ChainedAppend ==
  ASSUME NEW s \in Events, NEW q \in Seq(Events), NEW e \in Events,
         Chained(s, q), Fits(Latest(s, q), e)
  PROVE  Chained(s, Append(q, e)) /\ Latest(s, Append(q, e)) = e
<1> DEFINE p == Append(q, e)
<1>1. Len(p) = Len(q) + 1 /\ p[Len(p)] = e /\ p # <<>>
  OBVIOUS
<1>2. ASSUME NEW i \in 1 .. Len(p) PROVE Fits(IF i = 1 THEN s ELSE p[i - 1], p[i])
  <2>1. CASE i \in 1 .. Len(q)
    <3>1. p[i] = q[i] /\ (i # 1 => p[i - 1] = q[i - 1])
      BY <2>1
    <3>2. Fits(IF i = 1 THEN s ELSE q[i - 1], q[i])
      BY <2>1 DEF Chained
    <3>3. QED
      BY <3>1, <3>2
  <2>2. CASE i = Len(q) + 1
    <3>1. (IF i = 1 THEN s ELSE p[i - 1]) = Latest(s, q)
      BY <2>2 DEF Latest
    <3>2. QED
      BY <1>1, <2>2, <3>1
  <2>3. QED
    BY <1>1, <2>1, <2>2
<1>3. QED
  BY <1>1, <1>2 DEF Chained, Latest

LEMMA ChainedTail ==
  ASSUME NEW s \in Events, NEW q \in Seq(Events), q # <<>>, Chained(s, q)
  PROVE  Chained(Head(q), Tail(q)) /\ Latest(Head(q), Tail(q)) = Latest(s, q)
<1>1. Len(Tail(q)) = Len(q) - 1 /\ Head(q) = q[1]
  OBVIOUS
<1>2. ASSUME NEW i \in 1 .. Len(Tail(q))
      PROVE  Fits(IF i = 1 THEN Head(q) ELSE Tail(q)[i - 1], Tail(q)[i])
  <2>1. /\ Tail(q)[i] = q[i + 1]
        /\ (IF i = 1 THEN Head(q) ELSE Tail(q)[i - 1]) = q[i]
    BY <1>1
  <2>2. Fits(q[i], q[i + 1])
    <3>1. i + 1 \in 1 .. Len(q) /\ i + 1 # 1 /\ (i + 1) - 1 = i
      BY <1>1
    <3>2. QED
      BY <3>1 DEF Chained
  <2>3. QED
    BY <2>1, <2>2
<1>3. Latest(Head(q), Tail(q)) = Latest(s, q)
  <2>1. CASE Tail(q) = <<>>
    <3>1. Len(q) = 1
      BY <1>1, <2>1
    <3>2. QED
      BY <1>1, <2>1, <3>1 DEF Latest
  <2>2. CASE Tail(q) # <<>>
    <3>1. Tail(q) \in Seq(Events) /\ Len(Tail(q)) \in 1 .. Len(q) - 1
      BY <1>1, <2>2
    <3>2. Tail(q)[Len(Tail(q))] = q[Len(q)]
      BY <1>1, <3>1
    <3>3. QED
      BY <2>2, <3>2 DEF Latest
  <2>3. QED
    BY <2>1, <2>2
<1>4. QED
  BY <1>2, <1>3 DEF Chained

LEMMA MayFollowTable ==
  /\ MayFollow("none") = {"generating_lua"}
  /\ MayFollow("generating_lua") = {"lua_ready", "error"}
  /\ MayFollow("lua_ready") = {"compiling"}
  /\ MayFollow("compiling") = {"executing", "error"}
  /\ MayFollow("executing") = {"tool_call", "proving", "error"}
  /\ MayFollow("tool_call") = {"tool_call", "proving"}
  /\ MayFollow("proving") = {"complete", "error"}
  /\ MayFollow("complete") = {"verifying_on_chain"}
  /\ MayFollow("verifying_on_chain") = {"verified_on_chain", "error"}
BY Zenon DEF MayFollow

(* What the position of a worker says about the last event a listening client *)
(* got or is to get.                                                           *)
Due(p, f, last) ==
  /\ p \in Announcing => p \in MayFollow(last.stage)
  /\ p = "error" => f = last.stage
  /\ p \in Working => last.stage = StageOf(p)
  /\ p \in {"close", "release", "exited"} =>
       \/ last.stage = "verified_on_chain"
       \/ last.stage = "error" /\ last.at = f
       \/ f = "panic"

Streams ==
  \A r \in Requests :
    /\ Chained(seen[r], chan[r])
    /\ conn[r] = "idle" => seen[r] = Nothing
    /\ conn[r] = "open" => Due(pc[r], fault[r], Latest(seen[r], chan[r]))
    /\ conn[r] = "ended" =>
         /\ pc[r] \in {"release", "exited"}
         /\ Due(pc[r], fault[r], seen[r])

(* A send keeps to the order of the pipeline... *)
LEMMA DueAfterSend ==
  ASSUME NEW p \in Announcing, NEW f \in Faults, NEW n, NEW last \in Events,
         Due(p, f, last)
  PROVE  LET e == Event(p, IF p = "error" THEN f ELSE "none")
         IN  Fits(last, e) /\ Due(AfterSend(p, n), f, e)
<1> DEFINE e == Event(p, IF p = "error" THEN f ELSE "none")
<1>1. e.stage = p /\ (p = "error" => e.at = f)
  BY DEF Event
<1> HIDE DEF e
<1>2. Fits(last, e)
  BY <1>1 DEF Fits, Due
<1>3. Due(AfterSend(p, n), f, e)
  <2>1. CASE p \in {"generating_lua", "compiling", "executing", "proving", "verifying_on_chain"}
    BY <1>1, <2>1, AfterSendTable, StageOfTable DEF Due
  <2>2. CASE p \in {"lua_ready", "complete"}
    BY <1>1, <2>2, AfterSendTable, MayFollowTable DEF Due
  <2>3. CASE p = "tool_call"
    BY <1>1, <2>3, AfterSendTable, MayFollowTable DEF Due
  <2>4. CASE p \in {"verified_on_chain", "error"}
    BY <1>1, <2>4, AfterSendTable DEF Due
  <2>5. QED
    BY <2>1, <2>2, <2>3, <2>4
<1>4. QED
  BY <1>2, <1>3 DEF e

(* ...and so does finished or failed work. *)
LEMMA DueAfterWork ==
  ASSUME NEW w \in Working, NEW f, NEW n, NEW last \in Events, Due(w, f, last)
  PROVE  /\ Due(AfterWork(w, n), f, last)
         /\ Due("error", StageOf(w), last)
         /\ Due("close", "panic", last)
BY AfterWorkTable, MayFollowTable, StageOfTable DEF Due

LEMMA StreamsInvariant == Safety => []Streams
<1>1. Init => Streams
  BY DEF Init, Streams, Chained
<1>2. Base /\ Streams /\ [Next]_vars => Streams'
  <2> SUFFICES ASSUME Base, Streams, [Next]_vars, NEW q \in Requests
               PROVE  /\ Chained(seen[q], chan[q])'
                      /\ conn'[q] = "idle" => seen'[q] = Nothing
                      /\ conn'[q] = "open" => Due(pc[q], fault[q], Latest(seen[q], chan[q]))'
                      /\ conn'[q] = "ended" => /\ pc'[q] \in {"release", "exited"}
                                               /\ Due(pc[q], fault[q], seen[q])'
    BY DEF Streams
  <2> DEFINE Goal ==
        /\ Chained(seen'[q], chan'[q])
        /\ conn'[q] = "idle" => seen'[q] = Nothing
        /\ conn'[q] = "open" => Due(pc'[q], fault'[q], Latest(seen'[q], chan'[q]))
        /\ conn'[q] = "ended" => /\ pc'[q] \in {"release", "exited"}
                                 /\ Due(pc'[q], fault'[q], seen'[q])
  <2>1. /\ Chained(seen[q], chan[q])
        /\ conn[q] = "idle" => seen[q] = Nothing
        /\ conn[q] = "open" => Due(pc[q], fault[q], Latest(seen[q], chan[q]))
        /\ conn[q] = "ended" => /\ pc[q] \in {"release", "exited"}
                                /\ Due(pc[q], fault[q], seen[q])
    BY DEF Streams
  <2>2. ASSUME seen'[q] = seen[q], chan'[q] = chan[q], pc'[q] = pc[q],
               fault'[q] = fault[q], conn'[q] = conn[q]
        PROVE  Goal
    BY <2>1, <2>2
  <2>3. ASSUME NEW r \in Requests, r # q, Admit(r) \/ Refuse(r) \/ Worker(r) \/ Client(r)
        PROVE  Goal
    <3>1. /\ seen'[q] = seen[q] /\ chan'[q] = chan[q] /\ pc'[q] = pc[q]
          /\ fault'[q] = fault[q] /\ conn'[q] = conn[q]
      BY <2>3 DEF Base, TypeInv, Admit, Refuse, Worker, Send, SendFails,
         WorkSucceeds, WorkFails, WorkPanics, Close, Release, Client, Read,
         EndOfStream, Leave
    <3>2. QED
      BY <2>2, <3>1
  <2>4. /\ seen[q] \in Events /\ chan[q] \in Seq(Events) /\ fault[q] \in Faults
        /\ Latest(seen[q], chan[q]) \in Events
        /\ conn[q] # "open" => chan[q] = <<>>
        /\ pc[q] = "none" <=> conn[q] \in {"idle", "refused"}
    BY DEF Base, TypeInv, Linked, Latest
  <2>5. CASE Admit(q)
    <3>1. /\ conn'[q] = "open" /\ pc'[q] = "generating_lua"
          /\ seen'[q] = Nothing /\ chan'[q] = <<>>
      BY <2>1, <2>4, <2>5 DEF Admit, Base, TypeInv
    <3>2. Nothing.stage = "none"
      BY DEF Nothing, Event
    <3>3. QED
      BY <3>1, <3>2, MayFollowTable DEF Chained, Due, Latest
  <2>6. CASE Refuse(q)
    BY <2>1, <2>4, <2>6 DEF Refuse, Base, TypeInv
  <2>7. CASE Send(q)
    <3> DEFINE e == Event(pc[q], IF pc[q] = "error" THEN fault[q] ELSE "none")
    <3>1. /\ conn[q] = "open" /\ conn'[q] = "open" /\ pc[q] \in Announcing
          /\ seen'[q] = seen[q] /\ fault'[q] = fault[q]
          /\ chan'[q] = Append(chan[q], e)
          /\ pc'[q] = AfterSend(pc[q], calls[q])
      BY <2>7 DEF Send, Base, TypeInv
    <3>2. e \in Events
      BY <2>4, <3>1, EventTypes DEF Faults
    <3>3. Fits(Latest(seen[q], chan[q]), e) /\ Due(AfterSend(pc[q], calls[q]), fault[q], e)
      BY <2>1, <2>4, <3>1, DueAfterSend
    <3> HIDE DEF e
    <3>4. Chained(seen[q], Append(chan[q], e)) /\ Latest(seen[q], Append(chan[q], e)) = e
      BY <2>1, <2>4, <3>2, <3>3, ChainedAppend
    <3>5. QED
      BY <3>1, <3>3, <3>4
  <2>8. CASE SendFails(q)
    <3>1. /\ conn'[q] = conn[q] /\ seen'[q] = seen[q] /\ chan'[q] = chan[q]
          /\ pc[q] \in Announcing /\ conn[q] \notin {"open", "idle", "ended"}
      BY <2>1, <2>4, <2>8 DEF SendFails
    <3>2. QED
      BY <2>1, <3>1
  <2>9. CASE WorkSucceeds(q)
    <3>1. PICK n : pc'[q] = AfterWork(pc[q], n)
      BY <2>9 DEF WorkSucceeds, Base, TypeInv
    <3>2. /\ conn'[q] = conn[q] /\ seen'[q] = seen[q] /\ chan'[q] = chan[q]
          /\ fault'[q] = fault[q] /\ pc[q] \in Working
      BY <2>9 DEF WorkSucceeds
    <3>3. QED
      BY <2>1, <2>4, <3>1, <3>2, DueAfterWork
  <2>10. CASE WorkFails(q)
    <3>1. /\ conn'[q] = conn[q] /\ seen'[q] = seen[q] /\ chan'[q] = chan[q]
          /\ pc[q] \in Working /\ pc'[q] = "error" /\ fault'[q] = StageOf(pc[q])
      BY <2>10 DEF WorkFails, Base, TypeInv
    <3>2. QED
      BY <2>1, <2>4, <3>1, DueAfterWork
  <2>11. CASE WorkPanics(q)
    <3>1. /\ conn'[q] = conn[q] /\ seen'[q] = seen[q] /\ chan'[q] = chan[q]
          /\ pc[q] \in Working /\ pc'[q] = "close" /\ fault'[q] = "panic"
      BY <2>11 DEF WorkPanics, Base, TypeInv
    <3>2. QED
      BY <2>1, <2>4, <3>1, DueAfterWork
  <2>12. CASE Close(q) \/ Release(q)
    <3>1. /\ conn'[q] = conn[q] /\ seen'[q] = seen[q] /\ chan'[q] = chan[q]
          /\ fault'[q] = fault[q] /\ pc[q] \in {"close", "release"}
          /\ pc'[q] \in {"release", "exited"}
      BY <2>12 DEF Close, Release, Base, TypeInv
    <3>2. QED
      BY <2>1, <3>1 DEF Due
  <2>13. CASE Read(q)
    <3>1. /\ conn'[q] = "open" /\ conn[q] = "open" /\ pc'[q] = pc[q] /\ fault'[q] = fault[q]
          /\ chan[q] # <<>> /\ seen'[q] = Head(chan[q]) /\ chan'[q] = Tail(chan[q])
      BY <2>13 DEF Read, Base, TypeInv
    <3>2. QED
      BY <2>1, <2>4, <3>1, ChainedTail
  <2>14. CASE EndOfStream(q)
    <3>1. /\ conn[q] = "open" /\ conn'[q] = "ended" /\ pc'[q] = pc[q]
          /\ fault'[q] = fault[q] /\ seen'[q] = seen[q]
          /\ chan[q] = <<>> /\ chan'[q] = <<>> /\ pc[q] \in {"release", "exited"}
      BY <2>14 DEF EndOfStream, SenderDropped, Base, TypeInv
    <3>2. QED
      BY <2>1, <3>1 DEF Latest
  <2>15. CASE Leave(q)
    <3>1. conn'[q] = "gone" /\ chan'[q] = <<>>
      BY <2>15 DEF Leave, Base, TypeInv
    <3>2. QED
      BY <3>1 DEF Chained
  <2>16. CASE UNCHANGED vars
    BY <2>2, <2>16 DEF vars
  <2>17. QED
    BY <2>3, <2>5, <2>6, <2>7, <2>8, <2>9, <2>10, <2>11, <2>12, <2>13, <2>14,
       <2>15, <2>16 DEF Next, Worker, Client
<1>3. QED
  BY <1>1, <1>2, BaseInvariant, PTL DEF Safety

(* The two invariants on the order of events speak of Pending(r). *)
LEMMA ChainedIsOrder ==
  ASSUME Base, NEW r \in Requests, Chained(seen[r], chan[r])
  PROVE  \A i \in 1 .. Len(chan[r]) : Fits(Pending(r)[i], Pending(r)[i + 1])
<1>1. seen[r] \in Events /\ chan[r] \in Seq(Events)
  BY DEF Base, TypeInv
<1>2. SUFFICES ASSUME NEW i \in 1 .. Len(chan[r])
               PROVE  Fits(Pending(r)[i], Pending(r)[i + 1])
  OBVIOUS
<1>3. Pending(r)[i + 1] = chan[r][i]
  BY <1>1 DEF Pending
<1>4. Pending(r)[i] = IF i = 1 THEN seen[r] ELSE chan[r][i - 1]
  BY <1>1 DEF Pending
<1>5. QED
  BY <1>3, <1>4 DEF Chained

(* Every stream keeps to the order of the pipeline. *)
THEOREM StreamsAreOrdered == Spec => []EventOrder
<1>1. Base /\ Streams => EventOrder
  BY ChainedIsOrder DEF Streams, EventOrder, Fits
<1>2. QED
  BY <1>1, BaseInvariant, StreamsInvariant, PTL DEF Spec, Safety

(* Every error a client gets names the stage it was told of last. *)
THEOREM ErrorsNameTheirStage == Spec => []ErrorNamesItsStage
<1>1. Base /\ Streams => ErrorNamesItsStage
  BY ChainedIsOrder DEF Streams, ErrorNamesItsStage, Fits
<1>2. QED
  BY <1>1, BaseInvariant, StreamsInvariant, PTL DEF Spec, Safety

(* Every stream that has ended told its client how, or its worker panicked. *)
THEOREM EndedStreamsAreConclusive == Spec => []EndedStreamIsConclusive
<1>1. Streams => EndedStreamIsConclusive
  BY DEF Streams, EndedStreamIsConclusive, Due
<1>2. QED
  BY <1>1, StreamsInvariant, PTL DEF Spec, Safety

-----------------------------------------------------------------------------
(* No work is started for a client who has left. *)
THEOREM OrphansStartNoWork == Spec => OrphanStartsNoWork
<1>1. ASSUME Base, Next, NEW r \in Requests, conn[r] = "gone", pc'[r] \in Working
      PROVE  pc[r] = pc'[r]
  <2>1. PICK q \in Requests : Admit(q) \/ Refuse(q) \/ Worker(q) \/ Client(q)
    BY <1>1 DEF Next
  <2>2. CASE q # r
    BY <1>1, <2>1, <2>2 DEF Base, TypeInv, Admit, Refuse, Worker, Send, SendFails,
       WorkSucceeds, WorkFails, WorkPanics, Close, Release, Client, Read,
       EndOfStream, Leave
  <2>3. CASE q = r
    <3>1. ~Admit(r) /\ ~Refuse(r) /\ ~Client(r) /\ ~Send(r)
      BY <1>1 DEF Admit, Refuse, Client, Read, EndOfStream, Leave, Send
    <3>2. ~SendFails(r) /\ ~WorkFails(r) /\ ~WorkPanics(r) /\ ~Close(r) /\ ~Release(r)
      BY <1>1 DEF SendFails, WorkFails, WorkPanics, Close, Release, Base, TypeInv
    <3>3. ~WorkSucceeds(r)
      <4> SUFFICES ASSUME WorkSucceeds(r) PROVE FALSE
        OBVIOUS
      <4>1. PICK n : pc'[r] = AfterWork(pc[r], n)
        BY <1>1 DEF WorkSucceeds, Base, TypeInv
      <4>2. QED
        BY <1>1, <4>1, AfterWorkTable DEF WorkSucceeds
    <3>4. QED
      BY <2>1, <2>3, <3>1, <3>2, <3>3 DEF Worker
  <2>4. QED
    BY <2>2, <2>3
<1>2. Base /\ [Next]_vars =>
        [\A r \in Requests : conn[r] = "gone" /\ pc'[r] \in Working => pc[r] = pc'[r]]_vars
  BY <1>1
<1>3. QED
  BY <1>2, BaseInvariant, PTL DEF Spec, Safety, OrphanStartsNoWork

-----------------------------------------------------------------------------
(* RunSlots counts with its own copy of Cardinality. *)
LEMMA SameCardinality == \A S : Slots!Cardinality(S) = Cardinality(S)
BY Zenon DEF Slots!Cardinality, Cardinality

(* The server admits as RunSlots says: it refuses only when every slot is      *)
(* taken, and only a run's own Release gives its slot back.                    *)
THEOREM ImplementsAdmission == Spec => ImplementsRunSlots
<1>1. Init => Slots!Init
  BY DEF Init, Slots!Init, Holders
<1>2. Base /\ PermitsConserved /\ [Next]_vars => [Slots!Next]_Slots!vars
  <2> SUFFICES ASSUME Base, PermitsConserved, [Next]_vars
               PROVE  [Slots!Next]_Slots!vars
    OBVIOUS
  <2> DEFINE Fresh == {r \in Requests : conn[r] = "idle"}
             Refused == {r \in Requests : conn[r] = "refused"}
  <2>1. Cardinality(Holders) \in Nat /\ permits \in Nat /\ MaxRuns \in Nat
    BY HoldersFinite, FS_CardinalityType, ServerAssumption DEF Base, TypeInv
  <2>2. ASSUME NEW r \in Requests, Admit(r) PROVE Slots!Admit(r)
    <3>1. Holders' = Holders \cup {r}
      BY <2>2, HoldersStep
    <3>2. Cardinality(Holders) < MaxRuns
      BY <2>1, <2>2 DEF Admit, PermitsConserved
    <3>3. r \in Fresh /\ Fresh' = Fresh \ {r} /\ Refused' = Refused
      BY <2>2 DEF Admit, Base, TypeInv
    <3>4. QED
      BY <3>1, <3>2, <3>3, SameCardinality DEF Slots!Admit
  <2>3. ASSUME NEW r \in Requests, Refuse(r) PROVE Slots!Refuse(r)
    <3>1. Holders' = Holders
      BY <2>3, HoldersStep
    <3>2. Cardinality(Holders) = MaxRuns
      BY <2>1, <2>3 DEF Refuse, PermitsConserved
    <3>3. r \in Fresh /\ Fresh' = Fresh \ {r} /\ Refused' = Refused \cup {r}
      BY <2>3 DEF Refuse, Base, TypeInv
    <3>4. QED
      BY <3>1, <3>2, <3>3, SameCardinality DEF Slots!Refuse
  <2>4. ASSUME NEW r \in Requests, Release(r) PROVE Slots!Leave(r)
    <3>1. r \in Holders /\ Holders' = Holders \ {r}
      BY <2>4, HoldersStep
    <3>2. Fresh' = Fresh /\ Refused' = Refused
      BY <2>4 DEF Release
    <3>3. QED
      BY <3>1, <3>2 DEF Slots!Leave
  <2>5. ASSUME NEW r \in Requests, Worker(r) \/ Client(r), ~Release(r)
        PROVE  UNCHANGED Slots!vars
    <3>1. Holders' = Holders
      BY <2>5, HoldersStep
    <3>2. Fresh' = Fresh /\ Refused' = Refused
      BY <2>5 DEF Worker, Send, SendFails, WorkSucceeds, WorkFails, WorkPanics,
         Close, Client, Read, EndOfStream, Leave, Base, TypeInv
    <3>3. QED
      BY <3>1, <3>2 DEF Slots!vars
  <2>6. CASE UNCHANGED vars
    BY <2>6 DEF vars, Slots!vars, Holders
  <2>7. QED
    BY <2>2, <2>3, <2>4, <2>5, <2>6 DEF Next, Slots!Next
<1>3. QED
  BY <1>1, <1>2, BaseInvariant, PermitsInvariant, PTL
     DEF Spec, Safety, ImplementsRunSlots, Slots!Spec

=============================================================================
