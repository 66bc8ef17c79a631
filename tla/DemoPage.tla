------------------------------ MODULE DemoPage ------------------------------
(***************************************************************************)
(* The demo's page (proveno-demo/static/app.js), together with the server  *)
(* it talks to.  Submitting a task resets the page and starts a read loop; *)
(* every loop hands the events of its stream to the same handleEvent,      *)
(* which writes to the same elements whichever run the event belongs to.   *)
(*                                                                         *)
(* The button is disabled while a run is on, but it is enabled again at    *)
(* "complete", when the stream still has the chain's answer to bring, and  *)
(* the Enter key does not look at it: a user may submit at any time.       *)
(***************************************************************************)
EXTENDS DemoServer

CONSTANTS
  AttackRows,  \* the rows of hashes an attack button marks
  NoRun,       \* what an empty element is about
  MaxClicks    \* bounds the clicks on attack buttons

ASSUME PageAssumption ==
  /\ NoRun \notin Requests
  /\ MaxClicks \in Nat

(* A timeout is known by the click that set it: a browser gives every      *)
(* timeout a number of its own, and none the number 0.                     *)
VARIABLES
  fetched,      \* the fetches the page has made, and those that failed
  current,      \* (history) the run submitted last
  overlapped,   \* (history) the runs it did not wait for
  page,         \* what the page shows, but for the marks of attacks
  tampered,     \* the rows an attack has marked
  attackTimers, \* for each row the timeout it remembers, or 0
  pending,      \* the timeouts the browser has not yet run or cleared
  clicks,       \* how often an attack button was clicked
  lastClick     \* (history) the last click for each row since the page was reset

attackVars == <<tampered, attackTimers, pending, clicks, lastClick>>
pageVars == <<fetched, current, overlapped, page, attackVars>>

-----------------------------------------------------------------------------
StepIds == {"generating", "compiling", "executing", "proving", "on_chain",
            "complete"}

(* Elements that show something of a run. *)
Elements == {"lua", "tools", "hashes", "attacks", "chain", "note"}

NoBanner == [kind |-> "hidden", run |-> NoRun]

(* steps: the classes of the rows; started, frozen, ticker: stepTimers; of: *)
(* the run an element is about.                                             *)
Blank == [disabled |-> FALSE,
          steps    |-> [i \in StepIds |-> "none"],
          started  |-> {},
          frozen   |-> {},
          ticker   |-> FALSE,
          banner   |-> NoBanner,
          of       |-> [x \in Elements |-> NoRun]]

(* A bug: of the two maps of stepTimers only one is cleared. *)
ResetUILosesStarts(p) ==
  [Blank EXCEPT !.disabled = p.disabled, !.frozen = p.frozen]

(* A bug: the hashes of the last run stay on the page. *)
ResetUIKeepsHashes(p) ==
  [Blank EXCEPT !.disabled = p.disabled, !.of["hashes"] = p.of["hashes"]]

(* resetUI: everything but the button and the marks. *)
ResetUI(p) == [Blank EXCEPT !.disabled = p.disabled]

(* setStep(i, state) for the states handleEvent uses. *)
SetStep(p, i, state) ==
  IF state = "active"
  THEN [p EXCEPT !.steps[i] = state, !.started = @ \cup {i}, !.ticker = TRUE]
  ELSE [p EXCEPT !.steps[i] = state,
                 !.frozen = IF i \in p.started THEN @ \cup {i} ELSE @]

Show(p, x, r) == [p EXCEPT !.of[x] = r]
Banner(p, kind, r) == [p EXCEPT !.banner = [kind |-> kind, run |-> r],
                                !.of["note"] = NoRun]
Enable(p) == [p EXCEPT !.disabled = FALSE]

(* A bug: the rows stay as they were when an error ends the run. *)
ErrorLeavesSteps(p, r) ==
  Enable([Banner(p, "failure", r) EXCEPT !.ticker = FALSE])

(* case "error": every active row fails, whichever run made it active.     *)
OnError(p, r) ==
  LET failing == {i \in StepIds : p.steps[i] = "active"}
  IN  Enable([Banner(p, "failure", r) EXCEPT
        !.steps  = [i \in StepIds |-> IF i \in failing THEN "failed" ELSE @[i]],
        !.frozen = @ \cup (failing \cap p.started),
        !.ticker = FALSE])

(* A bug: hashes that are shown already are left alone. *)
CompleteShowsHashesOnce(p, r) ==
  LET q == Banner(SetStep(SetStep(p, "proving", "done"), "complete", "done"),
                  "success", r)
  IN  Enable(Show(IF p.of["hashes"] = NoRun THEN Show(q, "hashes", r) ELSE q,
                  "attacks", r))

(* A bug: the row of the proof is forgotten. *)
CompleteSkipsProving(p, r) ==
  Enable(Show(Show(Banner(SetStep(p, "complete", "done"), "success", r),
                   "hashes", r), "attacks", r))

(* case "complete" *)
OnComplete(p, r) ==
  Enable(Show(Show(
    Banner(SetStep(SetStep(p, "proving", "done"), "complete", "done"),
           "success", r), "hashes", r), "attacks", r))

(* case "verified_on_chain", with a note in whatever banner is visible. *)
OnVerified(p, r, accepted) ==
  IF accepted
  THEN LET q == Show(SetStep(p, "on_chain", "done"), "chain", r)
       IN  IF p.banner = NoBanner THEN q ELSE Show(q, "note", r)
  ELSE Banner(Show(SetStep(p, "on_chain", "failed"), "chain", r), "failure", r)

(* handleEvent *)
Handle(p, r, stage, accepted) ==
  CASE stage = "generating_lua"     -> SetStep(p, "generating", "active")
    [] stage = "lua_ready"          -> Show(SetStep(p, "generating", "done"), "lua", r)
    [] stage = "compiling"          -> SetStep(p, "compiling", "active")
    [] stage = "executing"          -> SetStep(SetStep(p, "compiling", "done"),
                                               "executing", "active")
    [] stage = "tool_call"          -> Show(p, "tools", r)
    [] stage = "proving"            -> SetStep(SetStep(p, "executing", "done"),
                                               "proving", "active")
    [] stage = "complete"           -> OnComplete(p, r)
    [] stage = "verifying_on_chain" -> Show(SetStep(p, "on_chain", "active"), "chain", r)
    [] stage = "verified_on_chain"  -> OnVerified(p, r, accepted)
    [] stage = "error"              -> OnError(p, r)

-----------------------------------------------------------------------------
(* The marks of attacks. *)

NoTimers == [row \in AttackRows |-> 0]

(* clearTimeout does nothing for one that has run. *)
Without(timeouts, cleared) == {t \in timeouts : t.click \notin cleared}

(* A bug: the timeouts are forgotten and not cleared. *)
ResetMarksOnly ==
  /\ tampered' = {}
  /\ attackTimers' = NoTimers
  /\ lastClick' = NoTimers
  /\ UNCHANGED <<pending, clicks>>

(* resetUI takes the marks off the rows, hideAttackSimulator clears the     *)
(* timeouts that are remembered.                                           *)
ResetMarks ==
  /\ tampered' = {}
  /\ pending' = Without(pending, {attackTimers[row] : row \in AttackRows})
  /\ attackTimers' = NoTimers
  /\ lastClick' = NoTimers
  /\ UNCHANGED clicks

(* A bug: an earlier timeout is replaced and not cleared. *)
TriggerAttackAgain(row) ==
  LET click == clicks + 1
  IN /\ clicks < MaxClicks
     /\ tampered' = tampered \cup {row}
     /\ pending' = pending \cup {[click |-> click, row |-> row]}
     /\ attackTimers' = [attackTimers EXCEPT ![row] = click]
     /\ clicks' = click
     /\ lastClick' = [lastClick EXCEPT ![row] = click]

(* The mark, and a timeout in place of the one remembered from before. *)
TriggerAttack(row) ==
  LET click == clicks + 1
  IN /\ clicks < MaxClicks
     /\ tampered' = tampered \cup {row}
     /\ pending' = Without(pending, {attackTimers[row]})
                     \cup {[click |-> click, row |-> row]}
     /\ attackTimers' = [attackTimers EXCEPT ![row] = click]
     /\ clicks' = click
     /\ lastClick' = [lastClick EXCEPT ![row] = click]

-----------------------------------------------------------------------------
PageInit ==
  /\ Init
  /\ fetched = [r \in Requests |-> "no"]
  /\ current = NoRun
  /\ overlapped = {}
  /\ page = Blank
  /\ tampered = {}
  /\ attackTimers = NoTimers
  /\ pending = {}
  /\ clicks = 0
  /\ lastClick = NoTimers

Over(r) == conn[r] \in {"ended", "gone", "refused"} \/ fetched[r] = "failed"

(* onSubmit: reset, disable the button, fetch. *)
Submit(r) ==
  /\ fetched[r] = "no"
  /\ fetched' = [fetched EXCEPT ![r] = "sent"]
  /\ current' = r
  /\ overlapped' = {q \in Requests : fetched[q] # "no" /\ ~Over(q)}
  /\ page' = [ResetUI(page) EXCEPT !.disabled = TRUE]
  /\ ResetMarks
  /\ UNCHANGED vars

(* The request reaches the server, and the response the page. *)
Accepted(r) ==
  /\ fetched[r] = "sent"
  /\ Admit(r)
  /\ UNCHANGED pageVars

Rejected(r) ==
  /\ fetched[r] = "sent"
  /\ Refuse(r)
  /\ page' = Enable(Banner(page, "failure", r))
  /\ UNCHANGED <<fetched, current, overlapped, attackVars>>

(* fetch rejects: the server has not seen the request. *)
NetworkError(r) ==
  /\ fetched[r] = "sent" /\ conn[r] = "idle"
  /\ fetched' = [fetched EXCEPT ![r] = "failed"]
  /\ page' = Enable(Banner(page, "failure", r))
  /\ UNCHANGED <<vars, current, overlapped, attackVars>>

(* The read loop of r gets its next event. *)
Receive(r) ==
  /\ Read(r)
  /\ \E accepted \in BOOLEAN :
       page' = Handle(page, r, Head(chan[r]).stage, accepted)
  /\ UNCHANGED <<fetched, current, overlapped, attackVars>>

(* The loop ends with its stream, or dies with its connection (the rejected *)
(* read is not caught): neither touches the page.                          *)
LoopEnds(r) ==
  /\ EndOfStream(r) \/ Leave(r)
  /\ UNCHANGED pageVars

Serve(r) ==
  /\ Worker(r)
  /\ UNCHANGED pageVars

(* The interval stops when every step that was started has been frozen. *)
Tick ==
  /\ page.ticker
  /\ page.started \subseteq page.frozen
  /\ page' = [page EXCEPT !.ticker = FALSE]
  /\ UNCHANGED <<vars, fetched, current, overlapped, attackVars>>

(* A click on an attack button, while the buttons are shown. *)
Attack(row) ==
  /\ page.of["attacks"] # NoRun
  /\ TriggerAttack(row)
  /\ UNCHANGED <<vars, fetched, current, overlapped, page>>

(* A timeout runs 3 s after its click, hence in the order of the clicks:   *)
(* clearTamper, and the row remembers no timeout.                          *)
AttackTimeout(t) ==
  /\ \A u \in pending : t.click <= u.click
  /\ pending' = pending \ {t}
  /\ tampered' = tampered \ {t.row}
  /\ attackTimers' = [attackTimers EXCEPT ![t.row] = 0]
  /\ UNCHANGED <<vars, fetched, current, overlapped, page, clicks, lastClick>>

Attacks ==
  \/ \E row \in AttackRows : Attack(row)
  \/ \E t \in pending : AttackTimeout(t)

PageNext ==
  \/ \E r \in Requests :
       \/ Submit(r) \/ Accepted(r) \/ Rejected(r) \/ NetworkError(r)
       \/ Receive(r) \/ LoopEnds(r)
       \/ Serve(r)
  \/ Tick
  \/ Attacks

PageSpec == PageInit /\ [][PageNext]_<<vars, pageVars>>

-----------------------------------------------------------------------------
Pages == [disabled : BOOLEAN,
          steps    : [StepIds -> {"none", "active", "done", "failed"}],
          started  : SUBSET StepIds,
          frozen   : SUBSET StepIds,
          ticker   : BOOLEAN,
          banner   : [kind : {"hidden", "success", "failure"},
                      run : Requests \cup {NoRun}],
          of       : [Elements -> Requests \cup {NoRun}]]

(* Every variable has its type, and only what was started is frozen. *)
PageTypeOK ==
  /\ TypeOK
  /\ fetched \in [Requests -> {"no", "sent", "failed"}]
  /\ current \in Requests \cup {NoRun}
  /\ overlapped \subseteq Requests
  /\ page \in Pages
  /\ page.frozen \subseteq page.started
  /\ clicks \in 0 .. MaxClicks
  /\ tampered \subseteq AttackRows
  /\ attackTimers \in [AttackRows -> 0 .. clicks]
  /\ lastClick \in [AttackRows -> 0 .. clicks]
  /\ pending \subseteq [click : 1 .. clicks, row : AttackRows]

(* What the page shows is of the run submitted last, or of one that was    *)
(* not over when it was submitted: a run that had ended, failed or lost    *)
(* its connection by then leaves nothing behind (resetUI, handleEvent).    *)
OnlyOverlapsMix ==
  LET shown == {page.banner.run} \cup {page.of[x] : x \in Elements}
  IN  shown \subseteq {NoRun, current} \cup overlapped

(* Every run the page started came to an end the page was told of. *)
Told(r) ==
  \/ conn[r] = "ended" /\ fault[r] # "panic"
  \/ conn[r] = "refused"
  \/ fetched[r] = "failed"
AllTold == \A r \in Requests : fetched[r] # "no" => Told(r)

(* When all of them have, the page is at rest, in whatever order the runs  *)
(* overlapped and wrote to it: the button is enabled, no row is active, a  *)
(* banner says something, and nothing is left that keeps the interval going *)
(* (the terminal cases of handleEvent, the early returns of runPipeline).  *)
RestsWhenAllIsTold ==
  AllTold /\ current # NoRun =>
    /\ ~page.disabled
    /\ \A i \in StepIds : page.steps[i] # "active"
    /\ page.banner.kind # "hidden"
    /\ page.started \subseteq page.frozen

(* Whatever user and interleaving, a banner that announces a result stands *)
(* beside the hashes of that very result, and the buttons that play with   *)
(* them (case "complete", resetUI).                                        *)
ResultStandsByItsHashes ==
  page.banner.kind = "success" =>
    /\ page.of["hashes"] = page.banner.run
    /\ page.of["attacks"] = page.banner.run

(* While a run that nothing overlaps is on, its rows advance in the order  *)
(* of the pipeline, whatever went before (setStep, resetUI).               *)
RowsAdvanceInOrder ==
  LET Before(i) == CASE i = "compiling" -> "generating"
                     [] i = "executing" -> "compiling"
                     [] i = "proving"   -> "executing"
                     [] i = "complete"  -> "proving"
                     [] i = "on_chain"  -> "complete"
  IN overlapped = {} =>
       \A i \in StepIds \ {"generating"} :
         page.steps[i] # "none" => page.steps[Before(i)] = "done"

(* A row is marked as tampered with for as long as the timeout of the last *)
(* click on its button runs: no timeout of an earlier click, or of one     *)
(* before the page was reset, takes the mark of a later click away, and no *)
(* mark is left without a timeout (triggerAttack, hideAttackSimulator,     *)
(* resetUI).                                                               *)
MarksLastTheirTime ==
  tampered = {row \in AttackRows :
                [click |-> lastClick[row], row |-> row] \in pending}

=============================================================================
