--------------------------- MODULE DemoPageProofs ---------------------------
(***************************************************************************)
(* Proofs about DemoPage, with its server, for every set of requests and   *)
(* of attack buttons.  The page refines nothing, but its server's part of  *)
(* every behaviour is one of DemoServer's: what is proved of the order of  *)
(* a stream's events there carries the proofs here.                        *)
(***************************************************************************)
EXTENDS DemoPage, DemoServerProofs

-----------------------------------------------------------------------------
(* What the pieces of handleEvent do to a page. *)

(* Only a row's time that runs can be stopped. *)
Timed == {p \in Pages : p.frozen \subseteq p.started}

(* p becomes q when the row i is set to state. *)
StepSet(p, q, i, state) ==
  /\ q \in Timed
  /\ q.steps = [p.steps EXCEPT ![i] = state]
  /\ q.banner = p.banner /\ q.of = p.of /\ q.disabled = p.disabled
  /\ q.started \ q.frozen \subseteq (p.started \ p.frozen) \cup {i}
  /\ state # "active" => i \notin q.started \ q.frozen

LEMMA SetStepPage ==
  ASSUME NEW p \in Timed,
         NEW i \in StepIds, NEW state \in {"active", "done", "failed"}
  PROVE  StepSet(p, SetStep(p, i, state), i, state)
BY DEF SetStep, StepSet, Timed, Pages

LEMMA ShowPage ==
  ASSUME NEW p \in Timed, NEW x \in Elements, NEW r \in Requests
  PROVE  LET q == Show(p, x, r)
         IN  /\ q \in Timed
             /\ q.of = [p.of EXCEPT ![x] = r]
             /\ q.steps = p.steps /\ q.started = p.started /\ q.frozen = p.frozen
             /\ q.banner = p.banner /\ q.disabled = p.disabled
BY DEF Show, Timed, Pages

LEMMA BannerPage ==
  ASSUME NEW p \in Timed, NEW k \in {"success", "failure"}, NEW r \in Requests
  PROVE  LET q == Banner(p, k, r)
         IN  /\ q \in Timed
             /\ q.of = [p.of EXCEPT !["note"] = NoRun]
             /\ q.steps = p.steps /\ q.started = p.started /\ q.frozen = p.frozen
             /\ q.banner = [kind |-> k, run |-> r] /\ q.disabled = p.disabled
BY DEF Banner, Timed, Pages, Elements

LEMMA EnablePage ==
  ASSUME NEW p \in Timed
  PROVE  LET q == Enable(p)
         IN  /\ q \in Timed
             /\ ~q.disabled
             /\ q.steps = p.steps /\ q.started = p.started /\ q.frozen = p.frozen
             /\ q.banner = p.banner /\ q.of = p.of
BY DEF Enable, Timed, Pages

LEMMA OnErrorPage ==
  ASSUME NEW p \in Timed, NEW r \in Requests
  PROVE  LET q == OnError(p, r)
         IN  /\ q \in Timed
             /\ q.started = p.started
             /\ q.frozen = p.frozen \cup {i \in p.started : p.steps[i] = "active"}
             /\ q.steps = [i \in StepIds |->
                             IF p.steps[i] = "active" THEN "failed" ELSE p.steps[i]]
             /\ q.of = [p.of EXCEPT !["note"] = NoRun]
             /\ q.banner = [kind |-> "failure", run |-> r] /\ ~q.disabled
<1> DEFINE b == Banner(p, "failure", r)
<1>1. /\ b \in Timed
      /\ b.of = [p.of EXCEPT !["note"] = NoRun]
      /\ b.steps = p.steps /\ b.started = p.started /\ b.frozen = p.frozen
      /\ b.banner = [kind |-> "failure", run |-> r]
  BY BannerPage DEF Timed
<1> HIDE DEF b
<1> DEFINE failing == {i \in StepIds : p.steps[i] = "active"}
           c == [b EXCEPT
                   !.steps  = [i \in StepIds |-> IF i \in failing THEN "failed" ELSE @[i]],
                   !.frozen = @ \cup (failing \cap p.started),
                   !.ticker = FALSE]
<1>2. /\ c \in Timed
      /\ c.started = p.started
      /\ c.frozen = p.frozen \cup {i \in p.started : p.steps[i] = "active"}
      /\ c.steps = [i \in StepIds |->
                      IF p.steps[i] = "active" THEN "failed" ELSE p.steps[i]]
      /\ c.of = b.of /\ c.banner = b.banner
  BY <1>1 DEF Timed, Pages
<1>3. OnError(p, r) = Enable(c)
  BY DEF OnError, b
<1> HIDE DEF c
<1>4. QED
  BY <1>1, <1>2, <1>3, EnablePage

-----------------------------------------------------------------------------
(* What the whole of handleEvent does to a page. *)

LEMMA HandleTable ==
  ASSUME NEW p, NEW r, NEW a
  PROVE  /\ Handle(p, r, "generating_lua", a) = SetStep(p, "generating", "active")
         /\ Handle(p, r, "lua_ready", a) = Show(SetStep(p, "generating", "done"), "lua", r)
         /\ Handle(p, r, "compiling", a) = SetStep(p, "compiling", "active")
         /\ Handle(p, r, "executing", a) =
              SetStep(SetStep(p, "compiling", "done"), "executing", "active")
         /\ Handle(p, r, "tool_call", a) = Show(p, "tools", r)
         /\ Handle(p, r, "proving", a) =
              SetStep(SetStep(p, "executing", "done"), "proving", "active")
         /\ Handle(p, r, "complete", a) = OnComplete(p, r)
         /\ Handle(p, r, "verifying_on_chain", a) =
              Show(SetStep(p, "on_chain", "active"), "chain", r)
         /\ Handle(p, r, "verified_on_chain", a) = OnVerified(p, r, a)
         /\ Handle(p, r, "error", a) = OnError(p, r)
BY Zenon DEF Handle

(* A step that has been started and not stopped is active. *)
OnlyActiveRun(p) == \A i \in p.started \ p.frozen : p.steps[i] = "active"

ResultShown(p) ==
  p.banner.kind = "success" =>
    /\ p.of["hashes"] = p.banner.run
    /\ p.of["attacks"] = p.banner.run

(* The page p becomes q at an event of the run r, whatever its rows do. *)
Touched(p, q, r) ==
  /\ q \in Timed
  /\ q.banner.run \in {p.banner.run, r}
  /\ \A x \in Elements : q.of[x] \in {p.of[x], r, NoRun}
  /\ q.disabled => p.disabled
  /\ q.banner.kind = "hidden" => p.banner.kind = "hidden"
  /\ OnlyActiveRun(p) => OnlyActiveRun(q)
  /\ ResultShown(p) => ResultShown(q)

LEMMA TouchedTwice ==
  ASSUME NEW p, NEW q, NEW s, NEW r, Touched(p, q, r), Touched(q, s, r)
  PROVE  Touched(p, s, r)
BY DEF Touched

LEMMA SetStepTouches ==
  ASSUME NEW p \in Timed, NEW r \in Requests,
         NEW i \in StepIds, NEW state \in {"active", "done", "failed"}
  PROVE  Touched(p, SetStep(p, i, state), r)
<1> DEFINE q == SetStep(p, i, state)
<1>1. StepSet(p, q, i, state)
  BY SetStepPage
<1> HIDE DEF q
<1>2. p.steps \in [StepIds -> {"none", "active", "done", "failed"}] /\ q.started \subseteq StepIds
  BY <1>1 DEF StepSet, Timed, Pages
<1>3. OnlyActiveRun(p) => OnlyActiveRun(q)
  BY <1>1, <1>2 DEF StepSet, OnlyActiveRun
<1>4. Touched(p, q, r)
  BY <1>1, <1>3 DEF StepSet, Touched, ResultShown
<1>5. QED
  BY <1>4 DEF q

LEMMA ShowTouches ==
  ASSUME NEW p \in Timed, NEW r \in Requests,
         NEW x \in Elements \ {"hashes", "attacks"}
  PROVE  Touched(p, Show(p, x, r), r)
<1> DEFINE q == Show(p, x, r)
<1>1. /\ q \in Timed
      /\ q.of = [p.of EXCEPT ![x] = r]
      /\ q.steps = p.steps /\ q.started = p.started /\ q.frozen = p.frozen
      /\ q.banner = p.banner /\ q.disabled = p.disabled
  BY ShowPage
<1> HIDE DEF q
<1>2. p.of \in [Elements -> Requests \cup {NoRun}]
  BY DEF Timed, Pages
<1>3. Touched(p, q, r)
  BY <1>1, <1>2 DEF Touched, ResultShown, OnlyActiveRun
<1>4. QED
  BY <1>3 DEF q

(* The rows after the event stage. *)
RowsAfter(rows, stage, accepted) ==
  CASE stage = "generating_lua"     -> [rows EXCEPT !["generating"] = "active"]
    [] stage = "lua_ready"          -> [rows EXCEPT !["generating"] = "done"]
    [] stage = "compiling"          -> [rows EXCEPT !["compiling"] = "active"]
    [] stage = "executing"          -> [rows EXCEPT !["compiling"] = "done",
                                                    !["executing"] = "active"]
    [] stage = "tool_call"          -> rows
    [] stage = "proving"            -> [rows EXCEPT !["executing"] = "done",
                                                    !["proving"] = "active"]
    [] stage = "complete"           -> [rows EXCEPT !["proving"] = "done",
                                                    !["complete"] = "done"]
    [] stage = "verifying_on_chain" -> [rows EXCEPT !["on_chain"] = "active"]
    [] stage = "verified_on_chain"  ->
         [rows EXCEPT !["on_chain"] = IF accepted THEN "done" ELSE "failed"]
    [] stage = "error"              ->
         [i \in StepIds |-> IF rows[i] = "active" THEN "failed" ELSE rows[i]]

LEMMA RowsAfterTable ==
  ASSUME NEW w, NEW a
  PROVE  /\ RowsAfter(w, "generating_lua", a) = [w EXCEPT !["generating"] = "active"]
         /\ RowsAfter(w, "lua_ready", a) = [w EXCEPT !["generating"] = "done"]
         /\ RowsAfter(w, "compiling", a) = [w EXCEPT !["compiling"] = "active"]
         /\ RowsAfter(w, "executing", a) =
              [w EXCEPT !["compiling"] = "done", !["executing"] = "active"]
         /\ RowsAfter(w, "tool_call", a) = w
         /\ RowsAfter(w, "proving", a) =
              [w EXCEPT !["executing"] = "done", !["proving"] = "active"]
         /\ RowsAfter(w, "complete", a) =
              [w EXCEPT !["proving"] = "done", !["complete"] = "done"]
         /\ RowsAfter(w, "verifying_on_chain", a) = [w EXCEPT !["on_chain"] = "active"]
         /\ RowsAfter(w, "verified_on_chain", a) =
              [w EXCEPT !["on_chain"] = IF a THEN "done" ELSE "failed"]
         /\ RowsAfter(w, "error", a) =
              [i \in StepIds |-> IF w[i] = "active" THEN "failed" ELSE w[i]]
BY Zenon DEF RowsAfter

(* Where the page is told that the run r is over. *)
LEMMA FailureTouches ==
  ASSUME NEW p \in Timed, NEW r \in Requests
  PROVE  LET q == Enable(Banner(p, "failure", r))
         IN  /\ Touched(p, q, r)
             /\ ~q.disabled /\ q.banner.kind # "hidden" /\ q.steps = p.steps
<1> DEFINE b == Banner(p, "failure", r)
           q == Enable(b)
<1>1. /\ b \in Timed
      /\ b.of = [p.of EXCEPT !["note"] = NoRun]
      /\ b.steps = p.steps /\ b.started = p.started /\ b.frozen = p.frozen
      /\ b.banner = [kind |-> "failure", run |-> r]
  BY BannerPage DEF Timed
<1> HIDE DEF b
<1>2. /\ q \in Timed
      /\ ~q.disabled
      /\ q.steps = b.steps /\ q.started = b.started /\ q.frozen = b.frozen
      /\ q.banner = b.banner /\ q.of = b.of
  BY <1>1, EnablePage
<1> HIDE DEF q
<1>3. Touched(p, q, r) /\ q.banner.kind = "failure"
  <2>1. p.of \in [Elements -> Requests \cup {NoRun}]
    BY DEF Timed, Pages
  <2>2. QED
    BY <1>1, <1>2, <2>1 DEF Touched, ResultShown, OnlyActiveRun
<1>4. QED
  BY <1>1, <1>2, <1>3 DEF b, q

LEMMA OnErrorTouches ==
  ASSUME NEW p \in Timed, NEW r \in Requests
  PROVE  LET q == OnError(p, r)
         IN  /\ Touched(p, q, r)
             /\ ~q.disabled /\ q.banner.kind # "hidden"
             /\ q.steps = [i \in StepIds |->
                            IF p.steps[i] = "active" THEN "failed" ELSE p.steps[i]]
<1> DEFINE q == OnError(p, r)
<1>1. /\ q \in Timed
      /\ q.started = p.started
      /\ q.frozen = p.frozen \cup {i \in p.started : p.steps[i] = "active"}
      /\ q.steps = [i \in StepIds |->
                      IF p.steps[i] = "active" THEN "failed" ELSE p.steps[i]]
      /\ q.of = [p.of EXCEPT !["note"] = NoRun]
      /\ q.banner = [kind |-> "failure", run |-> r] /\ ~q.disabled
  BY OnErrorPage
<1> HIDE DEF q
<1>2. OnlyActiveRun(p) => OnlyActiveRun(q)
  BY <1>1 DEF OnlyActiveRun
<1>3. p.of \in [Elements -> Requests \cup {NoRun}]
  BY DEF Timed, Pages
<1>4. Touched(p, q, r) /\ q.banner.kind = "failure"
  BY <1>1, <1>2, <1>3 DEF Touched, ResultShown
<1>5. QED
  BY <1>1, <1>4 DEF q

LEMMA OnCompleteTouches ==
  ASSUME NEW p \in Timed, NEW r \in Requests
  PROVE  LET q == OnComplete(p, r)
         IN  /\ Touched(p, q, r)
             /\ ~q.disabled /\ q.banner.kind # "hidden"
             /\ q.steps = [p.steps EXCEPT !["proving"] = "done", !["complete"] = "done"]
<1> DEFINE s == SetStep(p, "proving", "done")
           t == SetStep(s, "complete", "done")
           b == Banner(t, "success", r)
           h == Show(b, "hashes", r)
           k == Show(h, "attacks", r)
           q == Enable(k)
<1>0. /\ {"proving", "complete"} \subseteq StepIds
      /\ {"hashes", "attacks", "note"} \subseteq Elements
      /\ p.of \in [Elements -> Requests \cup {NoRun}]
  BY DEF StepIds, Elements, Timed, Pages
<1>1. Touched(p, s, r) /\ StepSet(p, s, "proving", "done")
  BY <1>0, SetStepTouches, SetStepPage
<1>2. s \in Timed
  BY <1>1 DEF StepSet
<1> HIDE DEF s
<1>3. Touched(s, t, r) /\ StepSet(s, t, "complete", "done")
  BY <1>0, <1>2, SetStepTouches, SetStepPage
<1>4. Touched(p, t, r)
  BY <1>1, <1>3, TouchedTwice
<1>5. t \in Timed
  BY <1>3 DEF StepSet
<1> HIDE DEF t
<1>6. /\ b \in Timed
      /\ b.of = [t.of EXCEPT !["note"] = NoRun]
      /\ b.steps = t.steps /\ b.started = t.started /\ b.frozen = t.frozen
      /\ b.banner = [kind |-> "success", run |-> r]
  BY <1>5, BannerPage DEF Timed
<1> HIDE DEF b
<1>7. /\ h \in Timed
      /\ h.of = [b.of EXCEPT !["hashes"] = r]
      /\ h.steps = b.steps /\ h.started = b.started /\ h.frozen = b.frozen
      /\ h.banner = b.banner
  BY <1>0, <1>6, ShowPage
<1> HIDE DEF h
<1>8. /\ k \in Timed
      /\ k.of = [h.of EXCEPT !["attacks"] = r]
      /\ k.steps = h.steps /\ k.started = h.started /\ k.frozen = h.frozen
      /\ k.banner = h.banner
  BY <1>0, <1>7, ShowPage
<1> HIDE DEF k
<1>9. /\ q \in Timed
      /\ ~q.disabled
      /\ q.steps = k.steps /\ q.started = k.started /\ q.frozen = k.frozen
      /\ q.banner = k.banner /\ q.of = k.of
  BY <1>8, EnablePage
<1>10. OnComplete(p, r) = q
  BY DEF OnComplete, q, k, h, b, t, s
<1> HIDE DEF q
<1>11. t.of \in [Elements -> Requests \cup {NoRun}]
  BY <1>5 DEF Timed, Pages
<1>12. Touched(t, q, r) /\ q.banner.kind = "success"
  <2>1. /\ q.banner.run = r /\ q.banner.kind = "success"
        /\ q.of["hashes"] = r /\ q.of["attacks"] = r
        /\ \A x \in Elements : q.of[x] \in {t.of[x], r, NoRun}
    BY <1>0, <1>6, <1>7, <1>8, <1>9, <1>11
  <2>2. OnlyActiveRun(t) => OnlyActiveRun(q)
    BY <1>6, <1>7, <1>8, <1>9 DEF OnlyActiveRun
  <2>3. QED
    BY <1>5, <1>6, <1>7, <1>8, <1>9, <2>1, <2>2 DEF Touched, ResultShown
<1>13. Touched(p, q, r)
  BY <1>4, <1>12, TouchedTwice
<1>14. q.steps = [p.steps EXCEPT !["proving"] = "done", !["complete"] = "done"]
  BY <1>1, <1>3, <1>6, <1>7, <1>8, <1>9 DEF StepSet
<1>15. QED
  BY <1>9, <1>10, <1>12, <1>13, <1>14

LEMMA OnVerifiedTouches ==
  ASSUME NEW p \in Timed, NEW r \in Requests, NEW a \in BOOLEAN
  PROVE  LET q == OnVerified(p, r, a)
         IN  /\ Touched(p, q, r)
             /\ q.steps = [p.steps EXCEPT !["on_chain"] = IF a THEN "done" ELSE "failed"]
<1> DEFINE state == IF a THEN "done" ELSE "failed"
           s == SetStep(p, "on_chain", state)
           c == Show(s, "chain", r)
<1>0. /\ "on_chain" \in StepIds
      /\ {"chain", "note"} \subseteq Elements \ {"hashes", "attacks"}
      /\ state \in {"active", "done", "failed"}
  BY DEF StepIds, Elements
<1>1. Touched(p, s, r) /\ StepSet(p, s, "on_chain", state)
  BY <1>0, SetStepTouches, SetStepPage
<1>2. s \in Timed
  BY <1>1 DEF StepSet
<1>3. s.steps = [p.steps EXCEPT !["on_chain"] = state]
  BY <1>1 DEF StepSet
<1> HIDE DEF s
<1>4. Touched(s, c, r) /\ c.steps = s.steps
  BY <1>0, <1>2, ShowTouches, ShowPage
<1>5. Touched(p, c, r)
  BY <1>1, <1>4, TouchedTwice
<1>6. c \in Timed
  BY <1>4 DEF Touched
<1> HIDE DEF c
<1>7. CASE a
  <2> DEFINE n == Show(c, "note", r)
  <2>1. OnVerified(p, r, a) = IF p.banner = NoBanner THEN c ELSE n
    BY <1>7 DEF OnVerified, c, s
  <2>2. Touched(c, n, r) /\ n.steps = c.steps
    BY <1>0, <1>6, ShowTouches, ShowPage
  <2>3. Touched(p, n, r)
    BY <1>5, <2>2, TouchedTwice
  <2>4. QED
    BY <1>3, <1>4, <1>5, <2>1, <2>2, <2>3
<1>8. CASE ~a
  <2> DEFINE b == Banner(c, "failure", r)
  <2>1. OnVerified(p, r, a) = b
    BY <1>8 DEF OnVerified, c, s
  <2>2. /\ b \in Timed
        /\ b.of = [c.of EXCEPT !["note"] = NoRun]
        /\ b.steps = c.steps /\ b.started = c.started /\ b.frozen = c.frozen
        /\ b.banner = [kind |-> "failure", run |-> r] /\ b.disabled = c.disabled
    BY <1>6, BannerPage
  <2> HIDE DEF b
  <2>3. Touched(c, b, r)
    <3>1. c.of \in [Elements -> Requests \cup {NoRun}]
      BY <1>6 DEF Timed, Pages
    <3>2. QED
      BY <2>2, <3>1 DEF Touched, ResultShown, OnlyActiveRun
  <2>4. Touched(p, b, r)
    BY <1>5, <2>3, TouchedTwice
  <2>5. QED
    BY <1>3, <1>4, <2>1, <2>2, <2>4
<1>9. QED
  BY <1>7, <1>8

(* p becomes q, with these rows, at an event of the run r. *)
Becomes(p, q, r, rows) == Touched(p, q, r) /\ q.steps = rows

LEMMA HandlePage ==
  ASSUME NEW p \in Timed, NEW r \in Requests, NEW stage \in Announcing, NEW a \in BOOLEAN
  PROVE  LET q == Handle(p, r, stage, a)
         IN  /\ Becomes(p, q, r, RowsAfter(p.steps, stage, a))
             /\ stage \in {"complete", "error"} => ~q.disabled /\ q.banner.kind # "hidden"
<1> DEFINE q == Handle(p, r, stage, a)
           rows == RowsAfter(p.steps, stage, a)
<1>0. /\ {"generating", "compiling", "executing", "proving", "on_chain", "complete"}
           \subseteq StepIds
      /\ {"lua", "tools", "chain"} \subseteq Elements \ {"hashes", "attacks"}
  BY DEF StepIds, Elements
(* One step set. *)
<1>1. ASSUME NEW i \in StepIds, NEW state \in {"active", "done", "failed"}
      PROVE  Becomes(p, SetStep(p, i, state), r, [p.steps EXCEPT ![i] = state])
  <2>1. Touched(p, SetStep(p, i, state), r) /\ StepSet(p, SetStep(p, i, state), i, state)
    BY SetStepTouches, SetStepPage
  <2>2. QED
    BY <2>1 DEF StepSet, Becomes
(* A step set, and an element shown. *)
<1>2. ASSUME NEW i \in StepIds, NEW state \in {"active", "done", "failed"},
             NEW x \in Elements \ {"hashes", "attacks"}
      PROVE  Becomes(p, Show(SetStep(p, i, state), x, r), r, [p.steps EXCEPT ![i] = state])
  <2> DEFINE s == SetStep(p, i, state)
  <2>0. Becomes(p, s, r, [p.steps EXCEPT ![i] = state])
    BY <1>1
  <2> HIDE DEF s
  <2>1. Touched(p, s, r) /\ s.steps = [p.steps EXCEPT ![i] = state]
    BY <2>0 DEF Becomes
  <2>t. s \in Timed
    BY <2>1 DEF Touched
  <2>2. Touched(s, Show(s, x, r), r) /\ Show(s, x, r).steps = s.steps
    BY <2>1, <2>t, ShowTouches, ShowPage
  <2>3. Touched(p, Show(s, x, r), r) /\ Show(s, x, r).steps = [p.steps EXCEPT ![i] = state]
    BY <2>1, <2>2, TouchedTwice
  <2>4. QED
    BY <2>3 DEF s, Becomes
(* One step done, and the next one active. *)
<1>3. ASSUME NEW i \in StepIds, NEW j \in StepIds
      PROVE  Becomes(p, SetStep(SetStep(p, i, "done"), j, "active"), r,
                     [p.steps EXCEPT ![i] = "done", ![j] = "active"])
  <2> DEFINE s == SetStep(p, i, "done")
             t == SetStep(s, j, "active")
  <2>0. Becomes(p, s, r, [p.steps EXCEPT ![i] = "done"])
    BY <1>1
  <2> HIDE DEF s
  <2>1. Touched(p, s, r) /\ s.steps = [p.steps EXCEPT ![i] = "done"]
    BY <2>0 DEF Becomes
  <2>t. s \in Timed
    BY <2>1 DEF Touched
  <2>2. Touched(s, t, r) /\ StepSet(s, t, j, "active")
    BY <2>1, <2>t, SetStepTouches, SetStepPage
  <2> HIDE DEF t
  <2>3. Touched(p, t, r) /\ t.steps = [p.steps EXCEPT ![i] = "done", ![j] = "active"]
    BY <2>1, <2>2, TouchedTwice DEF StepSet
  <2>4. QED
    BY <2>3 DEF s, t, Becomes
<1>4. CASE stage = "generating_lua"
  <2>1. /\ q = SetStep(p, "generating", "active")
        /\ rows = [p.steps EXCEPT !["generating"] = "active"]
    BY <1>4, HandleTable, RowsAfterTable
  <2>2. QED
    BY <1>4, <2>1, <1>0, <1>1
<1>5. CASE stage = "lua_ready"
  <2>1. /\ q = Show(SetStep(p, "generating", "done"), "lua", r)
        /\ rows = [p.steps EXCEPT !["generating"] = "done"]
    BY <1>5, HandleTable, RowsAfterTable
  <2>2. Becomes(p, Show(SetStep(p, "generating", "done"), "lua", r), r,
                [p.steps EXCEPT !["generating"] = "done"])
    BY <1>0, <1>2
  <2>3. QED
    BY <1>5, <2>1, <2>2
<1>6. CASE stage = "compiling"
  <2>1. /\ q = SetStep(p, "compiling", "active")
        /\ rows = [p.steps EXCEPT !["compiling"] = "active"]
    BY <1>6, HandleTable, RowsAfterTable
  <2>2. QED
    BY <1>6, <2>1, <1>0, <1>1
<1>7. CASE stage = "executing"
  <2>1. /\ q = SetStep(SetStep(p, "compiling", "done"), "executing", "active")
        /\ rows = [p.steps EXCEPT !["compiling"] = "done", !["executing"] = "active"]
    BY <1>7, HandleTable, RowsAfterTable
  <2>2. QED
    BY <1>7, <2>1, <1>0, <1>3
<1>8. CASE stage = "tool_call"
  <2>1. /\ q = Show(p, "tools", r)
        /\ rows = p.steps
    BY <1>8, HandleTable, RowsAfterTable
  <2>2. Touched(p, Show(p, "tools", r), r) /\ Show(p, "tools", r).steps = p.steps
    BY <1>0, ShowTouches, ShowPage
  <2>3. QED
    BY <1>8, <2>1, <2>2 DEF Becomes
<1>9. CASE stage = "proving"
  <2>1. /\ q = SetStep(SetStep(p, "executing", "done"), "proving", "active")
        /\ rows = [p.steps EXCEPT !["executing"] = "done", !["proving"] = "active"]
    BY <1>9, HandleTable, RowsAfterTable
  <2>2. QED
    BY <1>9, <2>1, <1>0, <1>3
<1>10. CASE stage = "complete"
  <2>1. /\ q = OnComplete(p, r)
        /\ rows = [p.steps EXCEPT !["proving"] = "done", !["complete"] = "done"]
    BY <1>10, HandleTable, RowsAfterTable
  <2>2. QED
    BY <1>10, <2>1, OnCompleteTouches DEF Becomes
<1>11. CASE stage = "verifying_on_chain"
  <2>1. /\ q = Show(SetStep(p, "on_chain", "active"), "chain", r)
        /\ rows = [p.steps EXCEPT !["on_chain"] = "active"]
    BY <1>11, HandleTable, RowsAfterTable
  <2>2. Becomes(p, Show(SetStep(p, "on_chain", "active"), "chain", r), r,
                [p.steps EXCEPT !["on_chain"] = "active"])
    BY <1>0, <1>2
  <2>3. QED
    BY <1>11, <2>1, <2>2
<1>12. CASE stage = "verified_on_chain"
  <2>1. /\ q = OnVerified(p, r, a)
        /\ rows = [p.steps EXCEPT !["on_chain"] = IF a THEN "done" ELSE "failed"]
    BY <1>12, HandleTable, RowsAfterTable
  <2>2. QED
    BY <1>12, <2>1, OnVerifiedTouches DEF Becomes
<1>13. CASE stage = "error"
  <2>1. /\ q = OnError(p, r)
        /\ rows = [i \in StepIds |-> IF p.steps[i] = "active" THEN "failed" ELSE p.steps[i]]
    BY <1>13, HandleTable, RowsAfterTable
  <2>2. QED
    BY <1>13, <2>1, OnErrorTouches DEF Becomes
<1>14. QED
  BY <1>4, <1>5, <1>6, <1>7, <1>8, <1>9, <1>10, <1>11, <1>12, <1>13
     DEF Announcing

-----------------------------------------------------------------------------
(* The rows and the order of a stream's events. *)

MakesActive(stage, i) ==
  \/ stage = "generating_lua" /\ i = "generating"
  \/ stage = "compiling" /\ i = "compiling"
  \/ stage \in {"executing", "tool_call"} /\ i = "executing"
  \/ stage = "proving" /\ i = "proving"
  \/ stage = "verifying_on_chain" /\ i = "on_chain"

RowStates == {"none", "active", "done", "failed"}

LEMMA NothingFollowsTheLast ==
  MayFollow("verified_on_chain") = {} /\ MayFollow("error") = {}
BY DEF MayFollow

(* A row that is active was made so by this event, or was active before and *)
(* not because of the event before this one.                                *)
LEMMA ActiveAfter ==
  ASSUME NEW rows \in [StepIds -> RowStates], NEW s \in Stages,
         NEW e \in Announcing, e \in MayFollow(s), NEW a \in BOOLEAN,
         NEW i \in StepIds, RowsAfter(rows, e, a)[i] = "active"
  PROVE  MakesActive(e, i) \/ (rows[i] = "active" /\ ~MakesActive(s, i))
<1> USE DEF MakesActive
<1>1. CASE e \in {"generating_lua", "compiling", "verifying_on_chain"}
  <2>1. s \in {"none", "lua_ready", "complete"}
    BY <1>1, MayFollowTable, NothingFollowsTheLast DEF Stages, Announcing
  <2>2. QED
    BY <1>1, <2>1, RowsAfterTable
<1>2. CASE e = "lua_ready"
  BY <1>2, RowsAfterTable, MayFollowTable DEF Stages, Announcing
<1>3. CASE e = "executing"
  BY <1>3, RowsAfterTable, MayFollowTable DEF Stages, Announcing
<1>4. CASE e = "tool_call"
  BY <1>4, RowsAfterTable, MayFollowTable DEF Stages, Announcing
<1>5. CASE e = "proving"
  BY <1>5, RowsAfterTable, MayFollowTable DEF Stages, Announcing
<1>6. CASE e = "complete"
  BY <1>6, RowsAfterTable, MayFollowTable DEF Stages, Announcing
<1>7. CASE e = "verified_on_chain"
  BY <1>7, RowsAfterTable, MayFollowTable DEF Stages, Announcing
<1>8. CASE e = "error"
  BY <1>8, RowsAfterTable
<1>9. QED
  BY <1>1, <1>2, <1>3, <1>4, <1>5, <1>6, <1>7, <1>8 DEF Announcing

Ordered(rows) ==
  /\ rows["compiling"] # "none" => rows["generating"] = "done"
  /\ rows["executing"] # "none" => rows["compiling"] = "done"
  /\ rows["proving"] # "none" => rows["executing"] = "done"
  /\ rows["complete"] # "none" => rows["proving"] = "done"
  /\ rows["on_chain"] # "none" => rows["complete"] = "done"

(* The rows of a run that has announced this stage and no later one. *)
DoneBy(stage) ==
  {i \in StepIds :
     \/ i = "generating" /\ stage \notin {"none", "generating_lua"}
     \/ i = "compiling" /\ stage \notin {"none", "generating_lua", "lua_ready", "compiling"}
     \/ i = "executing" /\ stage \in {"proving", "complete", "verifying_on_chain"}
     \/ i \in {"proving", "complete"} /\ stage \in {"complete", "verifying_on_chain"}}

RowsAt(stage) ==
  [i \in StepIds |-> IF MakesActive(stage, i) THEN "active"
                     ELSE IF i \in DoneBy(stage) THEN "done" ELSE "none"]

LEMMA RowsAtNext ==
  ASSUME NEW s \in Stages, NEW e \in Announcing, e \in MayFollow(s), NEW a \in BOOLEAN
  PROVE  /\ Ordered(RowsAfter(RowsAt(s), e, a))
         /\ e \notin {"verified_on_chain", "error"} =>
              RowsAfter(RowsAt(s), e, a) = RowsAt(e)
<1> DEFINE rows == RowsAfter(RowsAt(s), e, a)
<1> USE RowsAfterTable, MayFollowTable, NothingFollowsTheLast
        DEF Stages, Announcing, RowsAt, DoneBy, MakesActive, StepIds
<1>1. CASE e = "generating_lua"
  BY <1>1 DEF Ordered
<1>2. CASE e = "lua_ready"
  BY <1>2 DEF Ordered
<1>3. CASE e = "compiling"
  BY <1>3 DEF Ordered
<1>4. CASE e = "executing"
  BY <1>4 DEF Ordered
<1>5. CASE e = "tool_call"
  BY <1>5 DEF Ordered
<1>6. CASE e = "proving"
  BY <1>6 DEF Ordered
<1>7. CASE e = "complete"
  BY <1>7 DEF Ordered
<1>8. CASE e = "verifying_on_chain"
  BY <1>8 DEF Ordered
<1>9. CASE e = "verified_on_chain"
  BY <1>9 DEF Ordered
<1>10. CASE e = "error"
  BY <1>10 DEF Ordered
<1>11. QED
  BY <1>1, <1>2, <1>3, <1>4, <1>5, <1>6, <1>7, <1>8, <1>9, <1>10

-----------------------------------------------------------------------------
(* The invariant. *)

Types ==
  /\ fetched \in [Requests -> {"no", "sent", "failed"}]
  /\ current \in Requests \cup {NoRun}
  /\ overlapped \subseteq Requests
  /\ page \in Timed

(* Only what has been fetched reaches the server, and what may still write  *)
(* to the page is the last run or one it overlapped with.                   *)
Fetches ==
  \A r \in Requests :
    /\ conn[r] = "idle" \/ fetched[r] = "sent"
    /\ fetched[r] # "no" /\ ~Over(r) => r = current \/ r \in overlapped

(* The page has heard neither the result of r nor that there will be none. *)
Waiting(r) ==
  /\ fetched[r] = "sent"
  /\ \/ conn[r] \in {"idle", "gone"}
     \/ conn[r] \in {"open", "ended"}
        /\ seen[r].stage \notin {"complete", "verifying_on_chain", "verified_on_chain", "error"}

(* A button that is disabled, and a banner that is hidden, wait for the     *)
(* run submitted last...                                                    *)
WaitsForCurrent ==
  /\ page.disabled => current # NoRun /\ Waiting(current)
  /\ page.banner.kind = "hidden" /\ current # NoRun => Waiting(current)

(* ...and an active row for a run that made it so with its last event, or   *)
(* whose connection broke.                                                  *)
RowsWait ==
  \A i \in StepIds : page.steps[i] = "active" =>
    \E r \in Requests :
      \/ conn[r] = "gone"
      \/ conn[r] \in {"open", "ended"} /\ MakesActive(seen[r].stage, i)

(* Undisturbed rows are those of the last event of the last run. *)
RowsFollow ==
  overlapped = {} =>
    /\ Ordered(page.steps)
    /\ current # NoRun /\ conn[current] \in {"idle", "open"}
         /\ seen[current].stage \notin {"verified_on_chain", "error"}
         => page.steps = RowsAt(seen[current].stage)

(* What the page shows belongs together: the banner with its result, the    *)
(* times with the rows.                                                     *)
ShownBelongs(p) == ResultShown(p) /\ OnlyActiveRun(p)

(* The timeouts that are pending are those the rows remember, each row its  *)
(* own, and of the last click on it; and they are of the marked rows.       *)
MarkTypes ==
  /\ clicks \in 0 .. MaxClicks
  /\ tampered \subseteq AttackRows
  /\ attackTimers \in [AttackRows -> 0 .. clicks]
  /\ lastClick \in [AttackRows -> 0 .. clicks]
  /\ pending \subseteq [click : 1 .. clicks, row : AttackRows]

Remembered(t) == t.click # 0 /\ attackTimers[t.row] = t.click

Marks ==
  /\ MarkTypes
  /\ \A t \in [click : 1 .. clicks, row : AttackRows] :
        t \in pending <=> Remembered(t)
  /\ tampered = {row \in AttackRows : attackTimers[row] # 0}
  /\ \A row \in AttackRows :
        attackTimers[row] # 0 => attackTimers[row] = lastClick[row]
  /\ \A v, w \in AttackRows :
        attackTimers[v] = attackTimers[w] /\ attackTimers[v] # 0 => v = w

PageInv ==
  /\ Types
  /\ Fetches
  /\ OnlyOverlapsMix
  /\ WaitsForCurrent
  /\ RowsWait
  /\ RowsFollow
  /\ ShownBelongs(page)
  /\ Marks

-----------------------------------------------------------------------------
(* Its steps. *)

LEMMA PageIsServer == PageSpec => Safety
<1>1. PageInit => Init
  BY DEF PageInit
<1>2. [PageNext]_<<vars, pageVars>> => [Next]_vars
  BY DEF PageNext, Submit, Accepted, Rejected, NetworkError, Receive, LoopEnds,
     Serve, Tick, Attacks, Attack, AttackTimeout, Next, Client
<1>3. QED
  BY <1>1, <1>2, PTL DEF PageSpec, Safety

(* What the actions of the server do to what a client sees. *)
LEMMA ServerStep ==
  ASSUME Base, NEW r \in Requests
  PROVE  /\ Admit(r) => /\ conn[r] = "idle" /\ conn' = [conn EXCEPT ![r] = "open"]
                        /\ seen' = seen
         /\ Refuse(r) => /\ conn[r] = "idle" /\ conn' = [conn EXCEPT ![r] = "refused"]
                         /\ seen' = seen
         /\ Worker(r) => conn' = conn /\ seen' = seen
         /\ Read(r) => /\ conn[r] = "open" /\ conn' = conn
                       /\ seen' = [seen EXCEPT ![r] = Head(chan[r])]
         /\ EndOfStream(r) => /\ conn[r] = "open" /\ conn' = [conn EXCEPT ![r] = "ended"]
                              /\ seen' = seen
         /\ Leave(r) => /\ conn[r] = "open" /\ conn' = [conn EXCEPT ![r] = "gone"]
                        /\ seen' = [seen EXCEPT ![r] = Nothing]
BY DEF Admit, Refuse, Worker, Send, SendFails, WorkSucceeds, WorkFails, WorkPanics,
   Close, Release, Read, EndOfStream, Leave

(* The event a read loop gets may follow the one it got before. *)
LEMMA NextEvent ==
  ASSUME Base, Streams, NEW r \in Requests, Read(r)
  PROVE  /\ Head(chan[r]).stage \in Announcing
         /\ seen[r].stage \in Stages
         /\ Head(chan[r]).stage \in MayFollow(seen[r].stage)
<1>1. /\ chan[r] \in Seq(Events) /\ seen[r] \in Events /\ chan[r] # <<>>
      /\ Chained(seen[r], chan[r])
  BY DEF Base, TypeInv, Streams, Read
<1>2. Fits(seen[r], Head(chan[r]))
  <2>1. 1 \in 1 .. Len(chan[r]) /\ Head(chan[r]) = chan[r][1]
    BY <1>1
  <2>2. QED
    BY <1>1, <2>1 DEF Chained
<1>3. Head(chan[r]) \in Events
  BY <1>1
<1>4. Head(chan[r]).stage # "none"
  <2>1. seen[r].stage \in Announcing \cup {"none"}
    BY <1>1 DEF Events, Stages
  <2>2. Head(chan[r]).stage \in MayFollow(seen[r].stage)
    BY <1>2 DEF Fits
  <2>3. QED
    BY <2>1, <2>2, MayFollowTable, NothingFollowsTheLast DEF Announcing
<1>5. QED
  BY <1>1, <1>2, <1>3, <1>4 DEF Fits, Events, Stages

(* What the page does at an event. *)
LEMMA ReceiveStep ==
  ASSUME Base, Streams, Types, NEW r \in Requests, Receive(r)
  PROVE  /\ Touched(page, page', r)
         /\ Head(chan[r]).stage \in {"complete", "error"} =>
              ~page'.disabled /\ page'.banner.kind # "hidden"
         /\ \E a \in BOOLEAN :
              page'.steps = RowsAfter(page.steps, Head(chan[r]).stage, a)
<1>1. PICK a \in BOOLEAN : page' = Handle(page, r, Head(chan[r]).stage, a)
  BY DEF Receive
<1>2. Head(chan[r]).stage \in Announcing /\ page \in Timed
  BY NextEvent DEF Receive, Types
<1>3. QED
  BY <1>1, <1>2, HandlePage DEF Becomes

LEMMA RejectedStep ==
  ASSUME Types, NEW r \in Requests, Rejected(r) \/ NetworkError(r)
  PROVE  /\ Touched(page, page', r)
         /\ ~page'.disabled /\ page'.banner.kind # "hidden" /\ page'.steps = page.steps
BY FailureTouches DEF Rejected, NetworkError, Types

LEMMA BlankPage ==
  /\ [Blank EXCEPT !.disabled = TRUE] \in Timed /\ Blank \in Timed
  /\ Blank.steps = RowsAt("none") /\ Ordered(Blank.steps)
<1>1. [Blank EXCEPT !.disabled = TRUE] \in Timed /\ Blank \in Timed
  BY DEF Blank, Timed, Pages, NoBanner
<1>2. RowsAt("none") = [i \in StepIds |-> "none"]
  BY DEF RowsAt, MakesActive, DoneBy
<1>3. QED
  BY <1>1, <1>2 DEF Blank, Ordered, StepIds

LEMMA SubmitStep ==
  ASSUME Types, NEW r \in Requests, Submit(r)
  PROVE  page' = [Blank EXCEPT !.disabled = TRUE]
BY DEF Submit, ResetUI, Blank, Types, Timed, Pages, NoBanner

(* A click and a timeout touch only the marks. *)
LEMMA AttackStep ==
  Attacks => UNCHANGED <<vars, fetched, current, overlapped, page>>
BY DEF Attacks, Attack, AttackTimeout

LEMMA TickStep ==
  ASSUME Types, Tick
  PROVE  /\ page' \in Timed
         /\ page'.steps = page.steps /\ page'.started = page.started
         /\ page'.frozen = page.frozen /\ page'.banner = page.banner
         /\ page'.of = page.of /\ page'.disabled = page.disabled
         /\ UNCHANGED <<vars, fetched, current, overlapped>>
BY DEF Tick, Types, Timed, Pages

LEMMA TypesStep ==
  ASSUME Base, Streams, Types, [PageNext]_<<vars, pageVars>>
  PROVE  Types'
<1>1. ASSUME NEW r \in Requests, Submit(r) PROVE Types'
  BY <1>1, SubmitStep, BlankPage DEF Submit, Types
<1>2. ASSUME NEW r \in Requests, Rejected(r) \/ NetworkError(r) PROVE Types'
  <2>1. page' \in Timed
    BY <1>2, RejectedStep DEF Touched
  <2>2. QED
    BY <1>2, <2>1 DEF Rejected, NetworkError, Types
<1>3. ASSUME NEW r \in Requests, Receive(r) PROVE Types'
  <2>1. page' \in Timed
    BY <1>3, ReceiveStep DEF Touched
  <2>2. QED
    BY <1>3, <2>1 DEF Receive, Types
<1>4. ASSUME NEW r \in Requests, Accepted(r) \/ LoopEnds(r) \/ Serve(r) PROVE Types'
  BY <1>4 DEF Accepted, LoopEnds, Serve, pageVars, Types
<1>5. CASE Attacks
  BY <1>5, AttackStep DEF Types
<1>6. CASE Tick
  BY <1>6, TickStep DEF Types
<1>7. CASE UNCHANGED <<vars, pageVars>>
  BY <1>7 DEF pageVars, Types
<1>8. QED
  BY <1>1, <1>2, <1>3, <1>4, <1>5, <1>6, <1>7 DEF PageNext

(* Those who may still write to the page only become fewer, but for Submit. *)
LEMMA FetchesStep ==
  ASSUME Base, Types, Fetches, [PageNext]_<<vars, pageVars>>
  PROVE  Fetches'
<1> USE DEF Fetches, Over, Types, Base, TypeInv
<1>1. ASSUME NEW r \in Requests, Submit(r) PROVE Fetches'
  <2>1. /\ fetched' = [fetched EXCEPT ![r] = "sent"] /\ current' = r
        /\ overlapped' = {q \in Requests : fetched[q] # "no" /\ ~Over(q)}
        /\ conn' = conn /\ seen' = seen
    BY <1>1 DEF Submit, vars
  <2>2. QED
    BY <1>1, <2>1
<1>2. ASSUME NEW r \in Requests, Accepted(r) PROVE Fetches'
  <2>1. /\ fetched[r] = "sent"
        /\ UNCHANGED <<fetched, current, overlapped>>
        /\ conn' = [conn EXCEPT ![r] = "open"] /\ conn[r] = "idle"
    BY <1>2, ServerStep DEF Accepted, pageVars
  <2>2. \A q \in Requests : ~Over(q)' => ~Over(q)
    BY <2>1
  <2>3. \A q \in Requests : (conn[q] = "idle" \/ fetched[q] = "sent")'
    BY <2>1
  <2>4. QED
    BY <2>1, <2>2, <2>3
<1>3. ASSUME NEW r \in Requests, Rejected(r) PROVE Fetches'
  <2>1. /\ UNCHANGED <<fetched, current, overlapped>>
        /\ fetched[r] = "sent" /\ conn' = [conn EXCEPT ![r] = "refused"]
    BY <1>3, ServerStep DEF Rejected
  <2>2. \A q \in Requests : ~Over(q)' => ~Over(q)
    BY <2>1
  <2>3. QED
    BY <2>1, <2>2
<1>4. ASSUME NEW r \in Requests, NetworkError(r) PROVE Fetches'
  BY <1>4 DEF NetworkError, vars
<1>5. ASSUME NEW r \in Requests, Receive(r) PROVE Fetches'
  BY <1>5, ServerStep DEF Receive
<1>6. ASSUME NEW r \in Requests, LoopEnds(r) PROVE Fetches'
  <2>1. /\ UNCHANGED <<fetched, current, overlapped>>
        /\ conn[r] = "open"
        /\ \/ conn' = [conn EXCEPT ![r] = "ended"]
           \/ conn' = [conn EXCEPT ![r] = "gone"]
    BY <1>6, ServerStep DEF LoopEnds, pageVars
  <2>2. \A q \in Requests : ~Over(q)' => ~Over(q)
    BY <2>1
  <2>3. QED
    BY <2>1, <2>2
<1>7. ASSUME NEW r \in Requests, Serve(r) PROVE Fetches'
  BY <1>7, ServerStep DEF Serve, pageVars
<1>8. CASE Attacks
  BY <1>8, AttackStep DEF vars
<1>9. CASE Tick
  BY <1>9, TickStep DEF vars
<1>10. CASE UNCHANGED <<vars, pageVars>>
  BY <1>10 DEF pageVars, vars
<1>11. QED
  BY <1>1, <1>2, <1>3, <1>4, <1>5, <1>6, <1>7, <1>8, <1>9, <1>10 DEF PageNext

(* Whoever writes to the page is the last run or one it overlaps with. *)
LEMMA Writers ==
  ASSUME Base, Types, Fetches, NEW r \in Requests,
         Accepted(r) \/ Rejected(r) \/ NetworkError(r) \/ Receive(r) \/ LoopEnds(r)
  PROVE  r = current \/ r \in overlapped
<1>1. fetched[r] # "no" /\ fetched[r] # "failed" /\ conn[r] \in {"idle", "open"}
  BY ServerStep DEF Accepted, Rejected, NetworkError, Receive, LoopEnds, Fetches
<1>2. QED
  BY <1>1 DEF Fetches, Over

LEMMA ShownStep ==
  ASSUME Base, Streams, Types, Fetches, OnlyOverlapsMix, ShownBelongs(page),
         [PageNext]_<<vars, pageVars>>
  PROVE  OnlyOverlapsMix' /\ ShownBelongs(page)'
<1> USE DEF ShownBelongs
<1>1. ASSUME NEW r \in Requests, Submit(r)
      PROVE  OnlyOverlapsMix' /\ ShownBelongs(page)'
  <2>1. page' = [Blank EXCEPT !.disabled = TRUE]
    BY <1>1, SubmitStep
  <2>2. /\ page'.banner = NoBanner /\ \A x \in Elements : page'.of[x] = NoRun
        /\ page'.started = {}
    BY <2>1 DEF Blank
  <2>3. QED
    BY <2>2 DEF OnlyOverlapsMix, ResultShown, OnlyActiveRun, NoBanner
<1>2. ASSUME NEW r \in Requests, Touched(page, page', r), r = current \/ r \in overlapped,
             UNCHANGED <<current, overlapped>>
      PROVE  OnlyOverlapsMix' /\ ShownBelongs(page)'
  <2>1. ShownBelongs(page)'
    BY <1>2 DEF Touched
  <2>2. /\ page'.banner.run \in {page.banner.run, r}
        /\ \A x \in Elements : page'.of[x] \in {page.of[x], r, NoRun}
    BY <1>2 DEF Touched
  <2>3. /\ page.banner.run \in {NoRun, current} \cup overlapped
        /\ \A x \in Elements : page.of[x] \in {NoRun, current} \cup overlapped
    BY DEF OnlyOverlapsMix
  <2>4. QED
    BY <1>2, <2>1, <2>2, <2>3 DEF OnlyOverlapsMix
<1>3. ASSUME NEW r \in Requests, Rejected(r) \/ NetworkError(r) \/ Receive(r)
      PROVE  OnlyOverlapsMix' /\ ShownBelongs(page)'
  <2>1. Touched(page, page', r)
    BY <1>3, RejectedStep, ReceiveStep
  <2>2. UNCHANGED <<current, overlapped>>
    BY <1>3 DEF Rejected, NetworkError, Receive
  <2>3. QED
    BY <1>2, <1>3, <2>1, <2>2, Writers
<1>4. ASSUME UNCHANGED <<current, overlapped>>,
             page'.banner = page.banner, page'.of = page.of, page'.steps = page.steps,
             page'.started = page.started, page'.frozen = page.frozen
      PROVE  OnlyOverlapsMix' /\ ShownBelongs(page)'
  BY <1>4 DEF OnlyOverlapsMix, ResultShown, OnlyActiveRun
<1>5. ASSUME NEW r \in Requests, Accepted(r) \/ LoopEnds(r) \/ Serve(r)
      PROVE  OnlyOverlapsMix' /\ ShownBelongs(page)'
  BY <1>4, <1>5 DEF Accepted, LoopEnds, Serve, pageVars
<1>6. CASE Attacks
  BY <1>4, <1>6, AttackStep
<1>7. CASE Tick
  BY <1>4, <1>7, TickStep
<1>8. CASE UNCHANGED <<vars, pageVars>>
  BY <1>4, <1>8 DEF pageVars
<1>9. QED
  BY <1>1, <1>3, <1>5, <1>6, <1>7, <1>8 DEF PageNext

(* Nobody disables the button but Submit, and whatever tells the page that  *)
(* it need not wait for a run enables it and shows a banner.                *)
LEMMA WaitsStep ==
  ASSUME Base, Streams, Types, Fetches, WaitsForCurrent, [PageNext]_<<vars, pageVars>>
  PROVE  WaitsForCurrent'
<1> USE DEF WaitsForCurrent, Waiting
<1>0. /\ conn \in [Requests -> {"idle", "open", "ended", "gone", "refused"}]
      /\ seen \in [Requests -> Events]
      /\ fetched \in [Requests -> {"no", "sent", "failed"}]
      /\ current \in Requests \cup {NoRun}
  BY DEF Base, TypeInv, Types
<1>1. ASSUME NEW r \in Requests, Submit(r) PROVE WaitsForCurrent'
  <2>1. conn'[r] = "idle" /\ current' = r /\ fetched'[r] = "sent"
    BY <1>0, <1>1 DEF Submit, Fetches, vars
  <2>2. r # NoRun
    BY PageAssumption
  <2>3. QED
    BY <2>1, <2>2
(* A step that shows no less, and leaves the last run as unheard of as it was. *)
<1>2. ASSUME current' = current,
             page'.disabled => page.disabled,
             page'.banner.kind = "hidden" => page.banner.kind = "hidden",
             current \in Requests /\ Waiting(current) =>
               Waiting(current)' \/ (~page'.disabled /\ page'.banner.kind # "hidden")
      PROVE  WaitsForCurrent'
  BY <1>0, <1>2
<1>3. ASSUME NEW r \in Requests, Rejected(r) \/ NetworkError(r) PROVE WaitsForCurrent'
  BY <1>3, RejectedStep DEF Rejected, NetworkError
<1>4. ASSUME NEW r \in Requests, Receive(r) PROVE WaitsForCurrent'
  <2> DEFINE e == Head(chan[r]).stage
  <2>1. /\ conn' = conn /\ conn[r] = "open" /\ fetched' = fetched /\ current' = current
        /\ seen' = [seen EXCEPT ![r] = Head(chan[r])]
    BY <1>4, ServerStep DEF Receive
  <2>2. /\ page'.disabled => page.disabled
        /\ page'.banner.kind = "hidden" => page.banner.kind = "hidden"
        /\ e \in {"complete", "error"} => ~page'.disabled /\ page'.banner.kind # "hidden"
    BY <1>4, ReceiveStep DEF Touched
  <2>3. CASE current # r
    BY <1>0, <1>2, <2>1, <2>2, <2>3
  <2>4. CASE current = r /\ e \in {"complete", "error"}
    BY <1>2, <2>1, <2>2, <2>4
  <2>5. CASE current = r /\ e \in {"verifying_on_chain", "verified_on_chain"}
    <3>1. seen[r].stage \in {"complete", "verifying_on_chain"}
      BY <1>4, <2>5, NextEvent, MayFollowTable, NothingFollowsTheLast
         DEF Receive, Stages, Announcing
    <3>2. ~Waiting(current)
      BY <2>1, <2>5, <3>1
    <3>3. QED
      BY <1>2, <2>1, <2>2, <3>2
  <2>6. CASE current = r /\ e \notin {"complete", "verifying_on_chain",
                                      "verified_on_chain", "error"}
    <3>1. seen'[r].stage = e
      BY <1>0, <2>1
    <3>2. QED
      BY <1>2, <2>1, <2>2, <2>6, <3>1
  <2>7. QED
    BY <2>3, <2>4, <2>5, <2>6
<1>5. ASSUME NEW r \in Requests, Accepted(r) PROVE WaitsForCurrent'
  <2>1. /\ conn[r] = "idle" /\ conn' = [conn EXCEPT ![r] = "open"] /\ seen' = seen
        /\ UNCHANGED pageVars
    BY <1>5, ServerStep DEF Accepted
  <2>2. seen[r].stage = "none"
    BY <2>1 DEF Streams, Nothing, Event
  <2>3. QED
    BY <1>0, <1>2, <2>1, <2>2 DEF pageVars
<1>6. ASSUME NEW r \in Requests, LoopEnds(r) PROVE WaitsForCurrent'
  <2>1. /\ conn[r] = "open" /\ UNCHANGED pageVars
        /\ \/ conn' = [conn EXCEPT ![r] = "ended"] /\ seen' = seen
           \/ conn' = [conn EXCEPT ![r] = "gone"] /\ seen' = [seen EXCEPT ![r] = Nothing]
    BY <1>6, ServerStep DEF LoopEnds
  <2>2. QED
    BY <1>0, <1>2, <2>1 DEF pageVars
<1>7. ASSUME NEW r \in Requests, Serve(r) PROVE WaitsForCurrent'
  BY <1>2, <1>7, ServerStep DEF Serve, pageVars
<1>8. CASE Attacks
  BY <1>2, <1>8, AttackStep DEF vars
<1>9. CASE Tick
  BY <1>2, <1>9, TickStep DEF vars
<1>10. CASE UNCHANGED <<vars, pageVars>>
  BY <1>2, <1>10 DEF pageVars, vars
<1>11. QED
  BY <1>1, <1>3, <1>4, <1>5, <1>6, <1>7, <1>8, <1>9, <1>10 DEF PageNext

(* A row becomes active with the event that says so, and the event that      *)
(* follows it in the stream settles it.                                      *)
LEMMA RowsWaitStep ==
  ASSUME Base, Streams, Types, RowsWait, [PageNext]_<<vars, pageVars>>
  PROVE  RowsWait'
<1> DEFINE Busy(r, i) ==
      \/ conn[r] = "gone"
      \/ conn[r] \in {"open", "ended"} /\ MakesActive(seen[r].stage, i)
<1>0. /\ conn \in [Requests -> {"idle", "open", "ended", "gone", "refused"}]
      /\ seen \in [Requests -> Events]
      /\ page.steps \in [StepIds -> RowStates]
  BY DEF Base, TypeInv, Types, Timed, Pages, RowStates
<1>1. ASSUME NEW r \in Requests, Submit(r) PROVE RowsWait'
  BY <1>1, SubmitStep, BlankPage DEF RowsWait, RowsAt, MakesActive, DoneBy, Blank
(* A step that makes no row active and ends no wait for one. *)
<1>2. ASSUME page'.steps = page.steps,
             \A q \in Requests, i \in StepIds : Busy(q, i) => Busy(q, i)'
      PROVE  RowsWait'
  BY <1>2 DEF RowsWait
<1>3. ASSUME NEW r \in Requests, Rejected(r) PROVE RowsWait'
  <2>1. page'.steps = page.steps
    BY <1>3, RejectedStep
  <2>2. conn[r] = "idle" /\ conn' = [conn EXCEPT ![r] = "refused"] /\ seen' = seen
    BY <1>3, ServerStep DEF Rejected
  <2>3. QED
    BY <1>0, <1>2, <2>1, <2>2
<1>4. ASSUME NEW r \in Requests, NetworkError(r) PROVE RowsWait'
  BY <1>2, <1>4, RejectedStep DEF NetworkError, vars
<1>5. ASSUME NEW r \in Requests, Receive(r) PROVE RowsWait'
  <2> DEFINE s == seen[r].stage
             e == Head(chan[r]).stage
  <2>1. /\ conn' = conn /\ conn[r] = "open" /\ seen' = [seen EXCEPT ![r] = Head(chan[r])]
    BY <1>5, ServerStep DEF Receive
  <2>2. s \in Stages /\ e \in Announcing /\ e \in MayFollow(s)
    BY <1>5, NextEvent DEF Receive
  <2>3. PICK a \in BOOLEAN : page'.steps = RowsAfter(page.steps, e, a)
    BY <1>5, ReceiveStep
  <2>4. seen'[r].stage = e
    BY <1>0, <2>1
  <2> HIDE DEF s, e
  <2>5. SUFFICES ASSUME NEW i \in StepIds, page'.steps[i] = "active"
                 PROVE  \E q \in Requests : Busy(q, i)'
    BY DEF RowsWait
  <2>6. MakesActive(e, i) \/ (page.steps[i] = "active" /\ ~MakesActive(s, i))
    BY <1>0, <2>2, <2>3, <2>5, ActiveAfter
  <2>7. CASE MakesActive(e, i)
    BY <2>1, <2>4, <2>7
  <2>8. CASE page.steps[i] = "active" /\ ~MakesActive(s, i)
    <3>1. PICK q \in Requests : Busy(q, i)
      BY <2>8 DEF RowsWait
    <3>2. q # r
      BY <2>1, <2>8, <3>1 DEF s
    <3>3. Busy(q, i)'
      BY <1>0, <2>1, <3>1, <3>2
    <3>4. QED
      BY <3>3
  <2>9. QED
    BY <2>6, <2>7, <2>8
<1>6. ASSUME NEW r \in Requests, Accepted(r) PROVE RowsWait'
  <2>1. /\ conn[r] = "idle" /\ conn' = [conn EXCEPT ![r] = "open"] /\ seen' = seen
        /\ page' = page
    BY <1>6, ServerStep DEF Accepted, pageVars
  <2>2. QED
    BY <1>0, <1>2, <2>1
<1>7. ASSUME NEW r \in Requests, LoopEnds(r) PROVE RowsWait'
  <2>1. /\ conn[r] = "open" /\ page' = page
        /\ \/ conn' = [conn EXCEPT ![r] = "ended"] /\ seen' = seen
           \/ conn' = [conn EXCEPT ![r] = "gone"] /\ seen' = [seen EXCEPT ![r] = Nothing]
    BY <1>7, ServerStep DEF LoopEnds, pageVars
  <2>2. QED
    BY <1>0, <1>2, <2>1
<1>8. ASSUME NEW r \in Requests, Serve(r) PROVE RowsWait'
  BY <1>2, <1>8, ServerStep DEF Serve, pageVars
<1>9. CASE Attacks
  BY <1>2, <1>9, AttackStep DEF vars
<1>10. CASE Tick
  BY <1>2, <1>10, TickStep DEF vars
<1>11. CASE UNCHANGED <<vars, pageVars>>
  BY <1>2, <1>11 DEF pageVars, vars
<1>12. QED
  BY <1>1, <1>3, <1>4, <1>5, <1>6, <1>7, <1>8, <1>9, <1>10, <1>11 DEF PageNext

(* With nothing to overlap it, the last run alone writes to the rows. *)
LEMMA RowsFollowStep ==
  ASSUME Base, Streams, Types, Fetches, RowsFollow, [PageNext]_<<vars, pageVars>>
  PROVE  RowsFollow'
<1>0. /\ conn \in [Requests -> {"idle", "open", "ended", "gone", "refused"}]
      /\ seen \in [Requests -> Events]
      /\ current \in Requests \cup {NoRun}
  BY DEF Base, TypeInv, Types
<1> USE DEF RowsFollow
<1>1. ASSUME NEW r \in Requests, Submit(r) PROVE RowsFollow'
  <2>1. page'.steps = RowsAt("none") /\ Ordered(page'.steps)
    BY <1>1, SubmitStep, BlankPage DEF Blank
  <2>2. current' = r /\ conn'[r] = "idle" /\ seen' = seen /\ seen[r].stage = "none"
    BY <1>1 DEF Submit, Fetches, vars, Streams, Nothing, Event
  <2>3. QED
    BY <2>1, <2>2
(* A step that sets no row, and brings the last run no event. *)
<1>2. ASSUME page'.steps = page.steps, overlapped' = overlapped, current' = current,
             current \in Requests /\ conn'[current] \in {"idle", "open"} =>
               conn[current] \in {"idle", "open"} /\ seen'[current] = seen[current]
      PROVE  RowsFollow'
  BY <1>0, <1>2
<1>3. ASSUME NEW r \in Requests, Rejected(r) PROVE RowsFollow'
  <2>1. page'.steps = page.steps
    BY <1>3, RejectedStep
  <2>2. conn[r] = "idle" /\ conn' = [conn EXCEPT ![r] = "refused"] /\ seen' = seen
    BY <1>3, ServerStep DEF Rejected
  <2>3. QED
    BY <1>0, <1>2, <1>3, <2>1, <2>2 DEF Rejected
<1>4. ASSUME NEW r \in Requests, NetworkError(r) PROVE RowsFollow'
  BY <1>2, <1>4, RejectedStep DEF NetworkError, vars
<1>5. ASSUME NEW r \in Requests, Receive(r), overlapped' = {} PROVE RowsFollow'
  <2> DEFINE s == seen[r].stage
             e == Head(chan[r]).stage
  <2>1. /\ conn' = conn /\ conn[r] = "open" /\ seen' = [seen EXCEPT ![r] = Head(chan[r])]
        /\ current' = current /\ overlapped' = overlapped
    BY <1>5, ServerStep DEF Receive
  <2>2. r = current
    BY <1>5, <2>1, Writers
  <2>3. s \in Stages /\ e \in Announcing /\ e \in MayFollow(s)
    BY <1>5, NextEvent DEF Receive
  <2>4. s \notin {"verified_on_chain", "error"}
    BY <2>3, NothingFollowsTheLast
  <2>5. PICK a \in BOOLEAN : page'.steps = RowsAfter(page.steps, e, a)
    BY <1>5, ReceiveStep
  <2>6. page.steps = RowsAt(s)
    BY <1>5, <2>1, <2>2, <2>4, PageAssumption
  <2>7. seen'[r].stage = e
    BY <1>0, <2>1
  <2> HIDE DEF s, e
  <2>8. /\ Ordered(page'.steps)
        /\ e \notin {"verified_on_chain", "error"} => page'.steps = RowsAt(e)
    BY <2>3, <2>5, <2>6, RowsAtNext
  <2>9. QED
    BY <2>1, <2>2, <2>7, <2>8
<1>6. ASSUME NEW r \in Requests, Receive(r), overlapped' # {} PROVE RowsFollow'
  BY <1>6
<1>7. ASSUME NEW r \in Requests, Accepted(r) PROVE RowsFollow'
  <2>1. /\ conn[r] = "idle" /\ conn' = [conn EXCEPT ![r] = "open"] /\ seen' = seen
        /\ UNCHANGED pageVars
    BY <1>7, ServerStep DEF Accepted
  <2>2. QED
    BY <1>0, <1>2, <2>1 DEF pageVars
<1>8. ASSUME NEW r \in Requests, LoopEnds(r) PROVE RowsFollow'
  <2>1. /\ conn[r] = "open" /\ UNCHANGED pageVars
        /\ \/ conn' = [conn EXCEPT ![r] = "ended"] /\ seen' = seen
           \/ conn' = [conn EXCEPT ![r] = "gone"] /\ seen' = [seen EXCEPT ![r] = Nothing]
    BY <1>8, ServerStep DEF LoopEnds
  <2>2. QED
    BY <1>0, <1>2, <2>1 DEF pageVars
<1>9. ASSUME NEW r \in Requests, Serve(r) PROVE RowsFollow'
  BY <1>2, <1>9, ServerStep DEF Serve, pageVars
<1>10. CASE Attacks
  BY <1>2, <1>10, AttackStep DEF vars
<1>11. CASE Tick
  BY <1>2, <1>11, TickStep DEF vars
<1>12. CASE UNCHANGED <<vars, pageVars>>
  BY <1>2, <1>12 DEF pageVars, vars
<1>13. QED
  BY <1>1, <1>3, <1>4, <1>5, <1>6, <1>7, <1>8, <1>9, <1>10, <1>11, <1>12 DEF PageNext

(* A click clears the timeout its row remembers and no other; when a        *)
(* timeout has run its row remembers none; a reset clears them all.         *)
LEMMA MarksStep ==
  ASSUME Types, Marks, [PageNext]_<<vars, pageVars>>
  PROVE  Marks'
<1> USE PageAssumption
<1> DEFINE Timeouts == [click : 1 .. clicks, row : AttackRows]
<1>1. ASSUME NEW r \in Requests, Submit(r) PROVE Marks'
  <2>1. /\ tampered' = {} /\ attackTimers' = NoTimers /\ lastClick' = NoTimers
        /\ clicks' = clicks
        /\ pending' = {t \in pending : t.click \notin {attackTimers[w] : w \in AttackRows}}
    BY <1>1 DEF Submit, ResetMarks, Without
  <2>2. pending' = {}
    BY <2>1 DEF Marks, MarkTypes, Remembered
  <2>3. \A row \in AttackRows : NoTimers[row] = 0
    BY DEF NoTimers
  <2>4. NoTimers \in [AttackRows -> 0 .. clicks] /\ clicks \in 0 .. MaxClicks
    BY DEF NoTimers, Marks, MarkTypes
  <2>5. MarkTypes'
    BY <2>1, <2>2, <2>4 DEF MarkTypes
  <2>6. QED
    BY <2>1, <2>2, <2>3, <2>5 DEF Marks, Remembered
<1>2. ASSUME NEW row \in AttackRows, Attack(row) PROVE Marks'
  <2> DEFINE new == [click |-> clicks + 1, row |-> row]
  <2>1. /\ clicks < MaxClicks /\ clicks' = clicks + 1
        /\ tampered' = tampered \cup {row}
        /\ attackTimers' = [attackTimers EXCEPT ![row] = clicks + 1]
        /\ lastClick' = [lastClick EXCEPT ![row] = clicks + 1]
        /\ pending' = {t \in pending : t.click # attackTimers[row]} \cup {new}
    BY <1>2 DEF Attack, TriggerAttack, Without
  <2>2. /\ clicks \in Nat /\ clicks + 1 \in 0 .. MaxClicks
        /\ 0 .. clicks \subseteq 0 .. clicks + 1
        /\ new \in [click : 1 .. clicks + 1, row : AttackRows]
        /\ Timeouts \subseteq [click : 1 .. clicks + 1, row : AttackRows]
    BY <2>1 DEF Marks, MarkTypes
  <2>3. MarkTypes'
    BY <2>1, <2>2 DEF Marks, MarkTypes
  <2>4. /\ \A w \in AttackRows : attackTimers[w] \in 0 .. clicks
        /\ attackTimers'[row] = clicks + 1 /\ lastClick'[row] = clicks + 1
        /\ \A w \in AttackRows \ {row} : /\ attackTimers'[w] = attackTimers[w]
                                        /\ lastClick'[w] = lastClick[w]
    BY <2>1 DEF Marks, MarkTypes
  <2>5. ASSUME NEW t \in [click : 1 .. clicks + 1, row : AttackRows]
        PROVE  t \in pending' <=> Remembered(t)'
    <3>1. CASE t.row = row /\ t.click = clicks + 1
      <4>1. t = new
        BY <3>1
      <4>2. QED
        BY <2>1, <2>2, <2>4, <3>1, <4>1 DEF Remembered
    <3>2. CASE t.row = row /\ t.click # clicks + 1
      <4>1. t \in Timeouts /\ t # new
        BY <2>2, <3>2
      <4>2. t \in pending => t.click = attackTimers[row]
        BY <3>2, <4>1 DEF Marks, Remembered
      <4>3. QED
        BY <2>1, <2>4, <3>2, <4>1, <4>2 DEF Remembered
    <3>3. CASE t.row # row /\ t.click = clicks + 1
      <4>1. t \notin Timeouts /\ t # new /\ t \notin pending
        BY <2>2, <3>3 DEF Marks, MarkTypes
      <4>2. attackTimers'[t.row] # t.click
        BY <2>2, <2>4, <3>3
      <4>3. QED
        BY <2>1, <4>1, <4>2 DEF Remembered
    <3>4. CASE t.row # row /\ t.click # clicks + 1
      <4>1. t \in Timeouts /\ t # new
        BY <2>2, <3>4
      <4>2. t \in pending => t.click = attackTimers[t.row] /\ t.click # 0
        BY <4>1 DEF Marks, Remembered
      <4>3. t \in pending => t.click # attackTimers[row]
        BY <3>4, <4>2 DEF Marks
      <4>4. QED
        BY <2>1, <2>4, <3>4, <4>1, <4>3 DEF Marks, Remembered
    <3>5. QED
      BY <3>1, <3>2, <3>3, <3>4
  <2>6. tampered' = {w \in AttackRows : attackTimers'[w] # 0}
    BY <2>1, <2>2, <2>4 DEF Marks
  <2>7. \A w \in AttackRows : attackTimers'[w] # 0 => attackTimers'[w] = lastClick'[w]
    BY <2>4 DEF Marks
  <2>8. \A v, w \in AttackRows :
          attackTimers'[v] = attackTimers'[w] /\ attackTimers'[v] # 0 => v = w
    BY <2>2, <2>4 DEF Marks
  <2>9. QED
    BY <2>1, <2>3, <2>5, <2>6, <2>7, <2>8 DEF Marks
<1>3. ASSUME NEW t \in pending, AttackTimeout(t) PROVE Marks'
  <2>1. /\ clicks' = clicks /\ lastClick' = lastClick
        /\ pending' = pending \ {t} /\ tampered' = tampered \ {t.row}
        /\ attackTimers' = [attackTimers EXCEPT ![t.row] = 0]
    BY <1>3 DEF AttackTimeout
  <2>2. /\ t \in Timeouts /\ t.row \in AttackRows /\ clicks \in Nat
        /\ attackTimers[t.row] = t.click /\ t.click # 0
    BY DEF Marks, MarkTypes, Remembered
  <2>3. MarkTypes'
    BY <2>1, <2>2 DEF Marks, MarkTypes
  <2>4. /\ attackTimers'[t.row] = 0
        /\ \A w \in AttackRows \ {t.row} : attackTimers'[w] = attackTimers[w]
    BY <2>1, <2>2 DEF Marks, MarkTypes
  <2>5. ASSUME NEW u \in Timeouts
        PROVE  u \in pending' <=> Remembered(u)'
    <3>1. CASE u.row = t.row
      <4>1. u \in pending => u = t
        BY <2>2, <3>1 DEF Marks, Remembered
      <4>2. QED
        BY <2>1, <2>4, <3>1, <4>1 DEF Remembered
    <3>2. CASE u.row # t.row
      BY <2>1, <2>4, <3>2 DEF Marks, Remembered
    <3>3. QED
      BY <3>1, <3>2
  <2>6. QED
    BY <2>1, <2>3, <2>4, <2>5 DEF Marks
<1>4. ASSUME UNCHANGED attackVars PROVE Marks'
  BY <1>4 DEF Marks, MarkTypes, Remembered, attackVars
<1>5. QED
  BY <1>1, <1>2, <1>3, <1>4
     DEF PageNext, Accepted, Rejected, NetworkError, Receive, LoopEnds, Serve, Tick,
         Attacks, pageVars

LEMMA PageInvariant == PageSpec => []PageInv
<1>1. PageInit => PageInv
  <2> SUFFICES ASSUME PageInit PROVE PageInv
    OBVIOUS
  <2>1. Types /\ Fetches /\ RowsFollow
    BY BlankPage DEF PageInit, Init, Types, Fetches, RowsFollow
  <2>2. WaitsForCurrent /\ RowsWait
    BY DEF PageInit, WaitsForCurrent, RowsWait, Blank
  <2>3. OnlyOverlapsMix /\ ShownBelongs(page)
    BY DEF PageInit, Blank, OnlyOverlapsMix, ShownBelongs, ResultShown, OnlyActiveRun,
       NoBanner
  <2>4. Marks
    BY PageAssumption DEF PageInit, Marks, MarkTypes, Remembered, NoTimers
  <2>5. QED
    BY <2>1, <2>2, <2>3, <2>4 DEF PageInv
<1>2. Base /\ Streams /\ PageInv /\ [PageNext]_<<vars, pageVars>> => PageInv'
  BY TypesStep, FetchesStep, ShownStep, WaitsStep, RowsWaitStep, RowsFollowStep,
     MarksStep DEF PageInv
<1>3. QED
  BY <1>1, <1>2, PageIsServer, BaseInvariant, StreamsInvariant, PTL DEF PageSpec

-----------------------------------------------------------------------------
(* Its consequences. *)

(* Every variable of the page and of the server keeps its type. *)
THEOREM PageTypeCorrect == PageSpec => []PageTypeOK
<1>1. TypeOK /\ PageInv => PageTypeOK
  BY DEF PageInv, Types, Timed, Marks, MarkTypes, PageTypeOK
<1>2. QED
  BY <1>1, PageIsServer, TypeInvariant, PageInvariant, PTL

(* A run that was over when the last one was submitted leaves nothing on    *)
(* the page.                                                                *)
THEOREM OnlyOverlapsMixOnThePage == PageSpec => []OnlyOverlapsMix
<1>1. PageInv => OnlyOverlapsMix
  BY DEF PageInv
<1>2. QED
  BY <1>1, PageInvariant, PTL

(* However many runs overlap, once all have told their end the page rests.  *)
THEOREM PageComesToRest == PageSpec => []RestsWhenAllIsTold
<1>1. Base /\ Streams /\ PageInv => RestsWhenAllIsTold
  <2> SUFFICES ASSUME Base, Streams, PageInv, AllTold, current # NoRun
               PROVE  /\ ~page.disabled
                      /\ \A i \in StepIds : page.steps[i] # "active"
                      /\ page.banner.kind # "hidden"
                      /\ page.started \subseteq page.frozen
    BY DEF RestsWhenAllIsTold
  <2> USE DEF PageInv, Types
  (* A stream that has ended, but for a panic, ended with one of these. *)
  <2>1. ASSUME NEW r \in Requests, conn[r] = "ended", fetched[r] # "no"
        PROVE  seen[r].stage \in {"verified_on_chain", "error"} \/ fetched[r] = "failed"
    BY <2>1 DEF AllTold, Told, Streams, Due
  <2>2. ASSUME NEW r \in Requests PROVE ~Waiting(r)
    BY <2>1, <2>2 DEF AllTold, Told, Waiting
  <2>3. ~page.disabled /\ page.banner.kind # "hidden"
    BY <2>2 DEF WaitsForCurrent
  <2>4. ASSUME NEW i \in StepIds, page.steps[i] = "active" PROVE FALSE
    <3>1. PICK r \in Requests :
            \/ conn[r] = "gone"
            \/ conn[r] \in {"open", "ended"} /\ MakesActive(seen[r].stage, i)
      BY <2>4 DEF RowsWait
    <3>2. fetched[r] = "sent"
      BY <3>1 DEF Fetches
    <3>3. conn[r] = "ended"
      BY <3>1, <3>2 DEF AllTold, Told
    <3>4. QED
      BY <2>1, <3>1, <3>2, <3>3 DEF MakesActive
  <2>5. page.started \subseteq page.frozen
    BY <2>4 DEF ShownBelongs, OnlyActiveRun, Timed, Pages
  <2>6. QED
    BY <2>3, <2>4, <2>5
<1>2. QED
  BY <1>1, PageIsServer, BaseInvariant, StreamsInvariant, PageInvariant, PTL

(* A result stands beside its own hashes and attack buttons. *)
THEOREM ResultsStandByTheirHashes == PageSpec => []ResultStandsByItsHashes
<1>1. PageInv => ResultStandsByItsHashes
  BY DEF PageInv, ShownBelongs, ResultShown, ResultStandsByItsHashes
<1>2. QED
  BY <1>1, PageInvariant, PTL

(* The rows of a run that nothing overlaps advance in order. *)
THEOREM RowsAreInOrder == PageSpec => []RowsAdvanceInOrder
<1>1. PageInv => RowsAdvanceInOrder
  <2> SUFFICES ASSUME PageInv, overlapped = {} PROVE RowsAdvanceInOrder
    BY DEF RowsAdvanceInOrder
  <2>1. Ordered(page.steps)
    BY DEF PageInv, RowsFollow
  <2>2. QED
    BY <2>1 DEF RowsAdvanceInOrder, Ordered, StepIds
<1>2. QED
  BY <1>1, PageInvariant, PTL

(* The mark of an attack lasts as long as the timeout of the last click.    *)
THEOREM MarksKeepTheirTime == PageSpec => []MarksLastTheirTime
<1>1. ASSUME Marks PROVE MarksLastTheirTime
  <2>1. ASSUME NEW row \in AttackRows
        PROVE  attackTimers[row] # 0 <=>
                 [click |-> lastClick[row], row |-> row] \in pending
    <3> DEFINE t == [click |-> lastClick[row], row |-> row]
    <3>1. /\ clicks \in Nat /\ lastClick[row] \in 0 .. clicks
          /\ attackTimers[row] \in 0 .. clicks
          /\ attackTimers[row] # 0 => attackTimers[row] = lastClick[row]
      BY <1>1, PageAssumption DEF Marks, MarkTypes
    <3>2. CASE attackTimers[row] # 0
      <4>1. t \in [click : 1 .. clicks, row : AttackRows] /\ Remembered(t)
        BY <3>1, <3>2 DEF Remembered
      <4>2. QED
        BY <1>1, <3>2, <4>1 DEF Marks
    <3>3. CASE attackTimers[row] = 0
      <4>1. t \in pending => t \in [click : 1 .. clicks, row : AttackRows]
        BY <1>1 DEF Marks, MarkTypes
      <4>2. t \in pending => Remembered(t)
        BY <1>1, <4>1 DEF Marks
      <4>3. QED
        BY <3>3, <4>2 DEF Remembered
    <3>4. QED
      BY <3>2, <3>3
  <2>2. QED
    BY <1>1, <2>1 DEF Marks, MarksLastTheirTime
<1>2. PageInv => MarksLastTheirTime
  BY <1>1 DEF PageInv
<1>3. QED
  BY <1>2, PageInvariant, PTL

=============================================================================
