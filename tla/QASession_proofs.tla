--------------------------- MODULE QASession_proofs ---------------------------
(***************************************************************************)
(* Theorems about QASession, for any number of runs, agents and product    *)
(* types and every budget.                                                 *)
(***************************************************************************)
EXTENDS QASession, TLAPS

\* What only turns change is nothing but its three variables.
USE DEF remediation

----------------------------------------------------------------------------
(* What agents add. *)

\* What one round may find are findings, or nothing.
LEMMA BatchesAreFindings == Batches \subseteq Findings /\ Nothing \in Batches
BY DEF Batches, Nothing, Severe, Mild, Findings

\* Findings put together are findings.
LEMMA PlusIsFindings ==
    ASSUME NEW f \in Findings, NEW g \in Findings
    PROVE  Plus(f, g) \in Findings
BY DEF Plus, Findings

\* The agents are those of the registry.
LEMMA AgentNames ==
    ASSUME NEW a \in Agents
    PROVE  a \in {"functional_tester", "security_scanner", "performance_profiler",
                 "contract_validator", "apk_installer", "functional_qa_agent",
                 "boundary_qa_agent", "adversarial_qa_agent", "security_qa_agent",
                 "performance_qa_agent", "regression_qa_agent", Synthesis}
<1>1. CASE a = Synthesis
  BY <1>1
<1>2. CASE \E p \in DOMAIN Strategy : a \in Strategy[p]
  <2>1. PICK p \in DOMAIN Strategy : a \in Strategy[p]
    BY <1>2
  <2>2. Strategy[p] \in {WebApp, RestApi, GraphqlApi, CliTool, Library, CommonAgents, Mobile}
    BY DEF Strategy
  <2> QED
    BY <2>1, <2>2 DEF WebApp, RestApi, GraphqlApi, CliTool, Library, Mobile, CommonAgents
<1>3. a = Synthesis \/ a \in UNION {Strategy[p] : p \in DOMAIN Strategy}
  BY DEF Agents
<1> QED
  BY <1>1, <1>2, <1>3

\* The synthesis is one of them.
LEMMA SynthesisIsAgent == Synthesis \in Agents
BY DEF Agents

\* What a round adds are findings.
LEMMA AdditionsAreFindings ==
    ASSUME NEW r \in Runs, NEW a \in Agents \ {Synthesis}, NEW files \in BOOLEAN
    PROVE  Additions(r, a, files) \subseteq Findings
<1>1. Batches \subseteq Findings /\ {Nothing} \subseteq Findings /\ Installed \subseteq Findings
  BY BatchesAreFindings DEF Installed, Batches
<1>2. Measured(files) \subseteq Findings
  BY <1>1, PlusIsFindings DEF Measured, SlowStart, Analysed
<1> QED
  BY <1>1, <1>2, AgentNames DEF Additions, TestRun, SecurityScan, Profiled, Contract,
     Functional, Boundary, Adversarial, Owasp, Compared, Analysed

\* A worker that was not started is idle.
LEMMA IdleIsWorker == Idle \in Workers /\ Idle.pc = "idle"
<1>1. Nothing \in Findings
  BY BatchesAreFindings
<1> QED
  BY <1>1 DEF Idle, Workers, Points

----------------------------------------------------------------------------
(* A step of a worker. *)

\* A worker step changes the worker, and beside it at most its row, when the
\* result is saved, or the conversation, when it is told.
Saves(r) ==
    /\ run[r].pc = "flushed" /\ run'[r].pc = "saved"
    /\ row' = [row EXCEPT ![r] = [status |-> StatusOf(run[r].verdict), stored |-> TRUE]]

Tells(r) ==
    /\ run[r].pc = "telling" /\ run'[r].pc = "over"
    /\ conv' = [conv EXCEPT !.report = r,
                            !.phase = IF @ = "qa_running" THEN "completed" ELSE @]

\* A worker changes its own state and none of the conversation.
LEMMA WorkerStep ==
    ASSUME TypeOK, NEW r \in Runs, Worker(r)
    PROVE  /\ run' \in [Runs -> Workers]
           /\ \A q \in Runs \ {r} : run'[q] = run[q]
           /\ UNCHANGED <<product, turn, remediation, completions, crashes>>
           /\ holder' \in Runs \cup {None}
           /\ run[r].pc \notin {"idle", "over"} /\ run'[r].pc # "idle"
           /\ run'[r].pc = "telling" => run[r].pc = "saved"
           /\ run'[r].pc = "saved" => Saves(r)
           /\ row' = row \/ Saves(r)
           /\ conv' = conv \/ Tells(r)
           /\ run'[r].pc = "over" => Tells(r) \/ conv' = conv
<1>1. run \in [Runs -> Workers] /\ run[r] \in Workers /\ product \in DOMAIN Strategy
  BY QAAssumption DEF TypeOK
<1>2. Idle \in Workers
  BY IdleIsWorker
<1>3. holder \in Runs \cup {None}
  BY DEF TypeOK
<1> DEFINE
      Becomes(s) == /\ s \in Workers
                    /\ run' = [run EXCEPT ![r] = s]
                    /\ UNCHANGED <<product, row, conv, turn, remediation, completions, crashes>>
                    /\ s.pc \notin {"idle", "saved"}
                    /\ s.pc = "telling" => run[r].pc = "saved"
                    /\ holder' \in Runs \cup {None}
                    /\ run[r].pc \notin {"idle", "over"}
<1>4. ASSUME NEW s, Becomes(s)
      PROVE  /\ run' \in [Runs -> Workers]
             /\ \A q \in Runs \ {r} : run'[q] = run[q]
             /\ UNCHANGED <<product, turn, remediation, completions, crashes>>
             /\ holder' \in Runs \cup {None}
             /\ run[r].pc \notin {"idle", "over"} /\ run'[r].pc # "idle"
             /\ run'[r].pc = "telling" => run[r].pc = "saved"
             /\ run'[r].pc = "saved" => Saves(r)
             /\ row' = row /\ conv' = conv
  BY <1>1, <1>4
<1>5. ASSUME NEW v \in Verdicts, Ends(r, v), holder' = holder, run[r].pc \notin {"idle", "over"}
      PROVE  \E s : Becomes(s)
  <2> DEFINE s == [Idle EXCEPT !.pc = "ended", !.verdict = v]
  <2>1. s \in Workers /\ s.pc = "ended"
    BY <1>2 DEF Workers, Points
  <2>2. Becomes(s)
    BY <1>3, <1>5, <2>1 DEF Ends, Work
  <2> QED
    BY <2>2
<1>6. CASE Bootstrap(r) \/ Build(r)
  <2>1. CASE Ends(r, "blocked") /\ holder' = holder /\ run[r].pc = "queued"
    BY <1>4, <1>5, <2>1 DEF Verdicts
  <2>2. CASE Work(r, [run[r] EXCEPT !.pc = "probing"]) /\ holder' = holder /\ run[r].pc = "queued"
    <3> DEFINE s == [run[r] EXCEPT !.pc = "probing"]
    <3>1. s \in Workers /\ s.pc = "probing"
      BY <1>1 DEF Workers, Points
    <3>2. Becomes(s)
      BY <1>3, <2>2, <3>1 DEF Work
    <3> QED
      BY <1>4, <3>2
  <2> QED
    BY <1>6, <2>1, <2>2 DEF Bootstrap, Build
<1>7. CASE StopProbing(r)
  <2>1. CASE Work(r, [run[r] EXCEPT !.pc = "synthesis", !.exhausted = TRUE])
    <3> DEFINE s == [run[r] EXCEPT !.pc = "synthesis", !.exhausted = TRUE]
    <3>1. s \in Workers /\ s.pc = "synthesis"
      BY <1>1 DEF Workers, Points
    <3>2. Becomes(s)
      BY <1>3, <1>7, <2>1, <3>1 DEF Work, StopProbing
    <3> QED
      BY <1>4, <3>2
  <2>2. CASE Work(r, [run[r] EXCEPT !.pc = "synthesis"])
    <3> DEFINE s == [run[r] EXCEPT !.pc = "synthesis"]
    <3>1. s \in Workers /\ s.pc = "synthesis"
      BY <1>1 DEF Workers, Points
    <3>2. Becomes(s)
      BY <1>3, <1>7, <2>2, <3>1 DEF Work, StopProbing
    <3> QED
      BY <1>4, <3>2
  <2> QED
    BY <1>7, <2>1, <2>2 DEF StopProbing
<1>8. CASE Decide(r)
  <2>1. CASE Work(r, [run[r] EXCEPT !.pc = "synthesis"])
    <3> DEFINE s == [run[r] EXCEPT !.pc = "synthesis"]
    <3>1. s \in Workers /\ s.pc = "synthesis"
      BY <1>1 DEF Workers, Points
    <3>2. Becomes(s)
      BY <1>3, <1>8, <2>1, <3>1 DEF Work, Decide
    <3> QED
      BY <1>4, <3>2
  <2>2. ASSUME NEW a \in (Strategy[product] \cap Registered) \cup {Synthesis, "other"},
               Work(r, [run[r] EXCEPT !.pc = "asked", !.asked = a])
        PROVE  \E s : Becomes(s)
    <3> DEFINE s == [run[r] EXCEPT !.pc = "asked", !.asked = a]
    <3>1. a \in Agents \cup {None, "other"}
      BY QAAssumption, SynthesisIsAgent
    <3>2. s \in Workers /\ s.pc = "asked"
      BY <1>1, <3>1 DEF Workers, Points
    <3>3. Becomes(s)
      BY <1>3, <1>8, <2>2, <3>2 DEF Work, Decide
    <3> QED
      BY <3>3
  <2> QED
    BY <1>4, <1>8, <2>1, <2>2 DEF Decide
<1>9. CASE Skip(r)
  <2> DEFINE s == [run[r] EXCEPT !.pc = "probing", !.asked = None, !.round = @ + 1]
  <2>0. run[r].round \in Nat /\ run[r].round + 1 \in Nat
    BY <1>1 DEF Workers
  <2>1. s \in Workers /\ s.pc = "probing"
    BY <1>1, <2>0 DEF Workers, Points
  <2>2. Becomes(s)
    BY <1>3, <1>9, <2>1 DEF Work, Skip
  <2> QED
    BY <1>4, <2>2
<1>10. CASE Probe(r)
  <2> DEFINE a == run[r].asked
  <2>0. PICK files \in BOOLEAN : \E f \in Additions(r, a, files) \cup {Nothing} :
            Work(r, After(run[r], a, f))
    BY <1>10 DEF Probe
  <2>1. PICK found \in Additions(r, a, files) \cup {Nothing} :
            Work(r, After(run[r], a, found))
    BY <2>0
  <2>2. a \in Registered /\ a \in Agents \ {Synthesis}
    BY <1>10, QAAssumption DEF Probe, Callable
  <2>3. found \in Findings
    BY <2>1, <2>2, AdditionsAreFindings, BatchesAreFindings
  <2>4. Plus(run[r].found, found) \in Findings
    BY <1>1, <2>3, PlusIsFindings DEF Workers
  <2>50. run[r].round + 1 \in Nat /\ [run[r].calls EXCEPT ![a] = @ + 1] \in [Registered -> Nat]
    BY <1>1, <2>2 DEF Workers
  <2>5. After(run[r], a, found) \in Workers /\ After(run[r], a, found).pc = "probing"
    BY <1>1, <2>2, <2>4, <2>50 DEF After, Workers, Points
  <2>6. Becomes(After(run[r], a, found))
    BY <1>3, <1>10, <2>1, <2>5 DEF Work, Probe
  <2> QED
    BY <1>4, <2>6
<1>11. CASE Synthesise(r)
  <2>1. Derived(run[r]) \in Verdicts
    BY DEF Derived, Verdicts
  <2>2. \E v \in Verdicts : Ends(r, v)
    BY <1>11, <2>1 DEF Synthesise
  <2> QED
    BY <1>4, <1>5, <1>11, <2>2 DEF Synthesise
<1>12. CASE Persist(r) \/ Tell(r)
  <2>1. CASE Persist(r)
    <3> DEFINE s == [run[r] EXCEPT !.pc = "flushed"]
    <3>1. s \in Workers /\ s.pc = "flushed"
      BY <1>1 DEF Workers, Points
    <3>2. Work(r, s)
      BY <1>1, <2>1 DEF Persist, Work
    <3>3. Becomes(s)
      BY <1>3, <2>1, <3>1, <3>2 DEF Work, Persist
    <3> QED
      BY <1>4, <3>3
  <2>2. CASE Tell(r)
    <3> DEFINE s == [run[r] EXCEPT !.pc = "telling"]
    <3>1. s \in Workers /\ s.pc = "telling"
      BY <1>1 DEF Workers, Points
    <3>2. Becomes(s)
      BY <2>2, <3>1 DEF Work, Tell
    <3> QED
      BY <1>4, <3>2
  <2> QED
    BY <1>12, <2>1, <2>2
<1>13. CASE Save(r)
  <2>1. run[r].pc = "flushed" /\ UNCHANGED <<product, conv, turn, holder, remediation, completions, crashes>>
    BY <1>13 DEF Save
  <2>2. CASE /\ run' = [run EXCEPT ![r].pc = "saved", ![r].verdict = None]
             /\ row' = [row EXCEPT ![r] = [status |-> StatusOf(run[r].verdict), stored |-> TRUE]]
    <3>1. run'[r] \in Workers /\ run'[r].pc = "saved" /\ run' \in [Runs -> Workers]
      BY <1>1, <2>2 DEF Workers, Points
    <3>2. \A q \in Runs \ {r} : run'[q] = run[q]
      BY <1>1, <2>2
    <3> QED
      BY <1>3, <2>1, <2>2, <3>1, <3>2 DEF Saves
  <2>3. CASE run' = [run EXCEPT ![r].pc = "over", ![r].verdict = None] /\ row' = row
    <3>1. run'[r] \in Workers /\ run'[r].pc = "over" /\ run' \in [Runs -> Workers]
      BY <1>1, <2>3 DEF Workers, Points
    <3>2. \A q \in Runs \ {r} : run'[q] = run[q]
      BY <1>1, <2>3
    <3> QED
      BY <1>3, <2>1, <2>3, <3>1, <3>2
  <2> QED
    BY <1>13, <2>2, <2>3 DEF Save
<1>14. CASE Told(r)
  <2>1. run[r].pc = "telling" /\ run' = [run EXCEPT ![r].pc = "over"]
    BY <1>14 DEF Told
  <2>2. run'[r] \in Workers /\ run'[r].pc = "over" /\ run' \in [Runs -> Workers]
    BY <1>1, <2>1 DEF Workers, Points
  <2>3. \A q \in Runs \ {r} : run'[q] = run[q]
    BY <1>1, <2>1
  <2> QED
    BY <1>14, <2>1, <2>2, <2>3 DEF Told, Tells
<1> QED
  BY <1>6, <1>7, <1>8, <1>9, <1>10, <1>11, <1>12, <1>13, <1>14 DEF Worker

----------------------------------------------------------------------------
(* The other steps. *)

\* A launch takes a run that was not used before.
LEMMA LaunchStep ==
    ASSUME TypeOK, NEW r \in Runs, Launch(r)
    PROVE  /\ run' \in [Runs -> Workers]
           /\ run[r].pc = "idle" /\ run'[r] = [run[r] EXCEPT !.pc = "queued"]
           /\ run'[r].pc = "queued"
           /\ run'[r].calls = run[r].calls /\ run'[r].round = run[r].round
           /\ run'[r].last = run[r].last
           /\ \A q \in Runs \ {r} : run'[q] = run[q] /\ row'[q] = row[q]
           /\ row' \in [Runs -> [status : {"none", "running", "completed", "blocked"},
                                 stored : BOOLEAN]]
           /\ row'[r].status = "running" /\ row'[r].stored = row[r].stored
<1>1. run \in [Runs -> Workers] /\ run[r].pc = "idle"
  BY DEF TypeOK, Launch, Fresh
<1>2. run' = [run EXCEPT ![r] = [run[r] EXCEPT !.pc = "queued"]]
  BY <1>1 DEF Launch
<1>3. row' = [row EXCEPT ![r] = [row[r] EXCEPT !.status = "running"]]
  BY DEF Launch, TypeOK
<1>4. [run[r] EXCEPT !.pc = "queued"] \in Workers
  BY <1>1 DEF Workers, Points
<1>5. /\ run'[r] = [run[r] EXCEPT !.pc = "queued"]
      /\ run'[r].pc = "queued" /\ run'[r].calls = run[r].calls
      /\ run'[r].round = run[r].round /\ run'[r].last = run[r].last
  BY <1>1, <1>2 DEF Workers
<1>6. /\ [row[r] EXCEPT !.status = "running"]
            \in [status : {"none", "running", "completed", "blocked"}, stored : BOOLEAN]
      /\ [row[r] EXCEPT !.status = "running"].status = "running"
      /\ [row[r] EXCEPT !.status = "running"].stored = row[r].stored
  BY DEF TypeOK
<1>7. row' \in [Runs -> [status : {"none", "running", "completed", "blocked"}, stored : BOOLEAN]]
      /\ row'[r] = [row[r] EXCEPT !.status = "running"]
  BY <1>3, <1>6 DEF TypeOK
<1>8. \A q \in Runs \ {r} : run'[q] = run[q] /\ row'[q] = row[q]
  BY <1>1, <1>2, <1>3 DEF TypeOK
<1> QED
  BY <1>1, <1>2, <1>4, <1>5, <1>6, <1>7, <1>8

\* A restart leaves idle what was idle and ends the rest.
LEMMA CrashStep ==
    ASSUME TypeOK, Crash
    PROVE  /\ run' \in [Runs -> Workers]
           /\ \A r \in Runs :
                 /\ run'[r].pc = IF run[r].pc = "idle" THEN "idle" ELSE "over"
                 /\ run'[r].round = 0 /\ \A a \in Registered : run'[r].calls[a] = 0
<1>1. Idle \in Workers /\ [Idle EXCEPT !.pc = "over"] \in Workers
  BY IdleIsWorker DEF Workers, Points
<1>2. /\ Idle.pc = "idle" /\ Idle.round = 0
      /\ \A a \in Registered : Idle.calls[a] = 0
  BY DEF Idle
<1>3. /\ [Idle EXCEPT !.pc = "over"].pc = "over" /\ [Idle EXCEPT !.pc = "over"].round = 0
      /\ [Idle EXCEPT !.pc = "over"].calls = Idle.calls
  BY DEF Idle
<1>4. run' = [r \in Runs |-> IF run[r].pc = "idle" THEN Idle ELSE [Idle EXCEPT !.pc = "over"]]
  BY DEF Crash
<1> QED
  BY <1>1, <1>2, <1>3, <1>4

\* What a turn writes: a report is only ever taken away.
LEMMA Writes ==
    ASSUME TypeOK, turn # None
    PROVE  /\ Written(turn, conv) \in Conversations
           /\ Written(turn, conv).report \in {conv.report, None}
           /\ turn.effect \in Remediations /\ turn.seen.report # None =>
                 Written(turn, conv).report = None
<1>1. conv \in Conversations /\ turn \in [effect : Effects, seen : Conversations]
  BY DEF TypeOK
<1>2. /\ conv.phase \in Phases /\ conv.offer \in BOOLEAN /\ conv.report \in Runs \cup {None}
  BY <1>1 DEF Conversations
<1> QED
  BY <1>2 DEF Written, Conversations, Phases, Remediations

\* A confirmed turn flushes the tasks of one report, other turns none.
LEMMA FlushedRows ==
    ASSUME TypeOK, turn # None
    PROVE  /\ Flushed(turn) \in [Runs -> Nat]
           /\ \A r \in Runs :
                 Flushed(turn)[r] = kept[r] +
                    IF turn.effect = "remediation_confirmed" /\ turn.seen.report = r THEN 1 ELSE 0
<1> DEFINE x == turn.seen.report
<1>1. kept \in [Runs -> Nat] /\ \A r \in Runs : kept[r] \in Nat
  BY DEF TypeOK
<1>2. Flushed(turn) = IF turn.effect = "remediation_confirmed"
                      THEN [kept EXCEPT ![x] = @ + 1] ELSE kept
  BY DEF Flushed
<1> HIDE DEF x
<1>3. /\ Flushed(turn) \in [Runs -> Nat]
      /\ \A r \in Runs : Flushed(turn)[r] = kept[r] +
            IF turn.effect = "remediation_confirmed" /\ x = r THEN 1 ELSE 0
  <2>1. CASE turn.effect = "remediation_confirmed"
    <3>1. Flushed(turn) = [kept EXCEPT ![x] = @ + 1]
      BY <1>2, <2>1
    <3>2. Flushed(turn) \in [Runs -> Nat]
      <4>1. CASE x \in Runs
        <5>1. kept[x] + 1 \in Nat
          BY <1>1, <4>1
        <5> QED
          BY <1>1, <3>1, <5>1
      <4>2. CASE x \notin Runs
        BY <1>1, <3>1, <4>2
      <4> QED
        BY <4>1, <4>2
    <3>3. \A r \in Runs : Flushed(turn)[r] = kept[r] + IF x = r THEN 1 ELSE 0
      BY <1>1, <3>1
    <3> QED
      BY <2>1, <3>2, <3>3
  <2>2. CASE turn.effect # "remediation_confirmed"
    <3>1. \A r \in Runs : kept[r] = kept[r] + 0
      BY <1>1
    <3> QED
      BY <1>1, <1>2, <2>2, <3>1
  <2> QED
    BY <2>1, <2>2
<1> QED
  BY <1>3 DEF x

\* A commit adds the flushed rows to the committed ones.
LEMMA CommitStep ==
    ASSUME TypeOK, NEW rows \in [Runs -> Nat], Commit(rows)
    PROVE  /\ remedied' \in [Runs -> Nat] /\ kept' \in [Runs -> Nat]
           /\ \A r \in Runs : remedied'[r] + kept'[r] = remedied[r] + rows[r]
BY DEF Commit, NothingKept, TypeOK

\* Every step keeps the types.
LEMMA TypeStep == TypeOK /\ [Next]_vars => TypeOK'
<1> SUFFICES ASSUME TypeOK, [Next]_vars PROVE TypeOK'
  OBVIOUS
<1>1. CASE UNCHANGED vars
  BY <1>1 DEF TypeOK, vars
<1>2. CASE RunQA
  BY <1>2, LaunchStep DEF RunQA, TypeOK
<1>3. CASE ProjectCompleted
  <2>1. conv' \in Conversations
    BY <1>3 DEF ProjectCompleted, TypeOK, Conversations, Phases
  <2> QED
    BY <1>3, <2>1 DEF ProjectCompleted, TypeOK
<1>4. ASSUME NEW r \in Runs, Worker(r) PROVE TypeOK'
  <2>1. CASE Saves(r)
    <3>1. [status |-> StatusOf(run[r].verdict), stored |-> TRUE]
             \in [status : {"none", "running", "completed", "blocked"}, stored : BOOLEAN]
      BY DEF StatusOf
    <3>2. row' \in [Runs -> [status : {"none", "running", "completed", "blocked"}, stored : BOOLEAN]]
      BY <2>1, <3>1 DEF Saves, TypeOK
    <3>3. conv' = conv
      BY <1>4, <2>1, WorkerStep DEF Saves, Tells
    <3> QED
      BY <1>4, <3>2, <3>3, WorkerStep DEF TypeOK
  <2>2. CASE Tells(r)
    <3>1. conv' \in Conversations
      BY <2>2 DEF Tells, TypeOK, Conversations, Phases
    <3>2. row' = row
      BY <1>4, <2>2, WorkerStep DEF Saves, Tells
    <3> QED
      BY <1>4, <3>1, <3>2, WorkerStep DEF TypeOK
  <2>3. CASE row' = row /\ conv' = conv
    BY <1>4, <2>3, WorkerStep DEF TypeOK
  <2> QED
    BY <1>4, <2>1, <2>2, <2>3, WorkerStep
<1>5. CASE Turn
  <2>1. PICK effect \in Answers(conv) : turn' = [effect |-> effect, seen |-> conv]
    BY <1>5 DEF Turn
  <2>2. effect \in Effects
    BY <2>1 DEF Answers, Effects, Remediations
  <2>3. turn' \in [effect : Effects, seen : Conversations]
    BY <2>1, <2>2 DEF TypeOK
  <2>4. CASE effect = "qa_started"
    <3>1. (\E r \in Runs : Launch(r)) /\ Commit(kept)
      BY <1>5, <2>1, <2>4 DEF Turn
    <3>2. remedied' \in [Runs -> Nat] /\ kept' \in [Runs -> Nat]
      BY <3>1, CommitStep DEF TypeOK
    <3>3. /\ run' \in [Runs -> Workers]
          /\ row' \in [Runs -> [status : {"none", "running", "completed", "blocked"},
                                stored : BOOLEAN]]
      BY <3>1, LaunchStep
    <3> QED
      BY <1>5, <2>3, <3>2, <3>3 DEF Turn, TypeOK
  <2>5. CASE effect # "qa_started"
    BY <1>5, <2>1, <2>3, <2>5 DEF Turn, TypeOK
  <2> QED
    BY <2>4, <2>5
<1>6. CASE Respond
  <2>1. conv' \in Conversations
    BY <1>6, Writes DEF Respond
  <2>2. remedied' \in [Runs -> Nat] /\ kept' \in [Runs -> Nat]
    BY <1>6, FlushedRows, CommitStep DEF Respond
  <2> QED
    BY <1>6, <2>1, <2>2 DEF Respond, TypeOK
<1>7. CASE RespondRefused
  <2>1. kept' \in [Runs -> Nat]
    BY <1>7, FlushedRows DEF RespondRefused
  <2>2. refused' \in [Runs -> Nat]
    <3> DEFINE x == turn.seen.report
    <3>1. refused \in [Runs -> Nat]
      BY DEF TypeOK
    <3>2. refused' = [refused EXCEPT ![x] = @ + 1] \/ refused' = refused
      BY <1>7 DEF RespondRefused
    <3> HIDE DEF x
    <3> QED
      BY <3>1, <3>2
  <2> QED
    BY <1>7, <2>1, <2>2 DEF RespondRefused, TypeOK
<1>71. CASE RespondFails \/ Leave
  <2>1. kept' \in [Runs -> Nat]
    BY <1>71 DEF RespondFails, Leave, NothingKept
  <2> QED
    BY <1>71, <2>1 DEF RespondFails, Leave, TypeOK
<1>72. CASE Talk
  <2>1. remedied' \in [Runs -> Nat] /\ kept' \in [Runs -> Nat]
    BY <1>72, CommitStep DEF Talk, TypeOK
  <2> QED
    BY <1>72, <2>1 DEF Talk, TypeOK
<1>8. CASE Crash
  <2>1. run' \in [Runs -> Workers]
    BY <1>8, CrashStep
  <2>2. crashes' \in Nat /\ kept' \in [Runs -> Nat]
    BY <1>8 DEF Crash, TypeOK, NothingKept
  <2> QED
    BY <1>8, <2>1, <2>2 DEF Crash, TypeOK
<1> QED
  BY <1>1, <1>2, <1>3, <1>4, <1>5, <1>6, <1>7, <1>71, <1>72, <1>8 DEF Next

----------------------------------------------------------------------------
(* The conjuncts of the invariant. *)

\* How the runs and the rows move: forward only, and stored for ever.
Moves(r) ==
    /\ run[r].pc = "over" => run'[r].pc = "over"
    /\ row[r].stored => row'[r].stored
    /\ run'[r].pc = "idle" => run[r].pc = "idle" /\ row'[r] = row[r]
    /\ run'[r].pc \in {"saved", "telling"} => row'[r].stored
    /\ row'[r].status \in {"completed", "blocked"} => row'[r].stored

\* Every step moves runs and rows forward only.
LEMMA Progress ==
    ASSUME QAInv, [Next]_vars, NEW r \in Runs
    PROVE  Moves(r)
<1>1. TypeOK /\ CompletedHasItsFindings /\ StoredInTime
  BY DEF QAInv
<1>2. CASE UNCHANGED <<run, row>>
  BY <1>1, <1>2 DEF CompletedHasItsFindings, StoredInTime, Moves
<1>3. ASSUME NEW q \in Runs, Launch(q) PROVE Moves(r)
  BY <1>1, <1>3, LaunchStep DEF CompletedHasItsFindings, StoredInTime, Moves
<1>4. ASSUME NEW q \in Runs, Worker(q) PROVE Moves(r)
  <2>1. CASE Saves(q)
    <3>1. row'[q].stored /\ \A p \in Runs \ {q} : row'[p] = row[p]
      BY <1>1, <2>1 DEF Saves, TypeOK
    <3> QED
      BY <1>1, <1>4, <3>1, WorkerStep DEF CompletedHasItsFindings, StoredInTime, Moves
  <2>2. CASE row' = row /\ run'[q].pc # "saved"
    BY <1>1, <1>4, <2>2, WorkerStep DEF CompletedHasItsFindings, StoredInTime, Moves
  <2> QED
    BY <1>1, <1>4, <2>1, <2>2, WorkerStep
<1>5. CASE Crash
  <2>1. row' = row
    BY <1>5 DEF Crash
  <2> QED
    BY <1>1, <1>5, <2>1, CrashStep DEF CompletedHasItsFindings, StoredInTime, Moves
<1>6. CASE Next
  <2>1. CASE (\E q \in Runs : Launch(q) \/ Worker(q)) \/ Crash
    BY <1>3, <1>4, <1>5, <2>1
  <2>2. (\E q \in Runs : Launch(q) \/ Worker(q)) \/ Crash \/ UNCHANGED <<run, row>>
    BY <1>6 DEF Next, RunQA, ProjectCompleted, Turn, Respond, RespondRefused, RespondFails,
       Talk, Leave
  <2> QED
    BY <1>2, <2>1, <2>2
<1>7. CASE UNCHANGED vars
  BY <1>2, <1>7 DEF vars
<1> QED
  BY <1>6, <1>7

\* Which reports there are after a step: the earlier ones, or that of the run
\* that has just told of its result.
LEMMA Reports ==
    ASSUME QAInv, [Next]_vars, NEW r \in Runs, Reported(r)'
    PROVE  \/ Reported(r)
           \/ run[r].pc = "telling" /\ run'[r].pc = "over" /\ UNCHANGED remediation
<1>1. TypeOK
  BY DEF QAInv
<1>2. CASE conv'.report = conv.report /\ turn' \in {turn, None}
  BY <1>2 DEF Reported
<1>3. CASE UNCHANGED vars \/ RunQA \/ RespondRefused \/ RespondFails \/ Talk \/ Leave \/ Crash
  BY <1>2, <1>3 DEF vars, RunQA, RespondRefused, RespondFails, Talk, Leave, Crash
<1>4. CASE ProjectCompleted
  BY <1>1, <1>2, <1>4 DEF ProjectCompleted, TypeOK, Conversations
<1>5. ASSUME NEW q \in Runs, Worker(q)
      PROVE  \/ Reported(r)
             \/ run[r].pc = "telling" /\ run'[r].pc = "over" /\ UNCHANGED remediation
  <2>1. CASE Tells(q)
    <3>1. conv'.report = q
      BY <1>1, <2>1 DEF Tells, TypeOK, Conversations
    <3> QED
      BY <1>1, <1>5, <2>1, <3>1, WorkerStep DEF Tells, Reported
  <2>2. CASE conv' = conv
    BY <1>1, <1>2, <1>5, <2>2, WorkerStep
  <2> QED
    BY <1>1, <1>5, <2>1, <2>2, WorkerStep
<1>6. CASE Turn
  <2>1. PICK effect \in Answers(conv) : turn' = [effect |-> effect, seen |-> conv]
    BY <1>6 DEF Turn
  <2>2. turn'.seen = conv /\ conv' = conv
    BY <1>6, <2>1 DEF Turn
  <2> QED
    BY <2>2 DEF Reported
<1>7. CASE Respond
  <2>1. conv'.report \in {conv.report, None} /\ turn' = None
    BY <1>1, <1>7, Writes DEF Respond
  <2> QED
    BY <2>1, QAAssumption DEF Reported
<1> QED
  BY <1>3, <1>4, <1>5, <1>6, <1>7 DEF Next

\* A row is finished after its findings and before its report.
LEMMA StorageStep ==
    ASSUME QAInv, [Next]_vars
    PROVE  (CompletedHasItsFindings /\ ReportFollowsResult /\ StoredInTime)'
<1>1. CompletedHasItsFindings /\ ReportFollowsResult /\ StoredInTime
  BY DEF QAInv
<1>2. \A r \in Runs : Moves(r)
  BY Progress
<1>3. \A r \in Runs : Reported(r)' =>
         \/ Reported(r)
         \/ run[r].pc = "telling" /\ run'[r].pc = "over"
  BY Reports
<1>4. \A r \in Runs : Reported(r)' => row'[r].stored /\ run'[r].pc = "over"
  BY <1>1, <1>2, <1>3 DEF ReportFollowsResult, StoredInTime, Reported, Moves
<1>5. ReportFollowsResult'
  BY <1>4 DEF ReportFollowsResult, Reported
<1>6. CompletedHasItsFindings'
  BY <1>2 DEF CompletedHasItsFindings, Moves
<1>7. StoredInTime'
  BY <1>1, <1>2, <1>4 DEF StoredInTime, Moves
<1> QED
  BY <1>5, <1>6, <1>7

\* A step that makes tasks of a report answers it, for good or with an error.
Confirms(r) ==
    /\ turn # None /\ turn.effect = "remediation_confirmed" /\ turn.seen.report = r
    /\ remedied'[r] + kept'[r] = remedied[r] + kept[r] + 1
    /\ \/ refused'[r] = refused[r] /\ ~Reported(r)'
       \/ refused'[r] = refused[r] + 1

\* Other steps make none, at most they lose some that were not committed.
MakesNone(r) ==
    remedied'[r] + kept'[r] <= remedied[r] + kept[r] /\ refused'[r] = refused[r]

\* No step makes tasks of a report but a confirmation of it.
LEMMA TasksAreConfirmed ==
    ASSUME QAInv, [Next]_vars, NEW r \in Runs
    PROVE  Confirms(r) \/ MakesNone(r)
<1>1. /\ TypeOK /\ kept \in [Runs -> Nat]
      /\ remedied[r] \in Nat /\ kept[r] \in Nat /\ refused[r] \in Nat
  BY DEF QAInv, TypeOK
<1>2. CASE UNCHANGED remediation
  BY <1>1, <1>2 DEF MakesNone
<1>3. CASE Commit(kept) /\ UNCHANGED refused
  BY <1>1, <1>3, CommitStep DEF MakesNone
<1>4. CASE kept' = NothingKept /\ UNCHANGED <<remedied, refused>>
  BY <1>1, <1>4 DEF MakesNone, NothingKept
<1>5. CASE Turn
  BY <1>2, <1>3, <1>5 DEF Turn
<1>6. CASE Respond
  <2>1. /\ turn # None /\ turn' = None /\ refused' = refused
        /\ conv' = Written(turn, conv) /\ Commit(Flushed(turn))
    BY <1>6 DEF Respond
  <2>2. remedied'[r] + kept'[r] = remedied[r] + Flushed(turn)[r]
    BY <1>1, <2>1, FlushedRows, CommitStep
  <2>3. CASE turn.effect = "remediation_confirmed" /\ turn.seen.report = r
    <3>1. Flushed(turn)[r] = kept[r] + 1
      BY <1>1, <2>1, <2>3, FlushedRows
    <3>2. conv'.report = None
      BY <1>1, <2>1, <2>3, Writes, QAAssumption DEF Remediations
    <3>3. ~Reported(r)'
      BY <2>1, <3>2, QAAssumption DEF Reported
    <3> QED
      BY <1>1, <2>1, <2>2, <2>3, <3>1, <3>3 DEF Confirms
  <2>4. CASE ~(turn.effect = "remediation_confirmed" /\ turn.seen.report = r)
    <3>1. Flushed(turn)[r] = kept[r]
      BY <1>1, <2>1, <2>4, FlushedRows
    <3> QED
      BY <1>1, <2>1, <2>2, <3>1 DEF MakesNone
  <2> QED
    BY <2>3, <2>4
<1>7. CASE RespondRefused
  <2>1. turn # None /\ kept' = Flushed(turn) /\ remedied' = remedied
    BY <1>7 DEF RespondRefused
  <2>2. CASE turn.effect = "remediation_confirmed" /\ turn.seen.report = r
    <3>1. kept'[r] = kept[r] + 1
      BY <1>1, <2>1, <2>2, FlushedRows
    <3>2. refused' = [refused EXCEPT ![r] = @ + 1]
      BY <1>7, <2>2 DEF RespondRefused
    <3>3. refused'[r] = refused[r] + 1
      BY <1>1, <3>2 DEF TypeOK
    <3> QED
      BY <1>1, <2>1, <2>2, <3>1, <3>3 DEF Confirms
  <2>3. CASE ~(turn.effect = "remediation_confirmed" /\ turn.seen.report = r)
    <3>1. kept'[r] = kept[r]
      BY <1>1, <2>1, <2>3, FlushedRows
    <3> DEFINE x == turn.seen.report
    <3>2. refused' = refused \/ (refused' = [refused EXCEPT ![x] = @ + 1] /\ x # r)
      BY <1>7, <2>3 DEF RespondRefused
    <3>3. refused \in [Runs -> Nat]
      BY <1>1 DEF TypeOK
    <3> HIDE DEF x
    <3>4. refused'[r] = refused[r]
      BY <3>2, <3>3
    <3> QED
      BY <1>1, <2>1, <3>1, <3>4 DEF MakesNone
  <2> QED
    BY <2>2, <2>3
<1>8. CASE ~Turn /\ ~Respond /\ ~RespondRefused
  <2>1. CASE \E q \in Runs : Worker(q)
    BY <1>1, <1>2, <2>1, WorkerStep
  <2>2. CASE UNCHANGED vars \/ RunQA \/ ProjectCompleted
    BY <1>2, <2>2 DEF vars, RunQA, ProjectCompleted
  <2>3. CASE Talk
    BY <1>3, <2>3 DEF Talk
  <2>4. CASE RespondFails \/ Leave \/ Crash
    BY <1>4, <2>4 DEF RespondFails, Leave, Crash
  <2> QED
    BY <1>8, <2>1, <2>2, <2>3, <2>4 DEF Next
<1> QED
  BY <1>5, <1>6, <1>7, <1>8

\* Where nothing was made or refused, and no more is, nothing is.
LEMMA NothingFromNothing ==
    ASSUME NEW a \in Nat, NEW b \in Nat, NEW c \in Nat, NEW d \in Nat, NEW e \in Nat,
           NEW f \in Nat, a + b + c = 0, d + e <= a + b, f = c
    PROVE  d + e + f = 0
OBVIOUS

\* What was made of a report agrees with the answers it had.
LEMMA RemediationStep ==
    ASSUME QAInv, [Next]_vars
    PROVE  RemediedIsAnswered'
<1>1. TypeOK /\ RemediedIsAnswered /\ TypeOK'
  BY TypeStep DEF QAInv
<1>2. ASSUME NEW r \in Runs
      PROVE  /\ remedied'[r] + kept'[r] <= refused'[r] + IF Reported(r)' THEN 0 ELSE 1
             /\ run'[r].pc # "over" => remedied'[r] + kept'[r] + refused'[r] = 0
  <2>1. /\ remedied[r] \in Nat /\ kept[r] \in Nat /\ refused[r] \in Nat
        /\ remedied'[r] \in Nat /\ kept'[r] \in Nat /\ refused'[r] \in Nat
    BY <1>1 DEF TypeOK
  <2>2. Moves(r)
    BY Progress
  <2>3. /\ remedied[r] + kept[r] <= refused[r] + IF Reported(r) THEN 0 ELSE 1
        /\ run[r].pc # "over" => remedied[r] + kept[r] + refused[r] = 0
    BY <1>1 DEF RemediedIsAnswered
  <2>4. CASE Confirms(r)
    <3>1. Reported(r) /\ run[r].pc = "over"
      BY <2>4 DEF Confirms, Reported, QAInv, StoredInTime
    <3>2. run'[r].pc = "over"
      BY <2>2, <3>1 DEF Moves
    <3>3. remedied[r] + kept[r] <= refused[r]
      BY <2>1, <2>3, <3>1
    <3>4. CASE refused'[r] = refused[r] /\ ~Reported(r)'
      BY <2>1, <2>4, <3>2, <3>3, <3>4 DEF Confirms
    <3>5. CASE refused'[r] = refused[r] + 1
      <4>1. remedied'[r] + kept'[r] <= refused'[r]
        BY <2>1, <2>4, <3>3, <3>5 DEF Confirms
      <4> QED
        BY <2>1, <3>2, <4>1
    <3> QED
      BY <2>4, <3>4, <3>5 DEF Confirms
  <2>5. CASE MakesNone(r)
    <3>1. /\ remedied'[r] + kept'[r] <= remedied[r] + kept[r]
          /\ refused'[r] = refused[r]
      BY <2>5 DEF MakesNone
    <3>2. run'[r].pc # "over" => remedied'[r] + kept'[r] + refused'[r] = 0
      <4>1. run'[r].pc # "over" => remedied[r] + kept[r] + refused[r] = 0
        BY <2>2, <2>3 DEF Moves
      <4>2. remedied[r] + kept[r] + refused[r] = 0 => remedied'[r] + kept'[r] + refused'[r] = 0
        BY <2>1, <3>1, NothingFromNothing
      <4> QED
        BY <4>1, <4>2
    <3>3. Reported(r)' => Reported(r) \/ remedied[r] + kept[r] + refused[r] = 0
      BY <2>3, Reports
    <3>4. remedied'[r] + kept'[r] <= refused'[r] + IF Reported(r)' THEN 0 ELSE 1
      BY <2>1, <2>3, <3>1, <3>3
    <3> QED
      BY <3>2, <3>4
  <2> QED
    BY <2>4, <2>5, TasksAreConfirmed
<1>3. turn' # None /\ turn'.effect \in Remediations => turn'.seen.report # None
  <2>1. CASE Turn
    <3>1. PICK effect \in Answers(conv) : turn' = [effect |-> effect, seen |-> conv]
      BY <2>1 DEF Turn
    <3>2. turn'.effect = effect /\ turn'.seen = conv
      BY <3>1
    <3> QED
      BY <3>1, <3>2 DEF Answers, Remediations
  <2>2. CASE turn' \in {turn, None}
    BY <1>1, <2>2 DEF RemediedIsAnswered
  <2> QED
    BY <1>1, <2>1, <2>2, WorkerStep DEF Next, vars, RunQA, ProjectCompleted, Respond,
       RespondRefused, RespondFails, Talk, Leave, Crash
<1> QED
  BY <1>2, <1>3 DEF RemediedIsAnswered

\* An agent that is called was not the last one, and the call costs a round.
LEMMA CallTakesTurns ==
    ASSUME NEW s \in Workers, TakesTurns(s), NEW a \in Registered, NEW found,
           Callable(s, a)
    PROVE  TakesTurns(After(s, a, found))
<1>1. s.calls \in [Registered -> Nat] /\ s.round \in Nat /\ s.last # a
  BY DEF Workers, Callable
<1>2. /\ After(s, a, found).calls = [s.calls EXCEPT ![a] = @ + 1]
      /\ After(s, a, found).round = s.round + 1 /\ After(s, a, found).last = a
  BY DEF After, Workers
<1>3. ASSUME NEW b \in Registered
      PROVE  2 * After(s, a, found).calls[b]
                <= After(s, a, found).round + IF After(s, a, found).last = b THEN 1 ELSE 0
  <2>1. 2 * s.calls[b] <= s.round + IF s.last = b THEN 1 ELSE 0
    BY DEF TakesTurns
  <2>2. s.calls[b] \in Nat
    BY <1>1
  <2>3. CASE b = a
    <3>1. After(s, a, found).calls[b] = s.calls[b] + 1
      BY <1>1, <1>2, <2>3
    <3> QED
      BY <1>1, <1>2, <2>1, <2>2, <2>3, <3>1
  <2>4. CASE b # a
    <3>1. After(s, a, found).calls[b] = s.calls[b]
      BY <1>1, <1>2, <2>4
    <3> QED
      BY <1>1, <1>2, <2>1, <2>2, <2>4, <3>1
  <2> QED
    BY <2>3, <2>4
<1> QED
  BY <1>3 DEF TakesTurns

\* Before its first round a run has favoured no agent.
LEMMA IdleTakesTurns ==
    TakesTurns(Idle)
BY DEF TakesTurns, Idle

\* Nobody is ahead who was not before, if the calls and the last agent stay.
LEMMA SameTurns ==
    ASSUME NEW s \in Workers, NEW t \in Workers, TakesTurns(s),
           t.calls = s.calls, t.last = s.last, t.round \in {s.round, s.round + 1}
    PROVE  TakesTurns(t)
<1>1. s.calls \in [Registered -> Nat] /\ s.round \in Nat
  BY DEF Workers
<1>2. \A a \in Registered : s.calls[a] \in Nat
  BY <1>1
<1> QED
  BY <1>1, <1>2 DEF TakesTurns

\* No round takes an agent more than one probe ahead of the others.
LEMMA TurnsStep ==
    ASSUME QAInv, [Next]_vars
    PROVE  TakingTurns'
<1>1. TypeOK /\ TakingTurns /\ run \in [Runs -> Workers]
  BY DEF QAInv, TypeOK
<1>2. TypeOK' /\ run' \in [Runs -> Workers]
  BY <1>1, TypeStep DEF TypeOK
<1>3. CASE run' = run
  BY <1>1, <1>3 DEF TakingTurns
<1>4. ASSUME NEW r \in Runs, Launch(r) PROVE TakingTurns'
  <2>1. TakesTurns(run'[r])
    BY <1>1, <1>2, <1>4, LaunchStep, SameTurns DEF TakingTurns
  <2>2. \A q \in Runs \ {r} : run'[q] = run[q]
    BY <1>1, <1>4, LaunchStep
  <2> QED
    BY <1>1, <2>1, <2>2 DEF TakingTurns
<1>5. ASSUME NEW r \in Runs, Worker(r) PROVE TakingTurns'
  <2>1. \A q \in Runs \ {r} : run'[q] = run[q]
    BY <1>1, <1>5, WorkerStep
  <2>2. run[r] \in Workers /\ run'[r] \in Workers /\ TakesTurns(run[r])
    BY <1>1, <1>2 DEF TakingTurns
  <2>3. CASE Probe(r)
    <3> DEFINE a == run[r].asked
    <3>1. PICK files \in BOOLEAN : \E f \in Additions(r, a, files) \cup {Nothing} :
              Work(r, After(run[r], a, f))
      BY <2>3 DEF Probe
    <3>2. PICK found \in Additions(r, a, files) \cup {Nothing} :
              Work(r, After(run[r], a, found))
      BY <3>1
    <3>3. Callable(run[r], a) /\ a \in Registered
      BY <2>3 DEF Probe, Callable
    <3>4. TakesTurns(After(run[r], a, found))
      BY <2>2, <3>3, CallTakesTurns
    <3>5. run'[r] = After(run[r], a, found)
      BY <1>1, <3>2 DEF Work
    <3> QED
      BY <1>1, <2>1, <3>4, <3>5 DEF TakingTurns
  <2>4. CASE \E v : Ends(r, v)
    <3>1. PICK v : run' = [run EXCEPT ![r] = [Idle EXCEPT !.pc = "ended", !.verdict = v]]
      BY <2>4 DEF Ends, Work
    <3>2. run'[r] = [Idle EXCEPT !.pc = "ended", !.verdict = v]
      BY <1>1, <3>1
    <3>3. /\ run'[r].calls = Idle.calls /\ run'[r].last = Idle.last
          /\ run'[r].round = Idle.round
      BY <3>2 DEF Idle
    <3>4. TakesTurns(run'[r])
      BY <2>2, <3>3, IdleTakesTurns, IdleIsWorker, SameTurns
    <3> QED
      BY <1>1, <2>1, <3>4 DEF TakingTurns
  <2>5. CASE ~Probe(r) /\ ~\E v : Ends(r, v)
    <3>1. /\ run'[r].calls = run[r].calls /\ run'[r].last = run[r].last
          /\ run'[r].round \in {run[r].round, run[r].round + 1}
      <4>1. run[r].round \in Nat
        BY <2>2 DEF Workers
      <4>2. CASE Bootstrap(r) \/ Build(r) \/ StopProbing(r)
        <5>1. \/ run'[r] = [run[r] EXCEPT !.pc = "probing"]
              \/ run'[r] = [run[r] EXCEPT !.pc = "synthesis"]
              \/ run'[r] = [run[r] EXCEPT !.pc = "synthesis", !.exhausted = TRUE]
          BY <1>1, <2>5, <4>2 DEF Bootstrap, Build, StopProbing, Work
        <5> QED
          BY <2>2, <5>1 DEF Workers
      <4>3. CASE Decide(r)
        <5>1. \/ run'[r] = [run[r] EXCEPT !.pc = "synthesis"]
              \/ \E a : run'[r] = [run[r] EXCEPT !.pc = "asked", !.asked = a]
          BY <1>1, <4>3 DEF Decide, Work
        <5> QED
          BY <2>2, <5>1 DEF Workers
      <4>4. CASE Skip(r)
        BY <1>1, <2>2, <4>1, <4>4 DEF Skip, Work, Workers
      <4>5. CASE Persist(r)
        BY <1>1, <2>2, <4>5 DEF Persist, Work, Workers
      <4>6. CASE Save(r)
        BY <1>1, <2>2, <4>6 DEF Save, Workers
      <4>7. CASE Tell(r)
        BY <1>1, <2>2, <4>7 DEF Tell, Work, Workers
      <4>8. CASE Told(r)
        BY <1>1, <2>2, <4>8 DEF Told, Workers
      <4>9. CASE Synthesise(r)
        BY <2>5, <4>9 DEF Synthesise
      <4> QED
        BY <1>5, <2>5, <4>2, <4>3, <4>4, <4>5, <4>6, <4>7, <4>8, <4>9 DEF Worker
    <3>2. TakesTurns(run'[r])
      BY <2>2, <3>1, SameTurns
    <3> QED
      BY <1>1, <2>1, <3>2 DEF TakingTurns
  <2> QED
    BY <2>3, <2>4, <2>5
<1>6. CASE Crash
  <2>1. \A r \in Runs : run'[r] \in Workers /\ run'[r].round = 0
           /\ \A a \in Registered : run'[r].calls[a] = 0
    BY <1>1, <1>2, <1>6, CrashStep
  <2> QED
    BY <2>1 DEF TakingTurns, TakesTurns
<1>7. (\E r \in Runs : Launch(r) \/ Worker(r)) \/ Crash \/ run' = run
  BY DEF Next, RunQA, ProjectCompleted, Turn, Respond, RespondRefused, RespondFails, Talk,
     Leave, vars
<1> QED
  BY <1>3, <1>4, <1>5, <1>6, <1>7

----------------------------------------------------------------------------
(* The theorems. *)

\* The inductive invariant of QA runs and of the turns that answer them.
THEOREM QAInvariance == Spec => []QAInv
<1>1. Init => QAInv
  <2> SUFFICES ASSUME Init PROVE QAInv
    OBVIOUS
  <2>1. \A r \in Runs : run[r] = Idle
    BY DEF Init
  <2>2. conv.phase = "executing" /\ conv.offer = FALSE /\ conv.report = None
    BY DEF Init
  <2>3. TypeOK
    <3>1. conv \in Conversations
      BY DEF Init, Conversations, Phases
    <3> QED
      BY <3>1, IdleIsWorker DEF Init, TypeOK, NothingKept
  <2>4. CompletedHasItsFindings /\ ReportFollowsResult
    BY <2>2, QAAssumption DEF Init, CompletedHasItsFindings, ReportFollowsResult
  <2>5. StoredInTime /\ RemediedIsAnswered
    BY <2>1, <2>2, IdleIsWorker, QAAssumption
    DEF Init, StoredInTime, RemediedIsAnswered, Reported, NothingKept
  <2>6. TakingTurns
    BY <2>1, IdleTakesTurns DEF TakingTurns
  <2> QED
    BY <2>3, <2>4, <2>5, <2>6 DEF QAInv
<1>2. QAInv /\ [Next]_vars => QAInv'
  BY TypeStep, StorageStep, RemediationStep, TurnsStep DEF QAInv
<1> QED
  BY <1>1, <1>2, PTL DEF Spec

\* A finished row has its findings, whichever run, crash or database error came
\* between (QAEngine.run).
THEOREM ResultsAreWhole == Spec => []CompletedHasItsFindings
<1>1. QAInv => CompletedHasItsFindings
  BY DEF QAInv
<1> QED
  BY <1>1, QAInvariance, PTL

\* No report is shown or answered before its result is in the database.
THEOREM ReportsFollowResults == Spec => []ReportFollowsResult
<1>1. QAInv => ReportFollowsResult
  BY DEF QAInv
<1> QED
  BY <1>1, QAInvariance, PTL

\* However turns fail, are refused and overtake one another, a report makes
\* remediation tasks once, and once more for each confirmation that was refused
\* (websocket_chat, QATool).
THEOREM OneRemediationPerAnswer == Spec => []RemediatedOncePerAnswer
<1>1. QAInv => RemediatedOncePerAnswer
  <2> SUFFICES ASSUME QAInv, NEW r \in Runs PROVE remedied[r] <= 1 + refused[r]
    BY DEF RemediatedOncePerAnswer
  <2>1. remedied[r] \in Nat /\ kept[r] \in Nat /\ refused[r] \in Nat
    BY DEF QAInv, TypeOK
  <2>2. remedied[r] + kept[r] <= refused[r] + IF Reported(r) THEN 0 ELSE 1
    BY DEF QAInv, RemediedIsAnswered
  <2> QED
    BY <2>1, <2>2
<1> QED
  BY <1>1, QAInvariance, PTL

\* No agent takes more than every second round, whatever the model decides.
THEOREM NoAgentTakesOver == Spec => []NoAgentDominates
<1>1. QAInv => NoAgentDominates
  <2> SUFFICES ASSUME QAInv, NEW r \in Runs, NEW a \in Registered
               PROVE  2 * run[r].calls[a] <= run[r].round + 1
    BY DEF NoAgentDominates
  <2>1. run[r].calls \in [Registered -> Nat] /\ run[r].round \in Nat
    BY DEF QAInv, TypeOK, Workers
  <2>2. 2 * run[r].calls[a] <= run[r].round + IF run[r].last = a THEN 1 ELSE 0
    BY DEF QAInv, TakingTurns, TakesTurns
  <2>3. run[r].calls[a] \in Nat
    BY <2>1
  <2> QED
    BY <2>1, <2>2, <2>3
<1> QED
  BY <1>1, QAInvariance, PTL
=============================================================================
