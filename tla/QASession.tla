------------------------------ MODULE QASession ------------------------------
(***************************************************************************)
(* The QA engine of one project beside its conversation: the offer, the    *)
(* runs in worker threads (bootstrap, probing loop, synthesis, storing the *)
(* result), the report each run hands to the conversation and the user's   *)
(* turns that answer it.  Every thread has a database session of its own:  *)
(* what it writes is seen by the others when it commits, and a row it has  *)
(* updated is locked until then.  The turns of a chat connection share one *)
(* session, also after a turn that ended with an error message.            *)
(* Source: src/app/services/qa/, src/app/services/conversation/aria/,      *)
(* src/app/api/qa.py and src/app/api/ws/router.py.                         *)
(***************************************************************************)
EXTENDS Integers, FiniteSets

CONSTANTS
    None,          \* model value: nothing
    NumRuns,       \* bound: QA runs of the project, numbered as they are created
    Products,      \* product types the project may have
    Registered,    \* agents in the registry
    MaxRounds,     \* budget: rounds of the probing loop
    MaxFindings,   \* budget: findings that end the probing
    MaxPerAgent,   \* budget: probes of one agent
    MaxCompletions,\* bound: how often the project is completed
    MaxRefusals,   \* bound: confirmations of one report that end with an error message
    MaxCrashes     \* bound: how often the server restarts

Runs == 1..NumRuns
Synthesis == "synthesis_agent"

-----------------------------------------------------------------------------
(* The strategies: the probing agents a product type allows.                *)

\* with sources and the results of earlier runs every product can be probed
CommonAgents == {"functional_tester", "security_scanner", "functional_qa_agent",
                 "boundary_qa_agent", "adversarial_qa_agent", "regression_qa_agent"}

WebApp     == CommonAgents \cup {"performance_profiler", "security_qa_agent",
                                 "performance_qa_agent"}
RestApi    == WebApp \cup {"contract_validator"}
GraphqlApi == RestApi \ {"performance_profiler", "performance_qa_agent"}
CliTool    == CommonAgents \cup {"performance_qa_agent"}
Library    == CommonAgents \cup {"contract_validator"}
Mobile     == CommonAgents \cup {"apk_installer", "security_qa_agent"}

\* allowed_agents without synthesis_agent; there is no other eligible type
Strategy == [web_app |-> WebApp, rest_api |-> RestApi, graphql_api |-> GraphqlApi,
             cli_tool |-> CliTool, library |-> Library, desktop_app |-> CommonAgents,
             mobile_android |-> Mobile]

\* requires_compiled_artifact
NeedsArtifact(p) == p = "mobile_android"

\* build_default_registry
Agents == (UNION {Strategy[p] : p \in DOMAIN Strategy}) \cup {Synthesis}

ASSUME QAAssumption ==
    /\ Products \subseteq DOMAIN Strategy
    /\ Registered \subseteq Agents
    /\ {NumRuns, MaxRounds, MaxFindings, MaxPerAgent, MaxCompletions, MaxRefusals,
         MaxCrashes} \subseteq Nat
    /\ None \notin Runs /\ None \notin Agents /\ None # "other"

VARIABLES
    product,    \* the project's product type
    row,        \* committed QASession rows: status, are the findings stored
    run,        \* the worker of each run and its in-memory session
    conv,       \* committed conversation: phase, offer pending, pending report
    turn,       \* the user's turn whose reply is being written, or None
    holder,     \* run whose notification holds the conversation's row lock
    remedied,   \* how often remediation tasks of a run's report were committed
    kept,       \* the same, flushed in the chat's session and not committed yet
    refused,    \* history: confirmations of a run's report that ended with an error
    completions, crashes

vars == <<product, row, run, conv, turn, holder, remedied, kept, refused,
          completions, crashes>>

\* what only the turns of the user change
remediation == <<remedied, kept, refused>>

Verdicts == {"passed", "partial", "failed", "blocked"}
Phases == {"executing", "completed", "qa_running"}
Nothing == [severe |-> 0, mild |-> 0]
Severe == [severe |-> 1, mild |-> 0]
Mild == [severe |-> 0, mild |-> 1]
Batches == {Nothing, Severe, Mild}

Plus(f, g) == [severe |-> f.severe + g.severe, mild |-> f.mild + g.mild]
Total(f) == f.severe + f.mild

Idle == [pc |-> "idle", round |-> 0, last |-> None, asked |-> None,
         calls |-> [a \in Registered |-> 0], found |-> Nothing, exhausted |-> FALSE,
         verdict |-> None]

NothingKept == [r \in Runs |-> 0]

Init ==
    /\ product \in Products
    /\ row = [r \in Runs |-> [status |-> "none", stored |-> FALSE]]
    /\ run = [r \in Runs |-> Idle]
    /\ conv = [phase |-> "executing", offer |-> FALSE, report |-> None]
    /\ turn = None
    /\ holder = None
    /\ remedied = NothingKept /\ kept = NothingKept /\ refused = NothingKept
    /\ completions = 0
    /\ crashes = 0

-----------------------------------------------------------------------------
(* What an agent adds to the findings.  files: can a source file be read?   *)

\* the answer of one language-model analysis
Analysed == Batches

\* one of these agents skips its probe without sources, and every one of them
\* when its analysis fails
SecurityScan(files) == IF files THEN Analysed ELSE {Nothing}
Adversarial(files)  == IF files THEN Analysed ELSE {Nothing}
Boundary(files)     == IF files THEN Analysed ELSE {Nothing}
Owasp(files)        == IF files THEN Analysed ELSE {Nothing}

\* two analyses: when the one that writes the scenarios fails, the other is
\* not asked
Functional(files)   == IF files THEN Analysed ELSE {Nothing}

\* these ask whether or not there are sources
TestRun  == Analysed
Profiled == Analysed
Contract == IF product \in {"rest_api", "graphql_api", "library"} THEN Analysed ELSE {Nothing}

\* the container can be timed and the start takes too long
SlowStart ==
    IF product \in {"cli_tool", "library"} THEN {Nothing} ELSE Batches

\* a missed threshold is a finding whatever the analysis does afterwards
Measured(files) ==
    {Plus(f, g) : f \in SlowStart, g \in IF files THEN Analysed ELSE {Nothing}}

\* the install or the launch fails, or there is no emulator and the probe is
\* skipped, or it passes; Build has left an artifact
Installed == {Nothing, Severe}

\* the last completed run before r, as committed
Baseline(r) ==
    LET before == {q \in Runs : q < r /\ row[q].status = "completed"}
    IN  IF before = {} THEN None ELSE CHOOSE q \in before : \A p \in before : p <= q

\* no baseline or nothing to compare: no analysis
Compared(r) ==
    IF Baseline(r) = None \/ Total(run[r].found) = 0 THEN {Nothing} ELSE Analysed

Additions(r, a, files) ==
    CASE a = "functional_tester"    -> TestRun
      [] a = "security_scanner"     -> SecurityScan(files)
      [] a = "performance_profiler" -> Profiled
      [] a = "contract_validator"   -> Contract
      [] a = "apk_installer"        -> Installed
      [] a = "functional_qa_agent"  -> Functional(files)
      [] a = "boundary_qa_agent"    -> Boundary(files)
      [] a = "adversarial_qa_agent" -> Adversarial(files)
      [] a = "security_qa_agent"    -> Owasp(files)
      [] a = "performance_qa_agent" -> Measured(files)
      [] a = "regression_qa_agent"  -> Compared(r)

\* the verdict when synthesis_agent is absent or its language model fails
Derived(s) ==
    IF Total(s.found) = 0 THEN "passed"
    ELSE IF s.exhausted \/ s.found.severe = 0 THEN "partial" ELSE "failed"

-----------------------------------------------------------------------------
(* Starting a run: from the chat, or by POST /qa/{project_id}/run.          *)

Fresh == {r \in Runs : run[r].pc = "idle" /\ \A q \in 1..(r - 1) : run[q].pc # "idle"}

\* create_qa_session, commit, submit to the executor
Launch(r) ==
    /\ r \in Fresh
    /\ row' = [row EXCEPT ![r].status = "running"]
    /\ run' = [run EXCEPT ![r].pc = "queued"]

RunQA ==
    /\ \E r \in Runs : Launch(r)
    /\ UNCHANGED <<product, conv, turn, holder, remediation, completions, crashes>>

\* the workflow reports PROJECT_COMPLETED of an eligible product
ProjectCompleted ==
    /\ conv.phase = "executing"
    /\ completions < MaxCompletions
    /\ holder = None
    /\ conv' = [conv EXCEPT !.phase = "completed", !.offer = TRUE]
    /\ completions' = completions + 1
    /\ UNCHANGED <<product, row, run, turn, holder, remediation, crashes>>

-----------------------------------------------------------------------------
(* The worker thread.  Work(r, s) replaces the state of run r.              *)

Work(r, s) ==
    /\ run' = [run EXCEPT ![r] = s]
    /\ UNCHANGED <<product, row, conv, turn, remediation, completions, crashes>>

\* only the result outlives the loop
Ends(r, verdict) ==
    Work(r, [Idle EXCEPT !.pc = "ended", !.verdict = verdict])

\* no artifact is needed or one is found
Bootstrap(r) ==
    /\ run[r].pc = "queued"
    /\ Work(r, [run[r] EXCEPT !.pc = "probing"])
    /\ UNCHANGED holder

\* the artifact is built in the container.  No build command, no container, a
\* failed build or a build without artifact end the run as blocked
Build(r) ==
    /\ run[r].pc = "queued" /\ NeedsArtifact(product)
    /\ \/ Work(r, [run[r] EXCEPT !.pc = "probing"])
       \/ Ends(r, "blocked")
    /\ UNCHANGED holder

\* the guards before every decision; the clock may have run out at any of them
OutOfRounds(s) == s.round >= MaxRounds
Enough(s) == Total(s.found) >= MaxFindings

StopProbing(r) ==
    /\ run[r].pc = "probing"
    /\ \/ \E timeout \in BOOLEAN :
            /\ timeout \/ OutOfRounds(run[r])
            /\ Work(r, [run[r] EXCEPT !.pc = "synthesis", !.exhausted = TRUE])
       \/ /\ Enough(run[r]) /\ ~OutOfRounds(run[r])
          /\ Work(r, [run[r] EXCEPT !.pc = "synthesis"])
    /\ UNCHANGED holder

\* the decision: finish, no answer and no name end the probing
Decide(r) ==
    /\ run[r].pc = "probing"
    /\ ~OutOfRounds(run[r]) /\ ~Enough(run[r])
    /\ \/ Work(r, [run[r] EXCEPT !.pc = "synthesis"])
       \/ \E a \in (Strategy[product] \cap Registered) \cup {Synthesis, "other"} :
            Work(r, [run[r] EXCEPT !.pc = "asked", !.asked = a])
    /\ UNCHANGED holder

\* the rules the language model cannot override
Callable(s, a) ==
    /\ a # Synthesis
    /\ a # s.last
    /\ a \in Strategy[product] \cap Registered
    /\ s.calls[a] < MaxPerAgent

\* VARIANT: a skipped round is not counted
Skip_Free(r) ==
    /\ run[r].pc = "asked" /\ ~Callable(run[r], run[r].asked)
    /\ Work(r, [run[r] EXCEPT !.pc = "probing", !.asked = None])
    /\ UNCHANGED holder

\* a decision that breaks a rule costs its round
Skip(r) ==
    /\ run[r].pc = "asked" /\ ~Callable(run[r], run[r].asked)
    /\ Work(r, [run[r] EXCEPT !.pc = "probing", !.asked = None, !.round = @ + 1])
    /\ UNCHANGED holder

\* VARIANT: the agent is remembered only when its probe found something
After_OnlyResults(s, a, found) ==
    [s EXCEPT !.pc = "probing", !.asked = None, !.round = @ + 1, !.calls[a] = @ + 1,
              !.last = IF found = Nothing THEN @ ELSE a, !.found = Plus(@, found)]

\* the loop after a probe, also one that raised: agents record the call first
After(s, a, found) ==
    [s EXCEPT !.pc = "probing", !.asked = None, !.round = @ + 1, !.calls[a] = @ + 1,
              !.last = a, !.found = Plus(@, found)]

Probe(r) ==
    /\ run[r].pc = "asked" /\ Callable(run[r], run[r].asked)
    /\ \E files \in BOOLEAN : \E found \in Additions(r, run[r].asked, files) \cup {Nothing} :
         Work(r, After(run[r], run[r].asked, found))
    /\ UNCHANGED holder

\* synthesis_agent judges (any verdict);
\* without it, or when it fails, the verdict is derived from the findings
Synthesise(r) ==
    /\ run[r].pc = "synthesis"
    /\ \/ /\ Synthesis \in Registered
          /\ \E v \in Verdicts : Ends(r, v)
       \/ Ends(r, Derived(run[r]))
    /\ UNCHANGED holder

StatusOf(verdict) == IF verdict = "blocked" THEN "blocked" ELSE "completed"

\* VARIANT: the engine commits the status before the findings are inserted
Persist_Commits(r) ==
    /\ run[r].pc = "ended"
    /\ run' = [run EXCEPT ![r].pc = "flushed"]
    /\ row' = [row EXCEPT ![r].status = StatusOf(run[r].verdict)]
    /\ UNCHANGED <<product, conv, turn, holder, remediation, completions, crashes>>

\* _persist_result: status and verdict are flushed, not committed
Persist(r) ==
    /\ run[r].pc = "ended"
    /\ Work(r, [run[r] EXCEPT !.pc = "flushed"])
    /\ UNCHANGED holder

\* the findings are added and everything is committed; when the database
\* refuses, the thread logs the error and the row stays running
Save(r) ==
    /\ run[r].pc = "flushed"
    /\ \/ /\ run' = [run EXCEPT ![r].pc = "saved", ![r].verdict = None]
          /\ row' = [row EXCEPT ![r] = [status |-> StatusOf(run[r].verdict), stored |-> TRUE]]
       \/ run' = [run EXCEPT ![r].pc = "over", ![r].verdict = None] /\ UNCHANGED row
    /\ UNCHANGED <<product, conv, turn, holder, remediation, completions, crashes>>

\* VARIANT: Aria is told of the result before it is committed
Tell_Early(r) ==
    /\ run[r].pc \in {"flushed", "saved"}
    /\ holder = None
    /\ holder' = r
    /\ Work(r, [run[r] EXCEPT !.pc = "telling"])

\* _notify_aria: the report is flushed into the conversation's row
Tell(r) ==
    /\ run[r].pc = "saved"
    /\ holder = None
    /\ holder' = r
    /\ Work(r, [run[r] EXCEPT !.pc = "telling"])

\* Aria has answered QA_COMPLETED: commit; or her turn raised: nothing is kept
Told(r) ==
    /\ run[r].pc = "telling"
    /\ run' = [run EXCEPT ![r].pc = "over"]
    /\ holder' = None
    /\ \/ conv' = [conv EXCEPT !.report = r,
                               !.phase = IF @ = "qa_running" THEN "completed" ELSE @]
       \/ UNCHANGED conv
    /\ UNCHANGED <<product, row, turn, remediation, completions, crashes>>

Worker(r) ==
    \/ Bootstrap(r) \/ Build(r) \/ StopProbing(r) \/ Decide(r) \/ Skip(r) \/ Probe(r)
    \/ Synthesise(r) \/ Persist(r) \/ Save(r) \/ Tell(r) \/ Told(r)

-----------------------------------------------------------------------------
(* The user's turn: QATool reads the conversation, Aria writes her reply,   *)
(* then the effect of the tool is committed.  Chat turns exclude each       *)
(* other; a turn whose tool changes nothing is Talk, or a stuttering step.   *)

\* answers that change something, in the order QATool looks for its situation
Answers(c) ==
    IF c.phase = "qa_running" THEN {}
    ELSE IF c.report # None THEN {"remediation_confirmed", "remediation_declined"}
    ELSE IF c.offer THEN {"qa_started", "qa_offer_declined"}
    ELSE {}

\* the task rows the session of the chat has flushed are committed
Commit(rows) ==
    /\ remedied' = [r \in Runs |-> remedied[r] + rows[r]]
    /\ kept' = NothingKept

\* the run of an accepted offer is committed by the tool
Turn ==
    /\ turn = None
    /\ \E effect \in Answers(conv) :
         /\ turn' = [effect |-> effect, seen |-> conv]
         /\ IF effect = "qa_started" THEN (\E r \in Runs : Launch(r)) /\ Commit(kept)
                                     ELSE UNCHANGED <<row, run, remedied, kept>>
    /\ UNCHANGED <<product, conv, holder, refused, completions, crashes>>

\* VARIANT: a confirmed remediation keeps the report
Written_ReportKept(t, c) ==
    [phase  |-> CASE t.effect = "qa_started" /\ t.seen.phase # "qa_running" -> "qa_running"
                  [] t.effect = "remediation_confirmed" /\ t.seen.phase # "executing" -> "executing"
                  [] OTHER -> c.phase,
     offer  |-> IF t.effect \in {"qa_started", "qa_offer_declined"} /\ t.seen.offer
                THEN FALSE ELSE c.offer,
     report |-> IF t.effect = "remediation_declined" /\ t.seen.report # None
                THEN None ELSE c.report]

\* the columns the turn has changed since it read the row are overwritten
Written(t, c) ==
    [phase  |-> CASE t.effect = "qa_started" /\ t.seen.phase # "qa_running" -> "qa_running"
                  [] t.effect = "remediation_confirmed" /\ t.seen.phase # "executing" -> "executing"
                  [] OTHER -> c.phase,
     offer  |-> IF t.effect \in {"qa_started", "qa_offer_declined"} /\ t.seen.offer
                THEN FALSE ELSE c.offer,
     report |-> IF t.effect \in {"remediation_confirmed", "remediation_declined"}
                   /\ t.seen.report # None
                THEN None ELSE c.report]

\* what a confirmed remediation has flushed, with what was there
Flushed(t) ==
    IF t.effect = "remediation_confirmed" THEN [kept EXCEPT ![t.seen.report] = @ + 1] ELSE kept

\* the reply, the effect and the remediation tasks are committed together
Respond ==
    /\ turn # None
    /\ holder = None
    /\ conv' = Written(turn, conv)
    /\ Commit(Flushed(turn))
    /\ turn' = None
    /\ UNCHANGED <<product, row, run, holder, refused, completions, crashes>>

\* a later tool of the turn raises ActiveTasksError (remediation tasks are
\* active): the router answers with the error and goes on with the session
RespondRefused ==
    /\ turn # None
    /\ turn' = None
    /\ kept' = Flushed(turn)
    /\ IF turn.effect = "remediation_confirmed"
       THEN /\ refused[turn.seen.report] < MaxRefusals
            /\ refused' = [refused EXCEPT ![turn.seen.report] = @ + 1]
       ELSE UNCHANGED refused
    /\ UNCHANGED <<product, row, run, conv, holder, remedied, completions, crashes>>

\* anything else, Aria's language model for one, ends the connection: its
\* session rolls back
RespondFails ==
    /\ turn # None
    /\ turn' = None
    /\ kept' = NothingKept
    /\ UNCHANGED <<product, row, run, conv, holder, remedied, refused, completions, crashes>>

\* a turn without effect is answered, and commits what there is
Talk ==
    /\ turn = None /\ kept # NothingKept
    /\ holder = None
    /\ Commit(kept)
    /\ UNCHANGED <<product, row, run, conv, turn, holder, refused, completions, crashes>>

\* the user leaves the chat
Leave ==
    /\ turn = None /\ kept # NothingKept
    /\ kept' = NothingKept
    /\ UNCHANGED <<product, row, run, conv, turn, holder, remedied, refused, completions, crashes>>

-----------------------------------------------------------------------------
\* the server restarts: threads and open transactions are gone, nothing looks
\* for QA runs that were under way
Crash ==
    /\ crashes < MaxCrashes
    /\ crashes' = crashes + 1
    /\ run' = [r \in Runs |-> IF run[r].pc = "idle" THEN Idle ELSE [Idle EXCEPT !.pc = "over"]]
    /\ turn' = None
    /\ holder' = None
    /\ kept' = NothingKept
    /\ UNCHANGED <<product, row, conv, remedied, refused, completions>>

Next ==
    \/ RunQA \/ ProjectCompleted
    \/ \E r \in Runs : Worker(r)
    \/ Turn \/ Respond \/ RespondRefused \/ RespondFails \/ Talk \/ Leave
    \/ Crash

\* the executor runs every submitted job; calls of a worker return or raise
Spec == Init /\ [][Next]_vars /\ \A r \in Runs : WF_vars(Worker(r))

-----------------------------------------------------------------------------

\* A finished row always has its findings, whichever run, crash or database
\* error came between: what the API lists and what a later regression probe
\* takes as its baseline is never half a result.
CompletedHasItsFindings ==
    \A r \in Runs : row[r].status \in {"completed", "blocked"} => row[r].stored

\* The report of the conversation, and the one a turn is answering, is that of
\* a run whose result is already in the database.
ReportFollowsResult ==
    \A r \in Runs :
        conv.report = r \/ (turn # None /\ turn.seen.report = r) => row[r].stored

\* Whatever turns are answered, refused or fail, beside other runs that report,
\* the report of a run leads to remediation tasks once, and once more for each
\* confirmation that was answered with an error message: those tasks may stay
\* in the session, and be committed by the next reply.
RemediatedOncePerAnswer == \A r \in Runs : remedied[r] <= 1 + refused[r]

\* No agent takes more than every second round, failed and refused calls
\* included: with the default eight rounds no agent reaches its own limit of
\* five probes.
NoAgentDominates == \A r \in Runs, a \in Registered : 2 * run[r].calls[a] <= run[r].round + 1

\* A submitted run ends whatever the language model decides in each round.
EveryRunEnds == \A r \in Runs : run[r].pc = "queued" ~> run[r].pc = "over"

-----------------------------------------------------------------------------
(* Why the first four are kept: the inductive invariant of the proofs.      *)

Points == {"idle", "queued", "probing", "asked", "synthesis", "ended", "flushed",
           "saved", "telling", "over"}
Findings == [severe : Nat, mild : Nat]
Workers ==
    [pc : Points, round : Nat, last : Agents \cup {None},
     asked : Agents \cup {None, "other"}, calls : [Registered -> Nat],
     found : Findings, exhausted : BOOLEAN, verdict : Verdicts \cup {None}]
Conversations == [phase : Phases, offer : BOOLEAN, report : Runs \cup {None}]
Remediations  == {"remediation_confirmed", "remediation_declined"}
Effects       == Remediations \cup {"qa_started", "qa_offer_declined"}

TypeOK ==
    /\ product \in Products
    /\ row \in [Runs -> [status : {"none", "running", "completed", "blocked"},
                         stored : BOOLEAN]]
    /\ run \in [Runs -> Workers]
    /\ conv \in Conversations
    /\ turn = None \/ turn \in [effect : Effects, seen : Conversations]
    /\ holder \in Runs \cup {None}
    /\ remedied \in [Runs -> Nat] /\ kept \in [Runs -> Nat] /\ refused \in [Runs -> Nat]
    /\ completions \in Nat /\ crashes \in Nat

Reported(r) == conv.report = r \/ (turn # None /\ turn.seen.report = r)

\* A row is stored after its run began and before the conversation is told,
\* and a report stands only for a run that is over.
StoredInTime ==
    \A r \in Runs :
        /\ run[r].pc = "idle" => ~row[r].stored
        /\ run[r].pc \in {"saved", "telling"} => row[r].stored
        /\ Reported(r) => run[r].pc = "over"

\* A report that is shown or being answered has made tasks, committed or kept,
\* by refused confirmations only, one that is not at most once more.
RemediedIsAnswered ==
    /\ turn # None /\ turn.effect \in Remediations => turn.seen.report # None
    /\ \A r \in Runs :
          /\ remedied[r] + kept[r] <= refused[r] + IF Reported(r) THEN 0 ELSE 1
          /\ run[r].pc # "over" => remedied[r] + kept[r] + refused[r] = 0

\* An agent may be one probe ahead only if it was the last one.
TakesTurns(s) ==
    \A a \in Registered : 2 * s.calls[a] <= s.round + IF s.last = a THEN 1 ELSE 0

TakingTurns == \A r \in Runs : TakesTurns(run[r])

QAInv ==
    /\ TypeOK
    /\ CompletedHasItsFindings
    /\ ReportFollowsResult
    /\ StoredInTime
    /\ RemediedIsAnswered
    /\ TakingTurns
=============================================================================
