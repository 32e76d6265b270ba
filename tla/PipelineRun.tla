---------------------------- MODULE PipelineRun ----------------------------
(***************************************************************************)
(* One pipeline process of one task: the sequencer (pipeline/sequencer.ts) *)
(* with its QA remediation loop, the runs of the role agents               *)
(* (roleAgent.ts), the sessions each run is made of, and the agent process *)
(* behind a session (agentSession.ts, processLifecycle.ts).                *)
(*                                                                         *)
(* The agent writes its artifacts and ends when it likes, or when a signal *)
(* ends it.  The operator's kill reaches the pipeline in two ways: the     *)
(* kill switch, a file the pipeline polls and turns into the abort of its  *)
(* sessions, and the supervisor's SIGTERM, which the pipeline forwards to  *)
(* the agent it has open, followed by SIGKILL.                             *)
(***************************************************************************)
EXTENDS Naturals

CONSTANTS
  MaxCycles,  \* QA remediation cycles (3 in the sequencer)
  Faults,     \* the kinds of fault that may happen
  MaxFaults   \* bound on the faults of one behaviour

FaultKind == {"prepare", "spawn", "crash", "capture", "closeout", "move"}

ASSUME RunAssumption ==
  /\ MaxCycles \in Nat \ {0}
  /\ Faults \subseteq FaultKind
  /\ MaxFaults \in Nat

VARIABLES
  run,      \* the run of a role the sequencer is in
  pass,     \* the session of this run
  pc,       \* what the pipeline does about it
  agent,    \* the agent process of the session
  code,     \* how it has ended
  sent,     \* the signal sent to it last
  timer,    \* killChild has been called and its SIGKILL is due, or was
  cut,      \* the session has heard the abort
  greedy,   \* the session was stopped because its artifacts are complete
  switch,   \* the kill switch is set
  aborted,  \* the run in which the abort controller was triggered, or "no"
  super,    \* the signal of the supervisor to the pipeline
  spec,     \* Alice's plan
  review,   \* the review outcome in issues.md
  current,  \* the outcome is younger than the last work of a Dalton
  docs,     \* final summary and retrospective, by whether a Dalton has worked since
  cycles,   \* remediation cycles begun
  task,     \* where the pipeline leaves its task
  receipt,  \* the pipeline receipt
  faults

sessionVars  == <<agent, code, sent, timer, cut, greedy>>
artifactVars == <<spec, review, current, docs>>
killVars     == <<switch, aborted, super>>
endVars      == <<task, receipt>>
vars == <<run, pass, pc, sessionVars, artifactVars, killVars, endVars, cycles, faults>>

\* The runs, by the role whose agent they launch.
DaltonRun == {"dalton", "fleet", "tidy", "verify", "fix"}
RonRun    == {"ron", "recheck", "retro", "mend"}
Run       == {"alice"} \cup DaltonRun \cup RonRun
EarlyRun  == Run \ ({"fix"} \cup RonRun)

\* The remediation loop passes its agents no abort signal.
AbortBlind == {"fix", "recheck"}

Pass == {"initial", "continuation", "confinement", "cleanup", "policy"}

\* Only Alice and Ron are stopped when their artifacts are complete, in these sessions.
Greedy == run \in {"alice"} \cup RonRun /\ pass \in {"initial", "continuation"}

FlagsOK ==
  /\ timer \in BOOLEAN /\ cut \in BOOLEAN /\ greedy \in BOOLEAN
  /\ switch \in BOOLEAN /\ current \in BOOLEAN

TypeOK ==
  /\ FlagsOK
  /\ run \in Run /\ pass \in Pass
  /\ pc \in {"ready", "launched", "waiting", "unheard", "settled",
             "capturing", "closing", "failing", "ended"}
  /\ agent \in {"none", "running", "exited"}
  /\ code \in {"ok", "error", "signal"}
  /\ sent \in {"none", "term", "kill"}
  /\ aborted \in Run \cup {"no"}
  /\ super \in {"none", "term", "kill"}
  /\ spec \in {"none", "complete", "ready"}
  /\ review \in {"none", "pass", "blocking"}
  /\ docs \in {"none", "stale", "fresh"}
  /\ cycles \in 0..MaxCycles
  /\ task \in {"active", "done", "error"}
  /\ receipt \in {"none", "completed", "failed", "killed", "closeout-failed"}
  /\ faults \in 0..MaxFaults

Init ==
  /\ run = "alice" /\ pass = "initial" /\ pc = "ready"
  /\ agent = "none" /\ code = "ok" /\ sent = "none" /\ timer = FALSE
  /\ cut = FALSE /\ greedy = FALSE
  /\ switch \in BOOLEAN /\ aborted = "no" /\ super = "none"
  /\ spec = "none" /\ review = "none" /\ current = FALSE /\ docs = "none"
  /\ cycles = 0 /\ task = "active" /\ receipt = "none" /\ faults = 0

--------------------------------------------------------------------------
\* Helpers

Fault(f) == f \in Faults /\ faults < MaxFaults /\ faults' = faults + 1

\* checkAgentArtifactCompletion: a blocking review needs no closeout documents,
\* and the Dalton family has no required artifacts.
Complete ==
  CASE run = "alice"   -> spec # "none"
    [] run \in RonRun  -> review = "blocking" \/ (review = "pass" /\ docs # "none")
    [] OTHER           -> TRUE

\* The session is in order: its agent has exited well, or has been stopped because
\* its artifacts are complete and they still are.
SessionOk == code = "ok" \/ (greedy /\ Complete)

Killed == switch \/ aborted # "no"

\* SIGTERM to the agent.
Term == sent' = IF sent = "none" THEN "term" ELSE sent

\* What the abort does to a session, if it is told of it.
HearsAbort(told) ==
  \/ /\ told /\ run \notin AbortBlind
     /\ cut' = TRUE /\ timer' = TRUE /\ Term
  \/ /\ ~told \/ run \in AbortBlind
     /\ UNCHANGED <<cut, timer, sent>>

\* Mutated: the findings are not put back.
ThrowsAway ==
  /\ pc' = IF run = "mend" THEN "closing" ELSE "failing"
  /\ UNCHANGED <<run, pass, artifactVars, cycles>>

\* A run that ends with an exception ends the pipeline's work on the task, unless it
\* is the last repair before the closeout.  A revalidation puts the findings back.
Throws ==
  /\ pc' = IF run = "mend" THEN "closing" ELSE "failing"
  /\ IF run = "recheck"
     THEN review' = "blocking" /\ current' = FALSE
     ELSE UNCHANGED <<review, current>>
  /\ UNCHANGED <<run, pass, spec, docs, cycles>>

\* The sequencer goes on to another run of a role ...
Goes(r) == pc' = "ready" /\ run' = r /\ pass' = "initial"

\* ... and after the last one to the closeout, if its policy passes.  The policy reads
\* more of the documents than the agent's completion does: it may refuse complete ones.
GoesToCloseout ==
  \/ docs # "none" /\ pc' = "closing" /\ UNCHANGED <<run, pass>>
  \/ Goes("mend")

--------------------------------------------------------------------------
\* Sessions

\* The agents of the sequence are not launched by a pipeline that is killed.
Ordered == pass = "initial" /\ run \in {"alice", "dalton", "fleet", "ron"}

\* Mutated: nobody looks at the kill switch before an agent of the sequence.
LaunchAnyway ==
  /\ pc = "ready"
  /\ pc' = "launched" /\ agent' = "running" /\ code' = "ok"
  /\ sent' = "none" /\ timer' = FALSE /\ cut' = FALSE /\ greedy' = FALSE
  /\ UNCHANGED <<run, pass, artifactVars, killVars, endVars, cycles, faults>>

Launch ==
  /\ pc = "ready" /\ ~(Ordered /\ Killed)
  /\ pc' = "launched" /\ agent' = "running" /\ code' = "ok"
  /\ sent' = "none" /\ timer' = FALSE /\ cut' = FALSE /\ greedy' = FALSE
  /\ UNCHANGED <<run, pass, artifactVars, killVars, endVars, cycles, faults>>

LaunchRefused ==
  /\ pc = "ready" /\ Ordered /\ Killed
  /\ aborted' = IF aborted = "no" THEN run ELSE aborted
  /\ Throws
  /\ UNCHANGED <<sessionVars, switch, super, endVars, faults>>

\* Policy, containment, focus, extensions, MCP, the test capture before Ron
\* (sequencer.ts:973) or the QA diff: each fails closed before the launch, so that one fault
\* stands for all.
PrepareFails ==
  /\ Fault("prepare") /\ pc = "ready" /\ pass = "initial"
  /\ Throws
  /\ UNCHANGED <<sessionVars, killVars, endVars>>

\* The error event of a failed spawn comes before anybody listens to it, and ends
\* the process.
SpawnFails ==
  /\ Fault("spawn") /\ pc = "ready" /\ ~(Ordered /\ Killed)
  /\ pc' = "ended" /\ agent' = "none"
  /\ UNCHANGED <<run, pass, code, sent, timer, cut, greedy, artifactVars, killVars, endVars, cycles>>

\* Mutated: an abort that came before the session waits is not looked for.
ListenForNewAborts ==
  /\ pc = "launched"
  /\ pc' = IF agent = "running" THEN "waiting" ELSE "settled"
  /\ code' = IF code = "signal" THEN "error" ELSE code
  /\ UNCHANGED <<run, pass, agent, sent, timer, cut, greedy, artifactVars, killVars, endVars, cycles, faults>>

\* The session has written its receipts and waits for the agent.  An agent that has
\* exited is noticed by its exit code, which it has not when a signal ended it.
Listen ==
  /\ pc = "launched"
  /\ \/ /\ agent = "running" /\ pc' = "waiting" /\ UNCHANGED code
        /\ HearsAbort(aborted # "no")
     \/ /\ agent = "exited" /\ pc' = "settled"
        /\ code' = IF code = "signal" THEN "error" ELSE code
        /\ UNCHANGED <<cut, timer, sent>>
     \/ /\ agent = "exited" /\ code = "signal" /\ pc' = "unheard"
        /\ UNCHANGED <<code, cut, timer, sent>>
  /\ UNCHANGED <<run, pass, agent, greedy, artifactVars, killVars, endVars, cycles, faults>>

\* The wall clock or the idle timer; killChild acts once.
TimesOut ==
  /\ pc = "waiting" /\ ~timer
  /\ timer' = TRUE /\ Term
  /\ UNCHANGED <<run, pass, pc, agent, code, cut, greedy, artifactVars, killVars, endVars, cycles, faults>>

\* Mutated: an agent that has been sent a signal is taken for a dead one.
GraceEndsIfUnsignalled ==
  /\ pc = "waiting" /\ timer /\ sent = "none" /\ sent' = "kill"
  /\ UNCHANGED <<run, pass, pc, agent, code, timer, cut, greedy, artifactVars, killVars, endVars, cycles, faults>>

GraceEnds ==
  /\ pc = "waiting" /\ timer /\ sent # "kill"
  /\ sent' = "kill"
  /\ UNCHANGED <<run, pass, pc, agent, code, timer, cut, greedy, artifactVars, killVars, endVars, cycles, faults>>

GreedyStop ==
  /\ pc = "waiting" /\ Greedy /\ Complete /\ ~greedy
  /\ greedy' = TRUE /\ Term
  /\ UNCHANGED <<run, pass, pc, agent, code, timer, cut, artifactVars, killVars, endVars, cycles, faults>>

\* The kill monitor of the sequencer.
PollSwitch ==
  /\ switch /\ aborted = "no" /\ pc # "ended"
  /\ aborted' = run
  /\ HearsAbort(pc = "waiting")
  /\ UNCHANGED <<run, pass, pc, agent, code, greedy, artifactVars, switch, super, endVars, cycles, faults>>

--------------------------------------------------------------------------
\* The agent

AgentWorks ==
  /\ agent = "running"
  /\ \/ /\ run = "alice"
        /\ spec' \in {"none", "complete", "ready"} /\ UNCHANGED <<review, current, docs>>
     \/ /\ run \in DaltonRun
        /\ current' = FALSE /\ docs' = IF docs = "none" THEN "none" ELSE "stale"
        /\ UNCHANGED <<spec, review>>
     \/ /\ run \in RonRun
        /\ \/ review' \in {"pass", "blocking"} /\ current' = TRUE /\ UNCHANGED docs
           \/ docs' = "fresh" /\ UNCHANGED <<review, current>>
        /\ UNCHANGED spec
  /\ UNCHANGED <<run, pass, pc, sessionVars, killVars, endVars, cycles, faults>>

\* The close event settles the session that waits for it.
Exits(c) ==
  /\ agent = "running" /\ agent' = "exited"
  /\ pc' = IF pc = "waiting" THEN "settled" ELSE pc
  /\ code' = IF pc = "waiting" /\ (cut \/ c = "signal") THEN "error" ELSE c
  /\ UNCHANGED <<run, pass, sent, timer, cut, greedy, artifactVars, killVars, endVars, cycles>>

AgentExits   == \E c \in {"ok", "error"} : Exits(c) /\ UNCHANGED faults
AgentDies    == sent # "none" /\ Exits("signal") /\ UNCHANGED faults
AgentCrashes == Fault("crash") /\ Exits("signal")

--------------------------------------------------------------------------
\* What a run makes of its sessions (runRoleAgent)

\* A first session that ran into a denied action is in order when the artifacts are
\* there all the same, and so is a clean-up, whatever its exit code.
Accepted ==
  \/ pass = "initial" /\ (SessionOk \/ Complete)
  \/ pass = "continuation" /\ SessionOk
  \/ pass \in {"confinement", "policy"} /\ code = "ok"
  \/ pass = "cleanup" /\ Complete

\* Mutated: Alice's artifacts are complete, which is not what the next role needs.
ReadyIfComplete == Complete

\* Alice must also satisfy the policy of the next role.
Ready == Complete /\ (run = "alice" => spec = "ready")

\* One more session: after a denied action, a write outside the boundary, incomplete
\* artifacts, or a fleet that left its hand-off unready.
NextPass(p) ==
  CASE p = "continuation" -> pass = "initial" /\ ~SessionOk /\ ~Complete
    [] p = "confinement"  -> Accepted /\ run \in DaltonRun /\ pass \in {"initial", "continuation"}
    [] p = "cleanup"      -> Accepted /\ ~Ready /\ pass \in {"initial", "continuation"}
    [] p = "policy"       -> Accepted /\ run = "fleet" /\ pass # "policy"
    [] OTHER              -> FALSE

Repair ==
  /\ pc = "settled"
  /\ \E p \in Pass : NextPass(p) /\ pass' = p
  /\ pc' = "ready"
  /\ UNCHANGED <<run, sessionVars, artifactVars, killVars, endVars, cycles, faults>>

RunThrows ==
  /\ pc = "settled"
  /\ \/ pass \in {"initial", "continuation"} /\ ~SessionOk
     \/ ~Accepted \/ ~Ready
     \/ pass \in {"confinement", "policy"}
  /\ Throws
  /\ UNCHANGED <<sessionVars, killVars, endVars, faults>>

--------------------------------------------------------------------------
\* The sequence

\* A run in order leads on.  The parallel or the simple Dalton, a clean-up after a
\* blocked hand-off, the verification and the retrospective depend on artifacts and
\* settings that are not modelled.
Successor == [alice |-> {"dalton", "fleet"}, dalton |-> {"verify", "ron"},
              fleet |-> {"tidy", "verify", "ron"}, tidy |-> {"verify", "ron"},
              verify |-> {"ron"}]

RunPasses ==
  /\ pc = "settled" /\ Accepted /\ Ready
  /\ run \in DOMAIN Successor
  /\ \E r \in Successor[run] : Goes(r)
  /\ UNCHANGED <<sessionVars, artifactVars, killVars, endVars, cycles, faults>>

ReviewClears ==
  /\ pc = "settled" /\ Accepted /\ Ready
  /\ run \in {"ron", "recheck"} /\ review # "blocking"
  /\ Goes("retro") \/ GoesToCloseout
  /\ UNCHANGED <<sessionVars, artifactVars, killVars, endVars, cycles, faults>>

\* Mutated: the closeout documents are not reset.
ReviewBlocksKeepsDocs ==
  /\ pc = "settled" /\ Accepted /\ Ready
  /\ run \in {"ron", "recheck"} /\ review = "blocking" /\ cycles < MaxCycles
  /\ Goes("fix") /\ cycles' = cycles + 1
  /\ UNCHANGED <<sessionVars, artifactVars, killVars, endVars, faults>>

\* The closeout documents are reset once, before the first cycle.
ReviewBlocks ==
  /\ pc = "settled" /\ Accepted /\ Ready
  /\ run \in {"ron", "recheck"} /\ review = "blocking" /\ cycles < MaxCycles
  /\ Goes("fix") /\ cycles' = cycles + 1
  /\ docs' = IF run = "ron" THEN "none" ELSE docs
  /\ UNCHANGED <<sessionVars, spec, review, current, killVars, endVars, faults>>

CyclesExhausted ==
  /\ pc = "settled" /\ Accepted /\ Ready
  /\ run = "recheck" /\ review = "blocking" /\ cycles = MaxCycles
  /\ pc' = "failing"
  /\ UNCHANGED <<run, pass, sessionVars, artifactVars, killVars, endVars, cycles, faults>>

\* The findings are cleared and the tests are captured before Ron looks again.
FixPasses ==
  /\ pc = "settled" /\ Accepted /\ run = "fix"
  /\ pc' = "capturing" /\ review' = "none" /\ current' = FALSE
  /\ UNCHANGED <<run, pass, sessionVars, spec, docs, killVars, endVars, cycles, faults>>

Captured ==
  /\ pc = "capturing" /\ Goes("recheck")
  /\ UNCHANGED <<sessionVars, artifactVars, killVars, endVars, cycles, faults>>

CaptureFails ==
  /\ Fault("capture") /\ pc = "capturing" /\ pc' = "failing"
  /\ UNCHANGED <<run, pass, sessionVars, artifactVars, killVars, endVars, cycles>>

RetrospectiveDone ==
  /\ pc = "settled" /\ Accepted /\ run = "retro" /\ GoesToCloseout
  /\ UNCHANGED <<sessionVars, artifactVars, killVars, endVars, cycles, faults>>

MendDone ==
  /\ pc = "settled" /\ Accepted /\ run = "mend" /\ pc' = "closing"
  /\ UNCHANGED <<run, pass, sessionVars, artifactVars, killVars, endVars, cycles, faults>>

--------------------------------------------------------------------------
\* The end

\* completePendingItem validates the queue advance (the documents, to the same policy)
\* and, before it files the archive, the review.
MayArchive == docs # "none" /\ review = "pass"

\* The finally block of the sequence clears the kill switch.
Ends == pc' = "ended" /\ switch' = FALSE /\ UNCHANGED <<aborted, super>>

CloseoutDone ==
  /\ pc = "closing" /\ MayArchive
  /\ task' = "done" /\ receipt' = "completed" /\ Ends
  /\ UNCHANGED <<run, pass, sessionVars, artifactVars, cycles, faults>>

\* A failed closeout leaves the task where it is, unless the pipeline is killed too.
CloseoutThrows ==
  /\ pc = "closing"
  /\ receipt' = "closeout-failed"
  /\ \/ Killed /\ pc' = "failing" /\ UNCHANGED killVars
     \/ ~Killed /\ Ends
  /\ UNCHANGED <<run, pass, sessionVars, artifactVars, task, cycles>>

\* Without what the archive needs, by the part of the policy that is not modelled, or
\* by dirty repositories.
CloseoutRefused == CloseoutThrows /\ UNCHANGED faults
CloseoutFails   == Fault("closeout") /\ CloseoutThrows

\* The receipt, and handlePipelineFailure, which swallows what goes wrong in it.
EndsInFailure ==
  /\ pc = "failing"
  /\ receipt' = IF Killed THEN "killed" ELSE "failed"
  /\ Ends
  /\ UNCHANGED <<run, pass, sessionVars, artifactVars, cycles>>

FailTask == EndsInFailure /\ task' = "error" /\ UNCHANGED faults
FailTaskFails == Fault("move") /\ EndsInFailure /\ UNCHANGED task

--------------------------------------------------------------------------
\* The operator and the supervisor

RequestKill ==
  /\ ~switch /\ pc # "ended" /\ switch' = TRUE
  /\ UNCHANGED <<run, pass, pc, sessionVars, artifactVars, aborted, super, endVars, cycles, faults>>

\* SIGTERM is forwarded to an open agent that has had no signal yet.  Without one it
\* ends the pipeline.
SuperviseTerm ==
  /\ super = "none" /\ pc # "ended" /\ super' = "term"
  /\ \/ agent = "running" /\ Term /\ UNCHANGED pc
     \/ agent # "running" /\ pc' = "ended" /\ UNCHANGED sent
  /\ UNCHANGED <<run, pass, agent, code, timer, cut, greedy, artifactVars, switch, aborted, endVars, cycles, faults>>

\* SIGKILL comes 15 s later: after the poll of the kill switch (250 ms), the grace
\* of an aborted agent (5 s) and the receipts a session writes.
ShorterTimersDone ==
  /\ ~(switch /\ aborted = "no") /\ pc # "launched"
  /\ ~(pc = "waiting" /\ timer /\ sent # "kill")
  /\ ~(agent = "running" /\ sent = "kill")

SuperviseKill ==
  /\ super = "term" /\ pc # "ended" /\ ShorterTimersDone
  /\ super' = "kill" /\ pc' = "ended"
  /\ UNCHANGED <<run, pass, sessionVars, artifactVars, switch, aborted, endVars, cycles, faults>>

--------------------------------------------------------------------------
Session ==
  \/ Launch \/ LaunchRefused \/ Listen \/ Repair \/ RunThrows

Sequence ==
  \/ RunPasses \/ ReviewClears \/ ReviewBlocks \/ CyclesExhausted
  \/ FixPasses \/ Captured \/ RetrospectiveDone \/ MendDone

Closing == CloseoutDone \/ CloseoutRefused \/ FailTask

Timers == TimesOut \/ GraceEnds \/ GreedyStop \/ PollSwitch

Agent == AgentWorks \/ AgentExits \/ AgentDies \/ AgentCrashes

Failing ==
  PrepareFails \/ SpawnFails \/ CaptureFails \/ CloseoutFails \/ FailTaskFails

Operator == RequestKill \/ SuperviseTerm \/ SuperviseKill

Next == Session \/ Sequence \/ Closing \/ Timers \/ Agent \/ Failing \/ Operator

Spec == Init /\ [][Next]_vars

\* The pipeline goes on, its timers fire, and SIGKILL ends an agent.  That an agent
\* ends by itself is not assumed, nor that it heeds SIGTERM.
FairSpec ==
  /\ Spec
  /\ WF_vars(Session \/ Sequence \/ Closing)
  /\ WF_vars(TimesOut) /\ WF_vars(GraceEnds)
  /\ WF_vars(sent = "kill" /\ AgentDies)

--------------------------------------------------------------------------
\* Properties

\* No agent but Alice runs on a plan that the policy of the next role has not passed.
PlanGate == run # "alice" => spec = "ready"

\* A run waits for its agent: while the sequencer decides, no agent runs.  One that
\* was told to abort has its SIGKILL coming.
AgentIsAwaited ==
  /\ pc \notin {"launched", "waiting", "ended"} => agent # "running"
  /\ pc = "waiting" /\ aborted # "no" /\ run \notin AbortBlind => timer
  /\ task # "active" => pc = "ended" /\ agent # "running"

\* A cycle starts from a blocking review, which is cleared before the next one.
CyclesHold ==
  /\ run \in {"fix", "recheck"} => cycles > 0
  /\ run = "fix" /\ pc \notin {"capturing", "failing", "ended"} => review = "blocking"
  /\ pc = "capturing" => run = "fix" /\ review = "none"
  /\ pc = "closing" => run \in RonRun
  /\ receipt = "completed" <=> task = "done"

\* What QA leaves is about the work as it is, and before QA there is nothing.
ReviewIsCurrent ==
  /\ run \in EarlyRun => review = "none" /\ docs = "none"
  /\ run = "fix" /\ cycles = 1 => docs = "none"
  /\ run \in RonRun /\ pc \notin {"failing", "ended"}
       => (review # "none" => current) /\ (cycles <= 1 => docs # "stale")

\* A pipeline that is aborted before QA launches no agent of QA.
AbortStopsSequence ==
  aborted \in EarlyRun =>
    \/ run \in EarlyRun
    \/ run = "ron" /\ pass = "initial" /\ pc \in {"ready", "failing", "ended"}

RunInv ==
  TypeOK /\ PlanGate /\ AgentIsAwaited /\ CyclesHold /\ ReviewIsCurrent /\ AbortStopsSequence

\* A task is closed out on a review of the work as it is: the outcome is a pass, no
\* Dalton has worked since, and the closeout documents were written after the last
\* Dalton too.  The exception is the code's: the documents are reset once, when the
\* first review blocks, so from the second cycle on those of an earlier cycle serve.
ClosedOnReviewOfTheWork ==
  task = "done" => /\ review = "pass" /\ current
                   /\ docs = "fresh" \/ cycles >= 2

\* A remediation that fails leaves its findings in issues.md for whoever takes the
\* task up again.  The exception is a failure between the clearing of the findings
\* and the revalidation, which does not put them back.
FailedRemediationKeepsFindings ==
  pc = "failing" /\ receipt = "none" /\ run \in {"fix", "recheck"}
    => review = "blocking" \/ (run = "fix" /\ review = "none")

\* A pipeline that is killed before QA does not complete its task, whatever its
\* agents make of the signals.  (From QA on it may: an abort that meets a greedy stop,
\* a remediation cycle or the last repair of the closeout is not noticed.)
KilledBeforeReviewNeverCompletes ==
  task = "done" => aborted \notin EarlyRun

\* When the pipeline is gone its agent is gone, if the pipeline was told to abort:
\* it has ended the agent before the supervisor loses patience.  The exception is
\* the remediation loop, whose agents are started without the abort signal.
AbortLeavesNoAgent ==
  pc = "ended" /\ agent = "running" => aborted = "no" \/ run \in AbortBlind

\* The pipeline ends, whatever its agents do: sessions, repairs and cycles are bounded
\* and the timers end an agent that does not.  The exception is an agent that a
\* signal ends before the session listens: nobody notices that it is gone.
PipelineEnds == <>(pc \in {"ended", "unheard"})
============================================================================
