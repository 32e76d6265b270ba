------------------------- MODULE PipelineRunProofs -------------------------
(***************************************************************************)
(* Proofs about PipelineRun for any bound on the cycles and on the faults. *)
(*                                                                         *)
(* RunInv is inductive.  The properties of the run follow from it, with    *)
(* the facts about what stands at the end carried along: RunSafe.          *)
(***************************************************************************)
EXTENDS PipelineRun, TLAPS

RunSafe ==
  /\ RunInv
  /\ ClosedOnReviewOfTheWork
  /\ FailedRemediationKeepsFindings
  /\ KilledBeforeReviewNeverCompletes
  /\ AbortLeavesNoAgent

\* The parts of the invariant and the groups of variables.
USE DEF Run, EarlyRun, DaltonRun, RonRun, AbortBlind, Pass

\* The invariant holds at the start, with or without a kill switch left by another run.
LEMMA InitSafe == Init => RunSafe
<1>1. Init => FlagsOK
  BY Zenon DEF Init, FlagsOK
<1> QED
  BY <1>1, RunAssumption DEF Init, RunSafe, RunInv, TypeOK, PlanGate, AgentIsAwaited, CyclesHold,
     ReviewIsCurrent, AbortStopsSequence, ClosedOnReviewOfTheWork,
     FailedRemediationKeepsFindings, KilledBeforeReviewNeverCompletes, AbortLeavesNoAgent

\* The flags stay Boolean.
LEMMA StepFlags == FlagsOK /\ [Next]_vars => FlagsOK'
<1> SUFFICES ASSUME FlagsOK, [Next]_vars PROVE FlagsOK'
  OBVIOUS
<1> USE DEF FlagsOK, sessionVars, artifactVars, killVars, endVars
<1>1. CASE Session
  BY <1>1, Zenon DEF Session, Launch, LaunchRefused, Throws, Listen, HearsAbort, Repair,
     RunThrows
<1>2. CASE Sequence
  BY <1>2, Zenon DEF Sequence, RunPasses, ReviewClears, ReviewBlocks, CyclesExhausted,
     FixPasses, Captured, RetrospectiveDone, MendDone
<1>3. CASE Closing
  BY <1>3, Zenon DEF Closing, CloseoutDone, Ends, CloseoutRefused, CloseoutThrows,
     FailTask, EndsInFailure
<1>4. CASE Timers
  BY <1>4, Zenon DEF Timers, TimesOut, GraceEnds, GreedyStop, PollSwitch, HearsAbort
<1>5. CASE Agent
  BY <1>5, Zenon DEF Agent, AgentWorks, AgentExits, Exits, AgentDies, AgentCrashes
<1>6. CASE Failing
  BY <1>6, Zenon DEF Failing, PrepareFails, Throws, SpawnFails, CaptureFails,
     CloseoutFails, CloseoutThrows, Ends, FailTaskFails, EndsInFailure
<1>7. CASE Operator
  BY <1>7, Zenon DEF Operator, RequestKill, SuperviseTerm, SuperviseKill
<1>8. CASE UNCHANGED vars
  BY <1>8, Zenon DEF vars
<1> QED
  BY <1>1, <1>2, <1>3, <1>4, <1>5, <1>6, <1>7, <1>8 DEF Next

\* Every step of the pipeline, its agents, its timers and its operator keeps it.
LEMMA StepSafe == RunSafe /\ [Next]_vars => RunSafe'
<1> SUFFICES ASSUME RunSafe, [Next]_vars PROVE RunSafe'
  OBVIOUS
<1>0. FlagsOK'
  BY StepFlags DEF RunSafe, RunInv, TypeOK
<1> USE RunAssumption
<1> USE DEF RunSafe, RunInv, TypeOK, PlanGate, AgentIsAwaited, CyclesHold, ReviewIsCurrent,
            AbortStopsSequence, ClosedOnReviewOfTheWork, FailedRemediationKeepsFindings,
            KilledBeforeReviewNeverCompletes, AbortLeavesNoAgent,
            sessionVars, artifactVars, killVars, endVars
<1>1. CASE Launch
  BY <1>0, <1>1, SMTT(60) DEF Launch, Ordered, Killed
<1>2. CASE LaunchRefused
  BY <1>0, <1>2, SMTT(60) DEF LaunchRefused, Throws, Ordered, Killed
<1>3. CASE Listen
  BY <1>0, <1>3, SMTT(60) DEF Listen, HearsAbort, Term
<1>4. CASE Repair
  BY <1>0, <1>4, SMTT(60) DEF Repair
<1>5. CASE RunThrows
  BY <1>0, <1>5, SMTT(60) DEF RunThrows, Throws
<1>6. CASE RunPasses
  BY <1>0, <1>6, SMTT(60) DEF RunPasses, Goes, Successor, Accepted, Ready, Complete, SessionOk
<1>7. CASE ReviewClears
  BY <1>0, <1>7, SMTT(60) DEF ReviewClears, Goes, GoesToCloseout, Accepted, Ready, Complete, SessionOk
<1>8. CASE ReviewBlocks
  BY <1>0, <1>8, SMTT(60) DEF ReviewBlocks, Goes, Accepted, Ready, Complete, SessionOk
<1>9. CASE CyclesExhausted
  BY <1>0, <1>9, SMTT(60) DEF CyclesExhausted
<1>10. CASE FixPasses
  BY <1>0, <1>10, SMTT(60) DEF FixPasses
<1>11. CASE Captured
  BY <1>0, <1>11, SMTT(60) DEF Captured, Goes
<1>12. CASE RetrospectiveDone
  BY <1>0, <1>12, SMTT(60) DEF RetrospectiveDone, GoesToCloseout, Goes
<1>13. CASE MendDone
  BY <1>0, <1>13, SMTT(60) DEF MendDone
<1>14. CASE CloseoutDone
  BY <1>0, <1>14, SMTT(60) DEF CloseoutDone, MayArchive, Ends
<1>15. CASE CloseoutRefused
  BY <1>0, <1>15, SMTT(60) DEF CloseoutRefused, CloseoutThrows, Ends, Killed
<1>16. CASE FailTask
  BY <1>0, <1>16, SMTT(60) DEF FailTask, EndsInFailure, Ends, Killed
<1>17. CASE TimesOut
  BY <1>0, <1>17, SMTT(60) DEF TimesOut, Term
<1>18. CASE GraceEnds
  BY <1>0, <1>18, SMTT(60) DEF GraceEnds
<1>19. CASE GreedyStop
  BY <1>0, <1>19, SMTT(60) DEF GreedyStop, Greedy, Complete, Term
<1>20. CASE PollSwitch
  BY <1>0, <1>20, SMTT(60) DEF PollSwitch, HearsAbort, Term
<1>21. CASE AgentWorks
  BY <1>0, <1>21, SMTT(60) DEF AgentWorks
<1>22. CASE AgentExits
  BY <1>0, <1>22, SMTT(60) DEF AgentExits, Exits
<1>23. CASE AgentDies
  BY <1>0, <1>23, SMTT(60) DEF AgentDies, Exits
<1>24. CASE AgentCrashes
  BY <1>0, <1>24, SMTT(60) DEF AgentCrashes, Exits, Fault
<1>25. CASE PrepareFails
  BY <1>0, <1>25, SMTT(60) DEF PrepareFails, Throws, Fault
<1>26. CASE SpawnFails
  BY <1>0, <1>26, SMTT(60) DEF SpawnFails, Fault
<1>27. CASE CaptureFails
  BY <1>0, <1>27, SMTT(60) DEF CaptureFails, Fault
<1>28. CASE CloseoutFails
  BY <1>0, <1>28, SMTT(60) DEF CloseoutFails, CloseoutThrows, Fault, Ends, Killed
<1>29. CASE FailTaskFails
  BY <1>0, <1>29, SMTT(60) DEF FailTaskFails, EndsInFailure, Ends, Killed, Fault
<1>30. CASE RequestKill
  BY <1>0, <1>30, SMTT(60) DEF RequestKill
<1>31. CASE SuperviseTerm
  BY <1>0, <1>31, SMTT(60) DEF SuperviseTerm, Term
<1>32. CASE SuperviseKill
  BY <1>0, <1>32, SMTT(60) DEF SuperviseKill, ShorterTimersDone
<1>33. CASE UNCHANGED vars
  BY <1>0, <1>33 DEF vars
<1> QED
  BY <1>1, <1>2, <1>3, <1>4, <1>5, <1>6, <1>7, <1>8, <1>9, <1>10, <1>11, <1>12, <1>13, <1>14, <1>15, <1>16, <1>17, <1>18, <1>19, <1>20, <1>21, <1>22, <1>23, <1>24, <1>25, <1>26, <1>27, <1>28, <1>29, <1>30, <1>31, <1>32, <1>33
     DEF Next, Session, Sequence, Closing, Timers, Agent, Failing, Operator

\* Whatever the agents do and whatever fails, the run is in a consistent state: the
\* plan gate, the remediation cycles, the currency of the review, the awaited agent.
THEOREM RunInvariant == Spec => []RunInv
<1>1. RunSafe => RunInv
  BY DEF RunSafe
<1> QED
  BY InitSafe, StepSafe, <1>1, PTL DEF Spec

\* A task is closed out on a passing review of the work as it is, for any number of
\* remediation cycles.
THEOREM ClosedOnReview == Spec => []ClosedOnReviewOfTheWork
<1>1. RunSafe => ClosedOnReviewOfTheWork
  BY DEF RunSafe
<1> QED
  BY InitSafe, StepSafe, <1>1, PTL DEF Spec

\* A remediation that fails leaves its blocking findings in issues.md.
THEOREM FindingsAreKept == Spec => []FailedRemediationKeepsFindings
<1>1. RunSafe => FailedRemediationKeepsFindings
  BY DEF RunSafe
<1> QED
  BY InitSafe, StepSafe, <1>1, PTL DEF Spec

\* A pipeline killed before QA never completes its task.
THEOREM KilledNeverCompletes == Spec => []KilledBeforeReviewNeverCompletes
<1>1. RunSafe => KilledBeforeReviewNeverCompletes
  BY DEF RunSafe
<1> QED
  BY InitSafe, StepSafe, <1>1, PTL DEF Spec

\* An aborted pipeline leaves no agent behind, outside the remediation loop.
THEOREM NoAgentLeftBehind == Spec => []AbortLeavesNoAgent
<1>1. RunSafe => AbortLeavesNoAgent
  BY DEF RunSafe
<1> QED
  BY InitSafe, StepSafe, <1>1, PTL DEF Spec
============================================================================
