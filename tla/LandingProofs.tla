---------------------------- MODULE LandingProofs ----------------------------
(***************************************************************************)
(* Theorems about Landing: composing the engine with worktrees, branches   *)
(* and the sweeps keeps the invariants of the engine, an approval reaches  *)
(* the primary checkout or takes its task out of 'done', and a landing     *)
(* moves the checkout to an approved tree only.                            *)
(***************************************************************************)
EXTENDS Landing, DispatchProofs

-----------------------------------------------------------------------------
(* The engine under Landing *)

\* A step of git, of an agent or of the owner beside the engine.
Elsewhere ==
  /\ UNCHANGED <<ledger, tick, stop, wrapper, callers>>
  /\ OwnerOp \/ Fault \/ UNCHANGED budget

EngineInv == IInv /\ HandOK /\ FreshOK

LEMMA RunIdsOfTask ==
  ASSUME IInv, NEW t \in Tasks, NEW r \in RunsOf(t)
  PROVE  r \in RunIds /\ r \in DOMAIN runs
BY RunInBounds DEF IInv, Parts, RunsOf

\* Every step is one of the engine or leaves it alone.
LEMMA EngineSteps ==
  ASSUME IInv, LandingNext
  PROVE  Next \/ Elsewhere
<1>1. CASE TickStep \/ StopStep \/ CrashStep
  BY <1>1 DEF TickStep, StopStep, CrashStep, Next, Crashing
<1>2. CASE PlaceRun
  BY <1>2 DEF PlaceRun, Elsewhere, budget
<1>3. CASE OwnerWorks
  BY <1>3 DEF OwnerWorks, Elsewhere, budget
<1>4. CASE Sweeping
  <2>1. CASE PlanGc
    BY <2>1 DEF PlanGc, Elsewhere
  <2>2. CASE PlanSweep \/ \E p \in {"tick", "cli"} : \E x \in sweep[p] : RemoveTree(p, x)
    BY <2>2 DEF PlanSweep, RemoveTree, EngineIdle, vars, Elsewhere
  <2>. QED
    BY <1>4, <2>1, <2>2 DEF Sweeping
<1>5. ASSUME NEW t \in Tasks, VerdictStep(t)
      PROVE  Next
  BY <1>5, RunIdsOfTask DEF VerdictStep, Next, Owner, Agent
<1>6. ASSUME NEW t \in Tasks, WaiveStep(t) \/ CloseStep(t) \/ OtherOwnerStep(t)
      PROVE  Next
  BY <1>6 DEF WaiveStep, CloseStep, OtherOwnerStep, Next, Owner
<1>7. ASSUME NEW t \in Tasks, LandStep(t) \/ PromoteStep(t)
      PROVE  Next
  BY <1>7 DEF LandStep, PromoteStep, Next, Caller
<1>8. ASSUME NEW t \in Tasks, GraceEnds(t)
      PROVE  Elsewhere
  BY <1>8 DEF GraceEnds, EngineIdle, vars, Elsewhere
<1>9. ASSUME NEW r \in RunIds, AgentEdits(r) \/ AgentCommits(r)
      PROVE  Elsewhere
  BY <1>9 DEF AgentEdits, AgentCommits, EngineIdle, vars, Elsewhere
<1>10. ASSUME NEW r \in RunIds, OtherWrapperStep(r)
       PROVE  Next
  BY <1>10 DEF OtherWrapperStep, Next, Wrapper, Agent, Owner
<1>11. ASSUME NEW r \in RunIds,
              NEW report \in {"done", "manual", "blocked", "failed", "dirty"},
              Complete(r, report)
       PROVE  Next
  BY <1>11 DEF Complete, Next, Wrapper
<1>. QED
  BY <1>1, <1>2, <1>3, <1>4, <1>5, <1>6, <1>7, <1>8, <1>9, <1>10, <1>11
  DEF LandingNext

\* What happens elsewhere changes nothing the engine's invariants speak of.
LEMMA ElsewhereKeeps ==
  ASSUME EngineInv, Elsewhere
  PROVE  EngineInv'
<1>1. Kept
  BY LedgerStutter DEF EngineInv, IInv, Parts, Elsewhere
<1>2. StoreStep
  BY <1>1 DEF Kept
<1>3. BudgetOK'
  BY BudgetSteps DEF EngineInv, IInv, Parts, Elsewhere
<1>4. Parts'
  BY <1>2, <1>3, Frames DEF EngineInv, IInv, Parts, Elsewhere, StoreStep, callers
<1>5. ReviewClaims'
  BY DEF EngineInv, IInv, Elsewhere, ledger, tick, ReviewClaims,
         ReviewRunUnique, Unclaimed
<1>6. HandOK' /\ FreshOK'
  BY DEF EngineInv, Elsewhere, ledger, tick, callers, HandOK, LaunchOK, StopHand,
         LinkHomes, FreshOK, RunningRuns
<1>. QED
  BY <1>4, <1>5, <1>6 DEF EngineInv, IInv

LEMMA EngineKeeps ==
  ASSUME EngineInv, [LandingNext]_landingVars
  PROVE  EngineInv'
<1>1. ASSUME [Next]_vars
      PROVE  EngineInv'
  BY <1>1, NextKeeps, HandKeeps, FreshKeeps DEF EngineInv
<1>2. CASE LandingNext
  BY <1>1, <1>2, EngineSteps, ElsewhereKeeps DEF EngineInv
<1>3. CASE UNCHANGED landingVars
  BY <1>1, <1>3 DEF landingVars
<1>. QED
  BY <1>2, <1>3

LEMMA EngineHolds == LandingSpec => []EngineInv
<1>1. LandingInit => EngineInv
  BY InitHolds, HandHolds, FreshHolds DEF LandingInit, EngineInv
<1>2. EngineInv /\ [LandingNext]_landingVars => EngineInv'
  BY EngineKeeps
<1>. QED
  BY <1>1, <1>2, PTL DEF LandingSpec

\* The runs that ticks launched never exceed concurrency_cap, whatever the
\* worktrees, the landings and the sweeps do meanwhile.
THEOREM CapWithTrees == LandingSpec => []CapRespected
<1>1. LandingInit => CapInv
  BY CapHolds DEF LandingInit
<1>2. EngineInv /\ EngineInv' /\ CapInv /\ [LandingNext]_landingVars => CapInv'
  <2>. SUFFICES ASSUME EngineInv, EngineInv', CapInv, [LandingNext]_landingVars
                PROVE  CapInv'
    OBVIOUS
  <2>1. CASE [Next]_vars
    BY <2>1, CapKeeps DEF EngineInv
  <2>2. CASE Elsewhere
    BY <2>2 DEF Elsewhere, ledger, tick, callers, CapInv, Launched, Active,
                RunningRuns, Promised
  <2>. QED
    BY <2>1, <2>2, EngineSteps DEF EngineInv, landingVars
<1>3. EngineInv /\ CapInv => CapRespected
  BY CapEnough DEF EngineInv
<1>. QED
  BY <1>1, <1>2, <1>3, EngineHolds, PTL DEF LandingSpec

-----------------------------------------------------------------------------
(* What wakes a run, and what settles a task *)

\* A run starts to work when the tick or an answer spawns its wrapper.
LEMMA Awakes ==
  ASSUME EngineInv, Next, NEW r \in RunIds, ~ Working(r), Working(r)'
  PROVE  (pc = "launch" /\ r = cur.run) \/ answer[r] = "resumed"
<1>0. WrapperOK
  BY DEF EngineInv, IInv, Parts
<1>1. CASE Tick
  <2>1. CASE Spawn
    BY <1>0, <2>1 DEF Spawn, Spawned, Working, WrapperOK
  <2>2. CASE ~ Spawn
    BY <1>1, <2>2
    DEF Tick, TickPromote, TickSelect, WorkClaim, WorkBadPath, WorkStartRun,
        SpawnFails, SpawnFailed, RecordPid, ListReviews, ReviewClaim,
        ReviewBadPath, ReviewStartRun, ReviewLink, ListRuns, ScanAlive,
        ScanStalled, MarkTaskStalled, FailStalledReview, TickEnd, Working
  <2>. QED
    BY <2>1, <2>2
<1>2. CASE Stop
  BY <1>0, <1>2 DEF Stop, StopKill, StopFinishRun, StopRequeue, Working, WrapperOK
<1>3. CASE \E q \in RunIds : Resuming(q) \/ Wrapper(q) \/ Agent(q)
  <2>1. PICK q \in RunIds : Resuming(q) \/ Wrapper(q) \/ Agent(q)
    BY <1>3
  <2>2. q = r
    BY <2>1, WrapperTouches DEF ProcessBut, Working, EngineInv
  <2>3. CASE Resuming(q)
    BY <1>0, <2>2, <2>3
    DEF Resuming, AnswerSpawn, AnswerRecordPid, AnswerSetupFails,
        AnswerSpawnFails, AnswerSpawnFailed, AnswerStep, Working
  <2>4. CASE Wrapper(q)
    BY <1>0, <2>2, <2>4
    DEF Wrapper, WrapperStep, Boot, BriefUnreadable, CloseReview, Reap,
        FinalizeWork, FinalizeReview, Working, WrapperOK
  <2>5. CASE Agent(q)
    BY <2>5 DEF Agent, Question, Verdict, ReviewVerdict, Working
  <2>. QED
    BY <2>1, <2>3, <2>4, <2>5
<1>4. CASE \E t \in Tasks : Caller(t)
  BY <1>4 DEF Caller, Land, Promote, Working
<1>5. CASE Owner
  BY <1>5
  DEF Owner, StopRead, OwnerEdit, OwnerClose, OwnerWaive, OwnerVerdict,
      ReviewVerdict, Answer, Working
<1>6. CASE Crashing
  BY <1>0, <1>6
  DEF Crashing, ServiceCrash, TickAborts, CallerCrash, WrapperCrash, Working,
      WrapperOK
<1>. QED
  BY <1>1, <1>2, <1>3, <1>4, <1>5, <1>6 DEF Next

\* Only an answer makes a run resumable.
LEMMA Resumes ==
  ASSUME EngineInv, Next, NEW r \in RunIds,
         answer[r] # "resumed", answer'[r] = "resumed"
  PROVE  Answer(r)
<1>0. AnswerOK
  BY DEF EngineInv, IInv, Parts
<1>1. CASE Tick
  BY <1>1
  DEF Tick, callers, TickPromote, TickSelect, WorkClaim, WorkBadPath, WorkStartRun,
      Spawn, SpawnFails, SpawnFailed, RecordPid, ListReviews, ReviewClaim,
      ReviewBadPath, ReviewStartRun, ReviewLink, ListRuns, ScanAlive,
      ScanStalled, MarkTaskStalled, FailStalledReview, TickEnd
<1>2. CASE Stop
  BY <1>2 DEF Stop, StopKill, StopFinishRun, StopRequeue, callers
<1>3. CASE \E q \in RunIds : Resuming(q) \/ Wrapper(q) \/ Agent(q)
  <2>1. PICK q \in RunIds : Resuming(q) \/ Wrapper(q) \/ Agent(q)
    BY <1>3
  <2>2. q = r
    BY <2>1, WrapperTouches DEF ProcessBut, EngineInv
  <2>3. CASE Resuming(q)
    BY <1>0, <2>2, <2>3
    DEF Resuming, AnswerSpawn, AnswerRecordPid, AnswerSetupFails,
        AnswerSpawnFails, AnswerSpawnFailed, AnswerStep, AnswerOK
  <2>4. CASE Wrapper(q) \/ Agent(q)
    BY <2>4
    DEF Wrapper, WrapperStep, Boot, BriefUnreadable, CloseReview, Reap,
        FinalizeWork, FinalizeReview, Agent, Question, Verdict, ReviewVerdict,
        callers
  <2>. QED
    BY <2>1, <2>3, <2>4
<1>4. CASE \E t \in Tasks : Caller(t)
  BY <1>4 DEF Caller, Land, Promote
<1>5. CASE Owner
  <2>1. ASSUME NEW q \in RunIds, Answer(q)
        PROVE  Answer(r)
    BY <1>0, <2>1 DEF Answer, AnswerOK
  <2>. QED
    BY <1>5, <2>1
    DEF Owner, callers, StopRead, OwnerEdit, OwnerClose, OwnerWaive, OwnerVerdict,
        ReviewVerdict
<1>6. CASE Crashing
  BY <1>6 DEF Crashing, callers, ServiceCrash, TickAborts, CallerCrash, WrapperCrash
<1>. QED
  BY <1>1, <1>2, <1>3, <1>4, <1>5, <1>6 DEF Next

\* The lock holder may launch a work run of the task.
Launching(t) == pc \in {"claimed", "launch"} /\ cur.task = t /\ cur.review = 0

\* The lock holder does not turn to a task that is over.
LEMMA HandsOff ==
  ASSUME EngineInv, Next, NEW t \in Tasks, tasks[t].status \in Terminal,
         ~ Launching(t)
  PROVE  ~ Launching(t)'
<1>0. DeskOK
  BY DEF EngineInv, IInv, Parts
<1>1. CASE Tick
  <2>1. ASSUME NEW u \in Tasks, WorkClaim(u)
        PROVE  ~ Launching(t)'
    <3>1. CASE Claimable(u) /\ RoomForRun
      <4>1. u # t
        BY <3>1 DEF Claimable, Terminal
      <4>. QED
        BY <2>1, <3>1, <4>1 DEF WorkClaim, NoCur, Launching
    <3>2. CASE ~ (Claimable(u) /\ RoomForRun)
      BY <2>1, <3>2 DEF WorkClaim, Launching
    <3>. QED
      BY <3>1, <3>2
  <2>2. CASE WorkStartRun
    BY <1>0, <2>2 DEF WorkStartRun, DeskOK, Launching
  <2>3. CASE ReviewLink
    <3>1. cur.review # 0
      BY <1>0, <2>3 DEF ReviewLink, DeskOK, EngineInv, IInv, Parts, LedgerOK
    <3>. QED
      BY <2>3, <3>1 DEF ReviewLink, Launching
  <2>4. CASE \/ TickPromote \/ TickSelect \/ WorkBadPath \/ Spawn \/ SpawnFails
             \/ SpawnFailed \/ RecordPid \/ ListReviews \/ ReviewBadPath
             \/ ReviewStartRun \/ ListRuns \/ MarkTaskStalled
             \/ FailStalledReview \/ TickEnd
    BY <2>4
    DEF TickPromote, TickSelect, WorkBadPath, Spawn, SpawnFails, SpawnFailed,
        RecordPid, ListReviews, ReviewBadPath, ReviewStartRun, ListRuns,
        MarkTaskStalled, FailStalledReview, TickEnd, Loop, Launching
  <2>5. CASE \E v \in desk : ReviewClaim(v)
    BY <2>5 DEF ReviewClaim, Launching
  <2>6. CASE \E x \in scan : ScanAlive(x) \/ ScanStalled(x)
    BY <2>6 DEF ScanAlive, ScanStalled, Launching
  <2>. QED
    BY <1>1, <2>1, <2>2, <2>3, <2>4, <2>5, <2>6 DEF Tick
<1>2. CASE Stop \/ ServiceCrash \/ TickAborts
  BY <1>2 DEF Stop, StopKill, StopFinishRun, StopRequeue, ServiceCrash,
              TickAborts, Launching
<1>3. CASE ~ Tick /\ ~ Stop /\ ~ ServiceCrash /\ ~ TickAborts
  BY <1>3, DeskAlone DEF EngineInv, tick, Launching
<1>. QED
  BY <1>1, <1>2, <1>3

\* A work run of a settled task that is over does not wake.
LEMMA RunsAsleep ==
  ASSUME EngineInv, Next, NEW t \in Tasks, tasks[t].status \in Terminal,
         Settled(t), NEW r \in RunIds,
         r \in DOMAIN runs => runs[r].task = t /\ runs[r].review = 0
  PROVE  ~ Working(r)' /\ answer'[r] # "resumed"
<1>0. LedgerOK /\ DeskOK /\ WrapperOK /\ AnswerOK /\ HandOK
  BY DEF EngineInv, IInv, Parts
<1>1. ~ Working(r) /\ answer[r] # "resumed"
  <2>1. CASE r \in DOMAIN runs
    BY <2>1 DEF Settled, WorkRuns, RunsOf
  <2>2. CASE r \notin DOMAIN runs
    BY <1>0, <2>2 DEF WrapperOK, AnswerOK, Working
  <2>. QED
    BY <2>1, <2>2
<1>2. ASSUME Working(r)'
      PROVE  FALSE
  <2>1. pc = "launch" /\ r = cur.run
    BY <1>1, <1>2, Awakes
  <2>2. r \in DOMAIN runs
    BY <1>0, <2>1 DEF DeskOK
  <2>3. cur.task = t /\ cur.review = 0
    BY <1>0, <2>1, <2>2 DEF HandOK, LaunchOK
  <2>. QED
    BY <2>1, <2>3 DEF Settled
<1>3. ASSUME answer'[r] = "resumed"
      PROVE  FALSE
  BY <1>1, <1>3, Resumes DEF Answer, ResumeBlockedRun, Terminal
<1>. QED
  BY <1>2, <1>3

\* A run stays with its task, and a linked one stays linked.
LEMMA RunsStayHome ==
  ASSUME EngineInv, Next, NEW q \in DOMAIN runs
  PROVE  /\ q \in DOMAIN runs' /\ runs'[q].task = runs[q].task
         /\ runs'[q].review = 0 => runs[q].review = 0
<1>1. CASE ReviewLink
  <2>1. RunsStay(cur.run, cur.review) /\ runs[cur.run].review = 0
    <3>. cur.run \in DOMAIN runs
      BY <1>1 DEF ReviewLink, EngineInv, IInv, Parts, DeskOK
    <3>. cur.review \in Nat
      BY <1>1 DEF ReviewLink, EngineInv, IInv, Parts, DeskOK, LedgerOK
    <3>. QED
      BY <1>1, SetRunReviewStays DEF ReviewLink, SetRunReview, EngineInv, IInv, Parts
  <2>. QED
    BY <2>1 DEF RunsStay
<1>2. CASE ~ ReviewLink
  BY <1>2, StepRunsKept DEF RunsKept, EngineInv
<1>. QED
  BY <1>1, <1>2

\* A settled task that is over stays settled until it is opened again.
LEMMA StaysSettled ==
  ASSUME EngineInv, EngineInv', Next \/ Elsewhere, NEW t \in Tasks,
         tasks[t].status \in Terminal, Settled(t)
  PROVE  Settled(t)'
<1>0. LedgerOK /\ LedgerOK'
  BY DEF EngineInv, IInv, Parts
<1>1. CASE Next
  <2>1. ~ Launching(t)'
    BY <1>1, HandsOff DEF Settled, Launching
  <2>2. ASSUME NEW r \in RunIds, r \in WorkRuns(t)'
        PROVE  ~ Working(r)' /\ answer'[r] # "resumed"
    <3>1. r \in DOMAIN runs => runs[r].task = t /\ runs[r].review = 0
      BY <1>1, <2>2, RunsStayHome DEF WorkRuns, RunsOf
    <3>. QED
      BY <1>1, <3>1, RunsAsleep
  <2>3. WorkRuns(t)' \subseteq RunIds
    <3>1. DOMAIN runs' = 1..Len(runs') /\ Len(runs') \in Nat /\ Len(runs') <= MaxRuns
      BY <1>0 DEF LedgerOK
    <3>2. DOMAIN runs' \subseteq RunIds
      BY <3>1, LedgerAssumption DEF RunIds
    <3>. QED
      BY <3>2 DEF WorkRuns, RunsOf
  <2>. QED
    BY <2>1, <2>2, <2>3 DEF Settled, Launching
<1>2. CASE Elsewhere
  BY <1>2 DEF Elsewhere, ledger, tick, callers, Settled, WorkRuns, RunsOf, Working
<1>. QED
  BY <1>1, <1>2

-----------------------------------------------------------------------------
(* Branches, the checkout and the approvals *)

\* A run that was not started has no branch.
GitOK ==
  /\ DOMAIN branch = RunIds /\ DOMAIN stamp = Tasks
  /\ \A r \in RunIds \ DOMAIN runs : branch[r] = {}

\* A branch moves when its run is placed or its agent commits.
LEMMA BranchMoves ==
  ASSUME EngineInv, GitOK, LandingNext, NEW r \in RunIds, branch'[r] # branch[r]
  PROVE  /\ r \in DOMAIN runs
         /\ \/ pc = "launch" /\ cur.run = r /\ cur.review = 0
            \/ Working(r) /\ runs[r].review = 0
<1>0. DeskOK /\ WrapperOK
  BY DEF EngineInv, IInv, Parts
<1>1. CASE PlaceRun
  BY <1>0, <1>1 DEF PlaceRun, Unplaced, Placed, DeskOK, GitOK
<1>2. ASSUME NEW q \in RunIds, AgentCommits(q)
      PROVE  /\ q = r /\ r \in DOMAIN runs
             /\ Working(r) /\ runs[r].review = 0
  <2>1. wrapper[q].state = "agent" /\ runs[q].review = 0
    BY <1>2 DEF AgentCommits, AgentAt
  <2>2. q = r
    BY <1>2 DEF AgentCommits, GitOK
  <2>. QED
    BY <1>0, <2>1, <2>2 DEF WrapperOK, Working
<1>3. CASE TickStep \/ StopStep \/ OwnerWorks \/ CrashStep \/ Sweeping
  BY <1>3 DEF TickStep, StopStep, OwnerWorks, CrashStep, Sweeping, PlanSweep,
              PlanGc, RemoveTree, GitIdle
<1>4. ASSUME NEW t \in Tasks,
             \/ VerdictStep(t) \/ WaiveStep(t) \/ CloseStep(t)
             \/ OtherOwnerStep(t) \/ LandStep(t) \/ PromoteStep(t) \/ GraceEnds(t)
      PROVE  FALSE
  BY <1>4 DEF VerdictStep, WaiveStep, CloseStep, OtherOwnerStep, LandStep,
              PromoteStep, GraceEnds, GitIdle
<1>5. ASSUME NEW q \in RunIds,
             \/ AgentEdits(q) \/ OtherWrapperStep(q)
             \/ \E report \in {"done", "manual", "blocked", "failed", "dirty"} :
                  Complete(q, report)
      PROVE  FALSE
  BY <1>5 DEF AgentEdits, OtherWrapperStep, Complete, GitIdle
<1>. QED
  BY <1>1, <1>2, <1>3, <1>4, <1>5 DEF LandingNext

\* The tip of a settled task stays where it is.
LEMMA TipStays ==
  ASSUME EngineInv, EngineInv', GitOK, LandingNext, NEW t \in Tasks, Settled(t)
  PROVE  Tip(t)' = Tip(t)
<1>0. LedgerOK /\ LedgerOK' /\ DeskOK /\ HandOK
  BY DEF EngineInv, IInv, Parts
<1>1. DOMAIN runs \subseteq RunIds /\ DOMAIN runs' \subseteq RunIds
  <2>1. /\ DOMAIN runs = 1..Len(runs) /\ Len(runs) \in Nat /\ Len(runs) <= MaxRuns
        /\ DOMAIN runs' = 1..Len(runs') /\ Len(runs') \in Nat /\ Len(runs') <= MaxRuns
    BY <1>0 DEF LedgerOK
  <2>. QED
    BY <2>1, LedgerAssumption DEF RunIds
<1>2. ASSUME NEW r \in RunsOf(t)
      PROVE  branch'[r] = branch[r] /\ r \in RunsOf(t)'
  <2>1. r \in DOMAIN runs /\ runs[r].task = t /\ r \in RunIds
    BY <1>1 DEF RunsOf
  <2>2. branch'[r] = branch[r]
    <3>. SUFFICES ASSUME branch'[r] # branch[r] PROVE FALSE
      OBVIOUS
    <3>1. CASE pc = "launch" /\ cur.run = r /\ cur.review = 0
      BY <1>0, <2>1, <3>1 DEF HandOK, LaunchOK, Settled
    <3>2. CASE Working(r) /\ runs[r].review = 0
      BY <2>1, <3>2 DEF Settled, WorkRuns, RunsOf
    <3>. QED
      BY <2>1, <3>1, <3>2, BranchMoves
  <2>3. r \in RunsOf(t)'
    <3>1. CASE Next
      BY <2>1, <3>1, RunsStayHome DEF RunsOf
    <3>2. CASE Elsewhere
      BY <2>1, <3>2 DEF Elsewhere, ledger, RunsOf
    <3>. QED
      BY <3>1, <3>2, EngineSteps DEF EngineInv
  <2>. QED
    BY <2>2, <2>3
<1>3. ASSUME NEW r \in RunsOf(t)', r \notin RunsOf(t)
      PROVE  branch'[r] = {}
  <2>1. r \in RunIds /\ r \in DOMAIN runs'
    BY <1>1, <1>3 DEF RunsOf
  <2>2. r \notin DOMAIN runs
    <3>1. CASE Next
      BY <1>3, <2>1, <3>1, RunsStayHome DEF RunsOf
    <3>2. CASE Elsewhere
      BY <1>3, <3>2 DEF Elsewhere, ledger, RunsOf
    <3>. QED
      BY <3>1, <3>2, EngineSteps DEF EngineInv
  <2>. QED
    BY <2>1, <2>2, BranchMoves DEF GitOK
<1>4. LastBranched(t, {})' = LastBranched(t, {})
  BY <1>2, <1>3 DEF LastBranched
<1>5. LastBranched(t, {}) \subseteq RunsOf(t)
  BY DEF LastBranched
<1>. QED
  BY <1>2, <1>4, <1>5 DEF Tip

LEMMA GitKeeps ==
  ASSUME EngineInv, GitOK, LandingNext
  PROVE  GitOK'
<1>0. DeskOK /\ WrapperOK
  BY DEF EngineInv, IInv, Parts
<1>1. DOMAIN branch' = RunIds
  <2>1. CASE PlaceRun
    BY <2>1 DEF PlaceRun, Placed, GitOK
  <2>2. ASSUME NEW q \in RunIds, AgentCommits(q)
        PROVE  DOMAIN branch' = RunIds
    BY <2>2 DEF AgentCommits, GitOK
  <2>3. CASE branch' = branch
    BY <2>3 DEF GitOK
  <2>. QED
    BY <2>1, <2>2, <2>3
    DEF LandingNext, TickStep, StopStep, OwnerWorks, CrashStep, Sweeping,
        PlanSweep, PlanGc, RemoveTree, VerdictStep, WaiveStep, CloseStep,
        OtherOwnerStep, LandStep, PromoteStep, GraceEnds, AgentEdits,
        OtherWrapperStep, Complete, GitIdle
<1>2. DOMAIN stamp' = Tasks
  <2>1. CASE stamp' = stamp
    BY <2>1 DEF GitOK
  <2>2. ASSUME NEW ok, Marks(ok)
        PROVE  DOMAIN stamp' = Tasks
    BY <2>2 DEF Marks
  <2>3. ASSUME NEW t \in Tasks, WaiveStep(t)
        PROVE  DOMAIN stamp' = Tasks
    BY <2>3 DEF WaiveStep, GitOK
  <2>. QED
    BY <2>1, <2>2, <2>3
    DEF LandingNext, TickStep, StopStep, PlaceRun, OwnerWorks, CrashStep, Sweeping,
        PlanSweep, PlanGc, RemoveTree, VerdictStep, CloseStep,
        OtherOwnerStep, LandStep, PromoteStep, GraceEnds, AgentEdits,
        AgentCommits, OtherWrapperStep, Complete
<1>3. ASSUME NEW r \in RunIds, r \notin DOMAIN runs'
      PROVE  branch'[r] = {}
  <2>1. r \notin DOMAIN runs
    <3>1. CASE Next
      BY <1>3, <3>1, RunsStayHome
    <3>2. CASE Elsewhere
      BY <1>3, <3>2 DEF Elsewhere, ledger
    <3>. QED
      BY <3>1, <3>2, EngineSteps DEF EngineInv
  <2>. QED
    BY <2>1, BranchMoves DEF GitOK
<1>. QED
  BY <1>1, <1>2, <1>3 DEF GitOK

\* The checkout never loses a commit, and no approved tree is forgotten.
LEMMA HistoryGrows ==
  ASSUME LandingNext
  PROVE  main \subseteq main' /\ approved \subseteq approved'
<1>1. ASSUME NEW ok, Marks(ok)
      PROVE  approved \subseteq approved'
  BY <1>1 DEF Marks
<1>2. CASE PlaceRun \/ OwnerWorks \/ Sweeping
  BY <1>2 DEF PlaceRun, OwnerWorks, Sweeping, PlanSweep, PlanGc, RemoveTree
<1>3. CASE TickStep \/ StopStep \/ CrashStep
  BY <1>1, <1>3 DEF TickStep, StopStep, CrashStep, GitIdle
<1>4. ASSUME NEW t \in Tasks,
             \/ VerdictStep(t) \/ WaiveStep(t) \/ CloseStep(t)
             \/ OtherOwnerStep(t) \/ PromoteStep(t) \/ GraceEnds(t)
      PROVE  main' = main /\ approved \subseteq approved'
  BY <1>1, <1>4 DEF VerdictStep, WaiveStep, CloseStep, OtherOwnerStep,
                    PromoteStep, GraceEnds, GitIdle
<1>5. ASSUME NEW t \in Tasks, LandStep(t)
      PROVE  main \subseteq main' /\ approved \subseteq approved'
  BY <1>1, <1>5 DEF LandStep
<1>6. ASSUME NEW r \in RunIds,
             \/ AgentEdits(r) \/ AgentCommits(r) \/ OtherWrapperStep(r)
             \/ \E report \in {"done", "manual", "blocked", "failed", "dirty"} :
                  Complete(r, report)
      PROVE  main \subseteq main' /\ approved \subseteq approved'
  BY <1>1, <1>6 DEF AgentEdits, AgentCommits, OtherWrapperStep, Complete, GitIdle
<1>. QED
  BY <1>2, <1>3, <1>4, <1>5, <1>6 DEF LandingNext

-----------------------------------------------------------------------------
(* Standing approvals *)

\* A standing approval is the tip of a task that is done and settled, and in
\* the checkout unless its caller is about to land it.
Standing(t) ==
  stamp[t] # {} =>
    /\ tasks[t].status = "done" /\ Settled(t)
    /\ stamp[t] = Tip(t) /\ stamp[t] \in approved
    /\ t \in Code /\ crashes = MaxCrashes =>
         stamp[t] \subseteq main \/ t \in landing

LandInv == GitOK /\ \A t \in Tasks : Standing(t)

\* The step approves the 'done' of a settled task and hands it to a landing.
Approves(t) ==
  /\ tasks'[t].status = "done"
  /\ Settled(t) /\ Settled(t)'
  /\ stamp'[t] = Tip(t) /\ stamp'[t] \in approved'
  /\ t \in Code => t \in landing'

\* An approval stands only where it stood before or is given now.
LEMMA StampMoves ==
  ASSUME EngineInv, LandInv, LandingNext, NEW t \in Tasks, stamp'[t] # {}
  PROVE  /\ tasks'[t].status = "done"
         /\ stamp'[t] = stamp[t] \/ Approves(t)
<1>0. DOMAIN stamp = Tasks /\ Standing(t) /\ LedgerOK
  BY DEF LandInv, GitOK, EngineInv, IInv, Parts
<1>1. CASE stamp' = stamp /\ tasks' = tasks
  BY <1>0, <1>1 DEF Standing
<1>2. ASSUME NEW ok, Marks(ok), t \notin ok
      PROVE  tasks'[t].status = "done" /\ stamp'[t] = stamp[t]
  BY <1>2 DEF Marks
<1>3. CASE PlaceRun \/ OwnerWorks \/ Sweeping
  <2>1. stamp' = stamp /\ tasks' = tasks
    BY <1>3 DEF PlaceRun, OwnerWorks, Sweeping, PlanSweep, PlanGc, RemoveTree,
                EngineIdle, vars, ledger
  <2>. QED
    BY <1>1, <2>1
<1>4. CASE TickStep \/ StopStep \/ CrashStep
  BY <1>2, <1>4 DEF TickStep, StopStep, CrashStep
<1>5. ASSUME NEW u \in Tasks, OtherOwnerStep(u) \/ LandStep(u) \/ PromoteStep(u)
      PROVE  tasks'[t].status = "done" /\ stamp'[t] = stamp[t]
  BY <1>2, <1>5 DEF OtherOwnerStep, LandStep, PromoteStep
<1>6. ASSUME NEW u \in Tasks, GraceEnds(u)
      PROVE  stamp' = stamp /\ tasks' = tasks
  BY <1>6 DEF GraceEnds, EngineIdle, vars, ledger
<1>7. ASSUME NEW u \in Tasks, WaiveStep(u)
      PROVE  tasks'[t].status = "done" /\ stamp'[t] = stamp[t]
  <2>1. u # t /\ stamp'[t] = stamp[t]
    BY <1>0, <1>7 DEF WaiveStep
  <2>2. tasks'[t] = tasks[t]
    BY <1>7, <2>1 DEF WaiveStep, OwnerWaive, WaiveReview, WithTask
  <2>. QED
    BY <1>0, <2>1, <2>2 DEF Standing
<1>8. ASSUME NEW u \in Tasks, NEW ok, Marks(ok), ok \subseteq {u},
             t \in ok /\ tasks'[t].status = "done" =>
               /\ UNCHANGED <<runs, pc, cur, wrapper, answer>>
               /\ t \in Code => t \in landing'
      PROVE  /\ tasks'[t].status = "done"
             /\ stamp'[t] = stamp[t] \/ Approves(t)
  <2>1. tasks'[t].status = "done"
    BY <1>8 DEF Marks
  <2>2. CASE t \in ok /\ Settled(t)
    <3>1. stamp'[t] = Tip(t) /\ Tip(t) \in approved'
      BY <1>8, <2>1, <2>2 DEF Marks
    <3>2. Settled(t)'
      BY <1>8, <2>1, <2>2 DEF Settled, WorkRuns, RunsOf, Working
    <3>. QED
      BY <1>8, <2>1, <2>2, <3>1, <3>2 DEF Approves
  <2>3. CASE ~ (t \in ok /\ Settled(t))
    BY <1>8, <2>1, <2>3 DEF Marks
  <2>. QED
    BY <2>1, <2>2, <2>3
<1>9. ASSUME NEW u \in Tasks, VerdictStep(u)
      PROVE  /\ tasks'[t].status = "done"
             /\ stamp'[t] = stamp[t] \/ Approves(t)
  <2>. DEFINE ok == IF tasks'[u].status = "done" THEN {u} ELSE {}
  <2>1. Marks(ok) /\ ok \subseteq {u}
    BY <1>9 DEF VerdictStep
  <2>2. ReviewVerdict(u)
    BY <1>9 DEF VerdictStep, OwnerVerdict, Verdict, RunsOf
  <2>3. ASSUME t \in ok, tasks'[t].status = "done"
        PROVE  /\ UNCHANGED <<runs, pc, cur, wrapper, answer>>
               /\ t \in Code => t \in landing'
    <3>1. t = u
      BY <2>3
    <3>2. UNCHANGED <<runs, pc, cur, wrapper, answer>>
      BY <2>2 DEF ReviewVerdict, ApproveReview, RequestChanges, tick
    <3>3. ASSUME NEW s \in TaskStatus, tasks' = WithTask(t, s)
          PROVE  s = "done"
      BY <1>0, <2>3, <3>3, WithTaskTakes DEF TaskTakes
    <3>4. ~ RequestChanges(t)
      BY <3>3 DEF RequestChanges, TaskStatus
    <3>5. ApproveReview(t) => ~ tasks[t].gate
      BY <3>3 DEF ApproveReview, TaskStatus
    <3>. QED
      BY <2>2, <3>1, <3>2, <3>4, <3>5 DEF ReviewVerdict, LandCall
  <2>. HIDE DEF ok
  <2>. QED
    BY <1>8, <2>1, <2>3
<1>10. ASSUME NEW u \in Tasks, CloseStep(u)
       PROVE  /\ tasks'[t].status = "done"
              /\ stamp'[t] = stamp[t] \/ Approves(t)
  <2>1. Marks({u}) /\ OwnerClose(u)
    BY <1>10 DEF CloseStep
  <2>2. UNCHANGED <<runs, pc, cur, wrapper, answer>> /\ (u \in Code => u \in landing')
    BY <2>1 DEF OwnerClose, CloseByOwner, tick, LandCall
  <2>. QED
    BY <1>8, <2>1, <2>2
<1>11. ASSUME NEW r \in RunIds, AgentEdits(r) \/ AgentCommits(r)
       PROVE  stamp' = stamp /\ tasks' = tasks
  BY <1>11 DEF AgentEdits, AgentCommits, EngineIdle, vars, ledger
<1>12. ASSUME NEW r \in RunIds,
              \/ OtherWrapperStep(r)
              \/ \E report \in {"done", "manual", "blocked", "failed", "dirty"} :
                   Complete(r, report)
       PROVE  tasks'[t].status = "done" /\ stamp'[t] = stamp[t]
  BY <1>2, <1>12 DEF OtherWrapperStep, Complete
<1>. QED
  BY <1>1, <1>3, <1>4, <1>5, <1>6, <1>7, <1>9, <1>10, <1>11, <1>12
  DEF LandingNext

\* A call leaves the landing when it lands, or when it dies.
LEMMA LandingLeaves ==
  ASSUME EngineInv, LandingNext, NEW t \in landing, t \notin landing'
  PROVE  LandStep(t) \/ (Crash /\ main' = main)
<1>1. ASSUME NEW u \in Tasks, LandStep(u)
      PROVE  LandStep(t)
  <2>1. t = u
    BY <1>1 DEF LandStep, Land
  <2>. QED
    BY <1>1, <2>1
<1>2. CASE CrashStep
  <2>1. main' = main
    BY <1>2 DEF CrashStep
  <2>2. CASE ServiceCrash \/ TickAborts \/ (\E u \in Tasks : CallerCrash(u)) \/ (\E r \in RunIds : WrapperCrash(r))
    BY <2>1, <2>2 DEF ServiceCrash, TickAborts, CallerCrash, WrapperCrash
  <2>. QED
    BY <1>2, <2>2 DEF CrashStep
<1>3. CASE TickStep
  BY <1>3
  DEF TickStep, Tick, callers, TickPromote, TickSelect, WorkClaim, WorkBadPath,
      WorkStartRun, Spawn, SpawnFails, SpawnFailed, RecordPid, ListReviews,
      ReviewClaim, ReviewBadPath, ReviewStartRun, ReviewLink, ListRuns,
      ScanAlive, ScanStalled, MarkTaskStalled, FailStalledReview, TickEnd
<1>4. CASE StopStep
  BY <1>4 DEF StopStep, Stop, StopKill, StopFinishRun, StopRequeue, callers
<1>5. CASE PlaceRun \/ OwnerWorks \/ Sweeping
  BY <1>5 DEF PlaceRun, OwnerWorks, Sweeping, PlanSweep, PlanGc, RemoveTree,
              EngineIdle, vars, callers
<1>6. ASSUME NEW u \in Tasks,
             \/ VerdictStep(u) \/ WaiveStep(u) \/ CloseStep(u)
             \/ OtherOwnerStep(u) \/ PromoteStep(u) \/ GraceEnds(u)
      PROVE  FALSE
  BY <1>6
  DEF VerdictStep, OwnerVerdict, Verdict, ReviewVerdict, WaiveStep, OwnerWaive,
      CloseStep, OwnerClose, OtherOwnerStep, OwnerEdit, StopRead, PromoteStep,
      Promote, GraceEnds, EngineIdle, vars, callers
<1>7. ASSUME NEW r \in RunIds, AgentEdits(r) \/ AgentCommits(r)
      PROVE  FALSE
  BY <1>7 DEF AgentEdits, AgentCommits, EngineIdle, vars, callers
<1>8. ASSUME NEW r \in RunIds,
             \/ OtherWrapperStep(r)
             \/ \E report \in {"done", "manual", "blocked", "failed", "dirty"} :
                  Complete(r, report)
      PROVE  FALSE
  BY <1>8
  DEF OtherWrapperStep, Complete, Boot, BriefUnreadable, CloseReview, Reap,
      FinalizeWork, FinalizeReview, WrapperStep, Resuming, AnswerSpawn,
      AnswerRecordPid, AnswerSetupFails, AnswerSpawnFails, AnswerSpawnFailed,
      AnswerStep, Question, Answer, callers
<1>. QED
  BY <1>1, <1>2, <1>3, <1>4, <1>5, <1>6, <1>7, <1>8 DEF LandingNext

\* No step adds to the crashes that are left.
LEMMA CrashesLeft ==
  ASSUME EngineInv, Next \/ Elsewhere
  PROVE  /\ crashes' <= crashes /\ crashes \in 0..MaxCrashes
         /\ Crash => crashes' < crashes
<1>1. crashes \in 0..MaxCrashes /\ MaxCrashes \in Nat
  BY EngineAssumption DEF EngineInv, IInv, Parts, BudgetOK
<1>2. crashes' = crashes \/ crashes' = crashes - 1
  BY CrashCounts DEF EngineInv, Elsewhere, OwnerOp, Fault, budget
<1>. QED
  BY <1>1, <1>2 DEF Crash

\* What a landing does with a standing approval.
LEMMA Lands ==
  ASSUME EngineInv, LandInv, NEW t \in Tasks, LandStep(t), stamp[t] # {}
  PROVE  /\ main' \in approved \cup {main}
         /\ t \in Code /\ tasks'[t].status = "done" => stamp[t] \subseteq main'
<1>0. LedgerOK /\ stamp[t] = Tip(t) /\ stamp[t] \in approved
  BY DEF EngineInv, IInv, Parts, LandInv, Standing
<1>1. LastBranched(t, {}) # {}
  BY <1>0 DEF Tip
<1>2. CASE Refused(t)
  <2>1. TaskTakes(t, "blocked") /\ main' = main
    BY <1>0, <1>2, WithTaskTakes DEF LandStep
  <2>. QED
    BY <2>1 DEF TaskTakes
<1>3. CASE ~ Refused(t) /\ t \in Code
  <2>1. main' = main \cup stamp[t]
    BY <1>0, <1>3 DEF LandStep
  <2>2. main \subseteq stamp[t] \/ stamp[t] \subseteq main
    BY <1>0, <1>1, <1>3 DEF Refused
  <2>3. main' = main \/ main' = stamp[t]
    BY <2>1, <2>2
  <2>. QED
    BY <1>0, <2>1, <2>3
<1>4. CASE ~ Refused(t) /\ t \notin Code
  BY <1>4 DEF LandStep
<1>. QED
  BY <1>2, <1>3, <1>4

LEMMA StandingKeeps ==
  ASSUME EngineInv, EngineInv', LandInv, LandingNext, NEW t \in Tasks
  PROVE  Standing(t)'
<1>. SUFFICES ASSUME stamp'[t] # {}
              PROVE  /\ tasks'[t].status = "done" /\ Settled(t)'
                     /\ stamp'[t] = Tip(t)' /\ stamp'[t] \in approved'
                     /\ t \in Code /\ crashes' = MaxCrashes =>
                          stamp'[t] \subseteq main' \/ t \in landing'
  BY DEF Standing
<1>0. GitOK /\ Standing(t) /\ (Next \/ Elsewhere)
  BY EngineSteps DEF LandInv, EngineInv
<1>1. tasks'[t].status = "done" /\ (stamp'[t] = stamp[t] \/ Approves(t))
  BY StampMoves
<1>2. CASE Approves(t)
  BY <1>0, <1>1, <1>2, TipStays DEF Approves
<1>3. CASE stamp'[t] = stamp[t]
  <2>1. /\ tasks[t].status = "done" /\ Settled(t)
        /\ stamp[t] = Tip(t) /\ stamp[t] \in approved
        /\ t \in Code /\ crashes = MaxCrashes =>
             stamp[t] \subseteq main \/ t \in landing
    BY <1>0, <1>3 DEF Standing
  <2>2. Settled(t)'
    BY <1>0, <1>1, <2>1, StaysSettled DEF Terminal
  <2>3. Tip(t)' = Tip(t)
    BY <1>0, <2>1, TipStays
  <2>4. main \subseteq main' /\ approved \subseteq approved'
    BY HistoryGrows
  <2>5. ASSUME t \in Code, crashes' = MaxCrashes
        PROVE  stamp[t] \subseteq main' \/ t \in landing'
    <3>1. crashes = MaxCrashes /\ ~ Crash
      BY <1>0, <2>5, CrashesLeft, EngineAssumption
    <3>2. CASE stamp[t] \subseteq main
      BY <2>4, <3>2
    <3>3. CASE t \in landing /\ t \notin landing'
      BY <1>1, <1>3, <2>5, <3>1, <3>3, LandingLeaves, Lands
    <3>. QED
      BY <2>1, <2>5, <3>1, <3>2, <3>3
  <2>. QED
    BY <1>1, <1>3, <2>1, <2>2, <2>3, <2>4, <2>5
<1>. QED
  BY <1>1, <1>2, <1>3

LEMMA LandKeeps ==
  ASSUME EngineInv, EngineInv', LandInv, [LandingNext]_landingVars
  PROVE  LandInv'
<1>1. CASE LandingNext
  BY <1>1, GitKeeps, StandingKeeps DEF LandInv
<1>2. CASE UNCHANGED landingVars
  <2>1. GitOK'
    BY <1>2 DEF landingVars, vars, ledger, git, LandInv, GitOK
  <2>2. ASSUME NEW t \in Tasks
        PROVE  Standing(t)'
    BY <1>2
    DEF LandInv, landingVars, vars, ledger, tick, callers, budget, git, Standing,
        Settled, WorkRuns, RunsOf, Working, Tip, LastBranched
  <2>. QED
    BY <2>1, <2>2 DEF LandInv
<1>. QED
  BY <1>1, <1>2

LEMMA LandHolds == LandingSpec => [](EngineInv /\ LandInv)
<1>1. LandingInit => LandInv
  BY DEF LandingInit, Init, LandInv, GitOK, Standing
<1>2. EngineInv /\ EngineInv' /\ LandInv /\ [LandingNext]_landingVars => LandInv'
  BY LandKeeps
<1>. QED
  BY <1>1, <1>2, EngineHolds, PTL DEF LandingSpec

\* An approval that stands is in the primary checkout, or its caller is about
\* to land it, as long as nothing crashed: the fast-forward is refused only
\* together with the task's 'done'.
THEOREM ApprovalsLand == LandingSpec => []ApprovedLands
<1>1. LandInv => ApprovedLands
  <2>. SUFFICES ASSUME LandInv, crashes = MaxCrashes, NEW t \in Code
                PROVE  stamp[t] \subseteq main \/ t \in landing
    BY DEF ApprovedLands
  <2>1. t \in Tasks /\ Standing(t)
    BY LedgerAssumption DEF LandInv
  <2>. QED
    BY <2>1 DEF Standing
<1>. QED
  BY <1>1, LandHolds, PTL

\* Whatever runs, verdicts, stops and sweeps overlap with a landing, it moves
\* the primary checkout to an approved tree, although it looks the branch up
\* again after the verdict.
THEOREM OnlyApprovedLands == LandingSpec => LandsWhatWasApproved
<1>1. ASSUME EngineInv, LandInv, LandingNext, NEW t \in landing \ landing',
             stamp[t] # {}
      PROVE  main' \in approved \cup {main}
  <2>1. t \in Tasks
    BY <1>1 DEF EngineInv, IInv, Parts, CallsOK
  <2>. QED
    BY <1>1, <2>1, LandingLeaves, Lands
<1>2. EngineInv /\ LandInv /\ [LandingNext]_landingVars
        => [\A t \in landing \ landing' :
              stamp[t] # {} => main' \in approved \cup {main}]_landingVars
  BY <1>1
<1>. QED
  BY <1>2, LandHolds, PTL DEF LandingSpec, LandsWhatWasApproved

-----------------------------------------------------------------------------
(* What the sweeps rely on *)

\* Only work runs have a tree; a review run in the making has none.
TreesOK ==
  /\ DOMAIN tree = RunIds /\ DOMAIN edits = RunIds
  /\ \A r \in RunIds : tree[r] # "none" => r \in DOMAIN runs /\ runs[r].review = 0
  /\ pc = "link" => tree[cur.run] = "none"

\* A task that is over, and out of its grace period, is settled.
Over(t) == tasks[t].status \in Terminal /\ t \notin fresh /\ t \notin waived
OverSettled == \A t \in Tasks : Over(t) => Settled(t)

\* The run has a final status, and no process will ever work for it again.
Ended(r) ==
  runs[r].status \in Terminal /\ ~ Working(r) /\ answer[r] # "resumed"

\* A run on a plan has ended, and on the tick's plan its tree is clean, until
\* the plan is carried out.
SweepOK ==
  /\ DOMAIN sweep = {"tick", "cli"}
  /\ \A p \in {"tick", "cli"} : \A x \in sweep[p] :
       /\ x.run \in DOMAIN runs
       /\ runs[x.run].task \notin waived =>
            Ended(x.run) /\ (p = "tick" => edits[x.run] = {})

SweepInv == TreesOK /\ OverSettled /\ SweepOK

LEMMA EndedStays ==
  ASSUME EngineInv, Next \/ Elsewhere, NEW r \in DOMAIN runs, Ended(r)
  PROVE  Ended(r)'
<1>0. r \in RunIds
  BY RunInBounds DEF EngineInv, IInv, Parts
<1>1. CASE Next
  <2>1. FinalStep
    BY <1>1, NextKeeps DEF EngineInv
  <2>2. runs'[r].status = runs[r].status
    BY <2>1 DEF FinalStep, Ended, Terminal
  <2>3. ~ Working(r)'
    <3>1. pc = "launch" => r # cur.run
      BY DEF EngineInv, FreshOK, Ended, Terminal
    <3>. QED
      BY <1>0, <1>1, <3>1, Awakes DEF Ended
  <2>4. answer'[r] # "resumed"
    BY <1>0, <1>1, Resumes DEF Ended, Answer, ResumeBlockedRun, Terminal
  <2>. QED
    BY <2>2, <2>3, <2>4 DEF Ended
<1>2. CASE Elsewhere
  BY <1>2 DEF Elsewhere, ledger, callers, Ended, Working
<1>. QED
  BY <1>1, <1>2

\* A run is linked to its review by the step after its start, or never.
LEMMA LinkOnly ==
  ASSUME EngineInv, Next, NEW q \in DOMAIN runs
  PROVE  runs'[q].review = runs[q].review \/ (pc = "link" /\ q = cur.run)
<1>1. CASE ReviewLink
  <2>1. RunsStay(cur.run, cur.review)
    <3>. cur.run \in DOMAIN runs
      BY <1>1 DEF ReviewLink, EngineInv, IInv, Parts, DeskOK
    <3>. cur.review \in Nat
      BY <1>1 DEF ReviewLink, EngineInv, IInv, Parts, DeskOK, LedgerOK
    <3>. QED
      BY <1>1, SetRunReviewStays DEF ReviewLink, EngineInv, IInv, Parts
  <2>. QED
    BY <1>1, <2>1 DEF RunsStay, ReviewLink
<1>2. CASE ~ ReviewLink
  BY <1>2, StepRunsKept DEF RunsKept, EngineInv
<1>. QED
  BY <1>1, <1>2

LEMMA LinkSet ==
  ASSUME EngineInv, Next, pc' = "link"
  PROVE  ReviewStartRun \/ (pc = "link" /\ cur' = cur)
<1>1. CASE Tick
  <2>1. ASSUME NEW u \in Tasks, WorkClaim(u)
        PROVE  pc = "link"
    BY <2>1 DEF WorkClaim
  <2>2. CASE \/ TickPromote \/ TickSelect \/ WorkBadPath \/ WorkStartRun \/ Spawn
             \/ SpawnFails \/ SpawnFailed \/ RecordPid \/ ListReviews
             \/ ReviewBadPath \/ ReviewLink \/ ListRuns \/ MarkTaskStalled
             \/ FailStalledReview \/ TickEnd
    BY <2>2
    DEF TickPromote, TickSelect, WorkBadPath, WorkStartRun, Spawn, SpawnFails,
        SpawnFailed, RecordPid, ListReviews, ReviewBadPath, ReviewLink, ListRuns,
        MarkTaskStalled, FailStalledReview, TickEnd, Loop
  <2>3. ASSUME NEW v \in desk, ReviewClaim(v)
        PROVE  FALSE
    BY <2>3 DEF ReviewClaim
  <2>4. ASSUME NEW x \in scan, ScanAlive(x) \/ ScanStalled(x)
        PROVE  FALSE
    BY <2>4 DEF ScanAlive, ScanStalled
  <2>5. ~ \E u \in Tasks : WorkClaim(u)
    BY <2>1 DEF WorkClaim
  <2>. QED
    BY <1>1, <2>2, <2>3, <2>4, <2>5 DEF Tick
<1>2. CASE Stop \/ ServiceCrash \/ TickAborts
  BY <1>2 DEF Stop, StopKill, StopFinishRun, StopRequeue, ServiceCrash, TickAborts
<1>3. CASE ~ Tick /\ ~ Stop /\ ~ ServiceCrash /\ ~ TickAborts
  BY <1>3, DeskAlone DEF EngineInv, tick
<1>. QED
  BY <1>1, <1>2, <1>3

\* The steps that touch no tree, no file in one, and no plan.
LEMMA TreesAlone ==
  ASSUME LandingNext, ~ PlaceRun, ~ Sweeping, ~ CrashStep,
         ~ \E r \in RunIds : AgentEdits(r) \/ AgentCommits(r)
  PROVE  UNCHANGED <<tree, edits, sweep>>
<1>1. CASE TickStep \/ StopStep \/ OwnerWorks
  BY <1>1 DEF TickStep, StopStep, OwnerWorks, GitIdle
<1>2. ASSUME NEW t \in Tasks,
             \/ VerdictStep(t) \/ WaiveStep(t) \/ CloseStep(t)
             \/ OtherOwnerStep(t) \/ LandStep(t) \/ PromoteStep(t) \/ GraceEnds(t)
      PROVE  UNCHANGED <<tree, edits, sweep>>
  BY <1>2 DEF VerdictStep, WaiveStep, CloseStep, OtherOwnerStep, LandStep,
              PromoteStep, GraceEnds, GitIdle
<1>3. ASSUME NEW q \in RunIds,
             \/ OtherWrapperStep(q)
             \/ \E report \in {"done", "manual", "blocked", "failed", "dirty"} :
                  Complete(q, report)
      PROVE  UNCHANGED <<tree, edits, sweep>>
  BY <1>3 DEF OtherWrapperStep, Complete, GitIdle
<1>. QED
  BY <1>1, <1>2, <1>3 DEF LandingNext

\* A tree appears where its run is launched, and goes with a plan.
LEMMA TreeMoves ==
  ASSUME LandingNext, TreesOK, NEW r \in RunIds, tree'[r] # tree[r]
  PROVE  \/ PlaceRun /\ r = cur.run /\ tree[r] = "none"
         \/ /\ tree[r] = "worktree" /\ tree'[r] = "gone"
            /\ \E p \in {"tick", "cli"} : \E x \in sweep[p] :
                 RemoveTree(p, x) /\ x.run = r
<1>1. CASE PlaceRun
  BY <1>1 DEF PlaceRun, Placed, Unplaced, TreesOK
<1>2. CASE Sweeping
  <2>1. PICK p \in {"tick", "cli"} : \E x \in sweep[p] : RemoveTree(p, x)
    BY <1>2 DEF Sweeping, PlanSweep, PlanGc
  <2>2. PICK x \in sweep[p] : RemoveTree(p, x)
    BY <2>1
  <2>3. x.run = r /\ tree[r] = "worktree" /\ tree'[r] = "gone"
    BY <2>2 DEF RemoveTree, TreesOK
  <2>. QED
    BY <2>2, <2>3
<1>3. CASE CrashStep \/ \E q \in RunIds : AgentEdits(q) \/ AgentCommits(q)
  BY <1>3 DEF CrashStep, AgentEdits, AgentCommits
<1>. QED
  BY <1>1, <1>2, <1>3, TreesAlone

\* Only an agent at work leaves files in a tree.
LEMMA EditsMove ==
  ASSUME LandingNext, TreesOK, NEW r \in RunIds, edits[r] = {}, ~ Working(r)
  PROVE  edits'[r] = {}
<1>1. ASSUME NEW q \in RunIds, AgentEdits(q) \/ AgentCommits(q)
      PROVE  edits'[r] = {}
  <2>1. CASE edits' = edits
    BY <2>1
  <2>2. CASE edits' # edits
    <3>1. wrapper[q].state = "agent"
      BY <1>1, <2>2 DEF AgentEdits, AgentCommits, AgentAt
    <3>2. q # r
      BY <3>1 DEF Working
    <3>. QED
      BY <1>1, <3>2 DEF AgentEdits, AgentCommits, TreesOK
  <2>. QED
    BY <2>1, <2>2
<1>2. ASSUME NEW p, NEW x, RemoveTree(p, x)
      PROVE  edits'[r] = {}
  BY <1>2 DEF RemoveTree, TreesOK
<1>3. CASE PlaceRun \/ Sweeping \/ CrashStep
  BY <1>2, <1>3 DEF PlaceRun, Sweeping, PlanSweep, PlanGc, CrashStep
<1>. QED
  BY <1>1, <1>3, TreesAlone

LEMMA TreesKeep ==
  ASSUME EngineInv, TreesOK, LandingNext
  PROVE  TreesOK'
<1>0. /\ LedgerOK /\ DeskOK /\ HandOK /\ (Next \/ Elsewhere)
      /\ \A r \in DOMAIN runs : r \in RunIds
  BY EngineSteps, RunInBounds DEF EngineInv, IInv, Parts
<1>1. DOMAIN tree' = RunIds /\ DOMAIN edits' = RunIds
  <2>1. ASSUME NEW p, NEW x, RemoveTree(p, x)
        PROVE  DOMAIN tree' = RunIds /\ DOMAIN edits' = RunIds
    BY <2>1 DEF RemoveTree, TreesOK
  <2>2. ASSUME NEW q \in RunIds, AgentEdits(q) \/ AgentCommits(q)
        PROVE  DOMAIN tree' = RunIds /\ DOMAIN edits' = RunIds
    BY <2>2 DEF AgentEdits, AgentCommits, TreesOK
  <2>3. CASE PlaceRun \/ Sweeping \/ CrashStep
    BY <2>1, <2>3 DEF PlaceRun, Placed, Sweeping, PlanSweep, PlanGc, CrashStep, TreesOK
  <2>4. CASE UNCHANGED <<tree, edits>>
    BY <2>4 DEF TreesOK
  <2>. QED
    BY <2>2, <2>3, <2>4, TreesAlone
<1>2. ASSUME NEW r \in RunIds, tree'[r] # "none"
      PROVE  r \in DOMAIN runs' /\ runs'[r].review = 0
  <2>1. /\ r \in DOMAIN runs /\ runs[r].review = 0
        /\ ~ (pc = "link" /\ r = cur.run)
    <3>1. CASE tree[r] # "none"
      BY <3>1 DEF TreesOK
    <3>2. CASE tree[r] = "none"
      <4>1. PlaceRun /\ r = cur.run
        BY <1>2, <3>2, TreeMoves
      <4>2. pc = "launch" /\ cur.review = 0
        BY <4>1 DEF PlaceRun, Unplaced
      <4>. QED
        BY <1>0, <4>1, <4>2 DEF DeskOK, HandOK, LaunchOK
    <3>. QED
      BY <3>1, <3>2
  <2>2. CASE Next
    BY <2>1, <2>2, RunsStayHome, LinkOnly
  <2>3. CASE Elsewhere
    BY <2>1, <2>3 DEF Elsewhere, ledger
  <2>. QED
    BY <1>0, <2>2, <2>3
<1>3. ASSUME pc' = "link"
      PROVE  tree'[cur'.run] = "none"
  <2>1. CASE ReviewStartRun
    <3>1. cur'.run = Len(runs) + 1 /\ Len(runs) < MaxRuns /\ pc = "assigned"
      BY <1>0, <2>1 DEF ReviewStartRun, StartRun, DeskOK
    <3>2. Len(runs) + 1 \in RunIds /\ Len(runs) + 1 \notin DOMAIN runs
      BY <1>0, <3>1, LedgerAssumption DEF LedgerOK, RunIds
    <3>3. tree[cur'.run] = "none"
      BY <3>1, <3>2 DEF TreesOK
    <3>. QED
      BY <3>1, <3>2, <3>3, TreeMoves DEF PlaceRun
  <2>2. CASE pc = "link" /\ cur' = cur
    <3>1. tree[cur.run] = "none" /\ cur.run \in RunIds
      BY <1>0, <2>2 DEF TreesOK, DeskOK
    <3>. QED
      BY <2>2, <3>1, TreeMoves DEF PlaceRun
  <2>3. CASE Elsewhere
    BY <1>3, <2>2, <2>3 DEF Elsewhere, tick
  <2>. QED
    BY <1>0, <1>3, <2>1, <2>2, <2>3, LinkSet
<1>. QED
  BY <1>1, <1>2, <1>3 DEF TreesOK

\* A task that is over was so before, or its runs are out of the way now.
LEMMA OverMoves ==
  ASSUME LandingNext, NEW t \in Tasks, Over(t)'
  PROVE  Over(t) \/ (Settled(t) /\ Settled(t)')
<1>1. ASSUME NEW ok, Marks(ok)
      PROVE  Over(t)
  BY <1>1 DEF Marks, Over
<1>2. CASE UNCHANGED <<tasks, fresh, waived>>
  BY <1>2 DEF Over
<1>3. CASE PlaceRun \/ OwnerWorks \/ Sweeping
  <2>1. UNCHANGED <<tasks, fresh, waived>>
    BY <1>3 DEF PlaceRun, OwnerWorks, Sweeping, PlanSweep, PlanGc, RemoveTree,
                EngineIdle, vars, ledger
  <2>. QED
    BY <1>2, <2>1
<1>4. CASE TickStep \/ StopStep \/ CrashStep
  BY <1>1, <1>4 DEF TickStep, StopStep, CrashStep
<1>5. ASSUME NEW u \in Tasks,
             \/ VerdictStep(u) \/ CloseStep(u) \/ OtherOwnerStep(u)
             \/ LandStep(u) \/ PromoteStep(u)
      PROVE  Over(t)
  BY <1>1, <1>5 DEF VerdictStep, CloseStep, OtherOwnerStep, LandStep, PromoteStep
<1>6. ASSUME NEW u \in Tasks, GraceEnds(u)
      PROVE  Over(t) \/ (Settled(t) /\ Settled(t)')
  <2>1. UNCHANGED <<tasks, runs, pc, cur, wrapper, answer, waived>>
    BY <1>6 DEF GraceEnds, EngineIdle, vars, ledger, tick, callers
  <2>2. CASE u = t
    BY <1>6, <2>1, <2>2 DEF GraceEnds, Settled, WorkRuns, RunsOf, Working
  <2>3. CASE u # t
    BY <1>6, <2>1, <2>3 DEF GraceEnds, Over
  <2>. QED
    BY <2>2, <2>3
<1>7. ASSUME NEW u \in Tasks, WaiveStep(u)
      PROVE  Over(t) \/ (Settled(t) /\ Settled(t)')
  <2>1. UNCHANGED <<runs, pc, cur, wrapper, answer, fresh>> /\ tasks' = WithTask(u, "done")
    BY <1>7 DEF WaiveStep, OwnerWaive, WaiveReview, tick
  <2>2. CASE u = t
    BY <1>7, <2>1, <2>2 DEF WaiveStep, Over, Settled, WorkRuns, RunsOf, Working
  <2>3. CASE u # t
    BY <1>7, <2>1, <2>3 DEF WaiveStep, Over, WithTask
  <2>. QED
    BY <2>2, <2>3
<1>8. ASSUME NEW r \in RunIds, AgentEdits(r) \/ AgentCommits(r)
      PROVE  UNCHANGED <<tasks, fresh, waived>>
  BY <1>8 DEF AgentEdits, AgentCommits, EngineIdle, vars, ledger
<1>9. ASSUME NEW r \in RunIds,
             \/ OtherWrapperStep(r)
             \/ \E report \in {"done", "manual", "blocked", "failed", "dirty"} :
                  Complete(r, report)
      PROVE  Over(t)
  BY <1>1, <1>9 DEF OtherWrapperStep, Complete
<1>. QED
  BY <1>2, <1>3, <1>4, <1>5, <1>6, <1>7, <1>8, <1>9 DEF LandingNext

LEMMA OverKeeps ==
  ASSUME EngineInv, EngineInv', OverSettled, LandingNext
  PROVE  OverSettled'
<1>. SUFFICES ASSUME NEW t \in Tasks, Over(t)' PROVE Settled(t)'
  BY DEF OverSettled
<1>1. CASE Over(t)
  BY <1>1, EngineSteps, StaysSettled DEF EngineInv, OverSettled, Over
<1>. QED
  BY <1>1, OverMoves

\* What goes on a plan has ended.
LEMMA Planned ==
  ASSUME SweepInv, EngineInv, NEW r \in DOMAIN runs, Reapable(r),
         runs[r].task \notin waived
  PROVE  Ended(r)
<1>0. LedgerOK /\ runs[r] \in RunRow
  BY DEF EngineInv, IInv, Parts, LedgerOK
<1>1. runs[r].task \in Tasks /\ r \in RunIds
  BY <1>0, RunInBounds DEF RunRow
<1>2. Over(runs[r].task)
  BY DEF Reapable, Over
<1>3. Settled(runs[r].task) /\ runs[r].review = 0
  BY <1>1, <1>2 DEF SweepInv, OverSettled, TreesOK, Reapable
<1>. QED
  BY <1>3 DEF Settled, WorkRuns, RunsOf, Reapable, Ended

\* A plan is made by a sweep and carried out item by item.
LEMMA PlanMoves ==
  ASSUME LandingNext, SweepOK, NEW p \in {"tick", "cli"}, NEW x \in sweep'[p]
  PROVE  \/ x \in sweep[p]
         \/ /\ x.run \in DOMAIN runs /\ Reapable(x.run)
            /\ UNCHANGED <<waived, edits>>
            /\ p = "tick" => Clean(x.run)
<1>1. CASE PlanSweep
  BY <1>1 DEF PlanSweep, SweepOK
<1>2. CASE PlanGc
  BY <1>2 DEF PlanGc, SweepOK
<1>3. ASSUME NEW q, NEW y, RemoveTree(q, y)
      PROVE  x \in sweep[p]
  BY <1>3 DEF RemoveTree, SweepOK
<1>4. CASE CrashStep
  BY <1>4 DEF CrashStep, SweepOK
<1>5. CASE PlaceRun \/ \E r \in RunIds : AgentEdits(r) \/ AgentCommits(r)
  BY <1>5 DEF PlaceRun, AgentEdits, AgentCommits
<1>. QED
  BY <1>1, <1>2, <1>3, <1>4, <1>5, TreesAlone DEF Sweeping

LEMMA WaivedGrows ==
  ASSUME LandingNext
  PROVE  waived \subseteq waived'
BY DEF LandingNext, TickStep, StopStep, PlaceRun, OwnerWorks, CrashStep, Sweeping,
       PlanSweep, PlanGc, RemoveTree, VerdictStep, WaiveStep, CloseStep,
       OtherOwnerStep, LandStep, PromoteStep, GraceEnds, AgentEdits,
       AgentCommits, OtherWrapperStep, Complete, Marks

LEMMA SweepKeeps ==
  ASSUME EngineInv, SweepInv, LandingNext
  PROVE  SweepOK'
<1>0. SweepOK /\ TreesOK /\ (Next \/ Elsewhere)
  BY EngineSteps DEF SweepInv, EngineInv
<1>1. DOMAIN sweep' = {"tick", "cli"}
  <2>1. ASSUME NEW p, NEW x, RemoveTree(p, x)
        PROVE  DOMAIN sweep' = {"tick", "cli"}
    BY <1>0, <2>1 DEF RemoveTree, SweepOK
  <2>2. CASE UNCHANGED sweep
    BY <1>0, <2>2 DEF SweepOK
  <2>3. CASE PlanSweep \/ PlanGc \/ CrashStep
    BY <1>0, <2>3 DEF PlanSweep, PlanGc, CrashStep, SweepOK
  <2>4. CASE PlaceRun \/ \E r \in RunIds : AgentEdits(r) \/ AgentCommits(r)
    BY <2>2, <2>4 DEF PlaceRun, AgentEdits, AgentCommits
  <2>. QED
    BY <2>1, <2>2, <2>3, <2>4, TreesAlone DEF Sweeping
<1>2. ASSUME NEW p \in {"tick", "cli"}, NEW x \in sweep'[p]
      PROVE  /\ x.run \in DOMAIN runs'
             /\ runs'[x.run].task \notin waived' =>
                  Ended(x.run)' /\ (p = "tick" => edits'[x.run] = {})
  <2>1. PICK r : r = x.run
    OBVIOUS
  <2>2. r \in DOMAIN runs
    BY <1>0, <1>2, <2>1, PlanMoves DEF SweepOK
  <2>3. r \in DOMAIN runs' /\ runs'[r].task = runs[r].task
    <3>1. CASE Next
      BY <2>2, <3>1, RunsStayHome
    <3>2. CASE Elsewhere
      BY <2>2, <3>2 DEF Elsewhere, ledger
    <3>. QED
      BY <1>0, <3>1, <3>2
  <2>4. ASSUME runs[r].task \notin waived'
        PROVE  Ended(r)' /\ (p = "tick" => edits'[r] = {})
    <3>1. runs[r].task \notin waived
      BY <2>4, WaivedGrows
    <3>2. Ended(r) /\ (p = "tick" => edits[r] = {})
      <4>1. CASE x \in sweep[p]
        BY <1>0, <2>1, <3>1, <4>1 DEF SweepOK
      <4>2. CASE Reapable(r) /\ (p = "tick" => Clean(r))
        BY <2>2, <3>1, <4>2, Planned DEF Clean
      <4>. QED
        BY <1>0, <2>1, <4>1, <4>2, PlanMoves
    <3>3. Ended(r)'
      BY <1>0, <2>2, <3>2, EndedStays
    <3>4. r \in RunIds
      BY <2>2, RunInBounds DEF EngineInv, IInv, Parts
    <3>. QED
      BY <1>0, <3>2, <3>3, <3>4, EditsMove DEF Ended
  <2>. QED
    BY <2>1, <2>3, <2>4
<1>. QED
  BY <1>1, <1>2 DEF SweepOK

LEMMA SweepHolds == LandingSpec => [](EngineInv /\ SweepInv)
<1>1. LandingInit => SweepInv
  BY DEF LandingInit, Init, SweepInv, TreesOK, OverSettled, Over, Terminal, SweepOK
<1>2. ASSUME EngineInv, EngineInv', SweepInv, [LandingNext]_landingVars
      PROVE  SweepInv'
  <2>1. CASE LandingNext
    BY <1>2, <2>1, TreesKeep, OverKeeps, SweepKeeps DEF SweepInv
  <2>2. CASE UNCHANGED landingVars
    <3>. USE <1>2, <2>2
         DEF SweepInv, landingVars, vars, ledger, tick, callers, budget, git
    <3>1. TreesOK'
      BY DEF TreesOK
    <3>2. ASSUME NEW t \in Tasks, Over(t)'
          PROVE  Settled(t)'
      BY <3>2 DEF OverSettled, Over, Settled, WorkRuns, RunsOf, Working
    <3>3. SweepOK'
      BY DEF SweepOK, Ended, Working
    <3>. QED
      BY <3>1, <3>2, <3>3 DEF OverSettled
  <2>. QED
    BY <1>2, <2>1, <2>2
<1>. QED
  BY <1>1, <1>2, EngineHolds, PTL DEF LandingSpec

\* A sweep removes trees on a plan made earlier, and yet never the tree of a
\* live run, nor the tick's sweep uncommitted work: a run that was on a plan
\* stays over whatever the owner and the tick do with its task since.
THEOREM SweepsAreSafe == LandingSpec => WorkKept
<1>1. ASSUME EngineInv, SweepInv, LandingNext, NEW r \in RunIds,
             tree[r] = "worktree", tree'[r] = "gone", runs[r].task \notin waived
      PROVE  /\ ~ Working(r)
             /\ sweep'["tick"] # sweep["tick"] => edits[r] = {}
  <2>1. PICK p \in {"tick", "cli"} : \E x \in sweep[p] : RemoveTree(p, x) /\ x.run = r
    BY <1>1, TreeMoves DEF SweepInv
  <2>2. PICK x \in sweep[p] : RemoveTree(p, x) /\ x.run = r
    BY <2>1
  <2>3. Ended(r) /\ (p = "tick" => edits[r] = {})
    BY <1>1, <2>2 DEF SweepInv, SweepOK
  <2>4. sweep'["tick"] # sweep["tick"] => p = "tick"
    BY <1>1, <2>2 DEF RemoveTree, SweepInv, SweepOK
  <2>. QED
    BY <2>3, <2>4 DEF Ended
<1>2. EngineInv /\ SweepInv /\ [LandingNext]_landingVars
        => [\A r \in RunIds :
              /\ tree[r] = "worktree" /\ tree'[r] = "gone"
              /\ runs[r].task \notin waived
              => /\ ~ Working(r)
                 /\ sweep'["tick"] # sweep["tick"] => edits[r] = {}]_landingVars
  BY <1>1
<1>. QED
  BY <1>2, SweepHolds, PTL DEF LandingSpec, WorkKept
=============================================================================
