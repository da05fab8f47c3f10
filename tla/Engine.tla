------------------------------- MODULE Engine -------------------------------
(***************************************************************************)
(* The dispatch engine: the processes that share the Ledger.               *)
(*                                                                         *)
(*   the lock holder   one dispatcher tick (core/wm_dispatch.py) or one    *)
(*                     owner stop (backend/stop.py) at a time, under the   *)
(*                     dispatch flock; a stop reads its run BEFORE it      *)
(*                     waits for the lock                                  *)
(*   wrappers          one detached core/wm_run_agent.py per launched run  *)
(*   answers           POST /run/{id}/answer resuming a blocked run; it    *)
(*                     does NOT take the dispatch flock                    *)
(*   verdict callers   `wm review`, close-owner: after their transaction   *)
(*                     they land the branch and promote dependents         *)
(*   the owner         the task actions of backend/writes.py and wm_cli.py *)
(*                                                                         *)
(* Steps interleave at every transaction.  A process may crash between any *)
(* two of its steps; detached wrappers survive a crash of the service, and *)
(* a wrapper that dies under a living service looks alive until reaped.    *)
(* Abstracted: which of several claimable tasks a tick picks first, the    *)
(* paused switch (a paused tick does nothing), backups and worktree GC.    *)
(***************************************************************************)
EXTENDS Ledger

CONSTANTS
  None,         \* no task
  Cap,          \* concurrency_cap
  MaxOwnerOps,  \* bound: owner actions
  MaxCrashes,   \* bound: crashes and uncaught exceptions
  MaxFaults     \* bound: failed launches and idle verdicts on live wrappers

ASSUME EngineAssumption ==
  /\ None \notin Tasks
  /\ Cap \in Nat
  /\ MaxOwnerOps \in Nat
  /\ MaxCrashes \in Nat
  /\ MaxFaults \in Nat

VARIABLES
  pc,         \* what the lock holder does next; "idle": the flock is free
  queue,      \* ready tasks this tick selected
  desk,       \* pending reviews this tick listed
  scan,       \* running runs this tick listed, with the pid it read
  cur,        \* the task, review and run the lock holder works on
  left,       \* review slots this tick has left
  stop,       \* the owner stop: phase and the run row it read
  wrapper,    \* run id -> [state, pid] of its latest wrapper process
  answer,     \* run id -> how far its resume has come
  landing,    \* verdict callers about to run _land_and_report
  promoting,  \* callers about to run promote_dependents
  resumed,    \* history: runs reopened by an answer
  ownerOps,   \* owner actions left
  crashes,    \* crashes left
  faults      \* faults left

tick == <<pc, queue, desk, scan, cur, left>>
callers == <<answer, landing, promoting, resumed>>
budget == <<ownerOps, crashes, faults>>
vars == <<ledger, tick, stop, wrapper, callers, budget>>

RunIds == 1..MaxRuns
NoCur == [task |-> None, review |-> 0, run |-> 0]
NoStop == [phase |-> "none", task |-> None, run |-> 0, pid |-> 0,
           review |-> 0, keep |-> FALSE]

\* A call that has nothing to do for its task is not kept pending.
LandCall(t) == IF t \in Code \/ Dependents(t) # {} THEN {t} ELSE {}
PromoteCall(t) == IF Dependents(t) # {} THEN {t} ELSE {}

\* _process_alive: a pid exists until its parent has reaped it.
Alive(r, p) == p # 0 /\ wrapper[r].state # "none" /\ wrapper[r].pid = p
Working(r) == wrapper[r].state \notin {"none", "zombie"}

\* After release_goal: no dependency in the initial state is done yet.
Init ==
  /\ \E gated \in SUBSET Tasks :
       tasks = [t \in Tasks |->
         [status |-> IF t \notin Released THEN "planned"
                     ELSE IF t \in gated \/ ~ (\A p \in Tasks : <<t, p>> \notin Deps)
                            THEN "waiting_approval" ELSE "ready",
          gate |-> t \in gated, reworks |-> 0]]
  /\ runs = <<>> /\ reviews = <<>> /\ asked = {}
  /\ pc = "idle" /\ queue = {} /\ desk = {} /\ scan = {}
  /\ cur = NoCur /\ left = 0 /\ stop = NoStop
  /\ wrapper = [r \in RunIds |-> [state |-> "none", pid |-> 0]]
  /\ answer = [r \in RunIds |-> "none"]
  /\ landing = {} /\ promoting = {} /\ resumed = {}
  /\ ownerOps = MaxOwnerOps /\ crashes = MaxCrashes /\ faults = MaxFaults

-----------------------------------------------------------------------------
(* One dispatcher tick: run_dispatch *)

\* Something outside the engine goes wrong.
Fault ==
  faults > 0 /\ faults' = faults - 1 /\ UNCHANGED <<ownerOps, crashes>>

Free(n) == IF n < Cap THEN Cap - n ELSE 0
\* Mutation: running runs are not subtracted from the cap.
FullSlots == Cap
Slots == Free(Cardinality(RunningRuns))

\* The bound on the runs table: a tick at the bound claims nothing.
RoomForRun == Len(runs) < MaxRuns

\* Mutation: the tick relies on the promotion each completion makes.
TickWithoutPromote ==
  /\ pc = "idle"
  /\ pc' = "select"
  /\ UNCHANGED <<ledger, queue, desk, scan, cur, left, stop, wrapper, callers, budget>>

TickPromote ==
  /\ pc = "idle"
  /\ PromoteWaiting
  /\ pc' = "select"
  /\ UNCHANGED <<queue, desk, scan, cur, left, stop, wrapper, callers, budget>>

\* The capacity left is computed once and sizes the whole work loop.
TickSelect ==
  /\ pc = "select"
  /\ \E S \in SUBSET {t \in Tasks : Claimable(t)} :
       /\ \/ Cardinality(S) = Slots
          \/ /\ Cardinality(S) < Slots
             /\ \A t \in Tasks : Claimable(t) => t \in S
       /\ queue' = S
  /\ pc' = "work"
  /\ UNCHANGED <<ledger, desk, scan, cur, left, stop, wrapper, callers, budget>>

WorkClaim(t) ==
  /\ pc = "work" /\ t \in queue
  /\ queue' = queue \ {t}
  /\ IF Claimable(t) /\ RoomForRun
       THEN /\ ClaimTask(t)
            /\ pc' = "claimed" /\ cur' = [NoCur EXCEPT !.task = t]
       ELSE UNCHANGED <<ledger, pc, cur>>
  /\ UNCHANGED <<desk, scan, left, stop, wrapper, callers, budget>>

\* primary_path is not a directory.
WorkBadPath ==
  /\ pc = "claimed" /\ Fault
  /\ CompleteRun(cur.task, "failed")
  /\ pc' = "work" /\ cur' = NoCur
  /\ UNCHANGED <<queue, desk, scan, left, stop, wrapper, callers>>

WorkStartRun ==
  /\ pc = "claimed"
  /\ StartRun(cur.task)
  /\ pc' = "launch" /\ cur' = [cur EXCEPT !.run = Len(runs) + 1]
  /\ UNCHANGED <<queue, desk, scan, left, stop, wrapper, callers, budget>>

\* The loop of _launch calls that `cur` is in.
Loop == IF cur.review = 0 THEN "work" ELSE "review"

Spawned(r) == [wrapper EXCEPT ![r] = [state |-> "boot", pid |-> @.pid + 1]]

\* Popen: from here the wrapper runs, its pid not yet recorded.
Spawn ==
  /\ pc = "launch"
  /\ wrapper' = Spawned(cur.run)
  /\ pc' = "spawned"
  /\ UNCHANGED <<ledger, queue, desk, scan, cur, left, stop, callers, budget>>

SpawnFails ==
  /\ pc = "launch" /\ Fault
  /\ FinishRun(cur.run, "failed")
  /\ pc' = "unspawned"
  /\ UNCHANGED <<queue, desk, scan, cur, left, stop, wrapper, callers>>

SpawnFailed ==
  /\ pc = "unspawned"
  /\ IF cur.review = 0 THEN CompleteRun(cur.task, "failed")
                       ELSE SetReviewStatus(cur.review, "failed")
  /\ pc' = Loop /\ cur' = NoCur
  /\ UNCHANGED <<queue, desk, scan, left, stop, wrapper, callers, budget>>

RecordPid ==
  /\ pc = "spawned"
  /\ SetRunPid(cur.run, wrapper[cur.run].pid)
  /\ pc' = Loop /\ cur' = NoCur
  /\ left' = IF cur.review = 0 THEN left ELSE left - 1
  /\ UNCHANGED <<queue, desk, scan, stop, wrapper, callers, budget>>

ListReviews ==
  /\ pc = "work" /\ queue = {}
  /\ left' = Slots
  /\ desk' = PendingReviews
  /\ pc' = "review"
  /\ UNCHANGED <<ledger, queue, scan, cur, stop, wrapper, callers, budget>>

\* Oldest request first.
ReviewClaim(v) ==
  /\ pc = "review" /\ left > 0
  /\ v \in desk /\ \A w \in desk : v <= w
  /\ desk' = desk \ {v}
  /\ IF reviews[v].status = "pending" /\ RoomForRun
       THEN /\ ClaimReview(v)
            /\ pc' = "assigned"
            /\ cur' = [task |-> reviews[v].task, review |-> v, run |-> 0]
       ELSE UNCHANGED <<ledger, pc, cur>>
  /\ UNCHANGED <<queue, scan, left, stop, wrapper, callers, budget>>

ReviewBadPath ==
  /\ pc = "assigned" /\ Fault
  /\ SetReviewStatus(cur.review, "blocked")
  /\ pc' = "review" /\ cur' = NoCur
  /\ UNCHANGED <<queue, desk, scan, left, stop, wrapper, callers>>

ReviewStartRun ==
  /\ pc = "assigned"
  /\ StartRun(cur.task)
  /\ pc' = "link" /\ cur' = [cur EXCEPT !.run = Len(runs) + 1]
  /\ UNCHANGED <<queue, desk, scan, left, stop, wrapper, callers, budget>>

ReviewLink ==
  /\ pc = "link"
  /\ SetRunReview(cur.run, cur.review)
  /\ pc' = "launch"
  /\ UNCHANGED <<queue, desk, scan, cur, left, stop, wrapper, callers, budget>>

\* Mutation: a run with no recorded pid counts as still starting.
ListLaunchedRuns ==
  /\ pc = "review" /\ (desk = {} \/ left = 0)
  /\ scan' = {[run |-> r, pid |-> runs[r].pid] :
                 r \in {q \in RunningRuns : runs[q].pid # 0}}
  /\ desk' = {} /\ left' = 0
  /\ pc' = "scan"
  /\ UNCHANGED <<ledger, queue, cur, stop, wrapper, callers, budget>>

ListRuns ==
  /\ pc = "review" /\ (desk = {} \/ left = 0)
  /\ scan' = {[run |-> r, pid |-> runs[r].pid] : r \in RunningRuns}
  /\ desk' = {} /\ left' = 0
  /\ pc' = "scan"
  /\ UNCHANGED <<ledger, queue, cur, stop, wrapper, callers, budget>>

\* check_stall: a dead pid is always stalled, a live one only when the agent's
\* session has been idle for stall_seconds.
ScanAlive(x) ==
  /\ pc = "scan" /\ x \in scan
  /\ Alive(x.run, x.pid)
  /\ scan' = scan \ {x}
  /\ UNCHANGED <<ledger, pc, queue, desk, cur, left, stop, wrapper, callers, budget>>

ScanStalled(x) ==
  /\ pc = "scan" /\ x \in scan
  /\ \/ ~ Alive(x.run, x.pid) /\ UNCHANGED budget
     \/ wrapper[x.run].state = "zombie" /\ UNCHANGED budget
     \/ wrapper[x.run].state = "agent" /\ Fault
  /\ FinishRun(x.run, "failed")
  /\ cur' = [task |-> runs[x.run].task, review |-> runs[x.run].review,
             run |-> x.run]
  /\ scan' = scan \ {x}
  /\ pc' = "stalled"
  /\ UNCHANGED <<queue, desk, left, stop, wrapper, callers>>

MarkTaskStalled ==
  /\ pc = "stalled"
  /\ StallTask(cur.task)
  /\ pc' = "unreview"
  /\ UNCHANGED <<queue, desk, scan, cur, left, stop, wrapper, callers, budget>>

\* set_review_status has no guard: a decided review is overwritten too.
FailStalledReview ==
  /\ pc = "unreview"
  /\ IF cur.review = 0 THEN UNCHANGED ledger
                       ELSE SetReviewStatus(cur.review, "failed")
  /\ pc' = IF stop.phase = "holding" THEN "requeue" ELSE "scan"
  /\ cur' = IF stop.phase = "holding" THEN cur ELSE NoCur
  /\ UNCHANGED <<queue, desk, scan, left, stop, wrapper, callers, budget>>

TickEnd ==
  /\ pc = "scan" /\ scan = {}
  /\ pc' = "idle"
  /\ UNCHANGED <<ledger, queue, desk, scan, cur, left, stop, wrapper, callers, budget>>

-----------------------------------------------------------------------------
(* Owner actions *)

OwnerOp ==
  ownerOps > 0 /\ ownerOps' = ownerOps - 1 /\ UNCHANGED <<crashes, faults>>

\* stop_task reads the newest running run before it takes the lock ...
StopRead(t, keep) ==
  /\ stop.phase = "none"
  /\ OwnerOp
  /\ \E r \in RunsOf(t) \cap RunningRuns :
       /\ \A q \in RunsOf(t) \cap RunningRuns : q <= r
       /\ stop' = [phase |-> "waiting", task |-> t, run |-> r,
                   pid |-> runs[r].pid, review |-> runs[r].review,
                   keep |-> keep]
  /\ UNCHANGED <<ledger, tick, wrapper, callers>>

\* ... and kills what that row said once it holds it.
StopKill ==
  /\ stop.phase = "waiting" /\ pc = "idle"
  /\ wrapper' = IF Alive(stop.run, stop.pid)
                  THEN [wrapper EXCEPT ![stop.run].state = "none"]
                  ELSE wrapper
  /\ stop' = [stop EXCEPT !.phase = "holding"]
  /\ cur' = [task |-> stop.task, review |-> stop.review, run |-> stop.run]
  /\ pc' = "killed"
  /\ UNCHANGED <<ledger, queue, desk, scan, left, callers, budget>>

StopFinishRun ==
  /\ pc = "killed"
  /\ FinishRun(cur.run, "failed")
  /\ pc' = "stalled"
  /\ UNCHANGED <<queue, desk, scan, cur, left, stop, wrapper, callers, budget>>

\* retry_task refuses a gated task: it is then left 'stalled'.
StopRequeue ==
  /\ pc = "requeue"
  /\ CASE tasks[cur.task].status # "stalled" -> UNCHANGED ledger
       [] tasks[cur.task].status = "stalled" /\ ~ stop.keep -> MarkManual(cur.task)
       [] OTHER -> IF tasks[cur.task].gate THEN UNCHANGED ledger
                                           ELSE RetryTask(cur.task)
  /\ pc' = "idle" /\ cur' = NoCur /\ stop' = NoStop
  /\ UNCHANGED <<queue, desk, scan, left, wrapper, callers, budget>>

\* The single-transaction actions of the task page and the CLI.
OwnerEdit(t) ==
  /\ OwnerOp
  /\ \/ MarkReady(t) \/ RetryTask(t) \/ MarkManual(t)
     \/ EditGate(t) \/ OwnerFeedback(t) \/ CloseOrphanReview(t)
  /\ UNCHANGED <<tick, stop, wrapper, callers>>

OwnerClose(t) ==
  /\ OwnerOp
  /\ CloseByOwner(t)
  /\ landing' = landing \cup LandCall(t)
  /\ UNCHANGED <<tick, stop, wrapper, answer, promoting, resumed>>

OwnerWaive(t) ==
  /\ OwnerOp
  /\ WaiveReview(t)
  /\ promoting' = promoting \cup PromoteCall(t)
  /\ UNCHANGED <<tick, stop, wrapper, answer, landing, resumed>>

-----------------------------------------------------------------------------
(* run_answer on a blocked run: resume, relaunch, record the pid *)

Answer(r) ==
  /\ OwnerOp
  /\ r \in DOMAIN runs /\ answer[r] = "none"
  /\ ResumeBlockedRun(r)
  /\ answer' = [answer EXCEPT ![r] = "resumed"]
  /\ resumed' = resumed \cup {r}
  /\ UNCHANGED <<tick, stop, wrapper, landing, promoting>>

AnswerStep(r, from, to) ==
  /\ answer[r] = from
  /\ answer' = [answer EXCEPT ![r] = to]
  /\ UNCHANGED <<tick, stop, landing, promoting, resumed>>

\* The wrapper of the blocked attempt has exited long before an owner answers.
AnswerSpawn(r) ==
  /\ wrapper[r].state = "none"
  /\ AnswerStep(r, "resumed", "spawned")
  /\ wrapper' = Spawned(r)
  /\ UNCHANGED <<ledger, budget>>

AnswerRecordPid(r) ==
  /\ AnswerStep(r, "spawned", "none")
  /\ SetRunPid(r, wrapper[r].pid)
  /\ UNCHANGED <<wrapper, budget>>

\* The brief cannot be rendered or written.
AnswerSetupFails(r) ==
  /\ AnswerStep(r, "resumed", "none")
  /\ FailRun(r)
  /\ Fault
  /\ UNCHANGED wrapper

AnswerSpawnFails(r) ==
  /\ AnswerStep(r, "resumed", "unspawned")
  /\ FinishRun(r, "failed")
  /\ Fault
  /\ UNCHANGED wrapper

AnswerSpawnFailed(r) ==
  /\ AnswerStep(r, "unspawned", "none")
  /\ CompleteRun(runs[r].task, "failed")
  /\ UNCHANGED <<wrapper, budget>>

-----------------------------------------------------------------------------
(* The run wrapper and its agent: wm_run_agent.main *)

WrapperStep(r, from, to) ==
  /\ wrapper[r].state \in from
  /\ wrapper' = [wrapper EXCEPT ![r].state = to]
  /\ UNCHANGED <<tick, stop, answer, landing, resumed>>

Boot(r) ==
  /\ WrapperStep(r, {"boot"}, "agent")
  /\ UNCHANGED <<ledger, promoting, budget>>

BriefUnreadable(r) ==
  /\ WrapperStep(r, {"boot"}, "none")
  /\ FailRun(r)
  /\ Fault
  /\ UNCHANGED promoting

\* A question in the transcript, surfaced by the scan of the running runs (as
\* long as the bound leaves an owner action to answer it with).
Question(r) ==
  /\ ownerOps > 0
  /\ r \in DOMAIN runs /\ wrapper[r].state = "agent" /\ r \notin asked
  /\ NoteQuestion(r)
  /\ UNCHANGED <<tick, stop, wrapper, callers, budget>>

\* The agent of a work run ends; the wrapper applies the contract.
FinalizeWork(r, report) ==
  /\ WrapperStep(r, {"agent"}, "none")
  /\ runs[r].review = 0
  /\ report \in WorkReports(runs[r].task)
  /\ RecordCompletion(r, report)
  /\ UNCHANGED budget
  /\ promoting' = promoting \cup PromoteCall(runs[r].task)

\* A reviewer's agent ends: first the run row, then the review row.
FinalizeReview(r, report) ==
  /\ WrapperStep(r, {"agent"}, report)
  /\ runs[r].review # 0
  /\ FinishRun(r, report)
  /\ UNCHANGED <<promoting, budget>>

CloseReview(r) ==
  /\ WrapperStep(r, {"done", "blocked", "failed"}, "none")
  /\ CloseReviewRun(runs[r].review,
                    IF wrapper[r].state = "done" THEN "reviewed"
                    ELSE wrapper[r].state)
  /\ UNCHANGED <<promoting, budget>>

\* `wm review <task> --verdict ...`: the transaction; the caller lands after an
\* approval that was not gated.
ReviewVerdict(t) ==
  /\ \/ /\ ApproveReview(t)
        /\ landing' = landing \cup (IF tasks[t].gate THEN {} ELSE LandCall(t))
     \/ /\ RequestChanges(t)
        /\ UNCHANGED landing
  /\ UNCHANGED <<tick, stop, wrapper, answer, promoting, resumed>>

\* The reviewer calls it from inside its session, the owner from a shell.
Verdict(r) ==
  /\ r \in DOMAIN runs /\ wrapper[r].state = "agent" /\ runs[r].review # 0
  /\ ReviewVerdict(runs[r].task)
  /\ UNCHANGED budget

OwnerVerdict(t) == OwnerOp /\ ReviewVerdict(t)

\* _land_and_report, then promotion unless git refused the fast-forward.
Land(t) ==
  /\ t \in landing
  /\ landing' = landing \ {t}
  /\ \/ /\ promoting' = promoting \cup PromoteCall(t)
        /\ UNCHANGED ledger
     \/ /\ RefuseLanding(t)
        /\ UNCHANGED promoting
  /\ UNCHANGED <<tick, stop, wrapper, answer, resumed, budget>>

Promote(t) ==
  /\ t \in promoting
  /\ promoting' = promoting \ {t}
  /\ PromoteDependents(t)
  /\ UNCHANGED <<tick, stop, wrapper, answer, landing, resumed, budget>>

-----------------------------------------------------------------------------
(* Crashes *)

Crash ==
  crashes > 0 /\ crashes' = crashes - 1 /\ UNCHANGED <<ownerOps, faults>>

\* The service dies with its tick, its stop and its answers in progress; its
\* orphans are reaped.
ServiceCrash ==
  /\ Crash
  /\ pc # "idle" \/ stop # NoStop \/ \E r \in RunIds : answer[r] # "none"
  /\ pc' = "idle" /\ queue' = {} /\ desk' = {} /\ scan' = {}
  /\ cur' = NoCur /\ left' = 0 /\ stop' = NoStop
  /\ answer' = [r \in RunIds |-> "none"]
  /\ wrapper' = [r \in RunIds |->
       IF Working(r) THEN wrapper[r] ELSE [wrapper[r] EXCEPT !.state = "none"]]
  /\ UNCHANGED <<ledger, landing, promoting, resumed>>

\* An uncaught exception (a brief or a worktree that cannot be made) ends the
\* tick, and the loop starts the next one.
TickAborts ==
  /\ Crash
  /\ pc # "idle" /\ stop.phase # "holding"
  /\ pc' = "idle" /\ queue' = {} /\ desk' = {} /\ scan' = {}
  /\ cur' = NoCur /\ left' = 0
  /\ UNCHANGED <<ledger, stop, wrapper, callers>>

CallerCrash(t) ==
  /\ Crash
  /\ t \in landing \cup promoting
  /\ \/ landing' = landing \ {t} /\ landing' # landing /\ UNCHANGED promoting
     \/ promoting' = promoting \ {t} /\ promoting' # promoting /\ UNCHANGED landing
  /\ UNCHANGED <<ledger, tick, stop, wrapper, answer, resumed>>

\* A dead wrapper is a zombie of the service that launched it.
WrapperCrash(r) ==
  /\ Crash
  /\ Working(r)
  /\ \E dead \in {"none", "zombie"} : wrapper' = [wrapper EXCEPT ![r].state = dead]
  /\ UNCHANGED <<ledger, tick, stop, callers>>

\* subprocess reaps it when the service next starts any process.
Reap(r) ==
  /\ wrapper[r].state = "zombie"
  /\ wrapper' = [wrapper EXCEPT ![r].state = "none"]
  /\ UNCHANGED <<ledger, tick, stop, callers, budget>>

-----------------------------------------------------------------------------

Tick ==
  \/ TickPromote \/ TickSelect
  \/ \E t \in Tasks : WorkClaim(t)
  \/ WorkBadPath \/ WorkStartRun \/ Spawn \/ SpawnFails \/ SpawnFailed
  \/ RecordPid \/ ListReviews
  \/ \E v \in desk : ReviewClaim(v)
  \/ ReviewBadPath \/ ReviewStartRun \/ ReviewLink \/ ListRuns
  \/ \E x \in scan : ScanAlive(x) \/ ScanStalled(x)
  \/ MarkTaskStalled \/ FailStalledReview \/ TickEnd

Stop == StopKill \/ StopFinishRun \/ StopRequeue

Resuming(r) ==
  \/ AnswerSpawn(r) \/ AnswerRecordPid(r) \/ AnswerSetupFails(r)
  \/ AnswerSpawnFails(r) \/ AnswerSpawnFailed(r)

\* What a wrapper process does until it is gone.
Wrapper(r) ==
  \/ Boot(r) \/ BriefUnreadable(r) \/ CloseReview(r) \/ Reap(r)
  \/ \E report \in {"done", "manual", "blocked", "failed", "dirty"} :
       FinalizeWork(r, report)
  \/ \E report \in {"done", "blocked", "failed"} : FinalizeReview(r, report)

Agent(r) == Question(r) \/ Verdict(r)

Caller(t) == Land(t) \/ Promote(t)

Owner ==
  \/ \E t \in Tasks :
       \/ \E keep \in BOOLEAN : StopRead(t, keep)
       \/ OwnerEdit(t) \/ OwnerClose(t) \/ OwnerWaive(t)
       \/ OwnerVerdict(t)
  \/ \E r \in RunIds : Answer(r)

Crashing ==
  \/ ServiceCrash \/ TickAborts
  \/ \E t \in Tasks : CallerCrash(t)
  \/ \E r \in RunIds : WrapperCrash(r)

Next ==
  \/ Tick \/ Stop \/ Owner \/ Crashing
  \/ \E r \in RunIds : Resuming(r) \/ Wrapper(r) \/ Agent(r)
  \/ \E t \in Tasks : Caller(t)

Spec == Init /\ [][Next]_vars

\* The service loop ticks, an accepted stop or answer is carried out, a
\* wrapper ends (the agent is killed after 6 h) and is reaped (the service
\* starts processes all the time), a verdict caller finishes.
Fairness ==
  /\ WF_vars(Tick) /\ WF_vars(Stop)
  /\ \A r \in RunIds : WF_vars(Resuming(r)) /\ WF_vars(Wrapper(r))
  /\ \A t \in Tasks : WF_vars(Caller(t))

FairSpec == Spec /\ Fairness

-----------------------------------------------------------------------------
(* Properties *)

\* Every row of the store and every process state has its type.
TypeOK ==
  /\ tasks \in [Tasks -> TaskRow]
  /\ runs \in Seq(RunRow) /\ Len(runs) <= MaxRuns
  /\ reviews \in Seq(ReviewRow) /\ Len(reviews) <= MaxReviews
  /\ asked \subseteq DOMAIN runs
  /\ pc \in {"idle", "select", "work", "claimed", "launch", "spawned",
             "unspawned", "review", "assigned", "link", "scan", "stalled",
             "unreview", "killed", "requeue"}
  /\ queue \subseteq Tasks
  /\ desk \subseteq DOMAIN reviews
  /\ scan \subseteq [run : DOMAIN runs, pid : Nat]
  /\ cur \in [task : Tasks \cup {None}, review : {0} \cup DOMAIN reviews,
              run : {0} \cup DOMAIN runs]
  /\ left \in Nat
  /\ stop \in [phase : {"none", "waiting", "holding"}, task : Tasks \cup {None},
               run : {0} \cup DOMAIN runs, pid : Nat,
               review : {0} \cup DOMAIN reviews, keep : BOOLEAN]
  /\ wrapper \in [RunIds -> [state : {"none", "boot", "agent", "done",
                                      "blocked", "failed", "zombie"},
                             pid : Nat]]
  /\ answer \in [RunIds -> {"none", "resumed", "spawned", "unspawned"}]
  /\ landing \subseteq Tasks /\ promoting \subseteq Tasks
  /\ resumed \subseteq DOMAIN runs
  /\ ownerOps \in 0..MaxOwnerOps
  /\ crashes \in 0..MaxCrashes /\ faults \in 0..MaxFaults

\* No review is ever executed by two runs, whatever ticks, stops and crashes
\* overlap ("two overlapping dispatcher ticks can therefore NEVER spawn two
\* Reviewer runs for the same review", claim_review).
ReviewRunUnique ==
  \A r, q \in DOMAIN runs :
    runs[r].review # 0 /\ runs[r].review = runs[q].review => r = q

\* A run's final status is final: late completions, liveness verdicts, stops
\* and failed launches never change it.  The one exception reopens a blocked
\* run, and only while no newer run of its task exists.
RunFinality == [][FinalStep]_vars

\* A task with a required review becomes done only by a verdict that decides
\* an open review of it, or by its owner.
RequiredReviewGate ==
  [][\A t \in Required :
       tasks[t].status # "done" /\ tasks'[t].status = "done" =>
         \/ ownerOps' < ownerOps
         \/ \E v \in OpenReviews(t) : reviews'[v].status = "done"]_vars

\* A gated task becomes done only by an action of its owner.
OwnerGate ==
  [][\A t \in Tasks :
       /\ tasks[t].gate
       /\ tasks[t].status # "done" /\ tasks'[t].status = "done"
       => ownerOps' < ownerOps]_vars

\* Left alone, a task costs at most MAX_REWORK_CYCLES work runs.  Every owner
\* action buys at most one more, and a crash between start_run and
\* set_run_review leaves at most one review run that passes for a work run.
RunBudget ==
  \A t \in Tasks :
    Cardinality({r \in WorkRuns(t) : pc = "link" => r # cur.run})
      <= MaxRework + (MaxOwnerOps - ownerOps) + (MaxCrashes - crashes)

\* The task was sent to review at most once.
ReviewedOnce(t) ==
  \A v, w \in DOMAIN reviews :
    reviews[v].task = t /\ reviews[w].task = t => v = w

\* Until the owner steps in, no two live wrappers work on one task: neither a
\* crash that loses a pid nor a liveness verdict on a live wrapper starts a
\* second attempt ("NEVER silent auto-retry").  From its second review on, a
\* task is not safe: a reviewer still alive from the first may decide the
\* second, and the liveness scan may have reopened it (EngineClaims), which
\* sends the task back to the queue under a running rework.
SingleWorker ==
  ownerOps = MaxOwnerOps =>
    \A t \in Tasks : ReviewedOnce(t) =>
      Cardinality({r \in WorkRuns(t) : Working(r)}) <= 1

\* The running runs a tick launched never exceed the concurrency cap; only
\* answered runs come on top.
CapRespected == Cardinality(RunningRuns \ resumed) <= Cap

\* A running task has a running work run or is in the hands of the lock holder
\* or of an answer: it cannot be forgotten, although every path to and from
\* 'running' takes several transactions.  Two things break it: a crash between
\* two transactions, and an answer to a REVIEW run of a blocked task, which
\* sets the task to 'running' with no work run behind it.
InHand(t) ==
  \/ cur.task = t /\ pc \in {"claimed", "unspawned", "stalled"}
  \/ \E r \in RunsOf(t) : answer[r] = "unspawned"

RunningTaskWatched ==
  crashes = MaxCrashes /\ (\A r \in resumed : runs[r].review = 0) =>
    \A t \in Tasks : tasks[t].status = "running" =>
      InHand(t) \/ \E r \in WorkRuns(t) : runs[r].status = "running"

\* A run whose wrapper died is noticed: it does not stay running.
DeadRunNoticed ==
  \A r \in RunIds :
    (r \in RunningRuns /\ ~ Working(r)) ~> (r \notin RunningRuns \/ Working(r))

\* Without the owner the engine comes to rest: no task bounces between work
\* and review for ever.
AtRest ==
  /\ RunningRuns = {} /\ PendingReviews = {}
  /\ \A t \in Tasks : ~ Claimable(t)
Settles == <>[]AtRest

\* Until the owner first steps in, a task whose branch needs no landing, and
\* that was reviewed at most once, is done before any task that depends on it
\* leaves 'waiting_approval', and stays so.
DependencyOrder ==
  ownerOps = MaxOwnerOps =>
    \A d \in Deps :
      /\ d[2] \notin Code /\ ReviewedOnce(d[2])
      /\ tasks[d[1]].status \notin {"planned", "waiting_approval"}
      => tasks[d[2]].status = "done"

\* A promotion lost with its caller is made up for: an eligible task does not
\* wait for ever.
PromotionHeals == \A t \in Tasks : Promotable(t) ~> ~ Promotable(t)

\* The strengthening the proofs need: what each process holds in hand exists,
\* and a review in hand or executed by a run has left 'pending'.
Wired ==
  /\ \A r \in DOMAIN runs : runs[r].review \in {0} \cup DOMAIN reviews
  /\ pc \in {"claimed", "launch", "spawned", "unspawned", "assigned", "link",
             "stalled", "unreview", "killed", "requeue"} => cur.task \in Tasks
  /\ pc \in {"launch", "spawned", "unspawned", "link", "stalled", "unreview",
             "killed", "requeue"} => cur.run \in DOMAIN runs
  /\ pc \in {"assigned", "link"} => cur.review \in DOMAIN reviews
  /\ pc = "claimed" => cur.review = 0
  /\ (pc \in {"assigned", "link", "launch", "spawned"} /\ cur.review # 0)
       => left > 0
  /\ stop.phase # "none" => stop.task \in Tasks /\ stop.run \in DOMAIN runs
  /\ \A r \in RunIds :
       /\ wrapper[r].state # "none" \/ answer[r] # "none" => r \in DOMAIN runs
       /\ wrapper[r].state \in {"done", "blocked", "failed"} =>
            runs[r].review # 0

Unclaimed(v) ==
  reviews[v].status = "pending" => \A r \in DOMAIN runs : runs[r].review # v

ReviewClaims ==
  /\ ReviewRunUnique
  /\ \A v \in DOMAIN reviews : Unclaimed(v)
  /\ pc \in {"assigned", "link"} =>
       /\ reviews[cur.review].status # "pending"
       /\ \A r \in DOMAIN runs : runs[r].review # cur.review
=============================================================================
