--------------------------- MODULE DispatchProofs ---------------------------
(***************************************************************************)
(* More theorems about Engine, from the invariant of EngineProofs: the two *)
(* gates on 'done', no forgotten running task, the budget of work runs,    *)
(* the concurrency cap and, until the owner steps in, one worker at a time *)
(* and parents first.  Each rests on a strengthening stated here.          *)
(***************************************************************************)
EXTENDS EngineProofs

-----------------------------------------------------------------------------
(* What the transactions do to the rows *)

\* The run ends: no other status changes, no run moves to another task.
RunEnds(r) ==
  /\ DOMAIN runs' = DOMAIN runs
  /\ \A q \in DOMAIN runs :
       /\ runs'[q].task = runs[q].task /\ runs'[q].review = runs[q].review
       /\ q # r => runs'[q].status = runs[q].status
  /\ runs'[r].status # "running"

\* A new running run of the task, linked to no review.
RunStarts(t) ==
  LET new == Len(runs) + 1
  IN  /\ new \notin DOMAIN runs /\ DOMAIN runs' = DOMAIN runs \cup {new}
      /\ runs'[new].task = t /\ runs'[new].status = "running"
      /\ runs'[new].review = 0
      /\ \A q \in DOMAIN runs : runs'[q] = runs[q]

\* Rows keep all but their pids and, for one of them, its review.
RunsStay(r, v) ==
  /\ DOMAIN runs' = DOMAIN runs
  /\ \A q \in DOMAIN runs :
       /\ runs'[q].task = runs[q].task /\ runs'[q].status = runs[q].status
       /\ runs'[q].review = IF q = r THEN v ELSE runs[q].review

\* One task takes a status; nothing else of the tasks changes but the count of
\* its reworks.
TaskTakes(t, s) ==
  /\ \A u \in Tasks : u # t => tasks'[u] = tasks[u]
  /\ tasks'[t].status = s /\ tasks'[t].gate = tasks[t].gate
  /\ tasks'[t].reworks = tasks[t].reworks + IF s = "rework" THEN 1 ELSE 0

\* The reviews of V take a status.
ReviewsTake(V, s) ==
  /\ DOMAIN reviews' = DOMAIN reviews
  /\ \A v \in DOMAIN reviews :
       /\ reviews'[v].task = reviews[v].task
       /\ reviews'[v].status = IF v \in V THEN s ELSE reviews[v].status

\* A row of runs changed in one field or replaced by an ended one.
LEMMA FinishedEnds ==
  ASSUME LedgerOK, NEW r \in DOMAIN runs, NEW s \in RunStatus, s # "running",
         runs' = Finished(r, s)
  PROVE  RunEnds(r)
<1>1. runs \in Seq(RunRow) /\ DOMAIN runs = 1..Len(runs) /\ runs[r] \in RunRow
  BY DEF LedgerOK
<1>2. CASE runs[r].status = "running"
  <2>. DEFINE row == [runs[r] EXCEPT !.status = s]
  <2>1. /\ row \in RunRow /\ row.task = runs[r].task
        /\ row.review = runs[r].review /\ row.status = s
    BY <1>1, Zenon DEF RunRow
  <2>2. runs' = [runs EXCEPT ![r] = row]
    BY <1>2 DEF Finished
  <2>. HIDE DEF row
  <2>. QED
    BY <2>1, <2>2, RunUpdate DEF RunEnds
<1>3. CASE runs[r].status # "running"
  BY <1>3 DEF Finished, RunEnds
<1>. QED
  BY <1>2, <1>3

\* start_run.
LEMMA StartRunStarts ==
  ASSUME LedgerOK, NEW t \in Tasks, StartRun(t)
  PROVE  RunStarts(t)
<1>. DEFINE row == [task |-> t, status |-> "running", review |-> 0, pid |-> 0]
<1>1. /\ row \in RunRow /\ row.task = t /\ row.status = "running" /\ row.review = 0
  BY DEF RunRow, RunStatus
<1>2. runs' = Append(runs, row)
  BY DEF StartRun
<1>3. runs \in Seq(RunRow) /\ DOMAIN runs = 1..Len(runs) /\ Len(runs) \in Nat
  BY DEF LedgerOK
<1>. HIDE DEF row
<1>4. /\ Len(runs') = Len(runs) + 1 /\ runs' \in Seq(RunRow)
      /\ runs'[Len(runs) + 1] = row
      /\ \A q \in 1..Len(runs) : runs'[q] = runs[q]
  BY <1>1, <1>2, <1>3, AppendProperties
<1>5. DOMAIN runs' = 1..(Len(runs) + 1)
  BY <1>4
<1>. QED
  BY <1>1, <1>3, <1>4, <1>5 DEF RunStarts

\* set_run_pid.
LEMMA SetRunPidStays ==
  ASSUME LedgerOK, NEW r \in DOMAIN runs, NEW p \in Nat, SetRunPid(r, p)
  PROVE  RunsStay(r, runs[r].review)
<1>1. runs[r] \in RunRow
  BY DEF LedgerOK
<1>. DEFINE row == [runs[r] EXCEPT !.pid = p]
<1>2. /\ row \in RunRow /\ row.task = runs[r].task
      /\ row.review = runs[r].review /\ row.status = runs[r].status
  BY <1>1, RunFields
<1>3. runs' = [runs EXCEPT ![r] = row]
  BY DEF SetRunPid
<1>. HIDE DEF row
<1>. QED
  BY <1>2, <1>3, RunUpdate DEF RunsStay

\* set_run_review.
LEMMA SetRunReviewStays ==
  ASSUME LedgerOK, NEW r \in DOMAIN runs, NEW v \in Nat, SetRunReview(r, v)
  PROVE  RunsStay(r, v)
<1>1. runs[r] \in RunRow
  BY DEF LedgerOK
<1>. DEFINE row == [runs[r] EXCEPT !.review = v]
<1>2. /\ row \in RunRow /\ row.task = runs[r].task
      /\ row.review = v /\ row.status = runs[r].status
  BY <1>1, RunFields
<1>3. runs' = [runs EXCEPT ![r] = row]
  BY DEF SetRunReview
<1>. HIDE DEF row
<1>. QED
  BY <1>2, <1>3, RunUpdate DEF RunsStay

\* A moved task.
LEMMA WithTaskTakes ==
  ASSUME LedgerOK, NEW t \in Tasks, NEW s, tasks' = WithTask(t, s)
  PROVE  TaskTakes(t, s)
BY DEF LedgerOK, WithTask, Moved, TaskTakes

\* Decided reviews.
LEMMA DecidedTake ==
  ASSUME LedgerOK, NEW V, NEW s, reviews' = Decided(V, s)
  PROVE  ReviewsTake(V, s)
<1>1. \A v \in DOMAIN reviews : reviews[v] \in ReviewRow
  BY DEF LedgerOK
<1>2. \A v \in DOMAIN reviews :
        /\ [reviews[v] EXCEPT !.status = s].task = reviews[v].task
        /\ [reviews[v] EXCEPT !.status = s].status = s
  BY <1>1 DEF ReviewRow
<1>. QED
  BY <1>2, Zenon DEF Decided, ReviewsTake

-----------------------------------------------------------------------------
(* What a step does to the runs and the reviews as a whole *)

\* No run is started, reopened or linked.
Quiet ==
  /\ DOMAIN runs' = DOMAIN runs
  /\ \A q \in DOMAIN runs :
       /\ runs'[q].task = runs[q].task /\ runs'[q].review = runs[q].review
       /\ runs'[q].status = "running" => runs[q].status = "running"

\* No review disappears or moves to another task.
HomesKept ==
  \A v \in DOMAIN reviews :
    v \in DOMAIN reviews' /\ reviews'[v].task = reviews[v].task

\* Runs that stay as they are, get a pid or end.
LEMMA QuietRuns ==
  ASSUME LedgerOK, NEW r \in DOMAIN runs,
         \/ UNCHANGED runs \/ FailRun(r)
         \/ \E p \in Nat : SetRunPid(r, p)
         \/ \E s \in {"done", "failed", "blocked"} : FinishRun(r, s)
         \/ \E report \in {"done", "manual", "blocked", "failed", "dirty"} :
              RecordCompletion(r, report)
  PROVE  Quiet
<1>1. CASE UNCHANGED runs
  BY <1>1 DEF Quiet
<1>2. CASE RunEnds(r)
  BY <1>2 DEF RunEnds, Quiet
<1>3. CASE \E p \in Nat : SetRunPid(r, p)
  BY <1>3, SetRunPidStays DEF RunsStay, Quiet
<1>4. CASE \E s \in RunStatus \ {"running"} : runs' = Finished(r, s)
  BY <1>2, <1>4, FinishedEnds
<1>5. {"done", "failed", "blocked"} \subseteq RunStatus \ {"running"}
  BY DEF RunStatus
<1>6. ASSUME NEW report \in {"done", "manual", "blocked", "failed", "dirty"}
      PROVE  RunAfter(report) \in {"done", "failed", "blocked"}
  BY DEF RunAfter
<1>7. CASE FailRun(r)
  BY <1>4, <1>5, <1>7 DEF FailRun
<1>8. CASE \E s \in {"done", "failed", "blocked"} : FinishRun(r, s)
  BY <1>4, <1>5, <1>8 DEF FinishRun
<1>9. ASSUME NEW report \in {"done", "manual", "blocked", "failed", "dirty"},
             RecordCompletion(r, report)
      PROVE  Quiet
  <2>1. runs' = Finished(r, RunAfter(report))
    BY <1>9 DEF RecordCompletion
  <2>. QED
    BY <1>4, <1>5, <1>6, <2>1
<1>. QED
  BY <1>1, <1>3, <1>7, <1>8, <1>9

\* The steps of the lock holder, but for the start and the link of a run.
LEMMA TickQuiet ==
  ASSUME IInv, Tick, ~ WorkStartRun, ~ ReviewStartRun, ~ ReviewLink
  PROVE  Quiet
<1>0. LedgerOK /\ DeskOK /\ WrapperOK
  BY DEF IInv, Parts
<1>1. CASE UNCHANGED runs
  BY <1>1 DEF Quiet
<1>2. CASE SpawnFails
  BY <1>0, <1>2, QuietRuns DEF SpawnFails, DeskOK
<1>3. CASE RecordPid
  <2>1. cur.run \in DOMAIN runs /\ wrapper[cur.run].pid \in Nat
    BY <1>0, <1>3, RunInBounds DEF RecordPid, DeskOK, WrapperOK
  <2>. QED
    BY <1>0, <1>3, <2>1, QuietRuns DEF RecordPid
<1>4. ASSUME NEW x \in scan, ScanStalled(x)
      PROVE  Quiet
  BY <1>0, <1>4, QuietRuns DEF ScanStalled, DeskOK
<1>5. ASSUME NEW t \in Tasks, WorkClaim(t)
      PROVE  UNCHANGED runs
  BY <1>5 DEF WorkClaim, ClaimTask, ledger
<1>6. ASSUME NEW v \in desk, ReviewClaim(v)
      PROVE  UNCHANGED runs
  BY <1>6 DEF ReviewClaim, ClaimReview, ledger
<1>7. ASSUME NEW x \in scan, ScanAlive(x)
      PROVE  UNCHANGED runs
  BY <1>7 DEF ScanAlive, ledger
<1>8. CASE TickPromote \/ TickSelect \/ WorkBadPath \/ Spawn \/ SpawnFailed \/ ListReviews
  BY <1>1, <1>8
  DEF TickPromote, PromoteWaiting, TickSelect, WorkBadPath, CompleteRun, Spawn,
      SpawnFailed, SetReviewStatus, ListReviews, ledger
<1>9. CASE ReviewBadPath \/ ListRuns \/ MarkTaskStalled \/ FailStalledReview \/ TickEnd
  BY <1>1, <1>9
  DEF ReviewBadPath, SetReviewStatus, ListRuns, MarkTaskStalled, StallTask,
      FailStalledReview, TickEnd, ledger
<1>. QED
  BY <1>1, <1>2, <1>3, <1>4, <1>5, <1>6, <1>7, <1>8, <1>9 DEF Tick

\* The stop, the crashes and the callers.
LEMMA OthersQuiet ==
  ASSUME IInv, Stop \/ Crashing \/ (\E t \in Tasks : Caller(t))
  PROVE  Quiet
<1>0. LedgerOK /\ DeskOK
  BY DEF IInv, Parts
<1>1. CASE UNCHANGED runs
  BY <1>1 DEF Quiet
<1>2. CASE StopFinishRun
  BY <1>0, <1>2, QuietRuns DEF StopFinishRun, DeskOK
<1>3. CASE StopKill
  BY <1>1, <1>3 DEF StopKill, ledger
<1>4. CASE StopRequeue
  BY <1>1, <1>4 DEF StopRequeue, ledger, MarkManual, RetryTask
<1>5. CASE Crashing
  BY <1>1, <1>5
  DEF Crashing, ServiceCrash, TickAborts, CallerCrash, WrapperCrash, ledger
<1>6. CASE \E t \in Tasks : Caller(t)
  BY <1>1, <1>6 DEF Caller, Land, Promote, RefuseLanding, PromoteDependents, ledger
<1>. QED
  BY <1>2, <1>3, <1>4, <1>5, <1>6 DEF Stop

\* The owner, but for the answer that reopens a run.
LEMMA OwnerQuiet ==
  ASSUME Owner, ~ \E r \in RunIds : Answer(r)
  PROVE  UNCHANGED runs
<1>1. ASSUME NEW t \in Tasks,
             (\E keep \in BOOLEAN : StopRead(t, keep)) \/ OwnerEdit(t)
      PROVE  UNCHANGED runs
  BY <1>1
  DEF StopRead, OwnerEdit, MarkReady, RetryTask, MarkManual, EditGate,
      OwnerFeedback, CloseOrphanReview, ledger
<1>2. ASSUME NEW t \in Tasks, OwnerClose(t) \/ OwnerWaive(t) \/ OwnerVerdict(t)
      PROVE  UNCHANGED runs
  BY <1>2
  DEF OwnerClose, CloseByOwner, OwnerWaive, WaiveReview, OwnerVerdict,
      ReviewVerdict, ApproveReview, RequestChanges
<1>. QED
  BY <1>1, <1>2 DEF Owner

\* The wrappers, their agents and the answers in progress.
LEMMA WrappersQuiet ==
  ASSUME IInv, NEW r \in RunIds, Resuming(r) \/ Wrapper(r) \/ Agent(r)
  PROVE  Quiet
<1>0. LedgerOK /\ WrapperOK /\ AnswerOK
  BY DEF IInv, Parts
<1>1. CASE UNCHANGED runs
  BY <1>1 DEF Quiet
<1>2. CASE Resuming(r)
  <2>1. r \in DOMAIN runs /\ wrapper[r].pid \in Nat
    BY <1>0, <1>2
    DEF Resuming, AnswerSpawn, AnswerRecordPid, AnswerSetupFails,
        AnswerSpawnFails, AnswerSpawnFailed, AnswerStep, AnswerOK, WrapperOK
  <2>. QED
    BY <1>0, <1>1, <1>2, <2>1, QuietRuns
    DEF Resuming, AnswerSpawn, AnswerRecordPid, AnswerSetupFails,
        AnswerSpawnFails, AnswerSpawnFailed, CompleteRun, ledger
<1>3. CASE Wrapper(r)
  <2>1. r \in DOMAIN runs
    <3>1. wrapper[r].state # "none"
      BY <1>3 DEF Wrapper, Boot, BriefUnreadable, CloseReview, Reap,
                  FinalizeWork, FinalizeReview, WrapperStep
    <3>. QED
      BY <1>0, <3>1 DEF WrapperOK
  <2>. QED
    BY <1>0, <1>1, <1>3, <2>1, QuietRuns
    DEF Wrapper, Boot, BriefUnreadable, CloseReview, Reap, FinalizeWork,
        FinalizeReview, CloseReviewRun, ledger
<1>4. CASE Agent(r)
  BY <1>1, <1>4
  DEF Agent, Question, NoteQuestion, Verdict, ReviewVerdict, ApproveReview,
      RequestChanges
<1>. QED
  BY <1>2, <1>3, <1>4

\* Reviews that stay, are decided, or get a new row.
LEMMA HomesStay ==
  ASSUME LedgerOK,
         \/ UNCHANGED reviews
         \/ \E V, s : reviews' = Decided(V, s)
         \/ \E t \in Tasks : CreateReview(t)
  PROVE  HomesKept
<1>1. CASE UNCHANGED reviews
  BY <1>1 DEF HomesKept
<1>2. ASSUME NEW V, NEW s, reviews' = Decided(V, s)
      PROVE  HomesKept
  BY <1>2, DecidedTake DEF ReviewsTake, HomesKept
<1>3. ASSUME NEW t \in Tasks, CreateReview(t)
      PROVE  HomesKept
  <2>. DEFINE row == [task |-> t, status |-> "pending"]
  <2>1. row \in ReviewRow
    BY DEF ReviewRow, ReviewStatus, Open
  <2>2. reviews' = Append(reviews, row)
    BY <1>3 DEF CreateReview
  <2>7. /\ reviews \in Seq(ReviewRow) /\ DOMAIN reviews = 1..Len(reviews)
        /\ Len(reviews) \in Nat
    BY DEF LedgerOK
  <2>. HIDE DEF row
  <2>3. /\ Len(reviews') = Len(reviews) + 1 /\ reviews' \in Seq(ReviewRow)
        /\ \A v \in 1..Len(reviews) : reviews'[v] = reviews[v]
    <3>1. PICK old : old = reviews
      OBVIOUS
    <3>2. /\ Append(old, row) \in Seq(ReviewRow) /\ Len(Append(old, row)) = Len(old) + 1
          /\ \A v \in 1..Len(old) : Append(old, row)[v] = old[v]
      BY ONLY <2>1, <2>7, <3>1, AppendProperties
    <3>. QED
      BY ONLY <2>2, <3>1, <3>2
  <2>4. DOMAIN reviews' = 1..(Len(reviews) + 1)
    BY <2>3
  <2>. QED
    BY <2>3, <2>4, <2>7 DEF HomesKept
<1>. QED
  BY <1>1, <1>2, <1>3

\* The lock holder writes reviews by claiming and by setting their status.
LEMMA LockHomes ==
  ASSUME LedgerOK, Tick \/ Stop \/ Crashing \/ (\E t \in Tasks : Caller(t))
  PROVE  HomesKept
<1>1. ASSUME NEW t \in Tasks, WorkClaim(t)
      PROVE  UNCHANGED reviews
  BY <1>1 DEF WorkClaim, ClaimTask, ledger
<1>2. ASSUME NEW v \in desk, ReviewClaim(v)
      PROVE  HomesKept
  BY <1>2, HomesStay DEF ReviewClaim, ClaimReview, ledger
<1>3. ASSUME NEW x \in scan, ScanAlive(x) \/ ScanStalled(x)
      PROVE  UNCHANGED reviews
  BY <1>3 DEF ScanAlive, ScanStalled, FinishRun, ledger
<1>4. CASE \/ TickPromote \/ TickSelect \/ WorkBadPath \/ WorkStartRun \/ Spawn
           \/ SpawnFails \/ RecordPid \/ ListReviews
  BY <1>4, HomesStay
  DEF TickPromote, PromoteWaiting, TickSelect, WorkBadPath, CompleteRun,
      WorkStartRun, StartRun, Spawn, SpawnFails, FinishRun, RecordPid, SetRunPid,
      ListReviews, ledger
<1>5. CASE \/ ReviewStartRun \/ ReviewLink \/ ListRuns \/ MarkTaskStalled \/ TickEnd
  BY <1>5, HomesStay
  DEF ReviewStartRun, StartRun, ReviewLink, SetRunReview, ListRuns,
      MarkTaskStalled, StallTask, TickEnd, ledger
<1>6. CASE SpawnFailed \/ ReviewBadPath \/ FailStalledReview
  BY <1>6, HomesStay
  DEF SpawnFailed, CompleteRun, ReviewBadPath, FailStalledReview,
      SetReviewStatus, ledger
<1>7. CASE Stop
  BY <1>7, HomesStay
  DEF Stop, StopKill, StopFinishRun, FinishRun, StopRequeue, MarkManual,
      RetryTask, ledger
<1>8. CASE Crashing
  BY <1>8, HomesStay
  DEF Crashing, ServiceCrash, TickAborts, CallerCrash, WrapperCrash, ledger
<1>9. CASE \E t \in Tasks : Caller(t)
  BY <1>9, HomesStay
  DEF Caller, Land, Promote, RefuseLanding, PromoteDependents, ledger
<1>. QED
  BY <1>1, <1>2, <1>3, <1>4, <1>5, <1>6, <1>7, <1>8, <1>9, HomesStay DEF Tick

\* The owner, the answers and the wrappers decide reviews or ask for new ones.
LEMMA OtherHomes ==
  ASSUME IInv,
         Owner \/ \E r \in RunIds : Resuming(r) \/ Wrapper(r) \/ Agent(r)
  PROVE  HomesKept
<1>0. LedgerOK /\ WrapperOK
  BY DEF IInv, Parts
<1>1. ASSUME NEW t \in Tasks,
             (\E keep \in BOOLEAN : StopRead(t, keep)) \/ OwnerEdit(t)
      PROVE  HomesKept
  BY <1>0, <1>1, HomesStay
  DEF StopRead, OwnerEdit, MarkReady, RetryTask, MarkManual, EditGate,
      OwnerFeedback, CloseOrphanReview, ledger
<1>2. ASSUME NEW t, ReviewVerdict(t)
      PROVE  HomesKept
  BY <1>0, <1>2, HomesStay DEF ReviewVerdict, ApproveReview, RequestChanges
<1>3. ASSUME NEW t \in Tasks, OwnerClose(t) \/ OwnerWaive(t) \/ OwnerVerdict(t)
      PROVE  HomesKept
  BY <1>0, <1>2, <1>3, HomesStay
  DEF OwnerClose, CloseByOwner, OwnerWaive, WaiveReview, OwnerVerdict
<1>4. ASSUME NEW r \in RunIds, Answer(r) \/ Agent(r)
      PROVE  HomesKept
  BY <1>0, <1>2, <1>4, HomesStay
  DEF Answer, ResumeBlockedRun, Agent, Question, NoteQuestion, Verdict
<1>5. ASSUME NEW r \in RunIds, Resuming(r)
      PROVE  HomesKept
  BY <1>0, <1>5, HomesStay
  DEF Resuming, AnswerSpawn, AnswerRecordPid, AnswerSetupFails,
      AnswerSpawnFails, AnswerSpawnFailed, FailRun, FinishRun, SetRunPid,
      CompleteRun, ledger
<1>6. ASSUME NEW r \in RunIds, Wrapper(r)
      PROVE  HomesKept
  <2>1. ASSUME NEW report, FinalizeWork(r, report)
        PROVE  HomesKept
    <3>1. r \in DOMAIN runs
      BY <1>0, <2>1 DEF FinalizeWork, WrapperStep, WrapperOK
    <3>2. runs[r].task \in Tasks
      BY <1>0, <3>1, RowType
    <3>3. UNCHANGED reviews \/ CreateReview(runs[r].task)
      BY <2>1 DEF FinalizeWork, RecordCompletion
    <3>. QED
      BY <1>0, <3>2, <3>3, HomesStay
  <2>2. CASE Boot(r) \/ BriefUnreadable(r) \/ CloseReview(r) \/ Reap(r)
    BY <1>0, <2>2, HomesStay
    DEF Boot, BriefUnreadable, FailRun, CloseReview, CloseReviewRun, Reap, ledger
  <2>3. ASSUME NEW report, FinalizeReview(r, report)
        PROVE  HomesKept
    BY <1>0, <2>3, HomesStay DEF FinalizeReview, FinishRun
  <2>. QED
    BY <1>6, <2>1, <2>2, <2>3 DEF Wrapper
<1>. QED
  BY <1>1, <1>3, <1>4, <1>5, <1>6 DEF Owner

\* What each step leaves of the reviews' tasks and of the runs.
LEMMA StepHomes ==
  ASSUME IInv, Next
  PROVE  HomesKept
<1>1. LedgerOK
  BY DEF IInv, Parts
<1>. QED
  BY <1>1, LockHomes, OtherHomes DEF Next

\* The steps that start, link or reopen a run; every other step is quiet.
Starting == WorkStartRun \/ ReviewStartRun
Reopening == \E r \in RunIds : Answer(r)

LEMMA StepQuiet ==
  ASSUME IInv, Next, ~ Starting, ~ ReviewLink, ~ Reopening
  PROVE  Quiet
<1>1. CASE Owner
  BY <1>1, OwnerQuiet DEF Quiet, Reopening
<1>. QED
  BY <1>1, TickQuiet, OthersQuiet, WrappersQuiet DEF Next, Starting

-----------------------------------------------------------------------------
(* What the lock holder and the stop have in hand belongs together *)

LaunchOK ==
  /\ pc \in {"launch", "spawned", "unspawned", "link"} =>
       runs[cur.run].task = cur.task
  /\ pc \in {"launch", "spawned", "unspawned"} =>
       (cur.review = 0 <=> runs[cur.run].review = 0)
  /\ cur.review # 0 => reviews[cur.review].task = cur.task

StopHand ==
  /\ stop.phase # "none" => runs[stop.run].task = stop.task
  /\ stop.review # 0 => reviews[stop.review].task = stop.task
  /\ stop.phase = "holding" =>
       /\ pc \in {"killed", "stalled", "unreview", "requeue"}
       /\ cur.task = stop.task /\ cur.run = stop.run
  /\ pc \in {"killed", "requeue"} => stop.phase = "holding"

LinkHomes ==
  \A r \in DOMAIN runs :
    runs[r].review # 0 => reviews[runs[r].review].task = runs[r].task

HandOK == LaunchOK /\ StopHand /\ LinkHomes

\* Runs keep their task and review; a new run has no review.
RunsKept ==
  /\ DOMAIN runs \subseteq DOMAIN runs'
  /\ \A q \in DOMAIN runs :
       runs'[q].task = runs[q].task /\ runs'[q].review = runs[q].review
  /\ \A q \in DOMAIN runs' : q \in DOMAIN runs \/ runs'[q].review = 0

LEMMA StepRunsKept ==
  ASSUME IInv, Next, ~ ReviewLink
  PROVE  RunsKept
<1>0. LedgerOK /\ DeskOK
  BY DEF IInv, Parts
<1>1. CASE Starting
  <2>1. cur.task \in Tasks
    BY <1>0, <1>1 DEF Starting, WorkStartRun, ReviewStartRun, DeskOK
  <2>2. RunStarts(cur.task)
    BY <1>0, <1>1, <2>1, StartRunStarts DEF Starting, WorkStartRun, ReviewStartRun
  <2>. QED
    BY <2>2 DEF RunStarts, RunsKept
<1>2. CASE Reopening
  <2>1. PICK r \in RunIds : Answer(r)
    BY <1>2 DEF Reopening
  <2>2. r \in DOMAIN runs /\ ResumeBlockedRun(r)
    BY <2>1 DEF Answer
  <2>3. runs[r] \in RunRow
    BY <1>0, <2>2 DEF LedgerOK
  <2>. DEFINE row == [runs[r] EXCEPT !.status = "running"]
  <2>4. row \in RunRow /\ row.task = runs[r].task /\ row.review = runs[r].review
    BY <2>3, RunFields
  <2>5. runs' = [runs EXCEPT ![r] = row]
    BY <2>2 DEF ResumeBlockedRun
  <2>. HIDE DEF row
  <2>. QED
    BY <1>0, <2>2, <2>4, <2>5, RunUpdate DEF RunsKept
<1>3. CASE Quiet
  BY <1>3 DEF Quiet, RunsKept
<1>. QED
  BY <1>1, <1>2, <1>3, StepQuiet

\* A step that keeps the runs and the reviews' tasks keeps what refers to them.
LEMMA HandFrame ==
  ASSUME IInv, HandOK, RunsKept, HomesKept
  PROVE  /\ LinkHomes'
         /\ UNCHANGED <<pc, cur>> => LaunchOK'
         /\ UNCHANGED <<pc, cur, stop>> => StopHand'
<1>1. /\ DeskOK /\ StopOK
      /\ \A r \in DOMAIN runs : runs[r].review \in {0} \cup DOMAIN reviews
  BY DEF IInv, Parts, LedgerOK
<1>2. LinkHomes'
  BY <1>1 DEF HandOK, LinkHomes, RunsKept, HomesKept
<1>3. ASSUME UNCHANGED <<pc, cur>>
      PROVE  LaunchOK'
  <2>1. cur.review \in {0} \cup DOMAIN reviews
    BY <1>1 DEF DeskOK
  <2>. QED
    BY <1>1, <1>3, <2>1 DEF DeskOK, HandOK, LaunchOK, RunsKept, HomesKept
<1>4. ASSUME UNCHANGED <<pc, cur, stop>>
      PROVE  StopHand'
  <2>1. stop.review \in {0} \cup DOMAIN reviews
    BY <1>1 DEF StopOK
  <2>. QED
    BY <1>1, <1>4, <2>1 DEF StopOK, HandOK, StopHand, RunsKept, HomesKept
<1>. QED
  BY <1>2, <1>3, <1>4

\* The stop keeps its row; a tick never runs while a stop holds the lock.
LEMMA TickStopHand ==
  ASSUME IInv, HandOK, RunsKept, HomesKept, Tick
  PROVE  StopHand'
<1>0. StopOK /\ StopHand /\ UNCHANGED stop
  BY DEF IInv, Parts, HandOK, Tick, TickPromote, TickSelect, WorkClaim,
         WorkBadPath, WorkStartRun, Spawn, SpawnFails, SpawnFailed, RecordPid,
         ListReviews, ReviewClaim, ReviewBadPath, ReviewStartRun, ReviewLink,
         ListRuns, ScanAlive, ScanStalled, MarkTaskStalled, FailStalledReview,
         TickEnd
<1>1. /\ stop'.phase # "none" => runs'[stop'.run].task = stop'.task
      /\ stop'.review # 0 => reviews'[stop'.review].task = stop'.task
  BY <1>0 DEF StopOK, StopHand, RunsKept, HomesKept
<1>2. /\ stop.phase = "holding" =>
           /\ pc' \in {"killed", "stalled", "unreview", "requeue"}
           /\ cur'.task = stop.task /\ cur'.run = stop.run
      /\ pc' \in {"killed", "requeue"} => stop.phase = "holding"
  <2>1. CASE MarkTaskStalled
    BY <1>0, <2>1 DEF StopHand, MarkTaskStalled
  <2>2. CASE FailStalledReview
    BY <1>0, <2>2 DEF StopHand, FailStalledReview
  <2>3. CASE /\ pc \notin {"killed", "stalled", "unreview", "requeue"}
             /\ pc' \notin {"killed", "requeue"}
    BY <1>0, <2>3 DEF StopHand
  <2>4. CASE \/ TickPromote \/ TickSelect \/ (\E t \in Tasks : WorkClaim(t))
             \/ WorkBadPath \/ WorkStartRun \/ Spawn \/ SpawnFails
             \/ SpawnFailed \/ RecordPid \/ ListReviews
    BY <2>3, <2>4
    DEF TickPromote, TickSelect, WorkClaim, WorkBadPath, WorkStartRun, Spawn,
        SpawnFails, SpawnFailed, RecordPid, ListReviews, Loop
  <2>5. CASE \/ (\E v \in desk : ReviewClaim(v))
             \/ ReviewBadPath \/ ReviewStartRun \/ ReviewLink \/ ListRuns
             \/ (\E x \in scan : ScanAlive(x) \/ ScanStalled(x)) \/ TickEnd
    BY <2>3, <2>5
    DEF ReviewClaim, ReviewBadPath, ReviewStartRun, ReviewLink, ListRuns,
        ScanAlive, ScanStalled, TickEnd
  <2>. QED
    BY <2>1, <2>2, <2>4, <2>5 DEF Tick
<1>. QED
  BY <1>0, <1>1, <1>2 DEF StopHand

\* The tick launches the run it has just started, for the task it claimed.
LEMMA TickLaunch ==
  ASSUME IInv, HandOK, RunsKept, HomesKept, Tick, ~ ReviewLink
  PROVE  LaunchOK'
<1>0. LedgerOK /\ DeskOK /\ LaunchOK /\ LinkHomes
  BY DEF IInv, Parts, HandOK
<1>1. CASE cur' = NoCur /\ pc' \notin {"launch", "spawned", "unspawned", "link"}
  BY <1>1 DEF LaunchOK, NoCur
<1>2. CASE UNCHANGED cur /\ pc' \notin {"launch", "spawned", "unspawned", "link"}
  <2>1. cur.review \in {0} \cup DOMAIN reviews
    BY <1>0 DEF DeskOK
  <2>. QED
    BY <1>0, <1>2, <2>1 DEF LaunchOK, HomesKept
<1>3. CASE \/ UNCHANGED cur /\ pc' \in {"launch", "spawned", "unspawned"}
              /\ pc \in {"launch", "spawned", "unspawned"}
           \/ UNCHANGED <<cur, pc>>
  <2>1. /\ cur.review \in {0} \cup DOMAIN reviews
        /\ pc \in {"launch", "spawned", "unspawned", "link"} =>
             cur.run \in DOMAIN runs
    BY <1>0 DEF DeskOK
  <2>. QED
    BY <1>0, <1>3, <2>1 DEF LaunchOK, RunsKept, HomesKept
<1>4. CASE Starting
  <2>1. cur.task \in Tasks /\ cur \in [task : Tasks \cup {None},
              review : {0} \cup DOMAIN reviews, run : {0} \cup DOMAIN runs]
        /\ (pc = "claimed" => cur.review = 0)
    BY <1>0, <1>4 DEF Starting, WorkStartRun, ReviewStartRun, DeskOK
  <2>2. RunStarts(cur.task)
    BY <1>0, <1>4, <2>1, StartRunStarts DEF Starting, WorkStartRun, ReviewStartRun
  <2>. DEFINE new == Len(runs) + 1
  <2>3. cur' = [cur EXCEPT !.run = new]
    BY <1>4 DEF Starting, WorkStartRun, ReviewStartRun
  <2>4. cur'.task = cur.task /\ cur'.review = cur.review /\ cur'.run = new
    BY <2>1, <2>3
  <2>5. runs'[new].task = cur.task /\ runs'[new].review = 0
    BY <2>2 DEF RunStarts
  <2>6. \/ pc = "claimed" /\ pc' = "launch"
        \/ pc = "assigned" /\ pc' = "link"
    BY <1>4 DEF Starting, WorkStartRun, ReviewStartRun
  <2>. HIDE DEF new
  <2>. QED
    BY <1>0, <2>1, <2>4, <2>5, <2>6 DEF LaunchOK, HomesKept
<1>5. ASSUME NEW t \in Tasks, WorkClaim(t)
      PROVE  LaunchOK'
  BY <1>3, <1>5 DEF WorkClaim, NoCur, LaunchOK
<1>6. ASSUME NEW v \in desk, ReviewClaim(v)
      PROVE  LaunchOK'
  <2>1. CASE UNCHANGED <<pc, cur>>
    BY <1>3, <2>1
  <2>2. CASE pc' = "assigned"
             /\ cur' = [task |-> reviews[v].task, review |-> v, run |-> 0]
    <3>1. v \in DOMAIN reviews
      BY <1>0 DEF DeskOK
    <3>. QED
      BY <2>2, <3>1 DEF LaunchOK, HomesKept
  <2>. QED
    BY <1>6, <2>1, <2>2 DEF ReviewClaim
<1>7. ASSUME NEW x \in scan, ScanAlive(x) \/ ScanStalled(x)
      PROVE  LaunchOK'
  <2>1. CASE ScanAlive(x)
    BY <1>3, <2>1 DEF ScanAlive
  <2>2. CASE ScanStalled(x)
    <3>1. x.run \in DOMAIN runs /\ runs[x.run].review \in {0} \cup DOMAIN reviews
      BY <1>0, RowType DEF DeskOK
    <3>2. /\ pc' = "stalled"
          /\ cur' = [task |-> runs[x.run].task, review |-> runs[x.run].review,
                     run |-> x.run]
      BY <2>2 DEF ScanStalled
    <3>. QED
      BY <1>0, <3>1, <3>2 DEF LaunchOK, LinkHomes, HomesKept
  <2>. QED
    BY <1>7, <2>1, <2>2
<1>8. CASE \/ WorkBadPath \/ SpawnFailed \/ RecordPid \/ ReviewBadPath
           \/ FailStalledReview
  BY <1>1, <1>2, <1>8
  DEF WorkBadPath, SpawnFailed, RecordPid, ReviewBadPath, FailStalledReview, Loop
<1>9. CASE \/ TickPromote \/ TickSelect \/ ListReviews \/ ListRuns
           \/ MarkTaskStalled \/ TickEnd
  BY <1>2, <1>9
  DEF TickPromote, TickSelect, ListReviews, ListRuns, MarkTaskStalled, TickEnd
<1>10. CASE Spawn \/ SpawnFails
  BY <1>3, <1>10 DEF Spawn, SpawnFails
<1>. QED
  BY <1>4, <1>5, <1>6, <1>7, <1>8, <1>9, <1>10 DEF Tick, Starting

\* set_run_review links the run just started to the review in hand.
LEMMA LinkHand ==
  ASSUME IInv, HandOK, ReviewLink
  PROVE  HandOK'
<1>0. /\ LedgerOK /\ DeskOK /\ StopOK /\ LaunchOK /\ StopHand /\ LinkHomes
      /\ pc = "link" /\ pc' = "launch"
      /\ UNCHANGED <<cur, stop, reviews>>
  BY DEF IInv, Parts, HandOK, ReviewLink, SetRunReview
<1>1. cur.run \in DOMAIN runs /\ cur.review \in DOMAIN reviews
  BY <1>0 DEF DeskOK
<1>2. cur.review \in Nat \ {0}
  BY <1>0, <1>1 DEF LedgerOK
<1>3. RunsStay(cur.run, cur.review)
  BY <1>0, <1>1, <1>2, SetRunReviewStays DEF ReviewLink
<1>4. LaunchOK'
  BY <1>0, <1>1, <1>2, <1>3 DEF LaunchOK, RunsStay
<1>5. StopHand'
  BY <1>0, <1>3 DEF StopHand, StopOK, RunsStay
<1>6. LinkHomes'
  BY <1>0, <1>1, <1>3 DEF LinkHomes, LaunchOK, RunsStay
<1>. QED
  BY <1>4, <1>5, <1>6 DEF HandOK

\* What is in hand belongs together after every step.
LEMMA HandKeeps ==
  ASSUME IInv, HandOK, [Next]_vars
  PROVE  HandOK'
<1>0. /\ LedgerOK /\ DeskOK /\ StopOK /\ LaunchOK /\ StopHand /\ LinkHomes
      /\ stop.review \in {0} \cup DOMAIN reviews
  BY DEF IInv, Parts, HandOK, StopOK
<1>1. CASE UNCHANGED vars
  BY <1>1 DEF vars, ledger, tick, HandOK, LaunchOK, StopHand, LinkHomes
<1>2. CASE ReviewLink
  BY <1>2, LinkHand
<1>3. ASSUME Next, ~ ReviewLink
      PROVE  HandOK'
  <2>1. RunsKept /\ HomesKept
    BY <1>3, StepRunsKept, StepHomes
  <2>2. CASE Tick
    BY <1>3, <2>1, <2>2, HandFrame, TickStopHand, TickLaunch DEF HandOK
  <2>3. CASE UNCHANGED <<pc, cur, stop>>
    BY <2>1, <2>3, HandFrame DEF HandOK
  <2>4. CASE StopKill
    <3>1. /\ stop.phase = "waiting" /\ pc' = "killed"
          /\ stop' = [stop EXCEPT !.phase = "holding"]
          /\ cur' = [task |-> stop.task, review |-> stop.review, run |-> stop.run]
      BY <2>4 DEF StopKill
    <3>2. /\ stop'.phase = "holding" /\ stop'.task = stop.task
          /\ stop'.run = stop.run /\ stop'.review = stop.review
      BY <1>0, <3>1 DEF StopOK
    <3>3. runs'[stop.run].task = stop.task
          /\ (stop.review # 0 => reviews'[stop.review].task = stop.task)
      BY <1>0, <2>1, <3>1 DEF StopOK, StopHand, RunsKept, HomesKept
    <3>4. LaunchOK' /\ StopHand'
      BY <3>1, <3>2, <3>3 DEF LaunchOK, StopHand
    <3>. QED
      BY <2>1, <3>4, HandFrame DEF HandOK
  <2>5. CASE StopFinishRun
    <3>1. pc = "killed" /\ pc' = "stalled" /\ UNCHANGED <<cur, stop>>
      BY <2>5 DEF StopFinishRun
    <3>2. cur.review \in {0} \cup DOMAIN reviews
      BY <1>0 DEF DeskOK
    <3>3. LaunchOK'
      BY <1>0, <2>1, <3>1, <3>2 DEF LaunchOK, HomesKept
    <3>4. StopHand'
      BY <1>0, <2>1, <3>1 DEF StopHand, StopOK, RunsKept, HomesKept
    <3>. QED
      BY <2>1, <3>3, <3>4, HandFrame DEF HandOK
  <2>6. CASE StopRequeue
    <3>1. LaunchOK' /\ StopHand'
      BY <2>6 DEF StopRequeue, LaunchOK, StopHand, NoCur, NoStop
    <3>. QED
      BY <2>1, <3>1, HandFrame DEF HandOK
  <2>7. ASSUME NEW t \in Tasks, NEW keep \in BOOLEAN, StopRead(t, keep)
        PROVE  HandOK'
    <3>1. PICK r \in DOMAIN runs :
            /\ runs[r].task = t
            /\ stop' = [phase |-> "waiting", task |-> t, run |-> r,
                        pid |-> runs[r].pid, review |-> runs[r].review,
                        keep |-> keep]
      BY <2>7 DEF StopRead, RunsOf, RunningRuns
    <3>2. stop.phase = "none" /\ UNCHANGED <<pc, cur, runs, reviews>>
      BY <2>7 DEF StopRead, ledger, tick
    <3>3. StopHand'
      BY <1>0, <3>1, <3>2 DEF StopHand, LinkHomes
    <3>. QED
      BY <2>1, <3>2, <3>3, HandFrame DEF HandOK
  <2>8. CASE ServiceCrash
    <3>1. LaunchOK' /\ StopHand'
      BY <2>8 DEF ServiceCrash, LaunchOK, StopHand, NoCur, NoStop
    <3>. QED
      BY <2>1, <3>1, HandFrame DEF HandOK
  <2>9. CASE TickAborts
    <3>1. LaunchOK' /\ UNCHANGED stop /\ stop.phase # "holding" /\ pc' = "idle"
      BY <2>9 DEF TickAborts, LaunchOK, NoCur
    <3>2. StopHand'
      BY <1>0, <2>1, <3>1 DEF StopHand, StopOK, RunsKept, HomesKept
    <3>. QED
      BY <2>1, <3>1, <3>2, HandFrame DEF HandOK
  <2>10. CASE Owner
    <3>1. ASSUME NEW t \in Tasks,
                 OwnerEdit(t) \/ OwnerClose(t) \/ OwnerWaive(t) \/ OwnerVerdict(t)
          PROVE  UNCHANGED <<pc, cur, stop>>
      BY <3>1 DEF OwnerEdit, OwnerClose, OwnerWaive, OwnerVerdict, ReviewVerdict, tick
    <3>2. ASSUME NEW r \in RunIds, Answer(r)
          PROVE  UNCHANGED <<pc, cur, stop>>
      BY <3>2 DEF Answer, tick
    <3>. QED
      BY <2>3, <2>7, <2>10, <3>1, <3>2 DEF Owner
  <2>11. CASE Crashing
    <3>1. ASSUME NEW t \in Tasks, CallerCrash(t)
          PROVE  UNCHANGED <<pc, cur, stop>>
      BY <3>1 DEF CallerCrash, tick
    <3>2. ASSUME NEW r \in RunIds, WrapperCrash(r)
          PROVE  UNCHANGED <<pc, cur, stop>>
      BY <3>2 DEF WrapperCrash, tick
    <3>. QED
      BY <2>3, <2>8, <2>9, <2>11, <3>1, <3>2 DEF Crashing
  <2>12. ASSUME NEW r \in RunIds, Resuming(r) \/ Wrapper(r) \/ Agent(r)
         PROVE  UNCHANGED <<pc, cur, stop>>
    BY <2>12
    DEF Resuming, AnswerSpawn, AnswerRecordPid, AnswerSetupFails,
        AnswerSpawnFails, AnswerSpawnFailed, AnswerStep, Wrapper, Boot,
        BriefUnreadable, CloseReview, Reap, FinalizeWork, FinalizeReview,
        WrapperStep, Agent, Question, Verdict, ReviewVerdict, tick
  <2>13. ASSUME NEW t \in Tasks, Caller(t)
         PROVE  UNCHANGED <<pc, cur, stop>>
    BY <2>13 DEF Caller, Land, Promote, tick
  <2>. QED
    BY <1>3, <2>2, <2>3, <2>4, <2>5, <2>6, <2>10, <2>11, <2>12, <2>13
    DEF Next, Stop
<1>. QED
  BY <1>1, <1>2, <1>3

LEMMA HandHolds ==
  Init => HandOK
BY DEF Init, HandOK, LaunchOK, StopHand, LinkHomes, NoCur, NoStop

-----------------------------------------------------------------------------
(* The gates on 'done' *)

\* A released task whose dependencies are done becomes ready; others stay.
TasksPromote ==
  \A u \in Tasks :
    \/ tasks'[u] = tasks[u]
    \/ /\ Promotable(u) /\ tasks'[u].status = "ready"
       /\ tasks'[u].gate = tasks[u].gate /\ tasks'[u].reworks = tasks[u].reworks

LEMMA PromotedMove ==
  ASSUME LedgerOK, NEW P, tasks' = Promoted(P)
  PROVE  TasksPromote
<1>. SUFFICES ASSUME NEW u \in Tasks
              PROVE  \/ tasks'[u] = tasks[u]
                     \/ /\ Promotable(u) /\ tasks'[u].status = "ready"
                        /\ tasks'[u].gate = tasks[u].gate
                        /\ tasks'[u].reworks = tasks[u].reworks
  BY DEF TasksPromote
<1>1. tasks[u].reworks \in Nat
  BY DEF LedgerOK, TaskRow
<1>2. tasks'[u] = IF u \in P /\ Promotable(u) THEN Moved(tasks[u], "ready") ELSE tasks[u]
  BY DEF Promoted
<1>. QED
  BY <1>1, <1>2 DEF Moved

NoneDone == \A t \in Tasks : tasks'[t].status = "done" => tasks[t].status = "done"

LEMMA MovesNotDone ==
  ASSUME LedgerOK,
         \/ UNCHANGED tasks \/ \E P : tasks' = Promoted(P)
         \/ \E t \in Tasks : \E s : s # "done" /\ tasks' = WithTask(t, s)
  PROVE  NoneDone
<1>1. CASE UNCHANGED tasks
  BY <1>1 DEF NoneDone
<1>2. CASE \E P : tasks' = Promoted(P)
  BY <1>2, PromotedMove DEF TasksPromote, NoneDone
<1>3. ASSUME NEW t \in Tasks, NEW s, s # "done", tasks' = WithTask(t, s)
      PROVE  NoneDone
  BY <1>3, WithTaskTakes DEF TaskTakes, NoneDone
<1>. QED
  BY <1>1, <1>2, <1>3

\* The lock holder, a crash and a verdict's caller finish no task.
LEMMA LockDone ==
  ASSUME IInv, Tick \/ Stop \/ Crashing \/ (\E t \in Tasks : Caller(t))
  PROVE  NoneDone
<1>0. LedgerOK /\ DeskOK
  BY DEF IInv, Parts
<1>1. ASSUME NEW t \in Tasks, WorkClaim(t)
      PROVE  NoneDone
  BY <1>0, <1>1, MovesNotDone DEF WorkClaim, ClaimTask, ledger
<1>2. CASE WorkBadPath \/ SpawnFailed
  <2>1. cur.task \in Tasks
    BY <1>0, <1>2 DEF WorkBadPath, SpawnFailed, DeskOK
  <2>. QED
    BY <1>0, <1>2, <2>1, MovesNotDone
    DEF WorkBadPath, SpawnFailed, CompleteRun, SetReviewStatus
<1>3. CASE MarkTaskStalled
  <2>1. cur.task \in Tasks
    BY <1>0, <1>3 DEF MarkTaskStalled, DeskOK
  <2>. QED
    BY <1>0, <1>3, <2>1, MovesNotDone DEF MarkTaskStalled, StallTask
<1>4. CASE TickPromote \/ WorkStartRun \/ ReviewStartRun \/ SpawnFails \/ RecordPid
  BY <1>0, <1>4, MovesNotDone
  DEF TickPromote, PromoteWaiting, WorkStartRun, ReviewStartRun, StartRun,
      SpawnFails, FinishRun, RecordPid, SetRunPid
<1>5. CASE TickSelect \/ Spawn \/ ListReviews \/ ListRuns \/ TickEnd
  BY <1>0, <1>5, MovesNotDone
  DEF TickSelect, Spawn, ListReviews, ListRuns, TickEnd, ledger
<1>6. CASE ReviewBadPath \/ ReviewLink \/ FailStalledReview
  BY <1>0, <1>6, MovesNotDone
  DEF ReviewBadPath, ReviewLink, SetRunReview, FailStalledReview,
      SetReviewStatus, ledger
<1>7. ASSUME NEW v \in desk, ReviewClaim(v)
      PROVE  NoneDone
  BY <1>0, <1>7, MovesNotDone DEF ReviewClaim, ClaimReview, ledger
<1>8. ASSUME NEW x \in scan, ScanAlive(x) \/ ScanStalled(x)
      PROVE  NoneDone
  BY <1>0, <1>8, MovesNotDone DEF ScanAlive, ScanStalled, FinishRun, ledger
<1>9. CASE Stop
  <2>1. CASE StopKill \/ StopFinishRun
    BY <1>0, <2>1, MovesNotDone DEF StopKill, StopFinishRun, FinishRun, ledger
  <2>2. CASE StopRequeue
    <3>1. cur.task \in Tasks
      BY <1>0, <2>2 DEF StopRequeue, DeskOK
    <3>. QED
      BY <1>0, <2>2, <3>1, MovesNotDone DEF StopRequeue, MarkManual, RetryTask, ledger
  <2>. QED
    BY <1>9, <2>1, <2>2 DEF Stop
<1>10. CASE Crashing
  BY <1>0, <1>10, MovesNotDone
  DEF Crashing, ServiceCrash, TickAborts, CallerCrash, WrapperCrash, ledger
<1>11. CASE \E t \in Tasks : Caller(t)
  BY <1>0, <1>11, MovesNotDone
  DEF Caller, Land, Promote, RefuseLanding, PromoteDependents, ledger
<1>. QED
  BY <1>1, <1>2, <1>3, <1>4, <1>5, <1>6, <1>7, <1>8, <1>9, <1>10, <1>11 DEF Tick

\* Every action of the owner is counted.
LEMMA OwnerCounts ==
  ASSUME BudgetOK, Owner
  PROVE  ownerOps' < ownerOps
<1>1. ownerOps' = ownerOps - 1
  BY DEF Owner, StopRead, OwnerEdit, OwnerClose, OwnerWaive, OwnerVerdict,
         Answer, OwnerOp
<1>2. ownerOps \in Int
  BY EngineAssumption DEF BudgetOK
<1>. QED
  BY <1>1, <1>2

\* What may make a task done without its owner.
EarnedDone ==
  \A t \in Tasks :
    tasks[t].status # "done" /\ tasks'[t].status = "done" =>
      /\ ~ tasks[t].gate
      /\ t \in Required => \E v \in OpenReviews(t) : reviews'[v].status = "done"

\* The completion contract: a work run finishes its task only when no review
\* is routed and no gate is set.
LEMMA CompletionEarns ==
  ASSUME IInv, NEW r \in DOMAIN runs, NEW report \in WorkReports(runs[r].task),
         RecordCompletion(r, report)
  PROVE  EarnedDone
<1>0. LedgerOK /\ runs[r].task \in Tasks
  BY RowType DEF IInv, Parts
<1>. DEFINE t == runs[r].task
            s == TaskAfter(t, report)
<1>1. PICK g : tasks' = [tasks EXCEPT ![t] = Gated(Moved(@, s), g)]
  BY DEF RecordCompletion
<1>2. tasks'[t].status = s /\ \A u \in Tasks : u # t => tasks'[u] = tasks[u]
  <2>1. tasks'[t] = Gated(Moved(tasks[t], s), g)
        /\ \A u \in Tasks : u # t => tasks'[u] = tasks[u]
    BY <1>0, <1>1 DEF LedgerOK
  <2>2. Gated(Moved(tasks[t], s), g).status = s
    BY DEF Gated, Moved
  <2>. QED
    BY <2>1, <2>2
<1>3. s = "done" => ~ tasks[t].gate /\ t \notin Required
  BY DEF TaskAfter, WorkReports, Routed
<1>. HIDE DEF s
<1>. QED
  BY <1>0, <1>2, <1>3 DEF EarnedDone

\* An approval decides an open review and respects the gate.
LEMMA VerdictEarns ==
  ASSUME LedgerOK, NEW t \in Tasks, ReviewVerdict(t)
  PROVE  EarnedDone
<1>1. CASE RequestChanges(t)
  <2>1. NoneDone
    BY <1>1, MovesNotDone DEF RequestChanges
  <2>. QED
    BY <2>1 DEF NoneDone, EarnedDone
<1>2. CASE ApproveReview(t)
  <2>. DEFINE s == IF tasks[t].gate THEN "manual" ELSE "done"
  <2>1. LatestOpen(t) # {} /\ reviews' = Decided(LatestOpen(t), "done")
        /\ tasks' = WithTask(t, s)
    BY <1>2 DEF ApproveReview
  <2>2. TaskTakes(t, s) /\ ReviewsTake(LatestOpen(t), "done")
    BY <2>1, WithTaskTakes, DecidedTake
  <2>3. PICK v \in OpenReviews(t) : v \in LatestOpen(t)
    BY <2>1 DEF LatestOpen
  <2>4. reviews'[v].status = "done"
    BY <2>2, <2>3 DEF ReviewsTake, OpenReviews
  <2>. QED
    BY <2>2, <2>3, <2>4 DEF TaskTakes, EarnedDone
<1>. QED
  BY <1>1, <1>2 DEF ReviewVerdict

\* Every step either is the owner's or earns what it finishes.
LEMMA StepEarns ==
  ASSUME IInv, [Next]_vars
  PROVE  ownerOps' < ownerOps \/ EarnedDone
<1>0. LedgerOK /\ WrapperOK /\ AnswerOK /\ BudgetOK
  BY DEF IInv, Parts
<1>1. NoneDone => EarnedDone
  BY DEF NoneDone, EarnedDone
<1>2. CASE Owner
  BY <1>0, <1>2, OwnerCounts
<1>3. CASE Tick \/ Stop \/ Crashing \/ (\E t \in Tasks : Caller(t))
  BY <1>1, <1>3, LockDone
<1>4. CASE UNCHANGED vars
  BY <1>4 DEF vars, ledger, EarnedDone
<1>5. ASSUME NEW r \in RunIds, Resuming(r)
      PROVE  NoneDone
  <2>1. r \in DOMAIN runs
    BY <1>0, <1>5
    DEF Resuming, AnswerSpawn, AnswerRecordPid, AnswerSetupFails,
        AnswerSpawnFails, AnswerSpawnFailed, AnswerStep, AnswerOK
  <2>2. runs[r].task \in Tasks
    BY <1>0, <2>1, RowType
  <2>. QED
    BY <1>0, <1>5, <2>2, MovesNotDone
    DEF Resuming, AnswerSpawn, AnswerRecordPid, AnswerSetupFails, FailRun,
        AnswerSpawnFails, AnswerSpawnFailed, SetRunPid, FinishRun, CompleteRun,
        ledger
<1>6. ASSUME NEW r \in RunIds, Wrapper(r) \/ Agent(r)
      PROVE  EarnedDone
  <2>1. r \in DOMAIN runs
    <3>1. CASE wrapper[r].state # "none"
      BY <1>0, <3>1 DEF WrapperOK
    <3>. QED
      BY <1>6, <3>1
      DEF Wrapper, Boot, BriefUnreadable, CloseReview, Reap, FinalizeWork,
          FinalizeReview, WrapperStep, Agent, Question, Verdict
  <2>2. runs[r].task \in Tasks
    BY <1>0, <2>1, RowType
  <2>3. CASE Verdict(r)
    BY <1>0, <2>2, <2>3, VerdictEarns DEF Verdict
  <2>4. ASSUME NEW report \in {"done", "manual", "blocked", "failed", "dirty"},
               FinalizeWork(r, report)
        PROVE  EarnedDone
    BY <2>1, <2>4, CompletionEarns DEF FinalizeWork
  <2>5. CASE \/ Boot(r) \/ BriefUnreadable(r) \/ CloseReview(r) \/ Reap(r)
             \/ Question(r)
             \/ \E report \in {"done", "blocked", "failed"} : FinalizeReview(r, report)
    BY <1>0, <1>1, <2>2, <2>5, MovesNotDone
    DEF Boot, BriefUnreadable, FailRun, CloseReview, CloseReviewRun, Reap,
        Question, NoteQuestion, FinalizeReview, FinishRun, ledger
  <2>. QED
    BY <1>6, <2>3, <2>4, <2>5 DEF Wrapper, Agent
<1>. QED
  BY <1>1, <1>2, <1>3, <1>4, <1>5, <1>6 DEF Next

\* A task with a required review becomes done only by a verdict on an open
\* review of it, or by an action of its owner: the completion contract routes
\* every 'done' and 'manual' of such a task to a review.
THEOREM ReviewGateHolds == Spec => RequiredReviewGate
<1>1. ASSUME IInv, [Next]_vars
      PROVE  \A t \in Required :
               tasks[t].status # "done" /\ tasks'[t].status = "done" =>
                 \/ ownerOps' < ownerOps
                 \/ \E v \in OpenReviews(t) : reviews'[v].status = "done"
  BY <1>1, StepEarns, LedgerAssumption DEF EarnedDone
<1>. QED
  BY <1>1, Invariant, PTL DEF Spec, RequiredReviewGate

\* A task with owner_approval set becomes done only by an action of its owner:
\* completions and approvals hand it over as 'manual'.
THEOREM OwnerGateHolds == Spec => OwnerGate
<1>1. ASSUME IInv, [Next]_vars
      PROVE  \A t \in Tasks :
               /\ tasks[t].gate
               /\ tasks[t].status # "done" /\ tasks'[t].status = "done"
               => ownerOps' < ownerOps
  BY <1>1, StepEarns DEF EarnedDone
<1>. QED
  BY <1>1, Invariant, PTL DEF Spec, OwnerGate

-----------------------------------------------------------------------------
(* Whose rows a step touches *)

\* Runs keep their tasks and reviews; only r may change its status.
RunsBut(r) ==
  /\ DOMAIN runs' = DOMAIN runs
  /\ \A q \in DOMAIN runs :
       /\ runs'[q].task = runs[q].task /\ runs'[q].review = runs[q].review
       /\ q # r => runs'[q].status = runs[q].status

\* Only the process of r moves.
ProcessBut(r) ==
  \A q \in RunIds :
    q # r => wrapper'[q] = wrapper[q] /\ answer'[q] = answer[q]

LEMMA ButRuns ==
  ASSUME LedgerOK, NEW r \in DOMAIN runs,
         \/ UNCHANGED runs \/ FailRun(r) \/ ResumeBlockedRun(r)
         \/ \E p \in Nat : SetRunPid(r, p)
         \/ \E s \in {"done", "failed", "blocked"} : FinishRun(r, s)
         \/ \E report \in {"done", "manual", "blocked", "failed", "dirty"} :
              RecordCompletion(r, report)
  PROVE  RunsBut(r)
<1>1. CASE UNCHANGED runs
  BY <1>1 DEF RunsBut
<1>2. CASE RunEnds(r)
  BY <1>2 DEF RunEnds, RunsBut
<1>3. CASE \E p \in Nat : SetRunPid(r, p)
  BY <1>3, SetRunPidStays DEF RunsStay, RunsBut
<1>4. CASE \E s \in {"done", "failed", "blocked"} : runs' = Finished(r, s)
  BY <1>2, <1>4, FinishedEnds DEF RunStatus
<1>5. CASE FailRun(r) \/ \E s \in {"done", "failed", "blocked"} : FinishRun(r, s)
  BY <1>4, <1>5 DEF FailRun, FinishRun
<1>6. ASSUME NEW report \in {"done", "manual", "blocked", "failed", "dirty"},
             RecordCompletion(r, report)
      PROVE  RunsBut(r)
  <2>1. RunAfter(report) \in {"done", "failed", "blocked"}
    BY DEF RunAfter
  <2>2. runs' = Finished(r, RunAfter(report))
    BY <1>6 DEF RecordCompletion
  <2>. QED
    BY <1>4, <2>1, <2>2
<1>7. CASE ResumeBlockedRun(r)
  <2>. DEFINE row == [runs[r] EXCEPT !.status = "running"]
  <2>1. runs[r] \in RunRow
    BY DEF LedgerOK
  <2>2. row \in RunRow /\ row.task = runs[r].task /\ row.review = runs[r].review
    BY <2>1, RunFields
  <2>3. runs' = [runs EXCEPT ![r] = row]
    BY <1>7 DEF ResumeBlockedRun
  <2>. HIDE DEF row
  <2>. QED
    BY <2>2, <2>3, RunUpdate DEF RunsBut
<1>. QED
  BY <1>1, <1>3, <1>5, <1>6, <1>7

\* A wrapper, its agent or an answer in progress touches its own run only.
LEMMA WrapperTouches ==
  ASSUME IInv, NEW r \in RunIds, Resuming(r) \/ Wrapper(r) \/ Agent(r)
  PROVE  /\ r \in DOMAIN runs /\ RunsBut(r) /\ ProcessBut(r)
         /\ wrapper[r].state # "none" \/ answer[r] # "none"
         /\ UNCHANGED <<tick, stop, resumed, ownerOps, crashes>>
<1>0. LedgerOK /\ WrapperOK /\ AnswerOK
  BY DEF IInv, Parts
<1>1. ProcessBut(r)
  BY <1>0
  DEF WrapperOK, AnswerOK, ProcessBut, Resuming, AnswerSpawn, Spawned,
      AnswerRecordPid, AnswerSetupFails, AnswerSpawnFails, AnswerSpawnFailed,
      AnswerStep, Wrapper, Boot, BriefUnreadable, CloseReview, Reap,
      FinalizeWork, FinalizeReview, WrapperStep, Agent, Question, Verdict,
      ReviewVerdict, callers
<1>2. UNCHANGED <<tick, stop, resumed, ownerOps, crashes>>
  <2>1. CASE Resuming(r)
    BY <2>1
    DEF Resuming, AnswerSpawn, AnswerRecordPid, AnswerSetupFails,
        AnswerSpawnFails, AnswerSpawnFailed, AnswerStep, Fault, budget
  <2>2. CASE Wrapper(r)
    BY <2>2
    DEF Wrapper, Boot, BriefUnreadable, CloseReview, Reap, FinalizeWork,
        FinalizeReview, WrapperStep, Fault, budget, callers
  <2>3. CASE Agent(r)
    BY <2>3 DEF Agent, Question, Verdict, ReviewVerdict, budget, callers
  <2>. QED
    BY <2>1, <2>2, <2>3
<1>3. wrapper[r].state # "none" \/ answer[r] # "none"
  BY DEF Resuming, AnswerSpawn, AnswerRecordPid, AnswerSetupFails,
         AnswerSpawnFails, AnswerSpawnFailed, AnswerStep, Wrapper, Boot,
         BriefUnreadable, CloseReview, Reap, FinalizeWork, FinalizeReview,
         WrapperStep, Agent, Question, Verdict
<1>4. r \in DOMAIN runs /\ wrapper[r].pid \in Nat
  BY <1>0, <1>3 DEF WrapperOK, AnswerOK
<1>5. RunsBut(r)
  <2>1. CASE Resuming(r)
    BY <1>0, <1>4, <2>1, ButRuns
    DEF Resuming, AnswerSpawn, AnswerRecordPid, AnswerSetupFails,
        AnswerSpawnFails, AnswerSpawnFailed, CompleteRun, ledger
  <2>2. CASE Wrapper(r)
    BY <1>0, <1>4, <2>2, ButRuns
    DEF Wrapper, Boot, BriefUnreadable, CloseReview, Reap, FinalizeWork,
        FinalizeReview, CloseReviewRun, ledger
  <2>3. CASE Agent(r)
    BY <1>0, <1>4, <2>3, ButRuns
    DEF Agent, Question, NoteQuestion, Verdict, ReviewVerdict, ApproveReview,
        RequestChanges
  <2>. QED
    BY <2>1, <2>2, <2>3
<1>. QED
  BY <1>1, <1>2, <1>3, <1>4, <1>5

\* Whoever does not hold the lock leaves the desk alone.
LEMMA DeskAlone ==
  ASSUME IInv, Next, ~ Tick, ~ Stop, ~ ServiceCrash, ~ TickAborts
  PROVE  /\ UNCHANGED tick
         /\ \/ UNCHANGED stop
            \/ \E t \in Tasks, keep \in BOOLEAN : StopRead(t, keep)
<1>1. ASSUME NEW t \in Tasks,
             \/ OwnerEdit(t) \/ OwnerClose(t) \/ OwnerWaive(t)
             \/ OwnerVerdict(t) \/ CallerCrash(t) \/ Caller(t)
      PROVE  UNCHANGED <<tick, stop>>
  BY <1>1
  DEF OwnerEdit, OwnerClose, OwnerWaive, OwnerVerdict, ReviewVerdict,
      CallerCrash, Caller, Land, Promote
<1>2. ASSUME NEW r \in RunIds, Answer(r) \/ WrapperCrash(r)
      PROVE  UNCHANGED <<tick, stop>>
  BY <1>2 DEF Answer, WrapperCrash
<1>3. ASSUME NEW t \in Tasks, NEW keep \in BOOLEAN, StopRead(t, keep)
      PROVE  UNCHANGED tick
  BY <1>3 DEF StopRead
<1>. QED
  BY <1>1, <1>2, <1>3, WrapperTouches DEF Next, Owner, Crashing

-----------------------------------------------------------------------------
(* The run just started has no process yet *)

FreshOK ==
  /\ pc \in {"launch", "link"} =>
       /\ runs[cur.run].status = "running" /\ cur.run \notin resumed
       /\ wrapper[cur.run].state = "none" /\ answer[cur.run] = "none"
  /\ pc = "unspawned" => cur.run \notin RunningRuns \ resumed

\* The tick starts the run and, when the launch fails, ends it.
LEMMA TickFresh ==
  ASSUME IInv, FreshOK, Tick
  PROVE  FreshOK'
<1>0. LedgerOK /\ DeskOK /\ WrapperOK /\ AnswerOK
  BY DEF IInv, Parts
<1>1. CASE pc' \notin {"launch", "link", "unspawned"}
  BY <1>1 DEF FreshOK
<1>2. CASE Starting
  <2>. DEFINE new == Len(runs) + 1
  <2>1. /\ cur.task \in Tasks /\ cur' = [cur EXCEPT !.run = new]
        /\ StartRun(cur.task) /\ pc' \in {"launch", "link"}
        /\ UNCHANGED <<wrapper, callers>>
    BY <1>0, <1>2 DEF Starting, WorkStartRun, ReviewStartRun, DeskOK
  <2>2. RunStarts(cur.task)
    BY <1>0, <2>1, StartRunStarts
  <2>3. new \in RunIds
    <3>1. Len(runs) \in Nat /\ Len(runs) < MaxRuns
      BY <1>0, <2>1 DEF LedgerOK, StartRun
    <3>. QED
      BY <3>1, LedgerAssumption DEF RunIds
  <2>4. cur'.run = new
    BY <1>0, <2>1 DEF DeskOK
  <2>5. new \notin DOMAIN runs /\ runs'[new].status = "running"
    BY <2>2 DEF RunStarts
  <2>. HIDE DEF new
  <2>6. wrapper[new].state = "none" /\ answer[new] = "none" /\ new \notin resumed
    BY <1>0, <2>3, <2>5 DEF WrapperOK, AnswerOK
  <2>. QED
    BY <2>1, <2>4, <2>5, <2>6 DEF FreshOK, callers
<1>3. CASE ReviewLink
  <2>1. /\ pc = "link" /\ pc' = "launch" /\ UNCHANGED <<cur, wrapper, callers>>
        /\ SetRunReview(cur.run, cur.review)
    BY <1>3 DEF ReviewLink
  <2>2. cur.run \in DOMAIN runs /\ cur.review \in Nat
    BY <1>0, <2>1 DEF DeskOK, LedgerOK
  <2>3. RunsStay(cur.run, cur.review)
    BY <1>0, <2>1, <2>2, SetRunReviewStays
  <2>. QED
    BY <2>1, <2>2, <2>3 DEF FreshOK, RunsStay, callers
<1>4. CASE SpawnFails
  <2>1. cur.run \in DOMAIN runs /\ pc' = "unspawned" /\ UNCHANGED <<cur, callers>>
    BY <1>0, <1>4 DEF SpawnFails, DeskOK
  <2>2. RunEnds(cur.run)
    BY <1>0, <1>4, <2>1, FinishedEnds DEF SpawnFails, FinishRun, RunStatus
  <2>. QED
    BY <2>1, <2>2 DEF FreshOK, RunEnds, RunningRuns
<1>5. CASE \/ TickPromote \/ TickSelect \/ (\E t \in Tasks : WorkClaim(t))
           \/ WorkBadPath \/ Spawn \/ SpawnFailed \/ RecordPid \/ ListReviews
  BY <1>1, <1>5
  DEF TickPromote, TickSelect, WorkClaim, WorkBadPath, Spawn, SpawnFailed,
      RecordPid, ListReviews, Loop
<1>6. CASE \/ (\E v \in desk : ReviewClaim(v)) \/ ReviewBadPath \/ ListRuns
           \/ (\E x \in scan : ScanAlive(x) \/ ScanStalled(x))
           \/ MarkTaskStalled \/ FailStalledReview \/ TickEnd
  BY <1>1, <1>6
  DEF ReviewClaim, ReviewBadPath, ListRuns, ScanAlive, ScanStalled,
      MarkTaskStalled, FailStalledReview, TickEnd
<1>. QED
  BY <1>2, <1>3, <1>4, <1>5, <1>6 DEF Tick, Starting

\* Nobody else touches it: a process moves only its own run, and an answer
\* reopens a blocked one.
LEMMA FreshKeeps ==
  ASSUME IInv, FreshOK, [Next]_vars
  PROVE  FreshOK'
<1>0. /\ LedgerOK /\ DeskOK /\ WrapperOK /\ AnswerOK
      /\ pc \in {"launch", "link", "unspawned"} =>
           cur.run \in DOMAIN runs /\ cur.run \in RunIds
  BY RunInBounds DEF IInv, Parts, DeskOK
<1>1. CASE UNCHANGED vars
  BY <1>1 DEF vars, ledger, tick, callers, FreshOK, RunningRuns
<1>2. CASE Tick
  BY <1>2, TickFresh
<1>3. CASE Stop \/ ServiceCrash \/ TickAborts
  BY <1>3 DEF Stop, StopKill, StopFinishRun, StopRequeue, ServiceCrash,
              TickAborts, FreshOK
<1>4. ASSUME Next, ~ Tick, ~ Stop, ~ ServiceCrash, ~ TickAborts
      PROVE  FreshOK'
  <2>1. UNCHANGED <<pc, cur>>
    BY <1>4, DeskAlone DEF tick
  <2>2. CASE UNCHANGED <<runs, wrapper, answer, resumed>>
    BY <2>1, <2>2 DEF FreshOK, RunningRuns
  <2>3. ASSUME NEW r \in RunIds, r \in DOMAIN runs, RunsBut(r), ProcessBut(r),
               UNCHANGED resumed, Quiet,
               wrapper[r].state # "none" \/ answer[r] # "none"
        PROVE  FreshOK'
    <3>1. pc \in {"launch", "link"} => r # cur.run
      BY <2>3 DEF FreshOK
    <3>2. pc \in {"launch", "link"} =>
            /\ runs'[cur.run].status = "running" /\ cur.run \notin resumed
            /\ wrapper'[cur.run].state = "none" /\ answer'[cur.run] = "none"
      BY <1>0, <2>3, <3>1 DEF FreshOK, RunsBut, ProcessBut
    <3>3. pc = "unspawned" => cur.run \notin RunningRuns' \ resumed
      BY <2>3 DEF FreshOK, Quiet, RunningRuns
    <3>. QED
      BY <2>1, <2>3, <3>2, <3>3 DEF FreshOK
  <2>4. ASSUME NEW r \in RunIds, Answer(r)
        PROVE  FreshOK'
    <3>1. /\ r \in DOMAIN runs /\ runs[r].status = "blocked"
          /\ ResumeBlockedRun(r)
          /\ answer' = [answer EXCEPT ![r] = "resumed"]
          /\ resumed' = resumed \cup {r} /\ UNCHANGED wrapper
      BY <2>4 DEF Answer, ResumeBlockedRun
    <3>2. RunsBut(r)
      BY <1>0, <3>1, ButRuns
    <3>3. pc \in {"launch", "link"} => r # cur.run
      BY <3>1 DEF FreshOK
    <3>4. pc \in {"launch", "link"} =>
            /\ runs'[cur.run].status = "running" /\ cur.run \notin resumed'
            /\ wrapper'[cur.run].state = "none" /\ answer'[cur.run] = "none"
      BY <1>0, <3>1, <3>2, <3>3 DEF FreshOK, RunsBut, AnswerOK
    <3>5. pc = "unspawned" => cur.run \notin RunningRuns' \ resumed'
      BY <3>1, <3>2 DEF FreshOK, RunsBut, RunningRuns
    <3>. QED
      BY <2>1, <3>4, <3>5 DEF FreshOK
  <2>5. ASSUME NEW r \in RunIds, WrapperCrash(r) \/ Reap(r)
        PROVE  FreshOK'
    <3>1. wrapper[r].state # "none" /\ ProcessBut(r)
          /\ UNCHANGED <<runs, answer, resumed>>
      BY <1>0, <2>5 DEF WrapperCrash, Reap, Working, ProcessBut, WrapperOK,
                        ledger, callers
    <3>2. r \in DOMAIN runs /\ RunsBut(r) /\ Quiet
      BY <1>0, <3>1 DEF RunsBut, Quiet, WrapperOK
    <3>. QED
      BY <2>3, <3>1, <3>2
  <2>6. ASSUME NEW r \in RunIds, Resuming(r) \/ Wrapper(r) \/ Agent(r)
        PROVE  FreshOK'
    BY <2>3, <2>6, WrapperTouches, WrappersQuiet
  <2>7. ASSUME NEW t \in Tasks, Caller(t) \/ CallerCrash(t)
        PROVE  UNCHANGED <<runs, wrapper, answer, resumed>>
    BY <2>7 DEF Caller, Land, RefuseLanding, Promote, PromoteDependents,
                CallerCrash, ledger
  <2>8. ASSUME Owner, ~ Reopening
        PROVE  UNCHANGED <<runs, wrapper, answer, resumed>>
    <3>1. UNCHANGED runs
      BY <2>8, OwnerQuiet DEF Reopening
    <3>. QED
      BY <2>8, <3>1
      DEF Owner, Reopening, StopRead, OwnerEdit, OwnerClose, OwnerWaive,
          OwnerVerdict, ReviewVerdict, callers
  <2>. QED
    BY <1>4, <2>2, <2>4, <2>5, <2>6, <2>7, <2>8 DEF Next, Crashing, Reopening
<1>. QED
  BY <1>1, <1>2, <1>3, <1>4

LEMMA FreshHolds ==
  Init => FreshOK
BY DEF Init, FreshOK

-----------------------------------------------------------------------------
(* No running task is forgotten *)

Worked(t) ==
  \E r \in WorkRuns(t) :
    runs[r].status = "running" /\ ~ (pc = "link" /\ r = cur.run)
Held(t) ==
  /\ cur.task = t
  /\ pc \in {"claimed", "stalled"} \/ (pc = "unspawned" /\ cur.review = 0)
Unspawned(t) == \E r \in RunIds : r \in RunsOf(t) /\ answer[r] = "unspawned"

Watched(t) == Held(t) \/ Unspawned(t) \/ Worked(t)

\* No crash yet, and only work runs were answered.
Calm == crashes = MaxCrashes /\ \A r \in resumed : runs[r].review = 0

WatchInv == Calm => \A t \in Tasks : tasks[t].status = "running" => Watched(t)

NoneRunning ==
  \A t \in Tasks : tasks'[t].status = "running" => tasks[t].status = "running"

LEMMA MovesNotRunning ==
  ASSUME LedgerOK,
         \/ UNCHANGED tasks \/ \E P : tasks' = Promoted(P)
         \/ \E t \in Tasks : \E s : s # "running" /\ tasks' = WithTask(t, s)
  PROVE  NoneRunning
<1>1. CASE UNCHANGED tasks
  BY <1>1 DEF NoneRunning
<1>2. CASE \E P : tasks' = Promoted(P)
  BY <1>2, PromotedMove DEF TasksPromote, NoneRunning
<1>3. ASSUME NEW t \in Tasks, NEW s, s # "running", tasks' = WithTask(t, s)
      PROVE  NoneRunning
  BY <1>3, WithTaskTakes DEF TaskTakes, NoneRunning
<1>. QED
  BY <1>1, <1>2, <1>3

\* Rows that keep their status keep the task watched.
LEMMA WatchFrame ==
  ASSUME IInv, NEW t \in Tasks, Watched(t), NEW r, RunsBut(r),
         r \in DOMAIN runs => runs[r].task # t \/ runs[r].review # 0,
         \A q \in RunIds : q \in RunsOf(t) /\ answer[q] = "unspawned" =>
                             answer'[q] = "unspawned",
         pc' = "link" => UNCHANGED <<pc, cur>>,
         Held(t) => Held(t)'
  PROVE  Watched(t)'
<1>1. Unspawned(t) => Unspawned(t)'
  BY DEF Unspawned, RunsOf, RunsBut
<1>2. Worked(t) => Worked(t)'
  BY DEF Worked, WorkRuns, RunsOf, RunsBut
<1>. QED
  BY <1>1, <1>2 DEF Watched

\* The same when no row changes its status at all.
LEMMA WatchStill ==
  ASSUME IInv, NEW t \in Tasks, Watched(t),
         UNCHANGED runs \/ \E q \in DOMAIN runs : RunsStay(q, runs[q].review),
         \A q \in RunIds : q \in RunsOf(t) /\ answer[q] = "unspawned" =>
                             answer'[q] = "unspawned",
         pc' = "link" => UNCHANGED <<pc, cur>>,
         Held(t) => Held(t)'
  PROVE  Watched(t)'
<1>1. 0 \notin DOMAIN runs
  BY DEF IInv, Parts, LedgerOK
<1>2. RunsBut(0)
  BY DEF RunsBut, RunsStay
<1>. QED
  BY <1>1, <1>2, WatchFrame

\* A tick takes over a running task before it ends or starts a run for it.
LEMMA WatchTick ==
  ASSUME IInv, HandOK, Tick, NEW t \in Tasks, tasks'[t].status = "running",
         tasks[t].status = "running" => Watched(t)
  PROVE  Watched(t)'
<1>0. /\ LedgerOK /\ DeskOK /\ WrapperOK /\ AnswerOK /\ LaunchOK
      /\ DOMAIN runs \subseteq RunIds
  BY RunInBounds DEF IInv, Parts, HandOK
<1>1. UNCHANGED answer
  BY DEF Tick, TickPromote, TickSelect, WorkClaim, WorkBadPath, WorkStartRun,
         Spawn, SpawnFails, SpawnFailed, RecordPid, ListReviews, ReviewClaim,
         ReviewBadPath, ReviewStartRun, ReviewLink, ListRuns, ScanAlive,
         ScanStalled, MarkTaskStalled, FailStalledReview, TickEnd, callers
<1>2. ASSUME NoneRunning, ~ Held(t), UNCHANGED runs, pc' # "link"
      PROVE  Watched(t)'
    BY <1>1, <1>2, WatchStill DEF NoneRunning
<1>3. ASSUME NEW u \in Tasks, WorkClaim(u)
      PROVE  Watched(t)'
  <2>1. CASE UNCHANGED ledger /\ UNCHANGED <<pc, cur>>
    BY <1>1, <1>3, <2>1, WatchStill DEF ledger, Held
  <2>2. CASE ClaimTask(u) /\ pc' = "claimed" /\ cur'.task = u
    <3>1. TaskTakes(u, "running") /\ UNCHANGED runs
      BY <1>0, <2>2, WithTaskTakes DEF ClaimTask
    <3>2. CASE t = u
      BY <2>2, <3>2 DEF Watched, Held
    <3>3. CASE t # u
      BY <1>1, <1>3, <2>2, <3>1, <3>3, WatchStill DEF TaskTakes, WorkClaim, Held
    <3>. QED
      BY <3>2, <3>3
  <2>. QED
    BY <1>3, <2>1, <2>2 DEF WorkClaim, NoCur
<1>4. CASE WorkBadPath
  <2>1. cur.task \in Tasks /\ tasks' = WithTask(cur.task, "failed")
        /\ UNCHANGED runs /\ pc' = "work"
    BY <1>0, <1>4 DEF WorkBadPath, CompleteRun, DeskOK
  <2>2. TaskTakes(cur.task, "failed")
    BY <1>0, <2>1, WithTaskTakes
  <2>. QED
    BY <1>1, <2>1, <2>2, WatchStill DEF TaskTakes, Held
<1>5. CASE Starting
  <2>1. cur.task \in Tasks /\ UNCHANGED tasks /\ cur' = [cur EXCEPT !.run = Len(runs) + 1]
    BY <1>0, <1>5 DEF Starting, WorkStartRun, ReviewStartRun, StartRun, DeskOK
  <2>2. RunStarts(cur.task)
    BY <1>0, <1>5, <2>1, StartRunStarts DEF Starting, WorkStartRun, ReviewStartRun
  <2>3. cur'.run = Len(runs) + 1
    BY <1>0, <2>1 DEF DeskOK
  <2>4. Unspawned(t) => Unspawned(t)'
    BY <1>1, <2>2 DEF Unspawned, RunsOf, RunStarts
  <2>5. pc # "link" /\ (Worked(t) => Worked(t)')
    BY <1>5, <2>2, <2>3
    DEF Worked, WorkRuns, RunsOf, RunStarts, Starting, WorkStartRun, ReviewStartRun
  <2>6. CASE Held(t)
    <3>1. pc' = "launch" /\ t = cur.task
      BY <1>5, <2>6 DEF Held, Starting, WorkStartRun, ReviewStartRun
    <3>2. Worked(t)'
      BY <2>2, <3>1 DEF Worked, WorkRuns, RunsOf, RunStarts
    <3>. QED
      BY <3>2 DEF Watched
  <2>. QED
    BY <2>1, <2>4, <2>5, <2>6 DEF Watched
<1>6. CASE ReviewLink
  <2>1. /\ pc = "link" /\ pc' = "launch" /\ UNCHANGED <<cur, tasks>>
        /\ SetRunReview(cur.run, cur.review)
    BY <1>6 DEF ReviewLink, SetRunReview
  <2>2. cur.run \in DOMAIN runs /\ cur.review \in Nat
    BY <1>0, <2>1 DEF DeskOK, LedgerOK
  <2>3. RunsStay(cur.run, cur.review)
    BY <1>0, <2>1, <2>2, SetRunReviewStays
  <2>4. ~ Held(t) /\ (Worked(t) => Worked(t)')
    BY <2>1, <2>3 DEF Held, Worked, WorkRuns, RunsOf, RunsStay
  <2>5. Unspawned(t) => Unspawned(t)'
    BY <1>1, <2>3 DEF Unspawned, RunsOf, RunsStay
  <2>. QED
    BY <2>1, <2>4, <2>5 DEF Watched
<1>7. CASE SpawnFails
  <2>1. /\ cur.run \in DOMAIN runs /\ pc = "launch" /\ pc' = "unspawned"
        /\ UNCHANGED <<cur, tasks>> /\ runs[cur.run].task = cur.task
        /\ (cur.review = 0 <=> runs[cur.run].review = 0)
    BY <1>0, <1>7 DEF SpawnFails, FinishRun, DeskOK, LaunchOK
  <2>2. RunsBut(cur.run)
    BY <1>0, <1>7, <2>1, ButRuns DEF SpawnFails
  <2>3. CASE cur.task = t /\ cur.review = 0
    BY <2>1, <2>3 DEF Watched, Held
  <2>4. CASE cur.task # t \/ cur.review # 0
    BY <1>1, <2>1, <2>2, <2>4, WatchFrame DEF Held
  <2>. QED
    BY <2>3, <2>4
<1>8. CASE SpawnFailed
  <2>1. cur.task \in Tasks /\ UNCHANGED runs /\ pc = "unspawned" /\ pc' # "link"
    BY <1>0, <1>8 DEF SpawnFailed, CompleteRun, SetReviewStatus, DeskOK, Loop
  <2>2. CASE cur.review = 0
    <3>1. TaskTakes(cur.task, "failed")
      BY <1>0, <1>8, <2>1, <2>2, WithTaskTakes DEF SpawnFailed, CompleteRun
    <3>. QED
      BY <1>1, <2>1, <3>1, WatchStill DEF TaskTakes, Held
  <2>3. CASE cur.review # 0
    BY <1>2, <1>8, <2>1, <2>3 DEF SpawnFailed, SetReviewStatus, NoneRunning, Held
  <2>. QED
    BY <2>2, <2>3
<1>9. CASE RecordPid
  <2>1. /\ cur.run \in DOMAIN runs /\ wrapper[cur.run].pid \in Nat
        /\ pc = "spawned" /\ pc' # "link" /\ UNCHANGED tasks
        /\ SetRunPid(cur.run, wrapper[cur.run].pid)
    BY <1>0, <1>9 DEF RecordPid, DeskOK, WrapperOK, Loop, SetRunPid
  <2>2. RunsStay(cur.run, runs[cur.run].review)
    BY <1>0, <2>1, SetRunPidStays
  <2>. QED
    BY <1>1, <2>1, <2>2, WatchStill DEF Held
<1>10. ASSUME NEW x \in scan, ScanStalled(x)
       PROVE  Watched(t)'
  <2>1. /\ x.run \in DOMAIN runs /\ pc = "scan" /\ pc' = "stalled"
        /\ UNCHANGED tasks /\ cur'.task = runs[x.run].task
    BY <1>0, <1>10 DEF ScanStalled, FinishRun, DeskOK
  <2>2. RunsBut(x.run)
    BY <1>0, <1>10, <2>1, ButRuns DEF ScanStalled
  <2>3. CASE runs[x.run].task = t
    BY <2>1, <2>3 DEF Watched, Held
  <2>4. CASE runs[x.run].task # t
    BY <1>1, <2>1, <2>2, <2>4, WatchFrame DEF Held
  <2>. QED
    BY <2>3, <2>4
<1>11. CASE MarkTaskStalled
  <2>1. cur.task \in Tasks /\ UNCHANGED runs /\ pc' = "unreview" /\ StallTask(cur.task)
    BY <1>0, <1>11 DEF MarkTaskStalled, StallTask, DeskOK
  <2>2. tasks[t].status = "running" /\ t # cur.task
    <3>1. CASE tasks[cur.task].status = "running"
      <4>1. TaskTakes(cur.task, "stalled")
        BY <1>0, <2>1, <3>1, WithTaskTakes DEF StallTask
      <4>. QED
        BY <2>1, <4>1 DEF TaskTakes
    <3>2. CASE tasks[cur.task].status # "running"
      BY <2>1, <3>2 DEF StallTask
    <3>. QED
      BY <3>1, <3>2
  <2>. QED
    BY <1>1, <2>1, <2>2, WatchStill DEF Held
<1>12. CASE \/ TickPromote \/ TickSelect \/ Spawn \/ ListReviews \/ ListRuns
            \/ TickEnd \/ ReviewBadPath \/ FailStalledReview
  <2>1. ~ Held(t) /\ pc' # "link" /\ UNCHANGED runs
    BY <1>12
    DEF TickPromote, PromoteWaiting, TickSelect, Spawn, ListReviews, ListRuns,
        TickEnd, ReviewBadPath, FailStalledReview, SetReviewStatus, ledger, Held
  <2>2. NoneRunning
    BY <1>0, <1>12, MovesNotRunning
    DEF TickPromote, PromoteWaiting, TickSelect, Spawn, ListReviews, ListRuns,
        TickEnd, ReviewBadPath, FailStalledReview, SetReviewStatus, ledger
  <2>. QED
    BY <1>2, <2>1, <2>2
<1>13. ASSUME \/ \E v \in desk : ReviewClaim(v)
              \/ \E x \in scan : ScanAlive(x)
       PROVE  Watched(t)'
  <2>1. ~ Held(t) /\ pc' # "link" /\ UNCHANGED <<runs, tasks>>
    BY <1>13 DEF ReviewClaim, ClaimReview, ScanAlive, ledger, Held
  <2>. QED
    BY <1>2, <2>1 DEF NoneRunning
<1>. QED
  BY <1>3, <1>4, <1>5, <1>6, <1>7, <1>8, <1>9, <1>10, <1>11, <1>12, <1>13
  DEF Tick, Starting

\* The stop ends the run it read, whose task it has in hand.
LEMMA WatchStop ==
  ASSUME IInv, HandOK, Stop, NEW t \in Tasks, tasks'[t].status = "running",
         tasks[t].status = "running" => Watched(t)
  PROVE  Watched(t)'
<1>0. LedgerOK /\ DeskOK /\ StopHand /\ UNCHANGED answer
  BY DEF IInv, Parts, HandOK, Stop, StopKill, StopFinishRun, StopRequeue, callers
<1>1. CASE StopKill
  BY <1>0, <1>1, WatchStill DEF StopKill, ledger, Held
<1>2. CASE StopFinishRun
  <2>1. /\ cur.run \in DOMAIN runs /\ runs[cur.run].task = cur.task
        /\ pc = "killed" /\ pc' = "stalled" /\ UNCHANGED <<cur, tasks>>
    BY <1>0, <1>2 DEF StopFinishRun, FinishRun, DeskOK, StopHand
  <2>2. RunsBut(cur.run)
    BY <1>0, <1>2, <2>1, ButRuns DEF StopFinishRun
  <2>3. CASE cur.task = t
    BY <2>1, <2>3 DEF Watched, Held
  <2>4. CASE cur.task # t
    BY <1>0, <2>1, <2>2, <2>4, WatchFrame DEF Held
  <2>. QED
    BY <2>3, <2>4
<1>3. CASE StopRequeue
  <2>1. cur.task \in Tasks /\ UNCHANGED runs /\ pc = "requeue" /\ pc' = "idle"
    BY <1>0, <1>3 DEF StopRequeue, MarkManual, RetryTask, ledger, DeskOK
  <2>2. NoneRunning
    BY <1>0, <1>3, <2>1, MovesNotRunning DEF StopRequeue, MarkManual, RetryTask, ledger
  <2>. QED
    BY <1>0, <2>1, <2>2, WatchStill DEF NoneRunning, Held
<1>. QED
  BY <1>1, <1>2, <1>3 DEF Stop

\* The owner's other actions set no task to 'running'.
LEMMA OwnerNoneRunning ==
  ASSUME LedgerOK, Owner, ~ Reopening
  PROVE  NoneRunning
<1>1. ASSUME NEW t \in Tasks, NEW keep \in BOOLEAN, StopRead(t, keep)
      PROVE  NoneRunning
  BY <1>1, MovesNotRunning DEF StopRead, ledger
<1>2. ASSUME NEW t \in Tasks, EditGate(t)
      PROVE  NoneRunning
  <2>1. \A u \in Tasks : u # t => tasks'[u] = tasks[u]
    BY <1>2 DEF EditGate, LedgerOK
  <2>2. tasks'[t] \in {Gated(Moved(tasks[t], "ready"), FALSE),
                       Gated(tasks[t], ~ tasks[t].gate)}
    BY <1>2 DEF EditGate, LedgerOK
  <2>3. tasks[t] \in TaskRow
    BY DEF LedgerOK
  <2>4. tasks'[t].status \in {"ready", tasks[t].status}
    BY <2>2, <2>3, Zenon DEF Gated, Moved, TaskRow
  <2>. QED
    BY <2>1, <2>4 DEF NoneRunning
<1>3. ASSUME NEW t \in Tasks, OwnerFeedback(t)
      PROVE  NoneRunning
  <2>1. \A u \in Tasks :
          tasks'[u] \in {tasks[u], Moved(tasks[u], "rework"),
                         Moved(tasks[u], "waiting_approval")}
    BY <1>3 DEF OwnerFeedback
  <2>2. \A u \in Tasks :
          tasks'[u].status \in {tasks[u].status, "rework", "waiting_approval"}
    BY <2>1 DEF Moved
  <2>. QED
    BY <2>2 DEF NoneRunning
<1>4. ASSUME NEW t \in Tasks, OwnerEdit(t)
      PROVE  NoneRunning
  BY <1>2, <1>3, <1>4, MovesNotRunning
  DEF OwnerEdit, MarkReady, RetryTask, MarkManual, CloseOrphanReview
<1>5. ASSUME NEW t \in Tasks, OwnerClose(t) \/ OwnerWaive(t) \/ OwnerVerdict(t)
      PROVE  NoneRunning
  BY <1>5, MovesNotRunning
  DEF OwnerClose, CloseByOwner, OwnerWaive, WaiveReview, OwnerVerdict,
      ReviewVerdict, ApproveReview, RequestChanges
<1>. QED
  BY <1>1, <1>4, <1>5 DEF Owner, Reopening

\* An answer resumes a blocked run, which is not the one just started.
LEMMA WatchOwner ==
  ASSUME IInv, FreshOK, Owner, Calm', NEW t \in Tasks,
         tasks'[t].status = "running",
         tasks[t].status = "running" => Watched(t)
  PROVE  Watched(t)'
<1>0. LedgerOK /\ DeskOK /\ AnswerOK
  BY DEF IInv, Parts
<1>1. CASE ~ Reopening
  <2>1. UNCHANGED <<runs, answer, pc, cur>>
    <3>1. UNCHANGED runs
      BY <1>1, OwnerQuiet DEF Reopening
    <3>. QED
      BY <1>1, <3>1
      DEF Owner, Reopening, StopRead, OwnerEdit, OwnerClose, OwnerWaive,
          OwnerVerdict, ReviewVerdict, callers, tick
  <2>. QED
    BY <1>0, <1>1, <2>1, OwnerNoneRunning, WatchStill DEF NoneRunning, Held
<1>2. ASSUME NEW r \in RunIds, Answer(r)
      PROVE  Watched(t)'
  <2>1. /\ r \in DOMAIN runs /\ runs[r].status = "blocked"
        /\ ResumeBlockedRun(r) /\ answer[r] = "none"
        /\ answer' = [answer EXCEPT ![r] = "resumed"]
        /\ r \in resumed' /\ UNCHANGED <<pc, cur>>
    BY <1>2 DEF Answer, ResumeBlockedRun, tick
  <2>2. RunsBut(r)
    BY <1>0, <2>1, ButRuns
  <2>3. runs[r].task \in Tasks /\ runs[r] \in RunRow
    BY <1>0, <2>1, RowType DEF LedgerOK
  <2>4. TaskTakes(runs[r].task, "running")
    BY <1>0, <2>1, <2>3, WithTaskTakes DEF ResumeBlockedRun
  <2>5. runs'[r].status = "running"
    <3>1. [runs[r] EXCEPT !.status = "running"] \in RunRow
          /\ [runs[r] EXCEPT !.status = "running"].status = "running"
      BY <2>3, Zenon DEF RunRow, RunStatus
    <3>. QED
      BY <1>0, <2>1, <3>1, RunUpdate DEF ResumeBlockedRun
  <2>6. CASE runs[r].task = t
    <3>1. runs'[r].review = 0
      BY <2>1 DEF Calm
    <3>2. ~ (pc = "link" /\ r = cur.run)
      BY <2>1 DEF FreshOK
    <3>3. Worked(t)'
      BY <2>1, <2>2, <2>5, <2>6, <3>1, <3>2 DEF Worked, WorkRuns, RunsOf, RunsBut
    <3>. QED
      BY <3>3 DEF Watched
  <2>7. CASE runs[r].task # t
    <3>1. Watched(t)
      BY <2>4, <2>7 DEF TaskTakes
    <3>2. \A q \in RunIds : q # r => answer'[q] = answer[q]
      BY <1>0, <2>1 DEF AnswerOK
    <3>. QED
      BY <2>1, <2>2, <2>7, <3>1, <3>2, WatchFrame DEF Held
  <2>. QED
    BY <2>6, <2>7
<1>. QED
  BY <1>1, <1>2 DEF Reopening

\* Who ends a work run moves its task in the same transaction, or has it in
\* hand.
LEMMA WatchOthers ==
  ASSUME IInv, NEW r \in RunIds, Resuming(r) \/ Wrapper(r) \/ Agent(r),
         NEW t \in Tasks, tasks'[t].status = "running",
         tasks[t].status = "running" => Watched(t)
  PROVE  Watched(t)'
<1>0. /\ LedgerOK /\ AnswerOK /\ r \in DOMAIN runs /\ runs[r].task \in Tasks
      /\ RunsBut(r) /\ ProcessBut(r) /\ UNCHANGED <<pc, cur>>
  BY WrapperTouches, RowType DEF IInv, Parts, tick
<1>1. ASSUME NoneRunning, UNCHANGED runs \/ SetRunPid(r, wrapper[r].pid),
             answer[r] # "unspawned" \/ answer'[r] = "unspawned"
      PROVE  Watched(t)'
  <2>1. wrapper[r].pid \in Nat
    BY DEF IInv, Parts, WrapperOK
  <2>2. UNCHANGED runs \/ RunsStay(r, runs[r].review)
    BY <1>0, <1>1, <2>1, SetRunPidStays
  <2>. QED
    BY <1>0, <1>1, <2>2, WatchStill DEF NoneRunning, ProcessBut, Held
<1>2. ASSUME NoneRunning, runs[r].task # t
      PROVE  Watched(t)'
  BY <1>0, <1>2, WatchFrame DEF NoneRunning, ProcessBut, RunsOf, Held
<1>3. ASSUME FailRun(r), UNCHANGED answer \/ answer[r] # "unspawned"
      PROVE  Watched(t)'
  <2>1. CASE runs[r].status = "running"
    <3>1. TaskTakes(runs[r].task, "failed")
      BY <1>0, <1>3, <2>1, WithTaskTakes DEF FailRun
    <3>. QED
      BY <1>2, <3>1 DEF TaskTakes, NoneRunning
  <2>2. CASE runs[r].status # "running"
    BY <1>1, <1>3, <2>2 DEF FailRun, Finished, NoneRunning
  <2>. QED
    BY <2>1, <2>2
<1>4. CASE Resuming(r)
  <2>1. CASE AnswerSetupFails(r)
    BY <1>3, <2>1 DEF AnswerSetupFails, AnswerStep
  <2>2. CASE AnswerSpawn(r) \/ AnswerRecordPid(r)
    <3>1. answer[r] # "unspawned"
      BY <2>2 DEF AnswerSpawn, AnswerRecordPid, AnswerStep
    <3>. QED
      BY <1>1, <2>2, <3>1
      DEF AnswerSpawn, AnswerRecordPid, SetRunPid, ledger, NoneRunning
  <2>3. CASE AnswerSpawnFails(r)
    <3>1. UNCHANGED tasks /\ answer'[r] = "unspawned"
      BY <1>0, <2>3 DEF AnswerSpawnFails, AnswerStep, FinishRun, AnswerOK
    <3>2. CASE runs[r].task = t
      BY <1>0, <3>1, <3>2 DEF Watched, Unspawned, RunsOf, RunsBut
    <3>. QED
      BY <1>2, <3>1, <3>2 DEF NoneRunning
  <2>4. CASE AnswerSpawnFailed(r)
    <3>1. TaskTakes(runs[r].task, "failed")
      BY <1>0, <2>4, WithTaskTakes DEF AnswerSpawnFailed, CompleteRun
    <3>. QED
      BY <1>2, <3>1 DEF TaskTakes, NoneRunning
  <2>. QED
    BY <1>4, <2>1, <2>2, <2>3, <2>4 DEF Resuming
<1>5. CASE Boot(r) \/ CloseReview(r) \/ Reap(r) \/ Question(r)
  BY <1>1, <1>5
  DEF Boot, CloseReview, CloseReviewRun, Reap, Question, NoteQuestion,
      WrapperStep, ledger, callers, NoneRunning
<1>6. CASE BriefUnreadable(r)
  BY <1>3, <1>6 DEF BriefUnreadable, WrapperStep
<1>7. ASSUME NEW report \in {"done", "manual", "blocked", "failed", "dirty"},
             FinalizeWork(r, report)
      PROVE  Watched(t)'
  <2>. DEFINE u == runs[r].task
              s == TaskAfter(u, report)
  <2>1. s # "running"
    BY DEF TaskAfter
  <2>2. PICK g : tasks' = [tasks EXCEPT ![u] = Gated(Moved(@, s), g)]
    BY <1>7 DEF FinalizeWork, RecordCompletion
  <2>3. tasks'[u] = Gated(Moved(tasks[u], s), g)
        /\ \A w \in Tasks : w # u => tasks'[w] = tasks[w]
    BY <1>0, <2>2 DEF LedgerOK
  <2>4. tasks'[u].status = s
    BY <2>3 DEF Gated, Moved
  <2>. HIDE DEF s, u
  <2>5. t # u /\ NoneRunning
    BY <2>1, <2>3, <2>4 DEF NoneRunning
  <2>. QED
    BY <1>2, <2>5 DEF u
<1>8. ASSUME NEW report \in {"done", "blocked", "failed"},
             FinalizeReview(r, report)
      PROVE  Watched(t)'
  BY <1>0, <1>8, WatchFrame
  DEF FinalizeReview, FinishRun, WrapperStep, ProcessBut, Held
<1>9. CASE Verdict(r)
  <2>1. NoneRunning /\ UNCHANGED <<runs, answer>>
    BY <1>0, <1>9, MovesNotRunning
    DEF Verdict, ReviewVerdict, ApproveReview, RequestChanges
  <2>. QED
    BY <1>1, <2>1
<1>. QED
  BY <1>4, <1>5, <1>6, <1>7, <1>8, <1>9 DEF Wrapper, Agent

\* Crashes are counted, and only they are.
LEMMA CrashCounts ==
  ASSUME IInv, Next
  PROVE  /\ ~ Crashing => UNCHANGED crashes
         /\ Crashing => crashes' = crashes - 1
<1>1. CASE Tick
  BY <1>1 DEF Tick, TickPromote, TickSelect, WorkClaim, WorkBadPath,
         WorkStartRun, Spawn, SpawnFails, SpawnFailed, RecordPid, ListReviews,
         ReviewClaim, ReviewBadPath, ReviewStartRun, ReviewLink, ListRuns,
         ScanAlive, ScanStalled, MarkTaskStalled, FailStalledReview, TickEnd,
         Fault, budget, Crashing, ServiceCrash, TickAborts, CallerCrash,
         WrapperCrash, Crash
<1>2. CASE Stop \/ \E t \in Tasks : Caller(t)
  BY <1>2 DEF Stop, StopKill, StopFinishRun, StopRequeue, Caller, Land, Promote,
              budget, Crashing, ServiceCrash, TickAborts, CallerCrash,
              WrapperCrash, Crash
<1>3. CASE Owner
  BY <1>3 DEF Owner, StopRead, OwnerEdit, OwnerClose, OwnerWaive, OwnerVerdict,
              Answer, OwnerOp, Crashing, ServiceCrash, TickAborts, CallerCrash,
              WrapperCrash, Crash
<1>4. CASE Crashing
  BY <1>4 DEF Crashing, ServiceCrash, TickAborts, CallerCrash, WrapperCrash, Crash
<1>5. ASSUME NEW r \in RunIds, Resuming(r) \/ Wrapper(r) \/ Agent(r)
      PROVE  UNCHANGED crashes
  BY <1>5, WrapperTouches
<1>6. Crashing => crashes' = crashes - 1
  BY DEF Crashing, ServiceCrash, TickAborts, CallerCrash, WrapperCrash, Crash
<1>. QED
  BY <1>1, <1>2, <1>3, <1>4, <1>5, <1>6 DEF Next

\* A calm state was reached by calm states only.
LEMMA CalmBefore ==
  ASSUME IInv, Next, Calm'
  PROVE  Calm /\ ~ Crashing
<1>1. crashes \in Int /\ crashes <= MaxCrashes
  BY EngineAssumption DEF IInv, Parts, BudgetOK
<1>2. ~ Crashing /\ crashes = MaxCrashes
  BY <1>1, CrashCounts DEF Calm
<1>3. resumed \subseteq resumed'
  <2>1. CASE Tick \/ Stop
    BY <2>1 DEF Tick, TickPromote, TickSelect, WorkClaim, WorkBadPath,
         WorkStartRun, Spawn, SpawnFails, SpawnFailed, RecordPid, ListReviews,
         ReviewClaim, ReviewBadPath, ReviewStartRun, ReviewLink, ListRuns,
         ScanAlive, ScanStalled, MarkTaskStalled, FailStalledReview, TickEnd,
         Stop, StopKill, StopFinishRun, StopRequeue, callers
  <2>2. CASE Owner \/ \E t \in Tasks : Caller(t)
    BY <2>2 DEF Owner, StopRead, OwnerEdit, OwnerClose, OwnerWaive,
                OwnerVerdict, ReviewVerdict, Answer, Caller, Land, Promote, callers
  <2>. QED
    BY <1>2, <2>1, <2>2, WrapperTouches DEF Next
<1>4. \A r \in resumed : runs'[r].review = 0 => runs[r].review = 0
  <2>1. resumed \subseteq DOMAIN runs
    BY DEF IInv, Parts, AnswerOK
  <2>2. CASE ReviewLink
    <3>1. pc = "link" /\ SetRunReview(cur.run, cur.review)
      BY <2>2 DEF ReviewLink
    <3>2. cur.run \in DOMAIN runs /\ cur.review \in DOMAIN reviews
      BY <3>1 DEF IInv, Parts, DeskOK
    <3>3. cur.review \in Nat \ {0}
      BY <3>2 DEF IInv, Parts, LedgerOK
    <3>4. RunsStay(cur.run, cur.review)
      BY <3>1, <3>2, <3>3, SetRunReviewStays DEF IInv, Parts
    <3>. QED
      BY <2>1, <3>3, <3>4 DEF RunsStay
  <2>. QED
    BY <2>1, <2>2, StepRunsKept DEF RunsKept
<1>. QED
  BY <1>2, <1>3, <1>4 DEF Calm

LEMMA WatchKeeps ==
  ASSUME IInv, HandOK, FreshOK, WatchInv, [Next]_vars
  PROVE  WatchInv'
<1>1. CASE UNCHANGED vars
  BY <1>1 DEF vars, ledger, tick, callers, budget, WatchInv, Calm, Watched,
              Held, Unspawned, Worked, WorkRuns, RunsOf
<1>2. ASSUME Next, Calm', NEW t \in Tasks, tasks'[t].status = "running"
      PROVE  Watched(t)'
  <2>1. ~ Crashing /\ (tasks[t].status = "running" => Watched(t))
    BY <1>2, CalmBefore DEF WatchInv
  <2>2. ASSUME NEW u \in Tasks, Caller(u)
        PROVE  Watched(t)'
    <3>1. NoneRunning /\ UNCHANGED <<runs, answer, pc, cur>>
      BY <2>2, MovesNotRunning
      DEF Caller, Land, Promote, RefuseLanding, PromoteDependents, ledger,
          tick, IInv, Parts
    <3>. QED
      BY <1>2, <2>1, <3>1, WatchStill DEF NoneRunning, Held
  <2>. QED
    BY <1>2, <2>1, <2>2, WatchTick, WatchStop, WatchOwner, WatchOthers DEF Next
<1>. QED
  BY <1>1, <1>2 DEF WatchInv

\* What is in hand belongs together, and the run just started is untouched.
LEMMA DispatchInvariant == Spec => [](IInv /\ HandOK /\ FreshOK)
<1>1. Init => IInv /\ HandOK /\ FreshOK
  BY InitHolds, HandHolds, FreshHolds
<1>2. IInv /\ HandOK /\ FreshOK /\ [Next]_vars => (IInv /\ HandOK /\ FreshOK)'
  BY NextKeeps, HandKeeps, FreshKeeps
<1>. QED
  BY <1>1, <1>2, PTL DEF Spec

\* As long as nothing crashed and only work runs were answered, a running task
\* has a running work run, or the lock holder or an answer has it in hand: the
\* paths to and from 'running' overlap without a gap.
THEOREM NoTaskForgotten == Spec => []RunningTaskWatched
<1>1. Init => WatchInv
  BY DEF Init, WatchInv
<1>2. IInv /\ HandOK /\ FreshOK /\ WatchInv /\ [Next]_vars => WatchInv'
  BY WatchKeeps
<1>3. IInv /\ WatchInv => RunningTaskWatched
  <2>. SUFFICES ASSUME IInv, WatchInv, Calm, NEW t \in Tasks,
                       tasks[t].status = "running"
                PROVE  InHand(t) \/ \E r \in WorkRuns(t) : runs[r].status = "running"
    BY DEF RunningTaskWatched, Calm
  <2>1. Watched(t)
    BY DEF WatchInv
  <2>. QED
    BY <2>1 DEF Watched, Held, Unspawned, Worked, InHand
<1>. QED
  BY <1>1, <1>2, <1>3, DispatchInvariant, PTL DEF Spec

-----------------------------------------------------------------------------
(* What a task may cost *)

\* Every owner action and every crash is worth one more run.
Spent == (MaxOwnerOps - ownerOps) + (MaxCrashes - crashes)
One(b) == IF b THEN 1 ELSE 0

\* The work runs a task has used, and the ways to the next one.
Paid(t) == {r \in WorkRuns(t) : pc = "link" => r # cur.run}
Waits(t) == tasks[t].status \in {"planned", "waiting_approval", "ready", "rework"}
AtDesk(t) == pc = "claimed" /\ cur.task = t
InStop(t) == stop.phase # "none" /\ stop.task = t

Due(t) ==
  Cardinality(Paid(t)) + One(Waits(t)) + One(AtDesk(t)) + One(InStop(t))

InBudget(t) ==
  Due(t) <= MaxRework + Spent /\ Due(t) <= 1 + tasks[t].reworks + Spent

BudgetInv == \A t \in Tasks : InBudget(t)

ReworksGrow == \A t \in Tasks : tasks[t].reworks <= tasks'[t].reworks

\* All runs keep their task and review.
RunsLinked ==
  /\ DOMAIN runs' = DOMAIN runs
  /\ \A q \in DOMAIN runs :
       runs'[q].task = runs[q].task /\ runs'[q].review = runs[q].review

LEMMA PaidFinite ==
  ASSUME LedgerOK, NEW t
  PROVE  IsFiniteSet(Paid(t)) /\ Cardinality(Paid(t)) \in Nat
<1>1. DOMAIN runs = 1..Len(runs) /\ Len(runs) \in Nat
  BY DEF LedgerOK
<1>2. IsFiniteSet(1..Len(runs))
  BY <1>1, FS_Interval
<1>3. Paid(t) \subseteq 1..Len(runs)
  BY <1>1 DEF Paid, WorkRuns, RunsOf
<1>. QED
  BY <1>2, <1>3, FS_Subset, FS_CardinalityType

LEMMA PaidStays ==
  ASSUME RunsLinked, NEW t,
         pc = "link" \/ pc' = "link" => UNCHANGED <<pc, cur>>
  PROVE  Paid(t)' = Paid(t)
BY DEF RunsLinked, Paid, WorkRuns, RunsOf

\* The arithmetic of a step: what Due gains is spent or reworked.
LEMMA BudgetMoves ==
  ASSUME IInv, IInv', NEW t \in Tasks, InBudget(t), NEW k \in 0..1,
         Paid(t)' = Paid(t), tasks[t].reworks <= tasks'[t].reworks,
         One(Waits(t)') + One(AtDesk(t)') + One(InStop(t)')
           <= One(Waits(t)) + One(AtDesk(t)) + One(InStop(t)) + k,
         Spent + k <= Spent'
  PROVE  InBudget(t)'
<1>1. /\ tasks[t].reworks \in Nat /\ tasks'[t].reworks \in Nat
      /\ Cardinality(Paid(t)) \in Nat
  BY PaidFinite DEF IInv, Parts, LedgerOK, TaskRow
<1>2. /\ ownerOps \in Int /\ crashes \in Int /\ ownerOps' \in Int
      /\ crashes' \in Int /\ MaxOwnerOps \in Int /\ MaxCrashes \in Int
      /\ MaxRework \in Int
  BY EngineAssumption, LedgerAssumption DEF IInv, Parts, BudgetOK
<1>3. Spent \in Int /\ Spent' \in Int
  BY <1>2 DEF Spent
<1>4. Due(t)' <= Due(t) + k /\ Due(t) \in Int /\ Due(t)' \in Int
  <2>1. Due(t) = Cardinality(Paid(t)) + One(Waits(t)) + One(AtDesk(t)) + One(InStop(t))
    BY DEF Due
  <2>2. Due(t)' = Cardinality(Paid(t)') + One(Waits(t)') + One(AtDesk(t)') + One(InStop(t)')
    BY DEF Due, One
  <2>3. \A b : One(b) \in Int
    BY DEF One
  <2>. QED
    BY <1>1, <2>1, <2>2, <2>3
<1>. QED
  BY <1>1, <1>2, <1>3, <1>4 DEF InBudget

\* Nothing is gained.
LEMMA BudgetStays ==
  ASSUME IInv, IInv', NEW t \in Tasks, InBudget(t), RunsLinked, ReworksGrow,
         pc = "link" \/ pc' = "link" => UNCHANGED <<pc, cur>>,
         Waits(t)' => Waits(t), AtDesk(t)' => AtDesk(t), InStop(t)' => InStop(t),
         Spent <= Spent'
  PROVE  InBudget(t)'
<1>1. Paid(t)' = Paid(t)
  BY PaidStays
<1>2. One(Waits(t)') + One(AtDesk(t)') + One(InStop(t)')
        <= One(Waits(t)) + One(AtDesk(t)) + One(InStop(t)) + 0
  BY DEF One
<1>3. Spent \in Int
  BY EngineAssumption DEF IInv, Parts, BudgetOK, Spent
<1>. QED
  BY <1>1, <1>2, <1>3, BudgetMoves DEF ReworksGrow

\* A moved or promoted task keeps its count of reworks or adds to it.
LEMMA MovesRework ==
  ASSUME LedgerOK,
         \/ UNCHANGED tasks \/ \E P : tasks' = Promoted(P)
         \/ \E t \in Tasks : \E s : tasks' = WithTask(t, s)
  PROVE  ReworksGrow
<1>0. \A t \in Tasks : tasks[t].reworks \in Nat
  BY DEF LedgerOK, TaskRow
<1>1. CASE UNCHANGED tasks
  BY <1>0, <1>1 DEF ReworksGrow
<1>2. CASE \E P : tasks' = Promoted(P)
  BY <1>0, <1>2, PromotedMove DEF TasksPromote, ReworksGrow
<1>3. ASSUME NEW t \in Tasks, NEW s, tasks' = WithTask(t, s)
      PROVE  ReworksGrow
  BY <1>0, <1>3, WithTaskTakes DEF TaskTakes, ReworksGrow
<1>. QED
  BY <1>1, <1>2, <1>3

\* Moves that put no task in line for a run: promotion does not, since a task
\* in 'waiting_approval' is in line already.
NoneWaits == \A t \in Tasks : Waits(t)' => Waits(t)

LEMMA MovesNotWaits ==
  ASSUME LedgerOK,
         \/ UNCHANGED tasks \/ \E P : tasks' = Promoted(P)
         \/ \E t \in Tasks : \E s :
              /\ s \notin {"planned", "waiting_approval", "ready", "rework"}
              /\ tasks' = WithTask(t, s)
  PROVE  NoneWaits
<1>1. CASE UNCHANGED tasks
  BY <1>1 DEF NoneWaits, Waits
<1>2. CASE \E P : tasks' = Promoted(P)
  BY <1>2, PromotedMove DEF TasksPromote, Promotable, NoneWaits, Waits
<1>3. ASSUME NEW t \in Tasks, NEW s,
             s \notin {"planned", "waiting_approval", "ready", "rework"},
             tasks' = WithTask(t, s)
      PROVE  NoneWaits
  BY <1>3, WithTaskTakes DEF TaskTakes, NoneWaits, Waits
<1>. QED
  BY <1>1, <1>2, <1>3

\* A claim trades the place in the queue for the desk, a start the desk for a
\* run; a review run is linked before it could count.
LEMMA BudgetTick ==
  ASSUME IInv, IInv', Tick, NEW t \in Tasks, InBudget(t)
  PROVE  InBudget(t)'
<1>0. LedgerOK /\ DeskOK /\ WrapperOK
  BY DEF IInv, Parts
<1>1. UNCHANGED <<stop, ownerOps, crashes>>
  BY DEF Tick, TickPromote, TickSelect, WorkClaim, WorkBadPath, WorkStartRun,
         Spawn, SpawnFails, SpawnFailed, RecordPid, ListReviews, ReviewClaim,
         ReviewBadPath, ReviewStartRun, ReviewLink, ListRuns, ScanAlive,
         ScanStalled, MarkTaskStalled, FailStalledReview, TickEnd, Fault, budget
<1>2. Spent' = Spent /\ Spent \in Int /\ (InStop(t)' => InStop(t))
  BY <1>1, EngineAssumption DEF Spent, InStop, IInv, Parts, BudgetOK
<1>3. ASSUME Quiet, NoneWaits, ReworksGrow, pc # "link", pc' # "link",
             AtDesk(t)' => AtDesk(t)
      PROVE  InBudget(t)'
  <2>1. RunsLinked
    BY <1>3 DEF Quiet, RunsLinked
  <2>. QED
    BY <1>2, <1>3, <2>1, BudgetStays DEF NoneWaits
<1>4. ASSUME NEW u \in Tasks, WorkClaim(u)
      PROVE  InBudget(t)'
  <2>1. UNCHANGED runs /\ pc = "work" /\ pc' # "link"
    BY <1>4 DEF WorkClaim, ClaimTask, ledger
  <2>2. RunsLinked
    BY <2>1 DEF RunsLinked
  <2>3. CASE UNCHANGED ledger /\ UNCHANGED <<pc, cur>>
    <3>1. ReworksGrow /\ NoneWaits
      BY <1>0, <2>3, MovesRework, MovesNotWaits DEF ledger
    <3>. QED
      BY <1>2, <2>1, <2>2, <2>3, <3>1, BudgetStays DEF NoneWaits, AtDesk
  <2>4. CASE ClaimTask(u) /\ pc' = "claimed" /\ cur'.task = u
    <3>1. TaskTakes(u, "running") /\ ReworksGrow /\ NoneWaits
      BY <1>0, <2>4, WithTaskTakes, MovesRework, MovesNotWaits DEF ClaimTask
    <3>2. CASE u = t
      <4>1. Waits(t) /\ ~ AtDesk(t) /\ ~ Waits(t)' /\ AtDesk(t)'
        BY <2>1, <2>4, <3>1, <3>2
        DEF ClaimTask, Claimable, Waits, AtDesk, TaskTakes
      <4>2. Paid(t)' = Paid(t)
        BY <2>1, <2>2, PaidStays
      <4>3. One(Waits(t)') + One(AtDesk(t)') + One(InStop(t)')
              <= One(Waits(t)) + One(AtDesk(t)) + One(InStop(t)) + 0
        BY <1>2, <4>1 DEF One
      <4>. QED
        BY <1>2, <3>1, <4>2, <4>3, BudgetMoves DEF ReworksGrow
    <3>3. CASE u # t
      BY <1>2, <2>1, <2>2, <2>4, <3>1, <3>3, BudgetStays DEF NoneWaits, AtDesk
    <3>. QED
      BY <3>2, <3>3
  <2>. QED
    BY <1>4, <2>3, <2>4 DEF WorkClaim, NoCur
<1>5. CASE WorkStartRun
  <2>1. /\ cur.task \in Tasks /\ UNCHANGED tasks /\ pc = "claimed" /\ pc' = "launch"
        /\ StartRun(cur.task)
    BY <1>0, <1>5 DEF WorkStartRun, StartRun, DeskOK
  <2>2. RunStarts(cur.task)
    BY <1>0, <2>1, StartRunStarts
  <2>3. CASE cur.task = t
    <3>. DEFINE new == Len(runs) + 1
    <3>1. Paid(t)' = Paid(t) \cup {new} /\ new \notin Paid(t)
      BY <2>1, <2>2, <2>3 DEF RunStarts, Paid, WorkRuns, RunsOf
    <3>2. Cardinality(Paid(t)') = Cardinality(Paid(t)) + 1
      <4>. HIDE DEF new
      <4>. QED
        BY <1>0, <3>1, PaidFinite, FS_AddElement
    <3>3. AtDesk(t) /\ ~ AtDesk(t)' /\ UNCHANGED tasks[t]
      BY <2>1, <2>3 DEF AtDesk
    <3>4. /\ One(AtDesk(t)) = 1 /\ One(AtDesk(t)') = 0
          /\ One(Waits(t)') = One(Waits(t)) /\ One(InStop(t)') = One(InStop(t))
      BY <1>1, <3>3 DEF One, Waits, InStop
    <3>5. Due(t) = Cardinality(Paid(t)) + One(Waits(t)) + One(AtDesk(t)) + One(InStop(t))
      BY DEF Due
    <3>6. Due(t)' = Cardinality(Paid(t)') + One(Waits(t)') + One(AtDesk(t)') + One(InStop(t)')
      BY DEF Due, One
    <3>7. One(Waits(t)) \in Int /\ One(InStop(t)) \in Int
          /\ Cardinality(Paid(t)) \in Int
      BY <1>0, PaidFinite DEF One
    <3>8. Due(t)' = Due(t)
      BY <3>2, <3>4, <3>5, <3>6, <3>7
    <3>. QED
      BY <1>2, <3>3, <3>8 DEF InBudget
  <2>4. CASE cur.task # t
    <3>1. Paid(t)' = Paid(t)
      BY <2>1, <2>2, <2>4 DEF RunStarts, Paid, WorkRuns, RunsOf
    <3>2. One(Waits(t)') + One(AtDesk(t)') + One(InStop(t)')
            <= One(Waits(t)) + One(AtDesk(t)) + One(InStop(t)) + 0
      BY <1>1, <2>1 DEF One, Waits, AtDesk, InStop
    <3>3. ReworksGrow
      BY <1>0, <2>1, MovesRework
    <3>. QED
      BY <1>2, <3>1, <3>2, <3>3, BudgetMoves DEF ReworksGrow
  <2>. QED
    BY <2>3, <2>4
<1>6. CASE ReviewStartRun \/ ReviewLink
  <2>1. UNCHANGED tasks /\ pc \in {"assigned", "link"} /\ pc' \in {"link", "launch"}
    BY <1>6 DEF ReviewStartRun, StartRun, ReviewLink, SetRunReview
  <2>2. Paid(t)' = Paid(t)
    <3>1. CASE ReviewStartRun
      <4>. DEFINE new == Len(runs) + 1
      <4>1. /\ cur.task \in Tasks /\ StartRun(cur.task) /\ pc = "assigned"
            /\ pc' = "link" /\ cur' = [cur EXCEPT !.run = new]
        BY <1>0, <3>1 DEF ReviewStartRun, DeskOK
      <4>2. RunStarts(cur.task) /\ cur'.run = new
        BY <1>0, <4>1, StartRunStarts DEF DeskOK
      <4>. QED
        BY <4>1, <4>2 DEF RunStarts, Paid, WorkRuns, RunsOf
    <3>2. CASE ReviewLink
      <4>1. /\ pc = "link" /\ pc' = "launch" /\ UNCHANGED cur
            /\ SetRunReview(cur.run, cur.review)
        BY <3>2 DEF ReviewLink
      <4>2. cur.run \in DOMAIN runs /\ cur.review \in Nat \ {0}
        BY <1>0, <4>1 DEF DeskOK, LedgerOK
      <4>3. RunsStay(cur.run, cur.review)
        BY <1>0, <4>1, <4>2, SetRunReviewStays
      <4>. QED
        BY <4>1, <4>2, <4>3 DEF RunsStay, Paid, WorkRuns, RunsOf
    <3>. QED
      BY <1>6, <3>1, <3>2
  <2>3. One(Waits(t)') + One(AtDesk(t)') + One(InStop(t)')
          <= One(Waits(t)) + One(AtDesk(t)) + One(InStop(t)) + 0
    BY <1>1, <2>1 DEF One, Waits, AtDesk, InStop
  <2>4. ReworksGrow
    BY <1>0, <2>1, MovesRework
  <2>. QED
    BY <1>2, <2>2, <2>3, <2>4, BudgetMoves DEF ReworksGrow
<1>7. CASE WorkBadPath \/ SpawnFailed \/ MarkTaskStalled
  <2>1. cur.task \in Tasks /\ pc # "link" /\ pc' \notin {"link", "claimed"}
    BY <1>0, <1>7 DEF WorkBadPath, SpawnFailed, MarkTaskStalled, DeskOK, Loop
  <2>2. NoneWaits /\ ReworksGrow
    BY <1>0, <1>7, <2>1, MovesNotWaits, MovesRework
    DEF WorkBadPath, SpawnFailed, MarkTaskStalled, CompleteRun, SetReviewStatus,
        StallTask
  <2>3. Quiet
    BY <1>7, <2>1, TickQuiet
    DEF WorkBadPath, SpawnFailed, MarkTaskStalled, Quiet, CompleteRun,
        SetReviewStatus, StallTask
  <2>. QED
    BY <1>3, <2>1, <2>2, <2>3 DEF AtDesk
<1>8. CASE \/ TickPromote \/ TickSelect \/ Spawn \/ SpawnFails \/ RecordPid
           \/ ListReviews \/ ListRuns \/ TickEnd \/ ReviewBadPath
           \/ FailStalledReview
  <2>1. pc \notin {"link", "claimed"} /\ pc' \notin {"link", "claimed"}
    BY <1>8
    DEF TickPromote, TickSelect, Spawn, SpawnFails, RecordPid, ListReviews,
        ListRuns, TickEnd, ReviewBadPath, FailStalledReview, Loop
  <2>2. NoneWaits /\ ReworksGrow
    BY <1>0, <1>8, MovesNotWaits, MovesRework
    DEF TickPromote, PromoteWaiting, TickSelect, Spawn, SpawnFails, FinishRun,
        RecordPid, SetRunPid, ListReviews, ListRuns, TickEnd, ReviewBadPath,
        FailStalledReview, SetReviewStatus, ledger
  <2>3. Quiet
    BY <2>1, TickQuiet DEF WorkStartRun, ReviewStartRun, ReviewLink
  <2>. QED
    BY <1>3, <2>1, <2>2, <2>3 DEF AtDesk
<1>9. ASSUME \/ \E v \in desk : ReviewClaim(v)
             \/ \E x \in scan : ScanAlive(x) \/ ScanStalled(x)
      PROVE  InBudget(t)'
  <2>1. /\ pc \notin {"link", "claimed"} /\ pc' \notin {"link", "claimed"}
        /\ UNCHANGED tasks
    BY <1>9 DEF ReviewClaim, ClaimReview, ScanAlive, ScanStalled, FinishRun, ledger
  <2>2. NoneWaits /\ ReworksGrow
    BY <1>0, <2>1, MovesNotWaits, MovesRework
  <2>3. Quiet
    BY <2>1, TickQuiet DEF WorkStartRun, ReviewStartRun, ReviewLink
  <2>. QED
    BY <1>3, <2>1, <2>2, <2>3 DEF AtDesk
<1>. QED
  BY <1>4, <1>5, <1>6, <1>7, <1>8, <1>9 DEF Tick

\* The stop puts back the one task it has in hand.
LEMMA BudgetStop ==
  ASSUME IInv, IInv', HandOK, Stop, NEW t \in Tasks, InBudget(t)
  PROVE  InBudget(t)'
<1>0. LedgerOK /\ DeskOK /\ StopOK /\ StopHand
  BY DEF IInv, Parts, HandOK
<1>1. UNCHANGED <<ownerOps, crashes>> /\ pc # "link" /\ pc' # "link" /\ pc' # "claimed"
  BY DEF Stop, StopKill, StopFinishRun, StopRequeue, budget
<1>2. Spent' = Spent /\ Spent \in Int
  BY <1>1, EngineAssumption DEF Spent, IInv, Parts, BudgetOK
<1>3. RunsLinked
  BY OthersQuiet DEF Quiet, RunsLinked
<1>4. CASE StopKill \/ StopFinishRun
  <2>1. NoneWaits /\ ReworksGrow
    BY <1>0, <1>4, MovesNotWaits, MovesRework
    DEF StopKill, StopFinishRun, FinishRun, ledger
  <2>2. InStop(t)' => InStop(t)
    BY <1>0, <1>4 DEF StopKill, StopFinishRun, StopOK, InStop
  <2>. QED
    BY <1>1, <1>2, <1>3, <2>1, <2>2, BudgetStays DEF NoneWaits, AtDesk
<1>5. CASE StopRequeue
  <2>1. /\ cur.task \in Tasks /\ stop.phase = "holding" /\ cur.task = stop.task
        /\ pc = "requeue" /\ stop' = NoStop
    BY <1>0, <1>5 DEF StopRequeue, DeskOK, StopHand
  <2>2. ReworksGrow /\ (t # cur.task => Waits(t)' = Waits(t))
    <3>1. CASE UNCHANGED tasks
      BY <1>0, <3>1, MovesRework DEF Waits
    <3>2. ASSUME NEW s, tasks' = WithTask(cur.task, s)
          PROVE  ReworksGrow /\ (t # cur.task => Waits(t)' = Waits(t))
      BY <1>0, <2>1, <3>2, MovesRework, WithTaskTakes DEF TaskTakes, Waits
    <3>. QED
      BY <1>5, <3>1, <3>2 DEF StopRequeue, MarkManual, RetryTask, ledger
  <2>3. Paid(t)' = Paid(t)
    BY <1>1, <1>3, PaidStays
  <2>4. ~ AtDesk(t) /\ ~ AtDesk(t)' /\ ~ InStop(t)' /\ (t = cur.task => InStop(t))
    BY <1>1, <2>1 DEF AtDesk, InStop, NoStop
  <2>5. One(Waits(t)') + One(AtDesk(t)') + One(InStop(t)')
          <= One(Waits(t)) + One(AtDesk(t)) + One(InStop(t)) + 0
    BY <2>2, <2>4 DEF One
  <2>. QED
    BY <1>2, <2>2, <2>3, <2>5, BudgetMoves DEF ReworksGrow
<1>. QED
  BY <1>4, <1>5 DEF Stop

\* The owner never lowers the count of reworks.
LEMMA OwnerReworks ==
  ASSUME LedgerOK, AnswerOK, Owner
  PROVE  ReworksGrow
<1>0. \A t \in Tasks : tasks[t] \in TaskRow /\ tasks[t].reworks \in Nat
  BY DEF LedgerOK, TaskRow
<1>1. ASSUME NEW t \in Tasks, NEW keep \in BOOLEAN, StopRead(t, keep)
      PROVE  ReworksGrow
  BY <1>1, MovesRework DEF StopRead, ledger
<1>2. ASSUME NEW t \in Tasks, EditGate(t)
      PROVE  ReworksGrow
  <2>1. \A u \in Tasks : u # t => tasks'[u] = tasks[u]
    BY <1>2 DEF EditGate, LedgerOK
  <2>2. tasks'[t] \in {Gated(Moved(tasks[t], "ready"), FALSE),
                       Gated(tasks[t], ~ tasks[t].gate)}
    BY <1>2 DEF EditGate, LedgerOK
  <2>3. Gated(Moved(tasks[t], "ready"), FALSE).reworks = tasks[t].reworks + 0
    BY DEF Gated, Moved
  <2>4. Gated(tasks[t], ~ tasks[t].gate).reworks = tasks[t].reworks
    BY <1>0, Zenon DEF Gated, TaskRow
  <2>5. tasks[t].reworks <= tasks'[t].reworks
    <3>1. \/ tasks'[t].reworks = tasks[t].reworks + 0
          \/ tasks'[t].reworks = tasks[t].reworks
      BY <2>2, <2>3, <2>4, Zenon
    <3>. QED
      BY <1>0, <3>1
  <2>. QED
    BY <1>0, <2>1, <2>5 DEF ReworksGrow
<1>3. ASSUME NEW t \in Tasks, OwnerFeedback(t)
      PROVE  ReworksGrow
  <2>1. \A u \in Tasks :
          tasks'[u] \in {tasks[u], Moved(tasks[u], "rework"),
                         Moved(tasks[u], "waiting_approval")}
    BY <1>3 DEF OwnerFeedback
  <2>2. \A u \in Tasks :
          tasks'[u].reworks \in {tasks[u].reworks, tasks[u].reworks + 1,
                                 tasks[u].reworks + 0}
    BY <2>1 DEF Moved
  <2>. QED
    BY <1>0, <2>2 DEF ReworksGrow
<1>4. ASSUME NEW t \in Tasks, OwnerEdit(t)
      PROVE  ReworksGrow
  BY <1>2, <1>3, <1>4, MovesRework
  DEF OwnerEdit, MarkReady, RetryTask, MarkManual, CloseOrphanReview
<1>5. ASSUME NEW t \in Tasks, OwnerClose(t) \/ OwnerWaive(t) \/ OwnerVerdict(t)
      PROVE  ReworksGrow
  BY <1>5, MovesRework
  DEF OwnerClose, CloseByOwner, OwnerWaive, WaiveReview, OwnerVerdict,
      ReviewVerdict, ApproveReview, RequestChanges
<1>6. ASSUME NEW r \in RunIds, Answer(r)
      PROVE  ReworksGrow
  <2>1. r \in DOMAIN runs /\ ResumeBlockedRun(r)
    BY <1>6 DEF Answer
  <2>2. runs[r].task \in Tasks
    BY <2>1, RowType
  <2>. QED
    BY <2>1, <2>2, MovesRework DEF ResumeBlockedRun
<1>. QED
  BY <1>1, <1>4, <1>5, <1>6 DEF Owner

\* An owner action puts a task in line or reads it for a stop, never both.
LEMMA BudgetOwner ==
  ASSUME IInv, IInv', Owner, NEW t \in Tasks, InBudget(t)
  PROVE  InBudget(t)'
<1>0. LedgerOK /\ AnswerOK /\ StopOK
  BY DEF IInv, Parts
<1>1. Spent' = Spent + 1 /\ Spent \in Int
  <2>1. ownerOps' = ownerOps - 1 /\ UNCHANGED crashes
    BY DEF Owner, StopRead, OwnerEdit, OwnerClose, OwnerWaive, OwnerVerdict,
           Answer, OwnerOp
  <2>2. ownerOps \in Int /\ crashes \in Int /\ MaxOwnerOps \in Int /\ MaxCrashes \in Int
    BY EngineAssumption DEF IInv, Parts, BudgetOK
  <2>. QED
    BY <2>1, <2>2 DEF Spent
<1>2. UNCHANGED <<pc, cur>>
  BY DEF Owner, StopRead, OwnerEdit, OwnerClose, OwnerWaive, OwnerVerdict,
         ReviewVerdict, Answer, tick
<1>3. RunsLinked
  <2>1. CASE Reopening
    <3>1. PICK r \in RunIds : Answer(r)
      BY <2>1 DEF Reopening
    <3>2. RunsBut(r)
      BY <1>0, <3>1, ButRuns DEF Answer
    <3>. QED
      BY <3>2 DEF RunsBut, RunsLinked
  <2>2. CASE ~ Reopening
    BY <2>2, OwnerQuiet DEF Reopening, RunsLinked
  <2>. QED
    BY <2>1, <2>2
<1>4. One(Waits(t)') + One(InStop(t)') <= One(Waits(t)) + One(InStop(t)) + 1
  <2>1. CASE UNCHANGED stop
    BY <2>1 DEF InStop, One
  <2>2. ASSUME NEW u \in Tasks, NEW keep \in BOOLEAN, StopRead(u, keep)
        PROVE  One(Waits(t)') + One(InStop(t)') <= One(Waits(t)) + One(InStop(t)) + 1
    <3>1. UNCHANGED tasks
      BY <2>2 DEF StopRead, ledger
    <3>. QED
      BY <3>1 DEF Waits, One
  <2>. QED
    BY <2>1, <2>2
    DEF Owner, OwnerEdit, OwnerClose, OwnerWaive, OwnerVerdict, ReviewVerdict, Answer
<1>5. One(Waits(t)') + One(AtDesk(t)') + One(InStop(t)')
        <= One(Waits(t)) + One(AtDesk(t)) + One(InStop(t)) + 1
  BY <1>2, <1>4 DEF AtDesk, One
<1>6. Paid(t)' = Paid(t) /\ ReworksGrow
  BY <1>0, <1>2, <1>3, PaidStays, OwnerReworks
<1>. QED
  BY <1>1, <1>5, <1>6, BudgetMoves DEF ReworksGrow

\* A crash between start_run and set_run_review turns one review run into a
\* work run.
LEMMA BudgetCrash ==
  ASSUME IInv, IInv', Crashing, NEW t \in Tasks, InBudget(t)
  PROVE  InBudget(t)'
<1>0. LedgerOK
  BY DEF IInv, Parts
<1>1. Spent' = Spent + 1 /\ Spent \in Int
  <2>1. crashes' = crashes - 1 /\ UNCHANGED ownerOps
    BY DEF Crashing, ServiceCrash, TickAborts, CallerCrash, WrapperCrash, Crash
  <2>2. ownerOps \in Int /\ crashes \in Int /\ MaxOwnerOps \in Int /\ MaxCrashes \in Int
    BY EngineAssumption DEF IInv, Parts, BudgetOK
  <2>. QED
    BY <2>1, <2>2 DEF Spent
<1>2. UNCHANGED <<tasks, runs>>
  BY DEF Crashing, ServiceCrash, TickAborts, CallerCrash, WrapperCrash, ledger
<1>3. CASE UNCHANGED <<tick, stop>>
  <2>1. RunsLinked /\ UNCHANGED <<pc, cur>>
    BY <1>2, <1>3 DEF RunsLinked, tick
  <2>2. NoneWaits /\ ReworksGrow
    BY <1>0, <1>2, MovesNotWaits, MovesRework
  <2>. QED
    BY <1>1, <1>3, <2>1, <2>2, BudgetStays DEF NoneWaits, AtDesk, InStop
<1>4. CASE ServiceCrash \/ TickAborts
  <2>1. pc' = "idle" /\ (InStop(t)' => InStop(t))
    BY <1>4 DEF ServiceCrash, TickAborts, InStop, NoStop
  <2>2. Paid(t) \subseteq Paid(t)' /\ Paid(t)' \subseteq Paid(t) \cup {cur.run}
    BY <1>2, <2>1 DEF Paid, WorkRuns, RunsOf
  <2>3. Cardinality(Paid(t)') <= Cardinality(Paid(t)) + 1
        /\ Cardinality(Paid(t)) \in Nat /\ Cardinality(Paid(t)') \in Nat
    <3>1. PICK P : P = Paid(t)'
      OBVIOUS
    <3>2. IsFiniteSet(Paid(t)) /\ Cardinality(Paid(t)) \in Nat
      BY <1>0, PaidFinite
    <3>3. CASE P = Paid(t)
      BY <3>1, <3>2, <3>3
    <3>4. CASE P # Paid(t)
      <4>1. P = Paid(t) \cup {cur.run} /\ cur.run \notin Paid(t)
        BY <2>2, <3>1, <3>4
      <4>2. Cardinality(P) = Cardinality(Paid(t)) + 1
        BY <3>2, <4>1, FS_AddElement
      <4>. QED
        BY <3>1, <3>2, <4>2
    <3>. QED
      BY <3>3, <3>4
  <2>4. /\ One(Waits(t)') = One(Waits(t)) /\ One(AtDesk(t)') = 0
        /\ One(InStop(t)') <= One(InStop(t)) /\ 0 <= One(AtDesk(t))
        /\ One(Waits(t)) \in Int /\ One(InStop(t)) \in Int
        /\ One(InStop(t)') \in Int /\ One(AtDesk(t)) \in Int
    BY <1>2, <2>1 DEF One, Waits, AtDesk
  <2>5. Due(t) = Cardinality(Paid(t)) + One(Waits(t)) + One(AtDesk(t)) + One(InStop(t))
    BY DEF Due
  <2>6. Due(t)' = Cardinality(Paid(t)') + One(Waits(t)') + One(AtDesk(t)') + One(InStop(t)')
    BY DEF Due, One
  <2>7. Due(t)' <= Due(t) + 1 /\ Due(t) \in Int /\ Due(t)' \in Int
    BY <2>3, <2>4, <2>5, <2>6
  <2>8. tasks'[t].reworks = tasks[t].reworks /\ tasks[t].reworks \in Int
        /\ MaxRework \in Int
    BY <1>0, <1>2, LedgerAssumption DEF LedgerOK, TaskRow
  <2>. QED
    BY <1>1, <2>7, <2>8 DEF InBudget
<1>. QED
  BY <1>3, <1>4 DEF Crashing, CallerCrash, WrapperCrash

\* Rework: the new attempt is paid by the count of reworks, which stays below
\* MAX_REWORK_CYCLES.
LEMMA BudgetRework ==
  ASSUME IInv, IInv', NEW t \in Tasks, InBudget(t), RunsLinked,
         UNCHANGED <<pc, cur, stop>>, UNCHANGED <<ownerOps, crashes>>,
         tasks'[t].reworks = tasks[t].reworks + 1,
         tasks[t].reworks + 1 < MaxRework
  PROVE  InBudget(t)'
<1>1. Paid(t)' = Paid(t)
  BY PaidStays
<1>2. Due(t) = Cardinality(Paid(t)) + One(Waits(t)) + One(AtDesk(t)) + One(InStop(t))
  BY DEF Due
<1>3. Due(t)' = Cardinality(Paid(t)') + One(Waits(t)') + One(AtDesk(t)') + One(InStop(t)')
  BY DEF Due, One
<1>4. /\ One(Waits(t)') <= One(Waits(t)) + 1
      /\ One(AtDesk(t)') = One(AtDesk(t)) /\ One(InStop(t)') = One(InStop(t))
      /\ One(Waits(t)) \in Int /\ One(Waits(t)') \in Int
      /\ One(AtDesk(t)) \in Int /\ One(InStop(t)) \in Int
  BY DEF One, AtDesk, InStop
<1>5. Cardinality(Paid(t)) \in Int
  BY PaidFinite DEF IInv, Parts
<1>6. Due(t)' <= Due(t) + 1 /\ Due(t) \in Int /\ Due(t)' \in Int
  BY <1>1, <1>2, <1>3, <1>4, <1>5
<1>7. Spent' = Spent /\ Spent \in Int /\ tasks[t].reworks \in Int /\ MaxRework \in Int
  BY EngineAssumption, LedgerAssumption
  DEF Spent, IInv, Parts, BudgetOK, LedgerOK, TaskRow
<1>. QED
  BY <1>6, <1>7 DEF InBudget

\* A completion or a verdict queues a task again only as a counted rework.
LEMMA BudgetOthers ==
  ASSUME IInv, IInv', NEW r \in RunIds, Resuming(r) \/ Wrapper(r) \/ Agent(r),
         NEW t \in Tasks, InBudget(t)
  PROVE  InBudget(t)'
<1>0. /\ LedgerOK /\ r \in DOMAIN runs /\ runs[r].task \in Tasks
      /\ UNCHANGED <<pc, cur, stop>> /\ UNCHANGED <<ownerOps, crashes>>
      /\ RunsLinked
  <2>1. UNCHANGED <<tick, stop, resumed, ownerOps, crashes>> /\ RunsBut(r)
        /\ r \in DOMAIN runs
    BY WrapperTouches
  <2>2. LedgerOK
    BY DEF IInv, Parts
  <2>. QED
    BY <2>1, <2>2, RowType DEF RunsBut, RunsLinked, tick
<1>1. Spent' = Spent /\ Spent \in Int
  BY <1>0, EngineAssumption DEF Spent, IInv, Parts, BudgetOK
<1>2. ASSUME NoneWaits, ReworksGrow
      PROVE  InBudget(t)'
  BY <1>0, <1>1, <1>2, BudgetStays DEF NoneWaits, AtDesk, InStop
<1>3. ASSUME NEW u \in Tasks, \A w \in Tasks : w # u => tasks'[w] = tasks[w],
             \/ ~ Waits(u)' /\ tasks[u].reworks <= tasks'[u].reworks
             \/ /\ tasks'[u].reworks = tasks[u].reworks + 1
                /\ tasks[u].reworks + 1 < MaxRework
      PROVE  InBudget(t)'
  <2>1. \A w \in Tasks : tasks[w].reworks \in Nat
    BY <1>0 DEF LedgerOK, TaskRow
  <2>2. CASE ~ Waits(u)' /\ tasks[u].reworks <= tasks'[u].reworks
    <3>1. NoneWaits /\ ReworksGrow
      BY <1>3, <2>1, <2>2 DEF NoneWaits, ReworksGrow, Waits
    <3>. QED
      BY <1>2, <3>1
  <2>3. CASE tasks'[u].reworks = tasks[u].reworks + 1
             /\ tasks[u].reworks + 1 < MaxRework
    <3>1. CASE u = t
      BY <1>0, <2>3, <3>1, BudgetRework
    <3>2. CASE u # t
      <4>1. tasks'[t] = tasks[t] /\ Paid(t)' = Paid(t)
        BY <1>0, <1>3, <3>2, PaidStays
      <4>2. One(Waits(t)') + One(AtDesk(t)') + One(InStop(t)')
              <= One(Waits(t)) + One(AtDesk(t)) + One(InStop(t)) + 0
        BY <1>0, <4>1 DEF One, Waits, AtDesk, InStop
      <4>3. tasks[t].reworks <= tasks'[t].reworks
        BY <2>1, <4>1
      <4>. QED
        BY <1>1, <4>1, <4>2, <4>3, BudgetMoves
    <3>. QED
      BY <3>1, <3>2
  <2>. QED
    BY <1>3, <2>2, <2>3
<1>4. CASE FailRun(r)
  BY <1>0, <1>2, <1>4, MovesNotWaits, MovesRework DEF FailRun
<1>5. CASE Resuming(r)
  <2>1. CASE AnswerSetupFails(r)
    BY <1>4, <2>1 DEF AnswerSetupFails
  <2>2. CASE AnswerSpawn(r) \/ AnswerRecordPid(r) \/ AnswerSpawnFails(r)
             \/ AnswerSpawnFailed(r)
    BY <1>0, <1>2, <2>2, MovesNotWaits, MovesRework
    DEF AnswerSpawn, AnswerRecordPid, AnswerSpawnFails, AnswerSpawnFailed,
        SetRunPid, FinishRun, CompleteRun, ledger
  <2>. QED
    BY <1>5, <2>1, <2>2 DEF Resuming
<1>6. CASE BriefUnreadable(r)
  BY <1>4, <1>6 DEF BriefUnreadable
<1>7. CASE \/ Boot(r) \/ CloseReview(r) \/ Reap(r) \/ Question(r)
           \/ \E report \in {"done", "blocked", "failed"} : FinalizeReview(r, report)
  BY <1>0, <1>2, <1>7, MovesNotWaits, MovesRework
  DEF Boot, CloseReview, CloseReviewRun, Reap, Question, NoteQuestion,
      FinalizeReview, FinishRun, ledger
<1>8. ASSUME NEW report \in {"done", "manual", "blocked", "failed", "dirty"},
             FinalizeWork(r, report)
      PROVE  InBudget(t)'
  <2>. DEFINE u == runs[r].task
              s == TaskAfter(u, report)
              more == IF s = "rework" THEN 1 ELSE 0
  <2>1. /\ s \notin {"planned", "waiting_approval", "ready"}
        /\ s = "rework" => tasks[u].reworks + 1 < MaxRework
    <3>1. tasks[u].reworks + 1 \in Int /\ MaxRework \in Int
      BY <1>0, LedgerAssumption DEF LedgerOK, TaskRow
    <3>. QED
      BY <3>1 DEF TaskAfter
  <2>2. PICK g : tasks' = [tasks EXCEPT ![u] = Gated(Moved(@, s), g)]
    BY <1>8 DEF FinalizeWork, RecordCompletion
  <2>3. tasks'[u] = Gated(Moved(tasks[u], s), g)
        /\ \A w \in Tasks : w # u => tasks'[w] = tasks[w]
    BY <1>0, <2>2 DEF LedgerOK
  <2>4. tasks'[u].status = s /\ tasks'[u].reworks = tasks[u].reworks + more
    BY <2>3 DEF Gated, Moved
  <2>5. u \in Tasks /\ tasks[u].reworks \in Nat
    BY <1>0 DEF LedgerOK, TaskRow
  <2>. HIDE DEF s, u
  <2>. QED
    BY <1>3, <2>1, <2>3, <2>4, <2>5 DEF Waits
<1>9. CASE Verdict(r)
  <2>0. PICK u \in Tasks : u = runs[r].task
    BY <1>0
  <2>1. tasks[u].reworks \in Nat /\ MaxRework \in Nat
    BY <1>0, LedgerAssumption DEF LedgerOK, TaskRow
  <2>2. CASE ApproveReview(u)
    BY <1>0, <1>2, <2>2, MovesNotWaits, MovesRework DEF ApproveReview
  <2>3. CASE RequestChanges(u)
    <3>. DEFINE s == IF tasks[u].reworks + 1 >= MaxRework THEN "manual" ELSE "rework"
    <3>1. TaskTakes(u, s)
      BY <1>0, <2>3, WithTaskTakes DEF RequestChanges
    <3>2. \/ ~ Waits(u)' /\ tasks[u].reworks <= tasks'[u].reworks
          \/ /\ tasks'[u].reworks = tasks[u].reworks + 1
             /\ tasks[u].reworks + 1 < MaxRework
      BY <2>1, <3>1 DEF TaskTakes, Waits
    <3>. QED
      BY <1>3, <2>1, <3>1, <3>2 DEF TaskTakes
  <2>. QED
    BY <1>9, <2>0, <2>2, <2>3 DEF Verdict, ReviewVerdict
<1>. QED
  BY <1>5, <1>6, <1>7, <1>8, <1>9 DEF Wrapper, Agent

LEMMA BudgetKeeps ==
  ASSUME IInv, IInv', HandOK, BudgetInv, [Next]_vars
  PROVE  BudgetInv'
<1>. SUFFICES ASSUME NEW t \in Tasks
              PROVE  InBudget(t)'
  BY DEF BudgetInv
<1>0. InBudget(t) /\ LedgerOK
  BY DEF BudgetInv, IInv, Parts
<1>1. CASE UNCHANGED vars
  BY <1>0, <1>1 DEF vars, ledger, tick, budget, InBudget, Due, Paid, WorkRuns,
                    RunsOf, Waits, AtDesk, InStop, Spent
<1>2. ASSUME NEW u \in Tasks, Caller(u)
      PROVE  InBudget(t)'
  <2>1. /\ NoneWaits /\ ReworksGrow
        /\ UNCHANGED <<runs, pc, cur, stop, ownerOps, crashes>>
    BY <1>0, <1>2, MovesNotWaits, MovesRework
    DEF Caller, Land, Promote, RefuseLanding, PromoteDependents, ledger, tick,
        budget
  <2>2. RunsLinked /\ Spent' = Spent /\ Spent \in Int
    BY <2>1, EngineAssumption DEF RunsLinked, Spent, IInv, Parts, BudgetOK
  <2>. QED
    BY <1>0, <2>1, <2>2, BudgetStays DEF NoneWaits, AtDesk, InStop
<1>. QED
  BY <1>0, <1>1, <1>2, BudgetTick, BudgetStop, BudgetOwner, BudgetCrash,
     BudgetOthers DEF Next

LEMMA BudgetHolds == Init => BudgetInv
<1>. SUFFICES ASSUME Init, NEW t \in Tasks
              PROVE  InBudget(t)
  BY DEF BudgetInv
<1>1. Spent = 0 /\ MaxRework \in Nat \ {0}
  BY EngineAssumption, LedgerAssumption DEF Init, Spent
<1>2. Paid(t) = {}
  BY DEF Init, Paid, WorkRuns, RunsOf
<1>3. Cardinality(Paid(t)) = 0
  BY <1>2, FS_EmptySet
<1>4. tasks[t].reworks = 0 /\ ~ AtDesk(t) /\ ~ InStop(t)
  BY DEF Init, AtDesk, InStop, NoStop
<1>5. Due(t) \in 0..1
  BY <1>3, <1>4 DEF Due, One
<1>. QED
  BY <1>1, <1>4, <1>5 DEF InBudget

\* Left alone, a task is started at most MAX_REWORK_CYCLES times; every owner
\* action and every crash adds at most one start.
THEOREM WorkIsBounded == Spec => []RunBudget
<1>1. IInv /\ HandOK /\ FreshOK /\ BudgetInv /\ [Next]_vars => BudgetInv'
  BY NextKeeps, BudgetKeeps
<1>2. IInv /\ BudgetInv => RunBudget
  <2>. SUFFICES ASSUME IInv, BudgetInv, NEW t \in Tasks
                PROVE  Cardinality(Paid(t))
                         <= MaxRework + (MaxOwnerOps - ownerOps) + (MaxCrashes - crashes)
    BY DEF RunBudget, Paid
  <2>1. InBudget(t) /\ Cardinality(Paid(t)) \in Nat
    BY PaidFinite DEF BudgetInv, IInv, Parts
  <2>2. Cardinality(Paid(t)) <= Due(t) /\ Due(t) \in Int
    BY <2>1 DEF Due, One
  <2>3. /\ ownerOps \in Int /\ crashes \in Int /\ MaxOwnerOps \in Int
        /\ MaxCrashes \in Int /\ MaxRework \in Int
    BY EngineAssumption, LedgerAssumption DEF IInv, Parts, BudgetOK
  <2>. QED
    BY <2>1, <2>2, <2>3 DEF InBudget, Spent
<1>. QED
  BY <1>1, <1>2, BudgetHolds, DispatchInvariant, PTL DEF Spec

-----------------------------------------------------------------------------
(* The concurrency cap *)

Active == RunningRuns \ resumed

\* The running runs a tick has launched, but for the one it still launches.
Launched ==
  Active \ (IF pc \in {"link", "launch", "spawned", "unspawned"}
              THEN {cur.run} ELSE {})

\* The launches this tick may still make.
Promised ==
  CASE pc = "work" -> Cardinality(queue)
    [] pc = "claimed" -> Cardinality(queue) + 1
    [] pc \in {"launch", "spawned", "unspawned"} /\ cur.review = 0 ->
         Cardinality(queue) + 1
    [] pc \in {"review", "assigned", "link"} -> left
    [] pc \in {"launch", "spawned", "unspawned"} /\ cur.review # 0 -> left
    [] OTHER -> 0

CapInv == Cardinality(Launched) + Promised <= Cap

LEMMA ActiveFinite ==
  ASSUME LedgerOK
  PROVE  /\ IsFiniteSet(Active) /\ IsFiniteSet(Launched)
         /\ IsFiniteSet(RunningRuns)
         /\ Cardinality(Launched) \in Nat /\ Cardinality(Active) \in Nat
         /\ Cardinality(Launched) <= Cardinality(Active)
         /\ Cardinality(Active) <= Cardinality(Launched) + 1
         /\ Cardinality(Launched) <= Cardinality(RunningRuns)
<1>1. DOMAIN runs = 1..Len(runs) /\ Len(runs) \in Nat
  BY DEF LedgerOK
<1>2. IsFiniteSet(1..Len(runs))
  BY <1>1, FS_Interval
<1>3. /\ RunningRuns \subseteq 1..Len(runs) /\ Active \subseteq RunningRuns
      /\ Launched \subseteq Active
  BY <1>1 DEF Active, Launched, RunningRuns
<1>4. IsFiniteSet(RunningRuns) /\ IsFiniteSet(Active) /\ IsFiniteSet(Launched)
  BY <1>2, <1>3, FS_Subset
<1>5. Cardinality(Active) <= Cardinality(Launched) + 1
  <2>1. CASE Active = Launched
    BY <1>4, <2>1, FS_CardinalityType
  <2>2. CASE Active # Launched
    <3>1. Active = Launched \cup {cur.run} /\ cur.run \notin Launched
      BY <2>2 DEF Launched
    <3>. QED
      BY <1>4, <3>1, FS_AddElement, FS_CardinalityType
  <2>. QED
    BY <2>1, <2>2
<1>. QED
  BY <1>3, <1>4, <1>5, FS_CardinalityType, FS_Subset

LEMMA QueueFinite ==
  ASSUME DeskOK
  PROVE  IsFiniteSet(queue) /\ Cardinality(queue) \in Nat
BY LedgerAssumption, FS_Subset, FS_CardinalityType DEF DeskOK

LEMMA PromisedType ==
  ASSUME DeskOK
  PROVE  Promised \in Nat
BY QueueFinite DEF DeskOK, Promised

LEMMA PromisedNext ==
  ASSUME DeskOK'
  PROVE  Promised' \in Nat
<1>1. queue' \subseteq Tasks /\ left' \in Nat
  BY DEF DeskOK
<1>2. Cardinality(queue') \in Nat
  BY <1>1, LedgerAssumption, FS_Subset, FS_CardinalityType
<1>. QED
  BY <1>1, <1>2 DEF Promised

\* No run is started or reopened but by an answer.
LEMMA ActiveShrinks ==
  ASSUME LedgerOK, Quiet, resumed \subseteq resumed'
  PROVE  Active' \subseteq Active
BY DEF Quiet, Active, RunningRuns

\* The launches promised and made stay within the cap when neither grows.
LEMMA CapStep ==
  ASSUME IInv, IInv', CapInv, Launched' \subseteq Launched, Promised' <= Promised
  PROVE  CapInv'
<1>1. PICK L : L = Launched'
  OBVIOUS
<1>2. Cardinality(L) <= Cardinality(Launched) /\ Cardinality(L) \in Nat
  BY <1>1, ActiveFinite, FS_Subset, FS_CardinalityType DEF IInv, Parts
<1>3. PICK P \in Nat : P = Promised'
  BY PromisedNext DEF IInv, Parts
<1>4. Promised \in Nat /\ Cardinality(Launched) \in Nat /\ Cap \in Nat
  BY PromisedType, ActiveFinite, EngineAssumption DEF IInv, Parts
<1>5. Cardinality(L) + P <= Cap
  BY <1>2, <1>3, <1>4 DEF CapInv
<1>. QED
  BY <1>1, <1>3, <1>5 DEF CapInv

\* The run in hand is launched: one promise is kept, one run counts more.
LEMMA CapTrade ==
  ASSUME IInv, IInv', CapInv, NEW r, Launched' \subseteq Launched \cup {r},
         Promised' + 1 <= Promised
  PROVE  CapInv'
<1>1. PICK L : L = Launched'
  OBVIOUS
<1>2. IsFiniteSet(Launched) /\ Cardinality(Launched) \in Nat
  BY ActiveFinite DEF IInv, Parts
<1>3. Cardinality(L) <= Cardinality(Launched) + 1 /\ Cardinality(L) \in Nat
  <2>1. /\ IsFiniteSet(Launched \cup {r})
        /\ Cardinality(Launched \cup {r}) <= Cardinality(Launched) + 1
        /\ Cardinality(Launched \cup {r}) \in Nat
    <3>1. CASE r \in Launched
      <4>1. Launched \cup {r} = Launched
        BY <3>1
      <4>. QED
        BY <1>2, <4>1
    <3>2. CASE r \notin Launched
      BY <1>2, <3>2, FS_AddElement
    <3>. QED
      BY <3>1, <3>2
  <2>. QED
    BY <1>1, <2>1, FS_Subset, FS_CardinalityType
<1>4. PICK P \in Nat : P = Promised'
  BY PromisedNext DEF IInv, Parts
<1>5. Promised \in Nat /\ Cap \in Nat
  BY PromisedType, EngineAssumption DEF IInv, Parts
<1>6. Cardinality(L) + P <= Cap
  <2>1. Cardinality(Launched) + Promised <= Cap /\ P + 1 <= Promised
    BY <1>4 DEF CapInv
  <2>2. \A a, b, c, d, e \in Nat :
          a <= b + 1 /\ b + c <= d /\ e + 1 <= c => a + e <= d
    OBVIOUS
  <2>. QED
    BY <1>2, <1>3, <1>4, <1>5, <2>1, <2>2
<1>. QED
  BY <1>1, <1>4, <1>6 DEF CapInv

\* The free slots: what a tick takes on fits beside what runs.
LEMMA CapSlots ==
  ASSUME IInv, IInv', CapInv, UNCHANGED <<runs, resumed>>,
         pc \notin {"link", "launch", "spawned", "unspawned"},
         pc' \notin {"link", "launch", "spawned", "unspawned"},
         Promised' <= Slots
  PROVE  CapInv'
<1>1. UNCHANGED Active /\ Launched' = Active /\ Launched = Active
  BY DEF Active, RunningRuns, Launched
<1>2. /\ Cardinality(Active) \in Nat /\ Cardinality(Active) <= Cardinality(RunningRuns)
      /\ Cap \in Nat /\ Promised \in Nat
  BY <1>1, ActiveFinite, PromisedType, EngineAssumption DEF IInv, Parts
<1>3. PICK P \in Nat : P = Promised'
  BY PromisedNext DEF IInv, Parts
<1>4. Cardinality(RunningRuns) \in Nat
  BY ActiveFinite, FS_CardinalityType DEF IInv, Parts
<1>5. Cardinality(Active) + P <= Cap
  BY <1>1, <1>2, <1>3, <1>4 DEF CapInv, Slots, Free
<1>. QED
  BY <1>1, <1>3, <1>5 DEF CapInv

LEMMA CapTick ==
  ASSUME IInv, IInv', FreshOK, CapInv, Tick
  PROVE  CapInv'
<1>0. LedgerOK /\ DeskOK /\ IsFiniteSet(queue) /\ Cardinality(queue) \in Nat
  BY QueueFinite DEF IInv, Parts
<1>1. UNCHANGED resumed
  BY DEF Tick, TickPromote, TickSelect, WorkClaim, WorkBadPath, WorkStartRun,
         Spawn, SpawnFails, SpawnFailed, RecordPid, ListReviews, ReviewClaim,
         ReviewBadPath, ReviewStartRun, ReviewLink, ListRuns, ScanAlive,
         ScanStalled, MarkTaskStalled, FailStalledReview, TickEnd, callers
<1>2. ~ WorkStartRun /\ ~ ReviewStartRun => Active' \subseteq Active
  <2>1. CASE ReviewLink
    <3>1. cur.run \in DOMAIN runs /\ cur.review \in Nat /\ SetRunReview(cur.run, cur.review)
      BY <1>0, <2>1 DEF ReviewLink, DeskOK, LedgerOK
    <3>2. RunsStay(cur.run, cur.review)
      BY <1>0, <3>1, SetRunReviewStays
    <3>. QED
      BY <1>1, <3>2 DEF RunsStay, Active, RunningRuns
  <2>. QED
    BY <1>0, <1>1, <2>1, TickQuiet, ActiveShrinks
<1>3. CASE TickPromote \/ ListRuns \/ MarkTaskStalled \/ FailStalledReview \/ TickEnd
  <2>1. /\ pc \notin {"link", "launch", "spawned", "unspawned"}
        /\ pc' \in {"select", "scan", "unreview", "requeue", "idle"}
        /\ ~ WorkStartRun /\ ~ ReviewStartRun
    BY <1>3 DEF TickPromote, ListRuns, MarkTaskStalled, FailStalledReview,
                TickEnd, WorkStartRun, ReviewStartRun
  <2>2. Launched' \subseteq Launched /\ Promised' = 0
    BY <1>2, <2>1 DEF Launched, Promised
  <2>. QED
    BY <1>0, <2>2, PromisedType, CapStep
<1>4. ASSUME NEW x \in scan, ScanAlive(x) \/ ScanStalled(x)
      PROVE  CapInv'
  <2>1. /\ pc = "scan" /\ pc' \in {"scan", "stalled"}
        /\ ~ WorkStartRun /\ ~ ReviewStartRun
    BY <1>4 DEF ScanAlive, ScanStalled, WorkStartRun, ReviewStartRun
  <2>2. Launched' \subseteq Launched /\ Promised' = 0
    BY <1>2, <2>1 DEF Launched, Promised
  <2>. QED
    BY <1>0, <2>2, PromisedType, CapStep
<1>5. CASE TickSelect
  <2>1. Cardinality(queue') <= Slots
    <3>1. Slots \in Nat
      BY <1>0, SlotsType
    <3>2. \E S : queue' = S /\ (Cardinality(S) = Slots \/ Cardinality(S) < Slots)
      BY <1>5 DEF TickSelect
    <3>3. queue' \subseteq Tasks
      BY DEF IInv, Parts, DeskOK
    <3>4. Cardinality(queue') \in Nat
      BY <3>3, LedgerAssumption, FS_Subset, FS_CardinalityType
    <3>. QED
      BY <3>1, <3>2, <3>4
  <2>2. pc = "select" /\ pc' = "work" /\ UNCHANGED <<runs, resumed>>
    BY <1>5 DEF TickSelect, ledger, callers
  <2>3. Promised' <= Slots
    BY <2>1, <2>2 DEF Promised
  <2>. QED
    BY <2>2, <2>3, CapSlots
<1>6. CASE ListReviews
  <2>1. /\ pc = "work" /\ pc' = "review" /\ left' = Slots
        /\ UNCHANGED <<runs, resumed>>
    BY <1>6 DEF ListReviews, ledger, callers
  <2>2. Slots \in Nat
    BY <1>0, SlotsType
  <2>3. Promised' <= Slots
    BY <2>1, <2>2 DEF Promised
  <2>. QED
    BY <2>1, <2>3, CapSlots
<1>7. ASSUME NEW u \in Tasks, WorkClaim(u)
      PROVE  CapInv'
  <2>1. /\ u \in queue /\ queue' = queue \ {u} /\ pc = "work"
        /\ pc' \in {"work", "claimed"} /\ ~ WorkStartRun /\ ~ ReviewStartRun
    BY <1>7 DEF WorkClaim, ClaimTask, WorkStartRun, ReviewStartRun
  <2>2. Cardinality(queue') = Cardinality(queue) - 1
    BY <1>0, <2>1, FS_RemoveElement
  <2>3. Promised' <= Promised
    BY <1>0, <2>1, <2>2 DEF Promised
  <2>4. Launched' \subseteq Launched
    BY <1>2, <2>1 DEF Launched
  <2>. QED
    BY <2>3, <2>4, CapStep
<1>8. CASE WorkBadPath
  <2>1. /\ pc = "claimed" /\ pc' = "work" /\ UNCHANGED queue
        /\ ~ WorkStartRun /\ ~ ReviewStartRun
    BY <1>8 DEF WorkBadPath, WorkStartRun, ReviewStartRun
  <2>2. Promised' <= Promised
    BY <1>0, <2>1 DEF Promised
  <2>3. Launched' \subseteq Launched
    BY <1>2, <2>1 DEF Launched
  <2>. QED
    BY <2>2, <2>3, CapStep
<1>9. CASE Starting
  <2>. DEFINE new == Len(runs) + 1
  <2>1. /\ cur.task \in Tasks /\ cur' = [cur EXCEPT !.run = new]
        /\ StartRun(cur.task) /\ UNCHANGED <<queue, left>>
        /\ \/ pc = "claimed" /\ pc' = "launch" /\ cur.review = 0
           \/ pc = "assigned" /\ pc' = "link"
    BY <1>0, <1>9 DEF Starting, WorkStartRun, ReviewStartRun, DeskOK
  <2>2. RunStarts(cur.task) /\ cur'.run = new /\ cur'.review = cur.review
    BY <1>0, <2>1, StartRunStarts DEF DeskOK
  <2>3. Active' = Active \cup {new}
    <3>1. resumed \subseteq DOMAIN runs
      BY DEF IInv, Parts, AnswerOK
    <3>. QED
      BY <1>1, <2>2, <3>1 DEF RunStarts, Active, RunningRuns
  <2>4. Launched' \subseteq Launched
    BY <2>1, <2>2, <2>3 DEF Launched
  <2>5. Promised' <= Promised
    <3>1. CASE pc = "claimed"
      BY <1>0, <2>1, <2>2, <3>1 DEF Promised
    <3>2. CASE pc = "assigned"
      BY <1>0, <2>1, <3>2 DEF Promised, DeskOK
    <3>. QED
      BY <2>1, <3>1, <3>2
  <2>. QED
    BY <2>4, <2>5, CapStep
<1>10. CASE ReviewLink
  <2>1. /\ pc = "link" /\ pc' = "launch" /\ UNCHANGED <<cur, queue, left>>
        /\ ~ WorkStartRun /\ ~ ReviewStartRun /\ cur.review # 0
    BY <1>0, <1>10 DEF ReviewLink, WorkStartRun, ReviewStartRun, DeskOK, LedgerOK
  <2>2. Launched' \subseteq Launched
    BY <1>2, <2>1 DEF Launched
  <2>3. Promised' <= Promised
    BY <1>0, <2>1 DEF Promised, DeskOK
  <2>. QED
    BY <2>2, <2>3, CapStep
<1>11. CASE Spawn \/ SpawnFails
  <2>1. /\ pc = "launch" /\ pc' \in {"spawned", "unspawned"}
        /\ UNCHANGED <<cur, queue, left>> /\ ~ WorkStartRun /\ ~ ReviewStartRun
    BY <1>11 DEF Spawn, SpawnFails, WorkStartRun, ReviewStartRun
  <2>2. Launched' \subseteq Launched
    BY <1>2, <2>1 DEF Launched
  <2>3. Promised' <= Promised
    <3>1. CASE cur.review = 0
      BY <1>0, <2>1, <3>1 DEF Promised
    <3>2. CASE cur.review # 0
      BY <1>0, <2>1, <3>2 DEF Promised, DeskOK
    <3>. QED
      BY <3>1, <3>2
  <2>. QED
    BY <2>2, <2>3, CapStep
<1>12. CASE SpawnFailed
  <2>1. /\ pc = "unspawned" /\ pc' = Loop /\ UNCHANGED <<queue, left>>
        /\ ~ WorkStartRun /\ ~ ReviewStartRun
    BY <1>12 DEF SpawnFailed, WorkStartRun, ReviewStartRun
  <2>2. Launched' \subseteq Launched
    <3>1. Launched = Active
      BY <2>1 DEF FreshOK, Launched, Active
    <3>. QED
      BY <1>2, <2>1, <3>1 DEF Launched
  <2>3. Promised' <= Promised
    <3>1. CASE cur.review = 0
      BY <1>0, <2>1, <3>1 DEF Promised, Loop
    <3>2. CASE cur.review # 0
      BY <1>0, <2>1, <3>2 DEF Promised, Loop, DeskOK
    <3>. QED
      BY <3>1, <3>2
  <2>. QED
    BY <2>2, <2>3, CapStep
<1>13. CASE RecordPid
  <2>1. /\ pc = "spawned" /\ pc' = Loop /\ UNCHANGED queue
        /\ left' = (IF cur.review = 0 THEN left ELSE left - 1)
        /\ ~ WorkStartRun /\ ~ ReviewStartRun
    BY <1>13 DEF RecordPid, WorkStartRun, ReviewStartRun
  <2>2. Launched' \subseteq Launched \cup {cur.run}
    BY <1>2, <2>1 DEF Launched
  <2>3. Promised' + 1 <= Promised
    <3>1. CASE cur.review = 0
      BY <1>0, <2>1, <3>1 DEF Promised, Loop
    <3>2. CASE cur.review # 0
      BY <1>0, <2>1, <3>2 DEF Promised, Loop, DeskOK
    <3>. QED
      BY <3>1, <3>2
  <2>. QED
    BY <2>2, <2>3, CapTrade
<1>14. ASSUME (\E v \in desk : ReviewClaim(v)) \/ ReviewBadPath
       PROVE  CapInv'
  <2>1. /\ pc \in {"review", "assigned"} /\ pc' \in {"review", "assigned"}
        /\ UNCHANGED left /\ ~ WorkStartRun /\ ~ ReviewStartRun
    BY <1>14 DEF ReviewClaim, ReviewBadPath, WorkStartRun, ReviewStartRun,
                 ClaimReview, StartRun, SetReviewStatus
  <2>2. Launched' \subseteq Launched
    BY <1>2, <2>1 DEF Launched
  <2>3. Promised' <= Promised
    BY <1>0, <2>1 DEF Promised, DeskOK
  <2>. QED
    BY <2>2, <2>3, CapStep
<1>. QED
  BY <1>3, <1>4, <1>5, <1>6, <1>7, <1>8, <1>9, <1>10, <1>11, <1>12, <1>13, <1>14
  DEF Tick, Starting

\* An answer reopens a run, but counts it as resumed.
LEMMA ActiveOthers ==
  ASSUME IInv, Next, ~ Tick
  PROVE  Active' \subseteq Active
<1>0. LedgerOK
  BY DEF IInv, Parts
<1>1. ASSUME NEW r \in RunIds, Answer(r)
      PROVE  Active' \subseteq Active
  <2>1. r \in DOMAIN runs /\ RunsBut(r) /\ resumed' = resumed \cup {r}
    BY <1>0, <1>1, ButRuns DEF Answer
  <2>. QED
    BY <2>1 DEF RunsBut, Active, RunningRuns
<1>2. ASSUME ~ Reopening
      PROVE  Active' \subseteq Active
  <2>1. Quiet
    BY <1>2, OwnerQuiet, OthersQuiet, WrappersQuiet DEF Next, Reopening, Quiet
  <2>2. resumed \subseteq resumed'
    <3>1. CASE Stop \/ Crashing \/ \E t \in Tasks : Caller(t)
      BY <3>1 DEF Stop, StopKill, StopFinishRun, StopRequeue, Crashing,
                  ServiceCrash, TickAborts, CallerCrash, WrapperCrash, Caller,
                  Land, Promote, callers
    <3>2. CASE Owner
      BY <3>2 DEF Owner, StopRead, OwnerEdit, OwnerClose, OwnerWaive,
                  OwnerVerdict, ReviewVerdict, Answer, callers
    <3>. QED
      BY <3>1, <3>2, WrapperTouches DEF Next
  <2>. QED
    BY <1>0, <2>1, <2>2, ActiveShrinks
<1>. QED
  BY <1>1, <1>2 DEF Reopening

LEMMA CapKeeps ==
  ASSUME IInv, IInv', FreshOK, CapInv, [Next]_vars
  PROVE  CapInv'
<1>0. LedgerOK /\ DeskOK /\ Cardinality(queue) \in Nat
  BY QueueFinite DEF IInv, Parts
<1>1. CASE UNCHANGED vars
  BY <1>1 DEF vars, ledger, tick, callers, CapInv, Launched, Active,
              RunningRuns, Promised
<1>2. CASE Tick
  BY <1>2, CapTick
<1>3. ASSUME Next, ~ Tick, Stop
      PROVE  CapInv'
  <2>1. /\ pc \in {"idle", "killed", "requeue"}
        /\ pc' \in {"killed", "stalled", "idle"}
    BY <1>3 DEF Stop, StopKill, StopFinishRun, StopRequeue
  <2>2. Launched' \subseteq Launched /\ Promised' = 0
    BY <1>3, <2>1, ActiveOthers DEF Launched, Promised
  <2>. QED
    BY <1>0, <2>2, PromisedType, CapStep
<1>4. ASSUME Next, ~ Tick, ServiceCrash \/ TickAborts
      PROVE  CapInv'
  <2>1. pc' = "idle" /\ Promised' = 0
    BY <1>4 DEF ServiceCrash, TickAborts, Promised
  <2>2. Active' \subseteq Active
    BY <1>4, ActiveOthers
  <2>3. CASE pc \in {"link", "launch", "spawned"}
    <3>1. Launched' \subseteq Launched \cup {cur.run}
      BY <2>1, <2>2 DEF Launched
    <3>2. 1 <= Promised
      <4>1. CASE cur.review = 0
        <5>1. pc # "link"
          BY <1>0, <4>1 DEF DeskOK, LedgerOK
        <5>. QED
          BY <1>0, <2>3, <4>1, <5>1 DEF Promised
      <4>2. CASE cur.review # 0
        BY <1>0, <2>3, <4>2 DEF Promised, DeskOK
      <4>. QED
        BY <4>1, <4>2
    <3>3. Promised \in Nat
      BY <1>0, PromisedType
    <3>. QED
      BY <2>1, <3>1, <3>2, <3>3, CapTrade
  <2>4. CASE pc \notin {"link", "launch", "spawned"}
    <3>1. Launched = Active
      BY <2>4 DEF FreshOK, Launched, Active
    <3>2. Launched' \subseteq Launched
      BY <2>1, <2>2, <3>1 DEF Launched
    <3>. QED
      BY <1>0, <2>1, <3>2, PromisedType, CapStep
  <2>. QED
    BY <2>3, <2>4
<1>5. ASSUME Next, ~ Tick, ~ Stop, ~ ServiceCrash, ~ TickAborts
      PROVE  CapInv'
  <2>1. UNCHANGED <<pc, queue, cur, left>> /\ Active' \subseteq Active
    BY <1>5, DeskAlone, ActiveOthers DEF tick
  <2>2. Launched' \subseteq Launched /\ Promised' = Promised
    BY <2>1 DEF Launched, Promised
  <2>. QED
    BY <1>0, <2>2, PromisedType, CapStep
<1>. QED
  BY <1>1, <1>2, <1>3, <1>4, <1>5

LEMMA CapHolds == Init => CapInv
<1>. SUFFICES ASSUME Init PROVE CapInv
  OBVIOUS
<1>1. Launched = {} /\ Promised = 0
  BY DEF Init, Launched, Active, RunningRuns, Promised
<1>. QED
  BY <1>1, FS_EmptySet, EngineAssumption DEF CapInv

\* What CapInv promises is enough: a run just started is still promised.
LEMMA CapEnough ==
  ASSUME IInv, FreshOK, CapInv
  PROVE  CapRespected
<1>. SUFFICES Cardinality(Active) <= Cap
  BY DEF CapRespected, Active
<1>0. /\ LedgerOK /\ DeskOK /\ Cardinality(queue) \in Nat /\ Promised \in Nat
      /\ Cardinality(Launched) \in Nat /\ Cardinality(Active) \in Nat
      /\ Cardinality(Active) <= Cardinality(Launched) + 1 /\ Cap \in Nat
  BY QueueFinite, PromisedType, ActiveFinite, EngineAssumption DEF IInv, Parts
<1>1. CASE pc \in {"link", "launch", "spawned"}
  <2>1. 1 <= Promised
    <3>1. CASE cur.review = 0
      <4>1. pc # "link"
        BY <1>0, <3>1 DEF DeskOK, LedgerOK
      <4>. QED
        BY <1>0, <1>1, <3>1, <4>1 DEF Promised
    <3>2. CASE cur.review # 0
      BY <1>0, <1>1, <3>2 DEF Promised, DeskOK
    <3>. QED
      BY <3>1, <3>2
  <2>. QED
    BY <1>0, <2>1 DEF CapInv
<1>2. CASE pc \notin {"link", "launch", "spawned"}
  <2>1. Launched = Active
    BY <1>2 DEF FreshOK, Launched, Active
  <2>. QED
    BY <1>0, <2>1 DEF CapInv
<1>. QED
  BY <1>1, <1>2

\* The runs that ticks launched never exceed concurrency_cap, although the
\* capacity is computed once for a whole loop of launches, each of several
\* transactions, and runs end, stall and reopen meanwhile.
THEOREM CapHoldsAlways == Spec => []CapRespected
<1>1. IInv /\ HandOK /\ FreshOK /\ CapInv /\ [Next]_vars => CapInv'
  BY NextKeeps, CapKeeps
<1>2. IInv /\ FreshOK /\ CapInv => CapRespected
  BY CapEnough
<1>. QED
  BY <1>1, <1>2, CapHolds, DispatchInvariant, PTL DEF Spec

-----------------------------------------------------------------------------
(* Until the owner first steps in, no two workers and no task out of order *)
(* (SingleWorker, DependencyOrder).  As long as a task was reviewed at     *)
(* most once, exactly one thing at most may still move it -- its own       *)
(* status, the lock holder's hand, one wrapper, or one review that is      *)
(* pending or being launched.  Call that its token: every step passes it   *)
(* on or drops it.                                                         *)

Early(t) == tasks[t].status \in {"planned", "waiting_approval"}

TaskToken(t) ==
  tasks[t].status \in {"planned", "waiting_approval", "ready", "rework", "done"}

HandToken(t) ==
  /\ cur.task = t
  /\ pc = "claimed" \/ (pc \in {"launch", "unspawned"} /\ cur.review = 0)

\* A wrapper of a review run counts while its brief may still fail the task, or
\* its agent may still decide the review.
MayDecide(r) ==
  \/ wrapper[r].state = "boot" /\ runs[r].status = "running"
  \/ /\ wrapper[r].state \in {"boot", "agent"}
     /\ reviews[runs[r].review].status \in Open

RunToken(t, r) ==
  /\ r \in RunsOf(t)
  /\ IF runs[r].review = 0 THEN Working(r) ELSE MayDecide(r)

ReviewToken(t, v) ==
  /\ v \in DOMAIN reviews /\ reviews[v].task = t
  /\ \/ reviews[v].status = "pending"
     \/ cur.review = v /\ pc \in {"assigned", "link", "launch"}

ReviewIds == 1..MaxReviews

OneToken(t) ==
  /\ TaskToken(t) => ~ HandToken(t)
  /\ \A r \in RunIds : RunToken(t, r) =>
       /\ ~ TaskToken(t) /\ ~ HandToken(t)
       /\ \A q \in RunIds : RunToken(t, q) => q = r
  /\ \A v \in ReviewIds : ReviewToken(t, v) =>
       /\ ~ TaskToken(t) /\ ~ HandToken(t)
       /\ \A r \in RunIds : ~ RunToken(t, r)

\* Nothing was ever started for the task.
Untouched(t) ==
  /\ RunsOf(t) = {} /\ cur.task # t
  /\ \A v \in DOMAIN reviews : reviews[v].task # t

\* The child of a parent that needs no landing waits for it.
InOrder(d) ==
  d[2] \notin Code /\ ReviewedOnce(d[2]) /\ ~ Early(d[1])
    => tasks[d[2]].status = "done"

Ownerless ==
  stop.phase = "none" /\ \A r \in RunIds : answer[r] = "none"

OrderInv ==
  ownerOps = MaxOwnerOps =>
    /\ Ownerless
    /\ \A t \in Tasks : ReviewedOnce(t) => OneToken(t)
    /\ \A t \in Tasks : Early(t) => Untouched(t)
    /\ \A d \in Deps : InOrder(d)

\* A step before the owner's first action.
Alone ==
  /\ Ownerless
  /\ \/ Tick \/ Crashing
     \/ \E r \in RunIds : Wrapper(r) \/ Agent(r)
     \/ \E t \in Tasks : Caller(t)

LEMMA AloneUntil ==
  ASSUME IInv, HandOK, Next, ownerOps' = MaxOwnerOps,
         ownerOps = MaxOwnerOps => Ownerless
  PROVE  Alone /\ ownerOps = MaxOwnerOps /\ Ownerless'
<1>0. BudgetOK /\ DeskOK /\ AnswerOK
  BY DEF IInv, Parts
<1>1. ~ Owner
  <2>1. Owner => ownerOps' < ownerOps
    BY <1>0, OwnerCounts
  <2>. QED
    BY <1>0, <2>1, EngineAssumption DEF BudgetOK
<1>2. ownerOps = MaxOwnerOps
  <2>1. ASSUME NEW r \in RunIds, Resuming(r) \/ Wrapper(r) \/ Agent(r)
        PROVE  ownerOps' = ownerOps
    BY <2>1, WrapperTouches
  <2>2. CASE Tick
    BY <2>2
    DEF Tick, TickPromote, TickSelect, WorkClaim, WorkBadPath, WorkStartRun,
        Spawn, SpawnFails, SpawnFailed, RecordPid, ListReviews, ReviewClaim,
        ReviewBadPath, ReviewStartRun, ReviewLink, ListRuns, ScanAlive,
        ScanStalled, MarkTaskStalled, FailStalledReview, TickEnd, Fault, budget
  <2>3. CASE Stop \/ Crashing \/ \E t \in Tasks : Caller(t)
    BY <2>3
    DEF Stop, StopKill, StopFinishRun, StopRequeue, Crashing, ServiceCrash,
        TickAborts, CallerCrash, WrapperCrash, Caller, Land, Promote, Crash,
        budget
  <2>. QED
    BY <1>1, <2>1, <2>2, <2>3 DEF Next
<1>3. ~ Stop /\ \A r \in RunIds : ~ Resuming(r)
  BY <1>2
  DEF Ownerless, HandOK, StopHand, Stop, StopKill, StopFinishRun, StopRequeue,
      Resuming, AnswerSpawn, AnswerRecordPid, AnswerSetupFails,
      AnswerSpawnFails, AnswerSpawnFailed, AnswerStep
<1>4. Alone
  BY <1>1, <1>2, <1>3 DEF Alone, Next
<1>5. UNCHANGED <<stop, answer>> \/ ServiceCrash
  <2>1. CASE Tick
    BY <2>1
    DEF Tick, TickPromote, TickSelect, WorkClaim, WorkBadPath, WorkStartRun,
        Spawn, SpawnFails, SpawnFailed, RecordPid, ListReviews, ReviewClaim,
        ReviewBadPath, ReviewStartRun, ReviewLink, ListRuns, ScanAlive,
        ScanStalled, MarkTaskStalled, FailStalledReview, TickEnd, callers
  <2>2. CASE Crashing \/ \E t \in Tasks : Caller(t)
    BY <2>2
    DEF Crashing, TickAborts, CallerCrash, WrapperCrash, Caller, Land, Promote,
        callers
  <2>3. CASE \E r \in RunIds : Wrapper(r) \/ Agent(r)
    BY <2>3
    DEF Wrapper, Boot, BriefUnreadable, CloseReview, Reap, FinalizeWork,
        FinalizeReview, WrapperStep, Agent, Question, Verdict, ReviewVerdict,
        callers
  <2>. QED
    BY <1>4, <2>1, <2>2, <2>3 DEF Alone
<1>6. Ownerless'
  BY <1>2, <1>5 DEF Ownerless, ServiceCrash, NoStop
<1>. QED
  BY <1>2, <1>4, <1>6

-----------------------------------------------------------------------------
(* Who moves a task *)

Others(u) == \A w \in Tasks : w # u => tasks'[w] = tasks[w]

\* Something that may move the task: its own status in the hands of a claim or
\* of the scan, the hand of a tick, a run.  A run moves it as the holder of its
\* token, unless the task was reviewed again or its landing is refused.
Handled(u) ==
  \/ tasks[u].status \in {"ready", "rework", "running"}
  \/ HandToken(u)
  \/ /\ RunsOf(u) # {}
     /\ \/ u \in Code \/ ~ ReviewedOnce(u)
        \/ \E r \in RunIds : RunToken(u, r)

\* A completion or a verdict.
Concludes(r) ==
  \/ Verdict(r)
  \/ \E report \in {"done", "manual", "blocked", "failed", "dirty"} :
       FinalizeWork(r, report)

Dropped(u) ==
  /\ Handled(u) /\ Others(u)
  /\ tasks'[u].status \in {"running", "failed", "stalled", "blocked"}

Concluded(r) ==
  /\ r \in DOMAIN runs /\ runs[r].task \in Tasks /\ Concludes(r)
  /\ Handled(runs[r].task) /\ Others(runs[r].task)
  /\ tasks'[runs[r].task].status \notin {"planned", "waiting_approval"}

TasksMove ==
  \/ UNCHANGED tasks
  \/ \E P : tasks' = Promoted(P)
  \/ \E u \in Tasks : Dropped(u)
  \/ \E r \in RunIds : Concluded(r)

\* A move of a task that was handled.
LEMMA WithTaskDrops ==
  ASSUME LedgerOK, NEW u \in Tasks, Handled(u),
         NEW s \in {"running", "failed", "stalled", "blocked"},
         tasks' = WithTask(u, s)
  PROVE  TasksMove
BY WithTaskTakes DEF TaskTakes, TasksMove, Dropped, Others

LEMMA TickMovesTask ==
  ASSUME IInv, Tick
  PROVE  TasksMove
<1>0. LedgerOK /\ DeskOK
  BY DEF IInv, Parts
<1>1. ASSUME NEW t \in Tasks, WorkClaim(t)
      PROVE  TasksMove
  <2>1. CASE UNCHANGED ledger
    BY <2>1 DEF TasksMove, ledger
  <2>2. CASE ClaimTask(t)
    BY <1>0, <2>2, WithTaskDrops DEF ClaimTask, Claimable, Handled
  <2>. QED
    BY <1>1, <2>1, <2>2 DEF WorkClaim
<1>2. CASE WorkBadPath \/ (SpawnFailed /\ cur.review = 0)
  <2>1. cur.task \in Tasks /\ Handled(cur.task)
    BY <1>0, <1>2 DEF WorkBadPath, SpawnFailed, DeskOK, Handled, HandToken
  <2>2. tasks' = WithTask(cur.task, "failed")
    BY <1>2 DEF WorkBadPath, SpawnFailed, CompleteRun
  <2>. QED
    BY <1>0, <2>1, <2>2, WithTaskDrops
<1>3. CASE MarkTaskStalled
  <2>1. cur.task \in Tasks
    BY <1>0, <1>3 DEF MarkTaskStalled, DeskOK
  <2>2. CASE tasks[cur.task].status = "running"
    <3>1. tasks' = WithTask(cur.task, "stalled") /\ Handled(cur.task)
      BY <1>3, <2>2 DEF MarkTaskStalled, StallTask, Handled
    <3>. QED
      BY <1>0, <2>1, <3>1, WithTaskDrops
  <2>3. CASE tasks[cur.task].status # "running"
    BY <1>3, <2>3 DEF MarkTaskStalled, StallTask, TasksMove
  <2>. QED
    BY <2>2, <2>3
<1>4. CASE TickPromote
  BY <1>4 DEF TickPromote, PromoteWaiting, TasksMove
<1>5. CASE \/ WorkStartRun \/ ReviewStartRun \/ SpawnFails \/ RecordPid
           \/ TickSelect \/ Spawn \/ ListReviews \/ ListRuns \/ TickEnd
  BY <1>5
  DEF WorkStartRun, ReviewStartRun, StartRun, SpawnFails, FinishRun, RecordPid,
      SetRunPid, TickSelect, Spawn, ListReviews, ListRuns, TickEnd, ledger,
      TasksMove
<1>6. CASE \/ ReviewBadPath \/ ReviewLink \/ FailStalledReview
           \/ (SpawnFailed /\ cur.review # 0)
  BY <1>6
  DEF ReviewBadPath, ReviewLink, SetRunReview, FailStalledReview, SpawnFailed,
      SetReviewStatus, ledger, TasksMove
<1>7. ASSUME NEW v \in desk, ReviewClaim(v)
      PROVE  TasksMove
  BY <1>7 DEF ReviewClaim, ClaimReview, ledger, TasksMove
<1>8. ASSUME NEW x \in scan, ScanAlive(x) \/ ScanStalled(x)
      PROVE  TasksMove
  BY <1>8 DEF ScanAlive, ScanStalled, FinishRun, ledger, TasksMove
<1>. QED
  BY <1>1, <1>2, <1>3, <1>4, <1>5, <1>6, <1>7, <1>8 DEF Tick

\* With one review of the task, its reviewer decides that one.
LEMMA OneReview ==
  ASSUME IInv, HandOK, NEW r \in DOMAIN runs, runs[r].review # 0,
         NEW t, t = runs[r].task, ReviewedOnce(t)
  PROVE  /\ runs[r].review \in DOMAIN reviews
         /\ reviews[runs[r].review].task = t
         /\ OpenReviews(t) \subseteq {runs[r].review}
         /\ LatestOpen(t) = OpenReviews(t)
<1>1. runs[r].review \in DOMAIN reviews
  BY PartsAreTypes DEF IInv, Wired
<1>2. reviews[runs[r].review].task = t
  BY DEF HandOK, LinkHomes
<1>3. OpenReviews(t) \subseteq {runs[r].review}
  BY <1>1, <1>2 DEF OpenReviews, ReviewedOnce
<1>4. LatestOpen(t) = OpenReviews(t)
  <2>1. runs[r].review \in Nat
    BY <1>1 DEF IInv, Parts, LedgerOK
  <2>. QED
    BY <1>3, <2>1 DEF LatestOpen
<1>. QED
  BY <1>1, <1>2, <1>3, <1>4

\* A verdict comes from the reviewer of an open review.
LEMMA VerdictToken ==
  ASSUME IInv, HandOK, NEW r \in RunIds, Verdict(r), ReviewedOnce(runs[r].task)
  PROVE  /\ r \in DOMAIN runs /\ runs[r].review # 0
         /\ RunToken(runs[r].task, r)
         /\ LatestOpen(runs[r].task) = {runs[r].review}
<1>1. r \in DOMAIN runs /\ runs[r].review # 0 /\ wrapper[r].state = "agent"
  BY DEF Verdict
<1>2. LatestOpen(runs[r].task) # {}
  BY DEF Verdict, ReviewVerdict, ApproveReview, RequestChanges
<1>3. LatestOpen(runs[r].task) = {runs[r].review}
      /\ OpenReviews(runs[r].task) = {runs[r].review}
  BY <1>1, <1>2, OneReview
<1>4. reviews[runs[r].review].status \in Open
  BY <1>3 DEF OpenReviews
<1>. QED
  BY <1>1, <1>3, <1>4 DEF RunToken, RunsOf, MayDecide

LEMMA WrapperMovesTask ==
  ASSUME IInv, HandOK, NEW r \in RunIds, Wrapper(r) \/ Agent(r)
  PROVE  TasksMove
<1>0. LedgerOK /\ WrapperOK /\ r \in DOMAIN runs /\ runs[r].task \in Tasks
      /\ RunsOf(runs[r].task) # {}
  <2>1. r \in DOMAIN runs
    BY WrapperTouches
  <2>2. LedgerOK /\ WrapperOK
    BY DEF IInv, Parts
  <2>. QED
    BY <2>1, <2>2, RowType DEF RunsOf
<1>1. CASE BriefUnreadable(r)
  <2>1. wrapper[r].state = "boot" /\ FailRun(r)
    BY <1>1 DEF BriefUnreadable, WrapperStep
  <2>2. CASE runs[r].status = "running"
    <3>1. RunToken(runs[r].task, r)
      BY <1>0, <2>1, <2>2 DEF RunToken, RunsOf, Working, MayDecide
    <3>2. Handled(runs[r].task)
      BY <1>0, <3>1 DEF Handled
    <3>3. tasks' = WithTask(runs[r].task, "failed")
      BY <2>1, <2>2 DEF FailRun
    <3>. QED
      BY <1>0, <3>2, <3>3, WithTaskDrops
  <2>3. CASE runs[r].status # "running"
    BY <2>1, <2>3 DEF FailRun, TasksMove
  <2>. QED
    BY <2>2, <2>3
<1>2. CASE \/ Boot(r) \/ CloseReview(r) \/ Reap(r) \/ Question(r)
           \/ \E report \in {"done", "blocked", "failed"} : FinalizeReview(r, report)
  BY <1>2
  DEF Boot, CloseReview, CloseReviewRun, Reap, Question, NoteQuestion,
      FinalizeReview, FinishRun, ledger, TasksMove
<1>3. ASSUME NEW report \in {"done", "manual", "blocked", "failed", "dirty"},
             FinalizeWork(r, report)
      PROVE  TasksMove
  <2>. DEFINE u == runs[r].task
              s == TaskAfter(u, report)
  <2>1. s \notin {"planned", "waiting_approval"}
    BY <1>3 DEF TaskAfter
  <2>2. PICK g : tasks' = [tasks EXCEPT ![u] = Gated(Moved(@, s), g)]
    BY <1>3 DEF FinalizeWork, RecordCompletion
  <2>3. tasks'[u].status = s /\ Others(u)
    <3>1. tasks'[u] = Gated(Moved(tasks[u], s), g)
          /\ \A w \in Tasks : w # u => tasks'[w] = tasks[w]
      BY <1>0, <2>2 DEF LedgerOK
    <3>. QED
      BY <3>1 DEF Gated, Moved, Others
  <2>4. RunToken(u, r)
    BY <1>0, <1>3 DEF FinalizeWork, WrapperStep, RunToken, RunsOf, Working
  <2>5. Handled(u)
    BY <1>0, <2>4 DEF Handled
  <2>6. Concludes(r)
    BY <1>3 DEF Concludes
  <2>. HIDE DEF s, u
  <2>7. Concluded(r)
    BY <1>0, <2>1, <2>3, <2>5, <2>6 DEF Concluded, u
  <2>. QED
    BY <2>7 DEF TasksMove
<1>4. CASE Verdict(r)
  <2>. DEFINE u == runs[r].task
  <2>1. Handled(u)
    BY <1>0, <1>4, VerdictToken DEF Handled
  <2>2. \E s \in TaskStatus :
          s \notin {"planned", "waiting_approval"} /\ tasks' = WithTask(u, s)
    BY <1>4 DEF Verdict, ReviewVerdict, ApproveReview, RequestChanges, TaskStatus
  <2>3. tasks'[u].status \notin {"planned", "waiting_approval"} /\ Others(u)
    BY <1>0, <2>2, WithTaskTakes DEF TaskTakes, Others
  <2>4. Concluded(r)
    BY <1>0, <1>4, <2>1, <2>3 DEF Concluded, Concludes
  <2>. QED
    BY <2>4 DEF TasksMove
<1>. QED
  BY <1>1, <1>2, <1>3, <1>4 DEF Wrapper, Agent

\* Whatever moves a task before the owner's first action had it in hand.
LEMMA AloneMoves ==
  ASSUME IInv, HandOK, Alone
  PROVE  TasksMove
<1>0. LedgerOK /\ CallsOK
  BY DEF IInv, Parts
<1>1. CASE Crashing
  BY <1>1
  DEF Crashing, ServiceCrash, TickAborts, CallerCrash, WrapperCrash, ledger,
      TasksMove
<1>2. ASSUME NEW t \in Tasks, Caller(t)
      PROVE  TasksMove
  <2>1. CASE UNCHANGED tasks \/ \E P : tasks' = Promoted(P)
    BY <2>1 DEF TasksMove
  <2>2. CASE RefuseLanding(t)
    <3>1. Handled(t)
      BY <2>2 DEF RefuseLanding, WorkRuns, Handled
    <3>. QED
      BY <1>0, <2>2, <3>1, WithTaskDrops DEF RefuseLanding
  <2>. QED
    BY <1>2, <2>1, <2>2 DEF Caller, Land, Promote, PromoteDependents, ledger
<1>3. CASE Tick
  BY <1>3, TickMovesTask
<1>4. ASSUME NEW r \in RunIds, Wrapper(r) \/ Agent(r)
      PROVE  TasksMove
  BY <1>4, WrapperMovesTask
<1>. QED
  BY <1>1, <1>2, <1>3, <1>4 DEF Alone

-----------------------------------------------------------------------------
(* What each step does to the tokens *)

\* No task gains its own token but by a completion or a verdict.
LEMMA TaskTokens ==
  ASSUME LedgerOK, TasksMove, NEW t \in Tasks, TaskToken(t)',
         ~ \E r \in RunIds : Concludes(r)
  PROVE  TaskToken(t)
<1>1. CASE UNCHANGED tasks
  BY <1>1 DEF TaskToken
<1>2. CASE \E P : tasks' = Promoted(P)
  BY <1>2, PromotedMove DEF TasksPromote, Promotable, TaskToken
<1>3. CASE \E u \in Tasks : Dropped(u)
  BY <1>3 DEF Dropped, Others, TaskToken
<1>. QED
  BY <1>1, <1>2, <1>3 DEF TasksMove, Concluded

\* No closed review is opened again, but for those of V.
OpenBack(V) ==
  \A v \in DOMAIN reviews :
    v \notin V /\ reviews'[v].status \in Open => reviews[v].status \in Open

LEMMA ReviewsBack ==
  ASSUME LedgerOK,
         \/ UNCHANGED reviews
         \/ \E V, s : s \notin Open /\ reviews' = Decided(V, s)
         \/ \E v \in DOMAIN reviews : ClaimReview(v)
         \/ \E t \in Tasks : CreateReview(t)
  PROVE  OpenBack({})
<1>1. CASE UNCHANGED reviews
  BY <1>1 DEF OpenBack
<1>2. ASSUME NEW V, NEW s, s \notin Open, reviews' = Decided(V, s)
      PROVE  OpenBack({})
  <2>1. ReviewsTake(V, s)
    BY <1>2, DecidedTake
  <2>. QED
    BY <1>2, <2>1 DEF ReviewsTake, OpenBack
<1>3. ASSUME NEW v \in DOMAIN reviews, ClaimReview(v)
      PROVE  OpenBack({})
  <2>1. ReviewsTake({v}, "running") /\ reviews[v].status \in Open
    BY <1>3, DecidedTake DEF ClaimReview, Open
  <2>. QED
    BY <2>1 DEF ReviewsTake, OpenBack
<1>4. ASSUME NEW t \in Tasks, CreateReview(t)
      PROVE  OpenBack({})
  <2>1. \A v \in DOMAIN reviews : reviews'[v] = reviews[v]
    BY <1>4 DEF CreateReview, LedgerOK
  <2>. QED
    BY <2>1 DEF OpenBack
<1>. QED
  BY <1>1, <1>2, <1>3, <1>4

\* Only a completion that comes after the scan's verdict opens a closed review.
LEMMA AloneBack ==
  ASSUME IInv, Alone, ~ \E r \in RunIds : CloseReview(r)
  PROVE  OpenBack({})
<1>0. LedgerOK /\ DeskOK /\ WrapperOK
  BY DEF IInv, Parts
<1>1. CASE UNCHANGED reviews
  BY <1>0, <1>1, ReviewsBack
<1>2. CASE \/ TickPromote \/ TickSelect \/ WorkBadPath \/ WorkStartRun \/ Spawn
           \/ SpawnFails \/ RecordPid \/ ListReviews \/ ReviewStartRun
           \/ ReviewLink \/ ListRuns \/ MarkTaskStalled \/ TickEnd
  BY <1>1, <1>2
  DEF TickPromote, PromoteWaiting, TickSelect, WorkBadPath, CompleteRun,
      WorkStartRun, StartRun, Spawn, SpawnFails, FinishRun, RecordPid,
      SetRunPid, ListReviews, ReviewStartRun, ReviewLink, SetRunReview,
      ListRuns, MarkTaskStalled, StallTask, TickEnd, ledger
<1>3. CASE SpawnFailed \/ ReviewBadPath \/ FailStalledReview
  <2>1. UNCHANGED reviews \/ \E s \in {"failed", "blocked"} :
                               reviews' = Decided({cur.review}, s)
    BY <1>3 DEF SpawnFailed, CompleteRun, ReviewBadPath, FailStalledReview,
                SetReviewStatus, ledger
  <2>2. \A s \in {"failed", "blocked"} : s \notin Open
    BY DEF Open
  <2>. QED
    BY <1>0, <2>1, <2>2, ReviewsBack
<1>4. ASSUME NEW t \in Tasks, WorkClaim(t)
      PROVE  OpenBack({})
  BY <1>1, <1>4 DEF WorkClaim, ClaimTask, ledger
<1>5. ASSUME NEW v \in desk, ReviewClaim(v)
      PROVE  OpenBack({})
  <2>1. v \in DOMAIN reviews
    BY <1>0 DEF DeskOK
  <2>2. UNCHANGED reviews \/ ClaimReview(v)
    BY <1>5 DEF ReviewClaim, ledger
  <2>. QED
    BY <1>0, <2>1, <2>2, ReviewsBack
<1>6. ASSUME NEW x \in scan, ScanAlive(x) \/ ScanStalled(x)
      PROVE  OpenBack({})
  BY <1>1, <1>6 DEF ScanAlive, ScanStalled, FinishRun, ledger
<1>7. CASE Tick
  BY <1>2, <1>3, <1>4, <1>5, <1>6, <1>7 DEF Tick
<1>8. CASE Crashing \/ \E t \in Tasks : Caller(t)
  BY <1>1, <1>8
  DEF Crashing, ServiceCrash, TickAborts, CallerCrash, WrapperCrash, Caller,
      Land, Promote, RefuseLanding, PromoteDependents, ledger
<1>9. ASSUME NEW r \in RunIds, Wrapper(r) \/ Agent(r)
      PROVE  OpenBack({})
  <2>1. runs[r].task \in Tasks
    BY <1>0, <1>9, WrapperTouches, RowType
  <2>2. CASE \/ Boot(r) \/ BriefUnreadable(r) \/ Reap(r) \/ Question(r)
             \/ \E report \in {"done", "blocked", "failed"} : FinalizeReview(r, report)
    BY <1>1, <2>2
    DEF Boot, BriefUnreadable, FailRun, Reap, Question, NoteQuestion,
        FinalizeReview, FinishRun, ledger
  <2>3. CASE \E report \in {"done", "manual", "blocked", "failed", "dirty"} :
               FinalizeWork(r, report)
    BY <1>0, <2>1, <2>3, ReviewsBack DEF FinalizeWork, RecordCompletion
  <2>4. CASE Verdict(r)
    <3>1. \E s \in {"done", "changes_requested"} :
            reviews' = Decided(LatestOpen(runs[r].task), s)
      BY <2>4 DEF Verdict, ReviewVerdict, ApproveReview, RequestChanges
    <3>2. \A s \in {"done", "changes_requested"} : s \notin Open
      BY DEF Open
    <3>. QED
      BY <1>0, <3>1, <3>2, ReviewsBack
  <2>. QED
    BY <1>9, <2>2, <2>3, <2>4 DEF Wrapper, Agent
<1>. QED
  BY <1>7, <1>8, <1>9 DEF Alone

\* A run whose wrapper is gone has no token; a run that stays, or whose brief is
\* read, had the one it has.
LEMMA NoWrapperNoToken ==
  ASSUME NEW t, NEW r \in RunIds,
         \/ wrapper'[r].state \in {"none", "zombie"}
         \/ wrapper'[r].state \notin {"boot", "agent"} /\ runs'[r].review # 0
  PROVE  ~ RunToken(t, r)'
BY DEF RunToken, Working, MayDecide

LEMMA RunTokenBack ==
  ASSUME NEW t, NEW r \in RunIds, RunToken(t, r)', r \in DOMAIN runs,
         runs'[r].task = runs[r].task, runs'[r].review = runs[r].review,
         runs'[r].status = "running" => runs[r].status = "running",
         \/ wrapper'[r].state = wrapper[r].state
         \/ wrapper'[r].state = "agent" /\ wrapper[r].state = "boot",
         runs[r].review \in {0} \cup DOMAIN reviews,
         NEW V, OpenBack(V), runs[r].review \notin V
  PROVE  RunToken(t, r)
<1>1. r \in RunsOf(t)
  BY DEF RunToken, RunsOf
<1>2. CASE runs[r].review = 0
  BY <1>1, <1>2 DEF RunToken, Working
<1>3. CASE runs[r].review # 0
  <2>1. MayDecide(r)'
    BY <1>3 DEF RunToken
  <2>2. reviews'[runs[r].review].status \in Open =>
          reviews[runs[r].review].status \in Open
    BY <1>3 DEF OpenBack
  <2>3. MayDecide(r)
    BY <2>1, <2>2 DEF MayDecide
  <2>. QED
    BY <1>1, <1>3, <2>3 DEF RunToken
<1>. QED
  BY <1>2, <1>3

\* The tick launches one run; it starts and links runs without a wrapper.
LEMMA TickRunTokens ==
  ASSUME IInv, FreshOK, Tick, OpenBack({}), NEW t, NEW r \in RunIds,
         RunToken(t, r)', Spawn => r # cur.run
  PROVE  RunToken(t, r)
<1>0. LedgerOK /\ DeskOK /\ WrapperOK
  BY DEF IInv, Parts
<1>1. wrapper'[r] = wrapper[r]
  <2>1. CASE Spawn
    BY <1>0, <2>1 DEF Spawn, Spawned, WrapperOK
  <2>2. CASE ~ Spawn
    BY <2>2
    DEF Tick, TickPromote, TickSelect, WorkClaim, WorkBadPath, WorkStartRun,
        SpawnFails, SpawnFailed, RecordPid, ListReviews, ReviewClaim,
        ReviewBadPath, ReviewStartRun, ReviewLink, ListRuns, ScanAlive,
        ScanStalled, MarkTaskStalled, FailStalledReview, TickEnd
  <2>. QED
    BY <2>1, <2>2
<1>2. wrapper[r].state # "none" /\ r \in DOMAIN runs
  <2>1. wrapper[r].state # "none"
    BY <1>1, NoWrapperNoToken
  <2>. QED
    BY <1>0, <2>1 DEF WrapperOK
<1>3. /\ runs'[r].task = runs[r].task /\ runs'[r].review = runs[r].review
      /\ runs'[r].status = "running" => runs[r].status = "running"
  <2>1. CASE WorkStartRun \/ ReviewStartRun
    <3>1. RunStarts(cur.task)
      BY <1>0, <2>1, StartRunStarts DEF WorkStartRun, ReviewStartRun, DeskOK
    <3>. QED
      BY <1>2, <3>1 DEF RunStarts
  <2>2. CASE ReviewLink
    <3>1. RunsStay(cur.run, cur.review) /\ r # cur.run
      <4>1. cur.run \in DOMAIN runs /\ cur.review \in Nat
        BY <1>0, <2>2 DEF ReviewLink, DeskOK, LedgerOK
      <4>2. RunsStay(cur.run, cur.review)
        BY <1>0, <2>2, <4>1, SetRunReviewStays DEF ReviewLink
      <4>3. wrapper[cur.run].state = "none"
        BY <2>2 DEF ReviewLink, FreshOK
      <4>. QED
        BY <1>2, <4>2, <4>3
    <3>. QED
      BY <1>2, <3>1 DEF RunsStay
  <2>3. CASE ~ WorkStartRun /\ ~ ReviewStartRun /\ ~ ReviewLink
    BY <1>2, <2>3, TickQuiet DEF Quiet
  <2>. QED
    BY <2>1, <2>2, <2>3
<1>4. runs[r].review \in {0} \cup DOMAIN reviews
  BY <1>2, PartsAreTypes DEF IInv, Wired
<1>5. runs[r].review \notin {}
  OBVIOUS
<1>. QED
  BY <1>1, <1>2, <1>3, <1>4, <1>5, RunTokenBack

\* Crashes end wrappers, callers leave the runs alone.
LEMMA CrashRunTokens ==
  ASSUME IInv, Crashing \/ (\E u \in Tasks : Caller(u)), NEW t,
         NEW r \in RunIds, RunToken(t, r)'
  PROVE  RunToken(t, r)
<1>0. LedgerOK /\ WrapperOK
  BY DEF IInv, Parts
<1>1. UNCHANGED <<runs, reviews>>
  BY DEF Crashing, ServiceCrash, TickAborts, CallerCrash, WrapperCrash, Caller,
         Land, Promote, RefuseLanding, PromoteDependents, ledger
<1>2. \/ wrapper'[r] = wrapper[r]
      \/ wrapper'[r].state \in {"none", "zombie"}
  <2>1. CASE ServiceCrash
    BY <1>0, <2>1 DEF ServiceCrash, WrapperOK
  <2>2. CASE \E q \in RunIds : WrapperCrash(q)
    BY <1>0, <2>2 DEF WrapperCrash, WrapperOK
  <2>3. CASE UNCHANGED wrapper
    BY <2>3
  <2>. QED
    BY <2>1, <2>2, <2>3 DEF Crashing, TickAborts, CallerCrash, Caller, Land, Promote
<1>3. wrapper'[r] = wrapper[r]
  BY <1>2, NoWrapperNoToken
<1>. QED
  BY <1>1, <1>3 DEF RunToken, RunsOf, Working, MayDecide

\* A report may open the review of its own run, and of no other.
LEMMA CloseBack ==
  ASSUME IInv, NEW p \in RunIds, CloseReview(p)
  PROVE  runs[p].review # 0 /\ OpenBack({runs[p].review})
<1>0. LedgerOK /\ WrapperOK
  BY DEF IInv, Parts
<1>1. runs[p].review # 0
  BY <1>0 DEF CloseReview, WrapperStep, WrapperOK
<1>2. UNCHANGED reviews \/ \E s : reviews' = Decided({runs[p].review}, s)
  BY DEF CloseReview, CloseReviewRun
<1>3. OpenBack({runs[p].review})
  <2>1. CASE UNCHANGED reviews
    BY <2>1 DEF OpenBack
  <2>2. ASSUME NEW s, reviews' = Decided({runs[p].review}, s)
        PROVE  OpenBack({runs[p].review})
    <3>1. ReviewsTake({runs[p].review}, s)
      BY <1>0, <2>2, DecidedTake
    <3>. QED
      BY <3>1 DEF ReviewsTake, OpenBack
  <2>. QED
    BY <1>2, <2>1, <2>2
<1>. QED
  BY <1>1, <1>3

\* A wrapper only moves on, and its agent closes reviews.
LEMMA WrapperRunTokens ==
  ASSUME IInv, NEW p \in RunIds, Wrapper(p) \/ Agent(p),
         OpenBack({}) \/ CloseReview(p),
         NEW t, NEW r \in RunIds, RunToken(t, r)'
  PROVE  RunToken(t, r)
<1>0. LedgerOK /\ WrapperOK
  BY DEF IInv, Parts
<1>1. RunsBut(p) /\ ProcessBut(p) /\ p \in DOMAIN runs /\ Quiet
  BY WrapperTouches, WrappersQuiet
<1>2. CASE r # p
  <2>1. wrapper'[r] = wrapper[r]
    BY <1>1, <1>2 DEF ProcessBut
  <2>2. r \in DOMAIN runs
    <3>1. wrapper[r].state # "none"
      BY <2>1, NoWrapperNoToken
    <3>. QED
      BY <1>0, <3>1 DEF WrapperOK
  <2>3. runs[r].review \in {0} \cup DOMAIN reviews
    BY <2>2, PartsAreTypes DEF IInv, Wired
  <2>4. \E V : OpenBack(V) /\ runs[r].review \notin V
    <3>1. CASE OpenBack({})
      BY <3>1
    <3>2. CASE CloseReview(p)
      <4>1. runs[r].review # runs[p].review
        BY <1>1, <1>2, <2>2, <3>2, CloseBack DEF IInv, ReviewClaims, ReviewRunUnique
      <4>2. OpenBack({runs[p].review}) /\ runs[r].review \notin {runs[p].review}
        BY <3>2, <4>1, CloseBack
      <4>. QED
        BY <4>2
    <3>. QED
      BY <3>1, <3>2
  <2>. QED
    BY <1>1, <2>1, <2>2, <2>3, <2>4, RunTokenBack DEF Quiet
<1>3. CASE r = p
  <2>1. runs'[r].review = runs[r].review
    BY <1>1, <1>3 DEF RunsBut
  <2>2. \/ wrapper'[r].state = wrapper[r].state /\ ~ CloseReview(p)
        \/ Boot(p)
        \/ wrapper'[r].state = "none"
        \/ wrapper'[r].state \notin {"boot", "agent"} /\ runs[r].review # 0
    BY <1>0, <1>3
    DEF Wrapper, Boot, BriefUnreadable, CloseReview, Reap, FinalizeWork,
        FinalizeReview, WrapperStep, Agent, Question, Verdict, ReviewVerdict,
        WrapperOK
  <2>3. \/ wrapper'[r].state = wrapper[r].state /\ ~ CloseReview(p)
        \/ Boot(p)
    BY <2>1, <2>2, NoWrapperNoToken
  <2>4. /\ \/ wrapper'[r].state = wrapper[r].state
           \/ wrapper'[r].state = "agent" /\ wrapper[r].state = "boot"
        /\ OpenBack({})
    BY <1>0, <1>3, <2>3 DEF Boot, CloseReview, WrapperStep, WrapperOK
  <2>5. runs[r].review \in {0} \cup DOMAIN reviews /\ runs[r].review \notin {}
    BY <1>1, <1>3, PartsAreTypes DEF IInv, Wired
  <2>. QED
    BY <1>1, <1>3, <2>4, <2>5, RunTokenBack DEF Quiet
<1>. QED
  BY <1>2, <1>3

\* Only a claim takes a task in hand: a run just started keeps it there, and a
\* launch gives it away.
LEMMA HandTokens ==
  ASSUME IInv, Alone, NEW t \in Tasks, HandToken(t)', ~ WorkClaim(t)
  PROVE  HandToken(t)
<1>0. DeskOK
  BY DEF IInv, Parts
<1>1. CASE UNCHANGED <<pc, cur>>
  BY <1>1 DEF HandToken
<1>2. pc' \in {"claimed", "launch", "unspawned"} /\ cur'.task = t
      /\ t # None
  BY EngineAssumption DEF HandToken
<1>3. CASE Tick
  <2>1. CASE WorkStartRun \/ SpawnFails \/ ReviewLink
    <3>1. /\ pc \in {"claimed", "launch", "link"}
          /\ cur'.task = cur.task /\ cur'.review = cur.review
          /\ pc' = "claimed" => pc = "claimed"
      BY <1>0, <2>1 DEF WorkStartRun, SpawnFails, ReviewLink, DeskOK
    <3>2. pc = "link" => cur.review # 0 /\ pc' = "launch"
      BY <1>0, <2>1 DEF WorkStartRun, SpawnFails, ReviewLink, DeskOK, IInv,
                        Parts, LedgerOK
    <3>3. pc = "claimed" => cur.review = 0
      BY <1>0 DEF DeskOK
    <3>4. pc' \in {"launch", "unspawned"} => cur'.review = 0
      BY DEF HandToken
    <3>. QED
      BY <1>2, <3>1, <3>2, <3>3, <3>4 DEF HandToken
  <2>2. CASE TickPromote \/ TickSelect \/ WorkBadPath \/ Spawn \/ SpawnFailed
             \/ RecordPid \/ ListReviews \/ ReviewBadPath \/ ReviewStartRun
             \/ ListRuns \/ MarkTaskStalled \/ FailStalledReview \/ TickEnd
    BY <1>2, <2>2
    DEF TickPromote, TickSelect, WorkBadPath, Spawn, SpawnFailed, RecordPid,
        ListReviews, ReviewBadPath, ReviewStartRun, ListRuns, MarkTaskStalled,
        FailStalledReview, TickEnd, Loop
  <2>3. ASSUME NEW u \in Tasks, WorkClaim(u)
        PROVE  HandToken(t)
    <3>1. u # t /\ (UNCHANGED <<pc, cur>> \/ cur' = [NoCur EXCEPT !.task = u])
      BY <2>3 DEF WorkClaim
    <3>2. cur' = [NoCur EXCEPT !.task = u] => cur'.task = u
      BY DEF NoCur
    <3>. QED
      BY <1>1, <1>2, <3>1, <3>2
  <2>4. ASSUME NEW v \in desk, ReviewClaim(v)
        PROVE  HandToken(t)
    BY <1>1, <1>2, <2>4 DEF ReviewClaim
  <2>5. ASSUME NEW x \in scan, ScanAlive(x) \/ ScanStalled(x)
        PROVE  HandToken(t)
    BY <1>1, <1>2, <2>5 DEF ScanAlive, ScanStalled
  <2>. QED
    BY <1>3, <2>1, <2>2, <2>3, <2>4, <2>5 DEF Tick
<1>4. CASE Crashing \/ \E u \in Tasks : Caller(u)
  BY <1>1, <1>2, <1>4
  DEF Crashing, ServiceCrash, TickAborts, CallerCrash, WrapperCrash, Caller,
      Land, Promote, tick
<1>5. ASSUME NEW r \in RunIds, Wrapper(r) \/ Agent(r)
      PROVE  HandToken(t)
  BY <1>1, <1>5, WrapperTouches DEF tick
<1>. QED
  BY <1>3, <1>4, <1>5 DEF Alone

\* A review is claimed out of 'pending' into the hand that launches it; only a
\* completion asks for a new one.
LEMMA TickReviewTokens ==
  ASSUME IInv, Tick, NEW t, NEW v, ReviewToken(t, v)'
  PROVE  ReviewToken(t, v)
<1>0. LedgerOK /\ DeskOK
  BY DEF IInv, Parts
<1>1. ASSUME NEW w \in desk, ReviewClaim(w)
      PROVE  ReviewToken(t, v)
  <2>0. w \in DOMAIN reviews /\ pc \notin {"assigned", "link", "launch"}
    BY <1>0, <1>1 DEF DeskOK, ReviewClaim
  <2>1. CASE UNCHANGED <<ledger, pc, cur>>
    BY <2>1 DEF ledger, ReviewToken
  <2>2. CASE ClaimReview(w) /\ cur'.review = w
    <3>1. ReviewsTake({w}, "running") /\ reviews[w].status = "pending"
      BY <1>0, <2>2, DecidedTake DEF ClaimReview
    <3>. QED
      BY <2>0, <2>2, <3>1 DEF ReviewsTake, ReviewToken
  <2>. QED
    BY <1>1, <2>1, <2>2 DEF ReviewClaim
<1>2. ASSUME UNCHANGED reviews \/ \E s \in {"failed", "blocked"} :
                                    reviews' = Decided({cur.review}, s),
             \/ pc' \notin {"assigned", "link", "launch"}
             \/ /\ pc \in {"assigned", "link", "launch"}
                /\ cur'.review = cur.review
             \/ pc' = "launch" /\ cur'.review = 0
      PROVE  ReviewToken(t, v)
  <2>1. /\ DOMAIN reviews' = DOMAIN reviews
        /\ \A w \in DOMAIN reviews :
             /\ reviews'[w].task = reviews[w].task
             /\ reviews'[w].status = "pending" => reviews[w].status = "pending"
    <3>1. CASE UNCHANGED reviews
      BY <3>1
    <3>2. ASSUME NEW s \in {"failed", "blocked"}, reviews' = Decided({cur.review}, s)
          PROVE  /\ DOMAIN reviews' = DOMAIN reviews
                 /\ \A w \in DOMAIN reviews :
                      /\ reviews'[w].task = reviews[w].task
                      /\ reviews'[w].status = "pending" =>
                           reviews[w].status = "pending"
      <4>1. ReviewsTake({cur.review}, s) /\ s # "pending"
        BY <1>0, <3>2, DecidedTake
      <4>. QED
        BY <4>1 DEF ReviewsTake
    <3>. QED
      BY <1>2, <3>1, <3>2
  <2>2. v # 0
    BY <1>0, <2>1 DEF ReviewToken, LedgerOK
  <2>. QED
    BY <1>2, <2>1, <2>2 DEF ReviewToken
<1>3. CASE TickPromote \/ TickSelect \/ WorkBadPath \/ Spawn \/ SpawnFails
           \/ RecordPid \/ ListReviews \/ ListRuns \/ MarkTaskStalled \/ TickEnd
  BY <1>2, <1>3
  DEF TickPromote, PromoteWaiting, TickSelect, WorkBadPath, CompleteRun, Spawn,
      SpawnFails, FinishRun, RecordPid, SetRunPid, ListReviews, ListRuns,
      MarkTaskStalled, StallTask, TickEnd, ledger, Loop
<1>4. CASE SpawnFailed \/ ReviewBadPath \/ FailStalledReview
  <2>1. /\ UNCHANGED reviews \/ \E s \in {"failed", "blocked"} :
                                  reviews' = Decided({cur.review}, s)
        /\ pc' \notin {"assigned", "link", "launch"}
    BY <1>4 DEF SpawnFailed, CompleteRun, ReviewBadPath, FailStalledReview,
                SetReviewStatus, ledger, Loop
  <2>. QED
    BY <1>2, <2>1
<1>5. CASE WorkStartRun \/ ReviewStartRun \/ ReviewLink
  <2>1. /\ UNCHANGED reviews
        /\ cur'.review = cur.review
        /\ pc \in {"assigned", "link"} \/ (pc' = "launch" /\ cur.review = 0)
    <3>1. CASE WorkStartRun
      BY <1>0, <3>1 DEF WorkStartRun, StartRun, DeskOK
    <3>2. CASE ReviewStartRun
      <4>1. UNCHANGED reviews /\ pc = "assigned"
        BY <3>2 DEF ReviewStartRun, StartRun
      <4>2. cur'.review = cur.review
        BY <1>0, <3>2 DEF ReviewStartRun, DeskOK
      <4>. QED
        BY <4>1, <4>2
    <3>3. CASE ReviewLink
      <4>1. UNCHANGED reviews /\ pc = "link" /\ UNCHANGED cur
        BY <3>3 DEF ReviewLink, SetRunReview
      <4>. QED
        BY <4>1
    <3>. QED
      BY <1>5, <3>1, <3>2, <3>3
  <2>. QED
    BY <1>2, <2>1
<1>6. ASSUME NEW u \in Tasks, WorkClaim(u)
      PROVE  ReviewToken(t, v)
  BY <1>2, <1>6 DEF WorkClaim, ClaimTask, ledger
<1>7. ASSUME NEW x \in scan, ScanAlive(x) \/ ScanStalled(x)
      PROVE  ReviewToken(t, v)
  BY <1>2, <1>7 DEF ScanAlive, ScanStalled, FinishRun, ledger
<1>. QED
  BY <1>1, <1>3, <1>4, <1>5, <1>6, <1>7 DEF Tick

LEMMA ReviewInBounds ==
  ASSUME LedgerOK
  PROVE  DOMAIN reviews \subseteq ReviewIds
<1>1. DOMAIN reviews = 1..Len(reviews) /\ Len(reviews) \in Nat
      /\ Len(reviews) <= MaxReviews
  BY DEF LedgerOK
<1>. QED
  BY <1>1, LedgerAssumption DEF ReviewIds

LEMMA CrashReviewTokens ==
  ASSUME Crashing \/ (\E u \in Tasks : Caller(u)), NEW t, NEW v, ReviewToken(t, v)'
  PROVE  ReviewToken(t, v)
<1>1. UNCHANGED reviews
  BY DEF Crashing, ServiceCrash, TickAborts, CallerCrash, WrapperCrash, Caller,
         Land, Promote, RefuseLanding, PromoteDependents, ledger
<1>2. UNCHANGED <<pc, cur>> \/ pc' = "idle"
  BY DEF Crashing, ServiceCrash, TickAborts, CallerCrash, WrapperCrash, Caller,
         Land, Promote, tick
<1>. QED
  BY <1>1, <1>2 DEF ReviewToken

\* The completion that asks for a review sends its task there.
LEMMA WrapperReviewTokens ==
  ASSUME IInv, NEW p \in RunIds, Wrapper(p) \/ Agent(p), NEW t \in Tasks, NEW v,
         ReviewToken(t, v)'
  PROVE  \/ ReviewToken(t, v)
         \/ /\ t = runs[p].task /\ tasks'[t].status = "needs_review"
            /\ Concludes(p)
<1>0. LedgerOK /\ UNCHANGED <<pc, cur>> /\ runs[p].task \in Tasks
  <2>1. LedgerOK
    BY DEF IInv, Parts
  <2>. QED
    BY <2>1, WrapperTouches, RowType DEF tick
<1>1. ASSUME NEW V, NEW s, s # "pending", ReviewsTake(V, s)
      PROVE  ReviewToken(t, v)
  BY <1>0, <1>1 DEF ReviewsTake, ReviewToken
<1>2. CASE UNCHANGED reviews
  BY <1>0, <1>2 DEF ReviewToken
<1>3. CASE \/ Boot(p) \/ BriefUnreadable(p) \/ Reap(p) \/ Question(p)
           \/ \E report \in {"done", "blocked", "failed"} : FinalizeReview(p, report)
  BY <1>2, <1>3
  DEF Boot, BriefUnreadable, FailRun, Reap, Question, NoteQuestion,
      FinalizeReview, FinishRun, ledger
<1>4. CASE CloseReview(p) \/ Verdict(p)
  <2>1. \/ UNCHANGED reviews
        \/ \E V, s : s # "pending" /\ reviews' = Decided(V, s)
    <3>1. CASE CloseReview(p)
      <4>. DEFINE s == IF wrapper[p].state = "done" THEN "reviewed"
                       ELSE wrapper[p].state
      <4>1. s # "pending"
        BY <3>1 DEF CloseReview, WrapperStep
      <4>2. UNCHANGED reviews \/ reviews' = Decided({runs[p].review}, s)
        BY <3>1 DEF CloseReview, CloseReviewRun
      <4>. QED
        BY <4>1, <4>2
    <3>2. CASE Verdict(p)
      <4>1. \E s \in {"done", "changes_requested"} :
              reviews' = Decided(LatestOpen(runs[p].task), s)
        BY <3>2 DEF Verdict, ReviewVerdict, ApproveReview, RequestChanges
      <4>. QED
        BY <4>1
    <3>. QED
      BY <1>4, <3>1, <3>2
  <2>. QED
    BY <1>0, <1>1, <1>2, <2>1, DecidedTake
<1>5. ASSUME NEW report \in {"done", "manual", "blocked", "failed", "dirty"},
             FinalizeWork(p, report)
      PROVE  \/ ReviewToken(t, v)
             \/ /\ t = runs[p].task /\ tasks'[t].status = "needs_review"
                /\ Concludes(p)
  <2>. DEFINE u == runs[p].task
  <2>1. CASE ~ Routed(u, report)
    BY <1>2, <1>5, <2>1 DEF FinalizeWork, RecordCompletion
  <2>2. CASE Routed(u, report)
    <3>1. TaskAfter(u, report) = "needs_review"
      BY <2>2 DEF TaskAfter, Routed
    <3>2. tasks'[u].status = "needs_review"
      <4>1. \E g : tasks' = [tasks EXCEPT ![u] =
                               Gated(Moved(@, TaskAfter(u, report)), g)]
        BY <1>5 DEF FinalizeWork, RecordCompletion
      <4>2. \E g : tasks'[u] = Gated(Moved(tasks[u], "needs_review"), g)
        BY <1>0, <3>1, <4>1 DEF LedgerOK
      <4>. QED
        BY <4>2 DEF Gated, Moved
    <3>3. Concludes(p)
      BY <1>5 DEF Concludes
    <3>4. CASE v \in DOMAIN reviews
      <4>1. reviews'[v] = reviews[v]
        BY <1>0, <1>5, <2>2, <3>4
        DEF FinalizeWork, RecordCompletion, CreateReview, LedgerOK
      <4>. QED
        BY <1>0, <3>4, <4>1 DEF ReviewToken
    <3>5. CASE v \notin DOMAIN reviews
      <4>1. v \in DOMAIN reviews' /\ reviews'[v].task = t
        BY DEF ReviewToken
      <4>2. reviews' = Append(reviews, [task |-> u, status |-> "pending"])
        BY <1>5, <2>2 DEF FinalizeWork, RecordCompletion, CreateReview
      <4>3. reviews'[v] = [task |-> u, status |-> "pending"]
        BY <1>0, <3>5, <4>1, <4>2 DEF LedgerOK
      <4>. QED
        BY <3>2, <3>3, <4>1, <4>3
    <3>. QED
      BY <3>4, <3>5
  <2>. QED
    BY <2>1, <2>2
<1>. QED
  BY <1>3, <1>4, <1>5 DEF Wrapper, Agent

-----------------------------------------------------------------------------
(* The run about to be launched executes the review in hand *)

LaunchLinked == pc = "launch" => runs[cur.run].review = cur.review

LEMMA LinkedKeeps ==
  ASSUME IInv, HandOK, LaunchLinked, [Next]_vars
  PROVE  LaunchLinked'
<1>0. LedgerOK /\ DeskOK
  BY DEF IInv, Parts
<1>1. CASE UNCHANGED vars
  BY <1>1 DEF vars, ledger, tick, LaunchLinked
<1>2. CASE ReviewLink
  <2>1. /\ cur.run \in DOMAIN runs /\ cur.review \in Nat /\ UNCHANGED cur
        /\ SetRunReview(cur.run, cur.review)
    BY <1>0, <1>2 DEF ReviewLink, DeskOK, LedgerOK
  <2>2. RunsStay(cur.run, cur.review)
    BY <1>0, <2>1, SetRunReviewStays
  <2>. QED
    BY <2>1, <2>2 DEF RunsStay, LaunchLinked
<1>3. ASSUME UNCHANGED <<pc, cur>>, Next, ~ ReviewLink
      PROVE  LaunchLinked'
  <2>1. RunsKept
    BY <1>3, StepRunsKept
  <2>. QED
    BY <1>0, <1>3, <2>1 DEF RunsKept, LaunchLinked, DeskOK
<1>4. CASE WorkStartRun
  <2>1. /\ RunStarts(cur.task) /\ cur.review = 0
        /\ cur' = [cur EXCEPT !.run = Len(runs) + 1]
    BY <1>0, <1>4, StartRunStarts DEF WorkStartRun, DeskOK
  <2>2. cur'.run = Len(runs) + 1 /\ cur'.review = 0
    BY <1>0, <2>1 DEF DeskOK
  <2>. QED
    BY <2>1, <2>2 DEF RunStarts, LaunchLinked
<1>5. CASE Tick /\ ~ ReviewLink /\ ~ WorkStartRun
  <2>1. UNCHANGED <<pc, cur>> \/ pc' # "launch"
    BY <1>5
    DEF Tick, TickPromote, TickSelect, WorkClaim, WorkBadPath, Spawn,
        SpawnFails, SpawnFailed, RecordPid, ListReviews, ReviewClaim,
        ReviewBadPath, ReviewStartRun, ListRuns, ScanAlive, ScanStalled,
        MarkTaskStalled, FailStalledReview, TickEnd, Loop
  <2>. QED
    BY <1>3, <1>5, <2>1 DEF LaunchLinked, Next
<1>6. CASE Stop \/ ServiceCrash \/ TickAborts
  BY <1>6
  DEF Stop, StopKill, StopFinishRun, StopRequeue, ServiceCrash, TickAborts,
      LaunchLinked
<1>7. CASE Next /\ ~ Tick /\ ~ Stop /\ ~ ServiceCrash /\ ~ TickAborts
  <2>1. UNCHANGED <<pc, cur>> /\ ~ ReviewLink
    BY <1>7, DeskAlone DEF tick, Tick
  <2>. QED
    BY <1>3, <1>7, <2>1
<1>. QED
  BY <1>1, <1>2, <1>4, <1>5, <1>6, <1>7

\* So the review in hand is not 'pending' any more when its run is launched.
LEMMA LaunchTaken ==
  ASSUME IInv, LaunchLinked, pc = "launch", cur.review # 0
  PROVE  cur.review \in DOMAIN reviews /\ reviews[cur.review].status # "pending"
<1>1. cur.run \in DOMAIN runs /\ cur.review \in DOMAIN reviews
  BY DEF IInv, Parts, DeskOK
<1>2. Unclaimed(cur.review) /\ runs[cur.run].review = cur.review
  BY <1>1 DEF IInv, ReviewClaims, LaunchLinked
<1>. QED
  BY <1>1, <1>2 DEF Unclaimed

-----------------------------------------------------------------------------
(* One token at most *)

\* A step after which every token is one there was before.
LEMMA TokensShrink ==
  ASSUME NEW t, OneToken(t), TaskToken(t)' => TaskToken(t),
         HandToken(t)' => HandToken(t),
         \A r \in RunIds : RunToken(t, r)' => RunToken(t, r),
         \A v \in ReviewIds : ReviewToken(t, v)' => ReviewToken(t, v)
  PROVE  OneToken(t)'
BY DEF OneToken

\* The launch: the token goes from the hand, or from the review, to the run.
LEMMA SpawnPasses ==
  ASSUME IInv, HandOK, FreshOK, LaunchLinked, Spawn, NEW t \in Tasks,
         ReviewedOnce(t), OneToken(t), TaskToken(t)' => TaskToken(t), OpenBack({})
  PROVE  OneToken(t)'
<1>0. LedgerOK /\ DeskOK
  BY DEF IInv, Parts
<1>1. pc = "launch" /\ pc' = "spawned" /\ UNCHANGED <<cur, runs, reviews>>
  BY DEF Spawn, ledger
<1>2. \A r \in RunIds : r # cur.run => (RunToken(t, r)' => RunToken(t, r))
  <2>1. Tick
    BY DEF Tick
  <2>. QED
    BY <2>1, TickRunTokens
<1>3. \A v \in ReviewIds : ReviewToken(t, v)' => ReviewToken(t, v)
  BY <1>1 DEF ReviewToken
<1>4. ~ HandToken(t)'
  BY <1>1 DEF HandToken
<1>5. CASE t # cur.task
  <2>1. runs'[cur.run].task # t
    BY <1>1, <1>5 DEF HandOK, LaunchOK
  <2>2. \A r \in RunIds : r = cur.run => ~ RunToken(t, r)'
    BY <1>1, <2>1 DEF RunToken, RunsOf
  <2>3. \A r \in RunIds : RunToken(t, r)' => RunToken(t, r)
    BY <1>2, <2>2
  <2>. QED
    BY <1>3, <1>4, <2>3, TokensShrink
<1>6. CASE t = cur.task
  <2>1. \/ HandToken(t)
        \/ \E v \in ReviewIds : ReviewToken(t, v)
    <3>1. CASE cur.review = 0
      BY <1>1, <1>6, <3>1 DEF HandToken
    <3>2. CASE cur.review # 0
      <4>1. cur.review \in DOMAIN reviews /\ reviews[cur.review].task = t
        BY <1>0, <1>6, <3>2 DEF DeskOK, HandOK, LaunchOK
      <4>2. cur.review \in ReviewIds
        BY <1>0, <4>1, ReviewInBounds
      <4>3. ReviewToken(t, cur.review)
        BY <1>1, <4>1 DEF ReviewToken
      <4>. QED
        BY <4>2, <4>3
    <3>. QED
      BY <3>1, <3>2
  <2>2. ~ TaskToken(t) /\ \A r \in RunIds : ~ RunToken(t, r)
    BY <2>1 DEF OneToken
  <2>3. \A v \in ReviewIds : ~ ReviewToken(t, v)'
    <3>. SUFFICES ASSUME NEW v \in ReviewIds, ReviewToken(t, v)'
                  PROVE  FALSE
      OBVIOUS
    <3>1. v \in DOMAIN reviews /\ reviews[v].task = t
          /\ reviews[v].status = "pending" /\ ReviewToken(t, v)
      BY <1>1 DEF ReviewToken
    <3>2. CASE cur.review = 0
      BY <1>1, <1>6, <3>1, <3>2 DEF HandToken, OneToken
    <3>3. CASE cur.review # 0
      <4>1. reviews[cur.review].task = t
        BY <1>6, <3>3 DEF HandOK, LaunchOK
      <4>2. v = cur.review
        BY <1>1, <3>1, <3>3, <4>1, LaunchTaken DEF ReviewedOnce
      <4>. QED
        BY <1>1, <3>1, <3>3, <4>2, LaunchTaken
    <3>. QED
      BY <3>2, <3>3
  <2>. QED
    BY <1>2, <1>4, <2>2, <2>3 DEF OneToken
<1>. QED
  BY <1>5, <1>6

\* A completion or a verdict: the token goes from the run to the task, or to
\* the new review, or is dropped.
LEMMA ConclusionPasses ==
  ASSUME IInv, HandOK, NEW p \in RunIds, Concludes(p), OpenBack({}),
         NEW t \in Tasks, t = runs[p].task, ReviewedOnce(t), OneToken(t)
  PROVE  OneToken(t)'
<1>0. LedgerOK /\ WrapperOK /\ (Wrapper(p) \/ Agent(p))
  BY DEF IInv, Parts, Concludes, Wrapper, Agent
<1>1. p \in DOMAIN runs /\ RunsBut(p) /\ UNCHANGED tick
  BY <1>0, WrapperTouches
<1>2. RunToken(t, p)
  <2>1. CASE Verdict(p)
    BY <2>1, VerdictToken
  <2>2. CASE ~ Verdict(p)
    BY <1>1, <2>2 DEF Concludes, FinalizeWork, WrapperStep, RunToken, RunsOf, Working
  <2>. QED
    BY <2>1, <2>2
<1>3. ~ RunToken(t, p)'
  <2>1. CASE Verdict(p)
    <3>1. /\ runs[p].review # 0 /\ LatestOpen(t) = {runs[p].review}
          /\ wrapper[p].state = "agent" /\ UNCHANGED <<wrapper, runs>>
          /\ \E s \in {"done", "changes_requested"} :
               reviews' = Decided(LatestOpen(t), s)
      BY <2>1, VerdictToken
      DEF Verdict, ReviewVerdict, ApproveReview, RequestChanges
    <3>2. PICK s \in {"done", "changes_requested"} :
            ReviewsTake({runs[p].review}, s)
      BY <1>0, <3>1, DecidedTake
    <3>3. runs[p].review \in DOMAIN reviews
      BY <1>1, <3>1, PartsAreTypes DEF IInv, Wired
    <3>4. reviews'[runs[p].review].status \notin Open
      BY <3>2, <3>3 DEF ReviewsTake, Open
    <3>. QED
      BY <3>1, <3>4 DEF RunToken, MayDecide
  <2>2. CASE ~ Verdict(p)
    <3>1. wrapper'[p].state = "none"
      BY <1>0, <2>2 DEF Concludes, FinalizeWork, WrapperStep, WrapperOK
    <3>. QED
      BY <3>1, NoWrapperNoToken
  <2>. QED
    BY <2>1, <2>2
<1>4. \A r \in RunIds : ~ RunToken(t, r)'
  <2>1. \A r \in RunIds : RunToken(t, r)' => RunToken(t, r)
    BY <1>0, WrapperRunTokens
  <2>. QED
    BY <1>2, <1>3, <2>1 DEF OneToken
<1>5. ~ HandToken(t)'
  BY <1>1, <1>2 DEF OneToken, HandToken, tick
<1>6. TaskToken(t)' => \A v \in ReviewIds : ~ ReviewToken(t, v)'
  <2>. SUFFICES ASSUME TaskToken(t)', NEW v \in ReviewIds, ReviewToken(t, v)'
                PROVE  FALSE
    OBVIOUS
  <2>1. tasks'[t].status # "needs_review"
    BY DEF TaskToken
  <2>2. ReviewToken(t, v)
    BY <1>0, <2>1, WrapperReviewTokens
  <2>. QED
    BY <1>2, <2>2 DEF OneToken
<1>. QED
  BY <1>4, <1>5, <1>6 DEF OneToken

\* A claim: the token goes from the task to the hand.
LEMMA ClaimPasses ==
  ASSUME IInv, NEW t \in Tasks, WorkClaim(t), OneToken(t),
         TaskToken(t)' => TaskToken(t),
         \A r \in RunIds : RunToken(t, r)' => RunToken(t, r),
         \A v \in ReviewIds : ReviewToken(t, v)' => ReviewToken(t, v)
  PROVE  OneToken(t)'
<1>0. LedgerOK
  BY DEF IInv, Parts
<1>1. CASE UNCHANGED <<ledger, pc, cur>>
  <2>1. HandToken(t)' => HandToken(t)
    BY <1>1 DEF HandToken
  <2>. QED
    BY <2>1, TokensShrink
<1>2. CASE ClaimTask(t)
  <2>1. TaskToken(t) /\ TaskTakes(t, "running")
    BY <1>0, <1>2, WithTaskTakes DEF ClaimTask, Claimable, TaskToken
  <2>2. ~ TaskToken(t)'
    BY <2>1 DEF TaskTakes, TaskToken
  <2>. QED
    BY <2>1, <2>2 DEF OneToken
<1>. QED
  BY <1>1, <1>2 DEF WorkClaim

\* Every step before the owner's first action passes a token on or drops it.
LEMMA OneTokenKeeps ==
  ASSUME IInv, HandOK, FreshOK, LaunchLinked, Alone, NEW t \in Tasks,
         ReviewedOnce(t), OneToken(t)
  PROVE  OneToken(t)'
<1>0. LedgerOK /\ TasksMove
  BY AloneMoves DEF IInv, Parts
<1>1. ASSUME NEW p \in RunIds, CloseReview(p)
      PROVE  OneToken(t)'
  <2>1. Wrapper(p) /\ UNCHANGED tasks
    BY <1>1 DEF Wrapper, CloseReview, CloseReviewRun
  <2>2. TaskToken(t)' => TaskToken(t)
    BY <2>1 DEF TaskToken
  <2>3. HandToken(t)' => HandToken(t)
    BY <2>1, WrapperTouches DEF tick, HandToken
  <2>4. \A r \in RunIds : RunToken(t, r)' => RunToken(t, r)
    BY <1>1, <2>1, WrapperRunTokens
  <2>5. \A v \in ReviewIds : ReviewToken(t, v)' => ReviewToken(t, v)
    <3>1. ASSUME tasks'[t].status = "needs_review", Concludes(p)
          PROVE  FALSE
      BY <1>1, <3>1
      DEF Concludes, CloseReview, Verdict, FinalizeWork, WrapperStep
    <3>. QED
      BY <2>1, <3>1, WrapperReviewTokens
  <2>. QED
    BY <2>2, <2>3, <2>4, <2>5, TokensShrink
<1>2. ASSUME ~ \E p \in RunIds : CloseReview(p), NEW p \in RunIds, Concludes(p)
      PROVE  OneToken(t)'
  <2>1. Wrapper(p) \/ Agent(p)
    BY <1>2 DEF Concludes, Wrapper, Agent
  <2>2. OpenBack({})
    BY <1>2, AloneBack
  <2>3. CASE t = runs[p].task
    BY <1>2, <2>2, <2>3, ConclusionPasses
  <2>4. CASE t # runs[p].task
    <3>1. UNCHANGED <<pc, cur>> /\ tasks'[t] = tasks[t]
      <4>1. tasks'[t] = tasks[t]
        BY <1>0, <1>2, <2>4 DEF LedgerOK, Concludes, FinalizeWork,
           RecordCompletion, Verdict, ReviewVerdict, ApproveReview,
           RequestChanges, WithTask
      <4>. QED
        BY <2>1, <4>1, WrapperTouches DEF tick
    <3>2. /\ TaskToken(t)' => TaskToken(t)
          /\ HandToken(t)' => HandToken(t)
      BY <3>1 DEF TaskToken, HandToken
    <3>3. \A r \in RunIds : RunToken(t, r)' => RunToken(t, r)
      BY <2>1, <2>2, WrapperRunTokens
    <3>4. \A v \in ReviewIds : ReviewToken(t, v)' => ReviewToken(t, v)
      BY <2>1, <2>4, WrapperReviewTokens
    <3>. QED
      BY <3>2, <3>3, <3>4, TokensShrink
  <2>. QED
    BY <2>3, <2>4
<1>3. ASSUME ~ \E p \in RunIds : CloseReview(p) \/ Concludes(p)
      PROVE  OneToken(t)'
  <2>1. OpenBack({})
    BY <1>3, AloneBack
  <2>2. TaskToken(t)' => TaskToken(t)
    BY <1>0, <1>3, TaskTokens
  <2>3. \A v \in ReviewIds : ReviewToken(t, v)' => ReviewToken(t, v)
    BY <1>3, TickReviewTokens, CrashReviewTokens, WrapperReviewTokens DEF Alone
  <2>4. CASE Spawn
    BY <2>1, <2>2, <2>4, SpawnPasses
  <2>5. CASE ~ Spawn
    <3>1. \A r \in RunIds : RunToken(t, r)' => RunToken(t, r)
      BY <2>1, <2>5, TickRunTokens, CrashRunTokens, WrapperRunTokens DEF Alone
    <3>2. CASE WorkClaim(t)
      BY <2>2, <2>3, <3>1, <3>2, ClaimPasses
    <3>3. CASE ~ WorkClaim(t)
      <4>1. HandToken(t)' => HandToken(t)
        BY <3>3, HandTokens
      <4>. QED
        BY <2>2, <2>3, <3>1, <4>1, TokensShrink
    <3>. QED
      BY <3>2, <3>3
  <2>. QED
    BY <2>4, <2>5
<1>. QED
  BY <1>1, <1>2, <1>3

-----------------------------------------------------------------------------
(* A task that waits was never touched, and a parent that is done stays done *)

\* A second review of a task is never taken back.
LEMMA OnceBefore ==
  ASSUME IInv, Next, NEW t, ReviewedOnce(t)'
  PROVE  ReviewedOnce(t)
BY StepHomes DEF HomesKept, ReviewedOnce

\* Without the owner no task goes back to wait, and only a promotion ends the
\* wait.
LEMMA EarlyMoves ==
  ASSUME IInv, TasksMove, NEW t \in Tasks, Early(t) => Untouched(t)
  PROVE  /\ Early(t)' => Early(t)
         /\ Early(t) /\ ~ Early(t)' =>
              /\ Promotable(t)
              /\ \A u \in Tasks :
                   tasks[u].status = "done" => tasks'[u].status = "done"
<1>0. LedgerOK
  BY DEF IInv, Parts
<1>1. CASE UNCHANGED tasks
  BY <1>1 DEF Early
<1>2. CASE \E P : tasks' = Promoted(P)
  BY <1>0, <1>2, PromotedMove DEF TasksPromote, Promotable, Early
<1>3. Early(t) => ~ Handled(t)
  BY DEF Early, Untouched, Handled, HandToken
<1>4. CASE \E u \in Tasks : Dropped(u)
  BY <1>3, <1>4 DEF Dropped, Others, Early
<1>5. CASE \E r \in RunIds : Concluded(r)
  BY <1>3, <1>5 DEF Concluded, Others, Early
<1>. QED
  BY <1>1, <1>2, <1>4, <1>5 DEF TasksMove

\* Only the completion of a run asks for a review, of its own task.
LEMMA NewReviews ==
  ASSUME IInv, Alone, NEW v \in DOMAIN reviews'
  PROVE  v \in DOMAIN reviews \/ \E r \in DOMAIN runs : reviews'[v].task = runs[r].task
<1>0. LedgerOK
  BY DEF IInv, Parts
<1>1. CASE UNCHANGED reviews \/ \E V, s : reviews' = Decided(V, s)
  BY <1>1 DEF Decided
<1>2. CASE Tick
  BY <1>1, <1>2
  DEF Tick, TickPromote, PromoteWaiting, TickSelect, WorkClaim, ClaimTask,
      WorkBadPath, CompleteRun, WorkStartRun, StartRun, Spawn, SpawnFails,
      FinishRun, SpawnFailed, SetReviewStatus, RecordPid, SetRunPid,
      ListReviews, ReviewClaim, ClaimReview, ReviewBadPath, ReviewStartRun,
      ReviewLink, SetRunReview, ListRuns, ScanAlive, ScanStalled,
      MarkTaskStalled, StallTask, FailStalledReview, TickEnd, ledger
<1>3. CASE Crashing \/ \E t \in Tasks : Caller(t)
  BY <1>1, <1>3
  DEF Crashing, ServiceCrash, TickAborts, CallerCrash, WrapperCrash, Caller,
      Land, Promote, RefuseLanding, PromoteDependents, ledger
<1>4. ASSUME NEW r \in RunIds, Wrapper(r) \/ Agent(r)
      PROVE  v \in DOMAIN reviews \/ \E q \in DOMAIN runs : reviews'[v].task = runs[q].task
  <2>1. \/ UNCHANGED reviews \/ \E V, s : reviews' = Decided(V, s)
        \/ reviews' = Append(reviews, [task |-> runs[r].task, status |-> "pending"])
    BY <1>4
    DEF Wrapper, Boot, BriefUnreadable, FailRun, CloseReview, CloseReviewRun,
        Reap, FinalizeWork, RecordCompletion, CreateReview, FinalizeReview,
        FinishRun, Agent, Question, NoteQuestion, Verdict, ReviewVerdict,
        ApproveReview, RequestChanges, ledger
  <2>2. CASE reviews' = Append(reviews, [task |-> runs[r].task, status |-> "pending"])
    <3>1. v \in DOMAIN reviews \/ reviews'[v] = [task |-> runs[r].task, status |-> "pending"]
      BY <1>0, <2>2 DEF LedgerOK
    <3>2. r \in DOMAIN runs
      BY <1>4, WrapperTouches
    <3>. QED
      BY <3>1, <3>2
  <2>. QED
    BY <1>1, <2>1, <2>2
<1>. QED
  BY <1>2, <1>3, <1>4 DEF Alone

\* What starts a run or asks for a review has the task in hand, or a run of it.
LEMMA UntouchedKeeps ==
  ASSUME IInv, HandOK, Alone, Next, NEW t \in Tasks, Early(t), Untouched(t)
  PROVE  Untouched(t)'
<1>0. LedgerOK /\ DeskOK /\ t # None
  BY EngineAssumption DEF IInv, Parts
<1>1. RunsOf(t)' = {}
  <2>1. CASE Starting
    <3>1. RunStarts(cur.task)
      BY <1>0, <2>1, StartRunStarts
      DEF Starting, WorkStartRun, ReviewStartRun, DeskOK
    <3>. QED
      BY <3>1 DEF RunStarts, Untouched, RunsOf
  <2>2. CASE ReviewLink
    <3>1. cur.run \in DOMAIN runs /\ cur.review \in Nat
          /\ SetRunReview(cur.run, cur.review)
      BY <1>0, <2>2 DEF ReviewLink, DeskOK, LedgerOK
    <3>2. RunsStay(cur.run, cur.review)
      BY <1>0, <3>1, SetRunReviewStays
    <3>. QED
      BY <3>2 DEF RunsStay, Untouched, RunsOf
  <2>3. CASE ~ Starting /\ ~ ReviewLink
    <3>1. Quiet
      BY <2>3, TickQuiet, OthersQuiet, WrappersQuiet DEF Starting, Alone
    <3>. QED
      BY <3>1 DEF Quiet, Untouched, RunsOf
  <2>. QED
    BY <2>1, <2>2, <2>3
<1>2. \A v \in DOMAIN reviews' : reviews'[v].task # t
  BY NewReviews, StepHomes DEF HomesKept, Untouched, RunsOf
<1>3. cur'.task # t
  <2>1. CASE UNCHANGED cur \/ cur' = NoCur
    BY <1>0, <2>1 DEF Untouched, NoCur
  <2>2. CASE \/ TickPromote \/ TickSelect \/ WorkBadPath \/ Spawn \/ SpawnFails
             \/ SpawnFailed \/ RecordPid \/ ListReviews \/ ReviewBadPath
             \/ ReviewLink \/ ListRuns \/ MarkTaskStalled \/ TickEnd
             \/ FailStalledReview
    BY <2>1, <2>2
    DEF TickPromote, TickSelect, WorkBadPath, Spawn, SpawnFails, SpawnFailed,
        RecordPid, ListReviews, ReviewBadPath, ReviewLink, ListRuns,
        MarkTaskStalled, TickEnd, FailStalledReview
  <2>3. CASE WorkStartRun \/ ReviewStartRun
    <3>1. cur'.task = cur.task
      BY <1>0, <2>3 DEF WorkStartRun, ReviewStartRun, DeskOK
    <3>. QED
      BY <3>1 DEF Untouched
  <2>4. ASSUME NEW u \in Tasks, WorkClaim(u)
        PROVE  cur'.task # t
    <3>1. CASE UNCHANGED cur
      BY <2>1, <3>1
    <3>2. CASE Claimable(u) /\ cur' = [NoCur EXCEPT !.task = u]
      <4>1. cur'.task = u /\ u # t
        BY <3>2 DEF NoCur, Claimable, Early
      <4>. QED
        BY <4>1
    <3>. QED
      BY <2>4, <3>1, <3>2 DEF WorkClaim
  <2>5. ASSUME NEW v \in desk, ReviewClaim(v)
        PROVE  cur'.task # t
    <3>1. v \in DOMAIN reviews
      BY <1>0 DEF DeskOK
    <3>2. UNCHANGED cur \/ cur'.task = reviews[v].task
      BY <2>5 DEF ReviewClaim
    <3>. QED
      BY <3>1, <3>2 DEF Untouched
  <2>6. ASSUME NEW x \in scan, ScanAlive(x) \/ ScanStalled(x)
        PROVE  cur'.task # t
    <3>1. x.run \in DOMAIN runs
      BY <1>0 DEF DeskOK
    <3>2. UNCHANGED cur \/ cur'.task = runs[x.run].task
      BY <2>6 DEF ScanAlive, ScanStalled
    <3>. QED
      BY <3>1, <3>2 DEF Untouched, RunsOf
  <2>7. CASE Tick
    BY <2>2, <2>3, <2>4, <2>5, <2>6, <2>7 DEF Tick
  <2>8. CASE Crashing \/ \E u \in Tasks : Caller(u)
    BY <2>1, <2>8
    DEF Crashing, ServiceCrash, TickAborts, CallerCrash, WrapperCrash, Caller,
        Land, Promote, tick
  <2>9. ASSUME NEW r \in RunIds, Wrapper(r) \/ Agent(r)
        PROVE  cur'.task # t
    BY <2>1, <2>9, WrapperTouches DEF tick
  <2>. QED
    BY <2>7, <2>8, <2>9 DEF Alone
<1>. QED
  BY <1>1, <1>2, <1>3 DEF Untouched

\* A task that is done holds its own token: nothing else can move it.
LEMMA DoneStays ==
  ASSUME IInv, TasksMove, NEW t \in Tasks, t \notin Code, ReviewedOnce(t),
         OneToken(t), tasks[t].status = "done"
  PROVE  tasks'[t].status = "done"
<1>1. ~ Handled(t)
  BY DEF Handled, OneToken, TaskToken
<1>2. CASE UNCHANGED tasks
  BY <1>2
<1>3. CASE \E P : tasks' = Promoted(P)
  BY <1>3, PromotedMove DEF TasksPromote, Promotable, IInv, Parts
<1>4. CASE \E u \in Tasks : Dropped(u)
  BY <1>1, <1>4 DEF Dropped, Others
<1>5. CASE \E r \in RunIds : Concluded(r)
  BY <1>1, <1>5 DEF Concluded, Others
<1>. QED
  BY <1>2, <1>3, <1>4, <1>5 DEF TasksMove

-----------------------------------------------------------------------------
(* The invariant and what it says *)

LEMMA OrderKeeps ==
  ASSUME IInv, HandOK, FreshOK, LaunchLinked, OrderInv, [Next]_vars
  PROVE  OrderInv'
<1>1. CASE UNCHANGED vars
  BY <1>1
  DEF vars, ledger, tick, callers, budget, OrderInv, Ownerless, OneToken,
      TaskToken, HandToken, RunToken, RunsOf, Working, MayDecide, ReviewToken,
      ReviewedOnce, Early, Untouched, InOrder
<1>2. ASSUME Next, ownerOps' = MaxOwnerOps
      PROVE  /\ Ownerless'
             /\ \A t \in Tasks : ReviewedOnce(t)' => OneToken(t)'
             /\ \A t \in Tasks : Early(t)' => Untouched(t)'
             /\ \A d \in Deps : InOrder(d)'
  <2>1. Alone /\ ownerOps = MaxOwnerOps /\ Ownerless'
    BY <1>2, AloneUntil DEF OrderInv
  <2>2. TasksMove
    BY <2>1, AloneMoves
  <2>3. ASSUME NEW t \in Tasks, ReviewedOnce(t)'
        PROVE  OneToken(t)'
    BY <1>2, <2>1, <2>3, OnceBefore, OneTokenKeeps DEF OrderInv
  <2>4. ASSUME NEW t \in Tasks, Early(t)'
        PROVE  Untouched(t)'
    <3>1. Early(t) /\ Untouched(t)
      BY <2>1, <2>2, <2>4, EarlyMoves DEF OrderInv
    <3>. QED
      BY <1>2, <2>1, <3>1, UntouchedKeeps
  <2>5. ASSUME NEW d \in Deps
        PROVE  InOrder(d)'
    <3>0. PICK c \in Tasks, p \in Tasks : d = <<c, p>>
      BY LedgerAssumption
    <3>. SUFFICES ASSUME p \notin Code, ReviewedOnce(p)', ~ Early(c)'
                  PROVE  tasks'[p].status = "done"
      BY <3>0 DEF InOrder
    <3>1. ReviewedOnce(p) /\ OneToken(p)
      BY <1>2, <2>1, OnceBefore DEF OrderInv
    <3>2. CASE Early(c)
      <4>1. Early(c) => Untouched(c)
        BY <2>1 DEF OrderInv
      <4>2. Promotable(c) /\ (tasks[p].status = "done" => tasks'[p].status = "done")
        BY <2>2, <3>2, <4>1, EarlyMoves
      <4>. QED
        BY <3>0, <4>2 DEF Promotable, DepsDone
    <3>3. CASE ~ Early(c)
      <4>1. InOrder(d)
        BY <2>1 DEF OrderInv
      <4>2. tasks[p].status = "done"
        BY <3>0, <3>1, <3>3, <4>1 DEF InOrder
      <4>. QED
        BY <2>2, <3>1, <4>2, DoneStays
    <3>. QED
      BY <3>2, <3>3
  <2>. QED
    BY <2>1, <2>3, <2>4, <2>5
<1>. QED
  BY <1>1, <1>2 DEF OrderInv

LEMMA OrderHolds == Init => OrderInv /\ LaunchLinked
<1>. SUFFICES ASSUME Init PROVE OrderInv /\ LaunchLinked
  OBVIOUS
<1>1. /\ runs = <<>> /\ reviews = <<>> /\ pc = "idle" /\ cur = NoCur
      /\ stop = NoStop /\ answer = [r \in RunIds |-> "none"]
      /\ DOMAIN runs = {} /\ DOMAIN reviews = {}
  BY DEF Init
<1>2. Ownerless
  BY <1>1 DEF Ownerless, NoStop
<1>3. \A t \in Tasks : OneToken(t) /\ Untouched(t)
  BY <1>1, EngineAssumption
  DEF OneToken, HandToken, RunToken, ReviewToken, RunsOf, Untouched, NoCur
<1>4. \A d \in Deps : InOrder(d)
  <2>. SUFFICES ASSUME NEW c \in Tasks, NEW p \in Tasks, <<c, p>> \in Deps
                PROVE  Early(c)
    BY LedgerAssumption DEF InOrder
  <2>1. tasks[c].status \in {"planned", "waiting_approval"}
    BY DEF Init
  <2>. QED
    BY <2>1 DEF Early
<1>. QED
  BY <1>1, <1>2, <1>3, <1>4 DEF OrderInv, LaunchLinked

LEMMA OrderInvariant == Spec => []OrderInv
<1>1. Init => OrderInv /\ LaunchLinked
  BY OrderHolds
<1>2. IInv /\ HandOK /\ FreshOK /\ OrderInv /\ LaunchLinked /\ [Next]_vars
        => (OrderInv /\ LaunchLinked)'
  BY OrderKeeps, LinkedKeeps
<1>. QED
  BY <1>1, <1>2, DispatchInvariant, PTL DEF Spec

\* Until the owner steps in, and as long as a task was reviewed at most once, no
\* two live wrappers work on it: a crash that loses a pid, a launch that fails
\* and a liveness verdict on a live wrapper all stop the task, they never start
\* it again.
THEOREM OneWorker == Spec => []SingleWorker
<1>1. IInv /\ OrderInv => SingleWorker
  <2>. SUFFICES ASSUME IInv, OrderInv, ownerOps = MaxOwnerOps, NEW t \in Tasks,
                       ReviewedOnce(t)
                PROVE  Cardinality({r \in WorkRuns(t) : Working(r)}) <= 1
    BY DEF SingleWorker
  <2>. DEFINE W == {r \in WorkRuns(t) : Working(r)}
  <2>0. DOMAIN runs \subseteq RunIds
    BY RunInBounds DEF IInv, Parts
  <2>1. OneToken(t)
    BY DEF OrderInv
  <2>2. \A r \in W : r \in RunIds /\ RunToken(t, r)
    BY <2>0 DEF WorkRuns, RunToken, RunsOf
  <2>3. \A r, q \in W : r = q
    BY <2>1, <2>2 DEF OneToken
  <2>. SUFFICES Cardinality(W) <= 1
    OBVIOUS
  <2>. HIDE DEF W
  <2>4. CASE W = {}
    BY <2>4, FS_EmptySet
  <2>5. ASSUME NEW r \in W
        PROVE  Cardinality(W) <= 1
    <3>1. W = {r}
      BY <2>3
    <3>2. Cardinality({r}) = 1
      BY FS_Singleton
    <3>. QED
      BY <3>1, <3>2
  <2>. QED
    BY <2>4, <2>5
<1>. QED
  BY <1>1, OrderInvariant, Invariant, PTL

\* Until the owner steps in, a task does not leave 'waiting_approval' before
\* every task it depends on is done, and these stay done: nothing late takes
\* them back, if they need no landing and were reviewed at most once.
THEOREM ParentsFirst == Spec => []DependencyOrder
<1>1. OrderInv => DependencyOrder
  BY DEF OrderInv, InOrder, Early, DependencyOrder
<1>. QED
  BY <1>1, OrderInvariant, PTL
=============================================================================
