------------------------------- MODULE Ledger -------------------------------
(***************************************************************************)
(* The store of the dispatch engine (core/wm_store.py): the tables tasks,  *)
(* runs and reviews and the transactions that change them.  Each operator  *)
(* below is ONE committed transaction (or one Python function whose reads  *)
(* and single write are treated as such); who calls it, in which order and *)
(* with what crashing in between is the business of module Engine.         *)
(*                                                                         *)
(* Abstracted: titles, briefs, paths, sessions, summaries, the activity    *)
(* log and the transition log, of which only the number of transitions to  *)
(* 'rework' is kept (the engine decides on nothing else).                  *)
(***************************************************************************)
EXTENDS Integers, Sequences, FiniteSets

CONSTANTS
  Tasks,        \* the tasks of the instance
  Deps,         \* pairs <<child, parent>>: rows of task_deps
  Released,     \* tasks whose goal exists and is 'released'
  Required,     \* tasks with review_policy = 'required'
  Optional,     \* tasks with review_policy = 'optional'
  Code,         \* tasks with is_code = 1
  Mine,         \* tasks assigned to the reserved profile 'owner'
  MaxRework,    \* MAX_REWORK_CYCLES
  MaxRuns,      \* bound: rows in runs
  MaxReviews    \* bound: rows in reviews

ASSUME LedgerAssumption ==
  /\ IsFiniteSet(Tasks)
  /\ Deps \subseteq Tasks \X Tasks
  /\ Released \subseteq Tasks
  /\ Required \subseteq Tasks
  /\ Optional \subseteq Tasks \ Required
  /\ Code \subseteq Tasks
  /\ Mine \subseteq Tasks
  /\ MaxRework \in Nat \ {0}
  /\ MaxRuns \in Nat
  /\ MaxReviews \in Nat

VARIABLES
  tasks,     \* task -> [status, gate (owner_approval), reworks]
  runs,      \* the runs table; a run's id is its index
  reviews,   \* the reviews table; a review's id is its index
  asked      \* runs with a 'question' notification keyed runq:<run>:...

ledger == <<tasks, runs, reviews, asked>>

TaskStatus == {"planned", "waiting_approval", "ready", "running",
               "needs_review", "rework", "done", "failed", "stalled",
               "blocked", "manual"}
RunStatus == {"running", "done", "failed", "blocked"}
Open == {"pending", "running", "reviewed"}
ReviewStatus ==
  Open \cup {"done", "changes_requested", "waived", "blocked", "failed"}

TaskRow == [status : TaskStatus, gate : BOOLEAN, reworks : Nat]
RunRow == [task : Tasks, status : RunStatus, review : Nat, pid : Nat]
ReviewRow == [task : Tasks, status : ReviewStatus]

-----------------------------------------------------------------------------
(* Queries *)

RunningRuns == {r \in DOMAIN runs : runs[r].status = "running"}
RunsOf(t) == {r \in DOMAIN runs : runs[r].task = t}
WorkRuns(t) == {r \in RunsOf(t) : runs[r].review = 0}
OpenReviews(t) ==
  {v \in DOMAIN reviews : reviews[v].task = t /\ reviews[v].status \in Open}
PendingReviews == {v \in DOMAIN reviews : reviews[v].status = "pending"}

\* get_open_review: the newest open review, as a set of at most one id.
LatestOpen(t) ==
  {v \in OpenReviews(t) : \A w \in OpenReviews(t) : w <= v}

DepsDone(t) == \A p \in Tasks : <<t, p>> \in Deps => tasks[p].status = "done"

Claimable(t) ==
  /\ tasks[t].status \in {"ready", "rework"}
  /\ ~ tasks[t].gate
  /\ t \notin Mine

\* Mutation: a released task is promoted without a look at its dependencies.
PromotableEarly(t) ==
  /\ tasks[t].status = "waiting_approval"
  /\ ~ tasks[t].gate
  /\ t \in Released

Promotable(t) ==
  /\ tasks[t].status = "waiting_approval"
  /\ ~ tasks[t].gate
  /\ t \in Released
  /\ DepsDone(t)

-----------------------------------------------------------------------------
(* Row updates shared by the transactions *)

Moved(row, s) ==
  [status |-> s, gate |-> row.gate,
   reworks |-> row.reworks + IF s = "rework" THEN 1 ELSE 0]

Gated(row, g) == [row EXCEPT !.gate = g]

WithTask(t, s) == [tasks EXCEPT ![t] = Moved(@, s)]

\* Mutation: the UPDATE lost its status guard.
FinishedAnyway(r, s) == [runs EXCEPT ![r].status = s]

\* UPDATE runs ... WHERE id=? AND status='running'
Finished(r, s) ==
  IF runs[r].status = "running" THEN [runs EXCEPT ![r].status = s] ELSE runs

\* One status for each of a set of reviews.
Decided(V, s) ==
  [v \in DOMAIN reviews |->
     IF v \in V THEN [reviews[v] EXCEPT !.status = s] ELSE reviews[v]]

Promoted(P) ==
  [t \in Tasks |-> IF t \in P /\ Promotable(t)
                     THEN Moved(tasks[t], "ready") ELSE tasks[t]]

Dependents(t) == {c \in Tasks : <<c, t>> \in Deps}

-----------------------------------------------------------------------------
(* Transactions of the dispatcher and the run wrapper *)

PromoteWaiting ==
  /\ tasks' = Promoted(Tasks)
  /\ UNCHANGED <<runs, reviews, asked>>

PromoteDependents(t) ==
  /\ tasks' = Promoted(Dependents(t))
  /\ UNCHANGED <<runs, reviews, asked>>

ClaimTask(t) ==
  /\ Claimable(t)
  /\ tasks' = WithTask(t, "running")
  /\ UNCHANGED <<runs, reviews, asked>>

CompleteRun(t, s) ==
  /\ tasks' = WithTask(t, s)
  /\ UNCHANGED <<runs, reviews, asked>>

StartRun(t) ==
  /\ Len(runs) < MaxRuns
  /\ runs' = Append(runs, [task |-> t, status |-> "running",
                           review |-> 0, pid |-> 0])
  /\ UNCHANGED <<tasks, reviews, asked>>

SetRunPid(r, p) ==
  /\ runs' = [runs EXCEPT ![r].pid = p]
  /\ UNCHANGED <<tasks, reviews, asked>>

FinishRun(r, s) ==
  /\ runs' = Finished(r, s)
  /\ UNCHANGED <<tasks, reviews, asked>>

FailRun(r) ==
  /\ runs' = Finished(r, "failed")
  /\ tasks' = IF runs[r].status = "running"
                THEN WithTask(runs[r].task, "failed") ELSE tasks
  /\ UNCHANGED <<reviews, asked>>

\* Mutation: the task is left as it is.
StallRunOnly(t) == UNCHANGED <<tasks, runs, reviews, asked>>

\* Mutation: a stalled task is put back in the queue.
StallRetry(t) ==
  /\ tasks' = IF tasks[t].status = "running"
                THEN WithTask(t, "ready") ELSE tasks
  /\ UNCHANGED <<runs, reviews, asked>>

\* The second transaction of mark_stalled; the first is FinishRun.
StallTask(t) ==
  /\ tasks' = IF tasks[t].status = "running"
                THEN WithTask(t, "stalled") ELSE tasks
  /\ UNCHANGED <<runs, reviews, asked>>

\* Mutation: a claimed review stays 'pending'.
PeekReview(v) ==
  /\ reviews[v].status = "pending"
  /\ UNCHANGED <<tasks, runs, reviews, asked>>

ClaimReview(v) ==
  /\ reviews[v].status = "pending"
  /\ reviews' = Decided({v}, "running")
  /\ UNCHANGED <<tasks, runs, asked>>

SetRunReview(r, v) ==
  /\ runs[r].review = 0
  /\ runs' = [runs EXCEPT ![r].review = v]
  /\ UNCHANGED <<tasks, reviews, asked>>

SetReviewStatus(v, s) ==
  /\ reviews' = Decided({v}, s)
  /\ UNCHANGED <<tasks, runs, asked>>

\* What a finished work run reports.  "dirty" is a 'done' that the commit
\* contract turns into 'changes_uncommitted'; a missing or invalid completion
\* file is "failed".
WorkReports(t) ==
  {"done", "manual", "blocked", "failed"}
     \cup (IF t \in Code THEN {"dirty"} ELSE {})

\* Mutation: only an optional review is routed.
RoutedOptional(t, report) == report = "done" /\ t \in Optional

Routed(t, report) ==
  \/ report = "done" /\ t \in Required \cup Optional
  \/ report = "manual" /\ t \in Required

TaskAfter(t, report) ==
  CASE report = "dirty" ->
         IF tasks[t].reworks + 1 >= MaxRework THEN "manual" ELSE "rework"
    [] Routed(t, report) -> "needs_review"
    [] report = "done" /\ ~ Routed(t, report) ->
         IF tasks[t].gate THEN "manual" ELSE "done"
    [] OTHER -> report

\* Mutation: the report is stored on the run as it is.
RunAfterRaw(report) == report

RunAfter(report) ==
  CASE report \in {"done", "manual"} -> "done"
    [] report = "blocked" -> "blocked"
    [] OTHER -> "failed"

\* Every completion that needs a review gets a new one.
CreateReview(t) ==
  /\ Len(reviews) < MaxReviews
  /\ reviews' = Append(reviews, [task |-> t, status |-> "pending"])

\* record_completion writes the task whatever the run's own status is: only
\* the run row is guarded.
RecordCompletion(r, report) ==
  LET t == runs[r].task
      handover == report = "manual" /\ ~ Routed(t, report)
  IN  /\ tasks' = [tasks EXCEPT ![t] =
                     Gated(Moved(@, TaskAfter(t, report)), @.gate \/ handover)]
      /\ runs' = Finished(r, RunAfter(report))
      /\ IF Routed(t, report)
           THEN CreateReview(t)
           ELSE UNCHANGED reviews
      /\ UNCHANGED asked

\* The second transaction of record_review_completion; the first is FinishRun.
CloseReviewRun(v, s) ==
  /\ reviews' =
       IF reviews[v].status \in {"done", "changes_requested", "waived"}
         THEN reviews ELSE Decided({v}, s)
  /\ UNCHANGED <<tasks, runs, asked>>

\* questions.scan_running_runs: a question of a run that is still running.
NoteQuestion(r) ==
  /\ runs[r].status = "running"
  /\ asked' = asked \cup {r}
  /\ UNCHANGED <<tasks, runs, reviews>>

-----------------------------------------------------------------------------
(* Transactions of the reviewer and the owner *)

\* Mutation: the approval forgets the owner gate.
ApproveUngated(t) ==
  /\ LatestOpen(t) # {}
  /\ reviews' = Decided(LatestOpen(t), "done")
  /\ tasks' = WithTask(t, "done")
  /\ UNCHANGED <<runs, asked>>

ApproveReview(t) ==
  /\ LatestOpen(t) # {}
  /\ reviews' = Decided(LatestOpen(t), "done")
  /\ tasks' = WithTask(t, IF tasks[t].gate THEN "manual" ELSE "done")
  /\ UNCHANGED <<runs, asked>>

\* Mutation: no circuit breaker.
RequestChangesUncapped(t) ==
  /\ LatestOpen(t) # {}
  /\ reviews' = Decided(LatestOpen(t), "changes_requested")
  /\ tasks' = WithTask(t, "rework")
  /\ UNCHANGED <<runs, asked>>

RequestChanges(t) ==
  /\ LatestOpen(t) # {}
  /\ reviews' = Decided(LatestOpen(t), "changes_requested")
  /\ tasks' = WithTask(t, IF tasks[t].reworks + 1 >= MaxRework
                            THEN "manual" ELSE "rework")
  /\ UNCHANGED <<runs, asked>>

WaiveReview(t) ==
  /\ t \in Optional
  /\ LatestOpen(t) # {}
  /\ reviews' = Decided(LatestOpen(t), "waived")
  /\ tasks' = WithTask(t, "done")
  /\ UNCHANGED <<runs, asked>>

CloseOrphanReview(t) ==
  /\ tasks[t].status = "done"
  /\ LatestOpen(t) # {}
  /\ reviews' = Decided(LatestOpen(t), "waived")
  /\ UNCHANGED <<tasks, runs, asked>>

OwnerFeedback(t) ==
  /\ tasks[t].status \in {"needs_review", "rework", "done", "blocked",
                          "failed", "stalled", "manual"}
  /\ reviews' = Decided(LatestOpen(t), "changes_requested")
  /\ tasks' = [u \in Tasks |->
       CASE u = t -> Moved(tasks[u], "rework")
         [] /\ u # t
            /\ tasks[t].status = "done"
            /\ u \in Dependents(t)
            /\ tasks[u].status = "ready" -> Moved(tasks[u], "waiting_approval")
         [] OTHER -> tasks[u]]
  /\ UNCHANGED <<runs, asked>>

MarkReady(t) ==
  /\ tasks[t].status \notin {"running", "done", "ready"}
  /\ ~ tasks[t].gate
  /\ DepsDone(t)
  /\ tasks' = WithTask(t, "ready")
  /\ UNCHANGED <<runs, reviews, asked>>

RetryTask(t) ==
  /\ tasks[t].status \notin {"running", "done"}
  /\ ~ tasks[t].gate
  /\ tasks' = WithTask(t, "ready")
  /\ UNCHANGED <<runs, reviews, asked>>

MarkManual(t) ==
  /\ tasks[t].status # "done"
  /\ tasks' = WithTask(t, "manual")
  /\ UNCHANGED <<runs, reviews, asked>>

\* edit_task on owner_approval; clearing the gate also promotes.
EditGate(t) ==
  /\ tasks[t].status \notin {"running", "done"}
  /\ tasks' = [tasks EXCEPT ![t] =
       IF @.gate /\ @.status = "waiting_approval" /\ t \in Released /\ DepsDone(t)
         THEN Gated(Moved(@, "ready"), FALSE)
         ELSE Gated(@, ~ @.gate)]
  /\ UNCHANGED <<runs, reviews, asked>>

CloseByOwner(t) ==
  /\ tasks[t].status \in {"manual"} \cup
       (IF t \in Mine THEN {"ready", "rework", "planned"} ELSE {})
  /\ tasks' = WithTask(t, "done")
  /\ reviews' = Decided(OpenReviews(t), "waived")
  /\ UNCHANGED <<runs, asked>>

\* _land_and_report when the fast-forward of the task's run branch is refused.
RefuseLanding(t) ==
  /\ t \in Code
  /\ WorkRuns(t) # {}
  /\ tasks' = WithTask(t, "blocked")
  /\ UNCHANGED <<runs, reviews, asked>>

ResumeBlockedRun(r) ==
  /\ runs[r].status = "blocked"
  /\ tasks[runs[r].task].status = "blocked"
  /\ \A q \in RunsOf(runs[r].task) : q <= r
  /\ r \in asked
  /\ runs' = [runs EXCEPT ![r].status = "running"]
  /\ tasks' = WithTask(runs[r].task, "running")
  /\ UNCHANGED <<reviews, asked>>

-----------------------------------------------------------------------------
(* A step property of the store *)

\* No run row disappears, and a run leaves a final status only to reopen a
\* blocked run, while no newer run of its task exists.
FinalStep ==
  \A r \in DOMAIN runs :
    /\ r \in DOMAIN runs'
    /\ runs'[r].status # runs[r].status =>
         \/ runs[r].status = "running"
         \/ /\ runs[r].status = "blocked" /\ runs'[r].status = "running"
            /\ \A q \in DOMAIN runs : runs[q].task = runs[r].task => q <= r
=============================================================================
