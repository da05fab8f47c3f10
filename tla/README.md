# Hermes HQ in TLA+

Hermes HQ turns an owner's goals into tasks, hands each ready task to an agent
process, reviews the result with another agent, and lands the approved branch.
Beside that it keeps the owner's notes: a library with a librarian that proposes, a
vault, an importer and an export, schedules and notifications. All state is one SQLite
file, git checkouts and a few plain files; the processes that share them are the service
(a dispatcher thread and HTTP handlers), one detached wrapper process per run, the
agents' own `wm` commands, and the owner's shell. Nothing but short transactions,
`UPDATE ... WHERE status=...` guards and one advisory file lock keeps them apart.
This project models those parts step by step, checks them with TLC on small instances
and proves with TLAPS, for every instance, every safety property its passing runs check.

## 1. The system

| Component | Source | State it keeps | Operations | Talks to |
|---|---|---|---|---|
| Run and review store | `core/wm_store.py` | tables `tasks`, `task_deps`, `runs`, `reviews`, `state_transitions` | claim, start, finish, fail, stall, completion contract, review request / claim / verdict / waive, feedback, retry, mark-ready, mark-manual, edit, close, resume, promote | everyone |
| Dispatcher tick | `core/wm_dispatch.py`, `backend/dispatcher.py` | the dispatch flock; local lists read at several points of the tick | promote, select, claim and launch work runs, claim and launch review runs, liveness scan | store, wrappers (spawn, `kill(pid, 0)`) |
| Run wrapper | `core/wm_run_agent.py` | its process; the completion file of its agent | read brief, run agent, apply the completion contract, promote dependents | store |
| Owner stop | `backend/stop.py` | a run row read before the flock | kill process group, stall, requeue or shelve | store, wrapper |
| Task routes, `wm` | `backend/writes.py`, `core/wm_cli.py` | none | the owner's and the reviewer's actions | store, wrapper (resume) |
| Run questions | `backend/questions.py` | scan marks in `wm_meta`, `notifications` | record questions of running runs | store, agent transcripts |
| Goals and planning | `core/wm_store.py` 1106-1535, 3460 | `goals`, planning tasks, `task_deps` | request planning, planned, abandon, approve plan, release, delete | store |
| Run worktrees, landing | `wm_dispatch.py` 53-201, `wm_store.py` 2818-2936, `core/worktree_gc.py` | git branches, worktrees | start point of a run, fast-forward of the approved branch, sweep | git |
| Schedules | `core/schedule.py`, `wm_store.py` | `schedules`, `schedule_runs` | fire_due: claim an occurrence, create a task | store |
| Notes, areas, proposals | `wm_store.py` 4976-7440, `backend/notes.py` | `notes`, `note_entries`, `note_links`, `note_tag_taxonomy`, `areas`, `proposals`, the index `notes_fts` | capture, edit, file, tag, retire, propose, approve, reject, browse, search, count | schedules (a capture nudges the librarian), vault |
| Notifications, web push | `wm_store.py` 4354-4565, `backend/push.py` | `notifications`, two watermarks, subscriptions | derive from transitions, read, collapse, push | engine (transitions), schedules (reminders), push services |
| Vault | `backend/vault.py`, `vault_api.py` | `vault_meta` (two wraps of one data key), sealed notes, unlocked keys in memory | set up, unlock, re-wrap, seal, move a note in, drain the quarantine | library (destroys the plaintext), import (quarantine) |
| Import and export | `backend/notes_import.py`, `notes_export.py` | `import_quarantine` and its 0600 files | plan, hold back, create, append, attach; export; restore | library |
| Chat, terminal, jobs, auth, cron, service, files, agents, gateways, skills, MCP, memory, read models, web front end | `backend/*`, `frontend` | small in-memory tables or none | proxies and I/O | outside programs |

Behaviours that are hard to get right, and to test:

- **Interleaving at every transaction.** A handler is a sequence of transactions
  (`claim_task`, `start_run`, `set_run_review`, `Popen`, `set_run_pid`); any other
  process may act between two of them. Only ticks and owner stops exclude each
  other, and the stop reads its run before it takes the lock.
- **Late answers.** A run judged dead or idle is `failed`, but its wrapper may live
  and complete later: `record_completion` guards the run row and not the task row.
- **Crashes.** The service, a wrapper, a `wm review` caller may die between two
  steps. Detached wrappers survive the service; a wrapper that dies under it is a
  zombie that `os.kill(pid, 0)` takes for alive.
- **Loops.** Work, review, rework, work ... must end.
- **Lost promotions.** Dependents are promoted by whoever completes a task; the tick
  makes up for a caller that died.
- **Reads before writes.** The goal and task functions read in autocommit and write in a
  transaction of their own; `request_goal_planning`, `approve_plan`, `POST /tasks` and
  `create_phased_tasks` are several store calls. Another caller may act in each gap, and
  the caller may die in it.
- **Requests made of transactions.** An approval, a firing, a move into the vault, an import
  is a row of commits with file operations between them; it may be cut short anywhere
  and asked for again.
- **Plans carried out later.** A sweep removes trees by a list made before; a landing reads
  the branch after the verdict; a push sends ids after their watermark has moved.
- **Copies kept by hand.** The search index, the quarantine's files, the four copies of one filter.

What makes each component correct is stated by its properties (section 3).

## 2. Modules

| Module | What it is |
|---|---|
| `Ledger` | the store: one operator per transaction on `tasks`, `runs`, `reviews`; no process |
| `Engine` | the processes over the ledger: one action per step of a handler; `Init`, `Next`, `Spec`, `FairSpec`, the properties |
| `EngineClaims` | two statements the repository makes and the code does not keep |
| `MCEngine` | the values of the constants for TLC |
| `Goals` | goals, plans and release: one action per step of a store call, clients that may overlap and die |
| `GoalLifecycle` | the abstract specification of a goal's life that `Goals` implements |
| `MCGoals` | symmetry of the clients for TLC |
| `Landing`, `MCLanding` | extends `Engine`: worktrees, branches, the primary checkout, fast-forward, sweeps |
| `Library`, `MCLibrary` | notes, areas, tags, the index, proposals; a request is a list of store calls |
| `Notices` | notifications and their two watermarks, overlapping callers |
| `Schedules`, `MCSchedules` | extends `Notices`: schedules, firings, the tasks they make |
| `Vault`, `MCVault` | the data key and its wraps, moves, drains |
| `Import` | an import run over a dump |
| `Restore`, `MCRestore` | extends `Import`: export of the result and restore into another library |
| `EngineProofs` | what each transaction of the ledger preserves; the inductive invariant of the engine and its theorems |
| `DispatchProofs` | what the holder of the dispatch lock knows; the gates, the watch over running tasks, the budget, the cap; one worker at a time and parents first, while the owner has not stepped in |
| `LandingProofs` | the engine's invariants under `Landing`; approvals, landings and sweeps |
| `GoalsProofs` | the inductive invariant of the goals; `Goals` with one client implements `GoalLifecycle`, and has no second parked planning task, no stranded task, no planning task in the queue |
| `LibraryProofs` | what each store call of the library preserves; its inductive invariant and its theorems |
| `VaultProofs` | the inductive invariants of the vault and its theorems |
| `SchedulesProofs` | the inductive invariants of the bell and of the schedules, and their theorems |
| `RestoreProofs` | the inductive invariants of the import and of the restore, and their theorems |

### How the state corresponds to the code

`tasks[t]` holds the task's `status`, its `owner_approval` flag (`gate`) and the number
of transitions to `rework` in `state_transitions` (`reworks`, what `_rework_cycles`
counts). `runs` and `reviews` are sequences: a row's id is its index, and rows are
never deleted. `runs[r].review = 0` and `runs[r].pid = 0` are NULL. `asked` is the set of runs with
a `runq:` question notification. Policies, dependencies, assignees and goals are
constants, because nothing modelled here changes them.

`pc`, `queue`, `desk`, `scan`, `cur`, `left` are the local variables of the process that holds
the dispatch flock: a tick (`run_dispatch`) or a stop (`stop_task`). `pc = "idle"` means the
flock is free. `queue` is the list `next_ready_tasks` returned, `desk` what `pending_reviews`
returned, `scan` what `running_runs` returned, with the pid each row had at that time.
`stop` is a stop between its read and its end. `wrapper[r]` is the latest wrapper process of run
`r`: `boot` until its brief is read, `agent` while the agent works, a report while a review
run is half finalised, `zombie` when dead and not reaped. Pids are counted per run; no two
processes share one (the reuse of a pid by the operating system is left out). `answer[r]` is how
far `run_answer` has come with a resume. `landing` and `promoting` are tasks whose verdict
caller or wrapper has committed and still has to land or to promote.

Steps and their code:

| Actions | Code |
|---|---|
| `TickPromote` ... `TickEnd` | `run_dispatch`, in its order |
| `Spawn`, `SpawnFails`, `SpawnFailed`, `RecordPid` | `_launch` and its callers |
| `StopRead`, `StopKill`, `StopFinishRun`, `MarkTaskStalled`, `FailStalledReview`, `StopRequeue` | `stop_task` |
| `Answer`, `AnswerSpawn`, `AnswerRecordPid`, `AnswerSetupFails`, `AnswerSpawnFails`, `AnswerSpawnFailed` | `run_answer` on a blocked run |
| `Boot`, `BriefUnreadable`, `FinalizeWork`, `FinalizeReview`, `CloseReview`, `Promote` | `wm_run_agent.main` |
| `Verdict`, `OwnerVerdict`, `Land` | `wm review`, by the reviewer's agent and from a shell |
| `OwnerEdit`, `OwnerClose`, `OwnerWaive` | the single-transaction task actions |
| `ServiceCrash`, `TickAborts`, `CallerCrash`, `WrapperCrash`, `Reap` | what the code must live with |

In `Goals`, `goals[g]` is a goal's status and the version of its text (`gone` once deleted),
`tasks` a sequence of rows as in the ledger, `deps` the rows of `task_deps`. `call[c]` is the
store call client `c` has in progress: `op` is its next step, the other fields are what it was
asked and what it has read. `AskX` is the arrival of a request with its first look at the store,
`XRead` the later reads, `XInsert`, `XWrite`, `XGrant`, `XClose` the transactions. `approved`,
`pushed` and `reopened` are history variables: they record which goals were released, which
tasks the owner started by hand, which closed tasks were opened again, and no guard reads them.
The engine appears as `Promote`, `Claim` and `Complete`; a task carries the number of its runs
that still may complete (`live`), because a late completion reopens what was closed.

| Actions | Code |
|---|---|
| `AskPlan`, `CreateRead`, `CreateInsert`, `StatusRead`, `StatusWrite` | `request_goal_planning`: `create_task`, then `set_goal_status` |
| `AskCreate`, `CreateRead`, `CreateInsert`, `LinkDep` | `POST /tasks`, `create_phased_tasks`, `add_task_dep` |
| `AskLink`, `Unlink` | `wm task depend`, `wm task undepend` |
| `AskStatus`, `StatusRead`, `StatusWrite` | planned, abandon |
| `AskEdit`, `EditWrite`, `AskDelete`, `DeleteWrite` | `update_goal`, `delete_goal` |
| `AskRelease`, `ReleaseRead`, `ReleaseGrant` | `release_goal` |
| `AskApprove`, then those, `ApproveClose`, `PromoteDependents` | `approve_plan` |
| `Release`, `MarkManual`, `ClearGate`, `Feedback`, `AskClose` | `mark_ready` and `retry_task`, `mark_manual`, `edit_task`, `owner_feedback`, `close_by_owner` |

In `Landing` a history is the set of commits reachable from its tip, so ancestry is inclusion; a
run makes at most one commit, named by its id. `tree[r]` is where a run works, `branch[r]` the
history of `wm/run-<id>`, `edits[r]` the kinds of uncommitted files in its tree, `main` and `dirty`
the primary checkout, `fresh` the tasks in their grace period, `sweep[p]` the plan of a sweep
that is being carried out. `stamp` and `approved` are history: what was approved. Its actions
are conjunctions: a step of `Engine` with what git adds to it (`TickStep`, `Complete`, `VerdictStep`,
`LandStep` ...), or a step of git alone (`PlaceRun` is `run_workdir`, `PlanSweep`, `PlanGc`, `RemoveTree`
are `worktree_gc.sweep`). `Land` of the engine leaves open whether the branch lands; `LandStep`
decides it by `Refused`, the dirty checkout or the parted histories of `land_approved_run`.

In `Library` a note row carries its entries and links, `index` is `notes_fts`, `job[t]` the store
calls the request of tab `t` still has to make (in `bulk` the proposals a bulk approval has still
to open), `draft` a proposal between validation and
INSERT. A call whose SELECTs precede its first write takes two steps, `Look` (which keeps
what it saw) and `Write`. `Approval(p, i)` is `approve_proposal`: the calls it makes, the decision
last. `raced` records that two requests have overlapped.

In `Notices` `moves` is `state_transitions`, `notice` the table, `mark` and `pushMark` the watermarks,
`sync[s]` where a caller of `sync_and_push` is and what it has read, `buzzed` what was pushed.
`Schedules` adds `sched` (rows), `task`, `hand` (the firing in progress of the tick and of a run-now),
`due` (the rows `fire_due` read at its start), `work` (what the heartbeat check would say).

In `Vault` a key is a number, `meta` holds which key each wrap opens, `keys[s]` the unlocked key of a
session, `rows` and `disk` the plaintext of one library note in the tables and on disk (the
write-ahead log included), `sealed` the sealed values with the key that sealed them, `open` and
`cache` the quarantine's rows and files, `named` what an audit row reports, `call[c]` the call in
progress. In `Import` `dump` is the walk order of a dump, `imp` the run in progress (pass, position,
what it remembers), `held` the quarantine; `Restore` adds `zip`, the library `fresh` it is restored
into, and `res`, the restore in progress.

| Actions | Code |
|---|---|
| `PlaceRun`, `StartPoint` | `run_workdir`, `resolve_start_point` |
| `VerdictStep`, `LandStep` | `review_verdict`, `_land_and_report`, `land_approved_run` |
| `Request` (14 disjuncts), `Look`, `Write`, `Approve`, `ApproveRoutine` | the routes of `backend/notes.py` and the store calls each makes |
| `Propose`, `FileProposal` | `create_proposal` |
| `ReadDue`, `Consider`, `Create`, `Link`, `Release`, `Remind`, `Advance` | `fire_due`, `_spawn_from_schedule` |
| `RunNow`, `TriageNow`, `Pause`, `Resume`, `Delete`, `CreateSchedule`, `Capture` | the schedule routes, the nudge |
| `Start`, `ReadRows`, `WriteSync`, `ReadUnpushed`, `MarkPushed`, `push_notifications` | `sync_and_push` |
| `InitLooks` ... `Recode`, `GoIdle`, `Drop` | `init_vault`, `unlock`, `set_passphrase`, recovery, `KEYS` |
| `MoveReads` ... `MoveAmends` | `move_note_to_vault` |
| `DrainLists` ... `DrainEnds` | `drain_quarantine` |
| `import_source` ... `RunEnds` | `import_source`, `_create`, `_attach`, `_append_mirror` |
| `ReadNotes`, `export_zip`; `import_export` ... `RestoreEnds` | the export; the restore |

Abstractions:

- Text, paths, sessions, summaries, the activity log and backups are left out. In `Engine`
  alone a landing either succeeds or is refused, freely; `Landing` decides it.
- Which of several claimable tasks a tick selects is free (the code takes the
  oldest); the properties must hold for any choice.
- The paused switch is left out: a paused tick changes nothing.
- `review_verdict`, `owner_feedback`, `mark_ready` and `edit_task` read the task in
  autocommit and write in a transaction of their own; here read and write are one step.
  So is the promotion `edit_task` makes after clearing a gate.
- `Goals` leaves out reviews, assignees and texts; a text is a version number, so that a
  planning task can be told from one that was written for an older text. A promotion of
  several tasks is one step. `wm goal backfill-draft`, a one-shot migration, is left out.
- Whether a liveness verdict falls on a live, idle agent is free; each one uses up a
  fault of the bound. A question is surfaced or not, freely.
- `Landing`: one commit per run; git fails only by refusing a start point or a worktree; the
  hourly watermark of the sweep is left out (a tick may sweep); the archive of `wm gc` and
  its plan are one step; links rescued from a removed tree are left out.
- `Library`: title and body are one word; revisions, pins and attachments are left out; a
  person's filter is a record of the fields it names. Proposal kinds whose plan has the
  shape of a modelled one are left out.
- `Schedules`: a cron expression is a period; one pass of the tick, one run-now at a time.
- `Vault`: a key opens what it sealed and nothing else; scrypt is no step; the throttle of
  wrong passphrases and backups are left out.
- `Import`, `Restore`: a text, a title, a file is a value; tags, projects, pinned and disputed are
  left out; parsing is what yields the units.

## 3. What the runs check

Bounds of the engine: `MaxRuns`, `MaxReviews` (rows), `MaxOwnerOps`, `MaxCrashes`, `MaxFaults` (failed
launches, unreadable briefs, idle verdicts on live wrappers), `MaxRework` = 2 in place of 4. One
rework cycle is enough to come back to every state of the loop. A tick at the
bound of `MaxRuns` claims nothing, so no half-made row is stuck because of it. A bound named
`Max...` stands in the guard of what it bounds in every module. Where a run allows "two of" or
"three of" several kinds of incident, a CONSTRAINT of its MC module (`TwoIncidents`, `Bounded`) cuts the states
with more of them together; the theorems of section 4 know no such cut.

| Run | Instance | Properties |
|---|---|---|
| `owner` | one task with an optional review, 2 slots, two of 1 owner action, 1 crash and 1 fault, 3 runs, 2 reviews | `TypeOK`, `RunningTaskWatched`, `ReviewRunUnique`, `SingleWorker`, `RunFinality`, `OwnerGate` |
| `settle` | `push` depends on `build`, which needs a review, 1 slot, no owner, 1 crash, 5 runs, 3 reviews, fair | `RunBudget`, `DependencyOrder`, `RequiredReviewGate`, `Settles`, `DeadRunNoticed`, `PromotionHeals` |
| `landing` | two code tasks, one built on the other, 1 slot, one thing out of the ordinary (owner action, crash or fault) | `ApprovedLands`, `CapRespected`, `LandsWhatWasApproved`, `WorkKept` |
| `goals_solo` | one goal, one client, 6 requests, 2 tasks, 1 run, 1 crash | `TypeOK`, `OneParkedPlan`, `NothingStranded`, `PlanStaysParked`, `KeepsLifecycle` |
| `goals_duo` | one goal, two clients (symmetric), 5 requests, 2 tasks | `OnlyApprovedRuns`, `NoOrphanTask` |
| `library` | two tabs (symmetric), 2 requests, 2 proposals, 1 crash, 2 notes, 2 areas, 2 tags, one payload of each of five kinds and another filing the owner may choose | `FtsFresh`, `TidyAlone`, `Landed`, `PagesAgree`, `CaptureKept` |
| `automation` | at first either an empty inbox with a one-time reminder and a heartbeat, or an inbox that already has work and the heartbeat alone; a third schedule that may be created, a period of 2 and a clock of 2; two notification callers, 2 status changes with the releases, 1 owner action, 1 crash | `BellComplete`, `OwnerBuzzed`, `NotSwallowed`, `OneAtATime` |
| `vault` | two sessions, two shells, 2 passphrases; a note, or a quarantined file and 2 changes of passphrase or code; 2 items written, 1 crash, 1 fault, three of these at most | `Recoverable`, `LeftoverNamed`, `SecretKept`, `SealedBeforeDestroyed` |
| `restore` | four dumps of four files, 2 imports (whole, or the first file only), 1 owner action, 2 restores, 1 capture in the new library, 1 death of each | `Accounted`, `SecretHeld`, `ImportOnce`, `Restored` |
| `claim_second`, `claim_verdict`, `claim_gc` | must be violated | `NoSecondClaim`, `VerdictKept`, `ParachutedFirst` |

Engine:

- `RunFinality` and `ReviewRunUnique` are what the row guards are for: no late
  completion, stall, stop or failed launch changes a finished run, and a review is
  executed once. Two incidents are enough for a pid that is lost while its run is judged dead,
  and for a requeued task whose first wrapper still works. A stop that races an answer takes two
  actions of the owner: it is beyond this instance, not beyond the proofs of both properties
  (section 4).
- `RequiredReviewGate`, `OwnerGate`: a task never becomes `done` past its review or its
  owner. The step to `done` may be taken by four processes.
- `RunningTaskWatched`: `claim_task`, `start_run`, `finish_run`, `mark_stalled` and the
  completion are separate transactions, and yet a task in `running` always has a
  running work run or a process that still holds it. Crashes are excluded
  because the code does lose such a task, and so is an answered review run.
- `SingleWorker`: lost pids and premature verdicts stop a task instead of starting it
  again. It ends with the first owner action, because of the finding `NoSecondClaim`, and it speaks of
  tasks that were reviewed at most once (`ReviewedOnce`): a reviewer that is still alive after its review
  was taken for stalled records its verdict on whichever review of the task is open then, or finds its
  own reopened (finding `VerdictKept`), and "changes requested" queues the task under a
  rework that is already running. TLC finds that with `MaxRework` = 4, six runs, two reviews and one wrong
  liveness verdict, after some 60 steps; the instance here is too small for it, and the
  attempt to prove the property without the condition is what led to it.
- `RunBudget`, `Settles`: the circuit breaker bounds the loop, with the one extra run a
  crash between `start_run` and `set_run_review` can cause.
- `CapRespected` leaves out answered runs: `resume_blocked_run` takes no slot.
- `DependencyOrder` is about parents whose branch needs no landing and, for the same reason as
  `SingleWorker`, that were reviewed at most once: the late verdict takes a task that was done back to
  work, under dependents that are already released. Crashes and wrong liveness verdicts are allowed.
- `ApprovedLands`: after a verdict the tip of the approved branch is in the primary checkout, or
  its caller is still landing it, or the task is not `done` any more -- unless the caller died. It speaks of
  a standing approval (`stamp`): one given while none of the task's work runs was being launched, worked
  or was about to be resumed (`Settled`). The owner can close a task whose run is on its way; then the
  branch approved is not the branch landed, or the run commits after the landing (section 5).
- `LandsWhatWasApproved`: the branch is looked up again after the verdict. As long as the approval
  stands, the checkout moves to an approved tree and to no other.
- `WorkKept`: a sweep removes trees on a plan made before; a plan names only runs whose task is closed
  for 24 hours, longer than a launch, an answer or any agent lives (`GraceEnds`), and that is why no
  answer and no retry meets it. A waive starts no such period, and a task waived while a run of
  it is on its way is left out (`waived`): if that run's pid was never recorded, the sweep takes it for dead
  and its tree from under it (section 5). TLC finds that with two owner actions and a crash.

Goals:

- `KeepsLifecycle`: with one caller at a time, wherever it dies, a goal only takes the edges
  of `GoalLifecycle` and the dispatcher is offered a task only by a released goal. With two
  callers it fails (section 5).
- `OneParkedPlan`: the crash between the two writes of a planning request leaves a task that
  the retry adopts. Two concurrent requests do park two tasks; the code says nothing
  about them.
- `NothingStranded`: a released goal has no task left in `planned`. A creation that overlaps the
  release does strand one, so this too is about one caller. Six requests let a goal be
  planned, abandoned or sent on, planned again and released, with two tasks.
- `PlanStaysParked`: the docstring of `request_goal_planning` says a planning task must never be
  `ready`. That holds except where a closed planning task of the goal was opened again (a retry
  of a failed one, a late completion): leaving `planning` closes only the oldest open one, and
  the release puts the other in the queue.
- `OnlyApprovedRuns`, `NoOrphanTask` hold however two callers overlap: the transaction of
  `release_goal` and the foreign key are what carries them. Five requests are the least
  with which a stale status write can precede a creation and a promotion.

Library:

- `FtsFresh`: whichever tabs race, every commit that changes a title, body, tag or Thought leaves
  the index in step. `PagesAgree`: when nothing is in flight, the page, its total, the counts
  beside the filters and the search agree for every filter, although each query keeps its own
  copy of the clause.
- `CaptureKept`, `Landed`: an approval is many commits with the decision last. Cut short and
  repeated, or pressed in two tabs, it buries no capture (it archives the note only once what was
  taken from it is somewhere else), and a row that says `approved` says what happened. It
  may happen twice: an entry is appended again by the second approval.
- `TidyAlone`: home rule, closed taxonomy and two levels of areas hold for requests that did not
  overlap another. With an overlap each of the three is broken, by a check of a row that has
  changed since; nothing in the code promises more.

Schedules and notifications:

- `BellComplete`: the watermark of transitions never passes one the bell should carry: a
  caller moves it to what it saw before it read the rows. `NotSwallowed`: a question or a reminder is
  marked read by its owner or by a later change of its task, never by an older change that is
  told late (that is what the time in the UPDATE is for).
- `OwnerBuzzed`: of every row the push watermark has passed, its task's phone has buzzed, or the
  row is read, or a caller holds it. Without a crash: the watermark moves before the push.
- `OneAtATime`: a schedule with overlap `skip` that nobody runs or resumes by hand has at most one
  open task, even when a firing is cut between its task and its link and the next pass fires again.

Vault:

- `Recoverable`: whatever changes of passphrase and code overlap, both wraps and every parked key hold
  the one key everything is sealed with. One caller sets the vault up (`Founders`): two that
  overlap would each write a key (section 5).
- `SealedBeforeDestroyed`: the step that destroys a note has sealed all of it, except what arrived after
  the move had read the note: that is lost, and the property says exactly that.
- `LeftoverNamed`: what a busy checkpoint or a failed removal leaves in the clear is named in the audit
  row, unless the server died before it was amended.
- `SecretKept`: the file of a quarantined secret goes only when it is sealed and stamped, however
  drains overlap and die.

Import and restore:

- `Accounted`: after a run over the whole dump every text is held back, blank, a note or a Thought. The
  files of a unit are on a note too, if no run died and if neither the unit nor one with its digest is a mirror: a
  mirror's files come after its Thought and are dropped with it (section 5).
- `SecretHeld`: no imported note holds key material, not in a Thought either.
- `ImportOnce`: however runs are sliced, cut and repeated, no unit becomes two notes, a note that was
  there before gains no Thought, and no imported note has a Thought twice. The last part leaves out dumps in
  which two identical notes are both mirrored (`TwinTargets`, section 5).
- `Restored`: a restore that reached its end, after whatever earlier ones left behind, brought every document
  home once, with its links. It is in the area of the name it was filed under, or in none if one
  of that name is archived, and then an active note is in the inbox. Its Thoughts, files and date came with
  it if no restore died: a note that is found is taken for restored, half-filled or not.

The dumps are the four shapes in which the rules meet: a mirror walked before its note, key material in both
places, an Archive folder with a copy and an older draft, and fragments.

`CHECK_DEADLOCK FALSE` stands in the runs of `landing`, `library`, `automation`, `vault` and `restore`
because their requests, operations and rows are bounded: when they are used up and the last
call has ended, nothing is left to do.

### Fairness

`FairSpec` assumes weak fairness of: the tick (the dispatcher thread loops for ever and
survives exceptions), a stop that has been accepted and an answer in progress (HTTP
handlers run to the end), each wrapper (the agent is killed after six hours and then
the wrapper finalises), each verdict caller. A dead wrapper is reaped: Python's
`subprocess` reaps finished children whenever it starts another, which the service does
all the time, and a restarted service is not their parent. Nothing is assumed of
agents (they may never give a verdict or ask a question) or of the owner. The other modules
assume no fairness: their requests may stop anywhere, and what they promise is safety.

## 4. What is proved

For any finite set of tasks, any dependencies, policies, cap, rework limit and bounds
(assumptions `LedgerAssumption`, `EngineAssumption`: the constants have their types), in `EngineProofs`:

- `TypeCorrect`: `Spec => []TypeOK`
- `OneRunPerReview`: `Spec => []ReviewRunUnique`
- `FinalStatusIsFinal`: `Spec => RunFinality`

in `DispatchProofs`:

- `ReviewGateHolds`: `Spec => RequiredReviewGate`
- `OwnerGateHolds`: `Spec => OwnerGate`
- `NoTaskForgotten`: `Spec => []RunningTaskWatched`
- `WorkIsBounded`: `Spec => []RunBudget`
- `CapHoldsAlways`: `Spec => []CapRespected`
- `OneWorker`: `Spec => []SingleWorker`
- `ParentsFirst`: `Spec => []DependencyOrder`

`ReviewRunUnique` is not inductive: nothing in it says that the review a tick is about to
link is new. `ReviewClaims` adds that a review still `pending` has no run, and that the
review in the tick's hand has left `pending` and has no run yet; `Wired` adds that what each
process holds exists, so that a link or a report writes the row it means. `IInv` is
`TypeOK`, `Wired` and `ReviewClaims`; theorem `Invariant` proves it. The module first proves,
for every transaction, that it preserves the types of the tables, that rows are only
added, and that a review never returns to `pending` nor a link changes; each action then
needs the transaction's lemma and what it does to its own process. `FinalStatusIsFinal` needs no more than the types: every step
that writes a run goes through `Finished` or the guard of `ResumeBlockedRun`.

`DispatchProofs` adds what a process knows of the rows it is about to write. `HandOK` says that the run in
the lock holder's hand is linked to the review in its hand and is the one it started (`LaunchOK`), that a stop
that has begun to write remembers a run of its task (`StopHand`), and that run and review of a link
belong to the same task (`LinkHomes`); `FreshOK` says that a run not yet launched has no
process and no answer. On these stand:

- The gates: `EarnedDone` says that a step which makes a task `done` without its owner finds its gate
  open and, where a review is required, decides an open review `done`; it is shown of every step, and
  the owner's steps are told by the bound they use up.
- `WatchInv`: while nothing has crashed and no review run was answered, a `running` task is held by the
  lock holder or by a stop, has an answer that could not be spawned, or has a running work run. It names
  *which* of the steps between `claim_task` and `set_run_pid` holds the task, which `RunningTaskWatched`
  leaves out.
- `BudgetInv`: the work runs a task has had and the ways to its next one that are open now (it waits to be
  claimed, is in the tick's hand, or in that of a stop that may requeue it) are together at most one more
  than its reworks, plus one for each owner action and each crash; and at most `MaxRework`, plus the same.
  A cardinality grows by at most one in a step, and where it does a way to the next run closes.
- `CapInv`: the runs that are running or about to be, with the claims the tick's two lists still promise, fit
  the cap, because `select` computed its slots from `running_runs` and only the tick adds to them.

`OneWorker` and `ParentsFirst` rest on one idea. At any time at most one thing may still move a task: its
status (a tick may claim it), the lock holder's hand, one wrapper (a work run that is alive, or a review run
whose agent may still decide an open review), or one review that is pending or being launched. That is
its token. `OrderInv` says that a task reviewed at most once has at most one (`OneToken`), that a task still in
`planned` or `waiting_approval` has been given nothing yet (`Untouched`), and that its parents are done if it is
past that (`InOrder`), all of it as long as no owner has acted and no stop or answer
is under way (`Ownerless`). A crash drops tokens, the liveness scan drops the wrapper's when it stalls the task, and every other step
passes a token on: from the claim to the launch, to the wrapper, to the review it asks for, to the
reviewer, to the verdict. The second review is what ends this, because the first review's wrapper
gets its token back with it.

With worktrees, landings and sweeps beside the engine (assumptions of the engine), in `LandingProofs`:

- `CapWithTrees`: `LandingSpec => []CapRespected`
- `ApprovalsLand`: `LandingSpec => []ApprovedLands`
- `OnlyApprovedLands`: `LandingSpec => LandsWhatWasApproved`
- `SweepsAreSafe`: `LandingSpec => WorkKept`

`LandingNext` is not shown to implement `Next`: the owner's commits, the refused start points and the sweeps
use up the engine's bounds. Every step is one of the engine, or changes nothing of
it but these bounds (`Elsewhere`), and the engine's invariants survive both. What carries the rest is that
a settled task that is over stays settled: the lock holder takes no run of it in hand (`HandsOff`),
and none of its runs wakes (`RunsAsleep`), until a step opens it again; that step clears its
`stamp`. So its newest branch keeps its tip (`TipStays`), and `Standing` follows: a stamp is the tip of a
task that is done and settled, is one of the approved trees, and is in the checkout or about to be
landed. For the sweeps, `SweepInv` says that a task which is over and past its grace period is settled
(`OverSettled`), that a run on a plan has ended for good (`Ended`: a final status, and no process that may
still work or be spawned for it), and that its tree is clean if the plan is the tick's
(`SweepOK`). Reopening the task starts a new run and leaves that one over.

For any clients, goals and bounds (assumption `GoalsAssumption`):

- `GoalsTypeCorrect`: `Spec => []TypeOK`
- `ReleaseIsTheGate`: `Spec => []OnlyApprovedRuns`
- `NoTaskIsOrphan`: `Spec => []NoOrphanTask`
- `CallsInTurn`: `Spec => KeepsLifecycle`, if there is at most one client
- `PlanningAdopts`: `Spec => []OneParkedPlan`, if there is at most one client
- `ReleaseTakesAll`: `Spec => []NothingStranded`, if there is at most one client
- `PlansNeverRun`: `Spec => []PlanStaysParked`, if there is at most one client

`OnlyApprovedRuns` is not inductive: a promotion looks at the goal's status, not at the history.
`Safe` adds that a released goal is in `approved`. Each step is shown to have `Effect`, which
says what it may do to goals and tasks as far as `Safe` depends on it, and the invariant follows
from `Effect` alone. For the refinement, `Fresh` says that what a call read of its goal still holds when
it writes: with one client nothing else moves a goal, so it is an invariant; with two it is not, and
that is the finding. `ReworkPushed` adds that a task in rework was sent there by its owner,
so that its next run is no offer of the goal.

`PlanInv` proves the other three. Beside them it says that a planning request on its way to
its insert has found no parked planning task and that its goal is still `draft` or `planning`; and that a
goal of which no task was opened again (`Tidy`) has at most one open planning task, and none once it is `planned` or
`released`: leaving `planning` closes the oldest one, which was the only one. Each step is
classified by what it may do to rows, goals and calls. That "the oldest" exists is the
least-number principle (`LeastId`). With two callers each of the three is false: one
that creates a task between the other's read and its grant strands it.

For any sessions, shells, passphrases, units and bounds (assumption `VaultAssumption`):

- `VaultTypes`: `Spec => []Typed`
- `SecretsDrained`: `Spec => SecretKept`
- `SealedFirst`: `Spec => SealedBeforeDestroyed`
- `NothingLeftInSilence`: `Spec => []LeftoverNamed`
- `AlwaysRecoverable`: `Spec => []Recoverable`, if there is at most one founder

`Drained` adds to `SecretKept` what makes it inductive: a drain about to remove files knows them
stamped and sealed, and nothing unseals a drained secret. `RowsWhole` says a note has a body as long
as it has anything, so that only the move can empty it. `KeyHeld` says that every key in the hand of
a call is the vault's key, that nothing is sealed before a key is written, and that a call which
found no vault still finds none: with two
founders that is false, which is why `AlwaysRecoverable` assumes one. `Accountable` is behind `LeftoverNamed`: from
the commit of a move on, the write-ahead log and each photo it sealed are gone, named, or in the
hands of a move past its commit (`Held`, which looks at the steps `scrub` and `unlink` only: a call that
merely read the photo, or a removal, counts for nothing). It needs that no file of a sealed photo
is written later, so it numbers them: what is on the rows, sealed, or read by a call has a number
below `items`, and a new file has `items` itself.

For any schedules, syncers and bounds (assumption `SchedulesAssumption`: a deleted schedule is not a row,
a cron fires again after a positive period):

- `BellMissesNothing`: `Spec => []BellComplete`
- `OwnerHears`: `Spec => []OwnerBuzzed`
- `NothingSwallowed`: `Spec => []NotSwallowed`
- `NoOverlap`: `Spec => []OneAtATime`

`NoticesInv` adds to the three properties of the bell what overlapping syncs know: the watermark a
syncer read was complete when it read it (`Heard`: whatever another sync writes in between, the bell only
grows, and the watermark this one will write is a change it has told itself), and the batch a caller
holds runs on without a gap from a push watermark that had passed only covered rows (`Pushing`). A sync
tells any number of changes at once: `Told` is a recursive function, and that each of them is in the bell
afterwards is again proved by the least-number principle (`LeastNat`, from the well-foundedness of `<` in the
library), not by an induction rule. `PlanInv` adds to `OneAtATime` that the open task of a
schedule is the one it remembers (`LastIsOpen`), and that what `fire_due` read once about a due row still
holds when its task is linked (`DecidedWell`), because the tick handles one row at a time, one row
per schedule (`OneRow`), and nobody else has the task it has just created (`Held`).

For any notes, areas, tags, texts, payloads, tabs and bounds (assumption `LibraryAssumption`: fields and
rows have the types of their columns, and the library starts tidy, with the parents of its areas):

- `SearchIsFresh`: `Spec => []FtsFresh`
- `TidyWhenAlone`: `Spec => []TidyAlone`
- `ApprovedMeansLanded`: `Spec => []Landed`
- `ReadPathsAgree`: `Spec => []PagesAgree`
- `NoCaptureBuried`: `Spec => CaptureKept`

None of them is inductive but the first. `LibInv` says what a job in flight still owes its approval: if its
list of calls ends in a decision, then all that the decided row will claim is in the Library
already or is done by a call before the decision (`Owes`), and a call that archives the capture comes after
those that save it (`Safe`). The plans owe nothing they do not pay (`PlanIsOK`, one lemma per kind of
proposal). Doing the first call of a list pays for it and owes the rest (`OwesShifts`), because the rows
only gain: Thoughts, links and parts are added, areas are born, and no id is given back (`Grows`); the
same makes a debt survive what other tabs do (`OwesStays`) and a kept promise stay kept (`KeptStays`). A
check pays by itself: it learns that the other note a payload speaks of exists (`Guests`). A crash or a refusal
drops the list, decision included. For `TidyAlone`, `Alone` says that while no two requests have overlapped at
most one is in flight and what it has seen is what there is (`Fresh`). `PagesAgree` is `InStep` (the index
is the image of the notes) and the algebra of the filters; the theorem holds with requests in flight too.

For any dumps, library, areas, slices, texts and bounds (assumptions `ImportAssumption` and
`RestoreAssumption`: fields and rows have their types, a dump has files and no two of one name, and no note
has a digest before the first import), in `RestoreProofs`:

- `ImportAccounted`: `Spec => []Accounted`
- `ImportHoldsSecrets`: `Spec => []SecretHeld`
- `ImportedOnce`: `Spec => []ImportOnce`
- `RestoreRestores`: `Spec => []Restored`

`ImportInv` (theorem `ImportInvariant`) says what a run in progress knows. Each note it remembers for a
file carries that file's digest (`IdsRight`). The Thoughts it remembers for a target are at least those of the note, and
each is said somewhere (`SeenRight`, `SeenSaid`). And the passes have done what they have passed: every unit before the
one at hand is held, noted or said, and its files are on a note unless a run died (`Progress`,
`Photographed`). No step takes anything from the rows (`NotesGrow`), so what was done stays done through
the owner's actions and a second run. A file skipped as a duplicate needs a note all the same: of all files with its digest one is
outranked by none, and that one survives (`SurvivorFound`, by the least-number principle over their
names).

`RestoreInv` (theorem `RestoreInvariant`) has two halves. What holds of the other library whatever happens: no document is there
twice and a copy is what it was, at home (`FreshInv`), because a digest stands for one document
(`ZipInv`) and nothing is taken away again (`FreshGrows`, `GrowsKeeps`). And what each phase of a restore may
count on: the areas passed are there, and the live ones are those it looks homes up among (`AreasInv`);
each document passed is mapped to its copy, made now or found (`MapInv`); those passed in the last phase are
linked (`LinksInv`), found ones too, since a copy that is found is mapped as well. A restore that dies drops the
second half only. While none has, a copy lacks exactly what the restore still has in hand (`ContentsInv`,
`InHand`).

What is left is the liveness under fairness (`Settles`, `DeadRunNoticed`, `PromotionHeals`): it is out of the
prover's reach and stays with TLC, as does anything about ENABLED and what a recursive definition computes for every input
(the induction theorems of the library take an operator as a parameter). RECURSIVE operators are not used.

## 5. Where the code and its words part

Three statements are checked and refuted by a run (PROJECT.json has the lines): `NoSecondClaim` (a
shelved task can be claimed while its first run works), `VerdictKept` (the liveness scan, and the stop,
overwrite a decided review) and `ParachutedFirst` (`wm gc` destroys modified tracked files without a copy). The model shows, or its properties step around, these others:

- `review_verdict` says it lands before it promotes; the tick's own promotion does not wait, so a
  dependent can be released while the approved work is on its branch only
  (`wm_store.py` 3010-3013 against 2367).
- `stop_task` says it kills the wrapper's process group under the lock; it uses the pid it read before
  the lock, which a launch in progress has not recorded (`stop.py` 5-8 against 70).
- `resume_blocked_run` accepts a blocked review run of a blocked task, and the task then runs with
  no work run (`wm_store.py` 2214).
- "`released` is terminal" (`wm_store.py` 69-70): a status change looked up before a release and written
  after it takes the goal out of `released` (1232).
- A review run whose brief cannot be read fails the task it reviews (`wm_run_agent.py` 412 against 359).
- `mark_ready` leaves an open review open: its verdict lands the branch of a newer run.
- An approval records no commit: `land_approved_run` takes the newest branch (2850), so a task closed by its
  owner while a run of it starts or works lands that run's branch, or rests in `done` with a commit made later.
- A waive records no transition: such a task has no grace period and is never landed.
- "A live run is untouchable" (`worktree_gc.py` 30-32): a run judged dead without a recorded pid may
  live, and of a task that was waived meanwhile nothing holds its tree: the sweep removes it.
- The second refusal to land of a task is silent (its notification key is the task's).
- "Folders are cosmetic; frontmatter is the truth. Status, area, project and type all round-trip"
  (`notes_export.py` 25-27): the restore looks for homes among the areas in use only, and a note of
  a retired area comes back without it.
- "A second call is refused: re-initialising would orphan every sealed row" (`vault.py` 215): the refusal
  is a SELECT before the key derivation and the write is an upsert, so of two first set-ups that
  overlap the second replaces the key the first may have sealed with (231, 246).
- A mirror's files are "SAID, never dropped quietly" (`notes_import.py` 913-914): when its text is already a
  Thought, `_append_mirror` returns before they are attached, and says nothing of them (902-904). A mirror that
  is only a photo fails, because a blank Thought is refused, and its photo is not attached either.
- "Three byte-identical mirrors collapse into one Thought" (`notes_import.py` 838-839): what was read of a target is
  remembered under the target file's name (841). Two identical notes in two domains become one note, and the
  same task mirrored in both domains is appended to it twice. The attempt to prove `ImportOnce` for
  every dump led to it.
- "Errors never stop the loop" (`wm_store.py` 4848): when a due schedule is deleted during the pass, the
  record of the error fails on the same foreign key and the pass ends.
- `Advance` writes `next_fire_at` without a guard and undoes a resume, an edit or a nudge made during
  the firing (4926). A deleted schedule's id may be given again, to a firing still in flight.
- `check_integrity` (4070-4160) reports a desync for every running review run, and a tamper for a waived
  task whose run had failed, against its own comment (4062-4068).

## 6. Not modelled, and the plan

In this order:

1. **Verdicts in two steps**: the reads before the transactions of `review_verdict`, `owner_feedback`,
   `_mark_ready_if_deps_done` as steps of their own; the one-step model is what it should refine.
2. **Questions**: scan marks of transcripts, a question that is asked and blocks between two scans.
3. **Chat, terminal and background jobs**: their in-memory tables.
4. **Subscriptions** of web push: failures counted, endpoints dropped.

Left out for good: cryptography, parsing and formats, read models, the web front end,
proxies of other programs, service control: I/O with no protocol of its own.
