-------------------------------- MODULE Goals --------------------------------
(***************************************************************************)
(* Goals, their plans and their release (core/wm_store.py, the goal and    *)
(* task routes of backend/writes.py, `wm goal` and `wm task`).             *)
(*                                                                         *)
(* A handler reads in autocommit and writes in transactions of its own, so *)
(* a call is a sequence of steps: what it read before it writes is held in *)
(* call[c].  Several clients (HTTP threads, shells, agents that run `wm`)  *)
(* may be between two steps at once, and each may die there.               *)
(*                                                                         *)
(* The dispatcher and the wrappers appear only as the promotion, the claim *)
(* and the completion of a task: module Engine has them in full.  Reviews, *)
(* assignees and texts are left out; of a goal's text only its version is  *)
(* kept, and of a planning task the version it was told to decompose.      *)
(***************************************************************************)
EXTENDS Integers, Sequences, FiniteSets

CONSTANTS
  Clients,      \* callers of the store
  Goals,        \* rows of goals
  MaxTasks,     \* bound: no call that creates a task starts beyond it
  MaxRequests,  \* bound: calls
  MaxClaims,    \* bound: runs started
  MaxCrashes    \* bound: calls that die half-way

ASSUME GoalsAssumption ==
  /\ MaxTasks \in Nat
  /\ MaxRequests \in Nat
  /\ MaxClaims \in Nat
  /\ MaxCrashes \in Nat

VARIABLES
  goals,     \* goal -> [status, text]; "gone": the row was deleted
  tasks,     \* the tasks table; a task's id is its index
  deps,      \* pairs <<child, parent>>: rows of task_deps
  call,      \* client -> the call it has in progress and what it read
  approved,  \* history: goals that were released
  pushed,    \* history: tasks an owner action released or sent back
  reopened,  \* history: tasks that left 'done' or 'failed'
  requests,  \* calls left
  claims,    \* runs left
  crashes    \* crashes left

history == <<approved, pushed, reopened>>
vars == <<goals, tasks, deps, call, history, requests, claims, crashes>>

GoalStatus == {"draft", "planning", "planned", "released"}
TaskStatus == {"planned", "waiting_approval", "ready", "running", "rework",
               "done", "failed", "blocked", "manual"}

\* GOAL_TRANSITIONS
GoalEdges ==
  {<<"draft", "planning">>, <<"planning", "planned">>, <<"planning", "draft">>}

Idle == [op |-> "idle"]

\* create_goal: every goal starts as a draft.
Init ==
  /\ goals = [g \in Goals |-> [status |-> "draft", text |-> 0]]
  /\ tasks = <<>> /\ deps = {}
  /\ call = [c \in Clients |-> Idle]
  /\ approved = {} /\ pushed = {} /\ reopened = {}
  /\ requests = MaxRequests /\ claims = MaxClaims /\ crashes = MaxCrashes

-----------------------------------------------------------------------------
(* Queries *)

Closed == {"done", "failed"}

Ids == DOMAIN tasks
Children(g) == {t \in Ids : tasks[t].goal = g}
Dependents(t) == {u \in Ids : <<u, t>> \in deps}

\* Mutation: nobody asks whether the goal is released.
PromotableUnreleased(t) ==
  /\ tasks[t].status = "waiting_approval" \/ tasks[t].status = "planned"
  /\ ~ tasks[t].gate
  /\ \A p \in Ids : <<t, p>> \in deps => tasks[p].status = "done"

DepsDone(t) == \A p \in Ids : <<t, p>> \in deps => tasks[p].status = "done"

Promotable(t) ==
  /\ tasks[t].status = "waiting_approval"
  /\ ~ tasks[t].gate
  /\ goals[tasks[t].goal].status = "released"
  /\ DepsDone(t)

\* Mutation: an open planning task counts only while its goal is 'planning'.
OpenPlansPlanning(g) ==
  {t \in Children(g) : /\ tasks[t].plan /\ tasks[t].status \notin Closed
                       /\ goals[g].status = "planning"}

OpenPlans(g) ==
  {t \in Children(g) : tasks[t].plan /\ tasks[t].status \notin Closed}

\* _open_planning_task: the oldest open one, as a set of at most one id.
OpenPlan(g) == {t \in OpenPlans(g) : \A u \in OpenPlans(g) : t <= u}

-----------------------------------------------------------------------------
(* Row updates *)

SetStatus(T, s) ==
  [t \in Ids |-> IF t \in T THEN [tasks[t] EXCEPT !.status = s] ELSE tasks[t]]

Ready(T) == SetStatus({t \in T : Promotable(t)}, "ready")

NewTask(g, plan, gate, status, brief) ==
  [goal |-> g, plan |-> plan, gate |-> gate, status |-> status,
   brief |-> brief, live |-> 0]

-----------------------------------------------------------------------------
(* Starting and ending a call *)

Ask(c, k) ==
  /\ call[c] = Idle /\ requests > 0
  /\ requests' = requests - 1
  /\ call' = [call EXCEPT ![c] = k]
  /\ UNCHANGED <<goals, tasks, deps, history, claims, crashes>>

Onward(c, k) ==
  /\ call' = [call EXCEPT ![c] = k]
  /\ UNCHANGED <<pushed, reopened, requests, claims, crashes>>

Then(c, k) == Onward(c, k) /\ UNCHANGED approved

\* A step that only reads.
Looked(c, k) == Then(c, k) /\ UNCHANGED <<goals, tasks, deps>>

SettingTo(g, s) == [op |-> "set", goal |-> g, to |-> s]
Creating(g, kind, links, text, to) ==
  [op |-> "create", goal |-> g, kind |-> kind, links |-> links,
   text |-> text, to |-> to]
Linking(t, P) == IF P = {} THEN Idle ELSE [op |-> "link", task |-> t, links |-> P]

\* The client's process dies: what it has not written is lost.
CallCrash(c) ==
  /\ call[c] # Idle /\ crashes > 0
  /\ call' = [call EXCEPT ![c] = Idle]
  /\ crashes' = crashes - 1
  /\ UNCHANGED <<goals, tasks, deps, history, requests, claims>>

-----------------------------------------------------------------------------
(* request_goal_planning *)

\* An open planning task is adopted; a repeat with nothing left to do is no
\* call at all.
AskPlan(c, g) ==
  /\ goals[g].status \in {"draft", "planning"}
  /\ \/ /\ OpenPlan(g) = {} /\ Len(tasks) < MaxTasks
        /\ Ask(c, Creating(g, "plan", {}, goals[g].text,
                 IF goals[g].status = "draft" THEN "planning" ELSE "none"))
     \/ /\ OpenPlan(g) # {} /\ goals[g].status = "draft"
        /\ Ask(c, SettingTo(g, "planning"))

(* create_task, create_phased_tasks, POST /tasks *)

AskCreate(c, g, kind, links) ==
  /\ Len(tasks) < MaxTasks
  /\ goals[g].status # "gone"
  /\ Ask(c, Creating(g, kind, links, 0, "none"))

\* create_task reads the goal's status before its INSERT.
CreateRead(c) ==
  /\ call[c].op = "create"
  /\ LET k == call[c]
     IN  Looked(c, IF goals[k.goal].status = "gone" THEN Idle
                   ELSE [op |-> "insert", goal |-> k.goal, kind |-> k.kind,
                         links |-> k.links, text |-> k.text, to |-> k.to,
                         seen |-> goals[k.goal].status])

\* What follows the INSERT of task t.
AfterInsert(k, t) ==
  CASE k.kind = "plan" /\ k.to = "planning" -> {SettingTo(k.goal, "planning")}
    [] k.kind = "pair" -> {Creating(k.goal, b, {t}, 0, "none") :
                              b \in {"plain", "gated"}}
    [] OTHER -> {Linking(t, k.links)}

\* Mutation: a new task is parked whatever its goal's status.
StatusParked(seen) == "planned"

InitStatus(seen) ==
  IF seen = "released" THEN "waiting_approval" ELSE "planned"

\* The INSERT fails on the foreign key when the goal was deleted meanwhile.
CreateInsert(c) ==
  /\ call[c].op = "insert"
  /\ LET k == call[c]
         row == NewTask(k.goal, k.kind = "plan", k.kind \in {"gated", "pair"},
                        InitStatus(k.seen), k.text)
     IN  IF goals[k.goal].status = "gone"
           THEN Looked(c, Idle)
           ELSE /\ tasks' = Append(tasks, row)
                /\ \E next \in AfterInsert(k, Len(tasks) + 1) : Then(c, next)
                /\ UNCHANGED <<goals, deps>>

\* add_task_dep, once for each dependency.
LinkDep(c) ==
  /\ call[c].op = "link"
  /\ \E p \in call[c].links :
       /\ deps' = deps \cup {<<call[c].task, p>>}
       /\ Then(c, Linking(call[c].task, call[c].links \ {p}))
  /\ UNCHANGED <<goals, tasks>>

(* `wm task depend`, `wm task undepend` *)

AskLink(c, t, p) == Ask(c, Linking(t, {p}))

\* remove_task_dep checks the dependent's eligibility in its transaction.
Unlink(t, p) ==
  /\ requests > 0 /\ <<t, p>> \in deps
  /\ requests' = requests - 1
  /\ deps' = deps \ {<<t, p>>}
  /\ tasks' = IF /\ tasks[t].status = "waiting_approval"
                 /\ ~ tasks[t].gate
                 /\ goals[tasks[t].goal].status = "released"
                 /\ \A q \in Ids \ {p} : <<t, q>> \in deps =>
                      tasks[q].status = "done"
                THEN SetStatus({t}, "ready") ELSE tasks
  /\ UNCHANGED <<goals, call, history, claims, crashes>>

-----------------------------------------------------------------------------
(* set_goal_status: planned, abandon, and the end of a planning request *)

AskStatus(c, g, to) ==
  /\ goals[g].status = "planning"
  /\ Ask(c, SettingTo(g, to))

StatusRead(c) ==
  /\ call[c].op = "set"
  /\ LET k == call[c]
         old == goals[k.goal].status
     IN  Looked(c, IF <<old, k.to>> \in GoalEdges
                     THEN [op |-> "write", goal |-> k.goal, to |-> k.to,
                           seen |-> old]
                     ELSE Idle)

\* Mutation: leaving 'planning' leaves the planning task open.
ClosedByWriteNone(k) == {}

ClosedByWrite(k) ==
  IF k.seen = "planning" THEN OpenPlan(k.goal) ELSE {}

\* The UPDATE has no guard on the status that was read; it writes nothing when
\* the row is gone.
StatusWrite(c) ==
  /\ call[c].op = "write"
  /\ LET k == call[c]
     IN  /\ goals' = IF goals[k.goal].status = "gone" THEN goals
                     ELSE [goals EXCEPT ![k.goal].status = k.to]
         /\ tasks' = SetStatus(ClosedByWrite(k), "done")
  /\ Then(c, Idle)
  /\ UNCHANGED deps

(* update_goal and delete_goal, on a goal read as a draft *)

AskEdit(c, g) ==
  /\ goals[g].status = "draft"
  /\ Ask(c, [op |-> "edit", goal |-> g])

\* The text of a deleted goal is never read again.
EditWrite(c) ==
  /\ call[c].op = "edit"
  /\ goals' = [goals EXCEPT ![call[c].goal].text = @ + 1]
  /\ Then(c, Idle)
  /\ UNCHANGED <<tasks, deps>>

AskDelete(c, g) ==
  /\ goals[g].status = "draft" /\ Children(g) = {}
  /\ Ask(c, [op |-> "delete", goal |-> g])

\* Mutation: the foreign key of tasks.goal_id is not enforced.
Unreferenced(g) == TRUE

\* PRAGMA foreign_keys=ON: a referenced row cannot be deleted.
Deletable(g) == Children(g) = {}

DeleteWrite(c) ==
  /\ call[c].op = "delete"
  /\ goals' = IF Deletable(call[c].goal)
                THEN [goals EXCEPT ![call[c].goal].status = "gone"] ELSE goals
  /\ Then(c, Idle)
  /\ UNCHANGED <<tasks, deps>>

-----------------------------------------------------------------------------
(* release_goal and approve_plan *)

\* Mutation: a goal that is still being planned may be released.
ReleasableEarly(status) == status \in {"planning", "planned"}

Releasable(status) == status = "planned"

AskRelease(c, g) ==
  /\ Releasable(goals[g].status)
  /\ Ask(c, [op |-> "release", goal |-> g, task |-> 0])

\* An approval checks its planning task and its goal first.
AskApprove(c, t) ==
  /\ tasks[t].plan /\ tasks[t].status = "manual"
  /\ Releasable(goals[tasks[t].goal].status)
  /\ Ask(c, [op |-> "release", goal |-> tasks[t].goal, task |-> t])

Closing(t) == IF t = 0 THEN Idle ELSE [op |-> "close", task |-> t]

\* A released goal is released again without effect; any other goal that is
\* not planned is refused, and the approval with it.
ReleaseRead(c) ==
  /\ call[c].op = "release"
  /\ LET k == call[c]
         old == goals[k.goal].status
     IN  Looked(c, CASE Releasable(old) ->
                            [op |-> "grant", goal |-> k.goal, task |-> k.task]
                     [] old = "released" -> Closing(k.task)
                     [] OTHER -> Idle)

\* One transaction: the goal and every child still in the backlog.
ReleaseGrant(c) ==
  /\ call[c].op = "grant"
  /\ LET k == call[c]
         parked == {t \in Children(k.goal) :
                      tasks[t].status \in {"planned", "waiting_approval"}}
     IN  /\ goals' = IF goals[k.goal].status = "gone" THEN goals
                     ELSE [goals EXCEPT ![k.goal].status = "released"]
         /\ tasks' = [t \in Ids |->
              IF t \in parked
                THEN [tasks[t] EXCEPT !.status =
                        IF ~ tasks[t].gate /\ DepsDone(t)
                          THEN "ready" ELSE "waiting_approval"]
                ELSE tasks[t]]
         /\ approved' = approved \cup {k.goal}
         /\ Onward(c, Closing(k.task))
  /\ UNCHANGED deps

\* UPDATE ... WHERE status='manual': an approval that came too late is refused.
ApproveClose(c) ==
  /\ call[c].op = "close"
  /\ LET t == call[c].task
     IN  IF tasks[t].status = "manual"
           THEN /\ tasks' = [tasks EXCEPT ![t].status = "done", ![t].gate = FALSE]
                /\ Then(c, [op |-> "promote", task |-> t])
                /\ UNCHANGED <<goals, deps>>
           ELSE Looked(c, Idle)

PromoteDependents(c) ==
  /\ call[c].op = "promote"
  /\ tasks' = Ready(Dependents(call[c].task))
  /\ Then(c, Idle)
  /\ UNCHANGED <<goals, deps>>

-----------------------------------------------------------------------------
(* Owner actions on a task: one step each here, see module Ledger *)

Reopened ==
  {t \in Ids : tasks[t].status \in Closed /\ tasks'[t].status \notin Closed}

OwnerStep(T, P) ==
  /\ requests > 0 /\ requests' = requests - 1
  /\ tasks' = T
  /\ pushed' = pushed \cup P /\ reopened' = reopened \cup Reopened
  /\ UNCHANGED <<goals, deps, call, approved, claims, crashes>>

\* mark_ready; retry_task is the same without the dependencies.
Release(t) ==
  /\ tasks[t].status \notin {"running", "done", "ready"}
  /\ ~ tasks[t].gate
  /\ OwnerStep(SetStatus({t}, "ready"), {t})

MarkManual(t) ==
  /\ tasks[t].status # "done"
  /\ OwnerStep(SetStatus({t}, "manual"), {})

\* edit_task with owner_approval=0.
ClearGate(t) ==
  /\ tasks[t].status \notin {"running", "done"} /\ tasks[t].gate
  /\ OwnerStep([tasks EXCEPT ![t].gate = FALSE,
                  ![t].status =
                    IF /\ @ = "waiting_approval" /\ DepsDone(t)
                       /\ goals[tasks[t].goal].status = "released"
                      THEN "ready" ELSE @], {})

Feedback(t) ==
  /\ tasks[t].status \in {"rework", "done", "blocked", "failed", "manual"}
  /\ LET demoted == {u \in Dependents(t) \ {t} :
                       tasks[t].status = "done" /\ tasks[u].status = "ready"}
     IN  OwnerStep([u \in Ids |->
           CASE u = t -> [tasks[u] EXCEPT !.status = "rework"]
             [] u \in demoted -> [tasks[u] EXCEPT !.status = "waiting_approval"]
             [] OTHER -> tasks[u]],
           {t})

\* close_by_owner: a transaction, then promote_dependents.
AskClose(c, t) ==
  /\ tasks[t].status = "manual"
  /\ call[c] = Idle /\ requests > 0
  /\ requests' = requests - 1
  /\ tasks' = SetStatus({t}, "done")
  /\ call' = [call EXCEPT ![c] = [op |-> "promote", task |-> t]]
  /\ UNCHANGED <<goals, deps, history, claims, crashes>>

-----------------------------------------------------------------------------
(* The dispatcher and the wrappers, as module Engine has them *)

\* promote_waiting_approval_ready; what a wrapper promotes is a part of it.
Promote ==
  /\ tasks' = Ready(Ids)
  /\ UNCHANGED <<goals, deps, call, history, requests, claims, crashes>>

Claim(t) ==
  /\ tasks[t].status \in {"ready", "rework"} /\ ~ tasks[t].gate
  /\ claims > 0 /\ claims' = claims - 1
  /\ tasks' = [tasks EXCEPT ![t].status = "running", ![t].live = @ + 1]
  /\ UNCHANGED <<goals, deps, call, history, requests, crashes>>

\* Mutation: a run may complete more than once.
CompleteAgain(t, report) ==
  /\ tasks' = [tasks EXCEPT ![t].status = report, ![t].live = @ - 1]
  /\ UNCHANGED <<goals, deps, call, history, requests, claims, crashes>>

\* record_completion of a task without review, whatever has become of the
\* task since its run started; a 'manual' report hands it to the owner.
Complete(t, report) ==
  /\ tasks[t].live > 0
  /\ LET row == tasks[t]
         status == IF report = "done" /\ row.gate THEN "manual" ELSE report
     IN  /\ tasks' = [tasks EXCEPT ![t] =
              [row EXCEPT !.status = status, !.live = @ - 1,
                          !.gate = row.gate \/ report = "manual"]]
         /\ reopened' = reopened \cup Reopened
  /\ UNCHANGED <<goals, deps, call, approved, pushed, requests, claims, crashes>>

-----------------------------------------------------------------------------
Kinds == {"plain", "gated", "pair"}

NewCall(c) ==
  \/ \E g \in Goals :
       \/ AskPlan(c, g) \/ AskRelease(c, g) \/ AskEdit(c, g) \/ AskDelete(c, g)
       \/ \E to \in {"planned", "draft"} : AskStatus(c, g, to)
       \/ \E kind \in Kinds, L \in SUBSET Ids :
            (kind = "pair" => L = {}) /\ AskCreate(c, g, kind, L)
  \/ \E t \in Ids :
       \/ AskApprove(c, t) \/ AskClose(c, t)
       \/ \E p \in Ids : AskLink(c, t, p)

CallStep(c) ==
  \/ CreateRead(c) \/ CreateInsert(c) \/ LinkDep(c)
  \/ StatusRead(c) \/ StatusWrite(c)
  \/ EditWrite(c) \/ DeleteWrite(c)
  \/ ReleaseRead(c) \/ ReleaseGrant(c) \/ ApproveClose(c) \/ PromoteDependents(c)

OwnerAction ==
  \E t \in Ids :
    \/ Release(t) \/ MarkManual(t) \/ ClearGate(t) \/ Feedback(t)
    \/ \E p \in Ids : Unlink(t, p)

Work ==
  \/ Promote
  \/ \E t \in Ids :
       \/ Claim(t)
       \/ \E report \in {"done", "manual", "blocked", "failed"} :
            Complete(t, report)

Next ==
  \/ \E c \in Clients : NewCall(c) \/ CallStep(c) \/ CallCrash(c)
  \/ OwnerAction
  \/ Work

Spec == Init /\ [][Next]_vars

-----------------------------------------------------------------------------
(* Properties *)

\* What a call holds between two steps; its op says what it does next.
CreateCall ==
  [op : {"create"}, goal : Goals, kind : Kinds \cup {"plan"},
   links : SUBSET Ids, text : Nat, to : {"none", "planning"}]
InsertCall ==
  [op : {"insert"}, goal : Goals, kind : Kinds \cup {"plan"},
   links : SUBSET Ids, text : Nat, to : {"none", "planning"},
   seen : GoalStatus]
LinkCall == [op : {"link"}, task : Ids, links : SUBSET Ids]
SetCall == [op : {"set"}, goal : Goals, to : GoalStatus \ {"released"}]
WriteCall ==
  [op : {"write"}, goal : Goals, to : GoalStatus \ {"released"},
   seen : GoalStatus]
ReleaseCall == [op : {"release", "grant"}, goal : Goals, task : {0} \cup Ids]
CloseCall == [op : {"close", "promote"}, task : Ids]
DraftCall == [op : {"edit", "delete"}, goal : Goals]

Call ==
  {Idle} \cup CreateCall \cup InsertCall \cup LinkCall \cup SetCall
    \cup WriteCall \cup ReleaseCall \cup CloseCall \cup DraftCall

GoalRow == [status : GoalStatus \cup {"gone"}, text : Nat]
TaskRow == [goal : Goals, plan : BOOLEAN, status : TaskStatus, gate : BOOLEAN,
            brief : Nat, live : Nat]

\* Every row and every call has its type.
TypeOK ==
  /\ goals \in [Goals -> GoalRow]
  /\ tasks \in Seq(TaskRow)
  /\ deps \subseteq Ids \X Ids
  /\ call \in [Clients -> Call]
  /\ approved \subseteq Goals /\ pushed \subseteq Ids /\ reopened \subseteq Ids
  /\ requests \in 0..MaxRequests
  /\ claims \in 0..MaxClaims
  /\ crashes \in 0..MaxCrashes

\* Only a released goal or the owner puts a task in the queue, however calls
\* overlap: `planned` "NEVER auto-runs", and release is the gate.
OnlyApprovedRuns ==
  \A t \in Ids :
    tasks[t].status \in {"ready", "running", "rework"} /\ t \notin pushed =>
      tasks[t].goal \in approved

\* Deleting a goal looks for its tasks before it deletes, and a task is
\* created after a look at its goal: no task is left with a goal that is gone.
NoOrphanTask == \A t \in Ids : goals[tasks[t].goal].status # "gone"

\* A crash between the two writes of a planning request does not lead to a
\* second planning task: at most one waits in the backlog of a goal.
OneParkedPlan ==
  \A t, u \in Ids :
    /\ tasks[t].plan /\ tasks[t].status = "planned"
    /\ tasks[u].plan /\ tasks[u].status = "planned"
    /\ tasks[t].goal = tasks[u].goal
    => t = u

\* A released goal leaves no task in its backlog, where nothing but the owner
\* would ever fetch it.
NothingStranded ==
  \A t \in Ids :
    tasks[t].status = "planned" => goals[tasks[t].goal].status # "released"

\* With one caller at a time, the store keeps what GoalLifecycle promises,
\* wherever the caller dies.
Offered ==
  {<<t, tasks[t].goal>> : t \in {u \in Ids \ pushed :
     tasks[u].status \in {"waiting_approval", "ready", "running"}}}

Lifecycle == INSTANCE GoalLifecycle WITH
  stage <- [g \in Goals |-> goals[g].status], offered <- Offered

KeepsLifecycle == Lifecycle!Spec

\* A planning task is put in the queue only by the owner, unless a planning
\* task of the goal that was closed has been opened again.
PlanStaysParked ==
  \A t \in Ids :
    /\ tasks[t].plan /\ tasks[t].status = "ready" /\ t \notin pushed
    => \E u \in reopened : tasks[u].goal = tasks[t].goal
=============================================================================
