----------------------------- MODULE GoalsProofs -----------------------------
(***************************************************************************)
(* Theorems about Goals, for every set of clients and goals and all        *)
(* bounds: types, the release gate, no orphan tasks.                       *)
(*                                                                         *)
(* The second half is about calls that do not overlap: the store then      *)
(* implements GoalLifecycle, because what a call read of its goal is still *)
(* so when it writes; and no goal has a second planning task in its        *)
(* backlog, a task stranded there, or a planning task in the queue.  The   *)
(* caller may die between any two steps, and the owner, the dispatcher and *)
(* the wrappers act at any time.                                           *)
(***************************************************************************)
EXTENDS Goals, SequenceTheorems, WellFoundedInduction, TLAPS

Queued == {"ready", "running", "rework"}

\* A goal in 'released' has passed its release.
ReleasedApproved ==
  \A g \in Goals : goals[g].status = "released" => g \in approved

Safe == ReleasedApproved /\ OnlyApprovedRuns /\ NoOrphanTask

IInv == TypeOK /\ Safe

\* What a step does to the tables, as far as Safe depends on it.
TablesOK ==
  /\ goals \in [Goals -> GoalRow]
  /\ tasks \in Seq(TaskRow)
  /\ deps \subseteq Ids \X Ids
  /\ approved \subseteq Goals /\ pushed \subseteq Ids /\ reopened \subseteq Ids

Effect ==
  /\ TablesOK'
  /\ Ids \subseteq Ids' /\ approved \subseteq approved' /\ pushed \subseteq pushed'
  /\ \A t \in Ids : tasks'[t].goal = tasks[t].goal
  /\ \A g \in Goals :
       /\ goals'[g].status = "released" =>
            goals[g].status = "released" \/ g \in approved'
       /\ goals'[g].status = "gone" =>
            \/ goals[g].status = "gone"
            \/ \A t \in Ids' : tasks'[t].goal # g
  /\ \A t \in Ids' :
       /\ t \in Ids \/ goals'[tasks'[t].goal].status # "gone"
       /\ tasks'[t].status \in Queued =>
            \/ t \in Ids /\ tasks[t].status \in Queued
            \/ t \in pushed' \/ tasks'[t].goal \in approved'

CallsOK == call \in [Clients -> Call]
BudgetOK ==
  /\ requests \in 0..MaxRequests
  /\ claims \in 0..MaxClaims
  /\ crashes \in 0..MaxCrashes

LEMMA TypeParts == TypeOK <=> TablesOK /\ CallsOK /\ BudgetOK
BY DEF TypeOK, TablesOK, CallsOK, BudgetOK

LEMMA TypePartsAfter ==
  TablesOK' /\ CallsOK' /\ BudgetOK' => TypeOK'
BY DEF TypeOK, TablesOK, CallsOK, BudgetOK

\* Rows of the tables have their types, before a step and after it.
LEMMA RowsTyped ==
  ASSUME TablesOK
  PROVE  /\ tasks \in [Ids -> TaskRow]
         /\ \A t \in Ids : tasks[t] \in TaskRow /\ tasks[t].goal \in Goals
         /\ \A g \in Goals : goals[g] \in GoalRow
<1>1. tasks \in [Ids -> TaskRow]
  BY DEF TablesOK, Ids
<1>2. \A t \in Ids : tasks[t] \in TaskRow
  BY <1>1
<1>. QED
  BY <1>1, <1>2 DEF TaskRow, TablesOK

LEMMA RowsTypedAfter ==
  ASSUME TablesOK'
  PROVE  \A t \in Ids' : tasks'[t].goal \in Goals
<1>1. tasks' \in [Ids' -> TaskRow]
  BY DEF TablesOK, Ids
<1>2. \A t \in Ids' : tasks'[t] \in TaskRow
  BY <1>1
<1>. QED
  BY <1>2 DEF TaskRow

-----------------------------------------------------------------------------
(* From the effect of a step to the invariants *)

LEMMA EffectIsSafe ==
  ASSUME IInv, Effect
  PROVE  Safe'
<1>1. TablesOK /\ ReleasedApproved /\ OnlyApprovedRuns /\ NoOrphanTask
  BY TypeParts DEF IInv, Safe
<1>2. \A t \in Ids : tasks[t].goal \in Goals
  BY <1>1, RowsTyped
<1>3. \A t \in Ids' : tasks'[t].goal \in Goals
  BY RowsTypedAfter DEF Effect
<1>. HIDE DEF TablesOK
<1>6. ReleasedApproved'
  BY <1>1 DEF ReleasedApproved, Effect
<1>4. OnlyApprovedRuns'
  BY <1>1, <1>2, <1>3 DEF OnlyApprovedRuns, Effect, Queued
<1>5. NoOrphanTask'
  BY <1>1, <1>2, <1>3 DEF NoOrphanTask, Effect
<1>. QED
  BY <1>4, <1>5, <1>6 DEF Safe

\* More tasks make more calls possible, and none impossible.
LEMMA CallGrows ==
  ASSUME Ids \subseteq Ids'
  PROVE  Call \subseteq Call'
BY DEF Call, CreateCall, InsertCall, LinkCall, SetCall, WriteCall, ReleaseCall,
       CloseCall, DraftCall

\* The client of a step goes on to a call that makes sense after it.
LEMMA CallStepOK ==
  ASSUME CallsOK, Ids \subseteq Ids', NEW c \in Clients, NEW k \in Call',
         call' = [call EXCEPT ![c] = k]
  PROVE  CallsOK'
<1>1. call \in [Clients -> Call']
  BY CallGrows DEF CallsOK
<1>. QED
  BY <1>1, Zenon DEF CallsOK

\* The tag of a call tells its type.
LEMMA CallKinds ==
  ASSUME CallsOK, NEW c \in Clients
  PROVE  /\ call[c].op = "create" => call[c] \in CreateCall
         /\ call[c].op = "insert" => call[c] \in InsertCall
         /\ call[c].op = "link" => call[c] \in LinkCall
         /\ call[c].op = "set" => call[c] \in SetCall
         /\ call[c].op = "write" => call[c] \in WriteCall
         /\ call[c].op \in {"release", "grant"} => call[c] \in ReleaseCall
         /\ call[c].op \in {"close", "promote"} => call[c] \in CloseCall
         /\ call[c].op \in {"edit", "delete"} => call[c] \in DraftCall
<1>1. call[c] \in Call
  BY DEF CallsOK
<1>2. /\ Idle.op = "idle"
      /\ \A k \in CreateCall : k.op = "create"
      /\ \A k \in InsertCall : k.op = "insert"
      /\ \A k \in LinkCall : k.op = "link"
      /\ \A k \in SetCall : k.op = "set"
      /\ \A k \in WriteCall : k.op = "write"
      /\ \A k \in ReleaseCall : k.op \in {"release", "grant"}
      /\ \A k \in CloseCall : k.op \in {"close", "promote"}
      /\ \A k \in DraftCall : k.op \in {"edit", "delete"}
  BY DEF Idle, CreateCall, InsertCall, LinkCall, SetCall, WriteCall,
         ReleaseCall, CloseCall, DraftCall
<1>. HIDE DEF CreateCall, InsertCall, LinkCall, SetCall, WriteCall, ReleaseCall,
              CloseCall, DraftCall
<1>. QED
  BY <1>1, <1>2 DEF Call

\* Rewriting the rows in place gives a table of the same length.
LEMMA Rewritten ==
  ASSUME TablesOK, tasks' \in [Ids -> TaskRow]
  PROVE  tasks' \in Seq(TaskRow) /\ Ids' = Ids
<1>1. Ids = 1..Len(tasks) /\ Len(tasks) \in Nat
  BY DEF TablesOK, Ids
<1>2. tasks' \in Seq(TaskRow)
  BY <1>1, SeqDef
<1>. QED
  BY <1>2, <1>1 DEF Ids

LEMMA SetStatusType ==
  ASSUME TablesOK, NEW T, NEW s \in TaskStatus
  PROVE  /\ SetStatus(T, s) \in [Ids -> TaskRow]
         /\ \A t \in Ids :
              /\ SetStatus(T, s)[t].goal = tasks[t].goal
              /\ SetStatus(T, s)[t].status =
                   IF t \in T THEN s ELSE tasks[t].status
<1>1. \A t \in Ids : [tasks[t] EXCEPT !.status = s] \in TaskRow
  BY RowsTyped DEF TaskRow
<1>. QED
  BY <1>1, RowsTyped DEF SetStatus, TaskRow

-----------------------------------------------------------------------------
(* Kinds of steps *)

\* The rows change in place.
LEMMA InPlace ==
  ASSUME TablesOK,
         goals' \in [Goals -> GoalRow], tasks' \in [Ids -> TaskRow],
         deps' \subseteq Ids \X Ids,
         approved \subseteq approved', approved' \subseteq Goals,
         pushed \subseteq pushed', pushed' \subseteq Ids, reopened' \subseteq Ids,
         \A t \in Ids :
           /\ tasks'[t].goal = tasks[t].goal
           /\ tasks'[t].status \in Queued =>
                \/ tasks[t].status \in Queued
                \/ t \in pushed' \/ tasks[t].goal \in approved',
         \A g \in Goals :
           /\ goals'[g].status = "released" =>
                goals[g].status = "released" \/ g \in approved'
           /\ goals'[g].status = "gone" =>
                goals[g].status = "gone" \/ Children(g) = {}
  PROVE  Effect /\ Ids' = Ids
<1>1. tasks' \in Seq(TaskRow) /\ Ids' = Ids
  BY Rewritten
<1>2. TablesOK'
  BY <1>1 DEF TablesOK
<1>3. ASSUME NEW g \in Goals, Children(g) = {}
      PROVE  \A t \in Ids' : tasks'[t].goal # g
  BY <1>1, <1>3 DEF Children
<1>. QED
  BY <1>1, <1>2, <1>3 DEF Effect

\* Only the rows of tasks change.
LEMMA TasksOnly ==
  ASSUME TablesOK, tasks' \in [Ids -> TaskRow],
         UNCHANGED <<goals, deps, approved>>,
         pushed \subseteq pushed', pushed' \subseteq Ids, reopened' \subseteq Ids,
         \A t \in Ids :
           /\ tasks'[t].goal = tasks[t].goal
           /\ tasks'[t].status \in Queued =>
                \/ tasks[t].status \in Queued
                \/ t \in pushed' \/ tasks[t].goal \in approved
  PROVE  Effect /\ Ids' = Ids
<1>1. /\ goals' \in [Goals -> GoalRow] /\ deps' \subseteq Ids \X Ids
      /\ approved \subseteq approved' /\ approved' \subseteq Goals
  BY DEF TablesOK
<1>. QED
  BY <1>1, InPlace

\* No table changes.
LEMMA NoChange ==
  ASSUME TablesOK, UNCHANGED <<goals, tasks, deps, history>>
  PROVE  Effect /\ Ids' = Ids
<1>1. tasks' \in [Ids -> TaskRow]
  BY RowsTyped
<1>. QED
  BY <1>1, TasksOnly DEF TablesOK, history

\* A step changes only a call, and perhaps a bound.
LEMMA NewCallOK ==
  ASSUME TypeOK, NEW c \in Clients, NEW k \in Call, Ask(c, k)
  PROVE  TypeOK' /\ Effect
<1>1. TablesOK /\ CallsOK /\ BudgetOK
  BY TypeParts
<1>2. Effect /\ Ids' = Ids
  BY <1>1, NoChange DEF Ask
<1>3. k \in Call'
  BY <1>2, CallGrows
<1>4. CallsOK'
  BY <1>1, <1>2, <1>3, CallStepOK DEF Ask
<1>5. BudgetOK'
  BY <1>1, GoalsAssumption DEF BudgetOK, Ask
<1>. QED
  BY <1>2, <1>4, <1>5, TypePartsAfter DEF Effect

\* A step of a call in progress that has the right effect.
LEMMA OnwardOK ==
  ASSUME TypeOK, Effect, NEW c \in Clients, NEW k \in Call', Onward(c, k)
  PROVE  TypeOK'
<1>1. TablesOK /\ CallsOK /\ BudgetOK
  BY TypeParts
<1>2. CallsOK'
  BY <1>1, CallStepOK DEF Onward, Effect
<1>3. BudgetOK'
  BY <1>1 DEF BudgetOK, Onward
<1>. QED
  BY <1>2, <1>3, TypePartsAfter DEF Effect

LEMMA LookedOK ==
  ASSUME TypeOK, NEW c \in Clients, NEW k \in Call, Looked(c, k)
  PROVE  TypeOK' /\ Effect
<1>1. Effect /\ Ids' = Ids
  BY TypeParts, NoChange DEF Looked, Then, Onward, history
<1>2. k \in Call'
  BY <1>1, CallGrows
<1>. QED
  BY <1>1, <1>2, OnwardOK DEF Looked, Then

-----------------------------------------------------------------------------
(* Calls that begin *)

LEMMA CallMembers ==
  /\ Idle \in Call
  /\ CreateCall \subseteq Call /\ InsertCall \subseteq Call /\ LinkCall \subseteq Call
  /\ SetCall \subseteq Call /\ WriteCall \subseteq Call /\ ReleaseCall \subseteq Call
  /\ CloseCall \subseteq Call /\ DraftCall \subseteq Call
BY DEF Call

LEMMA LinkingType ==
  ASSUME NEW t \in Ids, NEW L \in SUBSET Ids
  PROVE  Linking(t, L) \in Call
<1>1. [op |-> "link", task |-> t, links |-> L] \in LinkCall
  BY DEF LinkCall
<1>. QED
  BY <1>1, CallMembers DEF Linking

LEMMA SettingType ==
  ASSUME NEW g \in Goals, NEW to \in GoalStatus \ {"released"}
  PROVE  SettingTo(g, to) \in Call
<1>1. SettingTo(g, to) \in SetCall
  BY DEF SettingTo, SetCall
<1>. QED
  BY <1>1, CallMembers

LEMMA CreatingType ==
  ASSUME NEW g \in Goals, NEW kind \in Kinds \cup {"plan"},
         NEW L \in SUBSET Ids, NEW n \in Nat, NEW to \in {"none", "planning"}
  PROVE  Creating(g, kind, L, n, to) \in Call
<1>1. Creating(g, kind, L, n, to) \in CreateCall
  BY DEF Creating, CreateCall
<1>. QED
  BY <1>1, CallMembers

LEMMA NewCallKeeps ==
  ASSUME TypeOK, NEW c \in Clients, NewCall(c)
  PROVE  TypeOK' /\ Effect
<1>0. TablesOK
  BY TypeParts
<1>1. ASSUME NEW g \in Goals, AskPlan(c, g)
      PROVE  TypeOK' /\ Effect
  <2>1. SettingTo(g, "planning") \in Call
    BY SettingType DEF GoalStatus
  <2>2. goals[g].text \in Nat
    BY <1>0, RowsTyped DEF GoalRow
  <2>3. \A to \in {"none", "planning"} :
          Creating(g, "plan", {}, goals[g].text, to) \in Call
    BY <2>2, CreatingType
  <2>. QED
    BY <1>1, <2>1, <2>3, NewCallOK DEF AskPlan
<1>2. ASSUME NEW g \in Goals, AskRelease(c, g)
      PROVE  TypeOK' /\ Effect
  <2>1. [op |-> "release", goal |-> g, task |-> 0] \in ReleaseCall
    BY DEF ReleaseCall
  <2>. QED
    BY <1>2, <2>1, CallMembers, NewCallOK DEF AskRelease
<1>3. ASSUME NEW g \in Goals, AskEdit(c, g) \/ AskDelete(c, g)
      PROVE  TypeOK' /\ Effect
  <2>1. \A op \in {"edit", "delete"} : [op |-> op, goal |-> g] \in DraftCall
    BY DEF DraftCall
  <2>. QED
    BY <1>3, <2>1, CallMembers, NewCallOK DEF AskEdit, AskDelete
<1>4. ASSUME NEW g \in Goals, NEW to \in {"planned", "draft"}, AskStatus(c, g, to)
      PROVE  TypeOK' /\ Effect
  <2>1. SettingTo(g, to) \in Call
    BY SettingType DEF GoalStatus
  <2>. QED
    BY <1>4, <2>1, NewCallOK DEF AskStatus
<1>5. ASSUME NEW g \in Goals, NEW kind \in Kinds, NEW L \in SUBSET Ids,
             AskCreate(c, g, kind, L)
      PROVE  TypeOK' /\ Effect
  BY <1>5, CreatingType, NewCallOK DEF AskCreate
<1>6. ASSUME NEW t \in Ids, AskApprove(c, t)
      PROVE  TypeOK' /\ Effect
  <2>1. [op |-> "release", goal |-> tasks[t].goal, task |-> t] \in ReleaseCall
    BY <1>0, RowsTyped DEF ReleaseCall
  <2>. QED
    BY <1>6, <2>1, CallMembers, NewCallOK DEF AskApprove
<1>7. ASSUME NEW t \in Ids, NEW p \in Ids, AskLink(c, t, p)
      PROVE  TypeOK' /\ Effect
  BY <1>7, LinkingType, NewCallOK DEF AskLink
<1>8. ASSUME NEW t \in Ids, AskClose(c, t)
      PROVE  TypeOK' /\ Effect
  <2>1. Effect /\ Ids' = Ids
    <3>1. TablesOK /\ tasks' = SetStatus({t}, "done")
      BY <1>0, <1>8 DEF AskClose
    <3>2. /\ tasks' \in [Ids -> TaskRow]
          /\ \A u \in Ids : /\ tasks'[u].goal = tasks[u].goal
                           /\ tasks'[u].status \in {"done", tasks[u].status}
      BY <3>1, SetStatusType DEF TaskStatus
    <3>3. UNCHANGED <<goals, deps, approved, pushed, reopened>>
      BY <1>8 DEF AskClose, history
    <3>4. \A u \in Ids : tasks'[u].status \in Queued => tasks[u].status \in Queued
      BY <3>2 DEF Queued
    <3>5. pushed' \subseteq Ids /\ reopened' \subseteq Ids
      BY <3>1, <3>3 DEF TablesOK
    <3>. QED
      BY <3>1, <3>2, <3>3, <3>4, <3>5, TasksOnly
  <2>2. [op |-> "promote", task |-> t] \in Call'
    <3>1. [op |-> "promote", task |-> t] \in CloseCall
      BY DEF CloseCall
    <3>. QED
      BY <3>1, <2>1, CallGrows, CallMembers
  <2>3. CallsOK'
    BY <1>8, <2>1, <2>2, CallStepOK, TypeParts DEF AskClose
  <2>4. BudgetOK'
    BY <1>8, TypeParts, GoalsAssumption DEF BudgetOK, AskClose
  <2>. QED
    BY <2>1, <2>3, <2>4, TypePartsAfter DEF Effect
<1>. QED
  BY <1>1, <1>2, <1>3, <1>4, <1>5, <1>6, <1>7, <1>8 DEF NewCall

-----------------------------------------------------------------------------
(* Calls in progress *)

LEMMA CreateReadKeeps ==
  ASSUME TypeOK, NEW c \in Clients, CreateRead(c)
  PROVE  TypeOK' /\ Effect
<1>1. call[c] \in CreateCall /\ goals \in [Goals -> GoalRow]
  BY TypeParts, CallKinds DEF CreateRead, TablesOK
<1>. DEFINE k == call[c]
            next == IF goals[k.goal].status = "gone" THEN Idle
                    ELSE [op |-> "insert", goal |-> k.goal, kind |-> k.kind,
                          links |-> k.links, text |-> k.text, to |-> k.to,
                          seen |-> goals[k.goal].status]
<1>2. Looked(c, next)
  BY DEF CreateRead
<1>3. goals[k.goal].status \in GoalStatus \cup {"gone"}
  BY <1>1 DEF CreateCall, GoalRow
<1>4. next \in Call
  <2>1. CASE goals[k.goal].status = "gone"
    BY <2>1, CallMembers
  <2>2. CASE goals[k.goal].status # "gone"
    <3>1. next \in InsertCall
      BY <1>1, <1>3, <2>2 DEF CreateCall, InsertCall
    <3>. QED
      BY <3>1, CallMembers
  <2>. QED
    BY <2>1, <2>2
<1>. QED
  BY <1>2, <1>4, LookedOK

\* What follows an INSERT makes sense once the row is there.
LEMMA AfterInsertType ==
  ASSUME NEW k \in InsertCall, NEW t \in Ids', Ids \subseteq Ids',
         NEW next \in AfterInsert(k, t)
  PROVE  next \in Call'
<1>1. /\ k.goal \in Goals /\ k.links \in SUBSET Ids
      /\ k.kind \in Kinds \cup {"plan"} /\ k.to \in {"none", "planning"}
  BY DEF InsertCall
<1>2. SettingTo(k.goal, "planning") \in Call'
  BY <1>1 DEF Call, SettingTo, SetCall, GoalStatus
<1>3. \A b \in {"plain", "gated"} :
        Creating(k.goal, b, {t}, 0, "none") \in Call'
  BY <1>1 DEF Call, Creating, CreateCall, Kinds
<1>4. Linking(t, k.links) \in Call'
  BY <1>1 DEF Call, Linking, LinkCall
<1>. QED
  BY <1>2, <1>3, <1>4 DEF AfterInsert

LEMMA CreateInsertKeeps ==
  ASSUME TypeOK, NEW c \in Clients, CreateInsert(c)
  PROVE  TypeOK' /\ Effect
<1>. DEFINE k == call[c]
            row == NewTask(k.goal, k.kind = "plan", k.kind \in {"gated", "pair"},
                           InitStatus(k.seen), k.text)
<1>0. TablesOK /\ k \in InsertCall
  BY TypeParts, CallKinds DEF CreateInsert
<1>1. CASE goals[k.goal].status = "gone"
  BY <1>1, LookedOK, CallMembers DEF CreateInsert
<1>2. CASE goals[k.goal].status # "gone"
  <2>1. PICK next \in AfterInsert(k, Len(tasks) + 1) : Then(c, next)
    BY <1>2 DEF CreateInsert
  <2>2. tasks' = Append(tasks, row) /\ UNCHANGED <<goals, deps, history>>
    BY <1>2, <2>1 DEF CreateInsert, Then, Onward, history
  <2>3. row \in TaskRow /\ row.goal = k.goal /\ row.status \notin Queued
    BY <1>0 DEF NewTask, InitStatus, TaskRow, InsertCall, TaskStatus, Queued
  <2>4. /\ tasks' \in Seq(TaskRow) /\ Len(tasks') = Len(tasks) + 1
        /\ \A t \in 1..Len(tasks) : tasks'[t] = tasks[t]
        /\ tasks'[Len(tasks) + 1] = row
    BY <1>0, <2>2, <2>3 DEF TablesOK
  <2>5. /\ Ids = 1..Len(tasks) /\ Ids' = 1..(Len(tasks) + 1)
        /\ Len(tasks) \in Nat
    BY <1>0, <2>4 DEF TablesOK, Ids
  <2>6. Ids \subseteq Ids' /\ Len(tasks) + 1 \in Ids'
    BY <2>5
  <2>7. TablesOK'
    BY <1>0, <2>2, <2>4, <2>6 DEF TablesOK, history
  <2>8. Effect
    <3>1. \A t \in Ids' : t \in Ids \/ t = Len(tasks) + 1
      BY <2>5
    <3>2. goals' = goals /\ approved' = approved /\ pushed' = pushed
      BY <2>2 DEF history
    <3>3. \A t \in Ids : tasks'[t] = tasks[t]
      BY <2>4, <2>5
    <3>4. PICK new : new = Len(tasks) + 1
      OBVIOUS
    <3>5. tasks'[new].goal = k.goal /\ tasks'[new].status \notin Queued
      BY <2>3, <2>4, <3>4
    <3>6. ASSUME NEW t \in Ids'
          PROVE  /\ t \in Ids \/ goals'[tasks'[t].goal].status # "gone"
                 /\ tasks'[t].status \in Queued => t \in Ids /\ tasks[t].status \in Queued
      <4>1. CASE t \in Ids
        BY <3>3, <4>1
      <4>2. CASE t = new
        BY <3>2, <3>5, <4>2, <1>2
      <4>. QED
        BY <3>1, <3>4, <4>1, <4>2
    <3>. QED
      BY <2>6, <2>7, <3>2, <3>3, <3>6 DEF Effect
  <2>9. next \in Call'
    BY <1>0, <2>6, AfterInsertType
  <2>. QED
    BY <2>1, <2>8, <2>9, OnwardOK DEF Then
<1>. QED
  BY <1>1, <1>2

LEMMA LinkDepKeeps ==
  ASSUME TypeOK, NEW c \in Clients, LinkDep(c)
  PROVE  TypeOK' /\ Effect
<1>1. TablesOK /\ call[c] \in LinkCall
  BY TypeParts, CallKinds DEF LinkDep
<1>2. PICK p \in call[c].links :
        /\ deps' = deps \cup {<<call[c].task, p>>}
        /\ Then(c, Linking(call[c].task, call[c].links \ {p}))
  BY DEF LinkDep
<1>3. call[c].task \in Ids /\ call[c].links \in SUBSET Ids
  BY <1>1 DEF LinkCall
<1>4. UNCHANGED <<goals, tasks, history>>
  BY <1>2 DEF LinkDep, Then, Onward, history
<1>5. Effect /\ Ids' = Ids
  <2>1. deps' \subseteq Ids \X Ids
    BY <1>1, <1>2, <1>3 DEF TablesOK
  <2>. QED
    BY <1>1, <1>4, <2>1, RowsTyped, InPlace DEF TablesOK, history
<1>6. Linking(call[c].task, call[c].links \ {p}) \in Call'
  BY <1>3, <1>5, LinkingType, CallGrows
<1>. QED
  BY <1>2, <1>5, <1>6, OnwardOK DEF Then

LEMMA StatusReadKeeps ==
  ASSUME TypeOK, NEW c \in Clients, StatusRead(c)
  PROVE  TypeOK' /\ Effect
<1>. DEFINE k == call[c]
            next == [op |-> "write", goal |-> k.goal, to |-> k.to,
                     seen |-> goals[k.goal].status]
<1>1. k \in SetCall
  BY TypeParts, CallKinds DEF StatusRead
<1>2. CASE <<goals[k.goal].status, k.to>> \in GoalEdges
  <2>1. goals[k.goal].status \in GoalStatus
    BY <1>2 DEF GoalEdges, GoalStatus
  <2>2. next \in WriteCall
    BY <1>1, <2>1 DEF SetCall, WriteCall
  <2>. QED
    BY <1>2, <2>2, LookedOK, CallMembers DEF StatusRead
<1>3. CASE <<goals[k.goal].status, k.to>> \notin GoalEdges
  BY <1>3, LookedOK, CallMembers DEF StatusRead
<1>. QED
  BY <1>2, <1>3

\* The end of a call whose step had the right effect.
LEMMA DoneOK ==
  ASSUME TypeOK, NEW c \in Clients, Effect, Onward(c, Idle)
  PROVE  TypeOK' /\ Effect
<1>1. Idle \in Call'
  BY DEF Call
<1>. QED
  BY <1>1, OnwardOK

LEMMA StatusWriteKeeps ==
  ASSUME TypeOK, NEW c \in Clients, StatusWrite(c)
  PROVE  TypeOK' /\ Effect
<1>. DEFINE k == call[c]
<1>1. TablesOK /\ k \in WriteCall
  BY TypeParts, CallKinds DEF StatusWrite
<1>2. /\ goals' = IF goals[k.goal].status = "gone" THEN goals
                  ELSE [goals EXCEPT ![k.goal].status = k.to]
      /\ tasks' = SetStatus(ClosedByWrite(k), "done")
      /\ UNCHANGED <<deps, history>> /\ Onward(c, Idle)
  BY DEF StatusWrite, Then, Onward, history
<1>3. /\ goals' \in [Goals -> GoalRow]
      /\ \A g \in Goals :
           goals'[g].status \in {"released", "gone"} =>
             goals[g].status = goals'[g].status
  <2>1. PICK g \in Goals, to \in GoalStatus : g = k.goal /\ to = k.to /\ to # "released"
    BY <1>1 DEF WriteCall
  <2>2. goals \in [Goals -> GoalRow]
    BY <1>1 DEF TablesOK
  <2>3. CASE goals' = goals
    BY <2>2, <2>3
  <2>4. CASE goals' = [goals EXCEPT ![g].status = to]
    <3>1. \A h \in Goals : goals'[h] = IF h = g THEN [goals[h] EXCEPT !.status = to] ELSE goals[h]
      BY <2>2, <2>4
    <3>2. [goals[g] EXCEPT !.status = to] \in GoalRow
      BY <2>1, <2>2 DEF GoalRow
    <3>3. goals' \in [Goals -> GoalRow]
      BY <2>2, <2>4, <3>2
    <3>4. to \notin {"released", "gone"}
      BY <2>1 DEF GoalStatus
    <3>5. goals'[g].status = to
      BY <2>2, <3>1 DEF GoalRow
    <3>. QED
      BY <3>1, <3>3, <3>4, <3>5
  <2>. QED
    BY <1>2, <2>1, <2>3, <2>4
<1>4. /\ tasks' \in [Ids -> TaskRow]
      /\ \A t \in Ids :
           /\ tasks'[t].goal = tasks[t].goal
           /\ tasks'[t].status \in Queued => tasks[t].status \in Queued
  <2>1. PICK T : T = ClosedByWrite(k)
    OBVIOUS
  <2>2. tasks' = SetStatus(T, "done") /\ "done" \in TaskStatus /\ "done" \notin Queued
    BY <1>2, <2>1 DEF TaskStatus, Queued
  <2>. QED
    BY ONLY <1>1, <2>2, SetStatusType
<1>5. Effect
  BY <1>1, <1>2, <1>3, <1>4, InPlace DEF TablesOK, history
<1>. QED
  BY <1>2, <1>5, DoneOK

LEMMA DraftWriteKeeps ==
  ASSUME TypeOK, NEW c \in Clients, EditWrite(c) \/ DeleteWrite(c)
  PROVE  TypeOK' /\ Effect
<1>1. TablesOK /\ call[c] \in DraftCall
  BY TypeParts, CallKinds DEF EditWrite, DeleteWrite
<1>2. UNCHANGED <<tasks, deps, history>> /\ Onward(c, Idle)
  BY DEF EditWrite, DeleteWrite, Then, Onward, history
<1>3. /\ goals' \in [Goals -> GoalRow]
      /\ \A g \in Goals :
           /\ goals'[g].status = "released" => goals[g].status = "released"
           /\ goals'[g].status = "gone" =>
                goals[g].status = "gone" \/ Children(g) = {}
  <2>1. CASE EditWrite(c)
    <3>1. ASSUME NEW g \in Goals
          PROVE  [goals[g] EXCEPT !.text = @ + 1] \in GoalRow
      <4>1. goals[g] \in GoalRow
        BY <1>1 DEF TablesOK
      <4>2. goals[g].text + 1 \in Nat
        BY <4>1 DEF GoalRow
      <4>. QED
        BY <4>1, <4>2, Zenon DEF GoalRow
    <3>. QED
      BY <1>1, <2>1, <3>1 DEF EditWrite, TablesOK, DraftCall, GoalRow
  <2>2. CASE DeleteWrite(c)
    <3>1. \A g \in Goals : [goals[g] EXCEPT !.status = "gone"] \in GoalRow
      BY <1>1 DEF TablesOK, GoalRow
    <3>. QED
      BY <1>1, <2>2, <3>1
         DEF DeleteWrite, Deletable, TablesOK, DraftCall, GoalRow
  <2>. QED
    BY <2>1, <2>2
<1>4. Effect
  BY <1>1, <1>2, <1>3, RowsTyped, InPlace DEF TablesOK, history
<1>. QED
  BY <1>2, <1>4, DoneOK

LEMMA ClosingType ==
  ASSUME NEW t \in {0} \cup Ids
  PROVE  Closing(t) \in Call
BY DEF Closing, Call, CloseCall

LEMMA ReleaseReadKeeps ==
  ASSUME TypeOK, NEW c \in Clients, ReleaseRead(c)
  PROVE  TypeOK' /\ Effect
<1>. DEFINE k == call[c]
            old == goals[k.goal].status
            granting == [op |-> "grant", goal |-> k.goal, task |-> k.task]
<1>1. k \in ReleaseCall
  BY TypeParts, CallKinds DEF ReleaseRead
<1>2. granting \in Call /\ Closing(k.task) \in Call
  BY <1>1, ClosingType, CallMembers DEF ReleaseCall
<1>3. \/ Looked(c, granting) \/ Looked(c, Closing(k.task)) \/ Looked(c, Idle)
  BY DEF ReleaseRead
<1>. QED
  BY <1>2, <1>3, LookedOK, CallMembers

LEMMA ReleaseGrantKeeps ==
  ASSUME TypeOK, NEW c \in Clients, ReleaseGrant(c)
  PROVE  TypeOK' /\ Effect
<1>. DEFINE k == call[c]
            parked == {t \in Children(k.goal) :
                         tasks[t].status \in {"planned", "waiting_approval"}}
            after(t) == IF ~ tasks[t].gate /\ DepsDone(t)
                          THEN "ready" ELSE "waiting_approval"
<1>1. TablesOK /\ k \in ReleaseCall
  BY TypeParts, CallKinds DEF ReleaseGrant
<1>2. /\ goals' = IF goals[k.goal].status = "gone" THEN goals
                  ELSE [goals EXCEPT ![k.goal].status = "released"]
      /\ tasks' = [t \in Ids |->
           IF t \in parked THEN [tasks[t] EXCEPT !.status = after(t)]
           ELSE tasks[t]]
      /\ approved' = approved \cup {k.goal}
      /\ UNCHANGED <<deps, pushed, reopened>>
      /\ Onward(c, Closing(k.task))
  BY DEF ReleaseGrant, Onward
<1>3. k.goal \in Goals /\ k.task \in {0} \cup Ids
  BY <1>1 DEF ReleaseCall
<1>4. /\ goals' \in [Goals -> GoalRow]
      /\ \A g \in Goals :
           /\ goals'[g].status = "released" =>
                goals[g].status = "released" \/ g \in approved'
           /\ goals'[g].status = "gone" => goals[g].status = "gone"
  BY <1>1, <1>2, <1>3 DEF TablesOK, GoalRow, GoalStatus
<1>5. \A t \in Ids : tasks[t] \in TaskRow
  BY <1>1, RowsTyped
<1>6. \A t \in Ids : [tasks[t] EXCEPT !.status = after(t)] \in TaskRow
  BY <1>5 DEF TaskRow, TaskStatus
<1>7. /\ tasks' \in [Ids -> TaskRow]
      /\ \A t \in Ids :
           /\ tasks'[t].goal = tasks[t].goal
           /\ tasks'[t].status # tasks[t].status => tasks[t].goal = k.goal
  BY <1>2, <1>5, <1>6 DEF TaskRow, Children
<1>8. Effect /\ Ids' = Ids
  BY <1>1, <1>2, <1>3, <1>4, <1>7, InPlace DEF TablesOK
<1>9. Closing(k.task) \in Call'
  BY <1>3, <1>8, ClosingType, CallGrows
<1>. QED
  BY <1>2, <1>8, <1>9, OnwardOK

LEMMA ApproveCloseKeeps ==
  ASSUME TypeOK, NEW c \in Clients, ApproveClose(c)
  PROVE  TypeOK' /\ Effect
<1>. DEFINE t == call[c].task
<1>1. TablesOK /\ t \in Ids
  BY TypeParts, CallKinds DEF ApproveClose, CloseCall
<1>2. CASE tasks[t].status # "manual"
  BY <1>2, LookedOK, CallMembers DEF ApproveClose
<1>3. CASE tasks[t].status = "manual"
  <2>1. /\ tasks' = [tasks EXCEPT ![t].status = "done", ![t].gate = FALSE]
        /\ UNCHANGED <<goals, deps, history>>
        /\ Onward(c, [op |-> "promote", task |-> t])
    BY <1>3 DEF ApproveClose, Then, Onward, history
  <2>2. [tasks[t] EXCEPT !.status = "done", !.gate = FALSE] \in TaskRow
    BY <1>1, RowsTyped DEF TaskRow, TaskStatus
  <2>3. /\ tasks' \in [Ids -> TaskRow]
        /\ \A u \in Ids :
             /\ tasks'[u].goal = tasks[u].goal
             /\ tasks'[u].status \in Queued => tasks[u].status \in Queued
    BY <1>1, <2>1, <2>2, RowsTyped DEF TaskRow, Queued
  <2>4. Effect /\ Ids' = Ids
    BY <1>1, <2>1, <2>3, TasksOnly DEF TablesOK, history
  <2>5. [op |-> "promote", task |-> t] \in Call'
    BY <1>1, <2>4 DEF Call, CloseCall
  <2>. QED
    BY <2>1, <2>4, <2>5, OnwardOK
<1>. QED
  BY <1>2, <1>3

\* A promotion changes nothing but the status of tasks of released goals.
LEMMA ReadyEffect ==
  ASSUME TypeOK, ReleasedApproved, NEW T, tasks' = Ready(T),
         UNCHANGED <<goals, deps, history>>
  PROVE  Effect /\ Ids' = Ids
<1>1. TablesOK
  BY TypeParts
<1>2. \A t \in Ids : Promotable(t) => tasks[t].goal \in approved
  BY <1>1, RowsTyped DEF Promotable, ReleasedApproved
<1>3. /\ tasks' \in [Ids -> TaskRow]
      /\ \A t \in Ids :
           /\ tasks'[t].goal = tasks[t].goal
           /\ tasks'[t].status # tasks[t].status => Promotable(t)
  BY <1>1, SetStatusType DEF Ready, TaskStatus
<1>. QED
  BY <1>1, <1>2, <1>3, TasksOnly DEF TablesOK, history

LEMMA PromoteDependentsKeeps ==
  ASSUME TypeOK, ReleasedApproved, NEW c \in Clients, PromoteDependents(c)
  PROVE  TypeOK' /\ Effect
<1>1. /\ tasks' = Ready(Dependents(call[c].task))
      /\ UNCHANGED <<goals, deps, history>> /\ Onward(c, Idle)
  BY DEF PromoteDependents, Then, Onward, history
<1>. QED
  BY <1>1, ReadyEffect, DoneOK

LEMMA CallStepKeeps ==
  ASSUME TypeOK, ReleasedApproved, NEW c \in Clients, CallStep(c)
  PROVE  TypeOK' /\ Effect
BY CreateReadKeeps, CreateInsertKeeps, LinkDepKeeps, StatusReadKeeps,
   StatusWriteKeeps, DraftWriteKeeps, ReleaseReadKeeps, ReleaseGrantKeeps,
   ApproveCloseKeeps, PromoteDependentsKeeps DEF CallStep

LEMMA CallCrashKeeps ==
  ASSUME TypeOK, NEW c \in Clients, CallCrash(c)
  PROVE  TypeOK' /\ Effect
<1>1. TablesOK /\ CallsOK /\ BudgetOK
  BY TypeParts
<1>2. Effect /\ Ids' = Ids
  BY <1>1, NoChange DEF CallCrash
<1>3. CallsOK'
  BY <1>1, <1>2, CallMembers, CallGrows, CallStepOK DEF CallCrash
<1>4. BudgetOK'
  BY <1>1, GoalsAssumption DEF BudgetOK, CallCrash
<1>. QED
  BY <1>2, <1>3, <1>4, TypePartsAfter DEF Effect

-----------------------------------------------------------------------------
(* The owner, the dispatcher and the wrappers *)

\* An owner action that rewrites the rows and pushes what it queues.
LEMMA OwnerStepKeeps ==
  ASSUME TypeOK, tasks' \in [Ids -> TaskRow], NEW P \in SUBSET Ids,
         pushed' = pushed \cup P, reopened' = reopened \cup Reopened,
         requests > 0, requests' = requests - 1,
         UNCHANGED <<goals, deps, call, approved, claims, crashes>>,
         \A t \in Ids :
           /\ tasks'[t].goal = tasks[t].goal
           /\ tasks'[t].status \in Queued =>
                \/ tasks[t].status \in Queued
                \/ t \in P \/ tasks[t].goal \in approved
  PROVE  TypeOK' /\ Effect
<1>1. TablesOK /\ CallsOK /\ BudgetOK
  BY TypeParts
<1>3. Reopened \subseteq Ids
  BY DEF Reopened
<1>4. Effect /\ Ids' = Ids
  BY <1>1, <1>3, TasksOnly DEF TablesOK
<1>5. CallsOK'
  BY <1>1, <1>4, CallGrows DEF CallsOK
<1>6. BudgetOK'
  BY <1>1, GoalsAssumption DEF BudgetOK
<1>. QED
  BY <1>4, <1>5, <1>6, TypePartsAfter DEF Effect

LEMMA UnlinkKeeps ==
  ASSUME TypeOK, ReleasedApproved, NEW t \in Ids, NEW p \in Ids, Unlink(t, p)
  PROVE  TypeOK' /\ Effect
<1>1. TablesOK /\ CallsOK /\ BudgetOK
  BY TypeParts
<1>2. /\ tasks' \in [Ids -> TaskRow]
      /\ \A u \in Ids :
           /\ tasks'[u].goal = tasks[u].goal
           /\ tasks'[u].status # tasks[u].status =>
                goals[tasks[u].goal].status = "released"
  <2>1. CASE tasks' = SetStatus({t}, "ready")
               /\ goals[tasks[t].goal].status = "released"
    BY <1>1, <2>1, SetStatusType DEF TaskStatus
  <2>2. CASE tasks' = tasks
    BY <1>1, <2>2, RowsTyped
  <2>. QED
    BY <2>1, <2>2 DEF Unlink
<1>3. \A u \in Ids :
        tasks'[u].status # tasks[u].status => tasks[u].goal \in approved
  BY <1>1, <1>2, RowsTyped DEF ReleasedApproved
<1>4. /\ deps' \subseteq Ids \X Ids
      /\ UNCHANGED <<goals, history>>
  BY <1>1 DEF Unlink, TablesOK
<1>5. Effect /\ Ids' = Ids
  BY <1>1, <1>2, <1>3, <1>4, InPlace DEF TablesOK, history
<1>6. CallsOK'
  BY <1>1, <1>5, CallGrows DEF CallsOK, Unlink
<1>7. BudgetOK'
  BY <1>1, GoalsAssumption DEF BudgetOK, Unlink
<1>. QED
  BY <1>5, <1>6, <1>7, TypePartsAfter DEF Effect

LEMMA OwnerActionKeeps ==
  ASSUME TypeOK, ReleasedApproved, OwnerAction
  PROVE  TypeOK' /\ Effect
<1>0. TablesOK
  BY TypeParts
<1>1. ASSUME NEW t \in Ids, Release(t)
      PROVE  TypeOK' /\ Effect
  <2>1. /\ SetStatus({t}, "ready") \in [Ids -> TaskRow]
        /\ \A u \in Ids :
             /\ SetStatus({t}, "ready")[u].goal = tasks[u].goal
             /\ u # t => SetStatus({t}, "ready")[u].status = tasks[u].status
    BY <1>0, SetStatusType DEF TaskStatus
  <2>. QED
    BY <1>1, <2>1, {t} \in SUBSET Ids, OwnerStepKeeps DEF Release, OwnerStep
<1>2. ASSUME NEW t \in Ids, MarkManual(t)
      PROVE  TypeOK' /\ Effect
  <2>1. /\ SetStatus({t}, "manual") \in [Ids -> TaskRow]
        /\ \A u \in Ids :
             /\ SetStatus({t}, "manual")[u].goal = tasks[u].goal
             /\ SetStatus({t}, "manual")[u].status \in Queued =>
                  tasks[u].status \in Queued
    BY <1>0, SetStatusType DEF TaskStatus, Queued
  <2>. QED
    BY <1>2, <2>1, {} \in SUBSET Ids, OwnerStepKeeps DEF MarkManual, OwnerStep
<1>3. ASSUME NEW t \in Ids, ClearGate(t)
      PROVE  TypeOK' /\ Effect
  <2>. DEFINE s == IF /\ tasks[t].status = "waiting_approval" /\ DepsDone(t)
                      /\ goals[tasks[t].goal].status = "released"
                     THEN "ready" ELSE tasks[t].status
              T == [tasks EXCEPT ![t].gate = FALSE, ![t].status = s]
  <2>1. OwnerStep(T, {})
    BY <1>0, <1>3, RowsTyped DEF ClearGate, TaskRow
  <2>2. [tasks[t] EXCEPT !.gate = FALSE, !.status = s] \in TaskRow
    BY <1>0, RowsTyped DEF TaskRow, TaskStatus
  <2>3. /\ T \in [Ids -> TaskRow]
        /\ \A u \in Ids :
             /\ T[u].goal = tasks[u].goal
             /\ T[u].status # tasks[u].status =>
                  goals[tasks[u].goal].status = "released"
    BY <1>0, <2>2, RowsTyped DEF TaskRow
  <2>4. \A u \in Ids :
          T[u].status # tasks[u].status => tasks[u].goal \in approved
    BY <1>0, <2>3, RowsTyped DEF ReleasedApproved
  <2>. QED
    BY <2>1, <2>3, <2>4, {} \in SUBSET Ids, OwnerStepKeeps DEF OwnerStep
<1>4. ASSUME NEW t \in Ids, Feedback(t)
      PROVE  TypeOK' /\ Effect
  <2>. DEFINE demoted == {u \in Dependents(t) \ {t} :
                tasks[t].status = "done" /\ tasks[u].status = "ready"}
              T == [u \in Ids |->
                CASE u = t -> [tasks[u] EXCEPT !.status = "rework"]
                  [] u \in demoted ->
                       [tasks[u] EXCEPT !.status = "waiting_approval"]
                  [] OTHER -> tasks[u]]
  <2>1. OwnerStep(T, {t})
    BY <1>4 DEF Feedback
  <2>2. \A u \in Ids :
          /\ tasks[u] \in TaskRow
          /\ [tasks[u] EXCEPT !.status = "rework"] \in TaskRow
          /\ [tasks[u] EXCEPT !.status = "waiting_approval"] \in TaskRow
    BY <1>0, RowsTyped DEF TaskRow, TaskStatus
  <2>3. \A u \in Ids :
          /\ T[u] \in TaskRow /\ T[u].goal = tasks[u].goal
          /\ u # t /\ T[u].status \in Queued => tasks[u].status \in Queued
    BY <2>2 DEF TaskRow, Queued
  <2>. HIDE DEF T
  <2>4. T \in [Ids -> TaskRow]
    BY <2>3 DEF T
  <2>. QED
    BY <2>1, <2>3, <2>4, {t} \in SUBSET Ids, OwnerStepKeeps DEF OwnerStep
<1>. QED
  BY <1>1, <1>2, <1>3, <1>4, UnlinkKeeps DEF OwnerAction

LEMMA WorkKeeps ==
  ASSUME TypeOK, ReleasedApproved, Work
  PROVE  TypeOK' /\ Effect
<1>0. TablesOK /\ CallsOK /\ BudgetOK
  BY TypeParts
<1>1. CASE Promote
  <2>1. Effect /\ Ids' = Ids
    BY <1>1, ReadyEffect DEF Promote, history
  <2>. QED
    BY <1>0, <1>1, <2>1, CallGrows, TypePartsAfter
       DEF Effect, Promote, CallsOK, BudgetOK
<1>2. ASSUME NEW t \in Ids, Claim(t)
      PROVE  TypeOK' /\ Effect
  <2>1. [tasks[t] EXCEPT !.status = "running", !.live = @ + 1] \in TaskRow
    <3>1. tasks[t] \in TaskRow
      BY <1>0, RowsTyped
    <3>2. tasks[t].live + 1 \in Nat
      BY <3>1 DEF TaskRow
    <3>. QED
      BY <3>1, <3>2, Zenon DEF TaskRow, TaskStatus
  <2>2. /\ tasks' \in [Ids -> TaskRow]
        /\ \A u \in Ids :
             /\ tasks'[u].goal = tasks[u].goal
             /\ tasks'[u].status \in Queued => tasks[u].status \in Queued
    BY <1>0, <1>2, <2>1, RowsTyped DEF Claim, TaskRow, Queued
  <2>3. Effect /\ Ids' = Ids
    BY <1>0, <1>2, <2>2, TasksOnly DEF Claim, TablesOK, history
  <2>4. CallsOK'
    BY <1>0, <1>2, <2>3, CallGrows DEF CallsOK, Claim
  <2>5. BudgetOK'
    BY <1>0, <1>2, GoalsAssumption DEF BudgetOK, Claim
  <2>. QED
    BY <2>3, <2>4, <2>5, TypePartsAfter DEF Effect
<1>3. ASSUME NEW t \in Ids, NEW report \in {"done", "manual", "blocked", "failed"},
             Complete(t, report)
      PROVE  TypeOK' /\ Effect
  <2>. DEFINE status == IF report = "done" /\ tasks[t].gate
                          THEN "manual" ELSE report
              row == [tasks[t] EXCEPT !.status = status, !.live = @ - 1,
                        !.gate = tasks[t].gate \/ report = "manual"]
  <2>1. /\ tasks[t].live > 0 /\ tasks' = [tasks EXCEPT ![t] = row]
        /\ reopened' = reopened \cup Reopened
        /\ UNCHANGED <<goals, deps, call, approved, pushed, requests, claims,
                       crashes>>
    BY <1>3 DEF Complete
  <2>2. row \in TaskRow
    <3>1. tasks[t] \in TaskRow
      BY <1>0, RowsTyped
    <3>2. tasks[t].live - 1 \in Nat /\ status \in TaskStatus
      BY <2>1, <3>1 DEF TaskRow, TaskStatus
    <3>3. (tasks[t].gate \/ report = "manual") \in BOOLEAN
      OBVIOUS
    <3>. HIDE DEF status
    <3>. QED
      BY <3>1, <3>2, <3>3, Zenon DEF TaskRow
  <2>3. /\ tasks' \in [Ids -> TaskRow]
        /\ \A u \in Ids :
             /\ tasks'[u].goal = tasks[u].goal
             /\ tasks'[u].status \in Queued => tasks[u].status \in Queued
    BY <1>0, <2>1, <2>2, RowsTyped DEF TaskRow, Queued
  <2>4. Reopened \subseteq Ids
    BY DEF Reopened
  <2>5. Effect /\ Ids' = Ids
    BY <1>0, <2>1, <2>3, <2>4, TasksOnly DEF TablesOK
  <2>6. CallsOK' /\ BudgetOK'
    BY <1>0, <2>1, <2>5, CallGrows DEF CallsOK, BudgetOK
  <2>. QED
    BY <2>5, <2>6, TypePartsAfter DEF Effect
<1>. QED
  BY <1>1, <1>2, <1>3 DEF Work

-----------------------------------------------------------------------------
(* The invariant *)

LEMMA InitHolds == Init => IInv
<1>. SUFFICES ASSUME Init PROVE IInv
  OBVIOUS
<1>1. tasks = <<>> /\ Ids = {}
  BY DEF Init, Ids
<1>2. TablesOK
  BY <1>1 DEF Init, TablesOK, GoalRow, GoalStatus
<1>3. CallsOK /\ BudgetOK
  BY CallMembers, GoalsAssumption DEF Init, CallsOK, BudgetOK
<1>4. Safe
  BY <1>1 DEF Init, Safe, ReleasedApproved, OnlyApprovedRuns, NoOrphanTask
<1>. QED
  BY <1>2, <1>3, <1>4, TypeParts DEF IInv

LEMMA NextKeeps == IInv /\ [Next]_vars => IInv'
<1>. SUFFICES ASSUME IInv, [Next]_vars PROVE IInv'
  OBVIOUS
<1>1. TypeOK /\ ReleasedApproved
  BY DEF IInv, Safe
<1>2. CASE Next
  <2>1. TypeOK' /\ Effect
    BY <1>1, <1>2, NewCallKeeps, CallStepKeeps, CallCrashKeeps,
       OwnerActionKeeps, WorkKeeps DEF Next
  <2>. QED
    BY <2>1, EffectIsSafe DEF IInv
<1>3. CASE UNCHANGED vars
  BY <1>3 DEF vars, history, IInv, TypeOK, Safe, ReleasedApproved,
     OnlyApprovedRuns, NoOrphanTask, Ids, Call, CreateCall, InsertCall,
     LinkCall, SetCall, WriteCall, ReleaseCall, CloseCall, DraftCall
<1>. QED
  BY <1>2, <1>3

\* The inductive invariant: types, and what Safe says of goals and tasks.
THEOREM GoalsInvariant == Spec => []IInv
<1>. QED
  BY InitHolds, NextKeeps, PTL DEF Spec

\* Every row and every call in progress has its type at all times.
THEOREM GoalsTypeCorrect == Spec => []TypeOK
<1>1. IInv => TypeOK
  BY DEF IInv
<1>. QED
  BY <1>1, GoalsInvariant, PTL

\* However calls, crashes, ticks and completions overlap, a task is put in the
\* queue only under a goal that was released, or by the owner.
THEOREM ReleaseIsTheGate == Spec => []OnlyApprovedRuns
<1>1. IInv => OnlyApprovedRuns
  BY DEF IInv, Safe
<1>. QED
  BY <1>1, GoalsInvariant, PTL

\* However a creation and a deletion overlap, no task has lost its goal.
THEOREM NoTaskIsOrphan == Spec => []NoOrphanTask
<1>1. IInv => NoOrphanTask
  BY DEF IInv, Safe
<1>. QED
  BY <1>1, GoalsInvariant, PTL

-----------------------------------------------------------------------------
(* Calls that do not overlap *)

OneCaller == \A c, d \in Clients : c = d

\* What a call read of its goal is still so when it writes.
FreshCall(k) ==
  /\ k.op = "insert" => goals[k.goal].status = k.seen
  /\ k.op = "write" =>
       goals[k.goal].status = k.seen /\ <<k.seen, k.to>> \in GoalEdges
  /\ k.op = "grant" => goals[k.goal].status = "planned"
  /\ k.op = "delete" => goals[k.goal].status = "draft"

Fresh == \A c \in Clients : FreshCall(call[c])

\* A task is in rework only because its owner sent it back.
ReworkPushed == \A t \in Ids : tasks[t].status = "rework" => t \in pushed

LifeInv == IInv /\ Fresh /\ ReworkPushed

OfferStatus == {"waiting_approval", "ready", "running"}

StageStep ==
  \/ \A g \in Goals : goals'[g].status = goals[g].status
  \/ \E g \in Goals, to \in GoalStatus \cup {"gone"} :
       /\ <<goals[g].status, to>> \in Lifecycle!Edges
       /\ \A h \in Goals :
            goals'[h].status = IF h = g THEN to ELSE goals[h].status

OfferStep ==
  \A t \in Ids' :
    /\ tasks'[t].status \in OfferStatus =>
         \/ t \in pushed'
         \/ goals'[tasks'[t].goal].status = "released"
         \/ t \in Ids /\ tasks[t].status \in OfferStatus
    /\ tasks'[t].status = "rework" =>
         \/ t \in pushed'
         \/ t \in Ids /\ tasks[t].status = "rework"

\* The two step conditions are a step of the abstract specification.
LEMMA LifeStep ==
  ASSUME TypeOK, TypeOK', Effect, ReworkPushed, StageStep, OfferStep
  PROVE  Lifecycle!Next /\ ReworkPushed'
<1>1. TablesOK /\ TablesOK'
  BY TypeParts DEF Effect
<1>. DEFINE stage == [g \in Goals |-> goals[g].status]
<1>2. Lifecycle!Advance
  <2>1. CASE \A g \in Goals : goals'[g].status = goals[g].status
    BY <2>1 DEF Lifecycle!Advance
  <2>2. ASSUME NEW g \in Goals, NEW to \in GoalStatus \cup {"gone"},
               <<goals[g].status, to>> \in Lifecycle!Edges,
               \A h \in Goals :
                 goals'[h].status = IF h = g THEN to ELSE goals[h].status
        PROVE  Lifecycle!Advance
    <3>1. stage' = [stage EXCEPT ![g] = to]
      BY <2>2
    <3>2. <<stage[g], to>> \in Lifecycle!Edges
      BY <2>2
    <3>3. to \in {"draft", "planning", "planned", "released", "gone"}
      BY <2>2 DEF GoalStatus
    <3>. QED
      BY <3>1, <3>2, <3>3 DEF Lifecycle!Advance
  <2>. QED
    BY <2>1, <2>2 DEF StageStep
<1>3. Lifecycle!Offer
  <2>. SUFFICES ASSUME NEW x \in Offered', x \notin Offered
                PROVE  stage'[x[2]] = "released"
    BY DEF Lifecycle!Offer
  <2>1. PICK t \in Ids' : /\ t \notin pushed' /\ tasks'[t].status \in OfferStatus
                          /\ x = <<t, tasks'[t].goal>>
    BY DEF Offered, OfferStatus
  <2>2. tasks'[t].goal \in Goals
    BY <1>1, RowsTypedAfter
  <2>3. ~ (t \in Ids /\ tasks[t].status \in OfferStatus)
    BY <2>1 DEF Effect, Offered, OfferStatus
  <2>4. goals'[tasks'[t].goal].status = "released"
    BY <2>1, <2>3 DEF OfferStep
  <2>. QED
    BY <2>1, <2>2, <2>4
<1>4. ReworkPushed'
  BY DEF ReworkPushed, OfferStep, Effect
<1>. QED
  BY <1>2, <1>3, <1>4 DEF Lifecycle!Next

\* A step that leaves goals and tasks alone.
LEMMA QuietStep ==
  ASSUME UNCHANGED <<goals, tasks, pushed>>
  PROVE  StageStep /\ OfferStep
BY DEF StageStep, OfferStep, Ids

\* A step that leaves goals alone and offers nothing.
LEMMA RowStep ==
  ASSUME UNCHANGED goals, Ids' = Ids,
         \A t \in Ids :
           /\ tasks'[t].status \in OfferStatus =>
                t \in pushed' \/ tasks[t].status \in OfferStatus
           /\ tasks'[t].status = "rework" =>
                t \in pushed' \/ tasks[t].status = "rework"
  PROVE  StageStep /\ OfferStep
BY DEF StageStep, OfferStep

LEMMA ReadyStep ==
  ASSUME TablesOK, NEW T, tasks' = Ready(T), UNCHANGED goals
  PROVE  StageStep /\ OfferStep
<1>1. /\ tasks' \in [Ids -> TaskRow]
      /\ \A t \in Ids :
           tasks'[t].status # tasks[t].status =>
             tasks[t].status = "waiting_approval" /\ tasks'[t].status = "ready"
  BY SetStatusType DEF Ready, TaskStatus, Promotable
<1>2. Ids' = Ids
  BY <1>1, Rewritten
<1>. QED
  BY <1>1, <1>2, RowStep DEF OfferStatus

\* The two step conditions, and what calls have read is still so.
Kept == StageStep /\ OfferStep /\ Fresh'

LEMMA Harmless ==
  ASSUME NEW k, k.op \notin {"insert", "write", "grant", "delete"}
  PROVE  FreshCall(k)'
BY DEF FreshCall

\* The only call in progress goes on.
LEMMA CallGoesOn ==
  ASSUME TypeOK, OneCaller, NEW c \in Clients, NEW k, FreshCall(k)',
         call' = [call EXCEPT ![c] = k]
  PROVE  Fresh'
<1>1. call'[c] = k
  BY DEF TypeOK
<1>2. \A d \in Clients : d = c
  BY DEF OneCaller
<1>. QED
  BY <1>1, <1>2 DEF Fresh

\* Goals and calls stay as they are.
LEMMA StillFresh ==
  ASSUME Fresh, UNCHANGED <<goals, call>>
  PROVE  Fresh'
BY DEF Fresh, FreshCall

-----------------------------------------------------------------------------
(* Calls *)

LEMMA AskKept ==
  ASSUME TypeOK, OneCaller, NEW c \in Clients, NEW k, FreshCall(k)', Ask(c, k)
  PROVE  Kept
BY QuietStep, CallGoesOn DEF Ask, history, Kept

LEMMA LookedKept ==
  ASSUME TypeOK, OneCaller, NEW c \in Clients, NEW k, FreshCall(k)', Looked(c, k)
  PROVE  Kept
BY QuietStep, CallGoesOn DEF Looked, Then, Onward, Kept

LEMMA NewCallKept ==
  ASSUME TypeOK, OneCaller, NEW c \in Clients, NewCall(c)
  PROVE  Kept
<1>1. ASSUME NEW g \in Goals, AskPlan(c, g)
      PROVE  Kept
  BY <1>1, AskKept, Harmless DEF AskPlan, Creating, SettingTo
<1>2. ASSUME NEW g \in Goals, AskRelease(c, g)
      PROVE  Kept
  BY <1>2, AskKept, Harmless DEF AskRelease
<1>3. ASSUME NEW g \in Goals, AskEdit(c, g)
      PROVE  Kept
  BY <1>3, AskKept, Harmless DEF AskEdit
<1>4. ASSUME NEW g \in Goals, AskDelete(c, g)
      PROVE  Kept
  <2>1. FreshCall([op |-> "delete", goal |-> g])'
    BY <1>4 DEF AskDelete, Ask, FreshCall
  <2>. QED
    BY <1>4, <2>1, AskKept DEF AskDelete
<1>5. ASSUME NEW g \in Goals, NEW to \in {"planned", "draft"}, AskStatus(c, g, to)
      PROVE  Kept
  BY <1>5, AskKept, Harmless DEF AskStatus, SettingTo
<1>6. ASSUME NEW g \in Goals, NEW kind \in Kinds, NEW L \in SUBSET Ids,
             AskCreate(c, g, kind, L)
      PROVE  Kept
  BY <1>6, AskKept, Harmless DEF AskCreate, Creating
<1>7. ASSUME NEW t \in Ids, AskApprove(c, t)
      PROVE  Kept
  BY <1>7, AskKept, Harmless DEF AskApprove
<1>8. ASSUME NEW t \in Ids, NEW p \in Ids, AskLink(c, t, p)
      PROVE  Kept
  BY <1>8, AskKept, Harmless DEF AskLink, Linking
<1>9. ASSUME NEW t \in Ids, AskClose(c, t)
      PROVE  Kept
  <2>1. TablesOK
    BY TypeParts
  <2>2. StageStep /\ OfferStep
    <3>1. /\ SetStatus({t}, "done") \in [Ids -> TaskRow]
          /\ \A u \in Ids :
               SetStatus({t}, "done")[u].status \in OfferStatus \cup {"rework"} =>
                 SetStatus({t}, "done")[u].status = tasks[u].status
      BY <2>1, SetStatusType DEF TaskStatus, OfferStatus
    <3>2. tasks' = SetStatus({t}, "done") /\ UNCHANGED goals
      BY <1>9 DEF AskClose
    <3>3. Ids' = Ids
      BY <2>1, <3>1, <3>2, Rewritten
    <3>. QED
      BY <3>1, <3>2, <3>3, RowStep
  <2>3. Fresh'
    BY <1>9, Harmless, CallGoesOn DEF AskClose
  <2>. QED
    BY <2>2, <2>3 DEF Kept
<1>. QED
  BY <1>1, <1>2, <1>3, <1>4, <1>5, <1>6, <1>7, <1>8, <1>9 DEF NewCall

LEMMA ReadsKept ==
  ASSUME TypeOK, OneCaller, NEW c \in Clients,
         CreateRead(c) \/ LinkDep(c) \/ StatusRead(c) \/ ReleaseRead(c)
  PROVE  Kept
<1>1. CASE LinkDep(c)
  <2>1. PICK p \in call[c].links :
          Then(c, Linking(call[c].task, call[c].links \ {p}))
    BY <1>1 DEF LinkDep
  <2>2. PICK next : next = Linking(call[c].task, call[c].links \ {p})
    OBVIOUS
  <2>3. FreshCall(next)'
    BY <2>2, Harmless DEF Linking, Idle
  <2>4. UNCHANGED <<goals, tasks, pushed>>
    BY <1>1, <2>1 DEF LinkDep, Then, Onward
  <2>5. Fresh'
    BY <2>1, <2>2, <2>3, CallGoesOn DEF Then, Onward
  <2>. QED
    BY <2>4, <2>5, QuietStep DEF Kept
<1>2. CASE ReleaseRead(c)
  <2>. DEFINE k == call[c]
  <2>0. PICK granting :
          granting = [op |-> "grant", goal |-> k.goal, task |-> k.task]
    OBVIOUS
  <2>4. PICK closing : closing = Closing(k.task)
    OBVIOUS
  <2>1. \/ /\ goals[k.goal].status = "planned"
           /\ Looked(c, granting)
        \/ Looked(c, closing) \/ Looked(c, Idle)
    BY <1>2, <2>0, <2>4 DEF ReleaseRead, Releasable
  <2>2. FreshCall(closing)' /\ FreshCall(Idle)'
    BY <2>4, Harmless DEF Closing, Idle
  <2>3. CASE goals[k.goal].status = "planned" /\ Looked(c, granting)
    <3>1. FreshCall(granting)'
      BY <2>0, <2>3 DEF FreshCall, Looked
    <3>. QED
      BY <2>3, <3>1, LookedKept
  <2>. QED
    BY <2>1, <2>2, <2>3, LookedKept
<1>3. CASE StatusRead(c)
  <2>. DEFINE k == call[c]
              old == goals[k.goal].status
  <2>0. PICK next : next = [op |-> "write", goal |-> k.goal, to |-> k.to,
                            seen |-> old]
    OBVIOUS
  <2>1. \/ <<old, k.to>> \in GoalEdges /\ Looked(c, next)
        \/ Looked(c, Idle)
    BY <1>3, <2>0 DEF StatusRead
  <2>2. FreshCall(Idle)'
    BY Harmless DEF Idle
  <2>3. CASE <<old, k.to>> \in GoalEdges /\ Looked(c, next)
    <3>1. FreshCall(next)'
      BY <2>0, <2>3 DEF FreshCall, Looked
    <3>. QED
      BY <2>3, <3>1, LookedKept
  <2>. QED
    BY <2>1, <2>2, <2>3, LookedKept
<1>4. CASE CreateRead(c)
  <2>. DEFINE k == call[c]
  <2>0. PICK next :
          next = [op |-> "insert", goal |-> k.goal, kind |-> k.kind,
                  links |-> k.links, text |-> k.text, to |-> k.to,
                  seen |-> goals[k.goal].status]
    OBVIOUS
  <2>1. Looked(c, next) \/ Looked(c, Idle)
    BY <1>4, <2>0 DEF CreateRead
  <2>2. FreshCall(Idle)'
    BY Harmless DEF Idle
  <2>3. CASE Looked(c, next)
    <3>1. FreshCall(next)'
      BY <2>0, <2>3 DEF FreshCall, Looked
    <3>. QED
      BY <2>3, <3>1, LookedKept
  <2>. QED
    BY <2>1, <2>2, <2>3, LookedKept
<1>. QED
  BY <1>1, <1>2, <1>3, <1>4

\* The new row waits only if its goal is released now.
LEMMA CreateInsertKept ==
  ASSUME TypeOK, OneCaller, Fresh, NEW c \in Clients, CreateInsert(c)
  PROVE  Kept
<1>. DEFINE k == call[c]
            row == NewTask(k.goal, k.kind = "plan", k.kind \in {"gated", "pair"},
                           InitStatus(k.seen), k.text)
<1>0. TablesOK /\ k \in InsertCall
  BY TypeParts, CallKinds DEF CreateInsert
<1>1. CASE goals[k.goal].status = "gone"
  BY <1>1, LookedKept, Harmless DEF CreateInsert, Idle
<1>2. CASE goals[k.goal].status # "gone"
  <2>1. PICK next \in AfterInsert(k, Len(tasks) + 1) : Then(c, next)
    BY <1>2 DEF CreateInsert
  <2>2. tasks' = Append(tasks, row) /\ UNCHANGED goals
    BY <1>2 DEF CreateInsert
  <2>3. row \in TaskRow /\ row.goal = k.goal /\ row.status = InitStatus(k.seen)
    BY <1>0 DEF NewTask, InitStatus, TaskRow, InsertCall, TaskStatus
  <2>4. /\ \A t \in 1..Len(tasks) : tasks'[t] = tasks[t]
        /\ tasks'[Len(tasks) + 1] = row
        /\ Ids = 1..Len(tasks) /\ Ids' = 1..(Len(tasks) + 1)
        /\ Len(tasks) \in Nat
    BY <1>0, <2>2, <2>3 DEF TablesOK, Ids
  <2>5. goals[k.goal].status = k.seen
    BY DEF Fresh, FreshCall, CreateInsert
  <2>6. StageStep
    BY <2>2 DEF StageStep
  <2>7. OfferStep
    <3>1. \A t \in Ids' : t \in Ids \/ t = Len(tasks) + 1
      BY <2>4
    <3>. QED
      BY <2>2, <2>3, <2>4, <2>5, <3>1 DEF OfferStep, OfferStatus, InitStatus
  <2>8. FreshCall(next)'
    <3>1. next.op \in {"set", "create", "link", "idle"}
      BY DEF AfterInsert, SettingTo, Creating, Linking, Idle
    <3>. QED
      BY <3>1, Harmless
  <2>9. Fresh'
    BY <2>1, <2>8, CallGoesOn DEF Then, Onward
  <2>. QED
    BY <2>6, <2>7, <2>9 DEF Kept
<1>. QED
  BY <1>1, <1>2

\* The goal takes the edge that was looked up.
LEMMA StatusWriteKept ==
  ASSUME TypeOK, OneCaller, Fresh, NEW c \in Clients, StatusWrite(c)
  PROVE  Kept
<1>. DEFINE k == call[c]
<1>1. TablesOK /\ k \in WriteCall
  BY TypeParts, CallKinds DEF StatusWrite
<1>2. goals[k.goal].status = k.seen /\ <<k.seen, k.to>> \in GoalEdges
  BY DEF Fresh, FreshCall, StatusWrite
<1>3. k.goal \in Goals /\ k.seen \in GoalStatus /\ k.to \in GoalStatus
  BY <1>1 DEF WriteCall
<1>4. goals' = [goals EXCEPT ![k.goal].status = k.to]
  BY <1>2, <1>3 DEF StatusWrite, GoalStatus
<1>5. StageStep
  <2>1. \A h \in Goals :
          goals'[h].status = IF h = k.goal THEN k.to ELSE goals[h].status
    BY <1>1, <1>3, <1>4 DEF TablesOK, GoalRow
  <2>2. <<goals[k.goal].status, k.to>> \in Lifecycle!Edges
    BY <1>2 DEF GoalEdges, Lifecycle!Edges
  <2>. QED
    BY <1>3, <2>1, <2>2 DEF StageStep
<1>6. OfferStep
  <2>1. /\ tasks' \in [Ids -> TaskRow]
        /\ \A t \in Ids :
             tasks'[t].status \in OfferStatus \cup {"rework"} =>
               tasks'[t].status = tasks[t].status
    BY <1>1, SetStatusType DEF StatusWrite, TaskStatus, OfferStatus
  <2>2. Ids' = Ids
    BY <1>1, <2>1, Rewritten
  <2>. QED
    BY <2>1, <2>2 DEF OfferStep
<1>7. Fresh'
  BY Harmless, CallGoesOn DEF StatusWrite, Then, Onward, Idle
<1>. QED
  BY <1>5, <1>6, <1>7 DEF Kept

LEMMA DraftWriteKept ==
  ASSUME TypeOK, OneCaller, Fresh, NEW c \in Clients,
         EditWrite(c) \/ DeleteWrite(c)
  PROVE  Kept
<1>. DEFINE g == call[c].goal
<1>1. TablesOK /\ call[c] \in DraftCall
  BY TypeParts, CallKinds DEF EditWrite, DeleteWrite
<1>2. g \in Goals
  BY <1>1 DEF DraftCall
<1>3. OfferStep
  BY DEF OfferStep, Ids, EditWrite, DeleteWrite
<1>4. Fresh'
  BY Harmless, CallGoesOn DEF EditWrite, DeleteWrite, Then, Onward, Idle
<1>5. StageStep
  <2>1. CASE \A h \in Goals : goals'[h].status = goals[h].status
    BY <2>1 DEF StageStep
  <2>2. CASE EditWrite(c)
    BY <1>1, <1>2, <2>1, <2>2 DEF EditWrite, TablesOK, GoalRow
  <2>3. CASE DeleteWrite(c) /\ goals' = [goals EXCEPT ![g].status = "gone"]
    <3>1. goals[g].status = "draft"
      BY <2>3 DEF DeleteWrite, Fresh, FreshCall
    <3>2. \A h \in Goals :
            goals'[h].status = IF h = g THEN "gone" ELSE goals[h].status
      BY <1>1, <1>2, <2>3 DEF TablesOK, GoalRow
    <3>3. <<goals[g].status, "gone">> \in Lifecycle!Edges
      BY <3>1 DEF Lifecycle!Edges
    <3>4. PICK x \in Goals : x = g
      BY <1>2
    <3>5. /\ <<goals[x].status, "gone">> \in Lifecycle!Edges
          /\ \A h \in Goals : goals'[h].status = IF h = x THEN "gone" ELSE goals[h].status
      BY <3>2, <3>3, <3>4
    <3>. QED
      BY ONLY <3>5 DEF StageStep
  <2>. QED
    BY <2>1, <2>2, <2>3 DEF DeleteWrite
<1>. QED
  BY <1>3, <1>4, <1>5 DEF Kept

\* A planned goal is released; what it offers is its own.
LEMMA ReleaseGrantKept ==
  ASSUME TypeOK, OneCaller, Fresh, NEW c \in Clients, ReleaseGrant(c)
  PROVE  Kept
<1>. DEFINE k == call[c]
            parked == {t \in Children(k.goal) :
                         tasks[t].status \in {"planned", "waiting_approval"}}
            after(t) == IF ~ tasks[t].gate /\ DepsDone(t)
                          THEN "ready" ELSE "waiting_approval"
<1>1. TablesOK /\ k.goal \in Goals
  BY TypeParts, CallKinds DEF ReleaseGrant, ReleaseCall
<1>2. goals[k.goal].status = "planned"
  BY DEF Fresh, FreshCall, ReleaseGrant
<1>3. /\ goals' = [goals EXCEPT ![k.goal].status = "released"]
      /\ tasks' = [t \in Ids |->
           IF t \in parked THEN [tasks[t] EXCEPT !.status = after(t)]
           ELSE tasks[t]]
  BY <1>2 DEF ReleaseGrant
<1>4. \A h \in Goals :
        goals'[h].status = IF h = k.goal THEN "released" ELSE goals[h].status
  BY <1>1, <1>3 DEF TablesOK, GoalRow
<1>5. StageStep
  <2>1. <<goals[k.goal].status, "released">> \in Lifecycle!Edges
    BY <1>2 DEF Lifecycle!Edges
  <2>. QED
    BY <1>1, <1>4, <2>1 DEF StageStep, GoalStatus
<1>6. OfferStep
  <2>1. \A t \in Ids :
          /\ tasks[t] \in TaskRow
          /\ [tasks[t] EXCEPT !.status = after(t)] \in TaskRow
    BY <1>1, RowsTyped DEF TaskRow, TaskStatus
  <2>2. /\ tasks' \in [Ids -> TaskRow]
        /\ \A t \in Ids :
             \/ tasks'[t] = tasks[t]
             \/ /\ tasks'[t].goal = k.goal
                /\ tasks'[t].status \in {"ready", "waiting_approval"}
    BY <1>3, <2>1 DEF TaskRow, Children
  <2>3. Ids' = Ids
    BY <1>1, <2>2, Rewritten
  <2>. QED
    BY <1>1, <1>4, <2>2, <2>3 DEF OfferStep
<1>7. Fresh'
  <2>1. PICK closing : closing = Closing(k.task)
    OBVIOUS
  <2>2. FreshCall(closing)'
    BY <2>1, Harmless DEF Closing, Idle
  <2>. QED
    BY <2>1, <2>2, CallGoesOn DEF ReleaseGrant, Onward
<1>. QED
  BY <1>5, <1>6, <1>7 DEF Kept

LEMMA ClosingKept ==
  ASSUME TypeOK, OneCaller, Fresh, NEW c \in Clients,
         ApproveClose(c) \/ PromoteDependents(c)
  PROVE  Kept
<1>1. TablesOK
  BY TypeParts
<1>2. CASE PromoteDependents(c)
  <2>1. Fresh'
    BY <1>2, Harmless, CallGoesOn DEF PromoteDependents, Then, Onward, Idle
  <2>. QED
    BY <1>1, <1>2, <2>1, ReadyStep DEF PromoteDependents, Kept
<1>3. CASE ApproveClose(c)
  <2>. DEFINE t == call[c].task
  <2>1. t \in Ids
    BY <1>3, CallKinds, TypeParts DEF ApproveClose, CloseCall
  <2>2. CASE tasks[t].status # "manual"
    BY <1>3, <2>2, LookedKept, Harmless DEF ApproveClose, Idle
  <2>3. CASE tasks[t].status = "manual"
    <3>1. PICK next : next = [op |-> "promote", task |-> t]
      OBVIOUS
    <3>2. /\ tasks' = [tasks EXCEPT ![t].status = "done", ![t].gate = FALSE]
          /\ UNCHANGED goals /\ call' = [call EXCEPT ![c] = next]
      BY <1>3, <2>3, <3>1 DEF ApproveClose, Then, Onward
    <3>3. Fresh'
      BY <3>1, <3>2, Harmless, CallGoesOn
    <3>4. [tasks[t] EXCEPT !.status = "done", !.gate = FALSE] \in TaskRow
      BY <1>1, <2>1, RowsTyped DEF TaskRow, TaskStatus
    <3>5. /\ tasks' \in [Ids -> TaskRow]
          /\ \A u \in Ids :
               tasks'[u].status # tasks[u].status => tasks'[u].status = "done"
      BY <1>1, <2>1, <3>2, <3>4, RowsTyped DEF TaskRow
    <3>6. Ids' = Ids
      BY <1>1, <3>5, Rewritten
    <3>. QED
      BY <3>2, <3>3, <3>5, <3>6, RowStep DEF Kept, OfferStatus
  <2>. QED
    BY <2>2, <2>3
<1>. QED
  BY <1>2, <1>3

LEMMA CallStepKept ==
  ASSUME TypeOK, OneCaller, Fresh, NEW c \in Clients, CallStep(c) \/ CallCrash(c)
  PROVE  Kept
<1>1. CASE CallCrash(c)
  BY <1>1, QuietStep, CallGoesOn, Harmless DEF CallCrash, history, Kept, Idle
<1>. QED
  BY <1>1, ReadsKept, CreateInsertKept, StatusWriteKept, DraftWriteKept,
     ReleaseGrantKept, ClosingKept DEF CallStep

-----------------------------------------------------------------------------
(* The owner, the dispatcher and the wrappers *)

LEMMA OwnerKept ==
  ASSUME TypeOK, Fresh, OwnerAction
  PROVE  Kept
<1>0. TablesOK
  BY TypeParts
<1>1. UNCHANGED <<goals, call>>
  BY DEF OwnerAction, Release, MarkManual, ClearGate, Feedback, Unlink, OwnerStep,
         history
<1>2. ASSUME NEW t \in Ids, Release(t) \/ MarkManual(t)
      PROVE  StageStep /\ OfferStep
  <2>1. PICK s \in {"ready", "manual"} :
          /\ tasks' = SetStatus({t}, s)
          /\ s = "ready" => t \in pushed'
    BY <1>2 DEF Release, MarkManual, OwnerStep
  <2>2. /\ tasks' \in [Ids -> TaskRow]
        /\ \A u \in Ids :
             tasks'[u].status = IF u = t THEN s ELSE tasks[u].status
    BY <1>0, <2>1, SetStatusType DEF TaskStatus
  <2>3. Ids' = Ids
    BY <1>0, <2>2, Rewritten
  <2>. QED
    BY <1>1, <2>1, <2>2, <2>3, RowStep DEF OfferStatus
<1>3. ASSUME NEW t \in Ids, ClearGate(t)
      PROVE  StageStep /\ OfferStep
  <2>. DEFINE s == IF /\ tasks[t].status = "waiting_approval" /\ DepsDone(t)
                      /\ goals[tasks[t].goal].status = "released"
                     THEN "ready" ELSE tasks[t].status
  <2>1. tasks' = [tasks EXCEPT ![t].gate = FALSE, ![t].status = s]
    BY <1>0, <1>3, RowsTyped DEF ClearGate, OwnerStep, TaskRow
  <2>2. [tasks[t] EXCEPT !.gate = FALSE, !.status = s] \in TaskRow
    BY <1>0, RowsTyped DEF TaskRow, TaskStatus
  <2>3. /\ tasks' \in [Ids -> TaskRow]
        /\ \A u \in Ids :
             tasks'[u].status # tasks[u].status =>
               tasks[u].status = "waiting_approval" /\ tasks'[u].status = "ready"
    BY <1>0, <2>1, <2>2, RowsTyped DEF TaskRow
  <2>4. Ids' = Ids
    BY <1>0, <2>3, Rewritten
  <2>. QED
    BY <1>1, <2>3, <2>4, RowStep DEF OfferStatus
<1>4. ASSUME NEW t \in Ids, Feedback(t)
      PROVE  StageStep /\ OfferStep
  <2>. DEFINE demoted == {u \in Dependents(t) \ {t} :
                tasks[t].status = "done" /\ tasks[u].status = "ready"}
              T == [u \in Ids |->
                CASE u = t -> [tasks[u] EXCEPT !.status = "rework"]
                  [] u \in demoted ->
                       [tasks[u] EXCEPT !.status = "waiting_approval"]
                  [] OTHER -> tasks[u]]
  <2>1. tasks' = T /\ t \in pushed'
    BY <1>4 DEF Feedback, OwnerStep
  <2>2. \A u \in Ids :
          /\ tasks[u] \in TaskRow
          /\ [tasks[u] EXCEPT !.status = "rework"] \in TaskRow
          /\ [tasks[u] EXCEPT !.status = "waiting_approval"] \in TaskRow
    BY <1>0, RowsTyped DEF TaskRow, TaskStatus
  <2>3. \A u \in Ids :
          /\ T[u] \in TaskRow
          /\ \/ u = t
             \/ T[u].status = tasks[u].status
             \/ T[u].status = "waiting_approval" /\ tasks[u].status = "ready"
    BY <2>2 DEF TaskRow
  <2>. HIDE DEF T
  <2>4. T \in [Ids -> TaskRow]
    BY <2>3 DEF T
  <2>5. Ids' = Ids
    BY <1>0, <2>1, <2>4, Rewritten
  <2>. QED
    BY <1>1, <2>1, <2>3, <2>5, RowStep DEF OfferStatus
<1>5. ASSUME NEW t \in Ids, NEW p \in Ids, Unlink(t, p)
      PROVE  StageStep /\ OfferStep
  <2>1. CASE tasks' = tasks
    BY <1>1, <1>5, <2>1, QuietStep DEF Unlink, history
  <2>2. CASE tasks[t].status = "waiting_approval" /\ tasks' = SetStatus({t}, "ready")
    <3>1. /\ tasks' \in [Ids -> TaskRow]
          /\ \A u \in Ids :
               tasks'[u].status = IF u = t THEN "ready" ELSE tasks[u].status
      BY <1>0, <2>2, SetStatusType DEF TaskStatus
    <3>2. Ids' = Ids
      BY <1>0, <3>1, Rewritten
    <3>. QED
      BY <1>1, <2>2, <3>1, <3>2, RowStep DEF OfferStatus
  <2>. QED
    BY <1>5, <2>1, <2>2 DEF Unlink
<1>. QED
  BY <1>1, <1>2, <1>3, <1>4, <1>5, StillFresh DEF OwnerAction, Kept

LEMMA WorkKept ==
  ASSUME TypeOK, Fresh, ReworkPushed, Work
  PROVE  Kept
<1>0. TablesOK
  BY TypeParts
<1>1. UNCHANGED <<goals, call, pushed>>
  BY DEF Work, Promote, Claim, Complete, history
<1>2. CASE Promote
  BY <1>0, <1>1, <1>2, ReadyStep, StillFresh DEF Promote, Kept
<1>3. ASSUME NEW t \in Ids, Claim(t)
      PROVE  StageStep /\ OfferStep
  <2>0. t \in pushed' \/ tasks[t].status = "ready"
    BY <1>1, <1>3 DEF Claim, ReworkPushed
  <2>1. tasks' = [tasks EXCEPT ![t].status = "running", ![t].live = @ + 1]
    BY <1>3 DEF Claim
  <2>2. \A u \in Ids :
          tasks'[u].status = IF u = t THEN "running" ELSE tasks[u].status
    BY <1>0, <2>1, RowsTyped DEF TaskRow
  <2>3. Ids' = Ids
    BY <1>0, <2>1, RowsTyped DEF Ids
  <2>4. \A u \in Ids :
          /\ tasks'[u].status \in OfferStatus =>
               u \in pushed' \/ tasks[u].status \in OfferStatus
          /\ tasks'[u].status = "rework" =>
               u \in pushed' \/ tasks[u].status = "rework"
    BY <2>0, <2>2 DEF OfferStatus
  <2>. QED
    BY <1>1, <2>3, <2>4, RowStep
<1>4. ASSUME NEW t \in Ids,
             NEW report \in {"done", "manual", "blocked", "failed"},
             Complete(t, report)
      PROVE  StageStep /\ OfferStep
  <2>. DEFINE status == IF report = "done" /\ tasks[t].gate
                          THEN "manual" ELSE report
              row == [tasks[t] EXCEPT !.status = status, !.live = @ - 1,
                        !.gate = tasks[t].gate \/ report = "manual"]
  <2>1. tasks' = [tasks EXCEPT ![t] = row]
    BY <1>4 DEF Complete
  <2>2. row.status = status /\ status \in {"done", "manual", "blocked", "failed"}
    BY <1>0, RowsTyped DEF TaskRow
  <2>. HIDE DEF row, status
  <2>3. /\ Ids' = Ids
        /\ \A u \in Ids : tasks'[u] = IF u = t THEN row ELSE tasks[u]
    BY <1>0, <2>1, RowsTyped DEF Ids
  <2>. QED
    BY <1>1, <2>2, <2>3, RowStep DEF OfferStatus
<1>. QED
  BY <1>1, <1>2, <1>3, <1>4, StillFresh DEF Work, Kept

-----------------------------------------------------------------------------
(* The refinement *)

LEMMA LifeInit ==
  ASSUME Init
  PROVE  LifeInv /\ Lifecycle!Init
<1>1. Ids = {} /\ \A c \in Clients : call[c] = Idle
  BY DEF Init, Ids
<1>2. Fresh /\ ReworkPushed
  BY <1>1 DEF Fresh, FreshCall, Idle, ReworkPushed
<1>3. [g \in Goals |-> goals[g].status] = [g \in Goals |-> "draft"]
  BY DEF Init
<1>4. Offered = {}
  BY <1>1 DEF Offered
<1>. QED
  BY <1>2, <1>3, <1>4, InitHolds DEF LifeInv, Lifecycle!Init

LEMMA LifeNext ==
  ASSUME OneCaller, LifeInv, [Next]_vars
  PROVE  LifeInv' /\ [Lifecycle!Next]_<<[g \in Goals |-> goals[g].status], Offered>>
<1>1. TypeOK /\ ReleasedApproved /\ Fresh /\ ReworkPushed
  BY DEF LifeInv, IInv, Safe
<1>2. IInv' /\ TypeOK'
  BY NextKeeps DEF LifeInv, IInv
<1>3. CASE Next
  <2>1. Effect
    BY <1>1, <1>3, NewCallKeeps, CallStepKeeps, CallCrashKeeps,
       OwnerActionKeeps, WorkKeeps DEF Next
  <2>2. Kept
    BY <1>1, <1>3, NewCallKept, CallStepKept, OwnerKept, WorkKept DEF Next
  <2>. QED
    BY <1>1, <1>2, <2>1, <2>2, LifeStep DEF Kept, LifeInv
<1>4. CASE UNCHANGED vars
  <2>1. UNCHANGED <<goals, tasks, pushed, call>>
    BY <1>4 DEF vars, history
  <2>2. Fresh' /\ ReworkPushed'
    BY <1>1, <2>1, StillFresh DEF ReworkPushed, Ids
  <2>3. UNCHANGED <<[g \in Goals |-> goals[g].status], Offered>>
    BY <2>1 DEF Offered, Ids
  <2>. QED
    BY <1>2, <2>2, <2>3 DEF LifeInv
<1>. QED
  BY <1>3, <1>4

\* With one client, wherever its calls die, a goal moves along its edges, stays
\* released, and is the only one to offer a task the owner did not push.
THEOREM CallsInTurn == ASSUME OneCaller PROVE Spec => KeepsLifecycle
<1>1. Init => LifeInv /\ Lifecycle!Init
  BY LifeInit
<1>2. LifeInv /\ [Next]_vars =>
        LifeInv' /\ [Lifecycle!Next]_<<[g \in Goals |-> goals[g].status], Offered>>
  BY LifeNext
<1>. QED
  BY <1>1, <1>2, PTL DEF Spec, KeepsLifecycle, Lifecycle!Spec

-----------------------------------------------------------------------------
(* What one caller leaves in the backlog *)

\* The least-number principle.
LEMMA LeastId ==
  ASSUME NEW T, T \subseteq Nat, T # {}
  PROVE  \E x \in T : \A y \in T : x <= y
<1>. DEFINE R == {p \in Nat \X Nat : p[1] < p[2]}
<1>1. IsWellFoundedOn(R, Nat)
  BY NatLessThanWellFounded DEF OpToRel
<1>2. PICK x \in T : \A y \in T : ~ (<<y, x>> \in R)
  <2>. HIDE DEF R
  <2>. QED
    BY <1>1, WFMin
<1>3. ASSUME NEW y \in T
      PROVE  x <= y
  <2>1. x \in Nat /\ y \in Nat /\ <<y, x>> \notin R
    BY <1>2
  <2>2. y < x => <<y, x>> \in R
    BY <2>1
  <2>. QED
    BY <2>1, <2>2
<1>. QED
  BY <1>3

\* A planning request has looked for an open planning task and found none.
Planning(k) == k.op \in {"create", "insert"} /\ k.kind = "plan"

Parked(g) ==
  {t \in Children(g) : tasks[t].plan /\ tasks[t].status = "planned"}

\* No task of the goal was opened again.
Tidy(g) == \A u \in reopened : tasks[u].goal # g

PlanReady(g) ==
  /\ goals[g].status \in {"draft", "planning"}
  /\ Parked(g) = {}
  /\ Tidy(g) => OpenPlans(g) = {}

Waiting == {"waiting_approval", "ready"}
Planned == {"planned", "released"}

\* A goal that was planned has no open planning task, and until then one at
\* most, as long as none was opened again.
PlanInv ==
  /\ \A g \in Goals : \A t, u \in Parked(g) : t = u
  /\ \A g \in Goals : Tidy(g) =>
       /\ \A t, u \in OpenPlans(g) : t = u
       /\ goals[g].status \in Planned => OpenPlans(g) = {}
  /\ \A c \in Clients : Planning(call[c]) => PlanReady(call[c].goal)
  /\ \A t \in Ids :
       /\ tasks[t].status = "planned" => goals[tasks[t].goal].status # "released"
       /\ tasks[t].plan /\ tasks[t].status \in Waiting /\ t \notin pushed
            => ~ Tidy(tasks[t].goal)

\* What a step may do to the rows there are.
RowMoves(t) ==
  /\ tasks'[t].goal = tasks[t].goal /\ tasks'[t].plan = tasks[t].plan
  /\ tasks'[t].status = "planned" => tasks[t].status = "planned"
  /\ tasks'[t].status \notin Closed =>
       tasks[t].status \notin Closed \/ t \in reopened'
  /\ tasks[t].plan /\ tasks'[t].status \in Waiting =>
       \/ tasks[t].status \in Waiting \/ t \in pushed'
       \/ ~ Tidy(tasks[t].goal)

\* What it may add.
RowAdds(t) ==
  /\ tasks'[t].goal \in Goals
  /\ tasks'[t].status = "planned" => goals'[tasks'[t].goal].status # "released"
  /\ tasks'[t].plan =>
       /\ tasks'[t].status = "planned" /\ PlanReady(tasks'[t].goal)
       /\ \A u \in Ids' \ Ids : u = t

RowsMove ==
  /\ Ids \subseteq Ids' /\ pushed \subseteq pushed'
  /\ reopened \subseteq reopened'
  /\ \A t \in Ids : RowMoves(t)
  /\ \A t \in Ids' \ Ids : RowAdds(t)

GoalsMove ==
  \A g \in Goals :
    /\ goals'[g].status \in Planned =>
         \/ goals[g].status \in Planned
         \/ Tidy(g) => \A t \in OpenPlans(g) : tasks'[t].status \in Closed
    /\ goals'[g].status \in Planned => Ids' = Ids \/ goals[g].status \in Planned
    /\ goals'[g].status = "released" =>
         \/ goals[g].status = "released"
         \/ \A t \in Children(g) : tasks'[t].status # "planned"

CallsMove ==
  \A c \in Clients : Planning(call'[c]) =>
    /\ Ids' = Ids /\ call'[c].goal \in Goals /\ PlanReady(call'[c].goal)
    /\ goals'[call'[c].goal].status = goals[call'[c].goal].status

LEMMA PlanMoves ==
  ASSUME TypeOK, PlanInv, RowsMove, GoalsMove, CallsMove
  PROVE  PlanInv'
<1>0. /\ Ids \subseteq Ids' /\ reopened \subseteq Ids /\ reopened \subseteq reopened'
      /\ pushed \subseteq pushed' /\ \A t \in Ids : tasks[t].goal \in Goals
  BY TypeParts, RowsTyped DEF RowsMove, TablesOK
<1>1. \A t \in Ids : RowMoves(t)
  BY DEF RowsMove
<1>2. \A t \in Ids' \ Ids : RowAdds(t)
  BY DEF RowsMove
<1>3. ASSUME NEW g \in Goals, Tidy(g)'
      PROVE  Tidy(g)
  BY <1>0, <1>1, <1>3 DEF Tidy, RowMoves
<1>4. ASSUME NEW g \in Goals, NEW t \in Parked(g)'
      PROVE  \/ t \in Parked(g)
             \/ /\ t \in Ids' \ Ids /\ PlanReady(g)
                /\ \A u \in Ids' \ Ids : u = t
  BY <1>1, <1>2 DEF Parked, Children, RowMoves, RowAdds, Ids
<1>5. ASSUME NEW g \in Goals, Tidy(g)', NEW t \in OpenPlans(g)'
      PROVE  \/ t \in OpenPlans(g) /\ tasks'[t].status \notin Closed
             \/ /\ t \in Ids' \ Ids /\ PlanReady(g)
                /\ \A u \in Ids' \ Ids : u = t
  <2>1. t \in Ids' /\ tasks'[t].goal = g /\ tasks'[t].plan
        /\ tasks'[t].status \notin Closed
    BY <1>5 DEF OpenPlans, Children
  <2>2. t \notin reopened'
    BY <1>5, <2>1 DEF Tidy
  <2>. QED
    BY <1>1, <1>2, <2>1, <2>2 DEF OpenPlans, Children, RowMoves, RowAdds
<1>6. ASSUME NEW g \in Goals
      PROVE  \A t, u \in Parked(g)' : t = u
  BY <1>4 DEF PlanInv, PlanReady
<1>7. ASSUME NEW g \in Goals, Tidy(g)'
      PROVE  /\ \A t, u \in OpenPlans(g)' : t = u
             /\ goals'[g].status \in Planned => OpenPlans(g)' = {}
  <2>1. Tidy(g)
    BY <1>3, <1>7
  <2>2. \A t, u \in OpenPlans(g)' : t = u
    BY <1>5, <1>7, <2>1 DEF PlanInv, PlanReady
  <2>3. ASSUME goals'[g].status \in Planned
        PROVE  OpenPlans(g)' = {}
    <3>1. CASE goals[g].status \in Planned
      <4>1. OpenPlans(g) = {} /\ ~ PlanReady(g)
        BY <2>1, <3>1 DEF PlanInv, PlanReady, Planned
      <4>. QED
        BY <1>5, <1>7, <4>1
    <3>2. CASE goals[g].status \notin Planned
      <4>1. \A t \in OpenPlans(g) : tasks'[t].status \in Closed
        BY <2>1, <2>3, <3>2 DEF GoalsMove
      <4>2. Ids' = Ids
        BY <2>3, <3>2 DEF GoalsMove
      <4>. QED
        BY <1>5, <1>7, <4>1, <4>2
    <3>. QED
      BY <3>1, <3>2
  <2>. QED
    BY <2>2, <2>3
<1>8. ASSUME NEW c \in Clients, Planning(call'[c])
      PROVE  PlanReady(call[c].goal)'
  <2>1. PICK g : g = call'[c].goal
    OBVIOUS
  <2>2. /\ Ids' = Ids /\ PlanReady(g) /\ goals'[g].status = goals[g].status
    BY <1>8, <2>1 DEF CallsMove
  <2>3. g \in Goals
    BY <1>8, <2>1 DEF CallsMove
  <2>4. Parked(g)' = {}
    BY <1>4, <2>2, <2>3 DEF PlanReady
  <2>5. Tidy(g)' => OpenPlans(g)' = {}
    BY <1>3, <1>5, <2>2, <2>3 DEF PlanReady
  <2>. QED
    BY <2>1, <2>2, <2>4, <2>5 DEF PlanReady
<1>9. ASSUME NEW t \in Ids', tasks'[t].status = "planned"
      PROVE  goals'[tasks'[t].goal].status # "released"
  <2>1. CASE t \notin Ids
    BY <1>2, <1>9, <2>1 DEF RowAdds
  <2>2. CASE t \in Ids
    <3>1. /\ tasks[t].status = "planned" /\ tasks'[t].goal = tasks[t].goal
          /\ tasks[t].goal \in Goals /\ t \in Children(tasks[t].goal)
      BY <1>0, <1>1, <1>9, <2>2 DEF RowMoves, Children
    <3>2. goals[tasks[t].goal].status # "released"
      BY <2>2, <3>1 DEF PlanInv
    <3>. QED
      BY <1>9, <3>1, <3>2 DEF GoalsMove
  <2>. QED
    BY <2>1, <2>2
<1>10. ASSUME NEW t \in Ids', tasks'[t].plan, tasks'[t].status \in Waiting,
              t \notin pushed'
       PROVE  ~ Tidy(tasks[t].goal)'
  <2>1. t \in Ids
    BY <1>2, <1>10 DEF RowAdds, Waiting
  <2>2. /\ tasks'[t].goal = tasks[t].goal /\ tasks[t].goal \in Goals
        /\ ~ Tidy(tasks[t].goal)
    BY <1>0, <1>1, <1>10, <2>1 DEF RowMoves, PlanInv
  <2>3. PICK g \in Goals : g = tasks[t].goal /\ g = tasks'[t].goal
    BY <2>2
  <2>4. ~ Tidy(g)'
    BY <1>3, <2>2, <2>3
  <2>. QED
    BY <2>3, <2>4 DEF Tidy
<1>. QED
  BY <1>6, <1>7, <1>8, <1>9, <1>10 DEF PlanInv

PlanStep == RowsMove /\ GoalsMove /\ CallsMove

LEMMA GoalsStay ==
  ASSUME \A g \in Goals :
           goals'[g].status \in Planned => goals'[g].status = goals[g].status
  PROVE  GoalsMove
BY DEF GoalsMove, Planned

LEMMA PlanningGoal ==
  ASSUME TypeOK, NEW c \in Clients, Planning(call[c])
  PROVE  call[c].goal \in Goals
<1>1. call[c] \in CreateCall \/ call[c] \in InsertCall
  BY TypeParts, CallKinds DEF Planning
<1>. QED
  BY <1>1 DEF CreateCall, InsertCall

LEMMA CallsStay ==
  ASSUME TypeOK, PlanInv, Ids' = Ids, UNCHANGED call,
         \A g \in Goals : goals'[g].status = goals[g].status
  PROVE  CallsMove
BY PlanningGoal DEF CallsMove, PlanInv

\* The only caller goes on, and not with a planning request.
LEMMA CallsOnward ==
  ASSUME TypeOK, OneCaller, NEW c \in Clients, NEW k, ~ Planning(k),
         call' = [call EXCEPT ![c] = k]
  PROVE  CallsMove
<1>1. \A d \in Clients : call'[d] = k
  BY DEF OneCaller, TypeOK
<1>. QED
  BY <1>1 DEF CallsMove

LEMMA CallsPlan ==
  ASSUME TypeOK, OneCaller, NEW c \in Clients, NEW k, UNCHANGED <<goals, tasks>>,
         k.goal \in Goals, PlanReady(k.goal), call' = [call EXCEPT ![c] = k]
  PROVE  CallsMove
<1>1. \A d \in Clients : call'[d] = k
  BY DEF OneCaller, TypeOK
<1>. QED
  BY <1>1 DEF CallsMove, Ids

LEMMA RowsStay ==
  ASSUME UNCHANGED <<tasks, pushed, reopened>>
  PROVE  RowsMove
BY DEF RowsMove, RowMoves, Ids

LEMMA StatusMoves ==
  ASSUME TablesOK, NEW T, NEW s \in TaskStatus \ {"planned"},
         tasks' = SetStatus(T, s),
         pushed \subseteq pushed', reopened \subseteq reopened',
         \A t \in Ids : t \in T =>
           /\ s \notin Closed => tasks[t].status \notin Closed \/ t \in reopened'
           /\ s \in Waiting => tasks[t].status \in Waiting \/ t \in pushed'
  PROVE  RowsMove /\ Ids' = Ids
<1>1. Ids' = Ids
  BY SetStatusType, Rewritten DEF TaskStatus
<1>2. ASSUME NEW t \in Ids
      PROVE  RowMoves(t)
  <2>1. tasks[t] \in TaskRow
    BY RowsTyped
  <2>2. tasks'[t] = IF t \in T THEN [tasks[t] EXCEPT !.status = s] ELSE tasks[t]
    BY DEF SetStatus
  <2>3. /\ tasks'[t].goal = tasks[t].goal /\ tasks'[t].plan = tasks[t].plan
        /\ tasks'[t].status = IF t \in T THEN s ELSE tasks[t].status
    BY <2>1, <2>2 DEF TaskRow
  <2>. QED
    BY <2>3 DEF RowMoves
<1>. QED
  BY <1>1, <1>2 DEF RowsMove

\* One row changes.
LEMMA RowMovesOn ==
  ASSUME TablesOK, NEW t \in Ids, NEW row, tasks' = [tasks EXCEPT ![t] = row],
         pushed \subseteq pushed', reopened \subseteq reopened',
         row.goal = tasks[t].goal, row.plan = tasks[t].plan,
         row.status = "planned" => tasks[t].status = "planned",
         row.status \notin Closed => tasks[t].status \notin Closed \/ t \in reopened',
         row.status \in Waiting => tasks[t].status \in Waiting
  PROVE  RowsMove /\ Ids' = Ids
<1>1. Ids' = Ids /\ \A u \in Ids : tasks'[u] = IF u = t THEN row ELSE tasks[u]
  BY RowsTyped DEF Ids
<1>. QED
  BY <1>1 DEF RowsMove, RowMoves

LEMMA ReadyMoves ==
  ASSUME TablesOK, NEW T, tasks' = Ready(T), UNCHANGED <<pushed, reopened>>
  PROVE  RowsMove /\ Ids' = Ids
BY StatusMoves DEF Ready, Promotable, TaskStatus, Waiting, Closed

\* The oldest open planning task exists where there is an open one.
LEMMA OldestPlan ==
  ASSUME TypeOK, NEW g, OpenPlan(g) = {}
  PROVE  OpenPlans(g) = {}
<1>1. OpenPlans(g) \subseteq Nat
  BY TypeParts DEF OpenPlans, Children, TablesOK, Ids
<1>. QED
  BY <1>1, LeastId DEF OpenPlan

-----------------------------------------------------------------------------
(* Calls *)

\* A call that touches no table.
LEMMA AskStep ==
  ASSUME TypeOK, OneCaller, NEW c \in Clients, NEW k, ~ Planning(k),
         Ask(c, k) \/ Looked(c, k)
  PROVE  PlanStep
<1>1. /\ UNCHANGED <<goals, tasks, pushed, reopened>>
      /\ call' = [call EXCEPT ![c] = k]
  BY DEF Ask, Looked, Then, Onward, history
<1>. QED
  BY <1>1, RowsStay, GoalsStay, CallsOnward DEF PlanStep

LEMMA PlanningStep ==
  ASSUME TypeOK, OneCaller, NEW c \in Clients, NEW k, k.goal \in Goals,
         PlanReady(k.goal), Ask(c, k) \/ Looked(c, k)
  PROVE  PlanStep
<1>1. /\ UNCHANGED <<goals, tasks, pushed, reopened>>
      /\ call' = [call EXCEPT ![c] = k]
  BY DEF Ask, Looked, Then, Onward, history
<1>. QED
  BY <1>1, RowsStay, GoalsStay, CallsPlan DEF PlanStep

LEMMA NewCallStep ==
  ASSUME TypeOK, OneCaller, NEW c \in Clients, NewCall(c)
  PROVE  PlanStep
<1>1. ASSUME NEW g \in Goals, AskPlan(c, g)
      PROVE  PlanStep
  <2>1. CASE OpenPlan(g) = {}
    <3>1. PlanReady(g)
      BY <1>1, <2>1, OldestPlan DEF AskPlan, PlanReady, Parked, OpenPlans, Closed
    <3>2. PICK k : k = Creating(g, "plan", {}, goals[g].text,
                         IF goals[g].status = "draft" THEN "planning" ELSE "none")
      OBVIOUS
    <3>3. k.goal = g /\ Ask(c, k)
      BY <1>1, <2>1, <3>2 DEF AskPlan, Creating
    <3>. QED
      BY <3>1, <3>3, PlanningStep
  <2>2. CASE OpenPlan(g) # {}
    BY <1>1, <2>2, AskStep DEF AskPlan, SettingTo, Planning
  <2>. QED
    BY <2>1, <2>2
<1>2. ASSUME NEW g \in Goals, AskRelease(c, g)
      PROVE  PlanStep
  BY <1>2, AskStep DEF AskRelease, Planning
<1>3. ASSUME NEW g \in Goals, AskEdit(c, g) \/ AskDelete(c, g)
      PROVE  PlanStep
  BY <1>3, AskStep DEF AskEdit, AskDelete, Planning
<1>4. ASSUME NEW g \in Goals, NEW to \in {"planned", "draft"}, AskStatus(c, g, to)
      PROVE  PlanStep
  BY <1>4, AskStep DEF AskStatus, SettingTo, Planning
<1>5. ASSUME NEW g \in Goals, NEW kind \in Kinds, NEW L \in SUBSET Ids,
             AskCreate(c, g, kind, L)
      PROVE  PlanStep
  <2>1. PICK k : k = Creating(g, kind, L, 0, "none")
    OBVIOUS
  <2>2. ~ Planning(k) /\ Ask(c, k)
    BY <1>5, <2>1 DEF AskCreate, Creating, Planning, Kinds
  <2>. QED
    BY <2>2, AskStep
<1>6. ASSUME NEW t \in Ids, AskApprove(c, t)
      PROVE  PlanStep
  BY <1>6, AskStep DEF AskApprove, Planning
<1>7. ASSUME NEW t \in Ids, NEW p \in Ids, AskLink(c, t, p)
      PROVE  PlanStep
  BY <1>7, AskStep DEF AskLink, Linking, Planning
<1>8. ASSUME NEW t \in Ids, AskClose(c, t)
      PROVE  PlanStep
  <2>1. TablesOK
    BY TypeParts
  <2>2. RowsMove
    BY <1>8, <2>1, StatusMoves DEF AskClose, TaskStatus, Closed, Waiting, history
  <2>3. CallsMove
    BY <1>8, CallsOnward DEF AskClose, Planning
  <2>. QED
    BY <1>8, <2>2, <2>3, GoalsStay DEF AskClose, PlanStep
<1>. QED
  BY <1>1, <1>2, <1>3, <1>4, <1>5, <1>6, <1>7, <1>8 DEF NewCall

LEMMA ReadsStep ==
  ASSUME TypeOK, OneCaller, PlanInv, NEW c \in Clients,
         CreateRead(c) \/ LinkDep(c) \/ StatusRead(c) \/ ReleaseRead(c)
  PROVE  PlanStep
<1>0. ~ Planning(Idle)
  BY DEF Planning, Idle
<1>1. CASE LinkDep(c)
  <2>1. PICK p \in call[c].links :
          Then(c, Linking(call[c].task, call[c].links \ {p}))
    BY <1>1 DEF LinkDep
  <2>2. PICK next : next = Linking(call[c].task, call[c].links \ {p})
    OBVIOUS
  <2>3. ~ Planning(next)
    BY <2>2 DEF Linking, Idle, Planning
  <2>4. /\ UNCHANGED <<goals, tasks, pushed, reopened>>
        /\ call' = [call EXCEPT ![c] = next]
    BY <1>1, <2>1, <2>2 DEF LinkDep, Then, Onward
  <2>. QED
    BY <2>3, <2>4, RowsStay, GoalsStay, CallsOnward DEF PlanStep
<1>2. CASE ReleaseRead(c)
  <2>1. PICK next : Looked(c, next) /\ ~ Planning(next)
    <3>. DEFINE k == call[c]
                granting == [op |-> "grant", goal |-> k.goal, task |-> k.task]
    <3>1. ~ Planning(granting) /\ ~ Planning(Closing(k.task))
      BY <1>0 DEF Planning, Closing
    <3>2. \/ Looked(c, granting) \/ Looked(c, Closing(k.task)) \/ Looked(c, Idle)
      BY <1>2 DEF ReleaseRead
    <3>. QED
      BY <1>0, <3>1, <3>2
  <2>. QED
    BY <2>1, AskStep
<1>3. CASE StatusRead(c)
  <2>1. PICK next : Looked(c, next) /\ ~ Planning(next)
    <3>. DEFINE k == call[c]
                writing == [op |-> "write", goal |-> k.goal, to |-> k.to,
                            seen |-> goals[k.goal].status]
    <3>1. ~ Planning(writing)
      BY DEF Planning
    <3>2. Looked(c, writing) \/ Looked(c, Idle)
      BY <1>3 DEF StatusRead
    <3>. QED
      BY <1>0, <3>1, <3>2
  <2>. QED
    BY <2>1, AskStep
<1>4. CASE CreateRead(c)
  <2>. DEFINE k == call[c]
  <2>1. PICK next :
          next = [op |-> "insert", goal |-> k.goal, kind |-> k.kind,
                  links |-> k.links, text |-> k.text, to |-> k.to,
                  seen |-> goals[k.goal].status]
    OBVIOUS
  <2>2. Looked(c, next) \/ Looked(c, Idle)
    BY <1>4, <2>1 DEF CreateRead
  <2>3. next.goal = k.goal /\ (Planning(next) => Planning(k))
    BY <1>4, <2>1 DEF Planning, CreateRead
  <2>4. Planning(next) => next.goal \in Goals /\ PlanReady(next.goal)
    BY <2>3, PlanningGoal DEF PlanInv
  <2>. QED
    BY <1>0, <2>2, <2>4, AskStep, PlanningStep
<1>. QED
  BY <1>1, <1>2, <1>3, <1>4

\* The planning task that is added is the only open one.
LEMMA InsertStep ==
  ASSUME TypeOK, OneCaller, Fresh, PlanInv, NEW c \in Clients, CreateInsert(c)
  PROVE  PlanStep
<1>. DEFINE k == call[c]
            row == NewTask(k.goal, k.kind = "plan", k.kind \in {"gated", "pair"},
                           InitStatus(k.seen), k.text)
<1>0. TablesOK /\ k \in InsertCall
  BY TypeParts, CallKinds DEF CreateInsert
<1>1. CASE goals[k.goal].status = "gone"
  BY <1>1, AskStep DEF CreateInsert, Planning, Idle
<1>2. CASE goals[k.goal].status # "gone"
  <2>1. PICK next \in AfterInsert(k, Len(tasks) + 1) : Then(c, next)
    BY <1>2 DEF CreateInsert
  <2>2. tasks' = Append(tasks, row) /\ UNCHANGED goals
    BY <1>2 DEF CreateInsert
  <2>3. /\ row \in TaskRow /\ row.goal = k.goal /\ k.goal \in Goals
        /\ row.status = InitStatus(k.seen) /\ row.plan = (k.kind = "plan")
    BY <1>0 DEF NewTask, InitStatus, TaskRow, InsertCall, TaskStatus
  <2>4. /\ \A t \in 1..Len(tasks) : tasks'[t] = tasks[t]
        /\ tasks'[Len(tasks) + 1] = row
        /\ Ids = 1..Len(tasks) /\ Ids' = 1..(Len(tasks) + 1)
        /\ Len(tasks) \in Nat
    BY <1>0, <2>2, <2>3 DEF TablesOK, Ids
  <2>5. goals[k.goal].status = k.seen
    BY DEF Fresh, FreshCall, CreateInsert
  <2>6. ASSUME k.kind = "plan"
        PROVE  PlanReady(k.goal) /\ row.status = "planned"
    <3>1. PlanReady(k.goal)
      BY <2>6 DEF PlanInv, Planning, CreateInsert
    <3>. QED
      BY <2>3, <2>5, <3>1 DEF PlanReady, InitStatus
  <2>7. row.status = "planned" => goals[k.goal].status # "released"
    BY <2>3, <2>5 DEF InitStatus
  <2>. HIDE DEF row
  <2>8. RowsMove
    <3>1. \A t \in Ids : RowMoves(t)
      BY <2>4 DEF RowMoves
    <3>2. Ids \subseteq Ids' /\ \A t \in Ids' \ Ids : t = Len(tasks) + 1
      BY <2>4
    <3>3. \A t \in Ids' \ Ids : RowAdds(t)
      <4>1. PICK new : new = Len(tasks) + 1
        OBVIOUS
      <4>2. tasks'[new] = row /\ goals' = goals
        BY <2>2, <2>4, <4>1
      <4>3. \A t \in Ids' \ Ids : t = new
        BY <3>2, <4>1
      <4>4. /\ row.goal \in Goals
            /\ row.status = "planned" => goals[row.goal].status # "released"
        BY <2>3, <2>7
      <4>5. row.plan => row.status = "planned" /\ PlanReady(row.goal)
        BY <2>3, <2>6
      <4>. QED
        BY ONLY <4>2, <4>3, <4>4, <4>5 DEF RowAdds
    <3>. QED
      BY <2>1, <3>1, <3>2, <3>3 DEF RowsMove, Then, Onward
  <2>9. ~ Planning(next)
    BY DEF AfterInsert, SettingTo, Creating, Linking, Idle, Planning
  <2>10. CallsMove
    BY <2>1, <2>9, CallsOnward DEF Then, Onward
  <2>. QED
    BY <2>2, <2>8, <2>10, GoalsStay DEF PlanStep
<1>. QED
  BY <1>1, <1>2

\* Leaving 'planning' closes the oldest open planning task, which is the only
\* one.
LEMMA WriteStep ==
  ASSUME TypeOK, OneCaller, Fresh, PlanInv, NEW c \in Clients, StatusWrite(c)
  PROVE  PlanStep
<1>. DEFINE k == call[c]
<1>0. TablesOK /\ k \in WriteCall
  BY TypeParts, CallKinds DEF StatusWrite
<1>1. goals[k.goal].status = k.seen /\ <<k.seen, k.to>> \in GoalEdges
  BY DEF Fresh, FreshCall, StatusWrite
<1>2. k.goal \in Goals
  BY <1>0 DEF WriteCall
<1>3. tasks' = SetStatus(ClosedByWrite(k), "done")
  BY DEF StatusWrite
<1>4. RowsMove /\ Ids' = Ids
  BY <1>0, <1>3, StatusMoves
  DEF StatusWrite, Then, Onward, TaskStatus, Closed, Waiting
<1>5. \A g \in Goals :
        goals'[g].status = IF g = k.goal THEN k.to ELSE goals[g].status
  BY <1>0, <1>1, <1>2 DEF StatusWrite, GoalEdges, TablesOK, GoalRow
<1>6. ASSUME NEW g \in Goals, goals'[g].status \in Planned,
             goals[g].status \notin Planned, Tidy(g), NEW t \in OpenPlans(g)
      PROVE  tasks'[t].status \in Closed
  <2>1. g = k.goal /\ k.seen = "planning"
    BY <1>1, <1>5, <1>6 DEF GoalEdges, Planned
  <2>2. t \in Ids /\ \A u \in OpenPlans(g) : t <= u
    <3>1. t \in Ids /\ t \in Nat
      BY <1>0, <1>6 DEF OpenPlans, Children, Ids, TablesOK
    <3>2. \A u \in OpenPlans(g) : u = t
      BY <1>6 DEF PlanInv
    <3>. QED
      BY <3>1, <3>2
  <2>3. t \in ClosedByWrite(k)
    BY <1>6, <2>1, <2>2 DEF ClosedByWrite, OpenPlan
  <2>. QED
    BY <1>0, <1>3, <2>2, <2>3, SetStatusType DEF TaskStatus, Closed
<1>7. GoalsMove
  <2>1. \A g \in Goals :
          goals'[g].status = "released" => goals[g].status = "released"
    BY <1>1, <1>5 DEF GoalEdges
  <2>. QED
    BY <1>4, <1>6, <2>1 DEF GoalsMove
<1>8. CallsMove
  BY CallsOnward DEF StatusWrite, Then, Onward, Planning, Idle
<1>. QED
  BY <1>4, <1>7, <1>8 DEF PlanStep

LEMMA DraftStep ==
  ASSUME TypeOK, OneCaller, NEW c \in Clients, EditWrite(c) \/ DeleteWrite(c)
  PROVE  PlanStep
<1>1. TablesOK /\ call[c] \in DraftCall
  BY TypeParts, CallKinds DEF EditWrite, DeleteWrite
<1>2. call[c].goal \in Goals
  BY <1>1 DEF DraftCall
<1>3. \A g \in Goals :
        goals'[g].status \in Planned => goals'[g].status = goals[g].status
  BY <1>1, <1>2 DEF EditWrite, DeleteWrite, TablesOK, GoalRow, Planned
<1>4. RowsMove
  BY RowsStay DEF EditWrite, DeleteWrite, Then, Onward
<1>5. CallsMove
  BY CallsOnward DEF EditWrite, DeleteWrite, Then, Onward, Planning, Idle
<1>. QED
  BY <1>3, <1>4, <1>5, GoalsStay DEF PlanStep

\* The goal was planned: what the release takes out of the backlog is no
\* planning task, unless one was opened again.
LEMMA GrantStep ==
  ASSUME TypeOK, OneCaller, Fresh, PlanInv, NEW c \in Clients, ReleaseGrant(c)
  PROVE  PlanStep
<1>. DEFINE k == call[c]
            parked == {t \in Children(k.goal) :
                         tasks[t].status \in {"planned", "waiting_approval"}}
            after(t) == IF ~ tasks[t].gate /\ DepsDone(t)
                          THEN "ready" ELSE "waiting_approval"
<1>1. TablesOK /\ k.goal \in Goals
  BY TypeParts, CallKinds DEF ReleaseGrant, ReleaseCall
<1>2. goals[k.goal].status = "planned"
  BY DEF Fresh, FreshCall, ReleaseGrant
<1>3. /\ goals' = [goals EXCEPT ![k.goal].status = "released"]
      /\ tasks' = [t \in Ids |->
           IF t \in parked THEN [tasks[t] EXCEPT !.status = after(t)]
           ELSE tasks[t]]
  BY <1>2 DEF ReleaseGrant
<1>4. \A h \in Goals :
        goals'[h].status = IF h = k.goal THEN "released" ELSE goals[h].status
  BY <1>1, <1>3 DEF TablesOK, GoalRow
<1>5. Ids' = Ids
  BY <1>3 DEF Ids
<1>6. ASSUME NEW t \in Ids
      PROVE  /\ tasks'[t].goal = tasks[t].goal /\ tasks'[t].plan = tasks[t].plan
             /\ IF t \in parked THEN tasks'[t].status \in Waiting
                ELSE tasks'[t].status = tasks[t].status
  BY <1>1, <1>3, RowsTyped DEF TaskRow, Waiting
<1>7. ASSUME NEW t \in parked, tasks[t].plan
      PROVE  ~ Tidy(tasks[t].goal)
  <2>1. t \in OpenPlans(k.goal) /\ tasks[t].goal = k.goal
    BY <1>7 DEF OpenPlans, Children, Closed
  <2>. QED
    BY <1>1, <1>2, <2>1 DEF PlanInv, Planned
<1>8. \A t \in Children(k.goal) : tasks'[t].status # "planned"
  BY <1>6 DEF Waiting, Children
<1>9. \A t \in parked : tasks[t].status \notin Closed
  BY DEF Closed
<1>. HIDE DEF parked
<1>10. \A t \in Ids : RowMoves(t)
  BY <1>6, <1>7, <1>9 DEF RowMoves, Waiting
<1>11. RowsMove
  BY <1>5, <1>10 DEF RowsMove, ReleaseGrant, Onward
<1>12. GoalsMove
  BY <1>2, <1>4, <1>5, <1>8 DEF GoalsMove, Planned
<1>13. CallsMove
  <2>1. PICK closing : closing = Closing(k.task)
    OBVIOUS
  <2>2. ~ Planning(closing)
    BY <2>1 DEF Closing, Idle, Planning
  <2>. QED
    BY <2>1, <2>2, CallsOnward DEF ReleaseGrant, Onward
<1>. QED
  BY <1>11, <1>12, <1>13 DEF PlanStep

LEMMA ClosingStep ==
  ASSUME TypeOK, OneCaller, NEW c \in Clients,
         ApproveClose(c) \/ PromoteDependents(c)
  PROVE  PlanStep
<1>0. TablesOK /\ ~ Planning(Idle)
  BY TypeParts DEF Planning, Idle
<1>1. CASE PromoteDependents(c)
  <2>1. RowsMove /\ CallsMove
    BY <1>0, <1>1, ReadyMoves, CallsOnward DEF PromoteDependents, Then, Onward
  <2>. QED
    BY <1>1, <2>1, GoalsStay DEF PromoteDependents, PlanStep
<1>2. CASE ApproveClose(c)
  <2>. DEFINE t == call[c].task
  <2>1. t \in Ids
    BY <1>2, CallKinds, TypeParts DEF ApproveClose, CloseCall
  <2>2. CASE tasks[t].status # "manual"
    BY <1>0, <1>2, <2>2, AskStep DEF ApproveClose
  <2>3. CASE tasks[t].status = "manual"
    <3>1. PICK row : row = [tasks[t] EXCEPT !.status = "done", !.gate = FALSE]
      OBVIOUS
    <3>2. tasks[t] \in TaskRow /\ tasks \in [Ids -> TaskRow]
      BY <1>0, <2>1, RowsTyped
    <3>3. /\ tasks' = [tasks EXCEPT ![t] = row] /\ row.status = "done"
          /\ row.goal = tasks[t].goal /\ row.plan = tasks[t].plan
      BY <1>2, <2>1, <2>3, <3>1, <3>2 DEF ApproveClose, TaskRow
    <3>4. UNCHANGED <<goals, pushed, reopened>>
      BY <1>2, <2>3 DEF ApproveClose, Then, Onward
    <3>5. RowsMove
      BY <1>0, <2>1, <3>3, <3>4, RowMovesOn DEF Closed, Waiting
    <3>6. PICK next : next = [op |-> "promote", task |-> t]
      OBVIOUS
    <3>7. ~ Planning(next) /\ call' = [call EXCEPT ![c] = next]
      BY <1>2, <2>3, <3>6 DEF ApproveClose, Then, Onward, Planning
    <3>. QED
      BY <3>4, <3>5, <3>7, CallsOnward, GoalsStay DEF PlanStep
  <2>. QED
    BY <2>2, <2>3
<1>. QED
  BY <1>1, <1>2

LEMMA CallStepPlans ==
  ASSUME TypeOK, OneCaller, Fresh, PlanInv, NEW c \in Clients,
         CallStep(c) \/ CallCrash(c)
  PROVE  PlanStep
<1>1. CASE CallCrash(c)
  <2>1. UNCHANGED <<goals, tasks, pushed, reopened>>
    BY <1>1 DEF CallCrash, history
  <2>2. CallsMove
    BY <1>1, CallsOnward DEF CallCrash, Planning, Idle
  <2>. QED
    BY <2>1, <2>2, RowsStay, GoalsStay DEF PlanStep
<1>. QED
  BY <1>1, ReadsStep, InsertStep, WriteStep, DraftStep, GrantStep, ClosingStep
  DEF CallStep

-----------------------------------------------------------------------------
(* The owner, the dispatcher and the wrappers *)

LEMMA OwnerPlans ==
  ASSUME TypeOK, PlanInv, OwnerAction
  PROVE  PlanStep
<1>0. TablesOK
  BY TypeParts
<1>1. UNCHANGED <<goals, call>> /\ pushed \subseteq pushed' /\ reopened \subseteq reopened'
  BY DEF OwnerAction, Release, MarkManual, ClearGate, Feedback, Unlink, OwnerStep,
         history
<1>2. ASSUME NEW t \in Ids, Release(t) \/ MarkManual(t)
      PROVE  RowsMove /\ Ids' = Ids
  <2>1. PICK s \in {"ready", "manual"} :
          /\ tasks' = SetStatus({t}, s) /\ reopened' = reopened \cup Reopened
          /\ s = "ready" => t \in pushed'
    BY <1>2 DEF Release, MarkManual, OwnerStep
  <2>2. tasks'[t].status = s
    BY <1>0, <2>1, SetStatusType DEF TaskStatus
  <2>3. s \notin Closed /\ s \in TaskStatus \ {"planned"}
    BY DEF Closed, TaskStatus
  <2>4. tasks[t].status \in Closed => t \in reopened'
    BY <2>1, <2>2, <2>3 DEF Reopened
  <2>. QED
    BY <1>0, <1>1, <2>1, <2>3, <2>4, StatusMoves DEF Waiting
<1>3. ASSUME NEW t \in Ids, ClearGate(t)
      PROVE  RowsMove /\ Ids' = Ids
  <2>1. PICK s : s = IF /\ tasks[t].status = "waiting_approval" /\ DepsDone(t)
                        /\ goals[tasks[t].goal].status = "released"
                       THEN "ready" ELSE tasks[t].status
    OBVIOUS
  <2>2. PICK row : row = [tasks[t] EXCEPT !.gate = FALSE, !.status = s]
    OBVIOUS
  <2>3. /\ tasks' = [tasks EXCEPT ![t] = row] /\ row.status = s
        /\ row.goal = tasks[t].goal /\ row.plan = tasks[t].plan
    BY <1>0, <1>3, <2>1, <2>2, RowsTyped DEF ClearGate, OwnerStep, TaskRow
  <2>4. \/ s = tasks[t].status
        \/ tasks[t].status = "waiting_approval" /\ s = "ready"
    BY <2>1
  <2>. QED
    BY <1>0, <1>1, <2>3, <2>4, RowMovesOn DEF Waiting, Closed
<1>4. ASSUME NEW t \in Ids, Feedback(t)
      PROVE  RowsMove /\ Ids' = Ids
  <2>. DEFINE demoted == {u \in Dependents(t) \ {t} :
                tasks[t].status = "done" /\ tasks[u].status = "ready"}
  <2>1. /\ tasks' = [u \in Ids |->
             CASE u = t -> [tasks[u] EXCEPT !.status = "rework"]
               [] u \in demoted ->
                    [tasks[u] EXCEPT !.status = "waiting_approval"]
               [] OTHER -> tasks[u]]
        /\ reopened' = reopened \cup Reopened
    BY <1>4 DEF Feedback, OwnerStep
  <2>2. Ids' = Ids
    BY <2>1 DEF Ids
  <2>3. ASSUME NEW u \in Ids
        PROVE  /\ tasks'[u].goal = tasks[u].goal /\ tasks'[u].plan = tasks[u].plan
               /\ \/ u = t /\ tasks'[u].status = "rework"
                  \/ tasks'[u].status = tasks[u].status
                  \/ /\ tasks'[u].status = "waiting_approval"
                     /\ tasks[u].status = "ready"
    BY <1>0, <2>1, RowsTyped DEF TaskRow
  <2>4. \A u \in Ids : RowMoves(u)
    BY <2>1, <2>3 DEF RowMoves, Reopened, Waiting, Closed
  <2>. QED
    BY <1>1, <2>2, <2>4 DEF RowsMove
<1>5. ASSUME NEW t \in Ids, NEW p \in Ids, Unlink(t, p)
      PROVE  RowsMove /\ Ids' = Ids
  <2>1. UNCHANGED <<pushed, reopened>>
    BY <1>5 DEF Unlink, history
  <2>2. CASE tasks' = tasks
    BY <2>1, <2>2, RowsStay DEF Ids
  <2>3. CASE tasks[t].status = "waiting_approval" /\ tasks' = SetStatus({t}, "ready")
    BY <1>0, <2>1, <2>3, StatusMoves DEF TaskStatus, Waiting, Closed
  <2>. QED
    BY <1>5, <2>2, <2>3 DEF Unlink
<1>6. RowsMove /\ Ids' = Ids
  BY <1>2, <1>3, <1>4, <1>5 DEF OwnerAction
<1>. QED
  BY <1>1, <1>6, GoalsStay, CallsStay DEF PlanStep

LEMMA WorkPlans ==
  ASSUME TypeOK, PlanInv, Work
  PROVE  PlanStep
<1>0. TablesOK
  BY TypeParts
<1>1. UNCHANGED <<goals, call>>
  BY DEF Work, Promote, Claim, Complete
<1>2. ASSUME Promote
      PROVE  RowsMove /\ Ids' = Ids
  BY <1>0, <1>2, ReadyMoves DEF Promote, history
<1>3. ASSUME NEW t \in Ids, Claim(t)
      PROVE  RowsMove /\ Ids' = Ids
  <2>1. PICK row : row = [tasks[t] EXCEPT !.status = "running", !.live = @ + 1]
    OBVIOUS
  <2>2. /\ tasks' = [tasks EXCEPT ![t] = row] /\ row.status = "running"
        /\ row.goal = tasks[t].goal /\ row.plan = tasks[t].plan
    BY <1>0, <1>3, <2>1, RowsTyped DEF Claim, TaskRow
  <2>3. tasks[t].status \notin Closed /\ UNCHANGED <<pushed, reopened>>
    BY <1>3 DEF Claim, Closed, history
  <2>. QED
    BY <1>0, <2>2, <2>3, RowMovesOn DEF Closed, Waiting
<1>4. ASSUME NEW t \in Ids,
             NEW report \in {"done", "manual", "blocked", "failed"},
             Complete(t, report)
      PROVE  RowsMove /\ Ids' = Ids
  <2>1. PICK s : s = IF report = "done" /\ tasks[t].gate THEN "manual" ELSE report
    OBVIOUS
  <2>2. PICK row : row = [tasks[t] EXCEPT !.status = s, !.live = @ - 1,
                            !.gate = tasks[t].gate \/ report = "manual"]
    OBVIOUS
  <2>3. /\ tasks' = [tasks EXCEPT ![t] = row] /\ row.status = s
        /\ row.goal = tasks[t].goal /\ row.plan = tasks[t].plan
    BY <1>0, <1>4, <2>1, <2>2, RowsTyped DEF Complete, TaskRow
  <2>4. tasks'[t] = row
    BY <1>0, <2>3, RowsTyped
  <2>5. /\ reopened' = reopened \cup Reopened /\ UNCHANGED pushed
        /\ s \in {"done", "manual", "blocked", "failed"}
    BY <1>4, <2>1 DEF Complete
  <2>6. s \notin Closed => tasks[t].status \notin Closed \/ t \in reopened'
    BY <2>3, <2>4, <2>5 DEF Reopened
  <2>. QED
    BY <1>0, <2>3, <2>5, <2>6, RowMovesOn DEF Waiting
<1>5. RowsMove /\ Ids' = Ids
  BY <1>2, <1>3, <1>4 DEF Work
<1>. QED
  BY <1>1, <1>5, GoalsStay, CallsStay DEF PlanStep

-----------------------------------------------------------------------------

LEMMA PlanNext ==
  ASSUME OneCaller, LifeInv, PlanInv, [Next]_vars
  PROVE  PlanInv'
<1>1. TypeOK /\ Fresh
  BY DEF LifeInv, IInv
<1>2. CASE Next
  <2>1. PlanStep
    BY <1>1, <1>2, NewCallStep, CallStepPlans, OwnerPlans, WorkPlans DEF Next
  <2>. QED
    BY <1>1, <2>1, PlanMoves DEF PlanStep
<1>3. CASE UNCHANGED vars
  BY <1>3 DEF vars, history, PlanInv, PlanReady, Parked, OpenPlans, Children, Ids,
              Tidy
<1>. QED
  BY <1>2, <1>3

LEMMA PlanHolds == Init => PlanInv
<1>. SUFFICES ASSUME Init PROVE PlanInv
  OBVIOUS
<1>1. Ids = {} /\ reopened = {} /\ \A c \in Clients : call[c] = Idle
  BY DEF Init, Ids
<1>2. \A g \in Goals : Parked(g) = {} /\ OpenPlans(g) = {}
  BY <1>1 DEF Parked, OpenPlans, Children
<1>. QED
  BY <1>1, <1>2 DEF PlanInv, Planning, Idle

LEMMA PlanInvariant == ASSUME OneCaller PROVE Spec => []PlanInv
<1>1. Init => LifeInv /\ PlanInv
  BY LifeInit, PlanHolds
<1>2. LifeInv /\ PlanInv /\ [Next]_vars => (LifeInv /\ PlanInv)'
  BY LifeNext, PlanNext
<1>. QED
  BY <1>1, <1>2, PTL DEF Spec

\* However often one caller asks for planning, and wherever it dies, a goal has
\* at most one planning task in its backlog.
THEOREM PlanningAdopts == ASSUME OneCaller PROVE Spec => []OneParkedPlan
<1>1. TypeOK /\ PlanInv => OneParkedPlan
  <2>. SUFFICES ASSUME TypeOK, PlanInv, NEW t \in Ids, NEW u \in Ids,
                       tasks[t].plan, tasks[t].status = "planned",
                       tasks[u].plan, tasks[u].status = "planned",
                       tasks[t].goal = tasks[u].goal
                PROVE  t = u
    BY DEF OneParkedPlan
  <2>1. tasks[t].goal \in Goals
    BY TypeParts, RowsTyped
  <2>. QED
    BY <2>1 DEF PlanInv, Parked, Children
<1>. QED
  BY <1>1, PlanInvariant, GoalsTypeCorrect, PTL

\* With one caller, a release leaves no task of its goal in the backlog, and
\* none is put there afterwards.
THEOREM ReleaseTakesAll == ASSUME OneCaller PROVE Spec => []NothingStranded
<1>1. PlanInv => NothingStranded
  BY DEF PlanInv, NothingStranded
<1>. QED
  BY <1>1, PlanInvariant, PTL

\* With one caller, a planning task comes into the queue only by the owner's
\* hand, unless a closed task of its goal was opened again.
THEOREM PlansNeverRun == ASSUME OneCaller PROVE Spec => []PlanStaysParked
<1>1. PlanInv => PlanStaysParked
  BY DEF PlanInv, PlanStaysParked, Tidy, Waiting
<1>. QED
  BY <1>1, PlanInvariant, PTL
=============================================================================
