------------------------------ MODULE Landing ------------------------------
(***************************************************************************)
(* Where the code of a run lives: its git worktree and branch              *)
(* (core/wm_dispatch.py resolve_start_point, run_workdir), the fast-forward*)
(* of the primary checkout onto an approved branch (core/wm_store.py       *)
(* land_approved_run) and the reaping of spent worktrees                   *)
(* (core/worktree_gc.py), composed with every step of Engine.              *)
(*                                                                         *)
(* A history is the set of commits reachable from its tip.  Every run      *)
(* makes at most one commit, named by its id; 0 is the first commit and    *)
(* Own the one the owner makes by hand.  A commit has one history only, so *)
(* inclusion of histories is ancestry.                                     *)
(***************************************************************************)
EXTENDS Engine

VARIABLES
  tree,      \* run -> where it works: "none", "worktree", "primary", "gone"
  branch,    \* run -> history of wm/run-<id>; {} when it has no branch
  edits,     \* run -> kinds of uncommitted files in its worktree
  main,      \* history of the primary checkout
  dirty,     \* the primary checkout has uncommitted files
  fresh,     \* tasks whose last recorded end is younger than GRACE
  sweep,     \* sweeper -> worktrees it is about to remove, what it saved
  stamp,     \* history: task -> its branch when its 'done' was approved and
             \* none of its runs was on its way
  waived,    \* history: tasks waived while a run of theirs was on its way
  approved   \* history: every branch as it was when approved

git == <<tree, branch, edits, main, dirty, fresh, sweep, stamp, waived, approved>>
landingVars == <<vars, git>>

Own == MaxRuns + 1
Kinds == {"untracked", "modified"}
Terminal == {"done", "failed", "cancelled"}

LandingInit ==
  /\ Init
  /\ tree = [r \in RunIds |-> "none"]
  /\ branch = [r \in RunIds |-> {}]
  /\ edits = [r \in RunIds |-> {}]
  /\ main = {0} /\ dirty = FALSE
  /\ fresh = {}
  /\ sweep = [p \in {"tick", "cli"} |-> {}]
  /\ stamp = [t \in Tasks |-> {}] /\ waived = {} /\ approved = {}

-----------------------------------------------------------------------------
(* The start point of a run *)

\* Mutation: the newest run, whether or not it has a branch.
LastRun(t, except) ==
  {r \in RunsOf(t) \ except : \A q \in RunsOf(t) \ except : q <= r}

\* get_task_last_branched_run: at most one run.
LastBranched(t, except) ==
  {r \in RunsOf(t) \ except :
     /\ branch[r] # {}
     /\ \A q \in RunsOf(t) \ except : branch[q] # {} => q <= r}

Tip(t) == UNION {branch[r] : r \in LastBranched(t, {})}

\* By run recency: of one finished parent's branch and its own earlier one the
\* newer; several parents are never picked from.
StartPoint(t, r) ==
  LET own == LastBranched(t, {r})
      done == {p \in Tasks : <<t, p>> \in Deps /\ tasks[p].status = "done"}
      parents == UNION {LastBranched(p, {}) : p \in done}
      choice == IF Cardinality(parents) > 1 THEN own ELSE own \cup parents
  IN  IF choice = {} THEN main
      ELSE branch[CHOOSE x \in choice : \A y \in choice : y <= x]

Unplaced == cur.review = 0 /\ cur.task \in Code /\ tree[cur.run] = "none"

\* set_run_workdir: where the run works, and its branch if it has one.
Placed(where, history) ==
  /\ tree' = [tree EXCEPT ![cur.run] = where]
  /\ branch' = [branch EXCEPT ![cur.run] = history]

\* run_workdir.  Git may refuse the start point, then the
\* branch is cut from HEAD; or refuse the worktree, then the run works in the
\* primary checkout and has no branch.
PlaceRun ==
  /\ pc = "launch" /\ Unplaced
  /\ LET start == StartPoint(cur.task, cur.run) IN
       \/ Placed("worktree", start) /\ UNCHANGED budget
       \/ start # main /\ Placed("worktree", main) /\ Fault
       \/ Placed("primary", {}) /\ Fault
  /\ UNCHANGED <<ledger, tick, stop, wrapper, callers,
                 edits, main, dirty, fresh, sweep, stamp, waived, approved>>

-----------------------------------------------------------------------------
(* Agents and the owner write files *)

EngineIdle == UNCHANGED vars

AgentAt(r, place) ==
  wrapper[r].state = "agent" /\ runs[r].review = 0 /\ tree[r] = place

AgentEdits(r) ==
  /\ EngineIdle
  /\ \/ /\ AgentAt(r, "worktree") /\ edits[r] = {} /\ r \notin branch[r]
        /\ \E k \in Kinds : edits' = [edits EXCEPT ![r] = {k}]
        /\ UNCHANGED dirty
     \/ AgentAt(r, "primary") /\ dirty' = TRUE /\ UNCHANGED edits
  /\ UNCHANGED <<tree, branch, main, fresh, sweep, stamp, waived, approved>>

AgentCommits(r) ==
  /\ EngineIdle
  /\ \/ /\ AgentAt(r, "worktree") /\ edits[r] # {}
        /\ branch' = [branch EXCEPT ![r] = @ \cup {r}]
        /\ edits' = [edits EXCEPT ![r] = {}]
        /\ UNCHANGED <<main, dirty>>
     \/ /\ AgentAt(r, "primary") /\ dirty /\ r \notin main
        /\ main' = main \cup {r} /\ dirty' = FALSE
        /\ UNCHANGED <<branch, edits>>
  /\ UNCHANGED <<tree, fresh, sweep, stamp, waived, approved>>

\* The owner edits in the primary checkout, and then commits or reverts.
OwnerWorks ==
  /\ \/ /\ ~ dirty /\ dirty' = TRUE
        /\ OwnerOp
        /\ UNCHANGED main
     \/ /\ dirty /\ dirty' = FALSE
        /\ \/ main' = main \cup {Own}
           \/ UNCHANGED main
        /\ UNCHANGED budget
  /\ UNCHANGED <<ledger, tick, stop, wrapper, callers,
                 tree, branch, edits, fresh, sweep, stamp, waived, approved>>

-----------------------------------------------------------------------------
(* What git adds to a step of the engine *)

GitIdle == UNCHANGED <<tree, branch, edits, main, dirty, sweep>>

\* No work run of the task is being launched, works or is about to be resumed.
Settled(t) ==
  /\ ~ (pc \in {"claimed", "launch"} /\ cur.task = t /\ cur.review = 0)
  /\ \A r \in WorkRuns(t) : ~ Working(r) /\ answer[r] # "resumed"

\* A task that ends with a recorded transition starts its grace period anew;
\* ok are the tasks whose 'done' this step approves.
Marks(ok) ==
  /\ fresh' = fresh \cup
       {t \in Tasks : tasks'[t] # tasks[t] /\ tasks'[t].status \in Terminal}
  /\ stamp' = [t \in Tasks |-> IF tasks'[t].status # "done" THEN {}
                               ELSE IF t \in ok /\ Settled(t) THEN Tip(t)
                               ELSE stamp[t]]
  /\ approved' = approved \cup {Tip(t) : t \in ok}
  /\ UNCHANGED waived

\* A work run is launched where it was placed, and a tick ends when its sweep
\* has.
TickStep ==
  /\ Tick
  /\ pc = "launch" => ~ Unplaced
  /\ pc' = "idle" => sweep["tick"] = {}
  /\ GitIdle /\ Marks({})

\* uncommitted_paths on the run's workdir.
Uncommitted(r) ==
  \/ tree[r] = "worktree" /\ edits[r] # {}
  \/ tree[r] = "primary" /\ dirty

\* The commit contract: a code run's 'done' stands on a clean tree only.
Complete(r, report) ==
  /\ FinalizeWork(r, report)
  /\ runs[r].task \in Code =>
       /\ report = "done" => ~ Uncommitted(r)
       /\ report = "dirty" => Uncommitted(r)
  /\ GitIdle /\ Marks({})

OtherWrapperStep(r) ==
  /\ \/ Boot(r) \/ BriefUnreadable(r) \/ CloseReview(r) \/ Reap(r)
     \/ \E report \in {"done", "blocked", "failed"} : FinalizeReview(r, report)
     \/ Resuming(r) \/ Question(r) \/ Answer(r)
  /\ GitIdle /\ Marks({})

VerdictStep(t) ==
  /\ \/ OwnerVerdict(t)
     \/ \E r \in RunsOf(t) : Verdict(r)
  /\ GitIdle
  /\ Marks(IF tasks'[t].status = "done" THEN {t} ELSE {})

\* waive_review records no transition, and nobody lands what it lets pass.
WaiveStep(t) ==
  /\ OwnerWaive(t)
  /\ GitIdle
  /\ stamp' = [stamp EXCEPT ![t] = {}]
  /\ waived' = IF Settled(t) THEN waived ELSE waived \cup {t}
  /\ UNCHANGED <<fresh, approved>>

CloseStep(t) == OwnerClose(t) /\ GitIdle /\ Marks({t})

OtherOwnerStep(t) ==
  /\ \/ OwnerEdit(t)
     \/ \E keep \in BOOLEAN : StopRead(t, keep)
  /\ GitIdle /\ Marks({})

StopStep == Stop /\ GitIdle /\ Marks({})
PromoteStep(t) == Promote(t) /\ GitIdle /\ Marks({})

\* Mutation: git merge without --ff-only.
RefusedMerging(t) == t \in Code /\ LastBranched(t, {}) # {} /\ dirty

\* land_approved_run on a task with a branch: refused when the checkout is
\* dirty or the two histories have parted.
Refused(t) ==
  /\ t \in Code /\ LastBranched(t, {}) # {}
  /\ \/ dirty
     \/ ~ (main \subseteq Tip(t) \/ Tip(t) \subseteq main)

\* _land_and_report: the tip and the checkout are read now, not when the task
\* was approved; a refusal blocks the task whatever its status has become.
LandStep(t) ==
  /\ Land(t)
  /\ IF Refused(t)
       THEN /\ tasks' = WithTask(t, "blocked") /\ promoting' = promoting
            /\ UNCHANGED main
       ELSE /\ tasks' = tasks
            /\ main' = IF t \in Code THEN main \cup Tip(t) ELSE main
  /\ UNCHANGED <<tree, branch, edits, dirty, sweep>>
  /\ Marks({})

CrashStep ==
  /\ \/ /\ ServiceCrash \/ TickAborts
        /\ sweep' = [sweep EXCEPT !["tick"] = {}]
     \/ /\ \E t \in Tasks : CallerCrash(t)
        /\ UNCHANGED sweep
     \/ /\ \E r \in RunIds : WrapperCrash(r)
        /\ UNCHANGED sweep
  /\ UNCHANGED <<tree, branch, edits, main, dirty>>
  /\ Marks({})

-----------------------------------------------------------------------------
(* Reaping: the tick's sweep, and `wm gc --apply --all` *)

\* The grace period of 24 hours outlives a launch, an answer and every agent
\* (killed after 6).
GraceEnds(t) ==
  /\ t \in fresh /\ Settled(t) /\ \A r \in RunsOf(t) : ~ Working(r)
  /\ fresh' = fresh \ {t}
  /\ EngineIdle
  /\ UNCHANGED <<tree, branch, edits, main, dirty, sweep, stamp, waived, approved>>

\* holds: neither the run, nor its process, nor its task, nor the grace period
\* keeps the worktree.
Reapable(r) ==
  /\ tree[r] = "worktree"
  /\ runs[r].status \in Terminal /\ ~ Alive(r, runs[r].pid)
  /\ tasks[runs[r].task].status \in Terminal
  /\ runs[r].task \notin fresh

\* Mutation: a tree with modified files only passes for clean.
CleanOfUntracked(r) == "untracked" \notin edits[r]

Clean(r) == edits[r] = {}

PlanSweep ==
  /\ pc = "scan" /\ scan = {}
  /\ LET reap == {r \in DOMAIN runs : Reapable(r) /\ Clean(r)} IN
       /\ reap # {}
       /\ sweep' = [sweep EXCEPT !["tick"] = {[run |-> r, saved |-> {}] : r \in reap}]
  /\ EngineIdle
  /\ UNCHANGED <<tree, branch, edits, main, dirty, fresh, stamp, waived, approved>>

\* parachute: the files git does not track.
Archived(r) == edits[r] \cap {"untracked"}

\* The owner's sweep takes the dirty ones too, after the archive.  It does not
\* take the dispatch flock.
PlanGc ==
  /\ OwnerOp /\ UNCHANGED <<ledger, tick, stop, wrapper, callers>>
  /\ LET reap == {r \in DOMAIN runs : Reapable(r)} IN
       /\ reap # {}
       /\ sweep' = [sweep EXCEPT !["cli"] =
            {[run |-> r, saved |-> Archived(r)] : r \in reap}]
  /\ UNCHANGED <<tree, branch, edits, main, dirty, fresh, stamp, waived, approved>>

\* git worktree remove --force, on the plan made before; the branch stays.
RemoveTree(p, x) ==
  /\ x \in sweep[p]
  /\ sweep' = [sweep EXCEPT ![p] = @ \ {x}]
  /\ IF tree[x.run] = "worktree"
       THEN /\ tree' = [tree EXCEPT ![x.run] = "gone"]
            /\ edits' = [edits EXCEPT ![x.run] = {}]
       ELSE UNCHANGED <<tree, edits>>
  /\ EngineIdle
  /\ UNCHANGED <<branch, main, dirty, fresh, stamp, waived, approved>>

Sweeping ==
  \/ PlanSweep \/ PlanGc
  \/ \E p \in {"tick", "cli"} : \E x \in sweep[p] : RemoveTree(p, x)

-----------------------------------------------------------------------------

LandingNext ==
  \/ TickStep \/ StopStep \/ PlaceRun \/ OwnerWorks \/ CrashStep \/ Sweeping
  \/ \E t \in Tasks :
       \/ VerdictStep(t) \/ WaiveStep(t) \/ CloseStep(t) \/ OtherOwnerStep(t)
       \/ LandStep(t) \/ PromoteStep(t) \/ GraceEnds(t)
  \/ \E r \in RunIds :
       \/ AgentEdits(r) \/ AgentCommits(r) \/ OtherWrapperStep(r)
       \/ \E report \in {"done", "manual", "blocked", "failed", "dirty"} :
            Complete(r, report)

LandingSpec == LandingInit /\ [][LandingNext]_landingVars

-----------------------------------------------------------------------------
(* Properties *)

\* An approval either reaches the primary checkout or takes the task out of
\* 'done': no code task rests in 'done' with approved work on its branch only
\* ("an approval that did not reach `main` looks identical to one that did").
\* An approval given while a run of the task is on its way is left out: it is
\* the newest branch at the time of the landing that lands.
ApprovedLands ==
  crashes = MaxCrashes =>
    \A t \in Code : stamp[t] \subseteq main \/ t \in landing

\* As long as such an approval stands, the landing moves the primary checkout
\* to the tree that was approved and to no other, although the branch is read
\* again after the verdict.
LandsWhatWasApproved ==
  [][\A t \in landing \ landing' :
       stamp[t] # {} => main' \in approved \cup {main}]_landingVars

\* The engine's own sweep destroys no uncommitted work, and no sweep takes the
\* tree from under a live run, although trees are removed on a plan made
\* earlier ("A live run is untouchable", worktree_gc).  A task waived while a
\* run of it is on its way is left out: it has no grace period, and a run
\* whose pid was lost then looks dead.
WorkKept ==
  [][\A r \in RunIds :
       /\ tree[r] = "worktree" /\ tree'[r] = "gone"
       /\ runs[r].task \notin waived
       => /\ ~ Working(r)
          /\ sweep'["tick"] # sweep["tick"] => edits[r] = {}]_landingVars
=============================================================================
