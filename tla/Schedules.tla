----------------------------- MODULE Schedules -----------------------------
(***************************************************************************)
(* Schedules (core/wm_store.py, core/schedule.py, backend/schedules.py,    *)
(* backend/dispatcher.py): the tick fires what is due, the owner runs,     *)
(* pauses, edits and deletes schedules meanwhile, captures pull a heartbeat*)
(* schedule forward.  What fires becomes a task, whose status changes and  *)
(* reminder reach the owner through Notices.                               *)
(*                                                                         *)
(* A firing is a row read some time ago, a task created, a link, a release *)
(* to the queue, a reminder and, last, the move of next_fire_at: each a    *)
(* transaction of its own.                                                 *)
(***************************************************************************)
EXTENDS Notices

CONSTANTS Names,          \* the ids schedules may have
          FirstNames,     \* those that may exist at first
          OneShot,        \* the one-time reminders among them
          Heartbeat,      \* those with a heartbeat check
          Overlapping,    \* those with overlap = always
          ForOwner,       \* those whose task is the owner's
          Period, Nudge, LateAfter,
          MaxClock, MaxMoves, MaxOwnerOps, MaxCrashes

\* A deleted schedule is neither an id nor a row, a cron fires again.
ASSUME SchedulesAssumption ==
    /\ None \notin Names
    /\ None \notin [enabled : BOOLEAN, next : Nat \union {None}, last : Nat]
    /\ Period \in Nat \ {0} /\ Nudge \in Nat

VARIABLES clock,
          sched,          \* rows of schedules; None when deleted
          task,           \* tasks: status and the schedule they come from
          work,           \* the heartbeat check has work
          hand,           \* the firing each of tick and owner is busy with
          due,            \* rows fire_due has read and not handled yet
          ops, crashes,
          manual          \* history: schedules the owner ran or resumed

scheduleVars == <<clock, sched, task, work, hand, due, ops, crashes, manual>>
vars == <<noticeVars, scheduleVars>>

Hands   == {"tick", "owner"}
NoFiring == [at |-> "idle", row |-> None, name |-> None, kind |-> "none", task |-> 0]
OPEN_TASK_STATUSES == {"planned", "ready", "blocked"}

(* next_fires: the first of the schedule's times strictly after `after`.   *)
NextFire(after) == Period * ((after \div Period) + 1)

Fresh(enabled, now) == [enabled |-> enabled, next |-> NextFire(now), last |-> 0]

Init ==
    /\ NoticesInit
    /\ clock = 0
    /\ \E first \in SUBSET FirstNames :
          sched = [s \in Names |-> IF s \in first THEN Fresh(TRUE, 0) ELSE None]
    /\ task = <<>>
    /\ work \in BOOLEAN
    /\ hand = [h \in Hands |-> NoFiring]
    /\ due = {}
    /\ ops = 0 /\ crashes = 0
    /\ manual = {}

Unwatched == UNCHANGED <<notice, mark, pushMark, sync, buzzed>>
Live(s)   == sched[s] # None

TimePasses ==
    /\ clock < MaxClock /\ clock' = clock + 1
    /\ UNCHANGED <<noticeVars, sched, task, work, hand, due, ops, crashes, manual>>

----------------------------------------------------------------------------
(* The tick.  fire_due reads every due row with the status of its last     *)
(* task, once.                                                             *)

StatusOf(t) == IF t = 0 THEN "none" ELSE task[t].status
IsDue(s) == Live(s) /\ sched[s].enabled /\ sched[s].next # None /\ sched[s].next <= clock

ReadDue ==
    /\ hand["tick"].at = "idle" /\ due = {} /\ sync["tick"].at = "idle"
    /\ \E s \in Names : IsDue(s)
    /\ due' = {[name |-> s, next |-> sched[s].next,
                lastOpen |-> StatusOf(sched[s].last) \in OPEN_TASK_STATUSES,
                now |-> clock] : s \in {x \in Names : IsDue(x)}}
    /\ UNCHANGED <<noticeVars, clock, sched, task, work, hand, ops, crashes, manual>>

HeldBackNever(row) == FALSE                                 \* mutant
HeldBack(row) == row.name \notin Overlapping /\ row.lastOpen

(* One row: idle heartbeat and overlap skip it, else it fires.             *)
HasNoWork(row) == row.name \in Heartbeat /\ ~work
Outcome(row) == IF HasNoWork(row) \/ HeldBack(row) THEN "skipped"
                ELSE IF row.now - row.next > LateAfter THEN "late" ELSE "fired"
Firing(row) ==
    [at |-> IF Outcome(row) = "skipped" THEN "advance" ELSE "create",
     row |-> [row EXCEPT !.lastOpen = ~HasNoWork(row) /\ HeldBack(row)],
     name |-> row.name, kind |-> Outcome(row), task |-> 0]
Consider ==
    /\ hand["tick"].at = "idle"
    /\ \E row \in due : /\ due' = due \ {row}
                         /\ hand' = [hand EXCEPT !["tick"] = Firing(row)]
    /\ UNCHANGED <<noticeVars, clock, sched, task, work, ops, crashes, manual>>

----------------------------------------------------------------------------
(* _spawn_from_schedule, in the tick's hand or the owner's.                *)

At(h, at) == hand[h].at = at
Goes(h, at) == hand' = [hand EXCEPT ![h].at = at]

(* create_task: no link to its schedule yet.                               *)
Create(h) ==
    /\ At(h, "create")
    /\ task' = Append(task, [status |-> "planned", from |-> None])
    /\ hand' = [hand EXCEPT ![h].at = "link", ![h].task = Len(task) + 1]
    /\ UNCHANGED <<noticeVars, clock, sched, work, due, ops, crashes, manual>>

(* A schedule deleted meanwhile fails the link, and then the record of the *)
(* error as well: the pass ends, its other rows unhandled.                 *)
Link(h) ==
    /\ At(h, "link")
    /\ LET s == hand[h].name IN
       IF Live(s)
       THEN /\ task' = [task EXCEPT ![hand[h].task].from = s]
            /\ sched' = [sched EXCEPT ![s].last = hand[h].task]
            /\ Goes(h, "ready") /\ UNCHANGED due
       ELSE /\ hand' = [hand EXCEPT ![h] = NoFiring]
            /\ due' = IF h = "tick" THEN {} ELSE due
            /\ UNCHANGED <<task, sched>>
    /\ UNCHANGED <<noticeVars, clock, work, ops, crashes, manual>>

Release(h) ==
    /\ At(h, "ready")
    /\ task' = [task EXCEPT ![hand[h].task].status = "ready"]
    /\ Moved(hand[h].task, "ready")
    /\ IF h = "tick" THEN Goes(h, "remind")
       ELSE hand' = [hand EXCEPT ![h] = NoFiring]
    /\ Unwatched
    /\ UNCHANGED <<clock, sched, work, due, ops, crashes, manual>>

Remind ==
    /\ At("tick", "remind")
    /\ IF hand["tick"].name \in ForOwner
       THEN add_notification("needs_you", hand["tick"].task,
                             <<"reminder", hand["tick"].name, hand["tick"].row.next>>)
       ELSE UNCHANGED notice
    /\ Goes("tick", "advance")
    /\ UNCHANGED <<moves, mark, pushMark, sync, buzzed,
                   clock, sched, task, work, due, ops, crashes, manual>>

(* The last step moves next_fire_at past now, unconditionally; a one-time  *)
(* schedule that fired retires.  A skip for an open task with work waiting *)
(* tries again soon.                                                       *)
Retires(f) == f.name \in OneShot /\ f.kind \in {"fired", "late"}

Later(f) ==
    LET cron == NextFire(f.row.now)  soon == f.row.now + Nudge
    IN  IF /\ f.kind = "skipped" /\ f.name \in Heartbeat /\ f.row.lastOpen
           /\ soon < cron
        THEN soon ELSE cron

Advance ==
    /\ At("tick", "advance")
    /\ LET f == hand["tick"] IN
       sched' = IF ~Live(f.name) THEN sched
                ELSE IF Retires(f)
                     THEN [sched EXCEPT ![f.name].enabled = FALSE, ![f.name].next = None]
                     ELSE [sched EXCEPT ![f.name].next = Later(f)]
    /\ hand' = [hand EXCEPT !["tick"] = NoFiring]
    /\ UNCHANGED <<noticeVars, clock, task, work, due, ops, crashes, manual>>

----------------------------------------------------------------------------
(* The owner.                                                              *)

OwnerOp == ops < MaxOwnerOps /\ ops' = ops + 1 /\ hand["owner"].at = "idle"

(* The id of a deleted schedule may be given again.                        *)
CreateSchedule(s) ==
    /\ OwnerOp /\ ~Live(s)
    /\ \E enabled \in BOOLEAN : sched' = [sched EXCEPT ![s] = Fresh(enabled, clock)]
    /\ UNCHANGED <<noticeVars, clock, task, work, hand, due, crashes, manual>>

RunNow(s) ==
    /\ OwnerOp /\ Live(s)
    /\ hand' = [hand EXCEPT !["owner"] = [NoFiring EXCEPT !.at = "create", !.name = s,
                                                          !.kind = "manual"]]
    /\ manual' = manual \union {s}
    /\ UNCHANGED <<noticeVars, clock, sched, task, work, due, crashes>>

(* "Triage now" keeps the same gates as the tick.                          *)
TriageNow(s) ==
    /\ OwnerOp /\ Live(s) /\ s \in Heartbeat /\ sched[s].enabled /\ work
    /\ s \notin Overlapping => StatusOf(sched[s].last) \notin OPEN_TASK_STATUSES
    /\ hand' = [hand EXCEPT !["owner"] = [NoFiring EXCEPT !.at = "create", !.name = s,
                                                          !.kind = "manual"]]
    /\ manual' = manual \union {s}
    /\ UNCHANGED <<noticeVars, clock, sched, task, work, due, crashes>>

(* update_schedule: resuming, or a new cron, counts from now.              *)
Pause(s) ==
    /\ OwnerOp /\ Live(s) /\ sched' = [sched EXCEPT ![s].enabled = FALSE]
    /\ UNCHANGED <<noticeVars, clock, task, work, hand, due, crashes, manual>>
Resume(s) ==
    /\ OwnerOp /\ Live(s)
    /\ sched' = [sched EXCEPT ![s].enabled = TRUE, ![s].next = NextFire(clock)]
    /\ manual' = manual \union {s}
    /\ UNCHANGED <<noticeVars, clock, task, work, hand, due, crashes>>
Delete(s) ==
    /\ OwnerOp /\ Live(s)
    /\ sched' = [sched EXCEPT ![s] = None]
    /\ task' = [t \in DOMAIN task |-> IF task[t].from = s THEN [task[t] EXCEPT !.from = None]
                                      ELSE task[t]]
    /\ UNCHANGED <<noticeVars, clock, work, hand, due, crashes, manual>>

(* A capture is work for the heartbeat, and pulls its schedule forward, but*)
(* never to before now + Nudge.                                            *)
Capture ==
    /\ OwnerOp /\ work' = TRUE
    /\ sched' = [s \in Names |->
          IF /\ Live(s) /\ s \in Heartbeat /\ sched[s].enabled
             /\ sched[s].next # None /\ sched[s].next > clock + Nudge
          THEN [sched[s] EXCEPT !.next = clock + Nudge] ELSE sched[s]]
    /\ UNCHANGED <<noticeVars, clock, task, hand, due, crashes, manual>>

OpensBell ==
    /\ OwnerOp /\ MarkRead
    /\ UNCHANGED <<clock, sched, task, work, hand, due, crashes, manual>>

Owner ==
    \/ OpensBell \/ Capture
    \/ \E s \in Names : \/ CreateSchedule(s) \/ Delete(s) \/ Pause(s) \/ Resume(s)
                         \/ RunNow(s) \/ TriageNow(s)

----------------------------------------------------------------------------
(* The engine moves a released task; one that is done has seen to the work *)
(* its heartbeat reported.                                                 *)
TaskMoves(t, to) ==
    /\ Len(moves) < MaxMoves
    /\ \/ task[t].status = "ready" /\ to \in {"blocked", "done"}
       \/ task[t].status = "blocked" /\ to = "ready"
    /\ task' = [task EXCEPT ![t].status = to]
    /\ Moved(t, to)
    /\ work' = (work /\ ~(to = "done" /\ task[t].from \in Heartbeat))
    /\ Unwatched
    /\ UNCHANGED <<clock, sched, hand, due, ops, crashes, manual>>

(* The server dies: the tick, the owner's request and every sync with it.  *)
Crash ==
    /\ crashes < MaxCrashes /\ crashes' = crashes + 1
    /\ hand' = [h \in Hands |-> NoFiring] /\ due' = {}
    /\ sync' = [s \in Syncers |-> Idle]
    /\ UNCHANGED <<moves, notice, mark, pushMark, buzzed,
                   clock, sched, task, work, ops, manual>>

Fire == ReadDue \/ Consider \/ Remind \/ Advance
Spawn(h) == Create(h) \/ Link(h) \/ Release(h)
Telling(s) == SyncStep(s) /\ (s = "tick" => hand["tick"].at = "idle" /\ due = {})
                          /\ UNCHANGED scheduleVars

Next ==
    \/ TimePasses \/ Fire \/ Owner \/ Crash
    \/ \E h \in Hands : Spawn(h)
    \/ \E t \in DOMAIN task, to \in {"ready", "blocked", "done"} : TaskMoves(t, to)
    \/ \E s \in Syncers : Telling(s)

Spec == Init /\ [][Next]_vars

----------------------------------------------------------------------------
OwnerBuzzed == Buzzed(crashes = 0)

(* A schedule that does not overlap and that nobody runs by hand never has *)
(* two open tasks, not even when the server dies halfway through a firing  *)
(* and fires again.                                                        *)
OneAtATime ==
    \A s \in Names \ (Overlapping \union manual) :
        \A t, u \in DOMAIN task :
            /\ task[t].from = s /\ task[u].from = s
            /\ task[t].status \in OPEN_TASK_STATUSES
            /\ task[u].status \in OPEN_TASK_STATUSES
            => t = u
=============================================================================
