------------------------------ MODULE Notices ------------------------------
(***************************************************************************)
(* From status changes to the bell and the phone (core/wm_store.py,        *)
(* backend/push.py).  The dispatcher's tick and every browser that polls   *)
(* GET /api/notifications run the same sync_and_push, and may overlap: each*)
(* reads watermarks and rows in autocommit and writes afterwards.          *)
(*                                                                         *)
(* Time is the order of status changes: change i happens at 2 * i, a row   *)
(* written after it and before the next at 2 * i + 1.                      *)
(***************************************************************************)
EXTENDS Naturals, Sequences, FiniteSets

CONSTANTS Syncers,        \* the tick and the polling browsers
          None

VARIABLES moves,          \* state_transitions: the task and its new status
          notice,         \* notifications, by id
          mark,           \* notif_last_transition_id
          pushMark,       \* push_last_notification_id
          sync,           \* where each syncer is and what it has read
          buzzed          \* history: notifications sent to the phone

noticeVars == <<moves, notice, mark, pushMark, sync, buzzed>>

NOTIFY_NEEDS_YOU == {"blocked"}
NOTIFY_INFO      == {"done"}
Attention        == {"needs_you", "question"}
Moment           == 2 * Len(moves) + 1
Idle == [at |-> "idle", last |-> 0, top |-> 0, rows |-> {}, ids |-> {}]
MaxId(S) == CHOOSE n \in S : \A m \in S : m <= n

NoticesInit ==
    /\ moves = <<>> /\ notice = <<>>
    /\ mark = 0 /\ pushMark = 0
    /\ sync = [s \in Syncers |-> Idle]
    /\ buzzed = {}

(* One status change of a task, as the engine records it.                  *)
Moved(t, to) == moves' = Append(moves, [task |-> t, to |-> to])

(* INSERT OR IGNORE: a source_key that is there already is a no-op.        *)
Keys(rows) == {rows[n].key : n \in DOMAIN rows}
Inserted(rows, row) == IF row.key \in Keys(rows) THEN rows ELSE Append(rows, row)
add_notification(kind, task, key) ==
    notice' = Inserted(notice, [kind |-> kind, task |-> task, key |-> key,
                                ts |-> Moment, read |-> FALSE, seen |-> FALSE])

Step(s, at, next) == sync[s].at = at /\ sync' = [sync EXCEPT ![s] = next]

(* sync_notifications reads its watermark and the newest change ...        *)
Start(s) ==
    /\ Step(s, "idle", [Idle EXCEPT !.at = "rows", !.last = mark, !.top = Len(moves)])
    /\ UNCHANGED <<moves, notice, mark, pushMark, buzzed>>

(* ... then the changes since, which may be more by now.                   *)
ReadRows(s) ==
    /\ Step(s, "rows", [sync[s] EXCEPT !.at = "write",
                          !.rows = {i \in DOMAIN moves : i > sync[s].last}])
    /\ UNCHANGED <<moves, notice, mark, pushMark, buzzed>>

(* A change makes the task's earlier attention rows stale, and adds its    *)
(* own row when the owner should hear of it.                               *)
StaledAlways(rows, i) ==                                    \* mutant
    [n \in DOMAIN rows |->
        IF rows[n].task = moves[i].task /\ rows[n].kind \in Attention
        THEN [rows[n] EXCEPT !.read = TRUE] ELSE rows[n]]
Staled(rows, i) ==
    [n \in DOMAIN rows |->
        IF /\ rows[n].task = moves[i].task /\ rows[n].kind \in Attention
           /\ rows[n].ts <= 2 * i
        THEN [rows[n] EXCEPT !.read = TRUE] ELSE rows[n]]

KindOf(to) == IF to \in NOTIFY_NEEDS_YOU THEN "needs_you" ELSE "done"
Noted(rows, i) ==
    IF moves[i].to \notin NOTIFY_NEEDS_YOU \union NOTIFY_INFO THEN Staled(rows, i)
    ELSE Inserted(Staled(rows, i),
                  [kind |-> KindOf(moves[i].to), task |-> moves[i].task,
                   key |-> <<"transition", i, 0>>, ts |-> 2 * i,
                   read |-> FALSE, seen |-> FALSE])

(* The bell after the changes from i on that were read.                    *)
Told(from, upto) ==
    LET after[i \in from .. upto] ==
            Noted(IF i = from THEN notice ELSE after[i - 1], i)
    IN  IF from > upto THEN notice ELSE after[upto]

WriteSyncLatest(s) ==                                       \* mutant
    /\ Step(s, "write", [Idle EXCEPT !.at = "unpushed"])
    /\ notice' = Told(sync[s].last + 1, sync[s].last + Cardinality(sync[s].rows))
    /\ mark' = Len(moves)
    /\ UNCHANGED <<moves, pushMark, buzzed>>
WriteSync(s) ==
    /\ Step(s, "write", [Idle EXCEPT !.at = "unpushed"])
    /\ notice' = Told(sync[s].last + 1, sync[s].last + Cardinality(sync[s].rows))
    /\ mark' = sync[s].top
    /\ UNCHANGED <<moves, pushMark, buzzed>>

(* unpushed_notifications: the ids past the push watermark are read, then  *)
(* the watermark moves to the last of them.                                *)
ReadUnpushed(s) ==
    /\ Step(s, "unpushed",
            IF \E n \in DOMAIN notice : n > pushMark
            THEN [Idle EXCEPT !.at = "marks",
                              !.ids = {n \in DOMAIN notice : n > pushMark}]
            ELSE Idle)
    /\ UNCHANGED <<moves, notice, mark, pushMark, buzzed>>

LastOfAll(ids) == Len(notice)                               \* mutant
LastOf(ids) == MaxId(ids)

MarkPushed(s) ==
    /\ Step(s, "marks", [sync[s] EXCEPT !.at = "push"])
    /\ pushMark' = LastOf(sync[s].ids)
    /\ UNCHANGED <<moves, notice, mark, buzzed>>

(* One buzz per task and batch, none for a row that was read meanwhile.    *)
collapse_for_push(ids) ==
    LET unread == {n \in ids : ~notice[n].read}
    IN  {n \in unread : ~ \E m \in unread : m > n /\ notice[m].task = notice[n].task}

push_notifications(s) ==
    /\ Step(s, "push", Idle)
    /\ buzzed' = buzzed \union collapse_for_push(sync[s].ids)
    /\ UNCHANGED <<moves, notice, mark, pushMark>>

(* The owner opens the bell.                                               *)
MarkRead == \E n \in DOMAIN notice :
    /\ ~notice[n].read
    /\ notice' = [notice EXCEPT ![n].read = TRUE, ![n].seen = TRUE]
    /\ UNCHANGED <<moves, mark, pushMark, sync, buzzed>>

SyncStep(s) == \/ Start(s) \/ ReadRows(s) \/ WriteSync(s)
               \/ ReadUnpushed(s) \/ MarkPushed(s) \/ push_notifications(s)

----------------------------------------------------------------------------
(* No change that concerns the owner is skipped: what the watermark has    *)
(* passed is in the bell, however syncs overlap and wherever one dies.     *)
BellComplete ==
    \A i \in 1 .. mark :
        moves[i].to \in NOTIFY_NEEDS_YOU \union NOTIFY_INFO =>
            <<"transition", i, 0>> \in Keys(notice)

(* Nor is the owner's phone passed over, whoever wrote the row and however *)
(* syncs overlap: of every row the push watermark has passed, the row or a *)
(* later one of its task has buzzed, it is read, or a caller is about to   *)
(* push it -- if no caller died (the watermark moves before the push).     *)
Buzzed(clean) ==
    clean => \A n \in 1 .. pushMark :
        \/ notice[n].read
        \/ \E m \in buzzed : m >= n /\ notice[m].task = notice[n].task
        \/ \E s \in Syncers : sync[s].at = "push" /\ n \in sync[s].ids

(* A question or a reminder is never swallowed by an older change of its   *)
(* task: it is read because the owner read it or the task moved on since.  *)
NotSwallowed ==
    \A n \in DOMAIN notice :
        notice[n].read /\ notice[n].key[1] # "transition" =>
            \/ notice[n].seen
            \/ \E i \in DOMAIN moves : /\ moves[i].task = notice[n].task
                                       /\ 2 * i > notice[n].ts
=============================================================================
