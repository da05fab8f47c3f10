---------------------------- MODULE MCSchedules ----------------------------
(* A one-time reminder for the owner, the librarian's heartbeat and a      *)
(* schedule the owner may yet create.  The inbox is empty at first, or it  *)
(* is not and there is only the heartbeat.                                 *)
EXTENDS Schedules
CONSTANTS reminder, triage, weekly

OneOfThem == Init /\ Live(triage) /\ (Live(reminder) <=> ~work)
MCSpec == OneOfThem /\ [][Next]_vars
=============================================================================
