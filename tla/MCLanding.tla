----------------------------- MODULE MCLanding -----------------------------
(* Instances of Landing for TLC. *)
EXTENDS Landing

PushAfterBuild == {<<"push", "build">>}

\* One thing out of the ordinary (an owner action, a crash or a fault) in a
\* behaviour, and none while the second task is open for work.  Only the first
\* run asks a question.
Spent1 == (MaxOwnerOps - ownerOps) + (MaxCrashes - crashes) + (MaxFaults - faults)
Bounded ==
  /\ Spent1 <= IF tasks["push"].gate THEN 1 ELSE 0
  /\ asked \subseteq {1}

MCInit == LandingInit /\ ~ tasks["build"].gate
MCSpec == MCInit /\ [][LandingNext]_landingVars

\* worktree_gc: "Anything dirty waits for `wm gc`, which parachutes the content
\* before removing it".  The archive takes untracked files only; a change to a
\* tracked file goes with the tree.
ParachutedFirst ==
  [][\A x \in sweep["cli"] \ sweep'["cli"] :
       tree[x.run] = "worktree" => edits[x.run] \subseteq x.saved]_landingVars
=============================================================================
