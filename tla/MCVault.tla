------------------------------- MODULE MCVault -------------------------------
(* Vault for TLC: the library note and the quarantine share only the key, so *)
(* an instance has the one or the other, and the passphrase and the code     *)
(* change beside the quarantine.                                             *)
EXTENDS Vault, TLC

OneOfThem ==
  /\ Init
  /\ \/ rows # {} /\ open = {} /\ budget.changes = 0
     \/ rows = {} /\ budget.changes = MaxChanges
MCSpec == OneOfThem /\ [][Next]_vars
AnyPhrase == Permutations(Phrases)

\* At most three incidents: content written, a restart or death, a failure.
Bounded ==
  (items - 1) + (MaxCrashes - budget.crashes) + (MaxFaults - budget.faults) <= 3
=============================================================================
