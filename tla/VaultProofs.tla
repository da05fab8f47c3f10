----------------------------- MODULE VaultProofs -----------------------------
(***************************************************************************)
(* Proofs about the vault, for every number of sessions, shells, secrets   *)
(* and items: a secret's file goes only when the secret is sealed; a move  *)
(* destroys only what it sealed, and what it leaves on disk is named; and, *)
(* when one caller alone may set the vault up, everything sealed opens     *)
(* with the passphrase and the code.                                       *)
(***************************************************************************)
EXTENDS Vault, TLAPS

-----------------------------------------------------------------------------
(* Types *)

Kinds == {"body", "thought", "photo", "secret", "unit", "wal"}
AllItems == [kind : Kinds, n : Nat \cup Units]
Pcs == {"idle", "found", "reopen", "park", "change", "recode", "list", "drain", "shred",
        "collect", "seal", "scrub", "unlink", "attach", "remove"}
Calls == [pc : Pcs, key : Nat, phrase : Phrases \cup {NoPhrase},
          seen : SUBSET (AllItems \cup Units), todo : SUBSET (AllItems \cup Units \cup Nat)]
\* What the steps of a call leave in its fields.
CallOK(c) ==
  /\ c.pc = "found" => c.phrase \in Phrases /\ \E n \in Nat : c.todo = {n}
  /\ c.pc = "reopen" => c.phrase \in Phrases
  /\ c.pc \in {"attach", "remove", "collect", "seal", "scrub", "unlink"} => c.seen \subseteq AllItems
  /\ c.pc \in {"scrub", "unlink"} => c.todo \subseteq AllItems
  /\ c.pc \in {"drain", "shred"} => c.todo \subseteq Units
  /\ c.pc = "shred" => c.seen \subseteq Units

MetaTyped == meta \in [phrase : Phrases \cup {NoPhrase}, key : Nat, code : Nat, codeKey : Nat]
MintedTyped == minted \in [keys : Nat, codes : Nat]
KeysTyped == keys \in [Sessions -> [key : Nat, idle : BOOLEAN]]
RowsTyped == rows \subseteq AllItems /\ held \in BOOLEAN
DiskTyped == disk \subseteq AllItems /\ named \subseteq AllItems
SealedTyped == sealed \subseteq [item : AllItems, key : Nat]
QuarantineTyped == open \subseteq Units /\ cache \subseteq Units
ItemsTyped == items \in Nat
BudgetTyped == budget \in [changes : Nat, crashes : Nat, faults : Nat]
CallTyped ==
  /\ call \in [Callers -> Calls]
  /\ \A c \in Callers : CallOK(call[c])
Typed == /\ MetaTyped /\ MintedTyped /\ KeysTyped /\ RowsTyped /\ DiskTyped /\ SealedTyped
         /\ QuarantineTyped /\ ItemsTyped /\ BudgetTyped /\ CallTyped

LEMMA CallSet ==
  ASSUME CallTyped, NEW c \in Callers, NEW r \in Calls, CallOK(r),
         call' = [call EXCEPT ![c] = r]
  PROVE  CallTyped'
BY DEF CallTyped

LEMMA IdleOK == Idle \in Calls /\ CallOK(Idle) /\ Idle.pc = "idle"
BY DEF Idle, Calls, Pcs, CallOK, NoPhrase

LEMMA Returned ==
  ASSUME CallTyped, NEW c \in Callers, Return(c)
  PROVE  CallTyped'
BY IdleOK, CallSet DEF Return

LEMMA ItemIn == ASSUME NEW k \in Kinds, NEW n \in Nat \cup Units PROVE Item(k, n) \in AllItems
BY DEF Item, AllItems

LEMMA WalIn == Wal \in AllItems
BY ItemIn DEF Wal, Kinds

LEMMA SealIn == ASSUME NEW what \in SUBSET AllItems, NEW k \in Nat
  PROVE Seal(what, k) \subseteq [item : AllItems, key : Nat]
BY DEF Seal

LEMMA Spent == ASSUME BudgetTyped, NEW what \in {"changes", "crashes", "faults"}, Spend(what)
  PROVE BudgetTyped'
BY DEF BudgetTyped, Spend

LEMMA CallParts == ASSUME CallTyped, NEW c \in Callers
  PROVE call[c] \in Calls /\ CallOK(call[c]) /\ call[c].key \in Nat
         /\ call[c].phrase \in Phrases \cup {NoPhrase}
BY DEF CallTyped, Calls

LEMMA KeyIn == ASSUME KeysTyped, NEW s \in Sessions PROVE keys[s].key \in Nat
BY DEF KeysTyped

LEMMA Caller == Sessions \subseteq Callers /\ Shells \subseteq Callers
BY DEF Callers

LEMMA TypesInitLooks ==
  ASSUME Typed, NEW c \in Callers, NEW p \in Phrases, InitLooks(c, p)
  PROVE  Typed'
<1>1. MintedTyped'
  BY DEF InitLooks, Typed, MintedTyped
<1>2. MetaTyped' /\ KeysTyped' /\ RowsTyped' /\ DiskTyped' /\ SealedTyped' /\
      QuarantineTyped' /\ ItemsTyped' /\ BudgetTyped'
  BY DEF InitLooks, Typed, Content, Quarantine, MetaTyped, KeysTyped, RowsTyped,
     DiskTyped, SealedTyped, QuarantineTyped, ItemsTyped, BudgetTyped
<1>3. c \in Callers
  BY Caller
<1> DEFINE r == [Idle EXCEPT !.pc = "found", !.key = minted'.keys, !.phrase = p, !.todo = {minted'.codes}]
<1>4. r \in Calls /\ CallOK(r)
  BY IdleOK, CallParts, <1>3, <1>1 DEF InitLooks, Typed, Calls, Pcs, CallOK, MintedTyped
<1>5. call' = [call EXCEPT ![c] = r]
  BY <1>3 DEF InitLooks, Typed, CallTyped, Goto, Return
<1> HIDE DEF r
<1>6. CallTyped'
  BY <1>3, <1>4, <1>5, CallSet DEF Typed
<1> QED
  BY <1>1, <1>2, <1>6 DEF Typed

LEMMA TypesUnlock ==
  ASSUME Typed, NEW c \in Callers, NEW p \in Phrases, NEW then \in {"park", "change", "list", "recode"}, Unlock(c, p, then)
  PROVE  Typed'
<1>1. MetaTyped' /\ MintedTyped' /\ KeysTyped' /\ RowsTyped' /\ DiskTyped' /\
      SealedTyped' /\ QuarantineTyped' /\ ItemsTyped' /\ BudgetTyped'
  BY DEF Unlock, Typed, Content, Quarantine, MetaTyped, MintedTyped, KeysTyped,
     RowsTyped, DiskTyped, SealedTyped, QuarantineTyped, ItemsTyped, BudgetTyped
<1>2. c \in Callers
  BY Caller
<1> DEFINE r == [Idle EXCEPT !.pc = then, !.key = meta.key]
<1>3. r \in Calls /\ CallOK(r)
  BY IdleOK, CallParts, <1>2 DEF Unlock, Typed, Calls, Pcs, CallOK, MetaTyped, At
<1>4. call' = [call EXCEPT ![c] = r]
  BY <1>2 DEF Unlock, Typed, CallTyped, Goto, Return
<1> HIDE DEF r
<1>5. CallTyped'
  BY <1>2, <1>3, <1>4, CallSet DEF Typed
<1> QED
  BY <1>1, <1>5 DEF Typed

LEMMA TypesSetPassphrase ==
  ASSUME Typed, NEW c \in Callers, NEW p \in Phrases, SetPassphrase(c, p)
  PROVE  Typed'
<1>1. MetaTyped'
  BY CallParts DEF SetPassphrase, Typed, MetaTyped, Rewrapped
<1>2. BudgetTyped'
  BY Spent DEF SetPassphrase, Typed, BudgetTyped, Goto
<1>3. MintedTyped' /\ KeysTyped' /\ RowsTyped' /\ DiskTyped' /\ SealedTyped' /\
      QuarantineTyped' /\ ItemsTyped'
  BY DEF SetPassphrase, Typed, Content, Quarantine, MintedTyped, KeysTyped,
     RowsTyped, DiskTyped, SealedTyped, QuarantineTyped, ItemsTyped
<1>4. c \in Callers
  BY Caller
<1> DEFINE r == IF c \in Sessions THEN [call[c] EXCEPT !.pc = "park"] ELSE Idle
<1>5. r \in Calls /\ CallOK(r)
  BY IdleOK, CallParts, <1>4 DEF SetPassphrase, Typed, Calls, Pcs, CallOK
<1>6. call' = [call EXCEPT ![c] = r]
  BY <1>4 DEF SetPassphrase, Typed, CallTyped, Goto, Return
<1> HIDE DEF r
<1>7. CallTyped'
  BY <1>4, <1>5, <1>6, CallSet DEF Typed
<1> QED
  BY <1>1, <1>2, <1>3, <1>7 DEF Typed

LEMMA TypesInitWrites ==
  ASSUME Typed, NEW c \in Callers, InitWrites(c)
  PROVE  Typed'
<1>0. (CHOOSE n \in call[c].todo : TRUE) \in Nat
  BY CallParts DEF InitWrites, Typed, CallOK, At
<1>1. MetaTyped'
  BY CallParts, <1>0 DEF InitWrites, Typed, MetaTyped, CallOK, At
<1>2. MintedTyped' /\ KeysTyped' /\ RowsTyped' /\ DiskTyped' /\ SealedTyped' /\
      QuarantineTyped' /\ ItemsTyped' /\ BudgetTyped'
  BY DEF InitWrites, Typed, Content, Quarantine, MintedTyped, KeysTyped,
     RowsTyped, DiskTyped, SealedTyped, QuarantineTyped, ItemsTyped, BudgetTyped
<1>3. c \in Callers
  BY Caller
<1> DEFINE r == IF c \in Sessions THEN [Idle EXCEPT !.pc = "reopen", !.phrase = call[c].phrase] ELSE Idle
<1>4. r \in Calls /\ CallOK(r)
  BY IdleOK, CallParts, <1>3 DEF InitWrites, Typed, Calls, Pcs, CallOK, At
<1>5. call' = [call EXCEPT ![c] = r]
  BY <1>3 DEF InitWrites, Typed, CallTyped, Goto, Return
<1> HIDE DEF r
<1>6. CallTyped'
  BY <1>3, <1>4, <1>5, CallSet DEF Typed
<1> QED
  BY <1>1, <1>2, <1>6 DEF Typed

LEMMA TypesWrongPassphrase ==
  ASSUME Typed, NEW s \in Sessions, WrongPassphrase(s)
  PROVE  Typed'
<1>1. MetaTyped' /\ MintedTyped' /\ KeysTyped' /\ RowsTyped' /\ DiskTyped' /\
      SealedTyped' /\ QuarantineTyped' /\ ItemsTyped' /\ BudgetTyped'
  BY DEF WrongPassphrase, Typed, Content, Quarantine, MetaTyped, MintedTyped,
     KeysTyped, RowsTyped, DiskTyped, SealedTyped, QuarantineTyped, ItemsTyped,
     BudgetTyped
<1>2. CallTyped'
  BY Returned, Caller DEF WrongPassphrase, Typed
<1> QED
  BY <1>1, <1>2 DEF Typed

LEMMA TypesPark ==
  ASSUME Typed, NEW s \in Sessions, Park(s)
  PROVE  Typed'
<1>1. KeysTyped'
  BY CallParts, Caller DEF Park, Typed, KeysTyped
<1>2. MetaTyped' /\ MintedTyped' /\ RowsTyped' /\ DiskTyped' /\ SealedTyped' /\
      QuarantineTyped' /\ ItemsTyped' /\ BudgetTyped'
  BY DEF Park, Typed, Content, Quarantine, MetaTyped, MintedTyped, RowsTyped,
     DiskTyped, SealedTyped, QuarantineTyped, ItemsTyped, BudgetTyped
<1>3. CallTyped'
  BY Returned, Caller DEF Park, Typed
<1> QED
  BY <1>1, <1>2, <1>3 DEF Typed

LEMMA TypesGoIdle ==
  ASSUME Typed, NEW s \in Sessions, GoIdle(s)
  PROVE  Typed'
<1>1. KeysTyped'
  BY DEF GoIdle, Typed, KeysTyped
<1>2. MetaTyped' /\ MintedTyped' /\ RowsTyped' /\ DiskTyped' /\ SealedTyped' /\
      QuarantineTyped' /\ ItemsTyped' /\ BudgetTyped'
  BY DEF GoIdle, Typed, Content, Quarantine, MetaTyped, MintedTyped, RowsTyped,
     DiskTyped, SealedTyped, QuarantineTyped, ItemsTyped, BudgetTyped
<1>3. CallTyped'
  BY DEF GoIdle, Typed, CallTyped
<1> QED
  BY <1>1, <1>2, <1>3 DEF Typed

LEMMA TypesDrop ==
  ASSUME Typed, NEW s \in Sessions, Drop(s)
  PROVE  Typed'
<1>1. KeysTyped'
  BY DEF Drop, Typed, KeysTyped, Locked
<1>2. MetaTyped' /\ MintedTyped' /\ RowsTyped' /\ DiskTyped' /\ SealedTyped' /\
      QuarantineTyped' /\ ItemsTyped' /\ BudgetTyped'
  BY DEF Drop, Typed, Content, Quarantine, MetaTyped, MintedTyped, RowsTyped,
     DiskTyped, SealedTyped, QuarantineTyped, ItemsTyped, BudgetTyped
<1>3. CallTyped'
  BY DEF Drop, Typed, CallTyped
<1> QED
  BY <1>1, <1>2, <1>3 DEF Typed

LEMMA TypesAddSealed ==
  ASSUME Typed, NEW s \in Sessions, AddSealed(s)
  PROVE  Typed'
<1>1. KeysTyped'
  BY DEF AddSealed, Typed, KeysTyped, Refreshed
<1>2. SealedTyped'
  BY ItemIn, SealIn, KeyIn DEF AddSealed, Typed, SealedTyped, KeysTyped,
     ItemsTyped, Kinds
<1>3. ItemsTyped'
  BY DEF AddSealed, Typed, ItemsTyped
<1>4. MetaTyped' /\ MintedTyped' /\ RowsTyped' /\ DiskTyped' /\ QuarantineTyped' /\
      BudgetTyped'
  BY DEF AddSealed, Typed, Content, Quarantine, MetaTyped, MintedTyped, RowsTyped,
     DiskTyped, QuarantineTyped, BudgetTyped
<1>5. CallTyped'
  BY DEF AddSealed, Typed, CallTyped
<1> QED
  BY <1>1, <1>2, <1>3, <1>4, <1>5 DEF Typed

LEMMA TypesEditSealed ==
  ASSUME Typed, NEW s \in Sessions, NEW f \in sealed, EditSealed(s, f)
  PROVE  Typed'
<1>1. KeysTyped'
  BY DEF EditSealed, Typed, KeysTyped, Refreshed
<1>2. SealedTyped'
  BY ItemIn, SealIn, KeyIn DEF EditSealed, Typed, SealedTyped, KeysTyped,
     ItemsTyped, Kinds
<1>3. ItemsTyped'
  BY DEF EditSealed, Typed, ItemsTyped
<1>4. MetaTyped' /\ MintedTyped' /\ RowsTyped' /\ DiskTyped' /\ QuarantineTyped' /\
      BudgetTyped'
  BY DEF EditSealed, Typed, Content, Quarantine, MetaTyped, MintedTyped,
     RowsTyped, DiskTyped, QuarantineTyped, BudgetTyped
<1>5. CallTyped'
  BY DEF EditSealed, Typed, CallTyped
<1> QED
  BY <1>1, <1>2, <1>3, <1>4, <1>5 DEF Typed

LEMMA TypesMoveReads ==
  ASSUME Typed, NEW s \in Sessions, MoveReads(s)
  PROVE  Typed'
<1>1. KeysTyped'
  BY DEF MoveReads, Typed, KeysTyped, Refreshed
<1>2. MetaTyped' /\ MintedTyped' /\ RowsTyped' /\ DiskTyped' /\ SealedTyped' /\
      QuarantineTyped' /\ ItemsTyped' /\ BudgetTyped'
  BY DEF MoveReads, Typed, Content, Quarantine, MetaTyped, MintedTyped, RowsTyped,
     DiskTyped, SealedTyped, QuarantineTyped, ItemsTyped, BudgetTyped
<1>3. s \in Callers
  BY Caller
<1> DEFINE r == [Idle EXCEPT !.pc = "collect", !.key = keys[s].key, !.seen = Body]
<1>4. r \in Calls /\ CallOK(r)
  BY IdleOK, CallParts, <1>3, KeyIn DEF MoveReads, Typed, Calls, Pcs, CallOK,
     RowsTyped, Body
<1>5. call' = [call EXCEPT ![s] = r]
  BY <1>3 DEF MoveReads, Typed, CallTyped, Goto, Return
<1> HIDE DEF r
<1>6. CallTyped'
  BY <1>3, <1>4, <1>5, CallSet DEF Typed
<1> QED
  BY <1>1, <1>2, <1>6 DEF Typed

LEMMA TypesMoveCollects ==
  ASSUME Typed, NEW s \in Sessions, MoveCollects(s)
  PROVE  Typed'
<1>1. MetaTyped' /\ MintedTyped' /\ KeysTyped' /\ RowsTyped' /\ DiskTyped' /\
      SealedTyped' /\ QuarantineTyped' /\ ItemsTyped' /\ BudgetTyped'
  BY DEF MoveCollects, Typed, Content, Quarantine, MetaTyped, MintedTyped,
     KeysTyped, RowsTyped, DiskTyped, SealedTyped, QuarantineTyped, ItemsTyped,
     BudgetTyped
<1>2. s \in Callers
  BY Caller
<1> DEFINE r == [call[s] EXCEPT !.pc = "seal", !.seen = @ \cup (rows \ Body)]
<1>3. r \in Calls /\ CallOK(r)
  BY IdleOK, CallParts, <1>2 DEF MoveCollects, Typed, Calls, Pcs, CallOK, RowsTyped, At
<1>4. call' = [call EXCEPT ![s] = r]
  BY <1>2 DEF MoveCollects, Typed, CallTyped, Goto, Return
<1> HIDE DEF r
<1>5. CallTyped'
  BY <1>2, <1>3, <1>4, CallSet DEF Typed
<1> QED
  BY <1>1, <1>5 DEF Typed

LEMMA TypesMoveSeals ==
  ASSUME Typed, NEW s \in Sessions, MoveSeals(s)
  PROVE  Typed'
<1>1. RowsTyped'
  BY DEF MoveSeals, Typed, RowsTyped, Destroy
<1>2. DiskTyped'
  BY WalIn DEF MoveSeals, Typed, DiskTyped, Destroy
<1>3. SealedTyped'
  BY SealIn, CallParts, Caller DEF MoveSeals, Typed, SealedTyped, Sealable, CallOK, At
<1>4. MetaTyped' /\ MintedTyped' /\ KeysTyped' /\ QuarantineTyped' /\ ItemsTyped' /\
      BudgetTyped'
  BY DEF MoveSeals, Typed, Content, Quarantine, MetaTyped, MintedTyped, KeysTyped,
     QuarantineTyped, ItemsTyped, BudgetTyped
<1>5. s \in Callers
  BY Caller
<1> DEFINE r == [call[s] EXCEPT !.pc = "scrub", !.todo = {i \in Sealable(call[s].seen) : i.kind = "photo"}]
<1>6. r \in Calls /\ CallOK(r)
  BY IdleOK, CallParts, <1>5 DEF MoveSeals, Typed, Calls, Pcs, CallOK, Sealable, At
<1>7. call' = [call EXCEPT ![s] = r]
  BY <1>5 DEF MoveSeals, Typed, CallTyped, Goto, Return
<1> HIDE DEF r
<1>8. CallTyped'
  BY <1>5, <1>6, <1>7, CallSet DEF Typed
<1> QED
  BY <1>1, <1>2, <1>3, <1>4, <1>8 DEF Typed

LEMMA TypesMoveFails ==
  ASSUME Typed, NEW s \in Sessions, MoveFails(s)
  PROVE  Typed'
<1>1. BudgetTyped'
  BY Spent DEF MoveFails, Typed, BudgetTyped, Goto
<1>2. MetaTyped' /\ MintedTyped' /\ KeysTyped' /\ RowsTyped' /\ DiskTyped' /\
      SealedTyped' /\ QuarantineTyped' /\ ItemsTyped'
  BY DEF MoveFails, Typed, Content, Quarantine, MetaTyped, MintedTyped, KeysTyped,
     RowsTyped, DiskTyped, SealedTyped, QuarantineTyped, ItemsTyped
<1>3. CallTyped'
  BY Returned, Caller DEF MoveFails, Typed
<1> QED
  BY <1>1, <1>2, <1>3 DEF Typed

LEMMA TypesMoveScrubs ==
  ASSUME Typed, NEW s \in Sessions, MoveScrubs(s)
  PROVE  Typed'
<1>1. DiskTyped'
  BY DEF MoveScrubs, Typed, DiskTyped
<1>2. BudgetTyped'
  BY Spent DEF MoveScrubs, Typed, BudgetTyped, Goto
<1>3. MetaTyped' /\ MintedTyped' /\ KeysTyped' /\ RowsTyped' /\ SealedTyped' /\
      QuarantineTyped' /\ ItemsTyped'
  BY DEF MoveScrubs, Typed, Content, Quarantine, MetaTyped, MintedTyped,
     KeysTyped, RowsTyped, SealedTyped, QuarantineTyped, ItemsTyped
<1>4. s \in Callers
  BY Caller
<1>5. PICK new \in SUBSET AllItems : call' = [call EXCEPT ![s].pc = "unlink", ![s].seen = new]
  BY WalIn DEF MoveScrubs, Typed, CallOK, At
<1> DEFINE r == [call[s] EXCEPT !.pc = "unlink", !.seen = new]
<1>6. r \in Calls /\ CallOK(r)
  BY IdleOK, CallParts, <1>4, <1>5 DEF MoveScrubs, Typed, Calls, Pcs, CallOK, At,
     RowsTyped
<1>7. call' = [call EXCEPT ![s] = r]
  BY <1>4, <1>5 DEF MoveScrubs, Typed, CallTyped, Goto, Return
<1> HIDE DEF r
<1>8. CallTyped'
  BY <1>4, <1>6, <1>7, CallSet DEF Typed
<1> QED
  BY <1>1, <1>2, <1>3, <1>8 DEF Typed

LEMMA TypesMoveUnlinks ==
  ASSUME Typed, NEW s \in Sessions, NEW i \in call[s].todo, MoveUnlinks(s, i)
  PROVE  Typed'
<1>1. DiskTyped'
  BY DEF MoveUnlinks, Typed, DiskTyped
<1>2. BudgetTyped'
  BY Spent DEF MoveUnlinks, Typed, BudgetTyped, Goto
<1>3. MetaTyped' /\ MintedTyped' /\ KeysTyped' /\ RowsTyped' /\ SealedTyped' /\
      QuarantineTyped' /\ ItemsTyped'
  BY DEF MoveUnlinks, Typed, Content, Quarantine, MetaTyped, MintedTyped,
     KeysTyped, RowsTyped, SealedTyped, QuarantineTyped, ItemsTyped
<1>4. s \in Callers
  BY Caller
<1>5. call[s].seen \subseteq AllItems /\ call[s].todo \subseteq AllItems
  BY CallParts, <1>4 DEF MoveUnlinks, Typed, CallOK, At
<1>6. CASE call' = [call EXCEPT ![s].todo = @ \ {i}]
  <2> DEFINE r == [call[s] EXCEPT !.todo = @ \ {i}]
  <2>1. r \in Calls /\ CallOK(r)
    BY CallParts, <1>4, <1>5 DEF MoveUnlinks, Typed, Calls, Pcs, CallOK, At
  <2>2. call' = [call EXCEPT ![s] = r]
    BY <1>6
  <2> HIDE DEF r
  <2>3. CallTyped'
    BY <1>4, <2>1, <2>2, CallSet DEF Typed
  <2> QED
    BY <1>1, <1>2, <1>3, <2>3 DEF Typed
<1>7. CASE call' = [call EXCEPT ![s].todo = @ \ {i}, ![s].seen = @ \cup {i}]
  <2> DEFINE r == [call[s] EXCEPT !.todo = @ \ {i}, !.seen = @ \cup {i}]
  <2>0. i \in AllItems /\ call[s] \in Calls
    BY CallParts, <1>4, <1>5 DEF Typed
  <2>1. r \in Calls /\ CallOK(r)
    <3>1. r \in Calls
      BY <2>0 DEF Calls
    <3>2. r.pc = "unlink" /\ r.seen \subseteq AllItems /\ r.todo \subseteq AllItems
      BY <2>0, <1>5 DEF Calls, MoveUnlinks, At
    <3> QED
      BY <3>1, <3>2 DEF CallOK
  <2>2. call' = [call EXCEPT ![s] = r]
    BY <1>4, <1>7 DEF Typed, CallTyped
  <2> HIDE DEF r
  <2>3. CallTyped'
    BY <1>4, <2>1, <2>2, CallSet DEF Typed
  <2> QED
    BY <1>1, <1>2, <1>3, <2>3 DEF Typed
<1> QED
  BY <1>1, <1>2, <1>3, <1>6, <1>7 DEF MoveUnlinks, Typed

LEMMA TypesMoveAmends ==
  ASSUME Typed, NEW s \in Sessions, MoveAmends(s)
  PROVE  Typed'
<1>1. DiskTyped'
  BY CallParts, Caller DEF MoveAmends, Typed, DiskTyped, CallOK, At, Content
<1>2. MetaTyped' /\ MintedTyped' /\ KeysTyped' /\ RowsTyped' /\ SealedTyped' /\
      QuarantineTyped' /\ ItemsTyped' /\ BudgetTyped'
  BY DEF MoveAmends, Typed, Content, Quarantine, MetaTyped, MintedTyped,
     KeysTyped, RowsTyped, SealedTyped, QuarantineTyped, ItemsTyped, BudgetTyped
<1>3. CallTyped'
  BY Returned, Caller DEF MoveAmends, Typed
<1> QED
  BY <1>1, <1>2, <1>3 DEF Typed

LEMMA TypesAttachFile ==
  ASSUME Typed, NEW s \in Sessions, AttachFile(s)
  PROVE  Typed'
<1>0. Item("photo", items) \in AllItems
  BY ItemIn DEF Typed, ItemsTyped, Kinds
<1>1. DiskTyped'
  BY ItemIn DEF AttachFile, Typed, DiskTyped, ItemsTyped, Kinds
<1>2. ItemsTyped'
  BY DEF AttachFile, Typed, ItemsTyped
<1>3. MetaTyped' /\ MintedTyped' /\ KeysTyped' /\ RowsTyped' /\ SealedTyped' /\
      QuarantineTyped' /\ BudgetTyped'
  BY DEF AttachFile, Typed, Content, Quarantine, MetaTyped, MintedTyped,
     KeysTyped, RowsTyped, SealedTyped, QuarantineTyped, BudgetTyped
<1>4. s \in Callers
  BY Caller
<1> DEFINE r == [Idle EXCEPT !.pc = "attach", !.seen = {Item("photo", items)}]
<1>5. r \in Calls /\ CallOK(r)
  BY IdleOK, CallParts, <1>4, <1>0 DEF AttachFile, Typed, Calls, Pcs, CallOK
<1>6. call' = [call EXCEPT ![s] = r]
  BY <1>4 DEF AttachFile, Typed, CallTyped, Goto, Return
<1> HIDE DEF r
<1>7. CallTyped'
  BY <1>4, <1>5, <1>6, CallSet DEF Typed
<1> QED
  BY <1>1, <1>2, <1>3, <1>7 DEF Typed

LEMMA TypesAttachRow ==
  ASSUME Typed, NEW s \in Sessions, AttachRow(s)
  PROVE  Typed'
<1>1. RowsTyped'
  BY CallParts, Caller DEF AttachRow, Typed, RowsTyped, CallOK, At
<1>2. DiskTyped'
  BY DEF AttachRow, Typed, DiskTyped
<1>3. MetaTyped' /\ MintedTyped' /\ KeysTyped' /\ SealedTyped' /\ QuarantineTyped'
      /\ ItemsTyped' /\ BudgetTyped'
  BY DEF AttachRow, Typed, Content, Quarantine, MetaTyped, MintedTyped, KeysTyped,
     SealedTyped, QuarantineTyped, ItemsTyped, BudgetTyped
<1>4. CallTyped'
  BY Returned, Caller DEF AttachRow, Typed
<1> QED
  BY <1>1, <1>2, <1>3, <1>4 DEF Typed

LEMMA TypesRemoveRow ==
  ASSUME Typed, NEW s \in Sessions, RemoveRow(s)
  PROVE  Typed'
<1>1. RowsTyped'
  BY DEF RemoveRow, Typed, RowsTyped
<1>2. ItemsTyped'
  BY DEF RemoveRow, Typed, ItemsTyped
<1>3. MetaTyped' /\ MintedTyped' /\ KeysTyped' /\ DiskTyped' /\ SealedTyped' /\
      QuarantineTyped' /\ BudgetTyped'
  BY DEF RemoveRow, Typed, Content, Quarantine, MetaTyped, MintedTyped, KeysTyped,
     DiskTyped, SealedTyped, QuarantineTyped, BudgetTyped
<1>4. s \in Callers
  BY Caller
<1>5. PICK i \in rows : call' = [call EXCEPT ![s] = [Idle EXCEPT !.pc = "remove", !.seen = {i}]]
  BY DEF RemoveRow, Typed, CallOK, At
<1> DEFINE r == [Idle EXCEPT !.pc = "remove", !.seen = {i}]
<1>6. r \in Calls /\ CallOK(r)
  <2>1. i \in AllItems
    BY <1>5 DEF Typed, RowsTyped
  <2>2. r \in Calls
    BY <2>1, IdleOK DEF Calls, Pcs
  <2>3. r.pc = "remove" /\ r.seen = {i}
    BY IdleOK DEF Calls
  <2> QED
    BY <2>1, <2>2, <2>3 DEF CallOK
<1>7. call' = [call EXCEPT ![s] = r]
  BY <1>4, <1>5
<1> HIDE DEF r
<1>8. CallTyped'
  BY <1>4, <1>6, <1>7, CallSet DEF Typed
<1> QED
  BY <1>1, <1>2, <1>3, <1>8 DEF Typed

LEMMA TypesRemoveFile ==
  ASSUME Typed, NEW s \in Sessions, RemoveFile(s)
  PROVE  Typed'
<1>1. DiskTyped'
  BY DEF RemoveFile, Typed, DiskTyped
<1>2. MetaTyped' /\ MintedTyped' /\ KeysTyped' /\ RowsTyped' /\ SealedTyped' /\
      QuarantineTyped' /\ ItemsTyped' /\ BudgetTyped'
  BY DEF RemoveFile, Typed, Content, Quarantine, MetaTyped, MintedTyped,
     KeysTyped, RowsTyped, SealedTyped, QuarantineTyped, ItemsTyped, BudgetTyped
<1>3. CallTyped'
  BY Returned, Caller DEF RemoveFile, Typed
<1> QED
  BY <1>1, <1>2, <1>3 DEF Typed

LEMMA TypesRecover ==
  ASSUME Typed, NEW c \in Shells, NEW n \in 1 .. minted.codes, Recover(c, n)
  PROVE  Typed'
<1>1. MetaTyped' /\ MintedTyped' /\ KeysTyped' /\ RowsTyped' /\ DiskTyped' /\
      SealedTyped' /\ QuarantineTyped' /\ ItemsTyped' /\ BudgetTyped'
  BY DEF Recover, Typed, Content, Quarantine, MetaTyped, MintedTyped, KeysTyped,
     RowsTyped, DiskTyped, SealedTyped, QuarantineTyped, ItemsTyped, BudgetTyped
<1>2. c \in Callers
  BY Caller
<1> DEFINE r == [Idle EXCEPT !.pc = "change", !.key = meta.codeKey]
<1>3. r \in Calls /\ CallOK(r)
  BY IdleOK, CallParts, <1>2 DEF Recover, Typed, Calls, Pcs, CallOK, MetaTyped
<1>4. call' = [call EXCEPT ![c] = r]
  BY <1>2 DEF Recover, Typed, CallTyped, Goto, Return
<1> HIDE DEF r
<1>5. CallTyped'
  BY <1>2, <1>3, <1>4, CallSet DEF Typed
<1> QED
  BY <1>1, <1>5 DEF Typed

LEMMA TypesRecode ==
  ASSUME Typed, NEW c \in Shells, Recode(c)
  PROVE  Typed'
<1>0. minted'.codes \in Nat
  BY DEF Recode, Typed, MintedTyped
<1>1. MetaTyped'
  BY CallParts, Caller, <1>0 DEF Recode, Typed, MetaTyped, MintedTyped
<1>2. MintedTyped'
  BY DEF Recode, Typed, MintedTyped
<1>3. BudgetTyped'
  BY Spent DEF Recode, Typed, BudgetTyped, Goto
<1>4. KeysTyped' /\ RowsTyped' /\ DiskTyped' /\ SealedTyped' /\ QuarantineTyped' /\
      ItemsTyped'
  BY DEF Recode, Typed, Content, Quarantine, KeysTyped, RowsTyped, DiskTyped,
     SealedTyped, QuarantineTyped, ItemsTyped
<1>5. CallTyped'
  BY Returned, Caller DEF Recode, Typed
<1> QED
  BY <1>1, <1>2, <1>3, <1>4, <1>5 DEF Typed

LEMMA TypesDrainLists ==
  ASSUME Typed, NEW c \in Shells, DrainLists(c)
  PROVE  Typed'
<1>1. MetaTyped' /\ MintedTyped' /\ KeysTyped' /\ RowsTyped' /\ DiskTyped' /\
      SealedTyped' /\ QuarantineTyped' /\ ItemsTyped' /\ BudgetTyped'
  BY DEF DrainLists, Typed, Content, Quarantine, MetaTyped, MintedTyped,
     KeysTyped, RowsTyped, DiskTyped, SealedTyped, QuarantineTyped, ItemsTyped,
     BudgetTyped
<1>2. c \in Callers
  BY Caller
<1> DEFINE r == [call[c] EXCEPT !.pc = "drain", !.todo = open]
<1>3. r \in Calls /\ CallOK(r)
  BY IdleOK, CallParts, <1>2 DEF DrainLists, Typed, Calls, Pcs, CallOK, QuarantineTyped
<1>4. call' = [call EXCEPT ![c] = r]
  BY <1>2 DEF DrainLists, Typed, CallTyped, Goto, Return
<1> HIDE DEF r
<1>5. CallTyped'
  BY <1>2, <1>3, <1>4, CallSet DEF Typed
<1> QED
  BY <1>1, <1>5 DEF Typed

LEMMA TypesDrainShreds ==
  ASSUME Typed, NEW c \in Shells, DrainShreds(c)
  PROVE  Typed'
<1>1. QuarantineTyped'
  BY DEF DrainShreds, Typed, QuarantineTyped
<1>2. BudgetTyped'
  BY Spent DEF DrainShreds, Typed, BudgetTyped, Goto
<1>3. MetaTyped' /\ MintedTyped' /\ KeysTyped' /\ RowsTyped' /\ DiskTyped' /\
      SealedTyped' /\ ItemsTyped'
  BY DEF DrainShreds, Typed, Content, Quarantine, MetaTyped, MintedTyped,
     KeysTyped, RowsTyped, DiskTyped, SealedTyped, ItemsTyped
<1>4. c \in Callers
  BY Caller
<1> DEFINE r == [call[c] EXCEPT !.pc = "drain", !.seen = {}]
<1>5. r \in Calls /\ CallOK(r)
  BY IdleOK, CallParts, <1>4 DEF DrainShreds, Typed, Calls, Pcs, CallOK, At
<1>6. call' = [call EXCEPT ![c] = r]
  BY <1>4 DEF DrainShreds, Typed, CallTyped, Goto, Return
<1> HIDE DEF r
<1>7. CallTyped'
  BY <1>4, <1>5, <1>6, CallSet DEF Typed
<1> QED
  BY <1>1, <1>2, <1>3, <1>7 DEF Typed

LEMMA TypesDrainEnds ==
  ASSUME Typed, NEW c \in Shells, DrainEnds(c)
  PROVE  Typed'
<1>1. MetaTyped' /\ MintedTyped' /\ KeysTyped' /\ RowsTyped' /\ DiskTyped' /\
      SealedTyped' /\ QuarantineTyped' /\ ItemsTyped' /\ BudgetTyped'
  BY DEF DrainEnds, Typed, Content, Quarantine, MetaTyped, MintedTyped, KeysTyped,
     RowsTyped, DiskTyped, SealedTyped, QuarantineTyped, ItemsTyped, BudgetTyped
<1>2. CallTyped'
  BY Returned, Caller DEF DrainEnds, Typed
<1> QED
  BY <1>1, <1>2 DEF Typed

LEMMA TypesShellDies ==
  ASSUME Typed, NEW c \in Shells, ShellDies(c)
  PROVE  Typed'
<1>1. BudgetTyped'
  BY Spent DEF ShellDies, Typed, BudgetTyped, Goto
<1>2. MetaTyped' /\ MintedTyped' /\ KeysTyped' /\ RowsTyped' /\ DiskTyped' /\
      SealedTyped' /\ QuarantineTyped' /\ ItemsTyped'
  BY DEF ShellDies, Typed, Content, Quarantine, MetaTyped, MintedTyped, KeysTyped,
     RowsTyped, DiskTyped, SealedTyped, QuarantineTyped, ItemsTyped
<1>3. CallTyped'
  BY Returned, Caller DEF ShellDies, Typed
<1> QED
  BY <1>1, <1>2, <1>3 DEF Typed

LEMMA TypesDrainSkips ==
  ASSUME Typed, NEW c \in Shells, NEW u \in Units, DrainSkips(c, u)
  PROVE  Typed'
<1>1. BudgetTyped'
  BY Spent DEF DrainSkips, Typed, BudgetTyped, Goto
<1>2. MetaTyped' /\ MintedTyped' /\ KeysTyped' /\ RowsTyped' /\ DiskTyped' /\
      SealedTyped' /\ QuarantineTyped' /\ ItemsTyped'
  BY DEF DrainSkips, Typed, Content, Quarantine, MetaTyped, MintedTyped,
     KeysTyped, RowsTyped, DiskTyped, SealedTyped, QuarantineTyped, ItemsTyped
<1>3. c \in Callers
  BY Caller
<1> DEFINE r == [call[c] EXCEPT !.todo = @ \ {u}]
<1>4. r \in Calls /\ CallOK(r)
  BY IdleOK, CallParts, <1>3 DEF DrainSkips, Typed, Calls, Pcs, CallOK, At
<1>5. call' = [call EXCEPT ![c] = r]
  BY <1>3 DEF DrainSkips, Typed, CallTyped, Goto, Return
<1> HIDE DEF r
<1>6. CallTyped'
  BY <1>3, <1>4, <1>5, CallSet DEF Typed
<1> QED
  BY <1>1, <1>2, <1>6 DEF Typed

LEMMA TypesDrainSeals ==
  ASSUME Typed, NEW c \in Shells, NEW u \in Units, DrainSeals(c, u)
  PROVE  Typed'
<1>1. SealedTyped'
  BY ItemIn, SealIn, CallParts, Caller DEF DrainSeals, Typed, SealedTyped, Kinds
<1>2. QuarantineTyped'
  BY DEF DrainSeals, Typed, QuarantineTyped
<1>3. MetaTyped' /\ MintedTyped' /\ KeysTyped' /\ RowsTyped' /\ DiskTyped' /\
      ItemsTyped' /\ BudgetTyped'
  BY DEF DrainSeals, Typed, Content, Quarantine, MetaTyped, MintedTyped,
     KeysTyped, RowsTyped, DiskTyped, ItemsTyped, BudgetTyped
<1>4. c \in Callers
  BY Caller
<1> DEFINE r == [call[c] EXCEPT !.pc = "shred", !.todo = @ \ {u}, !.seen = {u}]
<1>5. r \in Calls /\ CallOK(r)
  BY IdleOK, CallParts, <1>4 DEF DrainSeals, Typed, Calls, Pcs, CallOK, At
<1>6. call' = [call EXCEPT ![c] = r]
  BY <1>4 DEF DrainSeals, Typed, CallTyped, Goto, Return
<1> HIDE DEF r
<1>7. CallTyped'
  BY <1>4, <1>5, <1>6, CallSet DEF Typed
<1> QED
  BY <1>1, <1>2, <1>3, <1>7 DEF Typed

LEMMA TypesEditNote ==
  ASSUME Typed, EditNote
  PROVE  Typed'
<1>1. RowsTyped'
  BY ItemIn DEF EditNote, Typed, RowsTyped, ItemsTyped, Kinds
<1>2. ItemsTyped'
  BY DEF EditNote, Typed, ItemsTyped
<1>3. MetaTyped' /\ MintedTyped' /\ KeysTyped' /\ DiskTyped' /\ SealedTyped' /\
      QuarantineTyped' /\ BudgetTyped'
  BY DEF EditNote, Typed, Content, Quarantine, MetaTyped, MintedTyped, KeysTyped,
     DiskTyped, SealedTyped, QuarantineTyped, BudgetTyped
<1>4. CallTyped'
  BY DEF EditNote, Typed, CallTyped
<1> QED
  BY <1>1, <1>2, <1>3, <1>4 DEF Typed

LEMMA TypesAddThought ==
  ASSUME Typed, AddThought
  PROVE  Typed'
<1>1. RowsTyped'
  BY ItemIn DEF AddThought, Typed, RowsTyped, ItemsTyped, Kinds
<1>2. ItemsTyped'
  BY DEF AddThought, Typed, ItemsTyped
<1>3. MetaTyped' /\ MintedTyped' /\ KeysTyped' /\ DiskTyped' /\ SealedTyped' /\
      QuarantineTyped' /\ BudgetTyped'
  BY DEF AddThought, Typed, Content, Quarantine, MetaTyped, MintedTyped,
     KeysTyped, DiskTyped, SealedTyped, QuarantineTyped, BudgetTyped
<1>4. CallTyped'
  BY DEF AddThought, Typed, CallTyped
<1> QED
  BY <1>1, <1>2, <1>3, <1>4 DEF Typed

LEMMA TypesCarryTitle ==
  ASSUME Typed, CarryTitle
  PROVE  Typed'
<1>1. RowsTyped'
  BY DEF CarryTitle, Typed, RowsTyped
<1>2. MetaTyped' /\ MintedTyped' /\ KeysTyped' /\ DiskTyped' /\ SealedTyped' /\
      QuarantineTyped' /\ ItemsTyped' /\ BudgetTyped'
  BY DEF CarryTitle, Typed, Content, Quarantine, MetaTyped, MintedTyped,
     KeysTyped, DiskTyped, SealedTyped, QuarantineTyped, ItemsTyped, BudgetTyped
<1>3. CallTyped'
  BY DEF CarryTitle, Typed, CallTyped
<1> QED
  BY <1>1, <1>2, <1>3 DEF Typed

LEMMA TypesRestart ==
  ASSUME Typed, Restart
  PROVE  Typed'
<1>1. KeysTyped'
  BY DEF Restart, Typed, KeysTyped, Locked
<1>2. BudgetTyped'
  BY Spent DEF Restart, Typed, BudgetTyped, Goto
<1>3. MetaTyped' /\ MintedTyped' /\ RowsTyped' /\ DiskTyped' /\ SealedTyped' /\
      QuarantineTyped' /\ ItemsTyped'
  BY DEF Restart, Typed, Content, Quarantine, MetaTyped, MintedTyped, RowsTyped,
     DiskTyped, SealedTyped, QuarantineTyped, ItemsTyped
<1>4. CallTyped'
  BY IdleOK DEF Restart, Typed, CallTyped
<1> QED
  BY <1>1, <1>2, <1>3, <1>4 DEF Typed

LEMMA TypesInit == Init => Typed
<1> SUFFICES ASSUME Init PROVE Typed
  OBVIOUS
<1>1. MetaTyped /\ MintedTyped /\ KeysTyped /\ SealedTyped /\ QuarantineTyped /\ ItemsTyped
  BY DEF Init, MetaTyped, MintedTyped, KeysTyped, SealedTyped, QuarantineTyped,
     ItemsTyped, Locked
<1>2. RowsTyped
  BY ItemIn DEF Init, RowsTyped, Kinds
<1>3. DiskTyped
  BY <1>2 DEF Init, DiskTyped, RowsTyped
<1>4. BudgetTyped
  BY VaultAssumption DEF Init, BudgetTyped
<1>5. CallTyped
  BY IdleOK DEF Init, CallTyped
<1> QED
  BY <1>1, <1>2, <1>3, <1>4, <1>5 DEF Typed

LEMMA TypesStep == Typed /\ [Next]_vars => Typed'
<1> SUFFICES ASSUME Typed, [Next]_vars PROVE Typed'
  OBVIOUS
<1>1. CASE \E c \in Callers, p \in Phrases :
             \/ InitLooks(c, p)
             \/ \E then \in {"park", "change", "list", "recode"} : Unlock(c, p, then)
             \/ SetPassphrase(c, p)
  BY <1>1, TypesInitLooks, TypesUnlock, TypesSetPassphrase
<1>2. CASE \E c \in Callers : InitWrites(c)
  BY <1>2, TypesInitWrites
<1>3. CASE \E s \in Sessions :
             \/ WrongPassphrase(s) \/ Park(s) \/ GoIdle(s) \/ Drop(s)
             \/ AddSealed(s)
             \/ \E f \in sealed : EditSealed(s, f)
  BY <1>3, TypesWrongPassphrase, TypesPark, TypesGoIdle, TypesDrop,
     TypesAddSealed, TypesEditSealed
<1>4. CASE \E s \in Sessions :
             \/ MoveReads(s) \/ MoveCollects(s) \/ MoveSeals(s) \/ MoveFails(s)
             \/ MoveScrubs(s)
             \/ \E i \in call[s].todo : MoveUnlinks(s, i)
  BY <1>4, TypesMoveReads, TypesMoveCollects, TypesMoveSeals, TypesMoveFails,
     TypesMoveScrubs, TypesMoveUnlinks
<1>5. CASE \E s \in Sessions :
             \/ MoveAmends(s) \/ AttachFile(s) \/ AttachRow(s)
             \/ RemoveRow(s) \/ RemoveFile(s)
  BY <1>5, TypesMoveAmends, TypesAttachFile, TypesAttachRow, TypesRemoveRow,
     TypesRemoveFile
<1>6. CASE \E c \in Shells :
             \/ \E n \in 1 .. minted.codes : Recover(c, n)
             \/ Recode(c)
             \/ DrainLists(c) \/ DrainShreds(c) \/ DrainEnds(c) \/ ShellDies(c)
             \/ \E u \in Units : DrainSkips(c, u) \/ DrainSeals(c, u)
  BY <1>6, TypesRecover, TypesRecode, TypesDrainLists, TypesDrainShreds,
     TypesDrainEnds, TypesShellDies, TypesDrainSkips, TypesDrainSeals
<1>7. CASE EditNote \/ AddThought \/ CarryTitle \/ Restart
  BY <1>7, TypesEditNote, TypesAddThought, TypesCarryTitle, TypesRestart
<1>8. CASE UNCHANGED vars
  BY <1>8 DEF vars, Typed, MetaTyped, MintedTyped, KeysTyped, RowsTyped,
     DiskTyped, SealedTyped,
     QuarantineTyped, ItemsTyped, BudgetTyped, CallTyped
<1> QED
  BY <1>1, <1>2, <1>3, <1>4, <1>5, <1>6, <1>7, <1>8 DEF Next

(* Every variable of the vault keeps its type, and what a call remembers  *)
(* is what its next step expects.                                          *)
THEOREM VaultTypes == Spec => []Typed
BY TypesInit, TypesStep, PTL DEF Spec

-----------------------------------------------------------------------------
(* The drain of the quarantine *)

UnitSealed(u) == \E f \in sealed : f.item = Item("unit", u)
\* The inductive invariant: the file a drain is about to remove belongs to a
\* secret that is sealed and stamped.
Drained ==
  \A c \in Callers : call[c].pc = "shred" =>
    \A u \in call[c].seen : u \notin open /\ UnitSealed(u)

\* What every other step of the vault leaves alone.
Stays ==
  /\ open' \subseteq open
  /\ \A f \in sealed : f.item.kind = "unit" => f \in sealed'
Shredded == \A u \in cache \ cache' : \E c \in Callers : call[c].pc = "shred" /\ u \in call[c].seen
Shreds == \A c \in Callers : call'[c].pc = "shred" => call'[c] = call[c]

LEMMA DrainedStays ==
  ASSUME Typed, Typed', Drained, Stays, Shreds
  PROVE  Drained'
<1> SUFFICES ASSUME NEW c \in Callers, call'[c].pc = "shred", NEW u \in call'[c].seen
             PROVE  u \notin open' /\ UnitSealed(u)'
  BY DEF Drained
<1>1. u \notin open /\ UnitSealed(u)
  BY DEF Drained, Shreds
<1>2. UnitSealed(u)'
  BY <1>1 DEF Stays, UnitSealed, Item
<1> QED
  BY <1>1, <1>2 DEF Stays

LEMMA SetShreds ==
  ASSUME CallTyped, NEW c \in Callers, NEW r, call' = [call EXCEPT ![c] = r],
         r.pc = "shred" => r = call[c]
  PROVE  Shreds
BY DEF CallTyped, Shreds

LEMMA GoShreds ==
  ASSUME CallTyped, NEW c \in Callers, NEW pc, call' = [call EXCEPT ![c].pc = pc], pc # "shred"
  PROVE  Shreds
BY DEF CallTyped, Calls, Shreds


LEMMA OthersStay ==
  ASSUME Typed, [Next]_vars, ~ \E c \in Shells, u \in Units : DrainSeals(c, u)
  PROVE  Stays /\ Shreds /\ Shredded
<1>1. CASE \E c \in Callers, p \in Phrases :
             \/ InitLooks(c, p)
             \/ \E then \in {"park", "change", "list", "recode"} : Unlock(c, p, then)
             \/ SetPassphrase(c, p)
  <2>1. ASSUME NEW c \in Callers, NEW p \in Phrases, InitLooks(c, p)
        PROVE  Stays /\ Shreds /\ Shredded
    <3>1. Stays /\ Shredded
      BY <2>1, Caller DEF InitLooks, Stays, Shredded, Quarantine, Content
    <3>2. Shreds
      BY <2>1, IdleOK, SetShreds, Caller DEF InitLooks, Return, Typed, Idle
    <3> QED
      BY <3>1, <3>2
  <2>2. ASSUME NEW c \in Callers, NEW p \in Phrases, NEW then \in {"park", "change", "list", "recode"}, Unlock(c, p, then)
        PROVE  Stays /\ Shreds /\ Shredded
    <3>1. Stays /\ Shredded
      BY <2>2, Caller DEF Unlock, Stays, Shredded, Quarantine, Content
    <3>2. Shreds
      BY <2>2, IdleOK, SetShreds, Caller DEF Unlock, Return, Typed, Idle
    <3> QED
      BY <3>1, <3>2
  <2>3. ASSUME NEW c \in Callers, NEW p \in Phrases, SetPassphrase(c, p)
        PROVE  Stays /\ Shreds /\ Shredded
    <3>1. Stays /\ Shredded
      BY <2>3, Caller DEF SetPassphrase, Stays, Shredded, Quarantine, Content
    <3>2. Shreds
      BY <2>3, IdleOK, CallParts, Caller DEF SetPassphrase, Goto, Return, At,
         Typed, CallTyped, Calls, Shreds
    <3> QED
      BY <3>1, <3>2
  <2> QED
    BY <1>1, <2>1, <2>2, <2>3
<1>2. CASE \E c \in Callers : InitWrites(c)
  <2>1. ASSUME NEW c \in Callers, InitWrites(c)
        PROVE  Stays /\ Shreds /\ Shredded
    <3>1. Stays /\ Shredded
      BY <2>1, Caller DEF InitWrites, Stays, Shredded, Quarantine, Content
    <3>2. Shreds
      BY <2>1, IdleOK, SetShreds, Caller DEF InitWrites, Return, Typed, Idle
    <3> QED
      BY <3>1, <3>2
  <2> QED
    BY <1>2, <2>1
<1>3. CASE \E s \in Sessions :
             \/ WrongPassphrase(s) \/ Park(s) \/ GoIdle(s) \/ Drop(s)
             \/ AddSealed(s)
             \/ \E f \in sealed : EditSealed(s, f)
  <2>1. ASSUME NEW s \in Sessions, WrongPassphrase(s)
        PROVE  Stays /\ Shreds /\ Shredded
    <3>1. Stays /\ Shredded
      BY <2>1, Caller DEF WrongPassphrase, Stays, Shredded, Quarantine, Content
    <3>2. Shreds
      BY <2>1, IdleOK, SetShreds, Caller DEF WrongPassphrase, Return, Typed, Idle
    <3> QED
      BY <3>1, <3>2
  <2>2. ASSUME NEW s \in Sessions, Park(s)
        PROVE  Stays /\ Shreds /\ Shredded
    <3>1. Stays /\ Shredded
      BY <2>2, Caller DEF Park, Stays, Shredded, Quarantine, Content
    <3>2. Shreds
      BY <2>2, IdleOK, SetShreds, Caller DEF Park, Return, Typed, Idle
    <3> QED
      BY <3>1, <3>2
  <2>3. ASSUME NEW s \in Sessions, GoIdle(s)
        PROVE  Stays /\ Shreds /\ Shredded
    <3>1. Stays /\ Shredded
      BY <2>3, Caller DEF GoIdle, Stays, Shredded, Quarantine, Content
    <3>2. Shreds
      BY <2>3 DEF GoIdle, Shreds
    <3> QED
      BY <3>1, <3>2
  <2>4. ASSUME NEW s \in Sessions, Drop(s)
        PROVE  Stays /\ Shreds /\ Shredded
    <3>1. Stays /\ Shredded
      BY <2>4, Caller DEF Drop, Stays, Shredded, Quarantine, Content
    <3>2. Shreds
      BY <2>4 DEF Drop, Shreds
    <3> QED
      BY <3>1, <3>2
  <2>5. ASSUME NEW s \in Sessions, AddSealed(s)
        PROVE  Stays /\ Shreds /\ Shredded
    <3>1. Stays /\ Shredded
      BY <2>5, Caller DEF AddSealed, Stays, Shredded, Quarantine, Content, Seal
    <3>2. Shreds
      BY <2>5 DEF AddSealed, Shreds
    <3> QED
      BY <3>1, <3>2
  <2>6. ASSUME NEW s \in Sessions, NEW f \in sealed, EditSealed(s, f)
        PROVE  Stays /\ Shreds /\ Shredded
    <3>1. Stays /\ Shredded
      BY <2>6, Caller DEF EditSealed, Stays, Shredded, Quarantine, Content, Seal
    <3>2. Shreds
      BY <2>6 DEF EditSealed, Shreds
    <3> QED
      BY <3>1, <3>2
  <2> QED
    BY <1>3, <2>1, <2>2, <2>3, <2>4, <2>5, <2>6
<1>4. CASE \E s \in Sessions :
             \/ MoveReads(s) \/ MoveCollects(s) \/ MoveSeals(s) \/ MoveFails(s)
             \/ MoveScrubs(s)
             \/ \E i \in call[s].todo : MoveUnlinks(s, i)
  <2>1. ASSUME NEW s \in Sessions, MoveReads(s)
        PROVE  Stays /\ Shreds /\ Shredded
    <3>1. Stays /\ Shredded
      BY <2>1, Caller DEF MoveReads, Stays, Shredded, Quarantine, Content
    <3>2. Shreds
      BY <2>1, IdleOK, SetShreds, Caller DEF MoveReads, Return, Typed, Idle
    <3> QED
      BY <3>1, <3>2
  <2>2. ASSUME NEW s \in Sessions, MoveCollects(s)
        PROVE  Stays /\ Shreds /\ Shredded
    <3>1. Stays /\ Shredded
      BY <2>2, Caller DEF MoveCollects, Stays, Shredded, Quarantine, Content
    <3>2. Shreds
      BY <2>2, IdleOK, CallParts, Caller DEF MoveCollects, Goto, Return, At,
         Typed, CallTyped, Calls, Shreds
    <3> QED
      BY <3>1, <3>2
  <2>3. ASSUME NEW s \in Sessions, MoveSeals(s)
        PROVE  Stays /\ Shreds /\ Shredded
    <3>1. Stays /\ Shredded
      BY <2>3, Caller DEF MoveSeals, Stays, Shredded, Quarantine, Content, Seal
    <3>2. Shreds
      BY <2>3, IdleOK, CallParts, Caller DEF MoveSeals, Goto, Return, At,
         Typed, CallTyped, Calls, Shreds
    <3> QED
      BY <3>1, <3>2
  <2>4. ASSUME NEW s \in Sessions, MoveFails(s)
        PROVE  Stays /\ Shreds /\ Shredded
    <3>1. Stays /\ Shredded
      BY <2>4, Caller DEF MoveFails, Stays, Shredded, Quarantine, Content
    <3>2. Shreds
      BY <2>4, IdleOK, SetShreds, Caller DEF MoveFails, Return, Typed, Idle
    <3> QED
      BY <3>1, <3>2
  <2>5. ASSUME NEW s \in Sessions, MoveScrubs(s)
        PROVE  Stays /\ Shreds /\ Shredded
    <3>1. Stays /\ Shredded
      BY <2>5, Caller DEF MoveScrubs, Stays, Shredded, Quarantine, Content
    <3>2. Shreds
      BY <2>5, IdleOK, CallParts, Caller DEF MoveScrubs, Goto, Return, At,
         Typed, CallTyped, Calls, Shreds
    <3> QED
      BY <3>1, <3>2
  <2>6. ASSUME NEW s \in Sessions, NEW i \in call[s].todo, MoveUnlinks(s, i)
        PROVE  Stays /\ Shreds /\ Shredded
    <3>1. Stays /\ Shredded
      BY <2>6, Caller DEF MoveUnlinks, Stays, Shredded, Quarantine, Content
    <3>2. Shreds
      BY <2>6, IdleOK, CallParts, Caller DEF MoveUnlinks, Goto, Return, At,
         Typed, CallTyped, Calls, Shreds
    <3> QED
      BY <3>1, <3>2
  <2> QED
    BY <1>4, <2>1, <2>2, <2>3, <2>4, <2>5, <2>6
<1>5. CASE \E s \in Sessions :
             \/ MoveAmends(s) \/ AttachFile(s) \/ AttachRow(s)
             \/ RemoveRow(s) \/ RemoveFile(s)
  <2>1. ASSUME NEW s \in Sessions, MoveAmends(s)
        PROVE  Stays /\ Shreds /\ Shredded
    <3>1. Stays /\ Shredded
      BY <2>1, Caller DEF MoveAmends, Stays, Shredded, Quarantine, Content
    <3>2. Shreds
      BY <2>1, IdleOK, SetShreds, Caller DEF MoveAmends, Return, Typed, Idle
    <3> QED
      BY <3>1, <3>2
  <2>2. ASSUME NEW s \in Sessions, AttachFile(s)
        PROVE  Stays /\ Shreds /\ Shredded
    <3>1. Stays /\ Shredded
      BY <2>2, Caller DEF AttachFile, Stays, Shredded, Quarantine, Content
    <3>2. Shreds
      BY <2>2, IdleOK, SetShreds, Caller DEF AttachFile, Return, Typed, Idle
    <3> QED
      BY <3>1, <3>2
  <2>3. ASSUME NEW s \in Sessions, AttachRow(s)
        PROVE  Stays /\ Shreds /\ Shredded
    <3>1. Stays /\ Shredded
      BY <2>3, Caller DEF AttachRow, Stays, Shredded, Quarantine, Content
    <3>2. Shreds
      BY <2>3, IdleOK, SetShreds, Caller DEF AttachRow, Return, Typed, Idle
    <3> QED
      BY <3>1, <3>2
  <2>4. ASSUME NEW s \in Sessions, RemoveRow(s)
        PROVE  Stays /\ Shreds /\ Shredded
    <3>1. Stays /\ Shredded
      BY <2>4, Caller DEF RemoveRow, Stays, Shredded, Quarantine, Content
    <3>2. Shreds
      BY <2>4, IdleOK, SetShreds, Caller DEF RemoveRow, Return, Typed, Idle
    <3> QED
      BY <3>1, <3>2
  <2>5. ASSUME NEW s \in Sessions, RemoveFile(s)
        PROVE  Stays /\ Shreds /\ Shredded
    <3>1. Stays /\ Shredded
      BY <2>5, Caller DEF RemoveFile, Stays, Shredded, Quarantine, Content
    <3>2. Shreds
      BY <2>5, IdleOK, SetShreds, Caller DEF RemoveFile, Return, Typed, Idle
    <3> QED
      BY <3>1, <3>2
  <2> QED
    BY <1>5, <2>1, <2>2, <2>3, <2>4, <2>5
<1>6. CASE \E c \in Shells :
             \/ \E n \in 1 .. minted.codes : Recover(c, n)
             \/ Recode(c)
             \/ DrainLists(c) \/ DrainShreds(c) \/ DrainEnds(c) \/ ShellDies(c)
             \/ \E u \in Units : DrainSkips(c, u) \/ DrainSeals(c, u)
  <2>1. ASSUME NEW c \in Shells, NEW n \in 1 .. minted.codes, Recover(c, n)
        PROVE  Stays /\ Shreds /\ Shredded
    <3>1. Stays /\ Shredded
      BY <2>1, Caller DEF Recover, Stays, Shredded, Quarantine, Content
    <3>2. Shreds
      BY <2>1, IdleOK, SetShreds, Caller DEF Recover, Return, Typed, Idle
    <3> QED
      BY <3>1, <3>2
  <2>2. ASSUME NEW c \in Shells, Recode(c)
        PROVE  Stays /\ Shreds /\ Shredded
    <3>1. Stays /\ Shredded
      BY <2>2, Caller DEF Recode, Stays, Shredded, Quarantine, Content
    <3>2. Shreds
      BY <2>2, IdleOK, SetShreds, Caller DEF Recode, Return, Typed, Idle
    <3> QED
      BY <3>1, <3>2
  <2>3. ASSUME NEW c \in Shells, DrainLists(c)
        PROVE  Stays /\ Shreds /\ Shredded
    <3>1. Stays /\ Shredded
      BY <2>3, Caller DEF DrainLists, Stays, Shredded, Quarantine, Content
    <3>2. Shreds
      BY <2>3, IdleOK, CallParts, Caller DEF DrainLists, Goto, Return, At,
         Typed, CallTyped, Calls, Shreds
    <3> QED
      BY <3>1, <3>2
  <2>4. ASSUME NEW c \in Shells, DrainShreds(c)
        PROVE  Stays /\ Shreds /\ Shredded
    <3>1. Stays /\ Shredded
      BY <2>4, Caller DEF DrainShreds, Stays, Shredded, Quarantine, Content, At
    <3>2. Shreds
      BY <2>4, IdleOK, CallParts, Caller DEF DrainShreds, Goto, Return, At,
         Typed, CallTyped, Calls, Shreds
    <3> QED
      BY <3>1, <3>2
  <2>5. ASSUME NEW c \in Shells, DrainEnds(c)
        PROVE  Stays /\ Shreds /\ Shredded
    <3>1. Stays /\ Shredded
      BY <2>5, Caller DEF DrainEnds, Stays, Shredded, Quarantine, Content
    <3>2. Shreds
      BY <2>5, IdleOK, SetShreds, Caller DEF DrainEnds, Return, Typed, Idle
    <3> QED
      BY <3>1, <3>2
  <2>6. ASSUME NEW c \in Shells, ShellDies(c)
        PROVE  Stays /\ Shreds /\ Shredded
    <3>1. Stays /\ Shredded
      BY <2>6, Caller DEF ShellDies, Stays, Shredded, Quarantine, Content
    <3>2. Shreds
      BY <2>6, IdleOK, SetShreds, Caller DEF ShellDies, Return, Typed, Idle
    <3> QED
      BY <3>1, <3>2
  <2>7. ASSUME NEW c \in Shells, NEW u \in Units, DrainSkips(c, u)
        PROVE  Stays /\ Shreds /\ Shredded
    <3>1. Stays /\ Shredded
      BY <2>7, Caller DEF DrainSkips, Stays, Shredded, Quarantine, Content
    <3>2. Shreds
      BY <2>7, IdleOK, CallParts, Caller DEF DrainSkips, Goto, Return, At,
         Typed, CallTyped, Calls, Shreds
    <3> QED
      BY <3>1, <3>2
  <2> QED
    BY <1>6, <2>1, <2>2, <2>3, <2>4, <2>5, <2>6, <2>7
<1>7. CASE EditNote \/ AddThought \/ CarryTitle \/ Restart
  <2>1. ASSUME EditNote
        PROVE  Stays /\ Shreds /\ Shredded
    <3>1. Stays /\ Shredded
      BY <2>1, Caller DEF EditNote, Stays, Shredded, Quarantine, Content
    <3>2. Shreds
      BY <2>1 DEF EditNote, Shreds
    <3> QED
      BY <3>1, <3>2
  <2>2. ASSUME AddThought
        PROVE  Stays /\ Shreds /\ Shredded
    <3>1. Stays /\ Shredded
      BY <2>2, Caller DEF AddThought, Stays, Shredded, Quarantine, Content
    <3>2. Shreds
      BY <2>2 DEF AddThought, Shreds
    <3> QED
      BY <3>1, <3>2
  <2>3. ASSUME CarryTitle
        PROVE  Stays /\ Shreds /\ Shredded
    <3>1. Stays /\ Shredded
      BY <2>3, Caller DEF CarryTitle, Stays, Shredded, Quarantine, Content
    <3>2. Shreds
      BY <2>3 DEF CarryTitle, Shreds
    <3> QED
      BY <3>1, <3>2
  <2>4. ASSUME Restart
        PROVE  Stays /\ Shreds /\ Shredded
    <3>1. Stays /\ Shredded
      BY <2>4, Caller DEF Restart, Stays, Shredded, Quarantine, Content
    <3>2. Shreds
      BY <2>4, IdleOK DEF Restart, Shreds
    <3> QED
      BY <3>1, <3>2
  <2> QED
    BY <1>7, <2>1, <2>2, <2>3, <2>4
<1>8. CASE UNCHANGED vars
  BY <1>8 DEF vars, Stays, Shreds, Shredded
<1> QED
  BY <1>1, <1>2, <1>3, <1>4, <1>5, <1>6, <1>7, <1>8 DEF Next

LEMMA SealsDrains ==
  ASSUME Typed, Typed', Drained, NEW c \in Shells, NEW u \in Units, DrainSeals(c, u)
  PROVE  Drained' /\ cache' = cache
<1>1. c \in Callers
  BY Caller
<1>2. open' = open \ {u} /\ sealed \subseteq sealed' /\ UnitSealed(u)' /\ cache' = cache
  <2>1. [item |-> Item("unit", u), key |-> call[c].key] \in sealed'
    BY DEF DrainSeals, Seal
  <2> QED
    BY <2>1 DEF DrainSeals, UnitSealed
<1>3. \A d \in Callers \ {c} : call'[d] = call[d]
  BY <1>1 DEF DrainSeals, Typed, CallTyped
<1>4. call'[c].seen = {u}
  BY <1>1 DEF DrainSeals, Typed, CallTyped, Calls
<1>5. \A v : UnitSealed(v) => UnitSealed(v)'
  BY <1>2 DEF UnitSealed
<1> QED
  BY <1>2, <1>3, <1>4, <1>5 DEF Drained

LEMMA DrainedInit == Init => Drained
BY IdleOK DEF Init, Drained

LEMMA DrainedStep ==
  ASSUME Typed, Typed', Drained, [Next]_vars
  PROVE  Drained' /\ (\A u \in cache \ cache' :
                        u \notin open /\ \E f \in sealed : f.item = Item("unit", u))
<1>1. CASE \E c \in Shells, u \in Units : DrainSeals(c, u)
  BY <1>1, SealsDrains
<1>2. CASE ~ \E c \in Shells, u \in Units : DrainSeals(c, u)
  <2>1. Stays /\ Shreds /\ Shredded
    BY <1>2, OthersStay
  <2>2. Drained'
    BY <2>1, DrainedStays
  <2> QED
    BY <2>1, <2>2 DEF Drained, Shredded, UnitSealed
<1> QED
  BY <1>1, <1>2

(* drain_quarantine: the 0600 file of a secret goes only when the secret   *)
(* is sealed and its row is stamped.                                       *)
THEOREM SecretsDrained == Spec => SecretKept
<1> DEFINE Kept == \A u \in cache \ cache' :
                     u \notin open /\ \E f \in sealed : f.item = Item("unit", u)
<1>1. Typed /\ Drained /\ [Next]_vars => Drained' /\ [Kept]_vars
  BY TypesStep, DrainedStep
<1> QED
  BY <1>1, VaultTypes, DrainedInit, PTL DEF Spec, SecretKept
-----------------------------------------------------------------------------
(* The move *)

\* A note that exists has its body: only a move takes the last row.
RowsWhole == rows # {} => Body # {}

LEMMA RowsWholeInit == Init => RowsWhole
<1>1. Item("body", 0).kind = "body"
  BY DEF Item
<1> QED
  BY <1>1 DEF Init, RowsWhole, Body

SealedNow ==
  rows' = {} =>
    \A i \in rows :
      \/ \E f \in sealed' : f.item = i
      \/ i.kind = "photo" /\ i \notin disk
      \/ \E s \in Sessions :
           call[s].pc = "seal" /\ call'[s].pc # "seal" /\ i \notin call[s].seen

LEMMA SealsRows ==
  ASSUME Typed, NEW s \in Sessions, MoveSeals(s)
  PROVE  RowsWhole' /\ SealedNow
<1>1. RowsWhole'
  BY DEF MoveSeals, Destroy, RowsWhole
<1>2. call[s].pc = "seal" /\ call'[s].pc = "scrub"
  BY Caller DEF MoveSeals, At, Typed, CallTyped, Calls
<1>3. ASSUME NEW i \in rows, i \in call[s].seen, i.kind = "photo" => i \in disk
      PROVE  \E f \in sealed' : f.item = i
  <2>1. [item |-> i, key |-> call[s].key] \in sealed'
    BY <1>3 DEF MoveSeals, Seal, Sealable
  <2> QED
    BY <2>1
<1> QED
  BY <1>1, <1>2, <1>3 DEF SealedNow

LEMMA RowsStay ==
  ASSUME Typed, RowsWhole, [Next]_vars, ~ \E s \in Sessions : MoveSeals(s)
  PROVE  RowsWhole' /\ SealedNow
<1>1. CASE \E s \in Sessions : RemoveRow(s)
  <2>1. PICK s \in Sessions, i \in rows : i.kind = "photo" /\ rows' = rows \ {i}
    BY <1>1 DEF RemoveRow
  <2>2. rows # {} /\ Body' = Body
    BY <2>1 DEF Body
  <2> QED
    BY <2>1, <2>2 DEF RowsWhole, SealedNow, Body
<1>2. CASE \E s \in Sessions : AttachRow(s)
  BY <1>2 DEF AttachRow, RowsWhole, SealedNow, Body
<1>3. CASE EditNote
  <2>1. Item("body", items) \in rows' /\ Item("body", items).kind = "body"
    BY <1>3 DEF EditNote, Item
  <2> QED
    BY <2>1 DEF RowsWhole, SealedNow, Body
<1>4. CASE AddThought
  BY <1>4 DEF AddThought, RowsWhole, SealedNow, Body
<1>5. CASE rows' = rows
  BY <1>5 DEF RowsWhole, SealedNow, Body
<1>6. CASE UNCHANGED vars
  BY <1>5, <1>6 DEF vars
<1>7. CASE \E c \in Callers, p \in Phrases :
             \/ InitLooks(c, p)
             \/ \E then \in {"park", "change", "list", "recode"} : Unlock(c, p, then)
             \/ SetPassphrase(c, p)
  BY <1>5, <1>7 DEF InitLooks, Unlock, SetPassphrase, Content
<1>8. CASE \E c \in Callers : InitWrites(c)
  BY <1>5, <1>8 DEF InitWrites, Content
<1>9. CASE \E s \in Sessions :
             \/ WrongPassphrase(s) \/ Park(s) \/ GoIdle(s) \/ Drop(s)
             \/ AddSealed(s)
             \/ \E f \in sealed : EditSealed(s, f)
  BY <1>5, <1>9 DEF WrongPassphrase, Park, GoIdle, Drop, AddSealed, EditSealed, Content
<1>10. CASE \E s \in Sessions :
             \/ MoveReads(s) \/ MoveCollects(s) \/ MoveSeals(s) \/ MoveFails(s)
             \/ MoveScrubs(s)
             \/ \E i \in call[s].todo : MoveUnlinks(s, i)
  BY <1>5, <1>10 DEF MoveReads, MoveCollects, MoveFails, MoveScrubs, MoveUnlinks,
     Content
<1>11. CASE \E s \in Sessions : MoveAmends(s) \/ AttachFile(s) \/ RemoveFile(s)
  BY <1>5, <1>11 DEF MoveAmends, AttachFile, RemoveFile, Content
<1>12. CASE \E c \in Shells :
             \/ \E n \in 1 .. minted.codes : Recover(c, n)
             \/ Recode(c)
             \/ DrainLists(c) \/ DrainShreds(c) \/ DrainEnds(c) \/ ShellDies(c)
             \/ \E u \in Units : DrainSkips(c, u) \/ DrainSeals(c, u)
  BY <1>5, <1>12 DEF Recover, Recode, DrainLists, DrainShreds, DrainEnds,
     ShellDies, DrainSkips,
     DrainSeals, Content
<1>13. CASE CarryTitle \/ Restart
  BY <1>5, <1>13 DEF CarryTitle, Restart, Content
<1> QED
  BY <1>1, <1>2, <1>3, <1>4, <1>6, <1>7, <1>8, <1>9, <1>10, <1>11, <1>12, <1>13 DEF Next

(* move_note_to_vault: what the library note loses was sealed in the same  *)
(* step, was gone from disk, or was written after the move had read it.    *)
THEOREM SealedFirst == Spec => SealedBeforeDestroyed
<1>1. Typed /\ RowsWhole /\ [Next]_vars => RowsWhole' /\ SealedNow
  BY SealsRows, RowsStay
<1>2. Typed /\ RowsWhole /\ [Next]_vars => RowsWhole' /\ [SealedNow]_vars
  BY <1>1
<1> QED
  BY <1>2, VaultTypes, RowsWholeInit, PTL DEF Spec, SealedBeforeDestroyed, SealedNow

-----------------------------------------------------------------------------
(* One key *)

\* One caller alone may run the set-up: two that overlap each mint a key.
OneFounder == \A a, b \in Founders : a = b
Keyed == {"park", "change", "recode", "list", "drain", "shred", "collect", "seal"}

\* The inductive invariant: there is one data key, which every call past its
\* unlock holds, and nothing is sealed before it is written down.
CallHeld(c, r) ==
  /\ r.pc = "found" => c \in Founders /\ ~ IsSetUp
  /\ r.pc \in Keyed => IsSetUp /\ r.key = meta.key
KeyHeld ==
  /\ Recoverable
  /\ ~ IsSetUp => sealed = {} /\ \A s \in Sessions : keys[s].key = 0
  /\ \A c \in Callers : CallHeld(c, call[c])

LEMMA KeyHeldInit == Init => KeyHeld
<1> SUFFICES ASSUME Init PROVE KeyHeld
  OBVIOUS
<1>1. ~ IsSetUp /\ sealed = {} /\ \A s \in Sessions : keys[s].key = 0
  BY DEF Init, IsSetUp, Locked
<1>2. Recoverable
  BY <1>1 DEF Init, Recoverable
<1>3. \A c \in Callers : CallHeld(c, call[c])
  BY IdleOK DEF Init, CallHeld, Keyed
<1> QED
  BY <1>1, <1>2, <1>3 DEF KeyHeld

Given(k) == k = 0 \/ (IsSetUp /\ k = meta.key)

\* What a step that leaves vault_meta alone may do with keys, rows and calls.
NextKeys == \A s \in Sessions : Given(keys'[s].key)
NextSealed == \A f \in sealed' : f \in sealed \/ (IsSetUp /\ f.key = meta.key)
NextCalls == \A c \in Callers : CallHeld(c, call'[c])

LEMMA SameMeta ==
  ASSUME KeyHeld, meta' = meta, NextKeys, NextSealed, NextCalls
  PROVE  KeyHeld'
<1>1. Recoverable'
  BY DEF KeyHeld, Recoverable, Given, NextKeys, NextSealed
<1>2. ~ IsSetUp' => sealed' = {} /\ \A s \in Sessions : keys'[s].key = 0
  BY DEF KeyHeld, IsSetUp, Given, NextKeys, NextSealed
<1>3. \A c \in Callers : CallHeld(c, call[c])'
  BY DEF CallHeld, IsSetUp, NextCalls
<1> QED
  BY <1>1, <1>2, <1>3 DEF KeyHeld

LEMMA KeysGiven == ASSUME KeyHeld PROVE \A s \in Sessions : Given(keys[s].key)
<1>1. CASE IsSetUp
  BY <1>1 DEF KeyHeld, Recoverable, Given, IsSetUp
<1>2. CASE ~ IsSetUp
  BY <1>2 DEF KeyHeld, Given, IsSetUp
<1> QED
  BY <1>1, <1>2

LEMMA KeyInUse ==
  ASSUME KeyHeld, NEW s \in Sessions, Unlocked(s) PROVE IsSetUp /\ keys[s].key = meta.key
BY DEF KeyHeld, Recoverable, Unlocked

LEMMA KeysRefreshed ==
  ASSUME Typed, KeyHeld, NEW s \in Sessions, keys' = Refreshed(s)
  PROVE  NextKeys
<1>1. \A t \in Sessions : keys'[t].key = keys[t].key
  BY DEF Typed, KeysTyped, Refreshed
<1> QED
  BY <1>1, KeysGiven DEF NextKeys

LEMMA KeysLocked ==
  ASSUME KeyHeld, \A s \in Sessions : keys'[s] \in {keys[s], Locked}
  PROVE  NextKeys
<1>1. Locked.key = 0
  BY DEF Locked
<1> QED
  BY <1>1, KeysGiven DEF NextKeys, Given, IsSetUp

LEMMA CallsHeld == ASSUME KeyHeld PROVE \A c \in Callers : CallHeld(c, call[c])
BY DEF KeyHeld

LEMMA SetHeld ==
  ASSUME CallTyped, KeyHeld, NEW c \in Callers, NEW r, CallHeld(c, r),
         call' = [call EXCEPT ![c] = r]
  PROVE  NextCalls
BY CallsHeld DEF CallTyped, NextCalls

LEMMA IdleHeld == ASSUME NEW c PROVE CallHeld(c, Idle)
BY IdleOK DEF CallHeld, Keyed

LEMMA OthersHeld ==
  ASSUME Typed, KeyHeld, [Next]_vars,
         ~ \E c \in Callers : \/ InitWrites(c)
                              \/ \E p \in Phrases : SetPassphrase(c, p)
                              \/ Recode(c)
  PROVE  KeyHeld'
<1>1. CASE \E c \in Callers, p \in Phrases :
             \/ InitLooks(c, p)
             \/ \E then \in {"park", "change", "list", "recode"} : Unlock(c, p, then)
             \/ SetPassphrase(c, p)
  <2>1. ASSUME NEW c \in Callers, NEW p \in Phrases, InitLooks(c, p)
        PROVE  KeyHeld'
    <3>1. NextKeys
      BY <2>1, KeysGiven DEF NextKeys, InitLooks
    <3>2. NextSealed
      BY <2>1 DEF NextSealed, IsSetUp, InitLooks
    <3>3. NextCalls
      <4> DEFINE r == [Idle EXCEPT !.pc = "found", !.key = minted'.keys, !.phrase = p, !.todo = {minted'.codes}]
      <4>1. call[c] \in Calls /\ CallHeld(c, call[c])
        BY <2>1, CallsHeld, CallParts, Caller DEF Typed
      <4>2. CallHeld(c, r)
        BY <2>1, <4>1, IdleOK DEF InitLooks, CallHeld, Keyed, Calls, At, Opens
      <4>3. call' = [call EXCEPT ![c] = r]
        BY <2>1, Caller DEF InitLooks, Typed, CallTyped, Goto, Return
      <4> HIDE DEF r
      <4> QED
        BY <4>2, <4>3, <2>1, SetHeld, Caller DEF Typed
    <3> QED
      BY <2>1, <3>1, <3>2, <3>3, SameMeta DEF InitLooks
  <2>2. ASSUME NEW c \in Callers, NEW p \in Phrases, NEW then \in {"park", "change", "list", "recode"}, Unlock(c, p, then)
        PROVE  KeyHeld'
    <3>1. NextKeys
      BY <2>2, KeysGiven DEF NextKeys, Unlock
    <3>2. NextSealed
      BY <2>2 DEF NextSealed, IsSetUp, Unlock
    <3>3. NextCalls
      <4> DEFINE r == [Idle EXCEPT !.pc = then, !.key = meta.key]
      <4>1. call[c] \in Calls /\ CallHeld(c, call[c])
        BY <2>2, CallsHeld, CallParts, Caller DEF Typed
      <4>2. CallHeld(c, r)
        BY <2>2, <4>1, IdleOK DEF Unlock, CallHeld, Keyed, Calls, At, Opens
      <4>3. call' = [call EXCEPT ![c] = r]
        BY <2>2, Caller DEF Unlock, Typed, CallTyped, Goto, Return
      <4> HIDE DEF r
      <4> QED
        BY <4>2, <4>3, <2>2, SetHeld, Caller DEF Typed
    <3> QED
      BY <2>2, <3>1, <3>2, <3>3, SameMeta DEF Unlock
  <2> QED
    BY <1>1, <2>1, <2>2
<1>2. CASE \E s \in Sessions :
             \/ WrongPassphrase(s) \/ Park(s) \/ GoIdle(s) \/ Drop(s)
             \/ AddSealed(s)
             \/ \E f \in sealed : EditSealed(s, f)
  <2>1. ASSUME NEW s \in Sessions, WrongPassphrase(s)
        PROVE  KeyHeld'
    <3>1. NextKeys
      BY <2>1, KeysGiven DEF NextKeys, WrongPassphrase
    <3>2. NextSealed
      BY <2>1 DEF NextSealed, IsSetUp, WrongPassphrase
    <3>3. NextCalls
      BY <2>1, IdleHeld, SetHeld, Caller DEF WrongPassphrase, Return, Typed
    <3> QED
      BY <2>1, <3>1, <3>2, <3>3, SameMeta DEF WrongPassphrase
  <2>2. ASSUME NEW s \in Sessions, Park(s)
        PROVE  KeyHeld'
    <3>1. NextKeys
      <4>1. IsSetUp /\ call[s].key = meta.key
        BY <2>2, CallsHeld, Caller DEF Park, At, CallHeld, Keyed
      <4> QED
        BY <2>2, <4>1, KeysGiven DEF Park, Given, Typed, KeysTyped, NextKeys
    <3>2. NextSealed
      BY <2>2 DEF NextSealed, IsSetUp, Park
    <3>3. NextCalls
      BY <2>2, IdleHeld, SetHeld, Caller DEF Park, Return, Typed
    <3> QED
      BY <2>2, <3>1, <3>2, <3>3, SameMeta DEF Park
  <2>3. ASSUME NEW s \in Sessions, GoIdle(s)
        PROVE  KeyHeld'
    <3>1. NextKeys
      BY <2>3, KeysGiven DEF GoIdle, Given, Typed, KeysTyped, NextKeys
    <3>2. NextSealed
      BY <2>3 DEF NextSealed, IsSetUp, GoIdle
    <3>3. NextCalls
      BY <2>3, CallsHeld DEF NextCalls, GoIdle
    <3> QED
      BY <2>3, <3>1, <3>2, <3>3, SameMeta DEF GoIdle
  <2>4. ASSUME NEW s \in Sessions, Drop(s)
        PROVE  KeyHeld'
    <3>1. NextKeys
      BY <2>4, KeysLocked DEF Drop, Typed, KeysTyped
    <3>2. NextSealed
      BY <2>4 DEF NextSealed, IsSetUp, Drop
    <3>3. NextCalls
      BY <2>4, CallsHeld DEF NextCalls, Drop
    <3> QED
      BY <2>4, <3>1, <3>2, <3>3, SameMeta DEF Drop
  <2>5. ASSUME NEW s \in Sessions, AddSealed(s)
        PROVE  KeyHeld'
    <3>1. NextKeys
      BY <2>5, KeysRefreshed DEF AddSealed
    <3>2. NextSealed
      <4>1. IsSetUp /\ keys[s].key = meta.key
        BY <2>5, KeyInUse DEF AddSealed, CanWrite
      <4> QED
        BY <2>5, <4>1 DEF AddSealed, Seal, NextSealed, IsSetUp
    <3>3. NextCalls
      BY <2>5, CallsHeld DEF NextCalls, AddSealed
    <3> QED
      BY <2>5, <3>1, <3>2, <3>3, SameMeta DEF AddSealed
  <2>6. ASSUME NEW s \in Sessions, NEW f \in sealed, EditSealed(s, f)
        PROVE  KeyHeld'
    <3>1. NextKeys
      BY <2>6, KeysRefreshed DEF EditSealed
    <3>2. NextSealed
      <4>1. IsSetUp /\ keys[s].key = meta.key
        BY <2>6, KeyInUse DEF EditSealed, CanWrite
      <4> QED
        BY <2>6, <4>1 DEF EditSealed, Seal, NextSealed, IsSetUp
    <3>3. NextCalls
      BY <2>6, CallsHeld DEF NextCalls, EditSealed
    <3> QED
      BY <2>6, <3>1, <3>2, <3>3, SameMeta DEF EditSealed
  <2> QED
    BY <1>2, <2>1, <2>2, <2>3, <2>4, <2>5, <2>6
<1>3. CASE \E s \in Sessions :
             \/ MoveReads(s) \/ MoveCollects(s) \/ MoveSeals(s) \/ MoveFails(s)
             \/ MoveScrubs(s)
             \/ \E i \in call[s].todo : MoveUnlinks(s, i)
  <2>1. ASSUME NEW s \in Sessions, MoveReads(s)
        PROVE  KeyHeld'
    <3>1. NextKeys
      BY <2>1, KeysRefreshed DEF MoveReads
    <3>2. NextSealed
      BY <2>1 DEF NextSealed, IsSetUp, MoveReads
    <3>3. NextCalls
      <4> DEFINE r == [Idle EXCEPT !.pc = "collect", !.key = keys[s].key, !.seen = Body]
      <4>1. call[s] \in Calls /\ CallHeld(s, call[s])
        BY <2>1, CallsHeld, CallParts, Caller DEF Typed
      <4>2. CallHeld(s, r)
        BY <2>1, <4>1, IdleOK, KeyInUse DEF MoveReads, CallHeld, Keyed,
           Calls, At, Opens, Unlocked
      <4>3. call' = [call EXCEPT ![s] = r]
        BY <2>1, Caller DEF MoveReads, Typed, CallTyped, Goto, Return
      <4> HIDE DEF r
      <4> QED
        BY <4>2, <4>3, <2>1, SetHeld, Caller DEF Typed
    <3> QED
      BY <2>1, <3>1, <3>2, <3>3, SameMeta DEF MoveReads
  <2>2. ASSUME NEW s \in Sessions, MoveCollects(s)
        PROVE  KeyHeld'
    <3>1. NextKeys
      BY <2>2, KeysGiven DEF NextKeys, MoveCollects
    <3>2. NextSealed
      BY <2>2 DEF NextSealed, IsSetUp, MoveCollects
    <3>3. NextCalls
      <4> DEFINE r == [call[s] EXCEPT !.pc = "seal", !.seen = @ \cup (rows \ Body)]
      <4>1. call[s] \in Calls /\ CallHeld(s, call[s])
        BY <2>2, CallsHeld, CallParts, Caller DEF Typed
      <4>2. CallHeld(s, r)
        BY <2>2, <4>1, IdleOK DEF MoveCollects, CallHeld, Keyed, Calls, At, Opens
      <4>3. call' = [call EXCEPT ![s] = r]
        BY <2>2, Caller DEF MoveCollects, Typed, CallTyped, Goto, Return
      <4> HIDE DEF r
      <4> QED
        BY <4>2, <4>3, <2>2, SetHeld, Caller DEF Typed
    <3> QED
      BY <2>2, <3>1, <3>2, <3>3, SameMeta DEF MoveCollects
  <2>3. ASSUME NEW s \in Sessions, MoveSeals(s)
        PROVE  KeyHeld'
    <3>1. NextKeys
      BY <2>3, KeysGiven DEF NextKeys, MoveSeals
    <3>2. NextSealed
      <4>1. IsSetUp /\ call[s].key = meta.key
        BY <2>3, CallsHeld, Caller DEF MoveSeals, At, CallHeld, Keyed
      <4> QED
        BY <2>3, <4>1 DEF MoveSeals, Seal, NextSealed, IsSetUp
    <3>3. NextCalls
      <4> DEFINE r == [call[s] EXCEPT !.pc = "scrub", !.todo = {i \in Sealable(call[s].seen) : i.kind = "photo"}]
      <4>1. call[s] \in Calls /\ CallHeld(s, call[s])
        BY <2>3, CallsHeld, CallParts, Caller DEF Typed
      <4>2. CallHeld(s, r)
        BY <2>3, <4>1, IdleOK DEF MoveSeals, CallHeld, Keyed, Calls, At, Opens
      <4>3. call' = [call EXCEPT ![s] = r]
        BY <2>3, Caller DEF MoveSeals, Typed, CallTyped, Goto, Return
      <4> HIDE DEF r
      <4> QED
        BY <4>2, <4>3, <2>3, SetHeld, Caller DEF Typed
    <3> QED
      BY <2>3, <3>1, <3>2, <3>3, SameMeta DEF MoveSeals
  <2>4. ASSUME NEW s \in Sessions, MoveFails(s)
        PROVE  KeyHeld'
    <3>1. NextKeys
      BY <2>4, KeysGiven DEF NextKeys, MoveFails
    <3>2. NextSealed
      BY <2>4 DEF NextSealed, IsSetUp, MoveFails
    <3>3. NextCalls
      BY <2>4, IdleHeld, SetHeld, Caller DEF MoveFails, Return, Typed
    <3> QED
      BY <2>4, <3>1, <3>2, <3>3, SameMeta DEF MoveFails
  <2>5. ASSUME NEW s \in Sessions, MoveScrubs(s)
        PROVE  KeyHeld'
    <3>1. NextKeys
      BY <2>5, KeysGiven DEF NextKeys, MoveScrubs
    <3>2. NextSealed
      BY <2>5 DEF NextSealed, IsSetUp, MoveScrubs
    <3>3. NextCalls
      <4>1. s \in Callers /\ \A d \in Callers \ {s} : call'[d] = call[d]
        BY <2>5, Caller DEF MoveScrubs, Typed, CallTyped
      <4>2. call'[s].pc = "unlink"
        BY <2>5, <4>1 DEF MoveScrubs, Typed, CallTyped, Calls, At
      <4> QED
        BY <4>1, <4>2, CallsHeld DEF CallHeld, Keyed, NextCalls
    <3> QED
      BY <2>5, <3>1, <3>2, <3>3, SameMeta DEF MoveScrubs
  <2>6. ASSUME NEW s \in Sessions, NEW i \in call[s].todo, MoveUnlinks(s, i)
        PROVE  KeyHeld'
    <3>1. NextKeys
      BY <2>6, KeysGiven DEF NextKeys, MoveUnlinks
    <3>2. NextSealed
      BY <2>6 DEF NextSealed, IsSetUp, MoveUnlinks
    <3>3. NextCalls
      <4>1. s \in Callers /\ \A d \in Callers \ {s} : call'[d] = call[d]
        BY <2>6, Caller DEF MoveUnlinks, Typed, CallTyped
      <4>2. call'[s].pc = "unlink"
        BY <2>6, <4>1 DEF MoveUnlinks, Typed, CallTyped, Calls, At
      <4> QED
        BY <4>1, <4>2, CallsHeld DEF CallHeld, Keyed, NextCalls
    <3> QED
      BY <2>6, <3>1, <3>2, <3>3, SameMeta DEF MoveUnlinks
  <2> QED
    BY <1>3, <2>1, <2>2, <2>3, <2>4, <2>5, <2>6
<1>4. CASE \E s \in Sessions :
             \/ MoveAmends(s) \/ AttachFile(s) \/ AttachRow(s)
             \/ RemoveRow(s) \/ RemoveFile(s)
  <2>1. ASSUME NEW s \in Sessions, MoveAmends(s)
        PROVE  KeyHeld'
    <3>1. NextKeys
      BY <2>1, KeysGiven DEF NextKeys, MoveAmends
    <3>2. NextSealed
      BY <2>1 DEF NextSealed, IsSetUp, MoveAmends
    <3>3. NextCalls
      BY <2>1, IdleHeld, SetHeld, Caller DEF MoveAmends, Return, Typed
    <3> QED
      BY <2>1, <3>1, <3>2, <3>3, SameMeta DEF MoveAmends
  <2>2. ASSUME NEW s \in Sessions, AttachFile(s)
        PROVE  KeyHeld'
    <3>1. NextKeys
      BY <2>2, KeysGiven DEF NextKeys, AttachFile
    <3>2. NextSealed
      BY <2>2 DEF NextSealed, IsSetUp, AttachFile
    <3>3. NextCalls
      <4> DEFINE r == [Idle EXCEPT !.pc = "attach", !.seen = {Item("photo", items)}]
      <4>1. call[s] \in Calls /\ CallHeld(s, call[s])
        BY <2>2, CallsHeld, CallParts, Caller DEF Typed
      <4>2. CallHeld(s, r)
        BY <2>2, <4>1, IdleOK DEF AttachFile, CallHeld, Keyed, Calls, At, Opens
      <4>3. call' = [call EXCEPT ![s] = r]
        BY <2>2, Caller DEF AttachFile, Typed, CallTyped, Goto, Return
      <4> HIDE DEF r
      <4> QED
        BY <4>2, <4>3, <2>2, SetHeld, Caller DEF Typed
    <3> QED
      BY <2>2, <3>1, <3>2, <3>3, SameMeta DEF AttachFile
  <2>3. ASSUME NEW s \in Sessions, AttachRow(s)
        PROVE  KeyHeld'
    <3>1. NextKeys
      BY <2>3, KeysGiven DEF NextKeys, AttachRow
    <3>2. NextSealed
      BY <2>3 DEF NextSealed, IsSetUp, AttachRow
    <3>3. NextCalls
      BY <2>3, IdleHeld, SetHeld, Caller DEF AttachRow, Return, Typed
    <3> QED
      BY <2>3, <3>1, <3>2, <3>3, SameMeta DEF AttachRow
  <2>4. ASSUME NEW s \in Sessions, RemoveRow(s)
        PROVE  KeyHeld'
    <3>1. NextKeys
      BY <2>4, KeysGiven DEF NextKeys, RemoveRow
    <3>2. NextSealed
      BY <2>4 DEF NextSealed, IsSetUp, RemoveRow
    <3>3. NextCalls
      <4>1. PICK i \in rows : call' = [call EXCEPT ![s] = [Idle EXCEPT !.pc = "remove", !.seen = {i}]]
        BY <2>4 DEF RemoveRow
      <4>2. CallHeld(s, [Idle EXCEPT !.pc = "remove", !.seen = {i}])
        BY IdleOK DEF CallHeld, Keyed, Calls
      <4> QED
        BY <2>4, <4>1, <4>2, SetHeld, Caller DEF Typed
    <3> QED
      BY <2>4, <3>1, <3>2, <3>3, SameMeta DEF RemoveRow
  <2>5. ASSUME NEW s \in Sessions, RemoveFile(s)
        PROVE  KeyHeld'
    <3>1. NextKeys
      BY <2>5, KeysGiven DEF NextKeys, RemoveFile
    <3>2. NextSealed
      BY <2>5 DEF NextSealed, IsSetUp, RemoveFile
    <3>3. NextCalls
      BY <2>5, IdleHeld, SetHeld, Caller DEF RemoveFile, Return, Typed
    <3> QED
      BY <2>5, <3>1, <3>2, <3>3, SameMeta DEF RemoveFile
  <2> QED
    BY <1>4, <2>1, <2>2, <2>3, <2>4, <2>5
<1>5. CASE \E c \in Shells :
             \/ \E n \in 1 .. minted.codes : Recover(c, n)
             \/ Recode(c)
             \/ DrainLists(c) \/ DrainShreds(c) \/ DrainEnds(c) \/ ShellDies(c)
             \/ \E u \in Units : DrainSkips(c, u) \/ DrainSeals(c, u)
  <2>1. ASSUME NEW c \in Shells, NEW n \in 1 .. minted.codes, Recover(c, n)
        PROVE  KeyHeld'
    <3>1. NextKeys
      BY <2>1, KeysGiven DEF NextKeys, Recover
    <3>2. NextSealed
      BY <2>1 DEF NextSealed, IsSetUp, Recover
    <3>3. NextCalls
      <4> DEFINE r == [Idle EXCEPT !.pc = "change", !.key = meta.codeKey]
      <4>1. call[c] \in Calls /\ CallHeld(c, call[c])
        BY <2>1, CallsHeld, CallParts, Caller DEF Typed
      <4>2. CallHeld(c, r)
        BY <2>1, <4>1, IdleOK DEF Recover, CallHeld, Keyed, Calls, At,
           Opens, KeyHeld, Recoverable
      <4>3. call' = [call EXCEPT ![c] = r]
        BY <2>1, Caller DEF Recover, Typed, CallTyped, Goto, Return
      <4> HIDE DEF r
      <4> QED
        BY <4>2, <4>3, <2>1, SetHeld, Caller DEF Typed
    <3> QED
      BY <2>1, <3>1, <3>2, <3>3, SameMeta DEF Recover
  <2>2. ASSUME NEW c \in Shells, DrainLists(c)
        PROVE  KeyHeld'
    <3>1. NextKeys
      BY <2>2, KeysGiven DEF NextKeys, DrainLists
    <3>2. NextSealed
      BY <2>2 DEF NextSealed, IsSetUp, DrainLists
    <3>3. NextCalls
      <4> DEFINE r == [call[c] EXCEPT !.pc = "drain", !.todo = open]
      <4>1. call[c] \in Calls /\ CallHeld(c, call[c])
        BY <2>2, CallsHeld, CallParts, Caller DEF Typed
      <4>2. CallHeld(c, r)
        BY <2>2, <4>1, IdleOK DEF DrainLists, CallHeld, Keyed, Calls, At, Opens
      <4>3. call' = [call EXCEPT ![c] = r]
        BY <2>2, Caller DEF DrainLists, Typed, CallTyped, Goto, Return
      <4> HIDE DEF r
      <4> QED
        BY <4>2, <4>3, <2>2, SetHeld, Caller DEF Typed
    <3> QED
      BY <2>2, <3>1, <3>2, <3>3, SameMeta DEF DrainLists
  <2>3. ASSUME NEW c \in Shells, DrainShreds(c)
        PROVE  KeyHeld'
    <3>1. NextKeys
      BY <2>3, KeysGiven DEF NextKeys, DrainShreds
    <3>2. NextSealed
      BY <2>3 DEF NextSealed, IsSetUp, DrainShreds
    <3>3. NextCalls
      <4> DEFINE r == [call[c] EXCEPT !.pc = "drain", !.seen = {}]
      <4>1. call[c] \in Calls /\ CallHeld(c, call[c])
        BY <2>3, CallsHeld, CallParts, Caller DEF Typed
      <4>2. CallHeld(c, r)
        BY <2>3, <4>1, IdleOK DEF DrainShreds, CallHeld, Keyed, Calls, At, Opens
      <4>3. call' = [call EXCEPT ![c] = r]
        BY <2>3, Caller DEF DrainShreds, Typed, CallTyped, Goto, Return
      <4> HIDE DEF r
      <4> QED
        BY <4>2, <4>3, <2>3, SetHeld, Caller DEF Typed
    <3> QED
      BY <2>3, <3>1, <3>2, <3>3, SameMeta DEF DrainShreds
  <2>4. ASSUME NEW c \in Shells, DrainEnds(c)
        PROVE  KeyHeld'
    <3>1. NextKeys
      BY <2>4, KeysGiven DEF NextKeys, DrainEnds
    <3>2. NextSealed
      BY <2>4 DEF NextSealed, IsSetUp, DrainEnds
    <3>3. NextCalls
      BY <2>4, IdleHeld, SetHeld, Caller DEF DrainEnds, Return, Typed
    <3> QED
      BY <2>4, <3>1, <3>2, <3>3, SameMeta DEF DrainEnds
  <2>5. ASSUME NEW c \in Shells, ShellDies(c)
        PROVE  KeyHeld'
    <3>1. NextKeys
      BY <2>5, KeysGiven DEF NextKeys, ShellDies
    <3>2. NextSealed
      BY <2>5 DEF NextSealed, IsSetUp, ShellDies
    <3>3. NextCalls
      BY <2>5, IdleHeld, SetHeld, Caller DEF ShellDies, Return, Typed
    <3> QED
      BY <2>5, <3>1, <3>2, <3>3, SameMeta DEF ShellDies
  <2>6. ASSUME NEW c \in Shells, NEW u \in Units, DrainSkips(c, u)
        PROVE  KeyHeld'
    <3>1. NextKeys
      BY <2>6, KeysGiven DEF NextKeys, DrainSkips
    <3>2. NextSealed
      BY <2>6 DEF NextSealed, IsSetUp, DrainSkips
    <3>3. NextCalls
      <4> DEFINE r == [call[c] EXCEPT !.todo = @ \ {u}]
      <4>1. call[c] \in Calls /\ CallHeld(c, call[c])
        BY <2>6, CallsHeld, CallParts, Caller DEF Typed
      <4>2. CallHeld(c, r)
        BY <2>6, <4>1, IdleOK DEF DrainSkips, CallHeld, Keyed, Calls, At, Opens
      <4>3. call' = [call EXCEPT ![c] = r]
        BY <2>6, Caller DEF DrainSkips, Typed, CallTyped, Goto, Return
      <4> HIDE DEF r
      <4> QED
        BY <4>2, <4>3, <2>6, SetHeld, Caller DEF Typed
    <3> QED
      BY <2>6, <3>1, <3>2, <3>3, SameMeta DEF DrainSkips
  <2>7. ASSUME NEW c \in Shells, NEW u \in Units, DrainSeals(c, u)
        PROVE  KeyHeld'
    <3>1. NextKeys
      BY <2>7, KeysGiven DEF NextKeys, DrainSeals
    <3>2. NextSealed
      <4>1. IsSetUp /\ call[c].key = meta.key
        BY <2>7, CallsHeld, Caller DEF DrainSeals, At, CallHeld, Keyed
      <4> QED
        BY <2>7, <4>1 DEF DrainSeals, Seal, NextSealed, IsSetUp
    <3>3. NextCalls
      <4> DEFINE r == [call[c] EXCEPT !.pc = "shred", !.todo = @ \ {u}, !.seen = {u}]
      <4>1. call[c] \in Calls /\ CallHeld(c, call[c])
        BY <2>7, CallsHeld, CallParts, Caller DEF Typed
      <4>2. CallHeld(c, r)
        BY <2>7, <4>1, IdleOK DEF DrainSeals, CallHeld, Keyed, Calls, At, Opens
      <4>3. call' = [call EXCEPT ![c] = r]
        BY <2>7, Caller DEF DrainSeals, Typed, CallTyped, Goto, Return
      <4> HIDE DEF r
      <4> QED
        BY <4>2, <4>3, <2>7, SetHeld, Caller DEF Typed
    <3> QED
      BY <2>7, <3>1, <3>2, <3>3, SameMeta DEF DrainSeals
  <2> QED
    BY <1>5, <2>1, <2>2, <2>3, <2>4, <2>5, <2>6, <2>7, Caller
<1>6. CASE EditNote \/ AddThought \/ CarryTitle \/ Restart
  <2>1. ASSUME EditNote
        PROVE  KeyHeld'
    <3>1. NextKeys
      BY <2>1, KeysGiven DEF NextKeys, EditNote
    <3>2. NextSealed
      BY <2>1 DEF NextSealed, IsSetUp, EditNote
    <3>3. NextCalls
      BY <2>1, CallsHeld DEF NextCalls, EditNote
    <3> QED
      BY <2>1, <3>1, <3>2, <3>3, SameMeta DEF EditNote
  <2>2. ASSUME AddThought
        PROVE  KeyHeld'
    <3>1. NextKeys
      BY <2>2, KeysGiven DEF NextKeys, AddThought
    <3>2. NextSealed
      BY <2>2 DEF NextSealed, IsSetUp, AddThought
    <3>3. NextCalls
      BY <2>2, CallsHeld DEF NextCalls, AddThought
    <3> QED
      BY <2>2, <3>1, <3>2, <3>3, SameMeta DEF AddThought
  <2>3. ASSUME CarryTitle
        PROVE  KeyHeld'
    <3>1. NextKeys
      BY <2>3, KeysGiven DEF NextKeys, CarryTitle
    <3>2. NextSealed
      BY <2>3 DEF NextSealed, IsSetUp, CarryTitle
    <3>3. NextCalls
      BY <2>3, CallsHeld DEF NextCalls, CarryTitle
    <3> QED
      BY <2>3, <3>1, <3>2, <3>3, SameMeta DEF CarryTitle
  <2>4. ASSUME Restart
        PROVE  KeyHeld'
    <3>1. NextKeys
      BY <2>4, KeysLocked DEF Restart, Typed, KeysTyped
    <3>2. NextSealed
      BY <2>4 DEF NextSealed, IsSetUp, Restart
    <3>3. NextCalls
      BY <2>4, CallsHeld, IdleHeld DEF NextCalls, Restart
    <3> QED
      BY <2>4, <3>1, <3>2, <3>3, SameMeta DEF Restart
  <2> QED
    BY <1>6, <2>1, <2>2, <2>3, <2>4
<1>7. CASE UNCHANGED vars
  BY <1>7, KeysGiven, CallsHeld, SameMeta DEF vars, NextKeys, NextSealed,
     NextCalls, IsSetUp
<1> QED
  BY <1>1, <1>2, <1>3, <1>4, <1>5, <1>6, <1>7 DEF Next

LEMMA WritesHeld ==
  ASSUME OneFounder, Typed, KeyHeld, NEW c \in Callers, InitWrites(c)
  PROVE  KeyHeld'
<1>1. c \in Founders /\ ~ IsSetUp /\ call[c].phrase \in Phrases
  BY CallsHeld, CallParts DEF InitWrites, At, CallHeld, Typed, CallOK
<1>2. sealed = {} /\ \A s \in Sessions : keys[s].key = 0
  BY <1>1 DEF KeyHeld
<1>3. IsSetUp' /\ meta'.codeKey = meta'.key
  BY <1>1, VaultAssumption DEF InitWrites, IsSetUp
<1>4. Recoverable'
  BY <1>2, <1>3 DEF InitWrites, Recoverable
<1>5. ASSUME NEW d \in Callers, d # c PROVE call'[d] = call[d] /\ call[d].pc \notin Keyed \cup {"found"}
  <2>1. call'[d] = call[d]
    BY <1>5 DEF InitWrites, Return, Typed, CallTyped
  <2>2. CallHeld(d, call[d])
    BY CallsHeld
  <2> QED
    BY <1>1, <1>5, <2>1, <2>2 DEF OneFounder, CallHeld
<1>6. call'[c].pc \in {"reopen", "idle"}
  BY IdleOK DEF InitWrites, Return, Typed, CallTyped, Calls
<1>7. \A d \in Callers : CallHeld(d, call[d])'
  BY <1>5, <1>6 DEF CallHeld, Keyed
<1> QED
  BY <1>3, <1>4, <1>7 DEF KeyHeld

LEMMA PassphraseHeld ==
  ASSUME Typed, KeyHeld, NEW c \in Callers, NEW p \in Phrases, SetPassphrase(c, p)
  PROVE  KeyHeld'
<1>1. IsSetUp /\ call[c].key = meta.key /\ call[c].pc = "change" /\ call[c] \in Calls
  BY CallsHeld, CallParts DEF SetPassphrase, At, CallHeld, Keyed, Typed
<1>2. IsSetUp' /\ meta'.key = meta.key /\ meta'.codeKey = meta.codeKey
  BY <1>1, VaultAssumption DEF SetPassphrase, Rewrapped, IsSetUp, Typed, MetaTyped
<1>3. Recoverable'
  BY <1>2 DEF SetPassphrase, KeyHeld, Recoverable
<1>4. CASE c \in Sessions
  <2>1. \A d \in Callers \ {c} : call'[d] = call[d]
    BY <1>4 DEF SetPassphrase, Goto, Typed, CallTyped
  <2>2. call'[c].key = meta.key /\ call'[c].pc = "park"
    BY <1>1, <1>4 DEF SetPassphrase, Goto, Typed, CallTyped, Calls
  <2>3. \A d \in Callers : CallHeld(d, call[d])'
    BY <1>1, <1>2, <2>1, <2>2, CallsHeld DEF CallHeld, Keyed
  <2> QED
    BY <1>2, <1>3, <2>3 DEF KeyHeld
<1>5. CASE c \notin Sessions
  <2>1. \A d \in Callers : call'[d] = call[d] \/ call'[d] = Idle
    BY <1>5 DEF SetPassphrase, Return, Typed, CallTyped
  <2>2. \A d \in Callers : CallHeld(d, call[d])'
    BY <1>1, <1>2, <2>1, IdleOK, CallsHeld DEF CallHeld, Keyed
  <2> QED
    BY <1>2, <1>3, <2>2 DEF KeyHeld
<1> QED
  BY <1>4, <1>5

LEMMA RecodeHeld ==
  ASSUME Typed, KeyHeld, NEW c \in Callers, Recode(c)
  PROVE  KeyHeld'
<1>1. IsSetUp /\ call[c].key = meta.key
  BY CallsHeld DEF Recode, At, CallHeld, Keyed
<1>2. IsSetUp' /\ meta'.key = meta.key /\ meta'.codeKey = meta.key
  BY <1>1 DEF Recode, IsSetUp, Typed, MetaTyped
<1>3. Recoverable'
  BY <1>2 DEF Recode, KeyHeld, Recoverable
<1>4. \A d \in Callers : call'[d] = call[d] \/ call'[d] = Idle
  BY DEF Recode, Return, Typed, CallTyped
<1>5. \A d \in Callers : CallHeld(d, call[d])'
  BY <1>1, <1>2, <1>4, IdleOK, CallsHeld DEF CallHeld, Keyed
<1> QED
  BY <1>2, <1>3, <1>5 DEF KeyHeld

LEMMA KeyHeldStep ==
  ASSUME OneFounder
  PROVE  Typed /\ KeyHeld /\ [Next]_vars => KeyHeld'
BY OthersHeld, WritesHeld, PassphraseHeld, RecodeHeld

(* init_vault, set_passphrase, regenerate_recovery_code: everything sealed *)
(* opens with the passphrase and with the recovery code, if only one       *)
(* caller sets the vault up.                                               *)
THEOREM AlwaysRecoverable ==
  ASSUME OneFounder
  PROVE  Spec => []Recoverable
<1>1. Typed /\ KeyHeld /\ [Next]_vars => KeyHeld'
  BY KeyHeldStep
<1>2. KeyHeld => Recoverable
  BY DEF KeyHeld
<1> QED
  BY <1>1, <1>2, KeyHeldInit, VaultTypes, PTL DEF Spec

-----------------------------------------------------------------------------
(* Nothing left in silence *)

\* A move still has the plaintext to remove or to name.
Held(i) ==
  \E s \in Sessions :
    \/ At(s, "scrub") /\ (i = Wal \/ i \in call[s].todo)
    \/ At(s, "unlink") /\ i \in call[s].todo \cup call[s].seen

\* A photo is numbered when its file is written, and no number is given twice.
Old(i) == i.kind = "photo" => i.n \in 0 .. items - 1

\* Where a call's `seen` is what it read of the note.
Reading == {"attach", "collect", "seal"}

\* What is still to be answered for: pages of the log, sealed photos.
Answered(i) == (i = Wal \/ \E f \in sealed : f.item = i) => i \in named \/ Held(i)

\* The inductive invariant: a sealed photo cannot be written again, because a
\* new file has a new number; so from its sealing on some move holds it, or an
\* audit row names it, or it is gone.
Accountable ==
  /\ \A i \in disk : i = Wal \/ i.kind = "photo"
  /\ \A i \in rows : Old(i)
  /\ \A f \in sealed : Old(f.item)
  /\ \A s \in Sessions : call[s].pc \in Reading => \A i \in call[s].seen : Old(i)
  /\ budget.crashes <= MaxCrashes
  /\ budget.crashes = MaxCrashes => \A i \in disk : Answered(i)

LEMMA AccountableInit == Init => Accountable
<1>. SUFFICES ASSUME Init PROVE Accountable
  OBVIOUS
<1>1. \A i \in rows : Old(i)
  BY DEF Init, Item, Old
<1>2. \A i \in disk : i.kind = "photo" /\ i # Wal
  BY DEF Init, Wal, Item
<1>3. budget.crashes = MaxCrashes
  BY DEF Init
<1>4. \A s \in Sessions : call[s].pc \notin Reading
  BY IdleOK, Caller DEF Init, Reading
<1>. QED
  BY <1>1, <1>2, <1>3, <1>4, VaultAssumption DEF Init, Accountable, Answered

NowOld(i) == i.kind = "photo" => i.n \in 0 .. items' - 1

\* What every step but the sealing of a move does to the content.
ContentKept ==
  /\ items' \in Nat /\ items <= items'
  /\ disk' \subseteq disk \cup {Item("photo", items)}
  /\ \A i \in rows' : NowOld(i)
  /\ \A f \in sealed' : f \in sealed \/ f.item.kind # "photo"
  /\ budget'.crashes <= budget.crashes

\* What it does to the calls.
CallsKept ==
  /\ \A s \in Sessions :
       call'[s].pc \in Reading => \A i \in call'[s].seen : NowOld(i)
  /\ budget'.crashes = MaxCrashes =>
       \A i \in disk' : i \in named \/ Held(i) => i \in named' \/ Held(i)'

LEMMA OldStays ==
  ASSUME Typed, items' \in Nat, items <= items', NEW i, Old(i)
  PROVE  NowOld(i)
BY DEF Typed, ItemsTyped, Old, NowOld

LEMMA Kept ==
  ASSUME Typed, Typed', Accountable, ContentKept, CallsKept
  PROVE  Accountable'
<1>1. items \in Nat /\ items' \in Nat /\ items <= items'
  BY DEF Typed, ItemsTyped, ContentKept
<1>2. \A i \in disk' : i = Wal \/ i.kind = "photo"
  BY DEF Accountable, ContentKept, Item
<1>3. \A f \in sealed' : NowOld(f.item)
  BY <1>1, OldStays DEF Accountable, ContentKept, NowOld
<1>4. budget'.crashes <= MaxCrashes
        /\ (budget'.crashes = MaxCrashes => budget.crashes = MaxCrashes)
  <2>1. budget.crashes \in Nat /\ budget'.crashes \in Nat /\ MaxCrashes \in Nat
    BY VaultAssumption DEF Typed, BudgetTyped
  <2>. QED
    BY <2>1 DEF Accountable, ContentKept
<1>5. ASSUME budget'.crashes = MaxCrashes, NEW i \in disk',
             i = Wal \/ \E f \in sealed' : f.item = i
      PROVE  i \in named' \/ Held(i)'
  <2>1. \A f \in sealed : f.item.kind = "photo" => f.item # Item("photo", items)
    BY <1>1 DEF Accountable, Old, Item
  <2>2. i \in disk
    BY <1>5, <2>1 DEF ContentKept, Item, Wal
  <2>3. i = Wal \/ \E f \in sealed : f.item = i
    BY <1>5, <2>2 DEF ContentKept, Accountable
  <2>. QED
    BY <1>4, <1>5, <2>2, <2>3 DEF Accountable, Answered, CallsKept
<1>. QED
  BY <1>2, <1>3, <1>4, <1>5
     DEF Accountable, Answered, ContentKept, CallsKept, Old, NowOld

LEMMA SameCrashes ==
  ASSUME Typed, UNCHANGED budget \/ Spend("changes") \/ Spend("faults")
  PROVE  budget'.crashes <= budget.crashes
<1>1. budget'.crashes = budget.crashes
  BY DEF Typed, BudgetTyped, Spend
<1>2. budget.crashes \in Nat
  BY DEF Typed, BudgetTyped
<1>. QED
  BY <1>1, <1>2

LEMMA SameContent ==
  ASSUME Typed, Accountable, UNCHANGED <<rows, disk, items>>,
         \A f \in sealed' : f \in sealed \/ f.item.kind # "photo",
         UNCHANGED budget \/ Spend("changes") \/ Spend("faults")
  PROVE  ContentKept
<1>1. items \in Nat /\ items' = items
  BY DEF Typed, ItemsTyped
<1>2. \A i \in rows' : NowOld(i)
  BY <1>1, OldStays DEF Accountable
<1>. QED
  BY <1>1, <1>2, SameCrashes DEF ContentKept

LEMMA SameCalls ==
  ASSUME Typed, Typed', Accountable, ContentKept, call' = call, named' = named
  PROVE  Accountable'
<1>1. CallsKept
  BY OldStays DEF CallsKept, ContentKept, Accountable, Held, At
<1>. QED
  BY <1>1, Kept

\* A step of a call that is not past its sealing.
LEMMA Elsewhere ==
  ASSUME Typed, Typed', Accountable, ContentKept, named' = named,
         NEW c \in Callers, \A d \in Callers \ {c} : call'[d] = call[d],
         call[c].pc \notin {"scrub", "unlink"},
         call'[c].pc \in Reading => \A i \in call'[c].seen : NowOld(i)
  PROVE  Accountable'
<1>1. Sessions \subseteq Callers
  BY Caller
<1>2. \A s \in Sessions :
        call'[s].pc \in Reading => \A i \in call'[s].seen : NowOld(i)
  BY <1>1, OldStays DEF ContentKept, Accountable
<1>3. ASSUME NEW i, Held(i)
      PROVE  Held(i)'
  <2>1. PICK s \in Sessions :
          \/ At(s, "scrub") /\ (i = Wal \/ i \in call[s].todo)
          \/ At(s, "unlink") /\ i \in call[s].todo \cup call[s].seen
    BY <1>3 DEF Held
  <2>2. call'[s] = call[s]
    BY <1>1, <2>1 DEF At
  <2>. QED
    BY <2>1, <2>2 DEF Held, At, Wal
<1>. QED
  BY <1>2, <1>3, Kept DEF CallsKept

LEMMA QuietSteps ==
  ASSUME Typed, Typed', Accountable,
         \/ UNCHANGED vars
         \/ EditNote \/ AddThought \/ CarryTitle
         \/ \E s \in Sessions :
              \/ GoIdle(s) \/ Drop(s) \/ AddSealed(s)
              \/ \E f \in sealed : EditSealed(s, f)
  PROVE  Accountable'
<1>1. call' = call /\ named' = named /\ disk' = disk /\ UNCHANGED budget
  BY DEF vars, EditNote, AddThought, CarryTitle, GoIdle, Drop, AddSealed, EditSealed,
         Content
<1>2. items' \in Nat /\ items <= items'
  BY DEF Typed, ItemsTyped, vars, EditNote, AddThought, CarryTitle, GoIdle, Drop,
         AddSealed, EditSealed, Content
<1>3. \A i \in rows' : i \in rows \/ i.kind # "photo"
  BY DEF vars, EditNote, AddThought, CarryTitle, GoIdle, Drop, AddSealed,
         EditSealed, Content, Item
<1>4. \A f \in sealed' : f \in sealed \/ f.item.kind # "photo"
  BY DEF vars, EditNote, AddThought, CarryTitle, GoIdle, Drop, AddSealed,
         EditSealed, Content, Seal, Item
<1>5. \A i \in rows' : NowOld(i)
  BY <1>2, <1>3, OldStays DEF Accountable, NowOld
<1>6. ContentKept
  BY <1>1, <1>2, <1>4, <1>5, SameCrashes DEF ContentKept
<1>. QED
  BY <1>1, <1>6, SameCalls

LEMMA KeySteps ==
  ASSUME Typed, Typed', Accountable, NEW c \in Callers,
         \/ \E p \in Phrases :
              \/ InitLooks(c, p)
              \/ \E then \in {"park", "change", "list", "recode"} : Unlock(c, p, then)
              \/ SetPassphrase(c, p)
         \/ InitWrites(c) \/ Recode(c) \/ \E n \in 1 .. minted.codes : Recover(c, n)
         \/ WrongPassphrase(c) \/ (c \in Sessions /\ Park(c))
  PROVE  Accountable'
<1>1. ContentKept
  <2>1. UNCHANGED <<rows, disk, items>> /\ sealed' = sealed
    BY DEF InitLooks, Unlock, SetPassphrase, InitWrites, Recode, Recover,
           WrongPassphrase, Park, Content
  <2>2. UNCHANGED budget \/ Spend("changes") \/ Spend("faults")
    BY DEF InitLooks, Unlock, SetPassphrase, InitWrites, Recode, Recover,
           WrongPassphrase, Park
  <2>. QED
    BY <2>1, <2>2, SameContent
<1>2. named' = named /\ call[c].pc \notin {"scrub", "unlink"}
  BY DEF InitLooks, Unlock, SetPassphrase, InitWrites, Recode, Recover,
         WrongPassphrase, Park, At
<1>3. (\A d \in Callers \ {c} : call'[d] = call[d]) /\ call'[c].pc \notin Reading
  <2>1. call \in [Callers -> Calls]
    BY DEF Typed, CallTyped
  <2>2. CASE Return(c)
    BY <2>1, <2>2, IdleOK DEF Return, Reading
  <2>3. CASE \E p \in Phrases : InitLooks(c, p)
    BY <2>1, <2>3 DEF InitLooks, Idle, Reading
  <2>4. CASE \E p \in Phrases :
               \E then \in {"park", "change", "list", "recode"} : Unlock(c, p, then)
    BY <2>1, <2>4 DEF Unlock, Idle, Reading
  <2>5. CASE \E n \in 1 .. minted.codes : Recover(c, n)
    BY <2>1, <2>5 DEF Recover, Idle, Reading
  <2>6. CASE Goto(c, "park")
    BY <2>1, <2>6 DEF Goto, Calls, Reading
  <2>7. CASE InitWrites(c)
    BY <2>1, <2>2, <2>7 DEF InitWrites, Idle, Reading
  <2>. QED
    BY <2>2, <2>3, <2>4, <2>5, <2>6, <2>7 DEF SetPassphrase, Recode, WrongPassphrase, Park
<1>. QED
  BY <1>1, <1>2, <1>3, Elsewhere

LEMMA DrainSteps ==
  ASSUME Typed, Typed', Accountable, NEW c \in Shells,
         \/ DrainLists(c) \/ DrainShreds(c) \/ DrainEnds(c)
         \/ \E u \in Units : DrainSkips(c, u) \/ DrainSeals(c, u)
  PROVE  Accountable'
<1>1. ContentKept
  <2>1. UNCHANGED <<rows, disk, items>>
    BY DEF DrainLists, DrainShreds, DrainEnds, DrainSkips, DrainSeals, Content
  <2>2. \A f \in sealed' : f \in sealed \/ f.item.kind # "photo"
    <3>1. ASSUME NEW u \in Units, DrainSeals(c, u), NEW f \in sealed'
          PROVE  f \in sealed \/ f.item.kind # "photo"
      <4>1. f \in sealed \/ f \in Seal({Item("unit", u)}, call[c].key)
        BY <3>1 DEF DrainSeals
      <4>2. f \in Seal({Item("unit", u)}, call[c].key) => f.item = Item("unit", u)
        BY DEF Seal
      <4>. QED
        BY <4>1, <4>2 DEF Item
    <3>. QED
      BY <3>1 DEF DrainLists, DrainShreds, DrainEnds, DrainSkips
  <2>3. UNCHANGED budget \/ Spend("changes") \/ Spend("faults")
    BY DEF DrainLists, DrainShreds, DrainEnds, DrainSkips, DrainSeals
  <2>. QED
    BY <2>1, <2>2, <2>3, SameContent
<1>2. named' = named /\ call[c].pc \notin {"scrub", "unlink"}
  BY DEF DrainLists, DrainShreds, DrainEnds, DrainSkips, DrainSeals, At
<1>3. (\A d \in Callers \ {c} : call'[d] = call[d]) /\ call'[c].pc \notin Reading
  <2>1. c \in Callers /\ call \in [Callers -> Calls] /\ call[c] \in Calls
    BY Caller DEF Typed, CallTyped
  <2>2. ASSUME NEW u \in Units, DrainSkips(c, u) \/ DrainSeals(c, u)
        PROVE  (\A d \in Callers \ {c} : call'[d] = call[d]) /\ call'[c].pc \in {"drain", "shred"}
    <3>1. CASE DrainSkips(c, u)
      BY <2>1, <3>1 DEF DrainSkips, Calls, At
    <3>2. CASE DrainSeals(c, u)
      BY <2>1, <3>2 DEF DrainSeals, Calls, At
    <3>. QED
      BY <2>2, <3>1, <3>2
  <2>3. CASE DrainLists(c) \/ DrainShreds(c)
    BY <2>1, <2>3 DEF DrainLists, DrainShreds, Calls, Reading
  <2>4. CASE DrainEnds(c)
    BY <2>1, <2>4, IdleOK DEF DrainEnds, Return, Reading
  <2>. QED
    BY <2>2, <2>3, <2>4 DEF Reading
<1>. QED
  BY <1>1, <1>2, <1>3, Elsewhere, Caller

LEMMA NoteSteps ==
  ASSUME Typed, Typed', Accountable, NEW s \in Sessions,
         MoveReads(s) \/ MoveCollects(s) \/ MoveFails(s)
  PROVE  Accountable'
<1>1. ContentKept
  BY SameContent DEF MoveReads, MoveCollects, MoveFails, Content
<1>2. named' = named /\ call[s].pc \notin {"scrub", "unlink"}
  BY DEF MoveReads, MoveCollects, MoveFails, At
<1>3. (\A d \in Callers \ {s} : call'[d] = call[d])
        /\ (call'[s].pc \in Reading =>
              \A i \in call'[s].seen : i \in rows \/ (i \in call[s].seen /\ call[s].pc \in Reading))
  <2>1. s \in Callers /\ call \in [Callers -> Calls] /\ call[s] \in Calls
    BY Caller DEF Typed, CallTyped
  <2>2. CASE MoveReads(s)
    <3>1. call'[s].seen = Body /\ \A d \in Callers \ {s} : call'[d] = call[d]
      BY <2>1, <2>2 DEF MoveReads, Idle
    <3>. QED
      BY <3>1 DEF Body
  <2>3. CASE MoveCollects(s)
    BY <2>1, <2>3 DEF MoveCollects, Calls, At, Reading, Body
  <2>4. CASE MoveFails(s)
    BY <2>1, <2>4, IdleOK DEF MoveFails, Return, Reading
  <2>. QED
    BY <2>2, <2>3, <2>4
<1>. QED
  BY <1>1, <1>2, <1>3, Elsewhere, OldStays, Caller DEF Accountable, ContentKept

LEMMA FileSteps ==
  ASSUME Typed, Typed', Accountable, NEW s \in Sessions,
         AttachFile(s) \/ AttachRow(s) \/ RemoveRow(s) \/ RemoveFile(s)
  PROVE  Accountable'
<1>1. items \in Nat /\ items' \in Nat /\ items <= items'
  <2>1. items \in Nat /\ (items' = items \/ items' = items + 1)
    BY DEF Typed, ItemsTyped, AttachFile, AttachRow, RemoveRow, RemoveFile
  <2>. QED
    BY <2>1
<1>2. call[s].pc = "attach" => call[s].pc \in Reading
  BY DEF Reading
<1>3. \A i \in rows' : i \in rows \/ (i \in call[s].seen /\ call[s].pc \in Reading)
  BY <1>2 DEF AttachFile, AttachRow, RemoveRow, RemoveFile, At
<1>4. \A i \in rows' : NowOld(i)
  BY <1>1, <1>3, OldStays DEF Accountable
<1>5. ContentKept
  BY <1>1, <1>4, SameCrashes
     DEF ContentKept, AttachFile, AttachRow, RemoveRow, RemoveFile
<1>6. named' = named /\ call[s].pc \notin {"scrub", "unlink"}
  BY DEF AttachFile, AttachRow, RemoveRow, RemoveFile, At
<1>7. (\A d \in Callers \ {s} : call'[d] = call[d])
        /\ (call'[s].pc \in Reading => AttachFile(s) /\ call'[s].seen = {Item("photo", items)})
  BY IdleOK, Caller DEF AttachFile, AttachRow, RemoveRow, RemoveFile, Typed, CallTyped,
     Return, Reading, Idle
<1>8. AttachFile(s) => NowOld(Item("photo", items))
  BY <1>1 DEF AttachFile, NowOld, Item
<1>. QED
  BY <1>5, <1>6, <1>7, <1>8, Elsewhere, Caller

LEMMA Deaths ==
  ASSUME Typed, Typed', Accountable, Restart \/ \E c \in Shells : ShellDies(c)
  PROVE  Accountable'
<1>1. budget'.crashes = budget.crashes - 1 /\ budget.crashes > 0
  BY DEF Restart, ShellDies, Spend, Typed, BudgetTyped
<1>2. budget'.crashes \in Nat /\ budget.crashes \in Nat /\ MaxCrashes \in Nat
  BY VaultAssumption DEF Typed, BudgetTyped
<1>3. budget'.crashes < MaxCrashes /\ budget'.crashes <= budget.crashes
  BY <1>1, <1>2 DEF Accountable
<1>4. UNCHANGED <<rows, disk, items, sealed>> /\ items \in Nat
  BY DEF Restart, ShellDies, Content, Typed, ItemsTyped
<1>5. \A i \in rows : NowOld(i)
  BY <1>4, OldStays DEF Accountable
<1>6. ContentKept
  BY <1>3, <1>4, <1>5 DEF ContentKept
<1>7. \A d \in Sessions : call'[d] = Idle \/ call'[d] = call[d]
  BY Caller DEF Restart, ShellDies, Return, Typed, CallTyped
<1>8. \A d \in Sessions :
        call'[d].pc \in Reading => \A i \in call'[d].seen : NowOld(i)
  BY <1>4, <1>7, IdleOK, OldStays DEF Accountable, Reading
<1>. QED
  BY <1>2, <1>3, <1>6, <1>8, Kept DEF CallsKept

\* After its commit a move drops a file only when it is gone, and what it has
\* still to name only when it has named it.
LEMMA TailSteps ==
  ASSUME Typed, Typed', Accountable, NEW s \in Sessions,
         MoveScrubs(s) \/ MoveAmends(s) \/ \E i \in call[s].todo : MoveUnlinks(s, i)
  PROVE  Accountable'
<1>1. ContentKept
  <2>1. UNCHANGED <<rows, items, sealed>> /\ disk' \subseteq disk /\ items \in Nat
    BY DEF MoveScrubs, MoveAmends, MoveUnlinks, Content, Typed, ItemsTyped
  <2>2. UNCHANGED budget \/ Spend("changes") \/ Spend("faults")
    BY DEF MoveScrubs, MoveAmends, MoveUnlinks
  <2>3. \A i \in rows' : NowOld(i)
    BY <2>1, OldStays DEF Accountable
  <2>. QED
    BY <2>1, <2>2, <2>3, SameCrashes DEF ContentKept
<1>2. s \in Callers /\ call \in [Callers -> Calls] /\ call[s] \in Calls
  BY Caller DEF Typed, CallTyped
<1>3. \A d \in Callers \ {s} : call'[d] = call[d]
  BY <1>2 DEF MoveScrubs, MoveAmends, MoveUnlinks, Return
<1>4. call'[s].pc \notin Reading
  <2>1. CASE MoveScrubs(s)
    BY <1>2, <2>1 DEF MoveScrubs, Calls, Reading
  <2>2. CASE MoveAmends(s)
    BY <1>2, <2>2, IdleOK DEF MoveAmends, Return, Reading
  <2>3. ASSUME NEW i \in call[s].todo, MoveUnlinks(s, i)
        PROVE  call'[s].pc = "unlink"
    BY <1>2, <2>3 DEF MoveUnlinks, At, Calls
  <2>. QED
    BY <2>1, <2>2, <2>3 DEF Reading
<1>5. \A d \in Sessions :
        call'[d].pc \in Reading => \A i \in call'[d].seen : NowOld(i)
  BY <1>1, <1>3, <1>4, OldStays, Caller DEF Accountable, ContentKept
<1>6. ASSUME NEW i \in disk',
             \/ At(s, "scrub") /\ (i = Wal \/ i \in call[s].todo)
             \/ At(s, "unlink") /\ i \in call[s].todo \cup call[s].seen
      PROVE  \/ i \in named'
             \/ call'[s].pc = "unlink" /\ i \in call'[s].todo \cup call'[s].seen
  <2>1. CASE MoveScrubs(s)
    BY <1>2, <1>6, <2>1 DEF MoveScrubs, At, Calls
  <2>2. CASE MoveAmends(s)
    BY <1>2, <1>6, <2>2 DEF MoveAmends, At
  <2>3. ASSUME NEW j \in call[s].todo, MoveUnlinks(s, j)
        PROVE  call'[s].pc = "unlink" /\ i \in call'[s].todo \cup call'[s].seen
    BY <1>2, <1>6, <2>3 DEF MoveUnlinks, At, Calls
  <2>. QED
    BY <2>1, <2>2, <2>3
<1>7. ASSUME NEW i \in disk', i \in named \/ Held(i)
      PROVE  i \in named' \/ Held(i)'
  <2>1. CASE i \in named
    BY <2>1 DEF MoveScrubs, MoveAmends, MoveUnlinks
  <2>2. ASSUME NEW d \in Sessions,
               \/ At(d, "scrub") /\ (i = Wal \/ i \in call[d].todo)
               \/ At(d, "unlink") /\ i \in call[d].todo \cup call[d].seen
        PROVE  i \in named' \/ Held(i)'
    <3>1. CASE d = s
      BY <1>6, <2>2, <3>1 DEF Held, At
    <3>2. CASE d # s
      BY <1>3, <2>2, <3>2, Caller DEF Held, At, Wal
    <3>. QED
      BY <3>1, <3>2
  <2>. QED
    BY <1>7, <2>1, <2>2 DEF Held
<1>. QED
  BY <1>1, <1>5, <1>7, Kept DEF CallsKept

\* The sealing puts the log and every photo it seals into the move's hand.
LEMMA SealStep ==
  ASSUME Typed, Typed', Accountable, NEW s \in Sessions, MoveSeals(s)
  PROVE  Accountable'
<1>1. s \in Callers /\ call \in [Callers -> Calls] /\ call[s] \in Calls
  BY Caller DEF Typed, CallTyped
<1>2. call[s].pc = "seal" /\ call'[s].pc = "scrub"
  BY <1>1 DEF MoveSeals, At, Calls
<1>3. \A d \in Callers \ {s} : call'[d] = call[d]
  BY <1>1 DEF MoveSeals
<1>4. UNCHANGED <<items, named, budget>> /\ rows' = {} /\ disk' = disk \cup {Wal}
  BY DEF MoveSeals, Destroy
<1>5. call'[s].todo = {i \in Sealable(call[s].seen) : i.kind = "photo"}
  BY <1>1 DEF MoveSeals, Calls
<1>6. \A f \in sealed' : f \in sealed \/ f.item \in Sealable(call[s].seen)
  BY DEF MoveSeals, Seal
<1>7. \A f \in sealed' : Old(f.item)
  BY <1>2, <1>6 DEF Accountable, Sealable, Reading
<1>8. ASSUME NEW d \in Sessions, call'[d].pc \in Reading
      PROVE  \A i \in call'[d].seen : Old(i)
  <2>1. d # s
    BY <1>2, <1>8 DEF Reading
  <2>. QED
    BY <1>3, <1>8, <2>1, Caller DEF Accountable
<1>9. ASSUME NEW i, Held(i)
      PROVE  Held(i)'
  <2>1. PICK d \in Sessions :
          \/ At(d, "scrub") /\ (i = Wal \/ i \in call[d].todo)
          \/ At(d, "unlink") /\ i \in call[d].todo \cup call[d].seen
    BY <1>9 DEF Held
  <2>2. call'[d] = call[d]
    BY <1>2, <1>3, <2>1, Caller DEF At
  <2>. QED
    BY <2>1, <2>2 DEF Held, At, Wal
<1>10. ASSUME budget.crashes = MaxCrashes, NEW i \in disk',
              i = Wal \/ \E f \in sealed' : f.item = i
       PROVE  i \in named \/ Held(i)'
  <2>1. CASE i = Wal
    BY <1>2, <2>1 DEF Held, At, Wal
  <2>2. ASSUME i # Wal, NEW f \in sealed, f.item = i
        PROVE  i \in named \/ Held(i)'
    BY <1>4, <1>9, <1>10, <2>2 DEF Accountable, Answered
  <2>3. ASSUME i # Wal, i \in Sealable(call[s].seen)
        PROVE  Held(i)'
    <3>1. i.kind = "photo"
      BY <1>4, <2>3 DEF Accountable
    <3>. QED
      BY <1>2, <1>5, <2>3, <3>1 DEF Held, At
  <2>. QED
    BY <1>6, <1>10, <2>1, <2>2, <2>3
<1>11. \A i \in disk' : i = Wal \/ i.kind = "photo"
  BY <1>4 DEF Accountable
<1>. QED
  BY <1>4, <1>7, <1>8, <1>10, <1>11 DEF Accountable, Answered, Old, Wal, Item

LEMMA AccountableStep ==
  ASSUME Typed, Typed', Accountable, [Next]_vars
  PROVE  Accountable'
<1>1. CASE UNCHANGED vars
  BY <1>1, QuietSteps
<1>2. CASE \E c \in Callers, p \in Phrases :
             \/ InitLooks(c, p)
             \/ \E then \in {"park", "change", "list", "recode"} : Unlock(c, p, then)
             \/ SetPassphrase(c, p)
  BY <1>2, KeySteps
<1>3. CASE \E c \in Callers : InitWrites(c)
  BY <1>3, KeySteps
<1>4. ASSUME NEW s \in Sessions,
             \/ WrongPassphrase(s) \/ Park(s) \/ GoIdle(s) \/ Drop(s)
             \/ AddSealed(s)
             \/ \E f \in sealed : EditSealed(s, f)
             \/ MoveReads(s) \/ MoveCollects(s) \/ MoveSeals(s) \/ MoveFails(s)
             \/ MoveScrubs(s)
             \/ \E i \in call[s].todo : MoveUnlinks(s, i)
             \/ MoveAmends(s) \/ AttachFile(s) \/ AttachRow(s)
             \/ RemoveRow(s) \/ RemoveFile(s)
      PROVE  Accountable'
  <2>1. s \in Callers
    BY Caller
  <2>. QED
    BY <1>4, <2>1, KeySteps, QuietSteps, NoteSteps, SealStep, TailSteps, FileSteps
<1>5. ASSUME NEW c \in Shells,
             \/ \E n \in 1 .. minted.codes : Recover(c, n)
             \/ Recode(c)
             \/ DrainLists(c) \/ DrainShreds(c) \/ DrainEnds(c) \/ ShellDies(c)
             \/ \E u \in Units : DrainSkips(c, u) \/ DrainSeals(c, u)
      PROVE  Accountable'
  BY <1>5, Caller, KeySteps, DrainSteps, Deaths
<1>6. CASE EditNote \/ AddThought \/ CarryTitle \/ Restart
  BY <1>6, QuietSteps, Deaths
<1>. QED
  BY <1>1, <1>2, <1>3, <1>4, <1>5, <1>6 DEF Next

(* _scrub and the loop over the files of move_note_to_vault: plaintext of a *)
(* sealed note that is still on disk is named in the audit row, or a call   *)
(* is still about to remove or name it, unless the server was restarted.    *)
THEOREM NothingLeftInSilence == Spec => []LeftoverNamed
<1>1. Accountable => LeftoverNamed
  BY DEF Accountable, Answered, Held, LeftoverNamed
<1>2. Typed /\ Typed' /\ Accountable /\ [Next]_vars => Accountable'
  BY AccountableStep
<1>. QED
  BY <1>1, <1>2, AccountableInit, VaultTypes, PTL DEF Spec
==============================================================================
