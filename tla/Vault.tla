-------------------------------- MODULE Vault --------------------------------
(***************************************************************************)
(* The private vault (backend/vault.py, backend/vault_api.py): the data    *)
(* key and its two wraps, the unlocked keys in the memory of the server,   *)
(* sealed notes, the move of a library note into the vault with the        *)
(* destruction of its plaintext, and the drain of the import quarantine.   *)
(*                                                                         *)
(* A route or a `wm vault` command is a call of several steps.  SQLite     *)
(* begins a transaction at its first write, so the SELECTs before it and   *)
(* the file operations around it are steps of their own, and other calls   *)
(* act in between.  A restart of the server loses the unlocked keys and    *)
(* the calls in progress.                                                  *)
(***************************************************************************)
EXTENDS Naturals, FiniteSets

CONSTANTS
  Sessions,    \* browser sessions; each has one call in progress at most
  Shells,      \* shells running `wm vault`
  Founders,    \* the callers that set the vault up
  Phrases,     \* passphrases the owner may choose
  Units,       \* secrets the import held back
  MaxItems,    \* bound: items of content ever written, and removals
  MaxChanges,  \* bound: changes of the passphrase or the recovery code
  MaxCrashes,  \* bound: restarts of the server, deaths of a shell
  MaxFaults    \* bound: failures of a file or database operation

NoPhrase == "no passphrase"
Callers == Sessions \cup Shells

ASSUME VaultAssumption ==
  /\ Founders \subseteq Callers
  /\ NoPhrase \notin Phrases
  /\ {MaxItems, MaxChanges, MaxCrashes, MaxFaults} \subseteq Nat

VARIABLES
  meta,        \* vault_meta: the two wraps of the data key
  minted,      \* data keys and recovery codes minted so far
  keys,        \* vault.KEYS, by session
  rows,        \* what the rows of the library note hold; {} once it is gone
  disk,        \* plaintext on disk: photo files, pages in the write-ahead log
  held,        \* does a task or a schedule carry the note's title?
  sealed,      \* the sealed fields of all vault notes
  open,        \* units whose import_quarantine row is not stamped yet
  cache,       \* units whose 0600 file exists
  named,       \* what an audit row names as left on disk
  items,       \* number of items of content so far
  call,        \* the call in progress of every caller
  budget       \* what is left of MaxChanges, MaxCrashes and MaxFaults

vars == <<meta, minted, keys, rows, disk, held, sealed, open, cache,
          named, items, call, budget>>

Item(kind, n) == [kind |-> kind, n |-> n]
Wal == Item("wal", 0)
Body == {i \in rows : i.kind = "body"}

Idle == [pc |-> "idle", key |-> 0, phrase |-> NoPhrase, seen |-> {}, todo |-> {}]
Locked == [key |-> 0, idle |-> FALSE]

\* A sealed value opens under the key that sealed it and under no other.
Seal(what, k) == {[item |-> i, key |-> k] : i \in what}

Init ==
  /\ meta = [phrase |-> NoPhrase, key |-> 0, code |-> 0, codeKey |-> 0]
  /\ minted = [keys |-> 0, codes |-> 0]
  /\ keys = [s \in Sessions |-> Locked]
  /\ rows \in {{}, {Item("body", 0), Item("thought", 0), Item("photo", 0)}}
  /\ disk = {i \in rows : i.kind = "photo"}
  /\ held = FALSE
  /\ sealed = {}
  /\ open \in {{}, Units}
  /\ cache = open
  /\ named = {}
  /\ items = 1
  /\ call = [c \in Callers |-> Idle]
  /\ budget \in [changes : 0 .. MaxChanges, crashes : {MaxCrashes}, faults : {MaxFaults}]

At(c, pc) == call[c].pc = pc
Goto(c, pc) == call' = [call EXCEPT ![c].pc = pc]
Return(c) == call' = [call EXCEPT ![c] = Idle]
Spend(what) == budget[what] > 0 /\ budget' = [budget EXCEPT ![what] = @ - 1]

Content == <<rows, disk, held, items>>
Quarantine == <<open, cache>>

-----------------------------------------------------------------------------
(* The data key and its wraps *)

IsSetUp == meta.phrase # NoPhrase

\* init_vault looks for a wrap and mints a key and a code; scrypt runs before
\* the write.
InitLooks(c, p) ==
  /\ At(c, "idle") /\ c \in Founders
  /\ ~ IsSetUp
  /\ minted' = [keys |-> minted.keys + 1, codes |-> minted.codes + 1]
  /\ call' = [call EXCEPT ![c] =
       [Idle EXCEPT !.pc = "found", !.key = minted'.keys, !.phrase = p,
                    !.todo = {minted'.codes}]]
  /\ UNCHANGED <<meta, keys, Content, sealed, Quarantine, named, budget>>

\* Both wraps are upserted in one transaction.  The web route unlocks next,
\* with the passphrase it was given.
InitWrites(c) ==
  /\ At(c, "found")
  /\ meta' = [phrase |-> call[c].phrase, key |-> call[c].key,
              code |-> CHOOSE n \in call[c].todo : TRUE, codeKey |-> call[c].key]
  /\ IF c \in Sessions
       THEN call' = [call EXCEPT ![c] =
              [Idle EXCEPT !.pc = "reopen", !.phrase = call[c].phrase]]
       ELSE Return(c)
  /\ UNCHANGED <<minted, keys, Content, sealed, Quarantine, named, budget>>

\* unlock reads the passphrase wrap and opens it with a key derived from the
\* passphrase: another passphrase fails.  A session parks the key; a shell
\* drains the quarantine or mints a recovery code with it.
Opens(p) == IsSetUp /\ meta.phrase = p

Unlock(c, p, then) ==
  /\ \/ At(c, "idle")
     \/ At(c, "reopen") /\ p = call[c].phrase /\ then = "park"
  /\ then \in IF c \in Sessions THEN {"park", "change"} ELSE {"list", "recode"}
  /\ then \in {"change", "recode"} => budget.changes > 0
  /\ then = "list" => open # {}
  /\ Opens(p)
  /\ call' = [call EXCEPT ![c] = [Idle EXCEPT !.pc = then, !.key = meta.key]]
  /\ UNCHANGED <<meta, minted, keys, Content, sealed, Quarantine, named, budget>>

WrongPassphrase(c) ==
  /\ At(c, "reopen") /\ ~ Opens(call[c].phrase)
  /\ Return(c)
  /\ UNCHANGED <<meta, minted, keys, Content, sealed, Quarantine, named, budget>>

\* KEYS.put
Park(s) ==
  /\ At(s, "park")
  /\ keys' = [keys EXCEPT ![s] = [key |-> call[s].key, idle |-> FALSE]]
  /\ Return(s)
  /\ UNCHANGED <<meta, minted, Content, sealed, Quarantine, named, budget>>

\* Mutant: a new passphrase gets a new data key.
RewrappedFresh(k, p) == [meta EXCEPT !.phrase = p, !.key = k + 1]

\* The wrap of the data key under a passphrase, by someone who holds the key.
Rewrapped(k, p) == [meta EXCEPT !.phrase = p, !.key = k]

\* set_passphrase, after the unlock of POST /passphrase or of `wm vault
\* recover`; the recovery wrap is untouched.  The web route parks the key.
SetPassphrase(c, p) ==
  /\ At(c, "change") /\ IsSetUp
  /\ Spend("changes")
  /\ meta' = Rewrapped(call[c].key, p)
  /\ IF c \in Sessions THEN Goto(c, "park") ELSE Return(c)
  /\ UNCHANGED <<minted, keys, Content, sealed, Quarantine, named>>

\* unwrap_recovery at a shell: the code opens the recovery wrap alone.
Recover(c, n) ==
  /\ At(c, "idle") /\ c \in Shells
  /\ IsSetUp /\ n = meta.code /\ budget.changes > 0
  /\ call' = [call EXCEPT ![c] = [Idle EXCEPT !.pc = "change", !.key = meta.codeKey]]
  /\ UNCHANGED <<meta, minted, keys, Content, sealed, Quarantine, named, budget>>

\* regenerate_recovery_code: a fresh code for the key in hand.
Recode(c) ==
  /\ At(c, "recode")
  /\ Spend("changes")
  /\ minted' = [minted EXCEPT !.codes = @ + 1]
  /\ meta' = [meta EXCEPT !.code = minted'.codes, !.codeKey = call[c].key]
  /\ Return(c)
  /\ UNCHANGED <<keys, Content, sealed, Quarantine, named>>

-----------------------------------------------------------------------------
(* Unlocked keys *)

\* The 30 idle minutes of a parked key pass.
GoIdle(s) ==
  /\ keys[s].key # 0 /\ ~ keys[s].idle
  /\ keys' = [keys EXCEPT ![s].idle = TRUE]
  /\ UNCHANGED <<meta, minted, Content, sealed, Quarantine, named, call, budget>>

\* KEYS.get for a route that needs the key: an idle key is dropped (423), a
\* live one is refreshed by being used.
Unlocked(s) == keys[s].key # 0 /\ ~ keys[s].idle
Refreshed(s) == [keys EXCEPT ![s].idle = FALSE]

\* `get` or the poll of `status` (peek) finds the key idle; or the owner locks
\* the vault or signs out.
Drop(s) ==
  /\ keys[s].key # 0
  /\ keys' = [keys EXCEPT ![s] = Locked]
  /\ UNCHANGED <<meta, minted, Content, sealed, Quarantine, named, call, budget>>

-----------------------------------------------------------------------------
(* Sealed notes *)

CanWrite(s) == At(s, "idle") /\ Unlocked(s) /\ items < MaxItems

\* create_note, add_entry and add_attachment: one sealed row more.
AddSealed(s) ==
  /\ CanWrite(s)
  /\ sealed' = sealed \cup Seal({Item("secret", items)}, keys[s].key)
  /\ items' = items + 1
  /\ keys' = Refreshed(s)
  /\ UNCHANGED <<meta, minted, rows, disk, held, Quarantine, named, call, budget>>

\* update_note: the sealed field is replaced and no revision is kept.
EditSealed(s, f) ==
  /\ CanWrite(s)
  /\ f \in sealed /\ f.item.kind = "secret"
  /\ sealed' = (sealed \ {f}) \cup Seal({Item("secret", items)}, keys[s].key)
  /\ items' = items + 1
  /\ keys' = Refreshed(s)
  /\ UNCHANGED <<meta, minted, rows, disk, held, Quarantine, named, call, budget>>

-----------------------------------------------------------------------------
(* The library note, written by other callers meanwhile *)

EditNote ==
  /\ rows # {} /\ items < MaxItems
  /\ rows' = (rows \ Body) \cup {Item("body", items)}
  /\ items' = items + 1
  /\ UNCHANGED <<meta, minted, keys, disk, held, sealed, Quarantine, named, call, budget>>

AddThought ==
  /\ rows # {} /\ items < MaxItems
  /\ rows' = rows \cup {Item("thought", items)}
  /\ items' = items + 1
  /\ UNCHANGED <<meta, minted, keys, disk, held, sealed, Quarantine, named, call, budget>>

\* add_attachment writes the file, then the row; without the note the row is
\* refused (foreign key) and the file is removed.
AttachFile(s) ==
  /\ At(s, "idle") /\ rows # {} /\ items < MaxItems
  /\ disk' = disk \cup {Item("photo", items)}
  /\ call' = [call EXCEPT ![s] =
       [Idle EXCEPT !.pc = "attach", !.seen = {Item("photo", items)}]]
  /\ items' = items + 1
  /\ UNCHANGED <<meta, minted, keys, rows, held, sealed, Quarantine, named, budget>>

AttachRow(s) ==
  /\ At(s, "attach")
  /\ IF rows # {}
       THEN rows' = rows \cup call[s].seen /\ UNCHANGED disk
       ELSE disk' = disk \ call[s].seen /\ UNCHANGED rows
  /\ Return(s)
  /\ UNCHANGED <<meta, minted, keys, held, sealed, Quarantine, named, items, budget>>

\* delete_attachment drops the row, then the file.
RemoveRow(s) ==
  /\ At(s, "idle") /\ items < MaxItems /\ items' = items + 1
  /\ \E i \in rows :
       /\ i.kind = "photo"
       /\ rows' = rows \ {i}
       /\ call' = [call EXCEPT ![s] = [Idle EXCEPT !.pc = "remove", !.seen = {i}]]
  /\ UNCHANGED <<meta, minted, keys, disk, held, sealed, Quarantine, named, budget>>

RemoveFile(s) ==
  /\ At(s, "remove")
  /\ disk' = disk \ call[s].seen
  /\ Return(s)
  /\ UNCHANGED <<meta, minted, keys, rows, held, sealed, Quarantine, named, items, budget>>

\* A task is created from the note, or the owner renames it.
CarryTitle ==
  /\ rows # {}
  /\ held' = ~ held
  /\ UNCHANGED <<meta, minted, keys, rows, disk, sealed, Quarantine, named, items, call, budget>>

-----------------------------------------------------------------------------
(* move_note_to_vault *)

\* titleholders: refused while a task or a schedule carries one of the titles.
TitleFree == ~ held

\* The note row is read, and what carries its title.
MoveReads(s) ==
  /\ At(s, "idle") /\ Unlocked(s)
  /\ rows # {} /\ TitleFree
  /\ call' = [call EXCEPT ![s] =
       [Idle EXCEPT !.pc = "collect", !.key = keys[s].key, !.seen = Body]]
  /\ keys' = Refreshed(s)
  /\ UNCHANGED <<meta, minted, Content, sealed, Quarantine, named, budget>>

\* The Thoughts and the attachment rows are read.
MoveCollects(s) ==
  /\ At(s, "collect")
  /\ call' = [call EXCEPT ![s].pc = "seal", ![s].seen = @ \cup (rows \ Body)]
  /\ UNCHANGED <<meta, minted, keys, Content, sealed, Quarantine, named, budget>>

\* Mutant: attachments are counted, not sealed.
SealableTexts(seen) == {i \in seen : i.kind # "photo"}

\* What the move seals: an attachment whose bytes are gone is passed over.
Sealable(seen) == {i \in seen : i.kind = "photo" => i \in disk}

\* _destroy_note_plaintext deletes the note, its revisions, Thoughts, attachment
\* rows, links, proposals and its row in the search index; the pages they were
\* on are still in the write-ahead log.
Destroy ==
  /\ rows' = {}
  /\ disk' = disk \cup {Wal}

\* One transaction: everything is sealed, read back and compared, and the
\* plaintext is destroyed.
MoveSeals(s) ==
  /\ At(s, "seal")
  /\ LET what == Sealable(call[s].seen) IN
       /\ sealed' = sealed \cup Seal(what, call[s].key)
       /\ call' = [call EXCEPT ![s].pc = "scrub",
                               ![s].todo = {i \in what : i.kind = "photo"}]
  /\ Destroy
  /\ UNCHANGED <<meta, minted, keys, held, Quarantine, named, items, budget>>

\* A failure before the commit rolls everything back.
MoveFails(s) ==
  /\ At(s, "seal")
  /\ Spend("faults")
  /\ Return(s)
  /\ UNCHANGED <<meta, minted, keys, Content, sealed, Quarantine, named>>

\* Mutant: a checkpoint that was busy is passed over in silence.
MoveScrubsSilent(s) ==
  /\ At(s, "scrub")
  /\ \/ disk' = disk \ {Wal} /\ UNCHANGED budget
     \/ Spend("faults") /\ UNCHANGED disk
  /\ call' = [call EXCEPT ![s].pc = "unlink", ![s].seen = {}]
  /\ UNCHANGED <<meta, minted, keys, rows, held, sealed, Quarantine, named, items>>

\* _scrub: the write-ahead log is truncated, unless a reader keeps it busy.
\* From here on `seen` is what the audit row must name.
MoveScrubs(s) ==
  /\ At(s, "scrub")
  /\ \/ /\ disk' = disk \ {Wal}
        /\ call' = [call EXCEPT ![s].pc = "unlink", ![s].seen = {}]
        /\ UNCHANGED budget
     \/ /\ Spend("faults")
        /\ call' = [call EXCEPT ![s].pc = "unlink", ![s].seen = {Wal}]
        /\ UNCHANGED disk
  /\ UNCHANGED <<meta, minted, keys, rows, held, sealed, Quarantine, named, items>>

\* The files go after the commit, one by one; one that cannot be removed is
\* kept for the audit row.
MoveUnlinks(s, i) ==
  /\ At(s, "unlink") /\ i \in call[s].todo
  /\ \/ /\ i \in disk
        /\ disk' = disk \ {i}
        /\ call' = [call EXCEPT ![s].todo = @ \ {i}]
        /\ UNCHANGED budget
     \/ /\ IF i \in disk THEN Spend("faults") ELSE UNCHANGED budget
        /\ call' = [call EXCEPT ![s].todo = @ \ {i}, ![s].seen = @ \cup {i}]
        /\ UNCHANGED disk
  /\ UNCHANGED <<meta, minted, keys, rows, held, sealed, Quarantine, named, items>>

\* The audit row is amended with what was left behind.
MoveAmends(s) ==
  /\ At(s, "unlink") /\ call[s].todo = {}
  /\ named' = named \cup call[s].seen
  /\ Return(s)
  /\ UNCHANGED <<meta, minted, keys, Content, sealed, Quarantine, budget>>

-----------------------------------------------------------------------------
(* drain_quarantine, at a shell *)

DrainLists(c) ==
  /\ At(c, "list")
  /\ call' = [call EXCEPT ![c].pc = "drain", ![c].todo = open]
  /\ UNCHANGED <<meta, minted, keys, Content, sealed, Quarantine, named, budget>>

\* The bytes are gone, or cannot be read.
DrainSkips(c, u) ==
  /\ At(c, "drain") /\ u \in call[c].todo
  /\ \/ u \notin cache /\ UNCHANGED budget
     \/ u \in cache /\ Spend("faults")
  /\ call' = [call EXCEPT ![c].todo = @ \ {u}]
  /\ UNCHANGED <<meta, minted, keys, Content, sealed, Quarantine, named>>

\* Mutant: the file goes with the read, before the secret is sealed.
DrainSealsLate(c, u) ==
  /\ At(c, "drain") /\ u \in call[c].todo /\ u \in cache
  /\ cache' = cache \ {u}
  /\ call' = [call EXCEPT ![c].pc = "shred", ![c].todo = @ \ {u}, ![c].seen = {u}]
  /\ UNCHANGED <<meta, minted, keys, Content, sealed, open, named, budget>>

\* The bytes are read, sealed, read back, and the row is stamped.
DrainSeals(c, u) ==
  /\ At(c, "drain") /\ u \in call[c].todo /\ u \in cache
  /\ sealed' = sealed \cup Seal({Item("unit", u)}, call[c].key)
  /\ open' = open \ {u}
  /\ call' = [call EXCEPT ![c].pc = "shred", ![c].todo = @ \ {u}, ![c].seen = {u}]
  /\ UNCHANGED <<meta, minted, keys, Content, cache, named, budget>>

\* Then the 0600 file is removed, or reported.
DrainShreds(c) ==
  /\ At(c, "shred")
  /\ \/ cache' = cache \ call[c].seen /\ UNCHANGED budget
     \/ Spend("faults") /\ UNCHANGED cache
  /\ call' = [call EXCEPT ![c].pc = "drain", ![c].seen = {}]
  /\ UNCHANGED <<meta, minted, keys, Content, sealed, open, named>>

DrainEnds(c) ==
  /\ At(c, "drain") /\ call[c].todo = {}
  /\ Return(c)
  /\ UNCHANGED <<meta, minted, keys, Content, sealed, Quarantine, named, budget>>

-----------------------------------------------------------------------------
\* The server restarts: every unlocked key and every call of a browser is lost.
Restart ==
  /\ Spend("crashes")
  /\ keys' = [s \in Sessions |-> Locked]
  /\ call' = [c \in Callers |-> IF c \in Sessions THEN Idle ELSE call[c]]
  /\ UNCHANGED <<meta, minted, Content, sealed, Quarantine, named>>

ShellDies(c) ==
  /\ ~ At(c, "idle")
  /\ Spend("crashes")
  /\ Return(c)
  /\ UNCHANGED <<meta, minted, keys, Content, sealed, Quarantine, named>>

Next ==
  \/ \E c \in Callers, p \in Phrases :
       \/ InitLooks(c, p)
       \/ \E then \in {"park", "change", "list", "recode"} : Unlock(c, p, then)
       \/ SetPassphrase(c, p)
  \/ \E c \in Callers : InitWrites(c)
  \/ \E s \in Sessions :
       \/ WrongPassphrase(s) \/ Park(s) \/ GoIdle(s) \/ Drop(s)
       \/ AddSealed(s)
       \/ \E f \in sealed : EditSealed(s, f)
       \/ MoveReads(s) \/ MoveCollects(s) \/ MoveSeals(s) \/ MoveFails(s)
       \/ MoveScrubs(s)
       \/ \E i \in call[s].todo : MoveUnlinks(s, i)
       \/ MoveAmends(s) \/ AttachFile(s) \/ AttachRow(s)
       \/ RemoveRow(s) \/ RemoveFile(s)
  \/ \E c \in Shells :
       \/ \E n \in 1 .. minted.codes : Recover(c, n)
       \/ Recode(c)
       \/ DrainLists(c) \/ DrainShreds(c) \/ DrainEnds(c) \/ ShellDies(c)
       \/ \E u \in Units : DrainSkips(c, u) \/ DrainSeals(c, u)
  \/ EditNote \/ AddThought \/ CarryTitle \/ Restart

Spec == Init /\ [][Next]_vars

-----------------------------------------------------------------------------
(* Properties *)

\* init_vault: "re-initialising would orphan every sealed row".  Everything
\* sealed opens with the passphrase and with the recovery code, and so does
\* every key in memory, whatever changes of either overlap.
Recoverable ==
  /\ \A f \in sealed : f.key = meta.key
  /\ meta.codeKey = meta.key
  /\ \A s \in Sessions : keys[s].key \in {0, meta.key}

\* move_note_to_vault: plaintext leaves the library only sealed.  What the
\* note loses was sealed in the same step, unless its bytes were gone already
\* or it was written after the move had read the note.
SealedBeforeDestroyed ==
  [][rows' = {} =>
       \A i \in rows :
         \/ \E f \in sealed' : f.item = i
         \/ i.kind = "photo" /\ i \notin disk
         \/ \E s \in Sessions :
              call[s].pc = "seal" /\ call'[s].pc # "seal" /\ i \notin call[s].seen]_vars

\* "Silence would hide it forever": plaintext of a sealed note that is still
\* on disk is named in the audit row, or a call is still about to remove or
\* name it -- if nothing died meanwhile.
LeftoverNamed ==
  rows = {} /\ budget.crashes = MaxCrashes =>
    \A i \in disk :
      \/ i \in named
      \/ \E s \in Sessions : \/ i \in call[s].seen \cup call[s].todo
                             \/ i = Wal /\ At(s, "scrub")
      \/ i # Wal /\ ~ \E f \in sealed : f.item = i

\* drain_quarantine: the 0600 file of a secret goes only when the secret is
\* sealed and its row is stamped, however drains overlap or die.
SecretKept ==
  [][\A u \in cache \ cache' :
       u \notin open /\ \E f \in sealed : f.item = Item("unit", u)]_vars
=============================================================================
