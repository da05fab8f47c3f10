--------------------------- MODULE RestoreProofs ---------------------------
(***************************************************************************)
(* Proofs about the import of a dump and the restore of an export, for     *)
(* every dump, library, slice and bound: nothing is missing after a whole  *)
(* run, no key material comes in, nothing is imported twice, and a restore *)
(* that ran to its end brought every document home once.                   *)
(***************************************************************************)
EXTENDS Restore, WellFoundedInduction, FiniteSetTheorems, SequenceTheorems, TLAPS

-----------------------------------------------------------------------------
(* Least and greatest numbers                                              *)

\* The least-number principle.
LEMMA LeastNat ==
  ASSUME NEW T, T \subseteq Nat, T # {}
  PROVE  \E x \in T : \A y \in T : x <= y
<1>. DEFINE R == {p \in Nat \X Nat : p[1] < p[2]}
<1>1. IsWellFoundedOn(R, Nat)
  BY NatLessThanWellFounded DEF OpToRel
<1>2. PICK x \in T : \A y \in T : ~ (<<y, x>> \in R)
  <2>. HIDE DEF R
  <2>. QED
    BY <1>1, WFMin
<1>3. ASSUME NEW y \in T
      PROVE  x <= y
  <2>1. x \in Nat /\ y \in Nat /\ <<y, x>> \notin R
    BY <1>2
  <2>2. y < x => <<y, x>> \in R
    BY <2>1
  <2>. QED
    BY <2>1, <2>2
<1>. QED
  BY <1>3

\* A bounded set of numbers has a greatest.
LEMMA GreatestNat ==
  ASSUME NEW N \in Nat, NEW T, T \subseteq 0 .. N, T # {}
  PROVE  \E x \in T : \A y \in T : y <= x
<1>. DEFINE U == {N - y : y \in T}
<1>1. U \subseteq Nat /\ U # {}
  <2>1. \A y \in T : N - y \in Nat
    OBVIOUS
  <2>2. PICK y \in T : TRUE
    OBVIOUS
  <2>. QED
    BY <2>1, <2>2
<1>2. PICK z \in U : \A y \in U : z <= y
  BY <1>1, LeastNat
<1>3. PICK x \in T : z = N - x
  BY <1>2
<1>4. ASSUME NEW y \in T
      PROVE  y <= x
  <2>1. x \in Nat /\ y \in Nat /\ N - y \in U
    OBVIOUS
  <2>2. z <= N - y
    BY <2>1, <1>2
  <2>. QED
    BY <2>1, <2>2, <1>3
<1>. QED
  BY <1>4

-----------------------------------------------------------------------------
(* The dump and its plan                                                   *)

\* What the plan does with a unit, whatever areas are live.
Does(u) == IF Quarantined(u) THEN "hold"
           ELSE IF Empty(u) \/ Duplicate(u) THEN "skip"
           ELSE IF Mirrors(u) THEN "append" ELSE "create"

LEMMA UnitsTyped ==
  ASSUME ImportAssumption, dump \in Dumps
  PROVE  /\ dump \in Seq(Unit) /\ Len(dump) \in Nat \ {0}
         /\ DOMAIN dump = 1 .. Len(dump)
         /\ \A i \in DOMAIN dump : dump[i] \in Unit /\ dump[i] \in Units
         /\ \A u \in Units : u \in Unit /\ u.ident \in Nat
         /\ \A u, v \in Units : u.ident = v.ident => u = v
<1>1. dump \in Seq(Unit) /\ dump # <<>>
  BY DEF ImportAssumption
<1>2. \A i, j \in DOMAIN dump : dump[i].ident = dump[j].ident => i = j
  BY DEF ImportAssumption
<1>3. DOMAIN dump = 1 .. Len(dump) /\ Len(dump) \in Nat \ {0}
  BY <1>1
<1>4. \A i \in DOMAIN dump : dump[i] \in Unit /\ dump[i] \in Units
  BY <1>1, <1>3 DEF Units
<1>5. \A u \in Units : \E i \in DOMAIN dump : u = dump[i]
  BY DEF Units
<1>6. \A u \in Units : u \in Unit
  BY <1>4, <1>5
<1>7. \A u \in Units : u.ident \in Nat
  BY <1>6 DEF Unit, ImportAssumption
<1>8. \A u, v \in Units : u.ident = v.ident => u = v
  BY <1>5, <1>2
<1>. QED
  BY <1>1, <1>3, <1>4, <1>6, <1>7, <1>8

LEMMA PlanDoes ==
  ASSUME NEW u, NEW live
  PROVE  /\ plan_unit(u, live).does = Does(u)
         /\ Does(u) = "create" => plan_unit(u, live) = OwnPlan(u, live)
         /\ Does(u) \in {"hold", "skip", "append", "create"}
<1>1. classify(u) = "quarantine" <=> Quarantined(u)
  BY DEF classify
<1>2. ~Quarantined(u) => (classify(u) \in {"empty", "duplicate"} <=> Empty(u) \/ Duplicate(u))
  BY DEF classify
<1>3. OwnPlan(u, live).does = "create"
  BY DEF OwnPlan, Action
<1>. QED
  BY <1>1, <1>2, <1>3 DEF plan_unit, Does, Action

LEMMA AreaNamedTyped ==
  ASSUME ImportAssumption, NEW name, NEW live, live \subseteq DOMAIN Areas
  PROVE  AreaNamed(name, live) \in 0 .. Len(Areas)
<1>. DEFINE S == {a \in live : Areas[a].name = name}
<1>1. Len(Areas) \in Nat /\ DOMAIN Areas = 1 .. Len(Areas)
  BY DEF ImportAssumption
<1>2. S \subseteq 0 .. Len(Areas)
  BY <1>1
<1>3. CASE S = {}
  BY <1>1, <1>3 DEF AreaNamed
<1>4. CASE S # {}
  <2>1. \E a \in S : \A b \in S : b <= a
    <3>. HIDE DEF S
    <3>. QED
      BY <1>1, <1>2, <1>4, GreatestNat
  <2>2. AreaNamed(name, live) = CHOOSE a \in S : \A b \in S : b <= a
    BY <1>4 DEF AreaNamed
  <2>3. AreaNamed(name, live) \in S
    <3>. HIDE DEF S
    <3>. QED
      BY <2>1, <2>2
  <2>. QED
    BY <2>3, <1>2
<1>. QED
  BY <1>3, <1>4

LEMMA OwnPlanTyped ==
  ASSUME ImportAssumption, NEW u, NEW live, live \subseteq DOMAIN Areas
  PROVE  /\ OwnPlan(u, live).status \in {"inbox", "active", "archived"}
         /\ OwnPlan(u, live).area \in 0 .. Len(Areas)
<1>1. PICK area : area = AreaNamed(u.domain, live)
  OBVIOUS
<1>2. area \in 0 .. Len(Areas) /\ 0 \in 0 .. Len(Areas)
  BY <1>1, AreaNamedTyped DEF ImportAssumption
<1>. QED
  BY <1>1, <1>2 DEF OwnPlan, Action

\* The task that mirrors a note is paired with a note of the dump.
LEMMA PairTargetFound ==
  ASSUME ImportAssumption, dump \in Dumps, NEW u \in Units, Mirrors(u)
  PROVE  PairTarget(u) \in Units /\ PairTarget(u) \in Targets
<1>. DEFINE near == {v \in Namesakes(u) : v.domain = u.domain}
<1>. DEFINE S == IF near = {} THEN Namesakes(u) ELSE near
<1>1. S \subseteq Units /\ S # {}
  BY DEF Namesakes, Mirrors
<1>2. \E t \in S : \A v \in S : t.ident <= v.ident
  <2>. DEFINE I == {v.ident : v \in S}
  <2>1. I \subseteq Nat /\ I # {}
    <3>1. \A v \in S : v.ident \in Nat
      BY <1>1, UnitsTyped
    <3>. QED
      BY <1>1, <3>1
  <2>2. PICK x \in I : \A y \in I : x <= y
    <3>. HIDE DEF I
    <3>. QED
      BY <2>1, LeastNat
  <2>. QED
    BY <2>2
<1>3. PairTarget(u) = First(S)
  BY DEF PairTarget
<1>4. First(S) \in S
  <2>. HIDE DEF S
  <2>. QED
    BY <1>2 DEF First
<1>5. PairTarget(u) \in Units
  BY <1>1, <1>3, <1>4
<1>. QED
  BY <1>5 DEF Targets

\* Of identical units worth a note, one is no duplicate: the least of those that
\* are not from an Archive folder, or else of all of them.
LEMMA SurvivorFound ==
  ASSUME ImportAssumption, dump \in Dumps, NEW u \in Units, ~Quarantined(u), ~Empty(u)
  PROVE  \E v \in Units : /\ sha256(v) = sha256(u)
                          /\ ~Quarantined(v) /\ ~Empty(v) /\ ~Duplicate(v)
<1>. DEFINE Same1 == {v \in Unique : sha256(v) = sha256(u)}
<1>. DEFINE Live == {v \in Same1 : ~v.old}
<1>. DEFINE S == IF Live = {} THEN Same1 ELSE Live
<1>1. u \in Same1
  BY DEF Unique
<1>2. S # {} /\ S \subseteq Same1 /\ Same1 \subseteq Units
  BY <1>1 DEF Unique
<1>3. \E t \in S : \A v \in S : t.ident <= v.ident
  <2>. DEFINE I == {v.ident : v \in S}
  <2>1. I \subseteq Nat /\ I # {}
    <3>1. \A v \in S : v.ident \in Nat
      BY <1>2, UnitsTyped
    <3>. QED
      BY <1>2, <3>1
  <2>2. PICK x \in I : \A y \in I : x <= y
    <3>. HIDE DEF I
    <3>. QED
      BY <2>1, LeastNat
  <2>. QED
    BY <2>2
<1>4. PICK t \in S : \A v \in S : t.ident <= v.ident
  BY <1>3
<1>5. t \in Unique /\ sha256(t) = sha256(u) /\ t \in Units
  BY <1>2
<1>6. ASSUME NEW v \in Unique, sha256(v) = sha256(t), Outranks(v, t)
      PROVE  FALSE
  <2>1. v \in Same1 /\ v \in Units /\ t.old \in BOOLEAN /\ v.old \in BOOLEAN
        /\ t.ident \in Nat /\ v.ident \in Nat
    BY <1>5, <1>6, UnitsTyped DEF Unique, Unit
  <2>2. CASE v.old # t.old
    <3>1. t.old /\ ~v.old
      BY <2>1, <2>2, <1>6 DEF Outranks
    <3>2. v \in Live
      BY <3>1, <2>1
    <3>3. t \in Live
      BY <3>2
    <3>. QED
      BY <3>1, <3>3
  <2>3. CASE v.old = t.old
    <3>1. v.ident < t.ident
      BY <2>3, <1>6 DEF Outranks
    <3>2. v \in S
      BY <2>1, <2>3
    <3>3. t.ident <= v.ident
      BY <3>2, <1>4
    <3>. QED
      BY <3>1, <3>3, <2>1
  <2>. QED
    BY <2>2, <2>3
<1>7. ~Duplicate(t) /\ ~Quarantined(t) /\ ~Empty(t)
  BY <1>5, <1>6 DEF Duplicate, Unique
<1>. QED
  BY <1>5, <1>7

-----------------------------------------------------------------------------
(* The library under an import                                             *)

\* The first notes have no digest and keep their Thoughts; every other note
\* carries the digest of its unit, whose third part is its text.
NotesOK ==
  /\ \A n \in DOMAIN FirstNotes :
       /\ n \in DOMAIN notes /\ notes[n].hash = NoHash
       /\ notes[n].thoughts = FirstNotes[n].thoughts
  /\ \A n \in DOMAIN notes : n \notin DOMAIN FirstNotes =>
       notes[n].hash \in Digest /\ notes[n].body = notes[n].hash[3]

HashOnce ==
  \A n, m \in DOMAIN notes : notes[n].hash = notes[m].hash /\ notes[n].hash # NoHash => n = m

ThoughtOnce ==
  \A n \in DOMAIN notes : n \notin DOMAIN FirstNotes =>
    \/ TwinTargets
    \/ \A j, k \in DOMAIN notes[n].thoughts :
         notes[n].thoughts[j] = notes[n].thoughts[k] => j = k

RowsInv ==
  /\ dump \in Dumps /\ notes \in Seq(Note)
  /\ NotesOK /\ HashOnce /\ ThoughtOnce /\ SecretHeld

\* No step takes a note, a text, a digest, a Thought or a file away.
NotesGrow ==
  /\ dump' = dump
  /\ \A n \in DOMAIN notes :
       /\ n \in DOMAIN notes'
       /\ notes'[n].body = notes[n].body /\ notes'[n].hash = notes[n].hash
       /\ ThoughtsOf(n) \subseteq ThoughtsOf(n)'
       /\ notes[n].files \subseteq notes'[n].files

LEMMA DigestTyped ==
  ASSUME ImportAssumption, dump \in Dumps, NEW u \in Units
  PROVE  /\ sha256(u) \in Digest /\ sha256(u) # NoHash
         /\ sha256(u)[3] = u.body /\ sha256(u)[4] = u.photos
<1>1. /\ u.uuid \in Seq(STRING) /\ u.title \in STRING /\ u.body \in STRING
      /\ u.photos \in SUBSET STRING
  BY UnitsTyped DEF Unit
<1>2. sha256(u) \in Digest
  BY <1>1 DEF sha256, Digest
<1>3. sha256(u) # NoHash
  <2>1. DOMAIN sha256(u) = 1 .. 4
    BY DEF sha256
  <2>2. DOMAIN NoHash = {}
    BY DEF NoHash
  <2>3. 1 \in DOMAIN sha256(u)
    BY <2>1
  <2>. QED
    BY <2>2, <2>3
<1>. QED
  BY <1>2, <1>3 DEF sha256

LEMMA NoDigest == NoHash \notin Digest
<1>1. \A h \in Digest : 1 \in DOMAIN h
  BY DEF Digest
<1>2. DOMAIN NoHash = {}
  BY DEF NoHash
<1>. QED
  BY <1>1, <1>2

\* A fixed dump has fixed decisions.
LEMMA DumpFixed ==
  ASSUME dump' = dump
  PROVE  /\ Units' = Units /\ Targets' = Targets /\ TwinTargets' = TwinTargets
         /\ \A u : Does(u)' = Does(u) /\ Mirrors(u)' = Mirrors(u)
         /\ \A u : Quarantined(u)' = Quarantined(u)
<1>1. Units' = Units
  BY DEF Units
<1>2. Unique' = Unique
  BY <1>1 DEF Unique, Quarantined, Empty
<1>3. \A u : Duplicate(u)' = Duplicate(u)
  BY <1>2 DEF Duplicate
<1>4. \A u : Namesakes(u)' = Namesakes(u)
  BY <1>1 DEF Namesakes
<1>5. \A u : Mirrors(u)' = Mirrors(u)
  BY <1>4 DEF Mirrors
<1>6. \A u : PairTarget(u)' = PairTarget(u)
  BY <1>4 DEF PairTarget
<1>7. Targets' = Targets
  BY <1>1, <1>5, <1>6 DEF Targets
<1>8. TwinTargets' = TwinTargets
  BY <1>7 DEF TwinTargets
<1>9. \A u : Does(u)' = Does(u)
  BY <1>3, <1>5 DEF Does, Quarantined, Empty
<1>. QED
  BY <1>1, <1>5, <1>7, <1>8, <1>9 DEF Quarantined

LEMMA NoteByHash ==
  ASSUME notes \in Seq(Note), NEW h
  PROVE  \/ note_by_content_hash(h) = 0 /\ \A n \in DOMAIN notes : notes[n].hash # h
         \/ /\ note_by_content_hash(h) \in DOMAIN notes /\ note_by_content_hash(h) # 0
            /\ notes[note_by_content_hash(h)].hash = h
<1>. DEFINE S == {n \in DOMAIN notes : notes[n].hash = h}
<1>1. S \subseteq Nat /\ 0 \notin S
  OBVIOUS
<1>2. CASE S = {}
  BY <1>2 DEF note_by_content_hash
<1>3. CASE S # {}
  <2>1. \E n \in S : \A m \in S : n <= m
    <3>. HIDE DEF S
    <3>. QED
      BY <1>1, <1>3, LeastNat
  <2>2. note_by_content_hash(h) = CHOOSE n \in S : \A m \in S : n <= m
    BY <1>3 DEF note_by_content_hash
  <2>3. note_by_content_hash(h) \in S
    <3>. HIDE DEF S
    <3>. QED
      BY <2>1, <2>2
  <2>. QED
    BY <1>1, <2>3
<1>. QED
  BY <1>2, <1>3

-----------------------------------------------------------------------------
(* The four things that happen to the notes                                *)

\* A note of a unit that was not there.
LEMMA NewNoteKeeps ==
  ASSUME ImportAssumption, RowsInv, dump' = dump,
         NEW u \in Units, ~Quarantined(u), note_by_content_hash(sha256(u)) = 0,
         NEW r \in Note, notes' = Append(notes, r),
         r.hash = sha256(u), r.body = u.body, r.thoughts = <<>>
  PROVE  /\ RowsInv' /\ NotesGrow
         /\ DOMAIN notes' = DOMAIN notes \union {Len(notes) + 1}
         /\ Len(notes) + 1 \notin DOMAIN notes /\ Len(notes) + 1 \notin DOMAIN FirstNotes
         /\ \A n \in DOMAIN notes : notes'[n] = notes[n]
         /\ notes'[Len(notes) + 1] = r
<1>. DEFINE N == Len(notes) + 1
<1>1. notes \in Seq(Note) /\ dump \in Dumps /\ Len(notes) \in Nat
  BY DEF RowsInv
<1>2. /\ DOMAIN notes' = DOMAIN notes \union {N} /\ N \notin DOMAIN notes
      /\ \A n \in DOMAIN notes : notes'[n] = notes[n]
      /\ notes'[N] = r /\ notes' \in Seq(Note)
  BY <1>1
<1>3. N \notin DOMAIN FirstNotes
  BY <1>2 DEF RowsInv, NotesOK
<1>4. sha256(u) \in Digest /\ sha256(u) # NoHash /\ sha256(u)[3] = u.body
  BY <1>1, DigestTyped
<1>5. \A n \in DOMAIN notes : notes[n].hash # sha256(u)
  BY <1>1, NoteByHash
<1>6. NotesOK'
  BY <1>2, <1>4 DEF RowsInv, NotesOK
<1>7. HashOnce'
  BY <1>2, <1>5 DEF RowsInv, HashOnce
<1>8. TwinTargets' = TwinTargets
  BY DumpFixed
<1>9. ThoughtOnce'
  <2>1. DOMAIN r.thoughts = {}
    OBVIOUS
  <2>. QED
    BY <1>2, <1>8, <2>1 DEF RowsInv, ThoughtOnce
<1>10. SecretHeld'
  <2>1. {r.thoughts[k] : k \in DOMAIN r.thoughts} = {}
    OBVIOUS
  <2>2. r.body \notin Secrets
    BY DEF Quarantined
  <2>3. \A n \in DOMAIN notes : n \notin DOMAIN FirstNotes =>
          ({notes[n].body} \union {notes[n].thoughts[k] : k \in DOMAIN notes[n].thoughts})
              \intersect Secrets = {}
    BY DEF RowsInv, SecretHeld, ThoughtsOf
  <2>. QED
    BY <1>2, <2>1, <2>2, <2>3 DEF SecretHeld, ThoughtsOf
<1>11. NotesGrow
  BY <1>2 DEF NotesGrow, ThoughtsOf
<1>. QED
  BY <1>1, <1>2, <1>3, <1>6, <1>7, <1>9, <1>10, <1>11 DEF RowsInv

\* A Thought on an imported note.
LEMMA SpokenKeeps ==
  ASSUME ImportAssumption, RowsInv, dump' = dump,
         NEW n \in DOMAIN notes, n \notin DOMAIN FirstNotes,
         NEW text \in STRING, text \notin Secrets, TwinTargets \/ text \notin ThoughtsOf(n),
         DOMAIN notes' = DOMAIN notes, notes' \in Seq(Note),
         \A m \in DOMAIN notes :
           /\ notes'[m].body = notes[m].body /\ notes'[m].hash = notes[m].hash
           /\ notes'[m].files = notes[m].files
           /\ m # n => notes'[m].thoughts = notes[m].thoughts,
         notes'[n].thoughts = Append(notes[n].thoughts, text)
  PROVE  /\ RowsInv' /\ NotesGrow
         /\ ThoughtsOf(n)' = ThoughtsOf(n) \union {text}
         /\ \A m \in DOMAIN notes : m # n => ThoughtsOf(m)' = ThoughtsOf(m)
<1>1. notes \in Seq(Note) /\ dump \in Dumps
  BY DEF RowsInv
<1>2. notes[n] \in Note
  BY <1>1
<1>3. PICK s : s = notes[n].thoughts
  OBVIOUS
<1>4. s \in Seq(STRING) /\ Len(s) \in Nat /\ DOMAIN s = 1 .. Len(s)
  BY <1>2, <1>3 DEF Note
<1>5. PICK z : z = Append(s, text)
  OBVIOUS
<1>6. /\ DOMAIN z = 1 .. Len(s) + 1 /\ z[Len(s) + 1] = text
      /\ \A k \in DOMAIN s : z[k] = s[k]
  BY <1>4, <1>5
<1>7. notes'[n].thoughts = z
  BY <1>3, <1>5
<1>8. ThoughtsOf(n)' = ThoughtsOf(n) \union {text}
  <2>1. {z[k] : k \in DOMAIN z} = {s[k] : k \in DOMAIN s} \union {text}
    <3>1. DOMAIN z = DOMAIN s \union {Len(s) + 1}
      BY <1>4, <1>6
    <3>2. Len(s) + 1 \in DOMAIN z
      BY <3>1
    <3>. QED
      BY <3>1, <3>2, <1>6
  <2>. QED
    BY <1>3, <1>7, <2>1 DEF ThoughtsOf
<1>9. \A m \in DOMAIN notes : m # n => ThoughtsOf(m)' = ThoughtsOf(m)
  BY DEF ThoughtsOf
<1>10. NotesOK'
  BY DEF RowsInv, NotesOK
<1>11. HashOnce'
  BY DEF RowsInv, HashOnce
<1>12. TwinTargets' = TwinTargets
  BY DumpFixed
<1>13. ThoughtOnce'
  <2>1. ASSUME ~TwinTargets
        PROVE  \A j, k \in DOMAIN z : z[j] = z[k] => j = k
    <3>1. \A j, k \in DOMAIN s : s[j] = s[k] => j = k
      BY <2>1, <1>3 DEF RowsInv, ThoughtOnce
    <3>2. \A k \in DOMAIN s : s[k] # text
      BY <2>1, <1>3 DEF ThoughtsOf
    <3>3. DOMAIN z = DOMAIN s \union {Len(s) + 1}
      BY <1>4, <1>6
    <3>. QED
      BY <3>1, <3>2, <3>3, <1>6
  <2>2. ASSUME NEW m \in DOMAIN notes', m \notin DOMAIN FirstNotes, ~TwinTargets
        PROVE  \A j, k \in DOMAIN notes'[m].thoughts :
                 notes'[m].thoughts[j] = notes'[m].thoughts[k] => j = k
    <3>1. CASE m = n
      BY <3>1, <2>1, <2>2, <1>7
    <3>2. CASE m # n
      BY <3>2, <2>2 DEF RowsInv, ThoughtOnce
    <3>. QED
      BY <3>1, <3>2
  <2>. QED
    BY <2>2, <1>12 DEF ThoughtOnce
<1>14. SecretHeld'
  <2>1. ASSUME NEW m \in DOMAIN notes, m \notin DOMAIN FirstNotes
        PROVE  ({notes'[m].body} \union ThoughtsOf(m)') \intersect Secrets = {}
    <3>1. ({notes[m].body} \union ThoughtsOf(m)) \intersect Secrets = {}
      BY <2>1 DEF RowsInv, SecretHeld
    <3>2. ThoughtsOf(m)' \subseteq ThoughtsOf(m) \union {text}
      BY <1>8, <1>9
    <3>. QED
      BY <3>1, <3>2
  <2>. QED
    BY <2>1 DEF SecretHeld
<1>15. NotesGrow
  BY <1>8, <1>9 DEF NotesGrow
<1>. QED
  BY <1>1, <1>8, <1>9, <1>10, <1>11, <1>13, <1>14, <1>15 DEF RowsInv

\* A file, an archived note: texts, digests and Thoughts stay.
LEMMA TouchedKeeps ==
  ASSUME ImportAssumption, RowsInv, dump' = dump,
         DOMAIN notes' = DOMAIN notes, notes' \in Seq(Note),
         \A m \in DOMAIN notes :
           /\ notes'[m].body = notes[m].body /\ notes'[m].hash = notes[m].hash
           /\ notes'[m].thoughts = notes[m].thoughts
           /\ notes[m].files \subseteq notes'[m].files
  PROVE  /\ RowsInv' /\ NotesGrow
         /\ \A m \in DOMAIN notes : ThoughtsOf(m)' = ThoughtsOf(m)
<1>1. \A m \in DOMAIN notes : ThoughtsOf(m)' = ThoughtsOf(m)
  BY DEF ThoughtsOf
<1>2. TwinTargets' = TwinTargets
  BY DumpFixed
<1>3. NotesOK'
  BY DEF RowsInv, NotesOK
<1>4. HashOnce'
  BY DEF RowsInv, HashOnce
<1>5. ThoughtOnce'
  BY <1>2 DEF RowsInv, ThoughtOnce
<1>6. SecretHeld'
  BY <1>1 DEF RowsInv, SecretHeld
<1>7. NotesGrow
  BY <1>1 DEF NotesGrow
<1>. QED
  BY <1>1, <1>3, <1>4, <1>5, <1>6, <1>7 DEF RowsInv

-----------------------------------------------------------------------------
(* A run of the import                                                     *)

RunType ==
  [pass : 0 .. 2, i : Nat, limit : Nat, live : SUBSET (DOMAIN Areas),
   ids : [Idents -> Nat], seen : [Idents -> [read : BOOLEAN, bodies : SUBSET STRING]],
   note : Nat, files : SUBSET STRING]

RunInv ==
  /\ imp \in RunType /\ imp.i >= 1 /\ imp.limit <= Len(dump)
  /\ imp.pass = 0 => imp.files = {}
  /\ imp.files # {} => imp.note \in DOMAIN notes
  /\ crashes \in Nat

\* What the run learned: each unit's note carries its digest.
IdsRight ==
  \A u \in Units : imp.ids[u.ident] # 0 =>
    /\ imp.ids[u.ident] \in DOMAIN notes
    /\ notes[imp.ids[u.ident]].hash = sha256(u)

\* The Thoughts remembered of a target hold all that its note has.
SeenRight ==
  TwinTargets \/ \A t \in Targets : imp.seen[t.ident].read =>
    \A n \in DOMAIN notes :
      notes[n].hash = sha256(t) => ThoughtsOf(n) \subseteq imp.seen[t.ident].bodies

Says(text) == \E n \in DOMAIN notes : text \in {notes[n].body} \union ThoughtsOf(n)
Noted(h)   == \E n \in DOMAIN notes : notes[n].hash = h

SeenSaid == \A k \in Idents : \A b \in imp.seen[k].bodies : b = Blank \/ Says(b)

\* Unless a run died, a note lacks only the files the run still has in hand.
Photographed ==
  crashes = 0 => \A n \in DOMAIN notes : n \notin DOMAIN FirstNotes =>
    \A f \in notes[n].hash[4] :
      f \in notes[n].files \/ (imp.note = n /\ f \in imp.files)

FirstDone(u)  == /\ Does(u) = "hold" => u.ident \in held
                 /\ Does(u) = "create" => Noted(sha256(u))
SecondDone(u) == Does(u) = "append" => u.body = Blank \/ Says(u.body)

\* What the passes have done with the units before the one at hand.
Progress ==
  /\ imp.pass = 1 => \A j \in DOMAIN dump : j < imp.i => FirstDone(dump[j])
  /\ imp.pass = 2 => \A j \in DOMAIN dump :
       /\ j <= imp.limit => FirstDone(dump[j])
       /\ j < imp.i => SecondDone(dump[j])

ImportInv == /\ RowsInv /\ RunInv /\ IdsRight /\ SeenRight /\ SeenSaid
             /\ Photographed /\ Progress /\ Accounted

LEMMA GrowKeeps ==
  ASSUME NotesGrow, held \subseteq held'
  PROVE  /\ \A text : Says(text) => Says(text)'
         /\ \A h : Noted(h) => Noted(h)'
         /\ \A u : FirstDone(u) => FirstDone(u)'
         /\ \A u : SecondDone(u) => SecondDone(u)'
<1>1. \A text : Says(text) => Says(text)'
  <2>. SUFFICES ASSUME NEW text, NEW n \in DOMAIN notes,
                       text \in {notes[n].body} \union ThoughtsOf(n)
                PROVE  Says(text)'
    BY DEF Says
  <2>1. n \in DOMAIN notes' /\ text \in {notes'[n].body} \union ThoughtsOf(n)'
    BY DEF NotesGrow
  <2>. QED
    BY <2>1 DEF Says
<1>2. \A h : Noted(h) => Noted(h)'
  BY DEF Noted, NotesGrow
<1>3. \A u : Does(u)' = Does(u)
  BY DumpFixed DEF NotesGrow
<1>4. \A u : sha256(u)' = sha256(u)
  BY DEF sha256
<1>5. \A u : FirstDone(u) => FirstDone(u)'
  BY <1>2, <1>3, <1>4 DEF FirstDone
<1>6. \A u : SecondDone(u) => SecondDone(u)'
  BY <1>1, <1>3 DEF SecondDone
<1>. QED
  BY <1>1, <1>2, <1>5, <1>6

LEMMA AccountedKeeps ==
  ASSUME Accounted, NotesGrow, held \subseteq held', whole' = whole,
         crashes' = 0 => crashes = 0
  PROVE  Accounted'
<1>1. Units' = Units /\ \A u : Mirrors(u)' = Mirrors(u)
  BY DumpFixed DEF NotesGrow
<1>2. SUFFICES ASSUME whole, NEW u \in Units
               PROVE  IF Quarantined(u) THEN u.ident \in held'
                      ELSE /\ u.body # Blank => Says(u.body)'
                           /\ /\ crashes' = 0 /\ u.photos # {}
                              /\ ~ \E v \in Units : sha256(v) = sha256(u) /\ Mirrors(v)
                              => \E n \in DOMAIN notes' : u.photos \subseteq notes'[n].files
  BY <1>1 DEF Accounted, Says, Quarantined, sha256
<1>3. CASE Quarantined(u)
  BY <1>2, <1>3 DEF Accounted
<1>4. CASE ~Quarantined(u)
  <2>1. u.body # Blank => Says(u.body)
    BY <1>2, <1>4 DEF Accounted, Says
  <2>2. u.body # Blank => Says(u.body)'
    BY <2>1, GrowKeeps
  <2>3. ASSUME crashes' = 0, u.photos # {},
               ~ \E v \in Units : sha256(v) = sha256(u) /\ Mirrors(v)
        PROVE  \E n \in DOMAIN notes' : u.photos \subseteq notes'[n].files
    <3>1. PICK n \in DOMAIN notes : u.photos \subseteq notes[n].files
      BY <1>2, <1>4, <2>3 DEF Accounted
    <3>. QED
      BY <3>1 DEF NotesGrow
  <2>. QED
    BY <1>4, <2>2, <2>3
<1>. QED
  BY <1>3, <1>4

\* The unit at hand.
LEMMA UnitAtHand ==
  ASSUME ImportAssumption, ImportInv, NEW p \in {1, 2}, Running(p)
  PROVE  /\ imp.pass = p /\ imp.files = {} /\ imp.i \in DOMAIN dump
         /\ dump[imp.i] \in Units /\ ThisUnit = dump[imp.i]
         /\ ThisPlan.does = Does(dump[imp.i])
         /\ Does(dump[imp.i]) = "create" => ThisPlan = OwnPlan(dump[imp.i], imp.live)
<1>1. imp.pass = p /\ imp.files = {} /\ imp.i <= imp.limit
  BY DEF Running
<1>2. /\ dump \in Dumps /\ imp.i \in Nat /\ imp.limit \in Nat
      /\ imp.i >= 1 /\ imp.limit <= Len(dump)
  BY DEF ImportInv, RowsInv, RunInv, RunType
<1>3. imp.i \in DOMAIN dump /\ dump[imp.i] \in Units
  BY <1>1, <1>2, UnitsTyped
<1>. QED
  BY <1>1, <1>3, PlanDoes DEF ThisUnit, ThisPlan

\* A pass goes on to the next unit.
LEMMA ProgressSteps ==
  ASSUME ImportAssumption, ImportInv, NotesGrow, held \subseteq held',
         imp' \in RunType, imp'.pass = imp.pass, imp'.i = imp.i + 1, imp'.limit = imp.limit,
         NEW u, u = dump[imp.i], imp.pass = 1 => FirstDone(u)', imp.pass = 2 => SecondDone(u)'
  PROVE  Progress'
<1>1. dump' = dump /\ \A j \in DOMAIN dump : j \in Nat
  BY UnitsTyped DEF NotesGrow, ImportInv, RowsInv
<1>2. imp.i \in Nat
  BY DEF ImportInv, RunInv, RunType
<1>3. \A j \in DOMAIN dump : j < imp'.i => j < imp.i \/ j = imp.i
  BY <1>1, <1>2
<1>4. ASSUME imp'.pass = 1, NEW j \in DOMAIN dump, j < imp'.i
      PROVE  FirstDone(dump[j])'
  <2>. PICK v : v = dump[j]
    OBVIOUS
  <2>1. FirstDone(v)'
    <3>1. CASE j = imp.i
      BY <3>1, <1>4
    <3>2. CASE j < imp.i
      <4>1. FirstDone(v)
        BY <3>2, <1>4 DEF ImportInv, Progress
      <4>. QED
        BY <4>1, GrowKeeps
    <3>. QED
      BY <3>1, <3>2, <1>3, <1>4
  <2>2. dump'[j] = v
    BY <1>1
  <2>. QED
    BY <2>1, <2>2 DEF FirstDone
<1>5. ASSUME imp'.pass = 2, NEW j \in DOMAIN dump, j < imp'.i
      PROVE  SecondDone(dump[j])'
  <2>. PICK v : v = dump[j]
    OBVIOUS
  <2>1. SecondDone(v)'
    <3>1. CASE j = imp.i
      BY <3>1, <1>5
    <3>2. CASE j < imp.i
      <4>1. SecondDone(v)
        BY <3>2, <1>5 DEF ImportInv, Progress
      <4>. QED
        BY <4>1, GrowKeeps
    <3>. QED
      BY <3>1, <3>2, <1>3, <1>5
  <2>2. dump'[j] = v
    BY <1>1
  <2>. QED
    BY <2>1, <2>2 DEF SecondDone
<1>6. ASSUME imp'.pass = 2, NEW j \in DOMAIN dump, j <= imp'.limit
      PROVE  FirstDone(dump[j])'
  <2>. PICK v : v = dump[j]
    OBVIOUS
  <2>1. FirstDone(v)
    BY <1>6 DEF ImportInv, Progress
  <2>2. FirstDone(v)' /\ dump'[j] = v
    BY <2>1, <1>1, GrowKeeps
  <2>. QED
    BY <2>2 DEF FirstDone
<1>. QED
  BY <1>1, <1>4, <1>5, <1>6 DEF Progress

\* A pass stays where it is.
LEMMA ProgressStays ==
  ASSUME ImportInv, NotesGrow, held \subseteq held',
         imp'.pass = imp.pass, imp'.i = imp.i, imp'.limit = imp.limit
  PROVE  Progress'
<1>1. dump' = dump
  BY DEF NotesGrow
<1>2. ASSUME NEW j \in DOMAIN dump
      PROVE  /\ FirstDone(dump[j]) => FirstDone(dump[j])'
             /\ SecondDone(dump[j]) => SecondDone(dump[j])'
  <2>1. PICK v : v = dump[j]
    OBVIOUS
  <2>2. FirstDone(v) => FirstDone(v)'
    BY GrowKeeps
  <2>3. SecondDone(v) => SecondDone(v)'
    BY GrowKeeps
  <2>4. dump'[j] = v
    BY <2>1, <1>1
  <2>. QED
    BY <2>1, <2>2, <2>3, <2>4 DEF FirstDone, SecondDone
<1>. QED
  BY <1>1, <1>2 DEF ImportInv, Progress

-----------------------------------------------------------------------------
(* What a step leaves alone                                                *)

\* No Thought is written and nothing is read.
LEMMA SeenStays ==
  ASSUME ImportAssumption, ImportInv, NotesGrow, held \subseteq held', imp'.seen = imp.seen,
         \A n \in DOMAIN notes : ThoughtsOf(n)' = ThoughtsOf(n),
         \A n \in DOMAIN notes' : n \notin DOMAIN notes => ThoughtsOf(n)' = {}
  PROVE  SeenRight' /\ SeenSaid'
<1>1. Targets' = Targets /\ TwinTargets' = TwinTargets
  BY DumpFixed DEF NotesGrow
<1>2. SeenRight'
  <2>. SUFFICES ASSUME ~TwinTargets, NEW t \in Targets, imp.seen[t.ident].read,
                       NEW n \in DOMAIN notes', notes'[n].hash = sha256(t)
                PROVE  ThoughtsOf(n)' \subseteq imp.seen[t.ident].bodies
    BY <1>1 DEF SeenRight, sha256
  <2>1. CASE n \in DOMAIN notes
    BY <2>1, <1>1 DEF ImportInv, SeenRight, NotesGrow
  <2>2. CASE n \notin DOMAIN notes
    BY <2>2
  <2>. QED
    BY <2>1, <2>2
<1>3. SeenSaid'
  BY GrowKeeps DEF ImportInv, SeenSaid
<1>. QED
  BY <1>2, <1>3

\* A run knows nothing when it begins.
LEMMA BlankRun ==
  ASSUME ImportAssumption, dump' = dump, dump \in Dumps,
         imp'.ids = [k \in Idents |-> 0], imp'.seen = [k \in Idents |-> Unread]
  PROVE  IdsRight' /\ SeenRight' /\ SeenSaid'
<1>1. Targets' = Targets /\ TwinTargets' = TwinTargets /\ Units' = Units
  BY DumpFixed
<1>2. \A u \in Units : u.ident \in Idents
  BY UnitsTyped DEF Unit
<1>3. Targets \subseteq Units
  BY PairTargetFound DEF Targets
<1>4. \A k \in Idents : ~imp'.seen[k].read /\ imp'.seen[k].bodies = {}
  BY DEF Unread
<1>5. IdsRight'
  BY <1>1, <1>2 DEF IdsRight
<1>6. SeenRight'
  BY <1>1, <1>2, <1>3, <1>4 DEF SeenRight
<1>7. SeenSaid'
  BY <1>4 DEF SeenSaid
<1>. QED
  BY <1>5, <1>6, <1>7

\* The run learns nothing, or the note of one unit.
LEMMA IdsStay ==
  ASSUME ImportInv, NotesGrow, imp'.ids = imp.ids
  PROVE  IdsRight'
<1>1. Units' = Units
  BY DumpFixed DEF NotesGrow
<1>2. SUFFICES ASSUME NEW u \in Units, imp.ids[u.ident] # 0
               PROVE  /\ imp.ids[u.ident] \in DOMAIN notes'
                      /\ notes'[imp.ids[u.ident]].hash = sha256(u)
  BY <1>1 DEF IdsRight, sha256
<1>. QED
  BY <1>2 DEF NotesGrow, ImportInv, IdsRight

LEMMA IdsLearn ==
  ASSUME ImportAssumption, ImportInv, NotesGrow, NEW u \in Units, NEW n,
         imp'.ids = [imp.ids EXCEPT ![u.ident] = n],
         n \in DOMAIN notes', notes'[n].hash = sha256(u)
  PROVE  IdsRight'
<1>1. Units' = Units
  BY DumpFixed DEF NotesGrow
<1>2. SUFFICES ASSUME NEW v \in Units, imp'.ids[v.ident] # 0
               PROVE  /\ imp'.ids[v.ident] \in DOMAIN notes'
                      /\ notes'[imp'.ids[v.ident]].hash = sha256(v)
  BY <1>1 DEF IdsRight, sha256
<1>3. /\ v.ident \in Idents /\ u.ident \in Idents /\ dump \in Dumps
      /\ v.ident = u.ident => v = u
  BY UnitsTyped DEF Unit, ImportInv, RowsInv
<1>4. imp.ids \in [Idents -> Nat]
  BY DEF ImportInv, RunInv, RunType
<1>5. CASE v = u
  BY <1>3, <1>4, <1>5
<1>6. CASE v # u
  <2>1. imp'.ids[v.ident] = imp.ids[v.ident]
    BY <1>3, <1>4, <1>6
  <2>2. /\ imp.ids[v.ident] \in DOMAIN notes
        /\ notes[imp.ids[v.ident]].hash = sha256(v)
    BY <1>2, <2>1 DEF ImportInv, IdsRight
  <2>. QED
    BY <2>1, <2>2 DEF NotesGrow
<1>. QED
  BY <1>5, <1>6

\* Notes and run keep their files in hand.
LEMMA PhotosStay ==
  ASSUME ImportInv, notes' = notes, crashes' = crashes,
         imp'.files = imp.files, imp'.note = imp.note
  PROVE  Photographed'
  BY DEF ImportInv, Photographed

\* With no file in hand it does not matter which note is.
LEMMA PhotosDone ==
  ASSUME ImportInv, notes' = notes, crashes' = crashes, imp.files = {}
  PROVE  Photographed'
  BY DEF ImportInv, Photographed

LEMMA SameRows ==
  ASSUME ImportInv, dump' = dump, notes' = notes
  PROVE  /\ RowsInv' /\ NotesGrow
         /\ \A n \in DOMAIN notes : ThoughtsOf(n)' = ThoughtsOf(n)
         /\ \A n \in DOMAIN notes' : n \notin DOMAIN notes => ThoughtsOf(n)' = {}
<1>1. \A n : ThoughtsOf(n)' = ThoughtsOf(n)
  BY DEF ThoughtsOf
<1>2. TwinTargets' = TwinTargets
  BY DumpFixed
<1>3. RowsInv'
  BY <1>1, <1>2 DEF ImportInv, RowsInv, NotesOK, HashOnce, ThoughtOnce, SecretHeld
<1>4. NotesGrow
  BY <1>1 DEF NotesGrow
<1>. QED
  BY <1>1, <1>3, <1>4

\* The import ends, dies or is about to begin.
LEMMA RestKeeps ==
  ASSUME ImportAssumption, ImportInv, dump' = dump, notes' = notes, held' = held,
         whole' = whole \/ Accounted',
         crashes' \in Nat, crashes' = 0 => crashes = 0 /\ imp.files = {},
         imp' \in RunType, imp'.i = 1, imp'.limit <= Len(dump), imp'.files = {},
         imp'.pass # 2, imp'.ids = [k \in Idents |-> 0], imp'.seen = [k \in Idents |-> Unread]
  PROVE  ImportInv'
<1>1. RowsInv' /\ NotesGrow
  BY SameRows
<1>2. dump \in Dumps
  BY DEF ImportInv, RowsInv
<1>3. RunInv'
  BY DEF RunInv
<1>4. IdsRight' /\ SeenRight' /\ SeenSaid'
  BY <1>2, BlankRun
<1>5. Photographed'
  BY DEF ImportInv, Photographed
<1>6. Progress'
  <2>1. \A j \in DOMAIN dump : j \in Nat /\ j >= 1
    BY <1>2, UnitsTyped
  <2>. QED
    BY <2>1 DEF Progress
<1>7. Accounted'
  BY <1>1, AccountedKeeps DEF ImportInv
<1>. QED
  BY <1>1, <1>3, <1>4, <1>5, <1>6, <1>7 DEF ImportInv

-----------------------------------------------------------------------------
(* The steps of an import                                                  *)

LEMMA ImportFacts ==
  ASSUME ImportAssumption, ImportInv
  PROVE  /\ dump \in Dumps /\ notes \in Seq(Note) /\ imp \in RunType /\ crashes \in Nat
         /\ imp.i \in Nat /\ imp.limit \in Nat /\ imp.limit <= Len(dump)
         /\ imp.live \subseteq DOMAIN Areas /\ imp.ids \in [Idents -> Nat]
         /\ imp.seen \in [Idents -> [read : BOOLEAN, bodies : SUBSET STRING]]
         /\ \A u \in Units : u \in Unit /\ u.ident \in Idents
         /\ Targets \subseteq Units
<1>1. dump \in Dumps /\ notes \in Seq(Note) /\ imp \in RunType /\ crashes \in Nat
      /\ imp.limit <= Len(dump)
  BY DEF ImportInv, RowsInv, RunInv
<1>2. \A u \in Units : u \in Unit /\ u.ident \in Idents
  BY <1>1, UnitsTyped DEF Unit
<1>3. Targets \subseteq Units
  BY <1>1, PairTargetFound DEF Targets
<1>. QED
  BY <1>1, <1>2, <1>3 DEF RunType

\* The fields of a run, by name.
LEMMA RunRecords ==
  \E A, B, C, F :
    /\ A = SUBSET (DOMAIN Areas) /\ B = [Idents -> Nat]
    /\ C = [Idents -> [read : BOOLEAN, bodies : SUBSET STRING]] /\ F = SUBSET STRING
    /\ RunType = [pass : 0 .. 2, i : Nat, limit : Nat, live : A, ids : B, seen : C,
                  note : Nat, files : F]
<1>1. PICK A : A = SUBSET (DOMAIN Areas)
  OBVIOUS
<1>2. PICK B : B = [Idents -> Nat]
  OBVIOUS
<1>3. PICK C : C = [Idents -> [read : BOOLEAN, bodies : SUBSET STRING]]
  OBVIOUS
<1>4. PICK F : F = SUBSET STRING
  OBVIOUS
<1>5. RunType = [pass : 0 .. 2, i : Nat, limit : Nat, live : A, ids : B, seen : C,
                 note : Nat, files : F]
  BY <1>1, <1>2, <1>3, <1>4 DEF RunType
<1>. QED
  BY <1>1, <1>2, <1>3, <1>4, <1>5

\* It goes on to another unit.
LEMMA RunMoved ==
  ASSUME NEW r \in RunType,
         NEW x \in Nat,
         NEW s, s = [r EXCEPT !.i = x]
  PROVE  /\ s \in RunType /\ s.pass = r.pass /\ s.i = x /\ s.limit = r.limit
         /\ s.live = r.live /\ s.ids = r.ids /\ s.seen = r.seen
         /\ s.note = r.note /\ s.files = r.files
<1>1. PICK A, B, C, F :
        /\ A = SUBSET (DOMAIN Areas) /\ B = [Idents -> Nat]
        /\ C = [Idents -> [read : BOOLEAN, bodies : SUBSET STRING]] /\ F = SUBSET STRING
        /\ RunType = [pass : 0 .. 2, i : Nat, limit : Nat, live : A, ids : B, seen : C,
                      note : Nat, files : F]
  BY RunRecords
<1>. QED
  BY <1>1

\* It learns a note.
LEMMA RunLearned ==
  ASSUME NEW r \in RunType,
         NEW x \in [Idents -> Nat],
         NEW s, s = [r EXCEPT !.ids = x]
  PROVE  /\ s \in RunType /\ s.pass = r.pass /\ s.i = r.i /\ s.limit = r.limit
         /\ s.live = r.live /\ s.ids = x /\ s.seen = r.seen
         /\ s.note = r.note /\ s.files = r.files
<1>1. PICK A, B, C, F :
        /\ A = SUBSET (DOMAIN Areas) /\ B = [Idents -> Nat]
        /\ C = [Idents -> [read : BOOLEAN, bodies : SUBSET STRING]] /\ F = SUBSET STRING
        /\ RunType = [pass : 0 .. 2, i : Nat, limit : Nat, live : A, ids : B, seen : C,
                      note : Nat, files : F]
  BY RunRecords
<1>. QED
  BY <1>1

\* It remembers Thoughts.
LEMMA RunRead ==
  ASSUME NEW r \in RunType,
         NEW x \in [Idents -> [read : BOOLEAN, bodies : SUBSET STRING]],
         NEW s, s = [r EXCEPT !.seen = x]
  PROVE  /\ s \in RunType /\ s.pass = r.pass /\ s.i = r.i /\ s.limit = r.limit
         /\ s.live = r.live /\ s.ids = r.ids /\ s.seen = x
         /\ s.note = r.note /\ s.files = r.files
<1>1. PICK A, B, C, F :
        /\ A = SUBSET (DOMAIN Areas) /\ B = [Idents -> Nat]
        /\ C = [Idents -> [read : BOOLEAN, bodies : SUBSET STRING]] /\ F = SUBSET STRING
        /\ RunType = [pass : 0 .. 2, i : Nat, limit : Nat, live : A, ids : B, seen : C,
                      note : Nat, files : F]
  BY RunRecords
<1>. QED
  BY <1>1

\* It turns to a note.
LEMMA RunNotes ==
  ASSUME NEW r \in RunType,
         NEW x \in Nat,
         NEW s, s = [r EXCEPT !.note = x]
  PROVE  /\ s \in RunType /\ s.pass = r.pass /\ s.i = r.i /\ s.limit = r.limit
         /\ s.live = r.live /\ s.ids = r.ids /\ s.seen = r.seen
         /\ s.note = x /\ s.files = r.files
<1>1. PICK A, B, C, F :
        /\ A = SUBSET (DOMAIN Areas) /\ B = [Idents -> Nat]
        /\ C = [Idents -> [read : BOOLEAN, bodies : SUBSET STRING]] /\ F = SUBSET STRING
        /\ RunType = [pass : 0 .. 2, i : Nat, limit : Nat, live : A, ids : B, seen : C,
                      note : Nat, files : F]
  BY RunRecords
<1>. QED
  BY <1>1

LEMMA NoRunTyped ==
  NoRun \in RunType /\ NoRun.i = 1 /\ NoRun.limit = 0 /\ NoRun.files = {} /\ NoRun.pass = 0
    /\ NoRun.ids = [k \in Idents |-> 0] /\ NoRun.seen = [k \in Idents |-> Unread]
<1>1. Unread \in [read : BOOLEAN, bodies : SUBSET STRING]
  BY DEF Unread
<1>. QED
  BY <1>1 DEF NoRun, RunType

LEMMA import_sourceKeeps ==
  ASSUME ImportAssumption, ImportInv, NEW limit \in 1 .. Len(dump), import_source(limit)
  PROVE  ImportInv'
<1>1. /\ imp.pass = 0 /\ dump' = dump /\ notes' = notes /\ held' = held
      /\ whole' = whole /\ crashes' = crashes /\ crashes \in Nat
  BY ImportFacts DEF import_source, libraryVars
<1>2. limit \in Nat /\ limit <= Len(dump)
  BY ImportFacts, UnitsTyped
<1>3. imp' = [NoRun EXCEPT !.pass = 1, !.limit = limit, !.live = (DOMAIN Areas) \ retired]
  BY DEF import_source
<1>4. /\ imp' \in RunType /\ imp'.i = 1 /\ imp'.limit = limit /\ imp'.files = {}
      /\ imp'.pass = 1 /\ imp'.ids = NoRun.ids /\ imp'.seen = NoRun.seen
  <2>1. PICK live : live = (DOMAIN Areas) \ retired
    OBVIOUS
  <2>2. PICK ids : ids = [k \in Idents |-> 0]
    OBVIOUS
  <2>3. PICK seen : seen = [k \in Idents |-> Unread]
    OBVIOUS
  <2>4. imp' = [pass |-> 1, i |-> 1, limit |-> limit, live |-> live, ids |-> ids,
                seen |-> seen, note |-> 0, files |-> {}]
    BY <1>3, <2>1, <2>2, <2>3 DEF NoRun
  <2>5. live \in SUBSET (DOMAIN Areas)
    BY <2>1
  <2>6. ids = NoRun.ids /\ seen = NoRun.seen
    BY <2>2, <2>3, NoRunTyped
  <2>7. /\ ids \in [Idents -> Nat]
        /\ seen \in [Idents -> [read : BOOLEAN, bodies : SUBSET STRING]]
    BY <2>6, NoRunTyped DEF RunType
  <2>. QED
    BY <1>2, <2>4, <2>5, <2>6, <2>7 DEF RunType
<1>5. imp.files = {}
  BY <1>1 DEF ImportInv, RunInv
<1>. QED
  BY <1>1, <1>2, <1>4, <1>5, NoRunTyped, RestKeeps

LEMMA ImportCrashKeeps ==
  ASSUME ImportAssumption, ImportInv, ImportCrash
  PROVE  ImportInv'
<1>1. /\ dump' = dump /\ notes' = notes /\ held' = held
      /\ whole' = whole /\ crashes' = crashes + 1 /\ crashes \in Nat /\ imp' = NoRun
  BY ImportFacts DEF ImportCrash, libraryVars
<1>2. crashes' \in Nat /\ crashes' # 0
  BY <1>1
<1>3. 0 <= Len(dump)
  BY ImportFacts, UnitsTyped
<1>. QED
  BY <1>1, <1>2, <1>3, NoRunTyped, RestKeeps

\* A run over the whole dump that ends has accounted for every unit.
LEMMA WholeRun ==
  ASSUME ImportAssumption, ImportInv, imp.pass = 2, imp.files = {}, imp.i > imp.limit,
         imp.limit = Len(dump), NEW u \in Units
  PROVE  IF Quarantined(u) THEN u.ident \in held
         ELSE /\ u.body # Blank => Says(u.body)
              /\ /\ crashes = 0 /\ u.photos # {}
                 /\ ~ \E v \in Units : sha256(v) = sha256(u) /\ Mirrors(v)
                 => \E n \in DOMAIN notes : u.photos \subseteq notes[n].files
<1>1. dump \in Dumps /\ imp.i \in Nat /\ imp.limit \in Nat
  BY ImportFacts
<1>2. \A j \in DOMAIN dump : j \in Nat /\ j <= imp.limit /\ j < imp.i
  BY <1>1, UnitsTyped
<1>3. \A v \in Units : FirstDone(v) /\ SecondDone(v)
  <2>. SUFFICES ASSUME NEW j \in DOMAIN dump
                PROVE  FirstDone(dump[j]) /\ SecondDone(dump[j])
    BY DEF Units
  <2>. QED
    BY <1>2 DEF ImportInv, Progress
<1>4. ASSUME Quarantined(u)
      PROVE  u.ident \in held
  BY <1>3, <1>4 DEF FirstDone, Does
<1>5. ASSUME ~Quarantined(u), ~Empty(u)
      PROVE  /\ u.body # Blank => Says(u.body)
             /\ /\ crashes = 0 /\ u.photos # {}
                /\ ~ \E v \in Units : sha256(v) = sha256(u) /\ Mirrors(v)
                => \E n \in DOMAIN notes : u.photos \subseteq notes[n].files
  <2>1. PICK v \in Units : sha256(v) = sha256(u)
                           /\ ~Quarantined(v) /\ ~Empty(v) /\ ~Duplicate(v)
    BY <1>1, <1>5, SurvivorFound
  <2>2. v.body = u.body /\ v.photos = u.photos
    BY <2>1, <1>1, DigestTyped
  <2>3. Does(v) = IF Mirrors(v) THEN "append" ELSE "create"
    BY <2>1 DEF Does
  <2>4. CASE Mirrors(v)
    BY <2>1, <2>2, <2>3, <2>4, <1>3 DEF SecondDone
  <2>5. CASE ~Mirrors(v)
    <3>1. PICK n \in DOMAIN notes : notes[n].hash = sha256(u)
      BY <2>1, <2>3, <2>5, <1>3 DEF FirstDone, Noted
    <3>2. /\ sha256(u) # NoHash
          /\ sha256(u)[3] = u.body /\ sha256(u)[4] = u.photos
      BY <1>1, DigestTyped
    <3>3. /\ n \notin DOMAIN FirstNotes
          /\ notes[n].body = u.body /\ notes[n].hash[4] = u.photos
      <4>1. NotesOK
        BY DEF ImportInv, RowsInv
      <4>2. n \notin DOMAIN FirstNotes
        BY <4>1, <3>1, <3>2 DEF NotesOK
      <4>3. notes[n].body = notes[n].hash[3]
        BY <4>1, <4>2 DEF NotesOK
      <4>. QED
        BY <4>2, <4>3, <3>1, <3>2
    <3>4. Says(u.body)
      BY <3>3 DEF Says
    <3>5. crashes = 0 => u.photos \subseteq notes[n].files
      BY <3>3 DEF ImportInv, Photographed
    <3>. QED
      BY <3>4, <3>5
  <2>. QED
    BY <2>4, <2>5
<1>6. CASE Empty(u)
  BY <1>4, <1>6 DEF Empty, NoText
<1>. QED
  BY <1>4, <1>5, <1>6

LEMMA RunEndsKeeps ==
  ASSUME ImportAssumption, ImportInv, RunEnds
  PROVE  ImportInv'
<1>1. /\ dump' = dump /\ notes' = notes /\ held' = held /\ imp' = NoRun
      /\ whole' = (whole \/ imp.limit = Len(dump)) /\ crashes' = crashes /\ crashes \in Nat
      /\ imp.pass = 2 /\ imp.files = {} /\ imp.i > imp.limit
  BY ImportFacts DEF RunEnds, libraryVars
<1>2. whole' = whole \/ Accounted'
  <2>1. CASE imp.limit = Len(dump)
    <3>1. \A u : (Mirrors(u)' = Mirrors(u)) /\ Units' = Units
      BY <1>1, DumpFixed
    <3>2. \A u \in Units :
            IF Quarantined(u) THEN u.ident \in held
            ELSE /\ u.body # Blank => Says(u.body)
                 /\ /\ crashes = 0 /\ u.photos # {}
                    /\ ~ \E v \in Units : sha256(v) = sha256(u) /\ Mirrors(v)
                    => \E n \in DOMAIN notes : u.photos \subseteq notes[n].files
      BY <1>1, <2>1, WholeRun
    <3>. QED
      BY <1>1, <3>1, <3>2 DEF Accounted, Says, ThoughtsOf, Quarantined, sha256
  <2>2. CASE imp.limit # Len(dump) /\ whole' # whole
    <3>1. Accounted'
      BY <1>1, <2>2 DEF Accounted
    <3>. QED
      BY <3>1
  <2>. QED
    BY <2>1, <2>2
<1>3. 0 <= Len(dump)
  BY ImportFacts, UnitsTyped
<1>. QED
  BY <1>1, <1>2, <1>3, NoRunTyped, RestKeeps

\* A pass goes on without a word to the library.
LEMMA NextKeeps ==
  ASSUME ImportAssumption, ImportInv, dump' = dump, notes' = notes, held \subseteq held',
         whole' = whole, crashes' = crashes, NEW p \in {1, 2}, Running(p),
         imp' \in RunType, imp'.pass = imp.pass, imp'.i = imp.i + 1, imp'.limit = imp.limit,
         imp'.files = imp.files, IdsRight', SeenRight', SeenSaid',
         NEW u, u = dump[imp.i], imp.pass = 1 => FirstDone(u)', imp.pass = 2 => SecondDone(u)'
  PROVE  ImportInv'
<1>1. RowsInv' /\ NotesGrow
  BY SameRows
<1>2. imp.files = {} /\ imp.i \in Nat
  BY UnitAtHand, ImportFacts
<1>3. RunInv'
  BY <1>2, ImportFacts DEF RunInv
<1>4. Photographed'
  BY <1>2, PhotosDone
<1>5. Progress'
  BY <1>1, ProgressSteps
<1>6. Accounted'
  BY <1>1, AccountedKeeps DEF ImportInv
<1>. QED
  BY <1>1, <1>3, <1>4, <1>5, <1>6 DEF ImportInv

LEMMA NextUnitTyped ==
  ASSUME ImportAssumption, ImportInv
  PROVE  /\ NextUnit \in RunType /\ NextUnit.i = imp.i + 1 /\ NextUnit.pass = imp.pass
         /\ NextUnit.limit = imp.limit /\ NextUnit.ids = imp.ids /\ NextUnit.seen = imp.seen
         /\ NextUnit.note = imp.note /\ NextUnit.files = imp.files
<1>1. PICK r : r = imp
  OBVIOUS
<1>2. r \in RunType /\ r.i \in Nat
  BY <1>1, ImportFacts
<1>3. PICK x : x = r.i + 1
  OBVIOUS
<1>4. x \in Nat
  BY <1>2, <1>3
<1>5. NextUnit = [r EXCEPT !.i = x]
  BY <1>1, <1>3 DEF NextUnit
<1>6. PICK s : s = [r EXCEPT !.i = x]
  OBVIOUS
<1>7. /\ s \in RunType /\ s.pass = r.pass /\ s.i = x /\ s.limit = r.limit
      /\ s.live = r.live /\ s.ids = r.ids /\ s.seen = r.seen
      /\ s.note = r.note /\ s.files = r.files
  BY <1>2, <1>4, <1>6, RunMoved
<1>. QED
  BY <1>1, <1>3, <1>5, <1>6, <1>7

LEMMA PassOverKeeps ==
  ASSUME ImportAssumption, ImportInv, PassOver
  PROVE  ImportInv'
<1>1. /\ dump' = dump /\ notes' = notes /\ held' = held /\ imp' = NextUnit
      /\ whole' = whole /\ crashes' = crashes
  BY DEF PassOver, libraryVars
<1>2. PICK p \in {1, 2} : /\ Running(p)
                          /\ p = 1 => ThisPlan.does \in {"skip", "append"}
                          /\ p = 2 => ThisPlan.does # "append"
  BY DEF PassOver
<1>3. RowsInv' /\ NotesGrow
  BY <1>1, SameRows
<1>4. IdsRight'
  BY <1>1, <1>3, NextUnitTyped, IdsStay
<1>5. SeenRight' /\ SeenSaid'
  BY <1>1, <1>3, NextUnitTyped, SameRows, SeenStays
<1>6. PICK u : u = dump[imp.i]
  OBVIOUS
<1>7. /\ imp.pass = p /\ Does(u)' = Does(u)
      /\ p = 1 => Does(u) \in {"skip", "append"}
      /\ p = 2 => Does(u) # "append"
  BY <1>1, <1>2, <1>6, UnitAtHand, DumpFixed
<1>8. imp.pass = 1 => FirstDone(u)'
  <2>1. PICK d : d = Does(u)
    OBVIOUS
  <2>2. Does(u)' = d /\ (imp.pass = 1 => d \in {"skip", "append"})
    BY <1>7, <2>1
  <2>3. imp.pass = 1 => d # "hold" /\ d # "create"
    BY <2>2
  <2>. QED
    BY <2>2, <2>3 DEF FirstDone
<1>9. imp.pass = 2 => SecondDone(u)'
  BY <1>7, <1>2, <1>6, UnitAtHand DEF SecondDone
<1>10. PICK next : next = NextUnit
  OBVIOUS
<1>11. /\ imp' \in RunType /\ imp'.pass = imp.pass /\ imp'.i = imp.i + 1
       /\ imp'.limit = imp.limit /\ imp'.files = imp.files
  BY <1>1, NextUnitTyped
<1>. QED
  BY <1>1, <1>2, <1>4, <1>5, <1>6, <1>8, <1>9, <1>11, NextKeeps

LEMMA quarantine_unitKeeps ==
  ASSUME ImportAssumption, ImportInv, quarantine_unit
  PROVE  ImportInv'
<1>1. /\ dump' = dump /\ notes' = notes /\ held' = held \union {ThisUnit.ident}
      /\ imp' = NextUnit /\ whole' = whole /\ crashes' = crashes
      /\ Running(1) /\ ThisPlan.does = "hold"
  BY DEF quarantine_unit, libraryVars
<1>3. RowsInv' /\ NotesGrow
  BY <1>1, SameRows
<1>4. IdsRight'
  BY <1>1, <1>3, NextUnitTyped, IdsStay
<1>5. SeenRight' /\ SeenSaid'
  BY <1>1, <1>3, NextUnitTyped, SameRows, SeenStays
<1>6. PICK u : u = dump[imp.i]
  OBVIOUS
<1>7. imp.pass = 1 /\ Does(u)' = Does(u) /\ Does(u) = "hold" /\ u.ident \in held'
  BY <1>1, <1>6, UnitAtHand, DumpFixed
<1>8. FirstDone(u)'
  BY <1>7 DEF FirstDone
<1>11. /\ imp' \in RunType /\ imp'.pass = imp.pass /\ imp'.i = imp.i + 1
       /\ imp'.limit = imp.limit /\ imp'.files = imp.files
  BY <1>1, NextUnitTyped
<1>. QED
  BY <1>1, <1>4, <1>5, <1>6, <1>7, <1>8, <1>11, NextKeeps

\* The note of the unit at hand is known: CreateUnit and AlreadyOwnNote.
LEMMA LearnKeeps ==
  ASSUME ImportAssumption, ImportInv, dump' = dump, notes' = notes, held' = held,
         whole' = whole, crashes' = crashes, NEW p \in {1, 2}, Running(p),
         p = 1 => ThisPlan.does = "create", p = 2 => ThisPlan.does = "append",
         NEW n, n = note_by_content_hash(sha256(ThisUnit)), n # 0,
         imp' = [NextUnit EXCEPT !.ids = Learn(ThisUnit, n)]
  PROVE  ImportInv'
<1>1. PICK u : u = dump[imp.i]
  OBVIOUS
<1>2. /\ imp.pass = p /\ u \in Units /\ ThisUnit = u /\ ThisPlan.does = Does(u)
      /\ u.ident \in Idents
  BY <1>1, UnitAtHand, ImportFacts
<1>3. n \in DOMAIN notes /\ notes[n].hash = sha256(u)
  BY <1>2, NoteByHash, ImportFacts
<1>4. RowsInv' /\ NotesGrow
  BY SameRows
<1>5. PICK next : next = NextUnit
  OBVIOUS
<1>6. PICK ids : ids = [imp.ids EXCEPT ![u.ident] = n]
  OBVIOUS
<1>7. ids \in [Idents -> Nat]
  BY <1>2, <1>3, <1>6, ImportFacts
<1>8. imp' = [next EXCEPT !.ids = ids]
  BY <1>2, <1>5, <1>6 DEF Learn
<1>9. /\ next \in RunType /\ next.i = imp.i + 1 /\ next.pass = imp.pass
      /\ next.limit = imp.limit /\ next.seen = imp.seen /\ next.files = imp.files
  BY <1>5, NextUnitTyped
<1>10. /\ imp' \in RunType /\ imp'.pass = imp.pass /\ imp'.i = imp.i + 1
       /\ imp'.limit = imp.limit /\ imp'.files = imp.files
       /\ imp'.ids = ids /\ imp'.seen = imp.seen
  BY <1>7, <1>8, <1>9 DEF RunType
<1>11. IdsRight'
  BY <1>2, <1>3, <1>4, <1>6, <1>10, IdsLearn
<1>12. SeenRight' /\ SeenSaid'
  BY <1>4, <1>10, SameRows, SeenStays
<1>13. Does(u)' = Does(u) /\ (Does(u) = "create" \/ Does(u) = "append")
  BY <1>2, DumpFixed
<1>14. FirstDone(u)'
  BY <1>3, <1>13 DEF FirstDone, Noted, sha256
<1>15. SecondDone(u)'
  <2>1. n \notin DOMAIN FirstNotes
    BY <1>2, <1>3, ImportFacts, DigestTyped DEF ImportInv, RowsInv, NotesOK
  <2>2. notes[n].body = u.body
    <3>1. notes[n].body = notes[n].hash[3]
      BY <1>3, <2>1 DEF ImportInv, RowsInv, NotesOK
    <3>2. sha256(u)[3] = u.body
      BY <1>2, ImportFacts, DigestTyped
    <3>. QED
      BY <3>1, <3>2, <1>3
  <2>3. Says(u.body)
    BY <1>3, <2>2 DEF Says
  <2>4. Says(u.body)'
    BY <2>3, <1>4, GrowKeeps
  <2>. QED
    BY <2>4 DEF SecondDone
<1>. QED
  BY <1>1, <1>10, <1>11, <1>12, <1>14, <1>15, NextKeeps

\* The note of the unit at hand is new: CreateUnit and Fallback.
LEMMA CreatedKeeps ==
  ASSUME ImportAssumption, ImportInv, dump' = dump, held' = held,
         whole' = whole, crashes' = crashes, NEW p \in {1, 2}, Running(p),
         p = 1 => ThisPlan.does = "create", p = 2 => ThisPlan.does = "append",
         note_by_content_hash(sha256(ThisUnit)) = 0,
         Created(OwnPlan(ThisUnit, imp.live), NextUnit)
  PROVE  ImportInv'
<1>1. PICK u : u = dump[imp.i]
  OBVIOUS
<1>2. /\ imp.pass = p /\ u \in Units /\ ThisUnit = u /\ ThisPlan.does = Does(u)
      /\ u.ident \in Idents /\ u \in Unit /\ imp.files = {} /\ imp.live \subseteq DOMAIN Areas
  BY <1>1, UnitAtHand, ImportFacts
<1>3. Does(u) \in {"create", "append"} /\ ~Quarantined(u)
  BY <1>2 DEF Does
<1>4. PICK plan : plan = OwnPlan(u, imp.live)
  OBVIOUS
<1>5. plan.status \in {"inbox", "active", "archived"} /\ plan.area \in 0 .. Len(Areas)
  BY <1>2, <1>4, OwnPlanTyped
<1>6. PICK h : h = sha256(u)
  OBVIOUS
<1>7. h \in Digest /\ h # NoHash /\ h[3] = u.body /\ h[4] = u.photos
  BY <1>2, <1>6, ImportFacts, DigestTyped
<1>8. PICK r : r = [title |-> clean_title(u), body |-> u.body, status |-> plan.status,
                    area |-> plan.area, hash |-> h, thoughts |-> <<>>, files |-> {},
                    updated |-> "now"]
  OBVIOUS
<1>9. u.title \in STRING /\ u.body \in STRING /\ u.photos \in SUBSET STRING
  BY <1>2 DEF Unit
<1>10. clean_title(u) \in STRING
  BY <1>9 DEF clean_title
<1>11. r \in Note
  <2>1. h \in {NoHash} \union Digest
    BY <1>7
  <2>2. <<>> \in Seq(STRING)
    OBVIOUS
  <2>6. {} \in SUBSET STRING
    OBVIOUS
  <2>7. "now" \in Dates
    BY DEF Dates
  <2>3. PICK H : H = {NoHash} \union Digest
    OBVIOUS
  <2>4. Note = [title : STRING, body : STRING, status : {"inbox", "active", "archived"},
                area : 0 .. Len(Areas), hash : H, thoughts : Seq(STRING),
                files : SUBSET STRING, updated : Dates]
    BY <2>3 DEF Note
  <2>5. u.body \in STRING /\ clean_title(u) \in STRING /\ h \in H
    BY <1>9, <1>10, <2>1, <2>3
  <2>. QED
    BY <1>5, <1>8, <2>2, <2>4, <2>5, <2>6, <2>7
<1>12. notes' = Append(notes, r)
  BY <1>2, <1>4, <1>6, <1>8 DEF Created, create_note
<1>13. r.hash = sha256(u) /\ r.body = u.body /\ r.thoughts = <<>> /\ r.files = {}
  BY <1>6, <1>8
<1>14. PICK n : n = Len(notes) + 1
  OBVIOUS
<1>15. /\ RowsInv' /\ NotesGrow
       /\ DOMAIN notes' = DOMAIN notes \union {n}
       /\ n \notin DOMAIN notes /\ n \notin DOMAIN FirstNotes
       /\ \A m \in DOMAIN notes : notes'[m] = notes[m]
       /\ notes'[n] = r
  BY <1>2, <1>3, <1>11, <1>12, <1>13, <1>14, NewNoteKeeps DEF ImportInv
<1>16. n \in Nat /\ n # 0 /\ n \in DOMAIN notes'
  BY <1>14, <1>15, ImportFacts
<1>17. PICK next : next = NextUnit
  OBVIOUS
<1>18. PICK ids : ids = [imp.ids EXCEPT ![u.ident] = n]
  OBVIOUS
<1>19. ids \in [Idents -> Nat]
  BY <1>2, <1>16, <1>18, ImportFacts
<1>20. imp' = [next EXCEPT !.ids = ids, !.note = n, !.files = u.photos]
  BY <1>2, <1>14, <1>17, <1>18 DEF Created, Learn
<1>21. PICK one : one = [next EXCEPT !.ids = ids]
  OBVIOUS
<1>22. imp' = [one EXCEPT !.note = n, !.files = u.photos]
  BY <1>20, <1>21
<1>23. /\ next \in RunType /\ next.i = imp.i + 1 /\ next.pass = imp.pass
       /\ next.limit = imp.limit /\ next.seen = imp.seen
  BY <1>17, NextUnitTyped
<1>24. /\ one \in RunType /\ one.i = imp.i + 1 /\ one.pass = imp.pass
       /\ one.limit = imp.limit /\ one.seen = imp.seen /\ one.ids = ids
  <2>1. next \in RunType
    BY <1>23
  <2>2. /\ one \in RunType /\ one.pass = next.pass /\ one.i = next.i
        /\ one.limit = next.limit /\ one.ids = ids /\ one.seen = next.seen
    BY <2>1, <1>19, <1>21, RunLearned
  <2>. QED
    BY <2>2, <1>23
<1>25. PICK photos : photos = u.photos
  OBVIOUS
<1>26. PICK s : s = [one EXCEPT !.note = n, !.files = photos]
  OBVIOUS
<1>27. /\ s \in RunType /\ s.i = imp.i + 1 /\ s.pass = imp.pass /\ s.limit = imp.limit
       /\ s.seen = imp.seen /\ s.ids = ids /\ s.note = n /\ s.files = photos
  <2>1. one \in RunType /\ n \in Nat /\ photos \in SUBSET STRING
    BY <1>9, <1>16, <1>24, <1>25
  <2>2. PICK A, B, C, F :
          /\ A = SUBSET (DOMAIN Areas) /\ B = [Idents -> Nat]
          /\ C = [Idents -> [read : BOOLEAN, bodies : SUBSET STRING]] /\ F = SUBSET STRING
          /\ RunType = [pass : 0 .. 2, i : Nat, limit : Nat, live : A, ids : B, seen : C,
                        note : Nat, files : F]
    BY RunRecords
  <2>3. photos \in F
    BY <2>1, <2>2
  <2>4. /\ s \in RunType /\ s.pass = one.pass /\ s.i = one.i /\ s.limit = one.limit
        /\ s.ids = one.ids /\ s.seen = one.seen /\ s.note = n /\ s.files = photos
    BY <2>1, <2>2, <2>3, <1>26
  <2>. QED
    BY <2>4, <1>24
<1>28. imp' = s
  BY <1>22, <1>25, <1>26
<1>29. RunInv'
  <2>1. imp.i \in Nat /\ imp.limit <= Len(dump) /\ crashes \in Nat
    BY ImportFacts
  <2>2. imp.i + 1 >= 1 /\ imp.pass # 0
    BY <2>1, <1>2
  <2>. QED
    BY <2>1, <2>2, <1>16, <1>27, <1>28 DEF RunInv
<1>30. IdsRight'
  <2>1. imp'.ids = [imp.ids EXCEPT ![u.ident] = n]
    BY <1>18, <1>27, <1>28
  <2>. QED
    BY <2>1, <1>2, <1>13, <1>15, <1>16, IdsLearn
<1>31. SeenRight' /\ SeenSaid'
  <2>1. \A m \in DOMAIN notes : ThoughtsOf(m)' = ThoughtsOf(m)
    BY <1>15 DEF ThoughtsOf
  <2>2. DOMAIN r.thoughts = {}
    BY <1>13
  <2>3. ThoughtsOf(n)' = {}
    BY <2>2, <1>15 DEF ThoughtsOf
  <2>4. \A m \in DOMAIN notes' : m \notin DOMAIN notes => ThoughtsOf(m)' = {}
    BY <2>3, <1>15
  <2>5. imp'.seen = imp.seen
    BY <1>27, <1>28
  <2>. QED
    BY <2>1, <2>4, <2>5, <1>15, SeenStays
<1>32. Photographed'
  <2>. SUFFICES ASSUME crashes = 0, NEW m \in DOMAIN notes', m \notin DOMAIN FirstNotes,
                       NEW f \in notes'[m].hash[4]
                PROVE  f \in notes'[m].files \/ (imp'.note = m /\ f \in imp'.files)
    BY DEF Photographed
  <2>1. CASE m = n
    BY <2>1, <1>6, <1>7, <1>13, <1>15, <1>25, <1>27, <1>28
  <2>2. CASE m # n
    BY <2>2, <1>2, <1>15 DEF ImportInv, Photographed
  <2>. QED
    BY <2>1, <2>2
<1>33. Noted(h)' /\ Says(u.body)'
  BY <1>6, <1>13, <1>15, <1>16 DEF Noted, Says
<1>34. PICK d : d = Does(u)
  OBVIOUS
<1>35. Does(u)' = d /\ d \in {"create", "append"}
  BY <1>3, <1>34, DumpFixed
<1>36. FirstDone(u)' /\ SecondDone(u)'
  BY <1>6, <1>33, <1>35 DEF FirstDone, SecondDone, sha256
<1>37. Progress'
  BY <1>1, <1>15, <1>27, <1>28, <1>36, ProgressSteps
<1>38. Accounted'
  BY <1>15, AccountedKeeps DEF ImportInv
<1>. QED
  BY <1>15, <1>29, <1>30, <1>31, <1>32, <1>37, <1>38 DEF ImportInv

LEMMA CreateUnitKeeps ==
  ASSUME ImportAssumption, ImportInv, CreateUnit
  PROVE  ImportInv'
<1>1. /\ Running(1) /\ ThisPlan.does = "create" /\ dump' = dump /\ held' = held
      /\ whole' = whole /\ crashes' = crashes
  BY DEF CreateUnit
<1>2. PICK n : n = note_by_content_hash(sha256(ThisUnit))
  OBVIOUS
<1>3. CASE n # 0
  <2>1. imp' = [NextUnit EXCEPT !.ids = Learn(ThisUnit, n)] /\ notes' = notes
    BY <1>2, <1>3 DEF CreateUnit
  <2>. QED
    BY <1>1, <1>2, <1>3, <2>1, LearnKeeps
<1>4. CASE n = 0
  <2>1. Created(ThisPlan, NextUnit)
    BY <1>2, <1>4 DEF CreateUnit
  <2>2. ThisPlan = OwnPlan(ThisUnit, imp.live)
    BY <1>1, UnitAtHand
  <2>. QED
    BY <1>1, <1>2, <1>4, <2>1, <2>2, CreatedKeeps
<1>. QED
  BY <1>3, <1>4

LEMMA FallbackKeeps ==
  ASSUME ImportAssumption, ImportInv, Fallback
  PROVE  ImportInv'
<1>1. /\ Running(2) /\ ThisPlan.does = "append" /\ dump' = dump /\ held' = held
      /\ whole' = whole /\ crashes' = crashes
      /\ note_by_content_hash(sha256(ThisUnit)) = 0
      /\ Created(OwnPlan(ThisUnit, imp.live), NextUnit)
  BY DEF Fallback
<1>. QED
  BY <1>1, CreatedKeeps

LEMMA AlreadyOwnNoteKeeps ==
  ASSUME ImportAssumption, ImportInv, AlreadyOwnNote
  PROVE  ImportInv'
<1>1. /\ Running(2) /\ ThisPlan.does = "append" /\ dump' = dump /\ held' = held
      /\ whole' = whole /\ crashes' = crashes /\ notes' = notes
  BY DEF AlreadyOwnNote, libraryVars
<1>2. PICK n : n = note_by_content_hash(sha256(ThisUnit))
  OBVIOUS
<1>3. n # 0 /\ imp' = [NextUnit EXCEPT !.ids = Learn(ThisUnit, n)]
  BY <1>2 DEF AlreadyOwnNote
<1>. QED
  BY <1>1, <1>2, <1>3, LearnKeeps

\* A file of the note at hand is attached.
LEMMA _attachKeeps ==
  ASSUME ImportAssumption, ImportInv, NEW f, _attach(f)
  PROVE  ImportInv'
<1>1. /\ dump' = dump /\ held' = held /\ whole' = whole /\ crashes' = crashes
      /\ imp.pass # 0 /\ f \in imp.files
      /\ notes' = [notes EXCEPT ![imp.note].files = @ \union {f}, ![imp.note].updated = "now"]
      /\ imp' = [imp EXCEPT !.files = @ \ {f}]
  BY DEF _attach
<1>2. PICK n : n = imp.note
  OBVIOUS
<1>3. n \in DOMAIN notes /\ notes \in Seq(Note) /\ f \in STRING
  <2>1. imp.files # {} /\ imp.files \in SUBSET STRING
    BY <1>1, ImportFacts DEF RunType
  <2>. QED
    BY <1>1, <1>2, <2>1, ImportFacts DEF ImportInv, RunInv
<1>4. PICK r : r = [notes[n] EXCEPT !.files = @ \union {f}, !.updated = "now"]
  OBVIOUS
<1>5. /\ r \in Note /\ r.body = notes[n].body /\ r.hash = notes[n].hash
      /\ r.thoughts = notes[n].thoughts /\ r.files = notes[n].files \union {f}
  <2>1. PICK o : o = notes[n]
    OBVIOUS
  <2>2. PICK H : H = {NoHash} \union Digest
    OBVIOUS
  <2>3. PICK F, S : F = SUBSET STRING /\ S = Seq(STRING)
    OBVIOUS
  <2>4. Note = [title : STRING, body : STRING, status : {"inbox", "active", "archived"},
                area : 0 .. Len(Areas), hash : H, thoughts : S, files : F, updated : Dates]
    BY <2>2, <2>3 DEF Note
  <2>5. o \in Note /\ "now" \in Dates
    BY <1>3, <2>1 DEF Dates
  <2>6. PICK files : files = o.files \union {f}
    OBVIOUS
  <2>7. files \in F
    <3>1. o.files \in F
      BY <2>4, <2>5
    <3>. QED
      BY <3>1, <2>3, <2>6, <1>3
  <2>8. r = [o EXCEPT !.files = files, !.updated = "now"]
    BY <1>4, <2>1, <2>6
  <2>9. /\ r \in Note /\ r.body = o.body /\ r.hash = o.hash
        /\ r.thoughts = o.thoughts /\ r.files = files
    BY <2>4, <2>5, <2>7, <2>8
  <2>. QED
    BY <2>1, <2>6, <2>9
<1>6. notes' = [notes EXCEPT ![n] = r]
  BY <1>1, <1>2, <1>3, <1>4
<1>7. /\ DOMAIN notes' = DOMAIN notes /\ notes' \in Seq(Note) /\ notes'[n] = r
      /\ \A m \in DOMAIN notes : m # n => notes'[m] = notes[m]
  <2>1. notes' \in Seq(Note)
    BY <1>3, <1>5, <1>6
  <2>. QED
    BY <2>1, <1>3, <1>6
<1>8. \A m \in DOMAIN notes :
        /\ notes'[m].body = notes[m].body /\ notes'[m].hash = notes[m].hash
        /\ notes'[m].thoughts = notes[m].thoughts
        /\ notes[m].files \subseteq notes'[m].files
  BY <1>5, <1>7
<1>9. /\ RowsInv' /\ NotesGrow
      /\ \A m \in DOMAIN notes : ThoughtsOf(m)' = ThoughtsOf(m)
  BY <1>1, <1>7, <1>8, TouchedKeeps DEF ImportInv
<1>10. PICK s : s = [imp EXCEPT !.files = @ \ {f}]
  OBVIOUS
<1>11. /\ s \in RunType /\ s.pass = imp.pass /\ s.i = imp.i /\ s.limit = imp.limit
       /\ s.ids = imp.ids /\ s.seen = imp.seen /\ s.note = n /\ s.files = imp.files \ {f}
  <2>1. PICK o : o = imp
    OBVIOUS
  <2>2. o \in RunType
    BY <2>1, ImportFacts
  <2>3. PICK x : x = o.files \ {f}
    OBVIOUS
  <2>4. PICK A, B, C, F :
          /\ A = SUBSET (DOMAIN Areas) /\ B = [Idents -> Nat]
          /\ C = [Idents -> [read : BOOLEAN, bodies : SUBSET STRING]] /\ F = SUBSET STRING
          /\ RunType = [pass : 0 .. 2, i : Nat, limit : Nat, live : A, ids : B, seen : C,
                        note : Nat, files : F]
    BY RunRecords
  <2>5. x \in F
    BY <2>2, <2>3, <2>4
  <2>6. s = [o EXCEPT !.files = x]
    BY <1>10, <2>1, <2>3
  <2>7. /\ s \in RunType /\ s.pass = o.pass /\ s.i = o.i /\ s.limit = o.limit
        /\ s.ids = o.ids /\ s.seen = o.seen /\ s.note = o.note /\ s.files = x
    BY <2>2, <2>4, <2>5, <2>6
  <2>. QED
    BY <1>2, <2>1, <2>3, <2>7
<1>12. imp' = s
  BY <1>1, <1>10
<1>13. RunInv'
  <2>1. s.pass # 0 /\ s.i >= 1 /\ s.limit <= Len(dump) /\ s.note \in DOMAIN notes'
    BY <1>1, <1>3, <1>7, <1>11 DEF ImportInv, RunInv
  <2>. QED
    BY <2>1, <1>1, <1>11, <1>12, ImportFacts DEF RunInv
<1>14. IdsRight'
  BY <1>9, <1>11, <1>12, IdsStay
<1>15. SeenRight' /\ SeenSaid'
  BY <1>1, <1>7, <1>9, <1>11, <1>12, SeenStays
<1>16. Photographed'
  <2>. SUFFICES ASSUME crashes' = 0, NEW m \in DOMAIN notes', m \notin DOMAIN FirstNotes,
                       NEW g \in notes'[m].hash[4]
                PROVE  g \in notes'[m].files \/ (imp'.note = m /\ g \in imp'.files)
    BY DEF Photographed
  <2>1. m \in DOMAIN notes /\ g \in notes[m].hash[4] /\ crashes = 0
    BY <1>1, <1>7, <1>8
  <2>2. g \in notes[m].files \/ (n = m /\ g \in imp.files)
    BY <2>1, <1>2 DEF ImportInv, Photographed
  <2>. QED
    BY <2>1, <2>2, <1>5, <1>7, <1>8, <1>11, <1>12
<1>17. Progress'
  BY <1>1, <1>9, <1>11, <1>12, ProgressStays
<1>18. Accounted'
  BY <1>1, <1>9, AccountedKeeps DEF ImportInv
<1>. QED
  BY <1>9, <1>13, <1>14, <1>15, <1>16, <1>17, <1>18 DEF ImportInv

\* The first pass is over: everything it had to do is done.
LEMMA SecondPassKeeps ==
  ASSUME ImportAssumption, ImportInv, SecondPass
  PROVE  ImportInv'
<1>1. /\ dump' = dump /\ notes' = notes /\ held' = held /\ whole' = whole
      /\ crashes' = crashes /\ imp.pass = 1 /\ imp.files = {} /\ imp.i > imp.limit
      /\ imp' = [imp EXCEPT !.pass = 2, !.i = 1]
  BY DEF SecondPass, libraryVars
<1>2. RowsInv' /\ NotesGrow
  BY <1>1, SameRows
<1>3. PICK s : s = [imp EXCEPT !.pass = 2, !.i = 1]
  OBVIOUS
<1>4. /\ s \in RunType /\ s.pass = 2 /\ s.i = 1 /\ s.limit = imp.limit
      /\ s.live = imp.live /\ s.ids = imp.ids /\ s.seen = imp.seen
      /\ s.note = imp.note /\ s.files = imp.files
  <2>1. PICK r : r = imp
    OBVIOUS
  <2>2. r \in RunType /\ 2 \in 0 .. 2 /\ 1 \in Nat
    BY <2>1, ImportFacts
  <2>3. PICK q : q = [r EXCEPT !.pass = 2]
    OBVIOUS
  <2>5. s = [q EXCEPT !.i = 1]
    BY <2>1, <2>3, <1>3
  <2>4. /\ s \in RunType /\ s.pass = 2 /\ s.i = 1 /\ s.limit = r.limit
        /\ s.live = r.live /\ s.ids = r.ids /\ s.seen = r.seen
        /\ s.note = r.note /\ s.files = r.files
    <3>1. PICK A, B, C, F :
            /\ A = SUBSET (DOMAIN Areas) /\ B = [Idents -> Nat]
            /\ C = [Idents -> [read : BOOLEAN, bodies : SUBSET STRING]] /\ F = SUBSET STRING
            /\ RunType = [pass : 0 .. 2, i : Nat, limit : Nat, live : A, ids : B, seen : C,
                          note : Nat, files : F]
      BY RunRecords
    <3>2. /\ q \in RunType /\ q.pass = 2 /\ q.limit = r.limit
          /\ q.live = r.live /\ q.ids = r.ids /\ q.seen = r.seen
          /\ q.note = r.note /\ q.files = r.files
      BY <2>2, <2>3, <3>1
    <3>3. /\ s \in RunType /\ s.pass = q.pass /\ s.i = 1 /\ s.limit = q.limit
          /\ s.live = q.live /\ s.ids = q.ids /\ s.seen = q.seen
          /\ s.note = q.note /\ s.files = q.files
      <4>1. q \in RunType /\ 1 \in Nat
        BY <3>2
      <4>. QED
        BY ONLY <4>1, <2>5, RunMoved
    <3>. QED
      BY <3>2, <3>3
  <2>. QED
    BY <2>1, <2>4
<1>5. imp' = s
  BY <1>1, <1>3
<1>6. RunInv'
  <2>1. imp.limit <= Len(dump) /\ crashes \in Nat
    BY DEF ImportInv, RunInv
  <2>2. imp' \in RunType /\ imp'.pass = 2 /\ imp'.i = 1 /\ imp'.limit = imp.limit
        /\ imp'.files = {}
    BY <1>1, <1>4, <1>5
  <2>3. dump' = dump /\ crashes' = crashes
    BY <1>1
  <2>. QED
    BY ONLY <2>1, <2>2, <2>3 DEF RunInv
<1>7. IdsRight'
  BY <1>2, <1>4, <1>5, IdsStay
<1>8. SeenRight' /\ SeenSaid'
  BY <1>1, <1>2, <1>4, <1>5, SameRows, SeenStays
<1>9. Photographed'
  BY <1>1, PhotosDone
<1>10. Progress'
  <2>1. \A j \in DOMAIN dump : j \in Nat /\ j >= 1
    BY ImportFacts, UnitsTyped
  <2>2. imp.i \in Nat /\ imp.limit \in Nat
    BY ImportFacts
  <2>3. ASSUME NEW j \in DOMAIN dump, j <= imp.limit
        PROVE  FirstDone(dump[j])'
    <3>1. PICK v : v = dump[j]
      OBVIOUS
    <3>2. j < imp.i
      BY <2>1, <2>2, <2>3, <1>1
    <3>3. FirstDone(v)
      BY <3>1, <3>2, <1>1 DEF ImportInv, Progress
    <3>4. FirstDone(v)'
      BY <3>3, <1>1, <1>2, GrowKeeps
    <3>5. dump'[j] = v
      BY <3>1, <1>1
    <3>. QED
      BY <3>4, <3>5 DEF FirstDone
  <2>. QED
    BY <2>1, <2>3, <1>1, <1>4, <1>5 DEF Progress
<1>11. Accounted'
  BY <1>1, <1>2, AccountedKeeps DEF ImportInv
<1>. QED
  BY <1>2, <1>6, <1>7, <1>8, <1>9, <1>10, <1>11 DEF ImportInv

\* A task is said on the note it mirrors.
LEMMA _append_mirrorKeeps ==
  ASSUME ImportAssumption, ImportInv, _append_mirror
  PROVE  ImportInv'
<1>1. /\ Running(2) /\ ThisPlan.does = "append" /\ dump' = dump /\ held' = held
      /\ whole' = whole /\ crashes' = crashes
  BY DEF _append_mirror
<1>2. PICK u : u = dump[imp.i]
  OBVIOUS
<1>3. /\ imp.pass = 2 /\ u \in Units /\ ThisUnit = u /\ Does(u) = "append"
      /\ u \in Unit /\ imp.files = {}
  BY <1>1, <1>2, UnitAtHand, ImportFacts
<1>4. Mirrors(u) /\ ~Quarantined(u) /\ u.body \in STRING /\ u.photos \in SUBSET STRING
  BY <1>3 DEF Does, Unit
<1>5. PICK t : t = PairTarget(u)
  OBVIOUS
<1>6. t \in Units /\ t \in Targets /\ t.ident \in Idents
  BY <1>3, <1>4, <1>5, PairTargetFound, ImportFacts
<1>7. PICK n : n = _target_note_id(t)
  OBVIOUS
<1>8. PICK bodies : bodies = _entry_bodies(t, n)
  OBVIOUS
<1>9. n # 0
  BY <1>3, <1>5, <1>7 DEF _append_mirror
<1>10. n \in DOMAIN notes /\ notes[n].hash = sha256(t)
  <2>1. CASE imp.ids[t.ident] # 0
    BY <2>1, <1>6, <1>7 DEF _target_note_id, ImportInv, IdsRight
  <2>2. CASE imp.ids[t.ident] = 0
    BY <2>2, <1>7, <1>9, NoteByHash, ImportFacts DEF _target_note_id
  <2>. QED
    BY <2>1, <2>2
<1>11. n \notin DOMAIN FirstNotes
  BY <1>6, <1>10, ImportFacts, DigestTyped DEF ImportInv, RowsInv, NotesOK
<1>12. PICK x : x = bodies \union {u.body}
  OBVIOUS
<1>13. PICK seen : seen = [imp.seen EXCEPT ![t.ident] = [read |-> TRUE, bodies |-> x]]
  OBVIOUS
<1>14. PICK next : next = NextUnit
  OBVIOUS
<1>15. \/ /\ u.body \in bodies \union NoText /\ notes' = notes
          /\ imp' = [next EXCEPT !.seen = seen]
       \/ /\ u.body \notin bodies \union NoText
          /\ notes' = [notes EXCEPT ![n].thoughts = Append(@, u.body), ![n].updated = "now"]
          /\ imp' = [next EXCEPT !.seen = seen, !.note = n, !.files = u.photos]
  <2>1. Remember(t, bodies \union {u.body}) = seen
    BY <1>12, <1>13 DEF Remember
  <2>. QED
    BY <2>1, <1>3, <1>5, <1>7, <1>8, <1>14 DEF _append_mirror
<1>16. ThoughtsOf(n) \subseteq STRING /\ notes[n] \in Note
  <2>1. notes[n] \in Note
    BY <1>10, ImportFacts
  <2>2. PICK o, said : o = notes[n] /\ said = o.thoughts
    OBVIOUS
  <2>3. said \in Seq(STRING)
    BY <2>1, <2>2 DEF Note
  <2>4. \A k \in DOMAIN said : said[k] \in STRING
    BY <2>3
  <2>5. ThoughtsOf(n) = {said[k] : k \in DOMAIN said}
    BY <2>2 DEF ThoughtsOf
  <2>. QED
    BY <2>1, <2>4, <2>5
<1>17. bodies \subseteq STRING
  BY <1>6, <1>8, <1>16, ImportFacts DEF _entry_bodies
<1>18. \A b \in bodies : b = Blank \/ Says(b)
  <2>1. CASE imp.seen[t.ident].read
    BY <2>1, <1>6, <1>8 DEF _entry_bodies, ImportInv, SeenSaid
  <2>2. CASE ~imp.seen[t.ident].read
    BY <2>2, <1>8, <1>10 DEF _entry_bodies, Says
  <2>. QED
    BY <2>1, <2>2
<1>19. TwinTargets \/ ThoughtsOf(n) \subseteq bodies
  <2>1. CASE imp.seen[t.ident].read
    BY <2>1, <1>6, <1>8, <1>10 DEF _entry_bodies, ImportInv, SeenRight
  <2>2. CASE ~imp.seen[t.ident].read
    BY <2>2, <1>8 DEF _entry_bodies
  <2>. QED
    BY <2>1, <2>2
<1>20. seen \in [Idents -> [read : BOOLEAN, bodies : SUBSET STRING]]
  <2>1. PICK F : F = SUBSET STRING
    OBVIOUS
  <2>2. x \in F
    BY <2>1, <1>4, <1>12, <1>17
  <2>3. [read |-> TRUE, bodies |-> x] \in [read : BOOLEAN, bodies : F]
    BY <2>2
  <2>4. imp.seen \in [Idents -> [read : BOOLEAN, bodies : F]]
    BY <2>1, ImportFacts
  <2>5. seen \in [Idents -> [read : BOOLEAN, bodies : F]]
    BY <2>3, <2>4, <1>6, <1>13
  <2>. QED
    BY <2>1, <2>5
<1>21. /\ seen[t.ident].read /\ seen[t.ident].bodies = x
       /\ \A k \in Idents : k # t.ident => seen[k] = imp.seen[k]
  BY <1>6, <1>13, ImportFacts
<1>22. /\ next \in RunType /\ next.pass = imp.pass /\ next.i = imp.i + 1
       /\ next.limit = imp.limit /\ next.ids = imp.ids /\ next.files = imp.files
  BY <1>14, NextUnitTyped
<1>23. /\ imp' \in RunType /\ imp'.pass = imp.pass /\ imp'.i = imp.i + 1
       /\ imp'.limit = imp.limit /\ imp'.ids = imp.ids /\ imp'.seen = seen
       /\ imp'.files # {} => imp'.note = n /\ imp'.files = u.photos
       /\ u.body \in bodies \union NoText => imp'.files = {}
  <2>1. PICK A, B, C, F :
          /\ A = SUBSET (DOMAIN Areas) /\ B = [Idents -> Nat]
          /\ C = [Idents -> [read : BOOLEAN, bodies : SUBSET STRING]] /\ F = SUBSET STRING
          /\ RunType = [pass : 0 .. 2, i : Nat, limit : Nat, live : A, ids : B, seen : C,
                        note : Nat, files : F]
    BY RunRecords
  <2>2. PICK photos : photos = u.photos
    OBVIOUS
  <2>3. seen \in C /\ photos \in F /\ n \in Nat
    BY <2>1, <2>2, <1>4, <1>10, <1>20, ImportFacts
  <2>4. CASE u.body \in bodies \union NoText
    <3>1. imp' = [next EXCEPT !.seen = seen]
      BY <2>4, <1>15
    <3>2. /\ imp' \in RunType /\ imp'.pass = next.pass /\ imp'.i = next.i
          /\ imp'.limit = next.limit /\ imp'.ids = next.ids /\ imp'.seen = seen
          /\ imp'.files = next.files
      BY <2>1, <2>3, <3>1, <1>22
    <3>. QED
      BY <3>2, <1>22, <1>3
  <2>5. CASE u.body \notin bodies \union NoText
    <3>1. imp' = [next EXCEPT !.seen = seen, !.note = n, !.files = photos]
      BY <2>5, <2>2, <1>15
    <3>2. /\ imp' \in RunType /\ imp'.pass = next.pass /\ imp'.i = next.i
          /\ imp'.limit = next.limit /\ imp'.ids = next.ids /\ imp'.seen = seen
          /\ imp'.files = photos /\ imp'.note = n
      BY <2>1, <2>3, <3>1, <1>22
    <3>. QED
      BY <2>5, <3>2, <2>2, <1>22
  <2>. QED
    BY <2>4, <2>5
<1>24. /\ RowsInv' /\ NotesGrow /\ DOMAIN notes' = DOMAIN notes
       /\ \A m \in DOMAIN notes : /\ ThoughtsOf(m)' \subseteq ThoughtsOf(m) \union {u.body}
                                  /\ m # n => ThoughtsOf(m)' = ThoughtsOf(m)
                                  /\ notes'[m].hash = notes[m].hash
                                  /\ notes'[m].files = notes[m].files
       /\ u.body = Blank \/ Says(u.body)'
  <2>1. CASE u.body \in bodies \union NoText
    <3>1. notes' = notes
      BY <2>1, <1>15
    <3>2. RowsInv' /\ NotesGrow
      BY <3>1, <1>1, SameRows
    <3>3. \A m \in DOMAIN notes : ThoughtsOf(m)' = ThoughtsOf(m)
      BY <3>1, <1>1, SameRows
    <3>4. u.body = Blank \/ Says(u.body)'
      <4>1. u.body = Blank \/ Says(u.body)
        BY <2>1, <1>18 DEF NoText
      <4>. QED
        BY <4>1, <3>2, <1>1, GrowKeeps
    <3>. QED
      BY <3>1, <3>2, <3>3, <3>4
  <2>2. CASE u.body \notin bodies \union NoText
    <3>1. notes' = [notes EXCEPT ![n].thoughts = Append(@, u.body), ![n].updated = "now"]
      BY <2>2, <1>15
    <3>2. PICK text : text = u.body
      OBVIOUS
    <3>3. PICK r : r = [notes[n] EXCEPT !.thoughts = Append(@, text), !.updated = "now"]
      OBVIOUS
    <3>4. /\ r \in Note /\ r.body = notes[n].body /\ r.hash = notes[n].hash
          /\ r.files = notes[n].files /\ r.thoughts = Append(notes[n].thoughts, text)
      <4>1. PICK o : o = notes[n]
        OBVIOUS
      <4>2. PICK H : H = {NoHash} \union Digest
        OBVIOUS
      <4>3. PICK F, S : F = SUBSET STRING /\ S = Seq(STRING)
        OBVIOUS
      <4>4. Note = [title : STRING, body : STRING, status : {"inbox", "active", "archived"},
                    area : 0 .. Len(Areas), hash : H, thoughts : S, files : F, updated : Dates]
        BY <4>2, <4>3 DEF Note
      <4>5. o \in Note /\ "now" \in Dates
        BY <1>16, <4>1 DEF Dates
      <4>6. PICK said : said = Append(o.thoughts, text)
        OBVIOUS
      <4>7. said \in S
        <5>1. o.thoughts \in S
          BY <4>4, <4>5
        <5>2. text \in STRING
          BY <3>2, <1>4
        <5>. QED
          BY <5>1, <5>2, <4>3, <4>6
      <4>8. r = [o EXCEPT !.thoughts = said, !.updated = "now"]
        BY <3>3, <4>1, <4>6
      <4>9. /\ r \in Note /\ r.body = o.body /\ r.hash = o.hash
            /\ r.files = o.files /\ r.thoughts = said
        BY <4>4, <4>5, <4>7, <4>8
      <4>. QED
        BY <4>1, <4>6, <4>9
    <3>5. notes' = [notes EXCEPT ![n] = r]
      BY <3>1, <3>2, <3>3, <1>10, ImportFacts
    <3>6. /\ DOMAIN notes' = DOMAIN notes /\ notes' \in Seq(Note) /\ notes'[n] = r
          /\ \A m \in DOMAIN notes : m # n => notes'[m] = notes[m]
      <4>1. notes \in Seq(Note)
        BY ImportFacts
      <4>2. notes' \in Seq(Note)
        BY <4>1, <3>4, <3>5, <1>10
      <4>. QED
        BY <4>1, <4>2, <3>5, <1>10
    <3>7. \A m \in DOMAIN notes :
            /\ notes'[m].body = notes[m].body /\ notes'[m].hash = notes[m].hash
            /\ notes'[m].files = notes[m].files
            /\ m # n => notes'[m].thoughts = notes[m].thoughts
      BY <3>4, <3>6
    <3>8. text \in STRING /\ text \notin Secrets
      BY <3>2, <1>4 DEF Quarantined
    <3>9. TwinTargets \/ text \notin ThoughtsOf(n)
      BY <2>2, <3>2, <1>19
    <3>10. notes'[n].thoughts = Append(notes[n].thoughts, text)
      BY <3>4, <3>6
    <3>11. RowsInv
      BY DEF ImportInv
    <3>12. /\ RowsInv' /\ NotesGrow
           /\ ThoughtsOf(n)' = ThoughtsOf(n) \union {text}
           /\ \A m \in DOMAIN notes : m # n => ThoughtsOf(m)' = ThoughtsOf(m)
      BY <3>6, <3>7, <3>8, <3>9, <3>10, <3>11, <1>1, <1>10, <1>11, SpokenKeeps
    <3>13. Says(u.body)'
      BY <3>2, <3>6, <3>12, <1>10 DEF Says
    <3>. QED
      BY <3>2, <3>6, <3>7, <3>12, <3>13
  <2>. QED
    BY <2>1, <2>2
<1>25. RunInv'
  <2>1. imp.i \in Nat /\ imp.limit <= Len(dump) /\ crashes \in Nat
    BY ImportFacts
  <2>2. imp.i + 1 >= 1 /\ imp.pass # 0
    BY <2>1, <1>3
  <2>. QED
    BY <2>1, <2>2, <1>1, <1>10, <1>23, <1>24 DEF RunInv
<1>26. IdsRight'
  BY <1>23, <1>24, IdsStay
<1>27. SeenRight'
  <2>1. Targets' = Targets /\ TwinTargets' = TwinTargets
    BY <1>1, DumpFixed
  <2>. SUFFICES ASSUME ~TwinTargets, NEW v \in Targets, seen[v.ident].read,
                       NEW m \in DOMAIN notes, notes[m].hash = sha256(v)
                PROVE  ThoughtsOf(m)' \subseteq seen[v.ident].bodies
    BY <2>1, <1>23, <1>24 DEF SeenRight, sha256
  <2>2. v \in Units /\ v.ident \in Idents
    BY ImportFacts
  <2>3. CASE v = t
    <3>1. m = n
      BY <2>3, <1>6, <1>10, ImportFacts, DigestTyped DEF ImportInv, RowsInv, HashOnce
    <3>2. ThoughtsOf(m) \subseteq bodies
      BY <3>1, <1>19
    <3>. QED
      BY <3>2, <2>3, <1>12, <1>21, <1>24
  <2>4. CASE v # t
    <3>1. sha256(v) # sha256(t)
      BY <2>4, <1>6 DEF TwinTargets
    <3>2. m # n
      BY <3>1, <1>10
    <3>3. v.ident # t.ident
      BY <2>2, <2>4, <1>6, ImportFacts, UnitsTyped
    <3>4. seen[v.ident] = imp.seen[v.ident]
      BY <3>3, <2>2, <1>21
    <3>5. ThoughtsOf(m) \subseteq imp.seen[v.ident].bodies
      BY <3>4 DEF ImportInv, SeenRight
    <3>. QED
      BY <3>2, <3>4, <3>5, <1>24
  <2>. QED
    BY <2>3, <2>4
<1>28. SeenSaid'
  <2>. SUFFICES ASSUME NEW k \in Idents, NEW b \in seen[k].bodies
                PROVE  b = Blank \/ Says(b)'
    BY <1>23 DEF SeenSaid
  <2>1. CASE b = u.body
    BY <2>1, <1>24
  <2>2. CASE b # u.body
    <3>1. b = Blank \/ Says(b)
      <4>1. CASE k = t.ident
        BY <4>1, <2>2, <1>12, <1>18, <1>21
      <4>2. CASE k # t.ident
        BY <4>2, <1>21 DEF ImportInv, SeenSaid
      <4>. QED
        BY <4>1, <4>2
    <3>. QED
      BY <3>1, <1>1, <1>24, GrowKeeps
  <2>. QED
    BY <2>1, <2>2
<1>29. Photographed'
  <2>. SUFFICES ASSUME crashes' = 0, NEW m \in DOMAIN notes', m \notin DOMAIN FirstNotes,
                       NEW g \in notes'[m].hash[4]
                PROVE  g \in notes'[m].files
    BY DEF Photographed
  <2>1. m \in DOMAIN notes /\ g \in notes[m].hash[4] /\ crashes = 0
    BY <1>1, <1>24
  <2>2. g \in notes[m].files
    BY <2>1, <1>3 DEF ImportInv, Photographed
  <2>. QED
    BY <2>1, <2>2, <1>24
<1>30. SecondDone(u)'
  BY <1>24 DEF SecondDone
<1>31. Progress'
  BY <1>1, <1>2, <1>3, <1>23, <1>24, <1>30, ProgressSteps
<1>32. Accounted'
  BY <1>1, <1>24, AccountedKeeps DEF ImportInv
<1>. QED
  BY <1>24, <1>25, <1>26, <1>27, <1>28, <1>29, <1>31, <1>32 DEF ImportInv

\* An import's step, and the owner at the library meanwhile.
LEMMA ImportStepKeeps ==
  ASSUME ImportAssumption, ImportInv, ImportStep
  PROVE  ImportInv'
<1>1. ASSUME NEW limit \in (Slices \intersect 1 .. Len(dump)) \union {Len(dump)},
             import_source(limit)
      PROVE  ImportInv'
  <2>1. limit \in 1 .. Len(dump)
    BY ImportFacts, UnitsTyped
  <2>. QED
    BY <1>1, <2>1, import_sourceKeeps
<1>2. ASSUME NEW f \in imp.files, _attach(f)
      PROVE  ImportInv'
  BY <1>2, _attachKeeps
<1>. QED
  BY <1>1, <1>2, PassOverKeeps, quarantine_unitKeeps, CreateUnitKeeps, SecondPassKeeps,
     AlreadyOwnNoteKeeps, FallbackKeeps, _append_mirrorKeeps, RunEndsKeeps, ImportCrashKeeps
     DEF ImportStep

\* The run is not touched, and no text, digest, Thought or file of a note.
LEMMA RunUntouched ==
  ASSUME ImportAssumption, ImportInv, UNCHANGED <<dump, held, imp, crashes, whole>>,
         DOMAIN notes' = DOMAIN notes, notes' \in Seq(Note),
         \A m \in DOMAIN notes :
           /\ notes'[m].body = notes[m].body /\ notes'[m].hash = notes[m].hash
           /\ notes'[m].thoughts = notes[m].thoughts /\ notes'[m].files = notes[m].files
  PROVE  ImportInv'
<1>1. /\ dump' = dump /\ held' = held /\ imp' = imp /\ crashes' = crashes /\ whole' = whole
  OBVIOUS
<1>2. \A m \in DOMAIN notes : notes[m].files \subseteq notes'[m].files
  OBVIOUS
<1>3. /\ RowsInv' /\ NotesGrow
      /\ \A m \in DOMAIN notes : ThoughtsOf(m)' = ThoughtsOf(m)
  BY <1>1, <1>2, TouchedKeeps DEF ImportInv
<1>4. RunInv'
  BY <1>1 DEF ImportInv, RunInv
<1>5. IdsRight'
  BY <1>1, <1>3, IdsStay
<1>6. SeenRight' /\ SeenSaid'
  BY <1>1, <1>3, SeenStays
<1>7. Photographed'
  <2>. SUFFICES ASSUME crashes' = 0, NEW m \in DOMAIN notes', m \notin DOMAIN FirstNotes,
                       NEW g \in notes'[m].hash[4]
                PROVE  g \in notes'[m].files \/ (imp'.note = m /\ g \in imp'.files)
    BY DEF Photographed
  <2>1. m \in DOMAIN notes /\ g \in notes[m].hash[4] /\ crashes = 0
    BY <1>1
  <2>2. g \in notes[m].files \/ (imp.note = m /\ g \in imp.files)
    BY <2>1 DEF ImportInv, Photographed
  <2>. QED
    BY <2>1, <2>2, <1>1
<1>8. Progress'
  BY <1>1, <1>3, ProgressStays
<1>9. Accounted'
  BY <1>1, <1>3, AccountedKeeps DEF ImportInv
<1>. QED
  BY <1>3, <1>4, <1>5, <1>6, <1>7, <1>8, <1>9 DEF ImportInv

LEMMA NotesUntouched ==
  ASSUME ImportAssumption, ImportInv, UNCHANGED <<dump, notes, held, imp, crashes, whole>>
  PROVE  ImportInv'
<1>1. notes' = notes /\ notes \in Seq(Note)
  BY ImportFacts
<1>. QED
  BY <1>1, RunUntouched

LEMMA OwnerKeeps ==
  ASSUME ImportAssumption, ImportInv, Owner
  PROVE  ImportInv'
<1>1. UNCHANGED <<dump, held, imp, crashes, whole>>
  BY DEF Owner, ArchiveNote, Relate, RetireArea, OwnerOp
<1>2. ASSUME NEW n \in DOMAIN notes, ArchiveNote(n)
      PROVE  ImportInv'
  <2>1. notes' = [notes EXCEPT ![n].status = "archived", ![n].updated = "now"]
    BY <1>2 DEF ArchiveNote
  <2>2. PICK r : r = [notes[n] EXCEPT !.status = "archived", !.updated = "now"]
    OBVIOUS
  <2>3. notes \in Seq(Note) /\ notes[n] \in Note
    BY ImportFacts
  <2>4. /\ r \in Note /\ r.body = notes[n].body /\ r.hash = notes[n].hash
        /\ r.thoughts = notes[n].thoughts /\ r.files = notes[n].files
    <3>1. PICK o : o = notes[n]
      OBVIOUS
    <3>2. PICK H : H = {NoHash} \union Digest
      OBVIOUS
    <3>3. PICK F, S : F = SUBSET STRING /\ S = Seq(STRING)
      OBVIOUS
    <3>4. Note = [title : STRING, body : STRING, status : {"inbox", "active", "archived"},
                  area : 0 .. Len(Areas), hash : H, thoughts : S, files : F, updated : Dates]
      BY <3>2, <3>3 DEF Note
    <3>5. o \in Note /\ "now" \in Dates
      BY <2>3, <3>1 DEF Dates
    <3>6. r = [o EXCEPT !.status = "archived", !.updated = "now"]
      BY <2>2, <3>1
    <3>. QED
      BY <3>1, <3>4, <3>5, <3>6
  <2>5. notes' = [notes EXCEPT ![n] = r]
    BY <2>1, <2>2, <2>3
  <2>6. /\ DOMAIN notes' = DOMAIN notes /\ notes' \in Seq(Note) /\ notes'[n] = r
        /\ \A m \in DOMAIN notes : m # n => notes'[m] = notes[m]
    <3>1. notes' \in Seq(Note)
      BY <2>3, <2>4, <2>5
    <3>. QED
      BY <2>3, <2>5, <3>1
  <2>7. \A m \in DOMAIN notes :
          /\ notes'[m].body = notes[m].body /\ notes'[m].hash = notes[m].hash
          /\ notes'[m].thoughts = notes[m].thoughts /\ notes'[m].files = notes[m].files
    BY <2>4, <2>6
  <2>. QED
    BY <1>1, <2>6, <2>7, RunUntouched
<1>3. ASSUME NEW n \in DOMAIN notes, NEW m \in DOMAIN notes, Relate(n, m)
      PROVE  ImportInv'
  BY <1>1, <1>3, NotesUntouched DEF Relate
<1>4. ASSUME NEW a \in DOMAIN Areas, RetireArea(a)
      PROVE  ImportInv'
  BY <1>1, <1>4, NotesUntouched DEF RetireArea
<1>. QED
  BY <1>2, <1>3, <1>4 DEF Owner

LEMMA ImportInit ==
  ASSUME ImportAssumption, RestoreInit
  PROVE  ImportInv
<1>1. /\ dump \in Dumps /\ notes = FirstNotes /\ imp = NoRun /\ crashes = 0 /\ whole = FALSE
  BY DEF RestoreInit, Init
<1>2. notes \in Seq(Note) /\ \A n \in DOMAIN notes : notes[n].hash = NoHash
  BY <1>1 DEF ImportAssumption
<1>3. RowsInv
  BY <1>1, <1>2 DEF RowsInv, NotesOK, HashOnce, ThoughtOnce, SecretHeld
<1>4. /\ imp \in RunType /\ imp.i = 1 /\ imp.limit = 0 /\ imp.files = {} /\ imp.pass = 0
      /\ imp.ids = [k \in Idents |-> 0] /\ imp.seen = [k \in Idents |-> Unread]
  BY <1>1, NoRunTyped
<1>5. RunInv
  <2>1. Len(dump) >= 0
    BY <1>1, UnitsTyped
  <2>. QED
    BY <1>1, <1>4, <2>1 DEF RunInv
<1>6. \A u \in Units : u.ident \in Idents
  BY <1>1, UnitsTyped DEF Unit
<1>7. Targets \subseteq Units
  BY <1>1, PairTargetFound DEF Targets
<1>8. \A k \in Idents : ~imp.seen[k].read /\ imp.seen[k].bodies = {}
  BY <1>4 DEF Unread
<1>9. IdsRight
  BY <1>4, <1>6 DEF IdsRight
<1>10. SeenRight
  BY <1>6, <1>7, <1>8 DEF SeenRight
<1>11. SeenSaid
  BY <1>8 DEF SeenSaid
<1>12. Photographed
  BY <1>1 DEF Photographed
<1>13. Progress
  BY <1>4 DEF Progress
<1>14. Accounted
  BY <1>1 DEF Accounted
<1>. QED
  BY <1>3, <1>5, <1>9, <1>10, <1>11, <1>12, <1>13, <1>14 DEF ImportInv

LEMMA NextKeepsImport ==
  ASSUME ImportAssumption, ImportInv, [Next]_vars
  PROVE  ImportInv'
<1>1. CASE ImportStep
  BY <1>1, ImportStepKeeps
<1>2. CASE Owner
  BY <1>2, OwnerKeeps
<1>3. CASE UNCHANGED <<libraryVars, importVars>>
  <2>1. UNCHANGED <<dump, notes, held, imp, crashes, whole>>
    BY <1>3 DEF libraryVars, importVars
  <2>. QED
    BY <2>1, NotesUntouched
<1>4. ReadNotes \/ export_zip => UNCHANGED <<libraryVars, importVars>>
  BY DEF ReadNotes, export_zip
<1>5. RestoreStep => UNCHANGED <<libraryVars, importVars>>
  BY DEF RestoreStep, import_export, RestoreArea, RetireRestored, AreasRestored,
     AlreadyRestored, _restore_note, RestoreThought, _restore_attachments,
     _restore_provenance, NotesRestored, _restore_links, RestoreEnds, RestoreCrash,
     Capture, Elsewhere
<1>6. UNCHANGED vars => UNCHANGED <<libraryVars, importVars>>
  BY DEF vars
<1>. QED
  BY <1>1, <1>2, <1>3, <1>4, <1>5, <1>6 DEF Next

-----------------------------------------------------------------------------
(* What holds of every import                                              *)

\* The inductive invariant of the import.
THEOREM ImportInvariant == Spec => []ImportInv
<1>1. RestoreInit => ImportInv
  BY ImportAssumption, ImportInit
<1>2. ImportInv /\ [Next]_vars => ImportInv'
  BY ImportAssumption, NextKeepsImport
<1>. QED
  BY <1>1, <1>2, PTL DEF Spec

\* After a whole run, however often it was cut short before, nothing is missing.
THEOREM ImportAccounted == Spec => []Accounted
<1>1. ImportInv => Accounted
  BY DEF ImportInv
<1>. QED
  BY <1>1, ImportInvariant, PTL

\* No key material comes into the library, not as somebody's Thought.
THEOREM ImportHoldsSecrets == Spec => []SecretHeld
<1>1. ImportInv => SecretHeld
  BY DEF ImportInv, RowsInv
<1>. QED
  BY <1>1, ImportInvariant, PTL

\* However often a dump is imported, no unit is two notes, no note that was there
\* before gains a Thought, and, but for twin targets, no Thought is said twice.
THEOREM ImportedOnce == Spec => []ImportOnce
<1>1. ImportInv => ImportOnce
  <2>. SUFFICES ASSUME ImportInv
                PROVE  ImportOnce
    OBVIOUS
  <2>1. HashOnce /\ NotesOK /\ ThoughtOnce
    BY DEF ImportInv, RowsInv
  <2>. QED
    BY <2>1 DEF ImportOnce, HashOnce, NotesOK, ThoughtOnce
<1>. QED
  BY <1>1, ImportInvariant, PTL
-----------------------------------------------------------------------------
(* The restore: its inductive invariant                                    *)

\* A sequence of whatever it holds; a record of exactly these fields.
IsSeq(s) == s \in Seq({s[k] : k \in DOMAIN s})

IsRow(r) ==
  r = [title |-> r.title, body |-> r.body, status |-> r.status, area |-> r.area,
       hash |-> r.hash, thoughts |-> r.thoughts, files |-> r.files, updated |-> r.updated]

IsArea(a) == a = [name |-> a.name, parent |-> a.parent, archived |-> a.archived]

Docs      == DOMAIN zip.notes
Copies(n) == FoundIn(zip.notes[n])

\* What the export has read, and what it wrote of it.
SnapInv ==
  /\ snap \in Seq(Note) /\ DOMAIN snap \subseteq DOMAIN notes
  /\ \A n, m \in DOMAIN snap : snap[n].hash = snap[m].hash /\ snap[n].hash # NoHash => n = m

ZipInv ==
  /\ IsSeq(zip.notes) /\ IsSeq(zip.areas)
  /\ \A n \in Docs :
       /\ zip.notes[n].id = n /\ zip.notes[n].thoughts \in Seq(STRING)
       /\ ExportId(zip.notes[n]) # NoHash
       /\ \/ zip.notes[n].area = ""
          \/ \E a \in DOMAIN zip.areas : zip.areas[a].name = zip.notes[n].area
  /\ \A n, m \in Docs : ExportId(zip.notes[n]) = ExportId(zip.notes[m]) => n = m

\* The other library: no document is there twice, and a copy is at home.
FreshShape ==
  /\ fresh = [notes |-> fresh.notes, areas |-> fresh.areas, links |-> fresh.links]
  /\ IsSeq(fresh.notes) /\ \A m \in DOMAIN fresh.notes : IsRow(fresh.notes[m])
  /\ IsSeq(fresh.areas) /\ \A a \in DOMAIN fresh.areas : IsArea(fresh.areas[a])

Homeless(d) == \/ d.area = ""
               \/ \E a \in DOMAIN zip.areas : zip.areas[a].name = d.area /\ zip.areas[a].archived

CopyRight(d, m) ==
  LET copy == fresh.notes[m] IN
  /\ copy.body = Back(d.body)
  /\ copy.area # 0 => copy.area \in DOMAIN fresh.areas /\ fresh.areas[copy.area].name = d.area
  /\ copy.area = 0 => Homeless(d)
  /\ copy.status = d.status \/ copy.area = 0

RetiredRight ==
  \A a \in DOMAIN fresh.areas : fresh.areas[a].archived =>
    \E b \in DOMAIN zip.areas : zip.areas[b].archived /\ zip.areas[b].name = fresh.areas[a].name

FreshInv ==
  /\ FreshShape
  /\ \A n \in Docs : \A m, k \in Copies(n) : m = k
  /\ \A n \in Docs : \A m \in Copies(n) : CopyRight(zip.notes[n], m)
  /\ RetiredRight

\* Nothing is taken from the other library, and what comes is no second copy.
FreshGrows ==
  /\ zip' = zip
  /\ \A a \in DOMAIN fresh.areas :
       a \in DOMAIN fresh'.areas /\ fresh'.areas[a].name = fresh.areas[a].name
  /\ \A m \in DOMAIN fresh.notes :
       /\ m \in DOMAIN fresh'.notes
       /\ fresh'.notes[m].hash = fresh.notes[m].hash /\ fresh'.notes[m].body = fresh.notes[m].body
       /\ fresh'.notes[m].area = fresh.notes[m].area
       /\ fresh'.notes[m].status = fresh.notes[m].status
  /\ \A m \in DOMAIN fresh'.notes : m \notin DOMAIN fresh.notes =>
       /\ m = Len(fresh.notes) + 1
       /\ \A n \in Docs : fresh'.notes[m].hash = ExportId(zip.notes[n]) =>
            Copies(n) = {} /\ CopyRight(zip.notes[n], m)'
  /\ fresh.links \subseteq fresh'.links

\* Each phase of a restore stands on what the ones before have done.
Phases == {"off", "areas", "retire", "notes", "contents", "links"}

ResShape ==
  /\ res = [at |-> res.at, i |-> res.i, live |-> res.live, map |-> res.map, note |-> res.note,
            thoughts |-> res.thoughts, files |-> res.files]
  /\ res.at \in Phases /\ res.i \in Nat /\ res.i >= 1
  /\ res.at # "off" => DOMAIN res.map = Docs /\ res.map = [n \in Docs |-> res.map[n]]

AreasInv ==
  /\ res.at \in {"areas", "retire"} =>
       \A b \in DOMAIN zip.areas : b < res.i => FreshNamed(zip.areas[b].name) # {}
  /\ res.at = "retire" =>
       /\ res.i \in DOMAIN zip.areas /\ zip.areas[res.i].archived
       /\ Len(fresh.areas) \in FreshNamed(zip.areas[res.i].name)
  /\ res.at \in {"notes", "contents", "links"} =>
       /\ \A b \in DOMAIN zip.areas : FreshNamed(zip.areas[b].name) # {}
       /\ res.live = {a \in DOMAIN fresh.areas : ~fresh.areas[a].archived}

MapInv ==
  /\ res.at = "notes" => \A n \in Docs : n < res.i => res.map[n] \in Copies(n)
  /\ res.at = "contents" =>
       /\ res.i \in Docs /\ res.note = res.map[res.i]
       /\ \A n \in Docs : n <= res.i => res.map[n] \in Copies(n)
  /\ res.at = "links" => \A n \in Docs : res.map[n] \in Copies(n)

Linked(n) ==
  \A m \in zip.notes[n].links \intersect Docs : \A k \in Copies(n) : \A j \in Copies(m) :
    <<k, j>> \in fresh.links

LinksInv ==
  /\ res.at = "links" => \A n \in Docs : n < res.i => Linked(n)
  /\ done => res.at # "contents" /\ \A n \in Docs : Copies(n) # {} /\ Linked(n)

\* Until a restore dies, a copy lacks only what the restore has in hand.
Words(d) == {ThoughtsBack(d.thoughts)[j] : j \in DOMAIN ThoughtsBack(d.thoughts)}

Whole(d, m) ==
  /\ fresh.notes[m].thoughts = ThoughtsBack(d.thoughts)
  /\ fresh.notes[m].files = d.files /\ fresh.notes[m].updated = d.updated

InHand(d) ==
  LET copy == fresh.notes[res.note] IN
  /\ res.thoughts \in Seq(Words(d)) /\ copy.thoughts \in Seq(Words(d))
  /\ copy.thoughts \o res.thoughts = ThoughtsBack(d.thoughts)
  /\ copy.files \union res.files = d.files

ContentsInv ==
  /\ fails \in Nat
  /\ \A n \in Docs : res.at = "contents" /\ res.i = n => InHand(zip.notes[n])
  /\ fails = 0 => \A n \in Docs : \A m \in Copies(n) :
       Whole(zip.notes[n], m) \/ (res.at = "contents" /\ res.i = n)

NothingYet ==
  /\ fresh = [notes |-> <<>>, areas |-> <<>>, links |-> {}] /\ res = NoRestore
  /\ ~done /\ fails \in Nat

RestoreInv ==
  /\ SnapInv
  /\ IF zip = NoZip THEN NothingYet
     ELSE ZipInv /\ FreshInv /\ ResShape /\ AreasInv /\ MapInv /\ LinksInv /\ ContentsInv

\* A function on 1 .. N is a sequence of what it holds.
LEMMA MadeSeq ==
  ASSUME NEW N \in Nat, NEW s, DOMAIN s = 1 .. N, s = [k \in 1 .. N |-> s[k]]
  PROVE  IsSeq(s) /\ Len(s) = N
<1>1. PICK S : S = {s[k] : k \in DOMAIN s}
  OBVIOUS
<1>2. s \in [1 .. N -> S]
  BY <1>1
<1>3. s \in Seq(S)
  BY <1>2
<1>. QED
  BY <1>1, <1>3 DEF IsSeq

Added(z, s, r) == z = Append(s, r)

LEMMA AppendSeq ==
  ASSUME NEW s, IsSeq(s), NEW r, NEW z, Added(z, s, r)
  PROVE  /\ Len(s) \in Nat /\ DOMAIN s = 1 .. Len(s) /\ Len(z) = Len(s) + 1
         /\ Len(s) + 1 \notin DOMAIN s /\ DOMAIN z = DOMAIN s \union {Len(s) + 1}
         /\ z[Len(s) + 1] = r /\ \A k \in DOMAIN s : z[k] = s[k]
         /\ IsSeq(z)
<1>1. PICK T : T = {s[k] : k \in DOMAIN s} \union {r}
  OBVIOUS
<1>2. s \in Seq(T)
  <2>1. s \in Seq({s[k] : k \in DOMAIN s})
    BY DEF IsSeq
  <2>2. PICK S : S = {s[k] : k \in DOMAIN s}
    OBVIOUS
  <2>. QED
    BY <2>1, <2>2, <1>1
<1>3. r \in T
  BY <1>1
<1>0. z = Append(s, r)
  BY DEF Added
<1>4. /\ Len(s) \in Nat /\ DOMAIN s = 1 .. Len(s) /\ Len(z) = Len(s) + 1
      /\ Len(s) + 1 \notin DOMAIN s /\ DOMAIN z = DOMAIN s \union {Len(s) + 1}
      /\ z[Len(s) + 1] = r /\ \A k \in DOMAIN s : z[k] = s[k]
      /\ z \in Seq(T)
  BY <1>0, <1>2, <1>3
<1>5. {z[k] : k \in DOMAIN z} = T
  BY <1>1, <1>4
<1>. QED
  BY <1>4, <1>5 DEF IsSeq

LEMMA PutSeq ==
  ASSUME NEW s, IsSeq(s), NEW n \in DOMAIN s, NEW r, NEW z, z = [s EXCEPT ![n] = r]
  PROVE  /\ Len(s) \in Nat /\ DOMAIN s = 1 .. Len(s) /\ Len(z) = Len(s)
         /\ DOMAIN z = DOMAIN s /\ z[n] = r
         /\ \A k \in DOMAIN s : k # n => z[k] = s[k]
         /\ IsSeq(z)
<1>1. PICK T : T = {s[k] : k \in DOMAIN s} \union {r}
  OBVIOUS
<1>2. s \in Seq(T)
  <2>1. s \in Seq({s[k] : k \in DOMAIN s})
    BY DEF IsSeq
  <2>2. PICK S : S = {s[k] : k \in DOMAIN s}
    OBVIOUS
  <2>. QED
    BY <2>1, <2>2, <1>1
<1>3. r \in T
  BY <1>1
<1>4. /\ Len(s) \in Nat /\ DOMAIN s = 1 .. Len(s) /\ Len(z) = Len(s)
      /\ DOMAIN z = DOMAIN s /\ z[n] = r
      /\ \A k \in DOMAIN s : k # n => z[k] = s[k]
      /\ z \in Seq(T)
  BY <1>2, <1>3
<1>5. DOMAIN z = 1 .. Len(s) /\ z = [k \in 1 .. Len(s) |-> z[k]]
  BY <1>4
<1>6. IsSeq(z)
  BY <1>4, <1>5, MadeSeq
<1>. QED
  BY <1>4, <1>6

-----------------------------------------------------------------------------
(* The export                                                              *)

LEMMA ZipSame ==
  ASSUME zip' = zip
  PROVE  /\ ZipInv => ZipInv'
         /\ Docs' = Docs /\ \A n : ExportId(zip.notes[n])' = ExportId(zip.notes[n])
         /\ \A d : Homeless(d)' = Homeless(d) /\ Words(d)' = Words(d)
         /\ \A d : ThoughtsBack(d.thoughts)' = ThoughtsBack(d.thoughts)
<1>1. Docs' = Docs
  BY DEF Docs
<1>2. \A n : ExportId(zip.notes[n])' = ExportId(zip.notes[n])
  BY DEF ExportId, Back
<1>3. \A d : Homeless(d)' = Homeless(d)
  BY DEF Homeless
<1>4. \A d : ThoughtsBack(d.thoughts)' = ThoughtsBack(d.thoughts)
  BY DEF ThoughtsBack, Back
<1>5. \A d : Words(d)' = Words(d)
  BY <1>4 DEF Words
<1>6. ASSUME ZipInv
      PROVE  ZipInv'
  <2>1. PICK z : z = zip
    OBVIOUS
  <2>2. z = zip'
    BY <2>1
  <2>3. IsSeq(z.notes)' /\ IsSeq(z.areas)'
    <3>1. IsSeq(zip.notes) /\ IsSeq(zip.areas)
      BY <1>6 DEF ZipInv
    <3>2. IsSeq(z.notes) /\ IsSeq(z.areas)
      BY <3>1, <2>1
    <3>. QED
      BY <3>2 DEF IsSeq
  <2>. QED
    BY <1>1, <1>2, <1>6, <2>1, <2>2, <2>3 DEF ZipInv
<1>. QED
  BY <1>1, <1>2, <1>3, <1>4, <1>5, <1>6

LEMMA GrowsKeeps ==
  ASSUME ZipInv, FreshInv, FreshGrows, FreshShape', RetiredRight'
  PROVE  /\ FreshInv'
         /\ \A n \in Docs : Copies(n) # {} => Copies(n)' = Copies(n)
         /\ \A n \in Docs : (\A m \in Docs : Copies(m) # {}) /\ Linked(n) => Linked(n)'
         /\ \A name : FreshNamed(name) \subseteq FreshNamed(name)'
<1>1. zip' = zip /\ Docs' = Docs /\ \A n : ExportId(zip.notes[n])' = ExportId(zip.notes[n])
  BY ZipSame DEF FreshGrows
<1>2. ASSUME NEW n \in Docs
      PROVE  /\ Copies(n) \subseteq Copies(n)'
             /\ \A m \in Copies(n)' : m \notin Copies(n) => m = Len(fresh.notes) + 1 /\ Copies(n) = {}
                                                            /\ CopyRight(zip.notes[n], m)'
  <2>1. PICK h : h = ExportId(zip.notes[n])
    OBVIOUS
  <2>2. h = ExportId(zip.notes[n])'
    BY <2>1, <1>1
  <2>3. Copies(n) = {m \in DOMAIN fresh.notes : fresh.notes[m].hash = h}
    BY <2>1 DEF Copies, FoundIn
  <2>4. Copies(n)' = {m \in DOMAIN fresh'.notes : fresh'.notes[m].hash = h}
    BY <2>2 DEF Copies, FoundIn
  <2>5. Copies(n) \subseteq Copies(n)'
    BY <2>3, <2>4 DEF FreshGrows
  <2>6. ASSUME NEW m \in Copies(n)', m \notin Copies(n)
        PROVE  m = Len(fresh.notes) + 1 /\ Copies(n) = {} /\ CopyRight(zip.notes[n], m)'
    <3>1. m \in DOMAIN fresh'.notes /\ fresh'.notes[m].hash = h
      BY <2>4, <2>6
    <3>2. m \notin DOMAIN fresh.notes
      BY <3>1, <2>3, <2>6 DEF FreshGrows
    <3>. QED
      BY <3>1, <3>2, <2>1 DEF FreshGrows
  <2>. QED
    BY <2>5, <2>6
<1>3. \A n \in Docs : Copies(n) # {} => Copies(n)' = Copies(n)
  BY <1>2
<1>4. \A n \in Docs : (\A m \in Docs : Copies(m) # {}) /\ Linked(n) => Linked(n)'
  <2>. SUFFICES ASSUME NEW n \in Docs, \A m \in Docs : Copies(m) # {}, Linked(n)
                PROVE  Linked(n)'
    OBVIOUS
  <2>1. SUFFICES ASSUME NEW m \in zip.notes[n].links \intersect Docs,
                        NEW k \in Copies(n)', NEW j \in Copies(m)'
                 PROVE  <<k, j>> \in fresh'.links
    BY <1>1 DEF Linked
  <2>2. k \in Copies(n) /\ j \in Copies(m)
    BY <2>1, <1>3
  <2>. QED
    BY <2>2 DEF Linked, FreshGrows
<1>5. \A name : FreshNamed(name) \subseteq FreshNamed(name)'
  BY DEF FreshNamed, FreshGrows
<1>6. ASSUME NEW n \in Docs, NEW m \in Copies(n)', NEW k \in Copies(n)'
      PROVE  m = k
  <2>1. CASE Copies(n) = {}
    BY <2>1, <1>2, <1>6
  <2>2. CASE Copies(n) # {}
    BY <2>2, <1>3, <1>6 DEF FreshInv
  <2>. QED
    BY <2>1, <2>2
<1>7. ASSUME NEW n \in Docs, NEW m \in Copies(n)'
      PROVE  CopyRight(zip.notes[n], m)'
  <2>1. CASE m \in Copies(n)
    <3>1. PICK d : d = zip.notes[n]
      OBVIOUS
    <3>2. CopyRight(d, m) /\ m \in DOMAIN fresh.notes
      BY <2>1, <3>1 DEF FreshInv, Copies, FoundIn
    <3>3. Homeless(d)' = Homeless(d) /\ d = zip'.notes[n]
      BY <1>1, <3>1, ZipSame
    <3>4. /\ fresh'.notes[m].body = fresh.notes[m].body
          /\ fresh'.notes[m].area = fresh.notes[m].area
          /\ fresh'.notes[m].status = fresh.notes[m].status
      BY <3>2 DEF FreshGrows
    <3>5. \A a \in DOMAIN fresh.areas :
            a \in DOMAIN fresh'.areas /\ fresh'.areas[a].name = fresh.areas[a].name
      BY DEF FreshGrows
    <3>6. CopyRight(d, m)'
      BY <3>2, <3>3, <3>4, <3>5 DEF CopyRight
    <3>. QED
      BY <3>3, <3>6 DEF CopyRight, Homeless
  <2>2. CASE m \notin Copies(n)
    BY <2>2, <1>2, <1>7
  <2>. QED
    BY <2>1, <2>2
<1>8. FreshInv'
  BY <1>1, <1>6, <1>7 DEF FreshInv
<1>. QED
  BY <1>3, <1>4, <1>5, <1>8

LEMMA WholeAt ==
  ASSUME zip' = zip, NEW n, NEW m, NEW d, d = zip.notes[n], Whole(d, m)'
  PROVE  Whole(zip.notes[n], m)'
<1>1. d = zip'.notes[n]
  OBVIOUS
<1>. QED
  BY <1>1 DEF Whole

LEMMA ExportIdApart ==
  ASSUME NEW d, d.hash \in {NoHash} \union Digest, NEW e, e.hash \in {NoHash} \union Digest
  PROVE  /\ ExportId(d) # NoHash
         /\ ExportId(d) = ExportId(e) =>
              d.hash = e.hash /\ (d.hash = NoHash => d.id = e.id)
<1>1. ExportId(d) # NoHash
  <2>1. DOMAIN ExportId(d) = 1 .. 4 /\ DOMAIN NoHash = {}
    BY DEF ExportId, NoHash
  <2>. QED
    BY <2>1
<1>2. ASSUME ExportId(d) = ExportId(e)
      PROVE  d.hash = e.hash /\ (d.hash = NoHash => d.id = e.id)
  <2>1. PICK a, b : /\ a = IF d.hash = NoHash THEN <<"export-note", d.id>> ELSE d.hash
                    /\ b = IF e.hash = NoHash THEN <<"export-note", e.id>> ELSE e.hash
    OBVIOUS
  <2>2. a = b
    BY <1>2, <2>1 DEF ExportId
  <2>3. \A h \in Digest : DOMAIN h = 1 .. 4
    BY DEF Digest
  <2>4. \A x : DOMAIN <<"export-note", x>> = 1 .. 2 /\ <<"export-note", x>>[2] = x
    OBVIOUS
  <2>5. CASE d.hash = NoHash /\ e.hash = NoHash
    BY <2>1, <2>2, <2>4, <2>5
  <2>6. CASE d.hash = NoHash /\ e.hash # NoHash
    BY <2>1, <2>2, <2>3, <2>4, <2>6
  <2>7. CASE d.hash # NoHash /\ e.hash = NoHash
    BY <2>1, <2>2, <2>3, <2>4, <2>7
  <2>8. CASE d.hash # NoHash /\ e.hash # NoHash
    BY <2>1, <2>2, <2>8
  <2>. QED
    BY <2>5, <2>6, <2>7, <2>8
<1>. QED
  BY <1>1, <1>2

\* No note is ever dropped.
LEMMA RowsStay ==
  ASSUME ImportInv, ImportStep \/ Owner
  PROVE  DOMAIN notes \subseteq DOMAIN notes'
<1>1. notes \in Seq(Note)
  BY DEF ImportInv, RowsInv
<1>2. \A r : DOMAIN notes \subseteq DOMAIN Append(notes, r)
  <2>. SUFFICES ASSUME NEW r PROVE DOMAIN notes \subseteq DOMAIN Append(notes, r)
    OBVIOUS
  <2>1. PICK T : T = Note \union {r}
    OBVIOUS
  <2>2. notes \in Seq(T) /\ r \in T
    BY <1>1, <2>1
  <2>. QED
    BY <2>2
<1>3. CASE notes' = notes
  BY <1>3
<1>4. CASE \E u, plan : create_note(u, plan)
  BY <1>2, <1>4 DEF create_note
<1>5. \A n : DOMAIN [notes EXCEPT ![n] = notes[n]] = DOMAIN notes
  OBVIOUS
<1>6. \A f : _attach(f) => DOMAIN notes' = DOMAIN notes
  BY DEF _attach
<1>7. _append_mirror => DOMAIN notes' = DOMAIN notes
  BY DEF _append_mirror
<1>8. \A n : ArchiveNote(n) => DOMAIN notes' = DOMAIN notes
  BY DEF ArchiveNote
<1>9. CreateUnit \/ Fallback => notes' = notes \/ \E u, plan : create_note(u, plan)
  BY DEF CreateUnit, Fallback, Created
<1>10. Owner => notes' = notes \/ \E n : ArchiveNote(n)
  BY DEF Owner, Relate, RetireArea
<1>11. ImportStep => \/ notes' = notes
                     \/ CreateUnit \/ Fallback \/ _append_mirror
                     \/ \E f : _attach(f)
  BY DEF ImportStep, import_source, PassOver, quarantine_unit, SecondPass, AlreadyOwnNote,
     RunEnds, ImportCrash, libraryVars
<1>. QED
  BY <1>3, <1>4, <1>6, <1>7, <1>8, <1>9, <1>10, <1>11

LEMMA SnapKeeps ==
  ASSUME SnapInv, snap' = snap, DOMAIN notes \subseteq DOMAIN notes'
  PROVE  SnapInv'
<1>1. PICK s : s = snap
  OBVIOUS
<1>. QED
  BY <1>1 DEF SnapInv, Note, Digest, Dates, NoHash

\* The archive is not written yet.
LEMMA UnwrittenKeeps ==
  ASSUME ImportInv, RestoreInv, zip = NoZip, ImportStep \/ Owner, UNCHANGED restoreVars
  PROVE  RestoreInv'
<1>1. DOMAIN notes \subseteq DOMAIN notes'
  BY RowsStay
<1>2. /\ snap' = snap /\ zip' = zip /\ fresh' = fresh /\ res' = res /\ fails' = fails
      /\ done' = done
  BY DEF restoreVars
<1>3. SnapInv'
  BY <1>1, <1>2, SnapKeeps DEF RestoreInv
<1>4. NothingYet'
  BY <1>2 DEF RestoreInv, NothingYet
<1>. QED
  BY <1>2, <1>3, <1>4 DEF RestoreInv

LEMMA ReadNotesKeeps ==
  ASSUME ImportInv, RestoreInv, ReadNotes
  PROVE  RestoreInv'
<1>1. /\ snap' = notes /\ notes' = notes /\ zip = NoZip /\ zip' = zip /\ fresh' = fresh
      /\ res' = res /\ fails' = fails /\ done' = done
  BY DEF ReadNotes, libraryVars
<1>2. notes \in Seq(Note) /\ HashOnce
  BY DEF ImportInv, RowsInv
<1>3. SnapInv'
  <2>1. PICK z : z = notes
    OBVIOUS
  <2>2. /\ z \in Seq(Note)
        /\ \A n, m \in DOMAIN z : z[n].hash = z[m].hash /\ z[n].hash # NoHash => n = m
    BY <2>1, <1>2 DEF HashOnce
  <2>3. snap' = z /\ notes' = z
    BY <2>1, <1>1
  <2>. QED
    BY <2>2, <2>3 DEF SnapInv, Note, Digest, Dates, NoHash
<1>4. NothingYet'
  BY <1>1 DEF RestoreInv, NothingYet
<1>. QED
  BY <1>1, <1>3, <1>4 DEF RestoreInv

\* The archive has a document for every note read, each with an id of its own.
LEMMA export_zipKeeps ==
  ASSUME ImportAssumption, ImportInv, RestoreInv, export_zip
  PROVE  RestoreInv'
<1>1. /\ snap' = <<>> /\ notes' = notes /\ zip = NoZip /\ fresh' = fresh
      /\ res' = res /\ fails' = fails /\ done' = done
      /\ zip' = [notes |-> [n \in DOMAIN snap |-> Document(n)],
                 areas |-> [a \in DOMAIN Areas |->
                              [name |-> Areas[a].name, parent |-> AreaName(Areas[a].parent),
                               archived |-> a \in retired]]]
  BY DEF export_zip, libraryVars
<1>2. NothingYet /\ SnapInv
  BY <1>1 DEF RestoreInv
<1>3. SnapInv'
  BY <1>1 DEF SnapInv
<1>4. CASE zip' = NoZip
  <2>1. NothingYet'
    BY <1>1, <1>2 DEF NothingYet
  <2>. QED
    BY <1>3, <1>4, <2>1 DEF RestoreInv
<1>5. CASE zip' # NoZip
  <2>1. PICK s : s = snap
    OBVIOUS
  <2>2. /\ s \in Seq(Note) /\ DOMAIN s = 1 .. Len(s) /\ Len(s) \in Nat
        /\ DOMAIN s \subseteq DOMAIN notes
        /\ \A n, m \in DOMAIN s : s[n].hash = s[m].hash /\ s[n].hash # NoHash => n = m
    BY <1>2, <2>1 DEF SnapInv
  <2>3. PICK N : N = [n \in DOMAIN s |-> Document(n)]
    OBVIOUS
  <2>4. PICK A : A = [a \in DOMAIN Areas |->
                        [name |-> Areas[a].name, parent |-> AreaName(Areas[a].parent),
                         archived |-> a \in retired]]
    OBVIOUS
  <2>5. zip'.notes = N /\ zip'.areas = A /\ zip' = [notes |-> N, areas |-> A]
    BY <1>1, <2>1, <2>3, <2>4
  <2>6. IsSeq(N) /\ DOMAIN N = DOMAIN s
    <3>1. DOMAIN N = 1 .. Len(s) /\ N = [k \in 1 .. Len(s) |-> N[k]]
      BY <2>2, <2>3
    <3>. QED
      BY <3>1, <2>2, MadeSeq
  <2>7. IsSeq(A) /\ DOMAIN A = DOMAIN Areas
    <3>1. Len(Areas) \in Nat /\ DOMAIN Areas = 1 .. Len(Areas)
      BY DEF ImportAssumption
    <3>2. DOMAIN A = 1 .. Len(Areas) /\ A = [k \in 1 .. Len(Areas) |-> A[k]]
      BY <3>1, <2>4
    <3>. QED
      BY <3>1, <3>2, MadeSeq
  <2>8. ASSUME NEW n \in DOMAIN N
        PROVE  /\ N[n].id = n /\ N[n].thoughts \in Seq(STRING)
               /\ N[n].hash = s[n].hash /\ N[n].hash \in {NoHash} \union Digest
               /\ N[n].area = "" \/ \E a \in DOMAIN A : A[a].name = N[n].area
    <3>1. n \in DOMAIN s /\ n \in DOMAIN notes /\ s[n] \in Note /\ notes[n] \in Note
      BY <2>2, <2>6 DEF ImportInv, RowsInv
    <3>2. /\ N[n].id = n /\ N[n].thoughts = notes[n].thoughts /\ N[n].hash = s[n].hash
          /\ N[n].area = AreaName(s[n].area)
      BY <3>1, <2>1, <2>3 DEF Document
    <3>3. /\ notes[n].thoughts \in Seq(STRING) /\ s[n].hash \in {NoHash} \union Digest
          /\ s[n].area \in 0 .. Len(Areas)
      BY <3>1 DEF Note
    <3>4. PICK x : x = s[n].area
      OBVIOUS
    <3>5. ASSUME x = 0
          PROVE  N[n].area = "" \/ \E a \in DOMAIN A : A[a].name = N[n].area
      BY <3>2, <3>4, <3>5 DEF AreaName
    <3>6. ASSUME x # 0
          PROVE  N[n].area = "" \/ \E a \in DOMAIN A : A[a].name = N[n].area
      <4>1. x \in DOMAIN Areas
        BY <3>3, <3>4, <3>6 DEF ImportAssumption
      <4>2. A[x].name = AreaName(x)
        BY <4>1, <2>4, <3>6 DEF AreaName
      <4>3. \E a \in DOMAIN A : A[a].name = AreaName(x)
        BY <4>1, <4>2, <2>7
      <4>4. N[n].area = AreaName(x)
        BY <3>2, <3>4
      <4>. QED
        BY <4>3, <4>4
    <3>7. N[n].area = "" \/ \E a \in DOMAIN A : A[a].name = N[n].area
      BY <3>5, <3>6
    <3>. QED
      BY <3>2, <3>3, <3>7
  <2>9. ZipInv'
    <3>1. ASSUME NEW n \in DOMAIN N
          PROVE  ExportId(N[n]) # NoHash
      BY <3>1, <2>8, ExportIdApart
    <3>2. ASSUME NEW n \in DOMAIN N, NEW m \in DOMAIN N, ExportId(N[n]) = ExportId(N[m])
          PROVE  n = m
      <4>. DEFINE Plain(h) == h \in {NoHash} \union Digest
      <4>4. Plain(N[n].hash) /\ Plain(N[m].hash)
        BY <3>2, <2>8
      <4>1. /\ N[n].hash = N[m].hash
            /\ N[n].hash = NoHash => N[n].id = N[m].id
        BY ONLY <3>2, <4>4, ExportIdApart
      <4>2. N[n].id = n /\ N[m].id = m /\ N[n].hash = s[n].hash /\ N[m].hash = s[m].hash
        BY <2>8
      <4>3. n \in DOMAIN s /\ m \in DOMAIN s
        BY <2>6
      <4>. QED
        BY <4>1, <4>2, <4>3, <2>2
    <3>3. /\ \A n \in DOMAIN N :
               /\ N[n].id = n /\ N[n].thoughts \in Seq(STRING)
               /\ ExportId(N[n]) # NoHash
               /\ N[n].area = "" \/ \E a \in DOMAIN A : A[a].name = N[n].area
          /\ \A n, m \in DOMAIN N : ExportId(N[n]) = ExportId(N[m]) => n = m
      <4>1. ASSUME NEW n \in DOMAIN N
            PROVE  /\ N[n].id = n /\ N[n].thoughts \in Seq(STRING)
                   /\ ExportId(N[n]) # NoHash
                   /\ N[n].area = "" \/ \E a \in DOMAIN A : A[a].name = N[n].area
        BY <4>1, <2>8, <3>1
      <4>2. \A n, m \in DOMAIN N : ExportId(N[n]) = ExportId(N[m]) => n = m
        BY <3>2
      <4>. QED
        BY <4>1, <4>2
    <3>4. N \in Seq({N[k] : k \in DOMAIN N}) /\ A \in Seq({A[k] : k \in DOMAIN A})
      BY <2>6, <2>7 DEF IsSeq
    <3>5. Docs' = DOMAIN N
      BY <2>5 DEF Docs
    <3>6. IsSeq(zip.notes)' /\ IsSeq(zip.areas)'
      BY <2>5, <3>4 DEF IsSeq
    <3>7. \A n : ExportId(zip.notes[n])' = ExportId(N[n])
      BY <2>5 DEF ExportId, Back
    <3>8. \A n \in Docs' :
            /\ zip'.notes[n].id = n /\ zip'.notes[n].thoughts \in Seq(STRING)
            /\ ExportId(zip.notes[n])' # NoHash
            /\ \/ zip'.notes[n].area = ""
               \/ \E a \in DOMAIN zip'.areas : zip'.areas[a].name = zip'.notes[n].area
      <4>. SUFFICES ASSUME NEW n \in Docs'
                    PROVE  /\ zip'.notes[n].id = n /\ zip'.notes[n].thoughts \in Seq(STRING)
                           /\ ExportId(zip.notes[n])' # NoHash
                           /\ \/ zip'.notes[n].area = ""
                              \/ \E a \in DOMAIN zip'.areas :
                                   zip'.areas[a].name = zip'.notes[n].area
        OBVIOUS
      <4>1. n \in DOMAIN N /\ zip'.notes = N /\ zip'.areas = A
        BY <2>5, <3>5
      <4>2. /\ N[n].id = n /\ N[n].thoughts \in Seq(STRING) /\ ExportId(N[n]) # NoHash
            /\ N[n].area = "" \/ \E a \in DOMAIN A : A[a].name = N[n].area
        BY <3>3, <4>1
      <4>3. ExportId(zip.notes[n])' # NoHash
        BY <3>7, <4>2
      <4>. QED
        BY ONLY <4>1, <4>2, <4>3
    <3>9. \A n, m \in Docs' : ExportId(zip.notes[n])' = ExportId(zip.notes[m])' => n = m
      <4>. SUFFICES ASSUME NEW n \in Docs', NEW m \in Docs',
                           ExportId(zip.notes[n])' = ExportId(zip.notes[m])'
                    PROVE  n = m
        OBVIOUS
      <4>1. n \in DOMAIN N /\ m \in DOMAIN N
        BY <3>5
      <4>2. ExportId(N[n]) = ExportId(N[m])
        BY <3>7
      <4>. QED
        BY <3>2, <4>1, <4>2
    <3>. QED
      BY ONLY <3>6, <3>8, <3>9 DEF ZipInv
  <2>10. /\ fresh'.notes = <<>> /\ fresh'.areas = <<>> /\ fresh'.links = {}
         /\ fresh' = [notes |-> <<>>, areas |-> <<>>, links |-> {}]
         /\ ~done' /\ fails' \in Nat
    BY <1>1, <1>2 DEF NothingYet
  <2>11. FreshInv'
    <3>1. IsSeq(<<>>)
      BY DEF IsSeq
    <3>2. PICK e : e = <<>>
      OBVIOUS
    <3>3. e \in Seq({e[k] : k \in DOMAIN e}) /\ DOMAIN e = {}
      BY <3>1, <3>2 DEF IsSeq
    <3>4. FreshShape'
      BY <2>10, <3>2, <3>3 DEF FreshShape, IsSeq
    <3>5. RetiredRight'
      BY <2>10 DEF RetiredRight
    <3>6. \A n : Copies(n)' = {}
      BY <2>10 DEF Copies, FoundIn
    <3>. QED
      BY <3>4, <3>5, <3>6 DEF FreshInv
  <2>12. /\ res'.at = "off" /\ res'.i = 1
         /\ res' = [at |-> res'.at, i |-> res'.i, live |-> res'.live, map |-> res'.map,
                    note |-> res'.note, thoughts |-> res'.thoughts, files |-> res'.files]
    BY <1>1, <1>2 DEF NothingYet, NoRestore
  <2>13. ResShape' /\ AreasInv' /\ MapInv'
    BY <2>12 DEF ResShape, AreasInv, MapInv, Phases
  <2>14. LinksInv'
    BY <2>10, <2>12 DEF LinksInv
  <2>15. ContentsInv'
    <3>1. \A n : Copies(n)' = {}
      BY <2>10 DEF Copies, FoundIn
    <3>. QED
      BY <3>1, <2>10, <2>12 DEF ContentsInv
  <2>. QED
    BY <1>3, <1>5, <2>9, <2>11, <2>13, <2>14, <2>15 DEF RestoreInv
<1>. QED
  BY <1>4, <1>5

-----------------------------------------------------------------------------
(* The steps that leave the other library alone                            *)

LEMMA FreshSame ==
  ASSUME ZipInv, FreshInv, zip' = zip, fresh' = fresh
  PROVE  /\ ZipInv' /\ FreshInv' /\ Docs' = Docs
         /\ \A n : Copies(n)' = Copies(n) /\ Linked(n)' = Linked(n)
         /\ \A name : FreshNamed(name)' = FreshNamed(name)
         /\ \A d, m : Whole(d, m)' = Whole(d, m)
<1>1. /\ ZipInv' /\ Docs' = Docs /\ \A n : ExportId(zip.notes[n])' = ExportId(zip.notes[n])
      /\ \A d : ThoughtsBack(d.thoughts)' = ThoughtsBack(d.thoughts)
  BY ZipSame
<1>2. \A n : Copies(n)' = Copies(n)
  <2>. SUFFICES ASSUME NEW n PROVE Copies(n)' = Copies(n)
    OBVIOUS
  <2>1. PICK h : h = ExportId(zip.notes[n])
    OBVIOUS
  <2>2. h = ExportId(zip.notes[n])'
    BY <2>1, <1>1
  <2>3. Copies(n) = {m \in DOMAIN fresh.notes : fresh.notes[m].hash = h}
    BY <2>1 DEF Copies, FoundIn
  <2>4. Copies(n)' = {m \in DOMAIN fresh'.notes : fresh'.notes[m].hash = h}
    BY <2>2 DEF Copies, FoundIn
  <2>. QED
    BY <2>3, <2>4
<1>3. \A n : Linked(n)' = Linked(n)
  BY <1>1, <1>2 DEF Linked
<1>4. \A name : FreshNamed(name)' = FreshNamed(name)
  BY DEF FreshNamed
<1>5. \A d, m : Whole(d, m)' = Whole(d, m)
  BY <1>1 DEF Whole
<1>6. FreshShape' /\ RetiredRight'
  <2>1. PICK f : f = fresh
    OBVIOUS
  <2>2. f = fresh'
    BY <2>1
  <2>3. FreshShape'
    <3>1. IsSeq(f.notes) /\ IsSeq(f.areas)
      BY <2>1 DEF FreshInv, FreshShape
    <3>2. IsSeq(fresh.notes)' /\ IsSeq(fresh.areas)'
      BY <2>2, <3>1 DEF IsSeq
    <3>3. /\ \A m \in DOMAIN f.notes : IsRow(f.notes[m])
          /\ \A a \in DOMAIN f.areas : IsArea(f.areas[a])
          /\ f = [notes |-> f.notes, areas |-> f.areas, links |-> f.links]
      BY <2>1 DEF FreshInv, FreshShape
    <3>4. /\ \A m \in DOMAIN fresh'.notes : IsRow(fresh.notes[m])'
          /\ \A a \in DOMAIN fresh'.areas : IsArea(fresh.areas[a])'
      BY <2>2, <3>3 DEF IsRow, IsArea
    <3>. QED
      BY <2>2, <3>2, <3>3, <3>4 DEF FreshShape
  <2>4. RetiredRight'
    BY DEF FreshInv, RetiredRight
  <2>. QED
    BY <2>3, <2>4
<1>7. FreshGrows
  BY DEF FreshGrows
<1>8. FreshInv'
  BY <1>6, <1>7, GrowsKeeps
<1>. QED
  BY <1>1, <1>2, <1>3, <1>4, <1>5, <1>8

LEMMA StillKeeps ==
  ASSUME RestoreInv, zip # NoZip, notes' = notes, snap' = snap, zip' = zip, fresh' = fresh,
         ResShape', AreasInv', MapInv', res'.at # "contents",
         res'.at = "links" => \A n \in Docs : n < res'.i => Linked(n),
         done' => done \/ \A n \in Docs : Copies(n) # {} /\ Linked(n),
         fails' \in Nat, fails' = 0 => fails = 0 /\ res.at # "contents"
  PROVE  RestoreInv'
<1>1. SnapInv /\ ZipInv /\ FreshInv /\ LinksInv /\ ContentsInv
  BY DEF RestoreInv
<1>2. /\ ZipInv' /\ FreshInv' /\ Docs' = Docs
      /\ \A n : Copies(n)' = Copies(n) /\ Linked(n)' = Linked(n)
      /\ \A d, m : Whole(d, m)' = Whole(d, m)
  BY <1>1, FreshSame
<1>3. SnapInv'
  BY <1>1, SnapKeeps
<1>4. LinksInv'
  BY <1>1, <1>2 DEF LinksInv
<1>5. ContentsInv'
  <2>1. ASSUME fails' = 0, NEW n \in Docs, NEW m \in Copies(n)
        PROVE  Whole(zip.notes[n], m)'
    <3>1. Whole(zip.notes[n], m)
      BY <2>1, <1>1 DEF ContentsInv
    <3>2. PICK d : d = zip.notes[n]
      OBVIOUS
    <3>3. Whole(d, m)' /\ d = zip'.notes[n]
      BY <3>1, <3>2, <1>2
    <3>. QED
      BY <3>3 DEF Whole
  <2>. QED
    BY <2>1, <1>2 DEF ContentsInv
<1>. QED
  BY <1>2, <1>3, <1>4, <1>5 DEF RestoreInv

LEMMA NoRestoreShape ==
  /\ NoRestore.at = "off" /\ NoRestore.i = 1
  /\ NoRestore = [at |-> "off", i |-> 1, live |-> {}, map |-> <<>>, note |-> 0,
                  thoughts |-> <<>>, files |-> {}]
BY DEF NoRestore

\* A restore that ends, is refused or dies.
LEMMA OffKeeps ==
  ASSUME RestoreInv, zip # NoZip, notes' = notes, snap' = snap, zip' = zip, fresh' = fresh,
         res' = NoRestore,
         done' => done \/ \A n \in Docs : Copies(n) # {} /\ Linked(n),
         fails' \in Nat, fails' = 0 => fails = 0 /\ res.at # "contents"
  PROVE  RestoreInv'
<1>1. res'.at = "off" /\ res'.i = 1
  BY NoRestoreShape
<1>2. ResShape'
  BY NoRestoreShape DEF ResShape, Phases
<1>3. AreasInv' /\ MapInv'
  BY <1>1 DEF AreasInv, MapInv
<1>. QED
  BY <1>1, <1>2, <1>3, StillKeeps

LEMMA RestoreFacts ==
  ASSUME RestoreInv, zip # NoZip \/ res.at # "off"
  PROVE  /\ zip # NoZip
         /\ SnapInv /\ ZipInv /\ FreshInv /\ ResShape /\ AreasInv /\ MapInv /\ LinksInv
         /\ ContentsInv
         /\ res.i \in Nat /\ res.i >= 1 /\ fails \in Nat
         /\ Len(zip.notes) \in Nat /\ DOMAIN zip.notes = 1 .. Len(zip.notes)
         /\ Len(zip.areas) \in Nat /\ DOMAIN zip.areas = 1 .. Len(zip.areas)
         /\ Docs = 1 .. Len(zip.notes)
<1>1. zip # NoZip
  BY NoRestoreShape DEF RestoreInv, NothingYet
<1>2. /\ SnapInv /\ ZipInv /\ FreshInv /\ ResShape /\ AreasInv /\ MapInv /\ LinksInv
      /\ ContentsInv
  BY <1>1 DEF RestoreInv
<1>3. res.i \in Nat /\ res.i >= 1 /\ fails \in Nat
  BY <1>2 DEF ResShape, ContentsInv
<1>4. PICK z, a : z = zip.notes /\ a = zip.areas
  OBVIOUS
<1>5. IsSeq(z) /\ IsSeq(a)
  BY <1>2, <1>4 DEF ZipInv
<1>6. PICK S, T : S = {z[k] : k \in DOMAIN z} /\ T = {a[k] : k \in DOMAIN a}
  OBVIOUS
<1>7. z \in Seq(S) /\ a \in Seq(T)
  BY <1>5, <1>6 DEF IsSeq
<1>8. Len(z) \in Nat /\ DOMAIN z = 1 .. Len(z) /\ Len(a) \in Nat /\ DOMAIN a = 1 .. Len(a)
  BY <1>7
<1>. QED
  BY <1>1, <1>2, <1>3, <1>4, <1>8 DEF Docs

LEMMA RestoreEndsKeeps ==
  ASSUME RestoreInv, RestoreEnds
  PROVE  RestoreInv'
<1>1. /\ res.at = "links" /\ res.i > Len(zip.notes) /\ res' = NoRestore /\ done' = TRUE
      /\ notes' = notes /\ snap' = snap /\ zip' = zip /\ fresh' = fresh /\ fails' = fails
  BY DEF RestoreEnds, In, Elsewhere, Same, libraryVars
<1>2. /\ zip # NoZip /\ LinksInv /\ MapInv /\ res.i \in Nat /\ Len(zip.notes) \in Nat
      /\ Docs = 1 .. Len(zip.notes) /\ fails \in Nat
  BY <1>1, RestoreFacts
<1>3. \A n \in Docs : n < res.i
  BY <1>1, <1>2
<1>4. \A n \in Docs : Copies(n) # {} /\ Linked(n)
  BY <1>1, <1>2, <1>3 DEF LinksInv, MapInv
<1>. QED
  BY <1>1, <1>2, <1>4, OffKeeps

LEMMA RestoreCrashKeeps ==
  ASSUME RestoreInv, RestoreCrash
  PROVE  RestoreInv'
<1>1. /\ res.at # "off" /\ fails' = fails + 1 /\ res' = NoRestore /\ done' = done
      /\ notes' = notes /\ snap' = snap /\ zip' = zip /\ fresh' = fresh
  BY DEF RestoreCrash, In, Elsewhere, libraryVars
<1>2. zip # NoZip /\ fails \in Nat
  BY <1>1, RestoreFacts
<1>3. fails' \in Nat /\ fails' # 0
  BY <1>1, <1>2
<1>. QED
  BY <1>1, <1>2, <1>3, OffKeeps

LEMMA import_exportKeeps ==
  ASSUME RestoreInv, import_export
  PROVE  RestoreInv'
<1>1. /\ res.at = "off" /\ zip # NoZip /\ done' = done /\ fails' = fails
      /\ notes' = notes /\ snap' = snap /\ zip' = zip /\ fresh' = fresh
      /\ \/ res' = NoRestore
         \/ res' = [NoRestore EXCEPT !.at = "areas", !.map = [n \in DOMAIN zip.notes |-> 0]]
  BY DEF import_export, In, Elsewhere, libraryVars
<1>2. fails \in Nat /\ DOMAIN zip.areas = 1 .. Len(zip.areas) /\ ZipInv /\ FreshInv
  BY <1>1, RestoreFacts
<1>3. CASE res' = NoRestore
  BY <1>1, <1>2, <1>3, OffKeeps
<1>4. CASE res' = [NoRestore EXCEPT !.at = "areas", !.map = [n \in DOMAIN zip.notes |-> 0]]
  <2>1. PICK map : map = [n \in DOMAIN zip.notes |-> 0]
    OBVIOUS
  <2>2. res' = [at |-> "areas", i |-> 1, live |-> {}, map |-> map, note |-> 0,
                thoughts |-> <<>>, files |-> {}]
    BY <1>4, <2>1 DEF NoRestore
  <2>3. DOMAIN map = Docs' /\ map = [n \in Docs' |-> map[n]]
    BY <1>1, <2>1 DEF Docs
  <2>4. ResShape'
    BY <2>2, <2>3 DEF ResShape, Phases
  <2>5. \A b \in DOMAIN zip'.areas : ~ (b < res'.i)
    BY <1>1, <1>2, <2>2
  <2>6. AreasInv' /\ MapInv'
    BY <2>2, <2>5 DEF AreasInv, MapInv
  <2>. QED
    BY <1>1, <1>2, <2>2, <2>4, <2>6, StillKeeps
<1>. QED
  BY <1>1, <1>3, <1>4

\* The restore in progress goes on to another phase, area or note.
LEMMA ResTurned ==
  ASSUME NEW r,
         r = [at |-> r.at, i |-> r.i, live |-> r.live, map |-> r.map,
              note |-> r.note, thoughts |-> r.thoughts, files |-> r.files],
         NEW at, NEW i,
         NEW z, z = [r EXCEPT !.at = at, !.i = i]
  PROVE  z = [at |-> at, i |-> i, live |-> r.live, map |-> r.map,
              note |-> r.note, thoughts |-> r.thoughts, files |-> r.files]
<1>1. PICK x : x = [r EXCEPT !.at = at]
  OBVIOUS
<1>2. x = [at |-> at, i |-> r.i, live |-> r.live, map |-> r.map,
         note |-> r.note, thoughts |-> r.thoughts, files |-> r.files]
  BY <1>1
<1>3. z = [x EXCEPT !.i = i]
  BY <1>1
<1>. QED
  BY <1>2, <1>3

LEMMA ResHomes ==
  ASSUME NEW r,
         r = [at |-> r.at, i |-> r.i, live |-> r.live, map |-> r.map,
              note |-> r.note, thoughts |-> r.thoughts, files |-> r.files],
         NEW at, NEW i, NEW live,
         NEW z, z = [r EXCEPT !.at = at, !.i = i, !.live = live]
  PROVE  z = [at |-> at, i |-> i, live |-> live, map |-> r.map,
              note |-> r.note, thoughts |-> r.thoughts, files |-> r.files]
<1>1. PICK x : x = [r EXCEPT !.at = at]
  OBVIOUS
<1>2. x = [at |-> at, i |-> r.i, live |-> r.live, map |-> r.map,
         note |-> r.note, thoughts |-> r.thoughts, files |-> r.files]
  BY <1>1
<1>3. PICK y : y = [x EXCEPT !.i = i]
  OBVIOUS
<1>4. y = [at |-> at, i |-> i, live |-> r.live, map |-> r.map,
         note |-> r.note, thoughts |-> r.thoughts, files |-> r.files]
  BY <1>2, <1>3
<1>5. z = [y EXCEPT !.live = live]
  BY <1>1, <1>3
<1>. QED
  BY <1>4, <1>5

LEMMA ResFound ==
  ASSUME NEW r,
         r = [at |-> r.at, i |-> r.i, live |-> r.live, map |-> r.map,
              note |-> r.note, thoughts |-> r.thoughts, files |-> r.files],
         NEW i, NEW map,
         NEW z, z = [r EXCEPT !.i = i, !.map = map]
  PROVE  z = [at |-> r.at, i |-> i, live |-> r.live, map |-> map,
              note |-> r.note, thoughts |-> r.thoughts, files |-> r.files]
<1>1. PICK x : x = [r EXCEPT !.i = i]
  OBVIOUS
<1>2. x = [at |-> r.at, i |-> i, live |-> r.live, map |-> r.map,
         note |-> r.note, thoughts |-> r.thoughts, files |-> r.files]
  BY <1>1
<1>3. z = [x EXCEPT !.map = map]
  BY <1>1
<1>. QED
  BY <1>2, <1>3

LEMMA AreasRestoredKeeps ==
  ASSUME RestoreInv, AreasRestored
  PROVE  RestoreInv'
<1>1. /\ res.at = "areas" /\ res.i > Len(zip.areas) /\ done' = done /\ fails' = fails
      /\ notes' = notes /\ snap' = snap /\ zip' = zip /\ fresh' = fresh
      /\ res' = [res EXCEPT !.at = "notes", !.i = 1,
                            !.live = {a \in DOMAIN fresh.areas : ~fresh.areas[a].archived}]
  BY DEF AreasRestored, In, Elsewhere, Same, libraryVars
<1>2. /\ zip # NoZip /\ ZipInv /\ FreshInv /\ ResShape /\ AreasInv /\ res.i \in Nat
      /\ fails \in Nat
      /\ DOMAIN zip.areas = 1 .. Len(zip.areas) /\ Len(zip.areas) \in Nat
      /\ Docs = 1 .. Len(zip.notes)
  BY <1>1, RestoreFacts
<1>3. PICK live : live = {a \in DOMAIN fresh.areas : ~fresh.areas[a].archived}
  OBVIOUS
<1>4. res' = [at |-> "notes", i |-> 1, live |-> live, map |-> res.map, note |-> res.note,
              thoughts |-> res.thoughts, files |-> res.files]
  BY <1>1, <1>2, <1>3, ResHomes DEF ResShape
<1>5. Docs' = Docs /\ \A name : FreshNamed(name)' = FreshNamed(name)
  BY <1>1, <1>2, FreshSame
<1>6. ResShape'
  <2>1. PICK map, D : map = res.map /\ D = Docs
    OBVIOUS
  <2>2. DOMAIN map = D /\ map = [n \in D |-> map[n]]
    BY <2>1, <1>1, <1>2 DEF ResShape
  <2>3. res'.map = map /\ Docs' = D
    BY <2>1, <1>4, <1>5
  <2>. QED
    BY <2>2, <2>3, <1>4 DEF ResShape, Phases
<1>7. \A b \in DOMAIN zip.areas : FreshNamed(zip.areas[b].name) # {}
  BY <1>1, <1>2 DEF AreasInv
<1>8. \A b \in DOMAIN zip'.areas : FreshNamed(zip.areas[b].name)' # {}
  <2>. SUFFICES ASSUME NEW b \in DOMAIN zip.areas PROVE FreshNamed(zip.areas[b].name)' # {}
    BY <1>1
  <2>1. PICK name : name = zip.areas[b].name
    OBVIOUS
  <2>2. FreshNamed(name)' # {} /\ name = zip'.areas[b].name
    BY <2>1, <1>1, <1>5, <1>7
  <2>. QED
    BY <2>2 DEF FreshNamed
<1>9. AreasInv'
  BY <1>1, <1>3, <1>4, <1>8 DEF AreasInv
<1>10. MapInv'
  BY <1>2, <1>4, <1>5 DEF MapInv
<1>. QED
  BY <1>1, <1>2, <1>4, <1>6, <1>9, <1>10, StillKeeps

\* The other library's areas and the notes found so far are the same.
LEMMA MapStays ==
  ASSUME ResShape, res.at # "off", Docs' = Docs,
         NEW at \in Phases, NEW i \in Nat, i >= 1,
         NEW live, NEW note, NEW thoughts, NEW files,
         res' = [at |-> at, i |-> i, live |-> live, map |-> res.map, note |-> note,
                 thoughts |-> thoughts, files |-> files]
  PROVE  ResShape'
<1>1. PICK map, D : map = res.map /\ D = Docs
  OBVIOUS
<1>2. DOMAIN map = D /\ map = [n \in D |-> map[n]]
  BY <1>1 DEF ResShape
<1>3. res'.map = map /\ Docs' = D
  BY <1>1
<1>. QED
  BY <1>2, <1>3 DEF ResShape

LEMMA AreasStay ==
  ASSUME AreasInv, res.at \in {"notes", "contents", "links"},
         res'.at \in {"notes", "contents", "links"}, res'.live = res.live, zip' = zip,
         fresh'.areas = fresh.areas
  PROVE  AreasInv'
<1>1. \A b \in DOMAIN zip.areas : FreshNamed(zip.areas[b].name) # {}
  BY DEF AreasInv
<1>2. \A b \in DOMAIN zip'.areas : FreshNamed(zip.areas[b].name)' # {}
  <2>. SUFFICES ASSUME NEW b \in DOMAIN zip.areas PROVE FreshNamed(zip.areas[b].name)' # {}
    OBVIOUS
  <2>1. PICK name : name = zip.areas[b].name
    OBVIOUS
  <2>2. FreshNamed(name) # {} /\ name = zip'.areas[b].name
    BY <2>1, <1>1
  <2>. QED
    BY <2>2 DEF FreshNamed
<1>3. res'.live = {a \in DOMAIN fresh'.areas : ~fresh'.areas[a].archived}
  BY DEF AreasInv
<1>. QED
  BY <1>2, <1>3 DEF AreasInv

LEMMA NotesRestoredKeeps ==
  ASSUME RestoreInv, NotesRestored
  PROVE  RestoreInv'
<1>1. /\ res.at = "notes" /\ res.i > Len(zip.notes) /\ done' = done /\ fails' = fails
      /\ notes' = notes /\ snap' = snap /\ zip' = zip /\ fresh' = fresh
      /\ res' = [res EXCEPT !.at = "links", !.i = 1]
  BY DEF NotesRestored, In, Elsewhere, Same, libraryVars
<1>2. /\ zip # NoZip /\ ZipInv /\ FreshInv /\ ResShape /\ AreasInv /\ MapInv /\ res.i \in Nat
      /\ fails \in Nat /\ Len(zip.notes) \in Nat /\ Docs = 1 .. Len(zip.notes)
  BY <1>1, RestoreFacts
<1>3. res' = [at |-> "links", i |-> 1, live |-> res.live, map |-> res.map, note |-> res.note,
              thoughts |-> res.thoughts, files |-> res.files]
  BY <1>1, <1>2, ResTurned DEF ResShape
<1>4. /\ Docs' = Docs /\ \A name : FreshNamed(name)' = FreshNamed(name)
      /\ \A n : Copies(n)' = Copies(n)
  BY <1>1, <1>2, FreshSame
<1>5. ResShape'
  <2>1. "links" \in Phases /\ res.at # "off" /\ 1 \in Nat
    BY <1>1 DEF Phases
  <2>. QED
    BY <2>1, <1>2, <1>3, <1>4, MapStays
<1>6. AreasInv'
  BY <1>1, <1>2, <1>3, <1>4, AreasStay
<1>7. MapInv'
  <2>1. \A n \in Docs : n < res.i
    BY <1>1, <1>2
  <2>2. \A n \in Docs : res.map[n] \in Copies(n)
    BY <2>1, <1>1, <1>2 DEF MapInv
  <2>. QED
    BY <2>2, <1>3, <1>4 DEF MapInv
<1>8. \A n \in Docs : ~ (n < res'.i)
  BY <1>2, <1>3
<1>. QED
  BY <1>1, <1>2, <1>3, <1>5, <1>6, <1>7, <1>8, StillKeeps

\* A note that is there already is taken for restored.
LEMMA AlreadyRestoredKeeps ==
  ASSUME RestoreInv, AlreadyRestored
  PROVE  RestoreInv'
<1>1. /\ res.at = "notes" /\ res.i <= Len(zip.notes) /\ done' = done /\ fails' = fails
      /\ notes' = notes /\ snap' = snap /\ zip' = zip /\ fresh' = fresh
      /\ FoundIn(ThisDoc) # {}
      /\ res' = [res EXCEPT !.i = @ + 1, !.map[ThisDoc.id] = CHOOSE m \in FoundIn(ThisDoc) : TRUE]
  BY DEF AlreadyRestored, In, Elsewhere, Same, libraryVars
<1>2. /\ zip # NoZip /\ ZipInv /\ FreshInv /\ ResShape /\ AreasInv /\ MapInv /\ res.i \in Nat
      /\ fails \in Nat /\ Len(zip.notes) \in Nat /\ Docs = 1 .. Len(zip.notes) /\ res.i >= 1
  BY <1>1, RestoreFacts
<1>3. /\ res.i \in Docs /\ ThisDoc.id = res.i /\ FoundIn(ThisDoc) = Copies(res.i)
  <2>1. res.i \in Docs
    BY <1>1, <1>2
  <2>2. ThisDoc = zip.notes[res.i]
    BY DEF ThisDoc
  <2>. QED
    BY <2>1, <2>2, <1>2 DEF Copies, ZipInv
<1>4. PICK m : m = CHOOSE k \in Copies(res.i) : TRUE
  OBVIOUS
<1>5. m \in Copies(res.i)
  BY <1>1, <1>3, <1>4
<1>6. PICK map : map = [res.map EXCEPT ![res.i] = m]
  OBVIOUS
<1>7. PICK i : i = res.i + 1
  OBVIOUS
<1>8. res' = [res EXCEPT !.i = i, !.map = map]
  BY <1>1, <1>3, <1>4, <1>6, <1>7
<1>9. res' = [at |-> res.at, i |-> i, live |-> res.live, map |-> map, note |-> res.note,
              thoughts |-> res.thoughts, files |-> res.files]
  BY <1>2, <1>8, ResFound DEF ResShape
<1>10. /\ Docs' = Docs /\ \A name : FreshNamed(name)' = FreshNamed(name)
       /\ \A n : Copies(n)' = Copies(n)
  BY <1>1, <1>2, FreshSame
<1>11. /\ DOMAIN map = Docs /\ map = [n \in Docs |-> map[n]] /\ map[res.i] = m
       /\ \A n \in Docs : n # res.i => map[n] = res.map[n]
  <2>1. PICK D, old : D = Docs /\ old = res.map
    OBVIOUS
  <2>2. DOMAIN old = D /\ old = [n \in D |-> old[n]]
    BY <2>1, <1>1, <1>2 DEF ResShape
  <2>. QED
    BY <2>1, <2>2, <1>3, <1>6
<1>12. ResShape'
  <2>1. i \in Nat /\ i >= 1
    BY <1>2, <1>7
  <2>2. PICK D : D = Docs
    OBVIOUS
  <2>3. Docs' = D /\ DOMAIN map = D /\ map = [n \in D |-> map[n]]
    BY <2>2, <1>10, <1>11
  <2>4. res.at \in Phases
    BY <1>1 DEF Phases
  <2>. QED
    BY <2>1, <2>3, <2>4, <1>9 DEF ResShape
<1>13. AreasInv'
  BY <1>1, <1>2, <1>9, <1>10, AreasStay
<1>14. MapInv'
  <2>1. ASSUME NEW n \in Docs, n < i
        PROVE  map[n] \in Copies(n)
    <3>1. n < res.i \/ n = res.i
      BY <2>1, <1>2, <1>7
    <3>. QED
      BY <3>1, <1>1, <1>2, <1>5, <1>11 DEF MapInv
  <2>2. res'.at = "notes" /\ res'.i = i /\ res'.map = map
    <3>1. res'.at = res.at /\ res'.i = i /\ res'.map = map
      BY <1>9
    <3>. QED
      BY <3>1, <1>1
  <2>. QED
    BY <2>1, <2>2, <1>10 DEF MapInv
<1>. QED
  BY <1>1, <1>2, <1>9, <1>12, <1>13, <1>14, StillKeeps

-----------------------------------------------------------------------------
(* The areas                                                               *)

LEMMA FreshAreas ==
  ASSUME FreshInv
  PROVE  /\ Len(fresh.areas) \in Nat /\ DOMAIN fresh.areas = 1 .. Len(fresh.areas)
         /\ Len(fresh.notes) \in Nat /\ DOMAIN fresh.notes = 1 .. Len(fresh.notes)
<1>1. PICK z, a : z = fresh.notes /\ a = fresh.areas
  OBVIOUS
<1>2. IsSeq(z) /\ IsSeq(a)
  BY <1>1 DEF FreshInv, FreshShape
<1>3. PICK S, T : S = {z[k] : k \in DOMAIN z} /\ T = {a[k] : k \in DOMAIN a}
  OBVIOUS
<1>4. z \in Seq(S) /\ a \in Seq(T)
  BY <1>2, <1>3 DEF IsSeq
<1>5. Len(z) \in Nat /\ DOMAIN z = 1 .. Len(z) /\ Len(a) \in Nat /\ DOMAIN a = 1 .. Len(a)
  BY <1>4
<1>. QED
  BY <1>1, <1>5

\* The other library's notes stay, its areas become `areas`.
LEMMA NewAreas ==
  ASSUME RestoreInv, res.at \in {"areas", "retire"}, snap' = snap, notes' = notes,
         zip' = zip, done' = done, fails' = fails,
         NEW areas, IsSeq(areas), \A a \in DOMAIN areas : IsArea(areas[a]),
         fresh' = [notes |-> fresh.notes, areas |-> areas, links |-> fresh.links],
         \A a \in DOMAIN fresh.areas : a \in DOMAIN areas /\ areas[a].name = fresh.areas[a].name,
         \A a \in DOMAIN areas : areas[a].archived =>
           \E b \in DOMAIN zip.areas : zip.areas[b].archived /\ zip.areas[b].name = areas[a].name,
         ResShape', AreasInv', res'.at \in {"areas", "retire"}
  PROVE  RestoreInv'
<1>1. /\ zip # NoZip /\ SnapInv /\ ZipInv /\ FreshInv /\ LinksInv /\ ContentsInv
  BY RestoreFacts
<1>2. fresh'.notes = fresh.notes /\ fresh'.areas = areas /\ fresh'.links = fresh.links
  OBVIOUS
<1>3. SnapInv' /\ ZipInv' /\ Docs' = Docs
  BY <1>1, SnapKeeps, ZipSame
<1>4. FreshShape'
  <2>1. PICK z : z = fresh.notes
    OBVIOUS
  <2>2. IsSeq(z) /\ \A m \in DOMAIN z : IsRow(z[m])
    BY <2>1, <1>1 DEF FreshInv, FreshShape
  <2>3. IsSeq(fresh.notes)' /\ IsSeq(fresh.areas)'
    BY <2>1, <2>2, <1>2 DEF IsSeq
  <2>4. \A m \in DOMAIN fresh'.notes : IsRow(fresh.notes[m])'
    BY <2>1, <2>2, <1>2 DEF IsRow
  <2>5. \A a \in DOMAIN fresh'.areas : IsArea(fresh.areas[a])'
    BY <1>2 DEF IsArea
  <2>6. fresh' = [notes |-> fresh'.notes, areas |-> fresh'.areas, links |-> fresh'.links]
    BY <1>2
  <2>. QED
    BY <2>3, <2>4, <2>5, <2>6 DEF FreshShape
<1>5. RetiredRight'
  BY <1>2 DEF RetiredRight
<1>6. FreshGrows
  BY <1>2 DEF FreshGrows
<1>7. /\ FreshInv'
      /\ \A n \in Docs : (\A m \in Docs : Copies(m) # {}) /\ Linked(n) => Linked(n)'
  BY <1>1, <1>4, <1>5, <1>6, GrowsKeeps
<1>8. \A n : Copies(n)' = Copies(n)
  <2>. SUFFICES ASSUME NEW n PROVE Copies(n)' = Copies(n)
    OBVIOUS
  <2>1. PICK h : h = ExportId(zip.notes[n])
    OBVIOUS
  <2>2. h = ExportId(zip.notes[n])'
    BY <2>1, ZipSame
  <2>3. Copies(n) = {m \in DOMAIN fresh.notes : fresh.notes[m].hash = h}
    BY <2>1 DEF Copies, FoundIn
  <2>4. Copies(n)' = {m \in DOMAIN fresh'.notes : fresh'.notes[m].hash = h}
    BY <2>2 DEF Copies, FoundIn
  <2>. QED
    BY <2>3, <2>4, <1>2
<1>9. MapInv'
  BY DEF MapInv
<1>10. LinksInv'
  BY <1>1, <1>3, <1>7, <1>8 DEF LinksInv
<1>11. ContentsInv'
  <2>1. ASSUME fails = 0, NEW n \in Docs, NEW m \in Copies(n)
        PROVE  Whole(zip.notes[n], m)'
    <3>1. Whole(zip.notes[n], m)
      BY <2>1, <1>1 DEF ContentsInv
    <3>2. PICK d : d = zip.notes[n]
      OBVIOUS
    <3>3. Whole(d, m)'
      BY <3>1, <3>2, <1>2, ZipSame DEF Whole
    <3>. QED
      BY <3>2, <3>3, WholeAt
  <2>. QED
    BY <2>1, <1>1, <1>3, <1>8 DEF ContentsInv
<1>. QED
  BY <1>1, <1>3, <1>7, <1>9, <1>10, <1>11 DEF RestoreInv

LEMMA RestoreAreaKeeps ==
  ASSUME RestoreInv, RestoreArea
  PROVE  RestoreInv'
<1>1. /\ res.at = "areas" /\ res.i <= Len(zip.areas) /\ done' = done /\ fails' = fails
      /\ notes' = notes /\ snap' = snap /\ zip' = zip
  BY DEF RestoreArea, In, Elsewhere, Same, libraryVars
<1>2. /\ zip # NoZip /\ ZipInv /\ FreshInv /\ ResShape /\ AreasInv /\ res.i \in Nat /\ res.i >= 1
      /\ fails \in Nat /\ Len(zip.areas) \in Nat /\ DOMAIN zip.areas = 1 .. Len(zip.areas)
      /\ Docs = 1 .. Len(zip.notes)
  BY <1>1, RestoreFacts
<1>3. PICK name : name = zip.areas[res.i].name
  OBVIOUS
<1>4. res.i \in DOMAIN zip.areas /\ ThisArea = zip.areas[res.i] /\ res.i + 1 \in Nat /\ res.i + 1 >= 1
  BY <1>1, <1>2 DEF ThisArea
<1>5. \A b \in DOMAIN zip.areas : b < res.i => FreshNamed(zip.areas[b].name) # {}
  BY <1>1, <1>2 DEF AreasInv
<1>6. PICK parent :
        \/ fresh' = fresh /\ FreshNamed(name) # {} /\ res' = [res EXCEPT !.i = res.i + 1]
        \/ fresh' = fresh /\ res' = NoRestore
        \/ /\ fresh' = [fresh EXCEPT !.areas = Append(@,
                          [name |-> name, parent |-> parent, archived |-> FALSE])]
           /\ res' = IF ThisArea.archived THEN [res EXCEPT !.at = "retire"]
                     ELSE [res EXCEPT !.i = res.i + 1]
  <2>1. PICK parent : parent = LET parents == FreshNamed(ThisArea.parent)
                               IN  IF parents = {} THEN 0 ELSE CHOOSE a \in parents : TRUE
    OBVIOUS
  <2>. QED
    BY <2>1, <1>3, <1>4 DEF RestoreArea
<1>7. CASE fresh' = fresh /\ FreshNamed(name) # {} /\ res' = [res EXCEPT !.i = res.i + 1]
  <2>1. res' = [at |-> res.at, i |-> res.i + 1, live |-> res.live, map |-> res.map,
                note |-> res.note, thoughts |-> res.thoughts, files |-> res.files]
    BY <1>2, <1>7 DEF ResShape
  <2>2. Docs' = Docs /\ \A x : FreshNamed(x)' = FreshNamed(x)
    BY <1>1, <1>2, <1>7, FreshSame
  <2>3. ResShape'
    <3>1. res.at \in Phases /\ res.at # "off"
      BY <1>1 DEF Phases
    <3>. QED
      BY <3>1, <2>1, <2>2, <1>2, <1>4, MapStays
  <2>4. ASSUME NEW b \in DOMAIN zip.areas, b < res.i + 1
        PROVE  FreshNamed(zip.areas[b].name)' # {}
    <3>1. PICK x : x = zip.areas[b].name
      OBVIOUS
    <3>2. FreshNamed(x) # {}
      <4>1. b < res.i \/ b = res.i
        BY <2>4, <1>2
      <4>. QED
        BY <4>1, <3>1, <1>3, <1>5, <1>7
    <3>3. FreshNamed(x)' # {} /\ x = zip'.areas[b].name
      BY <3>1, <3>2, <2>2, <1>1
    <3>. QED
      BY <3>3 DEF FreshNamed
  <2>5. res'.at = "areas" /\ res'.i = res.i + 1
    <3>1. res'.at = res.at /\ res'.i = res.i + 1
      BY <2>1
    <3>. QED
      BY <3>1, <1>1
  <2>6. AreasInv' /\ MapInv'
    BY <2>4, <2>5, <1>1 DEF AreasInv, MapInv
  <2>. QED
    BY <1>1, <1>2, <1>7, <2>3, <2>5, <2>6, StillKeeps
<1>8. CASE fresh' = fresh /\ res' = NoRestore
  BY <1>1, <1>2, <1>8, OffKeeps
<1>9. CASE /\ fresh' = [fresh EXCEPT !.areas = Append(@,
                          [name |-> name, parent |-> parent, archived |-> FALSE])]
           /\ res' = IF ThisArea.archived THEN [res EXCEPT !.at = "retire"]
                     ELSE [res EXCEPT !.i = res.i + 1]
  <2>1. PICK r : r = [name |-> name, parent |-> parent, archived |-> FALSE]
    OBVIOUS
  <2>2. PICK old : old = fresh.areas
    OBVIOUS
  <2>3. PICK areas : areas = Append(old, r)
    OBVIOUS
  <2>4. /\ IsSeq(old) /\ \A a \in DOMAIN old : IsArea(old[a])
        /\ fresh = [notes |-> fresh.notes, areas |-> fresh.areas, links |-> fresh.links]
    BY <2>2, <1>2 DEF FreshInv, FreshShape
  <2>5. fresh' = [notes |-> fresh.notes, areas |-> areas, links |-> fresh.links]
    <3>1. fresh' = [fresh EXCEPT !.areas = areas]
      BY <2>1, <2>2, <2>3, <1>9
    <3>. QED
      BY <3>1, <2>4
  <2>6. PICK k : k = Len(old) + 1
    OBVIOUS
  <2>7. /\ DOMAIN areas = DOMAIN old \union {k} /\ areas[k] = r /\ k \notin DOMAIN old
        /\ IsSeq(areas) /\ Len(areas) = k /\ \A a \in DOMAIN old : areas[a] = old[a]
    <3>1. IsSeq(old)
      BY <2>4
    <3>2. /\ Len(old) \in Nat /\ DOMAIN old = 1 .. Len(old) /\ Len(areas) = Len(old) + 1
          /\ Len(old) + 1 \notin DOMAIN old /\ DOMAIN areas = DOMAIN old \union {Len(old) + 1}
          /\ areas[Len(old) + 1] = r /\ \A a \in DOMAIN old : areas[a] = old[a]
          /\ IsSeq(areas)
      <4>1. Added(areas, old, r)
        BY <2>3 DEF Added
      <4>. QED
        BY <3>1, <4>1, AppendSeq
    <3>. QED
      BY <3>2, <2>6
  <2>8. r.name = name /\ r.archived = FALSE /\ IsArea(r)
    BY <2>1 DEF IsArea
  <2>9. \A a \in DOMAIN areas : IsArea(areas[a])
    BY <2>4, <2>7, <2>8
  <2>10. \A a \in DOMAIN fresh.areas : a \in DOMAIN areas /\ areas[a].name = fresh.areas[a].name
    BY <2>2, <2>7
  <2>11. \A a \in DOMAIN areas : areas[a].archived =>
           \E b \in DOMAIN zip.areas : zip.areas[b].archived /\ zip.areas[b].name = areas[a].name
    <3>1. \A a \in DOMAIN old : old[a].archived =>
            \E b \in DOMAIN zip.areas : zip.areas[b].archived /\ zip.areas[b].name = old[a].name
      BY <2>2, <1>2 DEF FreshInv, RetiredRight
    <3>. QED
      BY <3>1, <2>7, <2>8
  <2>12. fresh'.areas = areas /\ Docs' = Docs
    BY <2>5, <1>1 DEF Docs
  <2>13. ASSUME NEW b \in DOMAIN zip.areas, b < res.i + 1
         PROVE  FreshNamed(zip.areas[b].name)' # {}
    <3>1. PICK x : x = zip.areas[b].name
      OBVIOUS
    <3>2. FreshNamed(x)' # {}
      <4>1. CASE b < res.i
        <5>1. PICK a \in DOMAIN old : old[a].name = x
          BY <4>1, <3>1, <2>2, <1>5 DEF FreshNamed
        <5>2. a \in DOMAIN areas /\ areas[a].name = x
          BY <5>1, <2>7
        <5>. QED
          BY <5>2, <2>12 DEF FreshNamed
      <4>2. CASE b = res.i
        <5>1. k \in DOMAIN areas /\ areas[k].name = x
          BY <4>2, <3>1, <2>7, <2>8, <1>3
        <5>. QED
          BY <5>1, <2>12 DEF FreshNamed
      <4>. QED
        BY <4>1, <4>2, <2>13, <1>2
    <3>3. FreshNamed(x)' # {} /\ x = zip'.areas[b].name
      BY <3>1, <3>2, <1>1
    <3>. QED
      BY <3>3 DEF FreshNamed
  <2>14. CASE ThisArea.archived
    <3>1. res' = [res EXCEPT !.at = "retire"]
      BY <2>14, <1>9
    <3>2. res' = [at |-> "retire", i |-> res.i, live |-> res.live, map |-> res.map,
                  note |-> res.note, thoughts |-> res.thoughts, files |-> res.files]
      BY <3>1, <1>2 DEF ResShape
    <3>3. "retire" \in Phases /\ res.at # "off"
      BY <1>1 DEF Phases
    <3>4. ResShape'
      BY <3>2, <3>3, <2>12, <1>2, MapStays
    <3>5. res'.at = "retire" /\ res'.i = res.i
      BY <3>2
    <3>6. Len(fresh.areas)' \in FreshNamed(zip.areas[res.i].name)'
      <4>1. Len(fresh'.areas) = k /\ k \in DOMAIN areas /\ areas[k].name = name
        BY <2>7, <2>8, <2>12
      <4>2. zip'.areas[res'.i].name = name
        BY <3>5, <1>1, <1>3
      <4>. QED
        BY <4>1, <4>2, <2>12 DEF FreshNamed
    <3>7. \A b \in DOMAIN zip'.areas : b < res'.i => FreshNamed(zip.areas[b].name)' # {}
      <4>1. \A b \in DOMAIN zip'.areas : b < res'.i => b < res.i + 1 /\ b \in DOMAIN zip.areas
        BY <3>5, <1>1, <1>2
      <4>. QED
        BY <4>1, <2>13
    <3>8. res'.i \in DOMAIN zip'.areas /\ zip'.areas[res'.i].archived
      BY <3>5, <2>14, <1>1, <1>4
    <3>9. AreasInv'
      BY <3>5, <3>6, <3>7, <3>8 DEF AreasInv
    <3>. QED
      BY <1>1, <2>5, <2>7, <2>9, <2>10, <2>11, <3>4, <3>5, <3>9, NewAreas
  <2>15. CASE ~ThisArea.archived
    <3>1. res' = [res EXCEPT !.i = res.i + 1]
      BY <2>15, <1>9
    <3>2. res' = [at |-> res.at, i |-> res.i + 1, live |-> res.live, map |-> res.map,
                  note |-> res.note, thoughts |-> res.thoughts, files |-> res.files]
      BY <3>1, <1>2 DEF ResShape
    <3>3. res.at \in Phases /\ res.at # "off"
      BY <1>1 DEF Phases
    <3>4. ResShape'
      BY <3>2, <3>3, <2>12, <1>2, <1>4, MapStays
    <3>5. res'.at = "areas" /\ res'.i = res.i + 1
      <4>1. res'.at = res.at /\ res'.i = res.i + 1
        BY <3>2
      <4>. QED
        BY <4>1, <1>1
    <3>6. AreasInv'
      BY <3>5, <2>13, <1>1 DEF AreasInv
    <3>. QED
      BY <1>1, <2>5, <2>7, <2>9, <2>10, <2>11, <3>4, <3>5, <3>6, NewAreas
  <2>. QED
    BY <2>14, <2>15
<1>. QED
  BY <1>6, <1>7, <1>8, <1>9

LEMMA RetireRestoredKeeps ==
  ASSUME RestoreInv, RetireRestored
  PROVE  RestoreInv'
<1>1. /\ res.at = "retire" /\ done' = done /\ fails' = fails
      /\ notes' = notes /\ snap' = snap /\ zip' = zip
      /\ fresh' = [fresh EXCEPT !.areas[Len(fresh.areas)].archived = TRUE]
      /\ res' = [res EXCEPT !.at = "areas", !.i = @ + 1]
  BY DEF RetireRestored, In, Elsewhere, Same, libraryVars
<1>2. /\ zip # NoZip /\ ZipInv /\ FreshInv /\ ResShape /\ AreasInv /\ res.i \in Nat /\ res.i >= 1
      /\ Len(zip.areas) \in Nat /\ DOMAIN zip.areas = 1 .. Len(zip.areas)
  BY <1>1, RestoreFacts
<1>3. PICK k : k = Len(fresh.areas)
  OBVIOUS
<1>4. PICK old : old = fresh.areas
  OBVIOUS
<1>5. /\ res.i \in DOMAIN zip.areas /\ zip.areas[res.i].archived
      /\ k \in DOMAIN old /\ old[k].name = zip.areas[res.i].name
      /\ \A b \in DOMAIN zip.areas : b < res.i => FreshNamed(zip.areas[b].name) # {}
  BY <1>1, <1>2, <1>3, <1>4 DEF AreasInv, FreshNamed
<1>6. PICK o : o = old[k]
  OBVIOUS
<1>7. PICK r : r = [o EXCEPT !.archived = TRUE]
  OBVIOUS
<1>8. /\ IsSeq(old) /\ \A a \in DOMAIN old : IsArea(old[a])
      /\ fresh = [notes |-> fresh.notes, areas |-> fresh.areas, links |-> fresh.links]
  BY <1>2, <1>4 DEF FreshInv, FreshShape
<1>9. r.name = o.name /\ IsArea(r)
  <2>1. o = [name |-> o.name, parent |-> o.parent, archived |-> o.archived]
    BY <1>5, <1>6, <1>8 DEF IsArea
  <2>2. r = [name |-> o.name, parent |-> o.parent, archived |-> TRUE]
    BY <2>1, <1>7
  <2>. QED
    BY <2>2 DEF IsArea
<1>10. PICK areas : areas = [old EXCEPT ![k] = r]
  OBVIOUS
<1>11. /\ DOMAIN areas = DOMAIN old /\ areas[k] = r /\ IsSeq(areas)
       /\ \A a \in DOMAIN old : a # k => areas[a] = old[a]
  BY <1>5, <1>8, <1>10, PutSeq
<1>12. fresh' = [notes |-> fresh.notes, areas |-> areas, links |-> fresh.links]
  <2>1. fresh' = [fresh EXCEPT !.areas = [old EXCEPT ![k] = [old[k] EXCEPT !.archived = TRUE]]]
    BY <1>1, <1>3, <1>4
  <2>2. fresh' = [fresh EXCEPT !.areas = areas]
    BY <2>1, <1>6, <1>7, <1>10
  <2>. QED
    BY <2>2, <1>8
<1>13. \A a \in DOMAIN areas : IsArea(areas[a])
  BY <1>8, <1>9, <1>11
<1>14. \A a \in DOMAIN fresh.areas : a \in DOMAIN areas /\ areas[a].name = fresh.areas[a].name
  BY <1>4, <1>6, <1>9, <1>11
<1>15. \A a \in DOMAIN areas : areas[a].archived =>
         \E b \in DOMAIN zip.areas : zip.areas[b].archived /\ zip.areas[b].name = areas[a].name
  <2>1. \A a \in DOMAIN old : old[a].archived =>
          \E b \in DOMAIN zip.areas : zip.areas[b].archived /\ zip.areas[b].name = old[a].name
    BY <1>2, <1>4 DEF FreshInv, RetiredRight
  <2>. QED
    BY <2>1, <1>5, <1>6, <1>9, <1>11
<1>16. PICK i : i = res.i + 1
  OBVIOUS
<1>17. res' = [at |-> "areas", i |-> i, live |-> res.live, map |-> res.map, note |-> res.note,
               thoughts |-> res.thoughts, files |-> res.files]
  <2>1. res' = [res EXCEPT !.at = "areas", !.i = i]
    BY <1>1, <1>16
  <2>. QED
    BY <2>1, <1>2, ResTurned DEF ResShape
<1>18. fresh'.areas = areas /\ Docs' = Docs
  BY <1>1, <1>12 DEF Docs
<1>19. ResShape'
  <2>1. "areas" \in Phases /\ res.at # "off" /\ i \in Nat /\ i >= 1
    BY <1>1, <1>2, <1>16 DEF Phases
  <2>. QED
    BY <2>1, <1>2, <1>17, <1>18, MapStays
<1>20. ASSUME NEW b \in DOMAIN zip.areas, b < i
       PROVE  FreshNamed(zip.areas[b].name)' # {}
  <2>1. PICK x : x = zip.areas[b].name
    OBVIOUS
  <2>2. PICK a \in DOMAIN old : old[a].name = x
    <3>1. b < res.i \/ b = res.i
      BY <1>2, <1>16, <1>20
    <3>2. CASE b < res.i
      BY <3>2, <2>1, <1>4, <1>5 DEF FreshNamed
    <3>3. CASE b = res.i
      BY <3>3, <2>1, <1>5
    <3>. QED
      BY <3>1, <3>2, <3>3
  <2>3. a \in DOMAIN areas /\ areas[a].name = x /\ x = zip'.areas[b].name
    BY <2>1, <2>2, <1>1, <1>4, <1>14, <1>11
  <2>. QED
    BY <2>3, <1>18 DEF FreshNamed
<1>21. res'.at = "areas" /\ res'.i = i
  BY <1>17
<1>22. AreasInv'
  BY <1>1, <1>20, <1>21 DEF AreasInv
<1>. QED
  BY <1>1, <1>11, <1>12, <1>13, <1>14, <1>15, <1>19, <1>21, <1>22, NewAreas

-----------------------------------------------------------------------------
(* The notes                                                               *)

\* The Thoughts read back are a sequence.
LEMMA BackSeq ==
  ASSUME NEW d, d.thoughts \in Seq(STRING)
  PROVE  ThoughtsBack(d.thoughts) \in Seq(Words(d))
<1>1. PICK s : s = d.thoughts
  OBVIOUS
<1>2. PICK kept : kept = {k \in DOMAIN s : Back(s[k]) # Blank}
  OBVIOUS
<1>3. Len(s) \in Nat /\ kept \in SUBSET (1 .. Len(s))
  BY <1>1, <1>2
<1>4. IsFiniteSet(1 .. Len(s))
  BY <1>3, FS_Interval
<1>5. IsFiniteSet(kept)
  BY <1>3, <1>4, FS_Subset
<1>6. Cardinality(kept) \in Nat
  BY <1>5, FS_CardinalityType
<1>7. PICK N : N = Cardinality(kept)
  OBVIOUS
<1>8. PICK t : t = ThoughtsBack(d.thoughts)
  OBVIOUS
<1>9. t = [j \in 1 .. N |-> Back(s[CHOOSE k \in kept : Cardinality({i \in kept : i <= k}) = j])]
  BY <1>1, <1>2, <1>7, <1>8 DEF ThoughtsBack
<1>10. DOMAIN t = 1 .. N /\ t = [k \in 1 .. N |-> t[k]] /\ N \in Nat
  BY <1>6, <1>7, <1>9
<1>11. IsSeq(t)
  BY <1>10, MadeSeq
<1>. QED
  BY <1>8, <1>11 DEF IsSeq, Words

\* What a copy owes its document.
RowRight(d, copy) ==
  /\ copy.body = Back(d.body)
  /\ copy.area # 0 => copy.area \in DOMAIN fresh.areas /\ fresh.areas[copy.area].name = d.area
  /\ copy.area = 0 => Homeless(d)
  /\ copy.status = d.status \/ copy.area = 0

\* The home is an area of the name, unless one of that name is archived.
LEMMA HomeRight ==
  ASSUME RestoreInv, res.at = "notes", NEW n \in Docs
  PROVE  LET d == zip.notes[n] IN
         /\ HomeOf(d) # 0 => HomeOf(d) \in DOMAIN fresh.areas /\ fresh.areas[HomeOf(d)].name = d.area
         /\ HomeOf(d) = 0 => Homeless(d)
         /\ StatusFor(d) = d.status \/ HomeOf(d) = 0
<1>1. ZipInv /\ FreshInv /\ AreasInv
  BY RestoreFacts
<1>2. /\ \A b \in DOMAIN zip.areas : FreshNamed(zip.areas[b].name) # {}
      /\ res.live = {a \in DOMAIN fresh.areas : ~fresh.areas[a].archived}
  BY <1>1 DEF AreasInv
<1>3. Len(fresh.areas) \in Nat /\ DOMAIN fresh.areas = 1 .. Len(fresh.areas)
  BY <1>1, FreshAreas
<1>4. PICK d : d = zip.notes[n]
  OBVIOUS
<1>5. PICK S : S = {a \in res.live : fresh.areas[a].name = d.area}
  OBVIOUS
<1>6. S \subseteq DOMAIN fresh.areas /\ S \subseteq 0 .. Len(fresh.areas) /\ 0 \notin S
  BY <1>2, <1>3, <1>5
<1>7. CASE S = {}
  <2>1. HomeOf(d) = 0
    BY <1>5, <1>7 DEF HomeOf
  <2>2. Homeless(d)
    <3>1. CASE d.area = ""
      BY <3>1 DEF Homeless
    <3>2. CASE d.area # ""
      <4>1. PICK b \in DOMAIN zip.areas : zip.areas[b].name = d.area
        BY <3>2, <1>1, <1>4 DEF ZipInv
      <4>2. PICK x : x = zip.areas[b].name
        OBVIOUS
      <4>3. FreshNamed(x) # {}
        BY <4>2, <1>2
      <4>4. PICK a \in DOMAIN fresh.areas : fresh.areas[a].name = d.area
        BY <4>1, <4>2, <4>3 DEF FreshNamed
      <4>5. fresh.areas[a].archived
        BY <4>4, <1>2, <1>5, <1>7
      <4>6. \E e \in DOMAIN zip.areas : zip.areas[e].archived /\ zip.areas[e].name = d.area
        BY <4>4, <4>5, <1>1 DEF FreshInv, RetiredRight
      <4>. QED
        BY <4>6 DEF Homeless
    <3>. QED
      BY <3>1, <3>2
  <2>. QED
    BY <2>1, <2>2, <1>4
<1>8. CASE S # {}
  <2>1. \E a \in S : \A b \in S : b <= a
    BY <1>3, <1>6, <1>8, GreatestNat
  <2>2. HomeOf(d) = CHOOSE a \in S : \A b \in S : b <= a
    BY <1>5, <1>8 DEF HomeOf
  <2>3. HomeOf(d) \in S
    BY <2>1, <2>2
  <2>4. HomeOf(d) \in DOMAIN fresh.areas /\ fresh.areas[HomeOf(d)].name = d.area /\ HomeOf(d) # 0
    BY <2>3, <1>5, <1>6
  <2>5. StatusFor(d) = d.status
    BY <2>4 DEF StatusFor
  <2>. QED
    BY <2>4, <2>5, <1>4
<1>9. StatusFor(d) = d.status \/ HomeOf(d) = 0
  BY DEF StatusFor
<1>. QED
  BY <1>7, <1>8

\* One more note in the other library, which is no second copy.
LEMMA NewRow ==
  ASSUME ZipInv, FreshInv, zip' = zip, NEW row, IsRow(row),
         NEW new, Added(new, fresh.notes, row),
         fresh' = [notes |-> new, areas |-> fresh.areas, links |-> fresh.links],
         \A n \in Docs : row.hash = ExportId(zip.notes[n]) =>
           Copies(n) = {} /\ RowRight(zip.notes[n], row)
  PROVE  /\ FreshInv' /\ Docs' = Docs
         /\ Len(fresh.notes) \in Nat
         /\ fresh'.notes[Len(fresh.notes) + 1] = row
         /\ \A m \in DOMAIN fresh.notes : fresh'.notes[m] = fresh.notes[m]
         /\ \A n \in Docs : Copies(n)' = IF row.hash = ExportId(zip.notes[n])
                                         THEN {Len(fresh.notes) + 1} ELSE Copies(n)
         /\ \A n \in Docs : (\A m \in Docs : Copies(m) # {}) /\ Linked(n) => Linked(n)'
<1>1. PICK old, k : old = fresh.notes /\ k = Len(old) + 1
  OBVIOUS
<1>2. IsSeq(old) /\ \A m \in DOMAIN old : IsRow(old[m])
  BY <1>1 DEF FreshInv, FreshShape
<1>3. /\ Len(old) \in Nat /\ k \notin DOMAIN old /\ DOMAIN new = DOMAIN old \union {k}
      /\ new[k] = row /\ \A m \in DOMAIN old : new[m] = old[m]
      /\ IsSeq(new)
  <2>1. Added(new, old, row)
    BY <1>1
  <2>2. /\ Len(old) \in Nat /\ DOMAIN old = 1 .. Len(old) /\ Len(new) = Len(old) + 1
        /\ Len(old) + 1 \notin DOMAIN old /\ DOMAIN new = DOMAIN old \union {Len(old) + 1}
        /\ new[Len(old) + 1] = row /\ \A m \in DOMAIN old : new[m] = old[m]
        /\ IsSeq(new)
    BY <2>1, <1>2, AppendSeq
  <2>. QED
    BY <2>2, <1>1
<1>4. /\ fresh'.notes = new /\ fresh'.areas = fresh.areas /\ fresh'.links = fresh.links
      /\ fresh' = [notes |-> fresh'.notes, areas |-> fresh'.areas, links |-> fresh'.links]
  OBVIOUS
<1>5. Docs' = Docs /\ \A n : ExportId(zip.notes[n])' = ExportId(zip.notes[n])
  BY ZipSame
<1>6. FreshShape'
  <2>1. PICK areas : areas = fresh.areas
    OBVIOUS
  <2>2. IsSeq(areas) /\ \A a \in DOMAIN areas : IsArea(areas[a])
    BY <2>1 DEF FreshInv, FreshShape
  <2>3. IsSeq(fresh.notes)' /\ IsSeq(fresh.areas)'
    BY <2>1, <2>2, <1>3, <1>4 DEF IsSeq
  <2>4. \A m \in DOMAIN new : IsRow(new[m])
    BY <1>2, <1>3
  <2>5. \A m \in DOMAIN fresh'.notes : IsRow(fresh.notes[m])'
    BY <2>4, <1>4 DEF IsRow
  <2>6. \A a \in DOMAIN fresh'.areas : IsArea(fresh.areas[a])'
    BY <2>1, <2>2, <1>4 DEF IsArea
  <2>. QED
    BY <2>3, <2>5, <2>6, <1>4 DEF FreshShape
<1>7. RetiredRight'
  BY <1>4 DEF FreshInv, RetiredRight
<1>8. ASSUME NEW n \in Docs, row.hash = ExportId(zip.notes[n])
      PROVE  CopyRight(zip.notes[n], k)'
  <2>1. PICK d : d = zip.notes[n]
    OBVIOUS
  <2>2. RowRight(d, row) /\ Homeless(d)' = Homeless(d) /\ d = zip'.notes[n]
    BY <2>1, <1>8, ZipSame
  <2>3. fresh'.notes[k] = row
    BY <1>3, <1>4
  <2>4. CopyRight(d, k)'
    BY <2>2, <2>3, <1>4 DEF CopyRight, RowRight
  <2>. QED
    BY <2>2, <2>4 DEF CopyRight, Homeless
<1>9. FreshGrows
  <2>1. ASSUME NEW m \in DOMAIN new, m \notin DOMAIN old
        PROVE  m = k
    BY <2>1, <1>3
  <2>2. \A n \in Docs : row.hash = ExportId(zip.notes[n]) => Copies(n) = {}
    OBVIOUS
  <2>3. ASSUME NEW m \in DOMAIN fresh'.notes, m \notin DOMAIN fresh.notes
        PROVE  /\ m = Len(fresh.notes) + 1
               /\ \A n \in Docs : fresh'.notes[m].hash = ExportId(zip.notes[n]) =>
                    Copies(n) = {} /\ CopyRight(zip.notes[n], m)'
    <3>1. m = k
      BY <2>1, <2>3, <1>1, <1>4
    <3>2. fresh'.notes[m] = row
      BY <3>1, <1>3, <1>4
    <3>3. ASSUME NEW n \in Docs, row.hash = ExportId(zip.notes[n])
          PROVE  CopyRight(zip.notes[n], m)'
      BY <3>1, <3>3, <1>8
    <3>. QED
      BY <3>1, <3>2, <3>3, <2>2, <1>1
  <2>4. \A m \in DOMAIN fresh.notes : m \in DOMAIN fresh'.notes /\ fresh'.notes[m] = fresh.notes[m]
    BY <1>1, <1>3, <1>4
  <2>. QED
    BY <2>3, <2>4, <1>4 DEF FreshGrows
<1>10. FreshInv' /\ \A n \in Docs : (\A m \in Docs : Copies(m) # {}) /\ Linked(n) => Linked(n)'
  BY <1>6, <1>7, <1>9, GrowsKeeps
<1>11. ASSUME NEW n \in Docs
       PROVE  Copies(n)' = IF row.hash = ExportId(zip.notes[n]) THEN {k} ELSE Copies(n)
  <2>1. PICK h : h = ExportId(zip.notes[n])
    OBVIOUS
  <2>2. h = ExportId(zip.notes[n])'
    BY <2>1, <1>5
  <2>3. Copies(n) = {m \in DOMAIN old : old[m].hash = h}
    BY <2>1, <1>1 DEF Copies, FoundIn
  <2>4. Copies(n)' = {m \in DOMAIN new : new[m].hash = h}
    BY <2>2, <1>4 DEF Copies, FoundIn
  <2>5. row.hash = h => Copies(n) = {}
    BY <2>1
  <2>. QED
    BY <2>1, <2>3, <2>4, <2>5, <1>3
<1>. QED
  BY <1>1, <1>3, <1>4, <1>5, <1>10, <1>11

LEMMA WholeKept ==
  ASSUME zip' = zip, NEW n, NEW m, Whole(zip.notes[n], m), fresh'.notes[m] = fresh.notes[m]
  PROVE  Whole(zip.notes[n], m)'
<1>1. PICK d : d = zip.notes[n]
  OBVIOUS
<1>2. ThoughtsBack(d.thoughts)' = ThoughtsBack(d.thoughts)
  BY ZipSame
<1>3. Whole(d, m)'
  BY <1>1, <1>2 DEF Whole
<1>. QED
  BY <1>1, <1>3, WholeAt

\* What the restore has in hand of the note it is at.
LEMMA InHandAt ==
  ASSUME zip' = zip, NEW n, NEW d, d = zip.notes[n], InHand(d)'
  PROVE  InHand(zip.notes[n])'
<1>1. d = zip'.notes[n]
  OBVIOUS
<1>2. ThoughtsBack(zip.notes[n].thoughts)' = ThoughtsBack(d.thoughts)'
  BY <1>1 DEF ThoughtsBack, Back
<1>3. Words(zip.notes[n])' = Words(d)'
  BY <1>2 DEF Words
<1>. QED
  BY <1>1, <1>2, <1>3 DEF InHand

LEMMA StillInHand ==
  ASSUME zip' = zip, Docs' = Docs, fails' \in Nat, NEW i, res'.at = "contents", res'.i = i,
         NEW d, d = zip.notes[i], NEW copy, copy = fresh'.notes[res'.note],
         res'.thoughts \in Seq(Words(d)), copy.thoughts \in Seq(Words(d)),
         copy.thoughts \o res'.thoughts = ThoughtsBack(d.thoughts),
         copy.files \union res'.files = d.files,
         fails' = 0 => \A n \in Docs : \A m \in Copies(n)' : n # i => Whole(zip.notes[n], m)'
  PROVE  ContentsInv'
<1>1. PICK W, T : W = Words(d) /\ T = ThoughtsBack(d.thoughts)
  OBVIOUS
<1>2. W = Words(d)' /\ T = ThoughtsBack(d.thoughts)'
  BY <1>1, ZipSame
<1>3. InHand(d)'
  <2>1. /\ res'.thoughts \in Seq(W) /\ copy.thoughts \in Seq(W)
        /\ copy.thoughts \o res'.thoughts = T /\ copy.files \union res'.files = d.files
    BY <1>1
  <2>. QED
    BY <2>1, <1>2 DEF InHand
<1>4. InHand(zip.notes[i])'
  BY <1>3, InHandAt
<1>5. \A n \in Docs' : res'.at = "contents" /\ res'.i = n => InHand(zip.notes[n])'
  BY <1>4
<1>6. fails' = 0 => \A n \in Docs' : \A m \in Copies(n)' :
        Whole(zip.notes[n], m)' \/ (res'.at = "contents" /\ res'.i = n)
  OBVIOUS
<1>. QED
  BY <1>5, <1>6 DEF ContentsInv

LEMMA ResNoted ==
  ASSUME NEW r,
         r = [at |-> r.at, i |-> r.i, live |-> r.live, map |-> r.map,
              note |-> r.note, thoughts |-> r.thoughts, files |-> r.files],
         NEW note, NEW map, NEW thoughts, NEW files,
         NEW z, z = [r EXCEPT !.at = "contents", !.note = note, !.map = map,
                              !.thoughts = thoughts, !.files = files]
  PROVE  z = [at |-> "contents", i |-> r.i, live |-> r.live, map |-> map,
              note |-> note, thoughts |-> thoughts, files |-> files]
<1>1. PICK a : a = [r EXCEPT !.at = "contents"]
  OBVIOUS
<1>2. PICK b : b = [a EXCEPT !.note = note]
  OBVIOUS
<1>3. PICK c : c = [b EXCEPT !.map = map]
  OBVIOUS
<1>4. PICK e : e = [c EXCEPT !.thoughts = thoughts]
  OBVIOUS
<1>5. z = [e EXCEPT !.files = files]
  BY <1>1, <1>2, <1>3, <1>4
<1>6. a = [at |-> "contents", i |-> r.i, live |-> r.live, map |-> r.map,
           note |-> r.note, thoughts |-> r.thoughts, files |-> r.files]
  BY <1>1
<1>7. b = [at |-> "contents", i |-> r.i, live |-> r.live, map |-> r.map,
           note |-> note, thoughts |-> r.thoughts, files |-> r.files]
  BY <1>2, <1>6
<1>8. c = [at |-> "contents", i |-> r.i, live |-> r.live, map |-> map,
           note |-> note, thoughts |-> r.thoughts, files |-> r.files]
  BY <1>3, <1>7
<1>9. e = [at |-> "contents", i |-> r.i, live |-> r.live, map |-> map,
           note |-> note, thoughts |-> thoughts, files |-> r.files]
  BY <1>4, <1>8
<1>. QED
  BY <1>5, <1>9

LEMMA RestoreNoteKeeps ==
  ASSUME RestoreInv, _restore_note
  PROVE  RestoreInv'
<1>1. PICK i, d : i = res.i /\ d = zip.notes[i]
  OBVIOUS
<1>2. ThisDoc = d
  BY <1>1 DEF ThisDoc
<1>3. PICK row : row = [title |-> d.title, body |-> Back(d.body), status |-> StatusFor(d),
                        area |-> HomeOf(d), hash |-> ExportId(d), thoughts |-> <<>>,
                        files |-> {}, updated |-> "restored"]
  OBVIOUS
<1>4. PICK k : k = Len(fresh.notes) + 1
  OBVIOUS
<1>5. /\ res.at = "notes" /\ i <= Len(zip.notes) /\ FoundIn(d) = {}
      /\ fresh' = [fresh EXCEPT !.notes = Append(@, row)]
      /\ res' = [res EXCEPT !.at = "contents", !.note = k, !.map[d.id] = k,
                            !.thoughts = ThoughtsBack(d.thoughts), !.files = d.files]
      /\ done' = done /\ fails' = fails /\ notes' = notes /\ snap' = snap /\ zip' = zip
  BY <1>1, <1>2, <1>3, <1>4 DEF _restore_note, In, Elsewhere, Same, libraryVars
<1>6. /\ zip # NoZip /\ SnapInv /\ ZipInv /\ FreshInv /\ ResShape /\ AreasInv /\ MapInv
      /\ LinksInv /\ ContentsInv
      /\ i \in Nat /\ i >= 1 /\ fails \in Nat
      /\ Len(zip.notes) \in Nat /\ Docs = 1 .. Len(zip.notes)
  BY <1>1, <1>5, RestoreFacts
<1>7. i \in Docs /\ d.id = i /\ d.thoughts \in Seq(STRING) /\ Copies(i) = {}
  <2>1. i \in Docs
    BY <1>5, <1>6
  <2>. QED
    BY <2>1, <1>1, <1>5, <1>6 DEF ZipInv, Copies
<1>8. PICK old, new : old = fresh.notes /\ new = Append(old, row)
  OBVIOUS
<1>9. Added(new, fresh.notes, row)
  BY <1>8 DEF Added
<1>10. fresh' = [notes |-> new, areas |-> fresh.areas, links |-> fresh.links]
  <2>1. fresh = [notes |-> fresh.notes, areas |-> fresh.areas, links |-> fresh.links]
    BY <1>6 DEF FreshInv, FreshShape
  <2>2. fresh' = [fresh EXCEPT !.notes = new]
    BY <1>5, <1>8
  <2>. QED
    BY <2>1, <2>2
<1>11. IsRow(row)
  BY <1>3 DEF IsRow
<1>12. row.hash = ExportId(d) /\ row.thoughts = <<>> /\ row.files = {}
  BY <1>3
<1>13. \A n \in Docs : row.hash = ExportId(zip.notes[n]) <=> n = i
  BY <1>1, <1>6, <1>7, <1>12 DEF ZipInv
<1>14. RowRight(d, row)
  <2>1. /\ HomeOf(d) # 0 => HomeOf(d) \in DOMAIN fresh.areas /\ fresh.areas[HomeOf(d)].name = d.area
        /\ HomeOf(d) = 0 => Homeless(d)
        /\ StatusFor(d) = d.status \/ HomeOf(d) = 0
    BY <1>1, <1>5, <1>7, HomeRight
  <2>2. row.body = Back(d.body) /\ row.area = HomeOf(d) /\ row.status = StatusFor(d)
    BY <1>3
  <2>. QED
    BY <2>1, <2>2 DEF RowRight
<1>15. \A n \in Docs : row.hash = ExportId(zip.notes[n]) =>
         Copies(n) = {} /\ RowRight(zip.notes[n], row)
  BY <1>1, <1>7, <1>13, <1>14
<1>16. /\ FreshInv' /\ Docs' = Docs /\ fresh'.notes[k] = row
       /\ \A m \in DOMAIN fresh.notes : fresh'.notes[m] = fresh.notes[m]
       /\ \A n \in Docs : Copies(n)' = IF row.hash = ExportId(zip.notes[n])
                                       THEN {Len(fresh.notes) + 1} ELSE Copies(n)
  BY <1>4, <1>5, <1>6, <1>9, <1>10, <1>11, <1>15, NewRow
<1>17. \A n \in Docs : Copies(n)' = IF n = i THEN {k} ELSE Copies(n)
  BY <1>4, <1>13, <1>16
<1>18. PICK map : map = [res.map EXCEPT ![i] = k]
  OBVIOUS
<1>19. PICK thoughts : thoughts = ThoughtsBack(d.thoughts)
  OBVIOUS
<1>20. res' = [at |-> "contents", i |-> res.i, live |-> res.live, map |-> map,
               note |-> k, thoughts |-> thoughts, files |-> d.files]
  <2>1. res' = [res EXCEPT !.at = "contents", !.note = k, !.map = map,
                           !.thoughts = thoughts, !.files = d.files]
    BY <1>5, <1>7, <1>18, <1>19
  <2>. QED
    BY <2>1, <1>6, ResNoted DEF ResShape
<1>21. /\ DOMAIN map = Docs /\ map = [n \in Docs |-> map[n]] /\ map[i] = k
       /\ \A n \in Docs : n # i => map[n] = res.map[n]
  <2>1. PICK D, om : D = Docs /\ om = res.map
    OBVIOUS
  <2>2. DOMAIN om = D /\ om = [n \in D |-> om[n]]
    BY <2>1, <1>5, <1>6 DEF ResShape
  <2>. QED
    BY <2>1, <2>2, <1>7, <1>18
<1>22. /\ res'.at = "contents" /\ res'.i = i /\ res'.map = map /\ res'.note = k
       /\ res'.thoughts = thoughts /\ res'.files = d.files /\ res'.live = res.live
  BY <1>1, <1>20
<1>23. ResShape'
  <2>1. PICK D : D = Docs
    OBVIOUS
  <2>2. Docs' = D /\ DOMAIN map = D /\ map = [n \in D |-> map[n]]
    BY <2>1, <1>16, <1>21
  <2>. QED
    BY <2>2, <1>1, <1>6, <1>20 DEF ResShape, Phases
<1>24. AreasInv'
  <2>1. fresh'.areas = fresh.areas
    BY <1>10
  <2>. QED
    BY <2>1, <1>5, <1>6, <1>22, AreasStay
<1>25. MapInv'
  <2>1. ASSUME NEW n \in Docs, n <= i
        PROVE  map[n] \in Copies(n)'
    <3>1. CASE n = i
      BY <3>1, <1>17, <1>21
    <3>2. CASE n # i
      <4>1. n < res.i
        BY <3>2, <2>1, <1>1, <1>6
      <4>2. res.map[n] \in Copies(n)
        BY <4>1, <1>5, <1>6 DEF MapInv
      <4>. QED
        BY <3>2, <4>2, <1>17, <1>21
    <3>. QED
      BY <3>1, <3>2
  <2>. QED
    BY <2>1, <1>7, <1>16, <1>21, <1>22 DEF MapInv
<1>26. LinksInv'
  <2>1. ~done
    BY <1>6, <1>7 DEF LinksInv
  <2>. QED
    BY <2>1, <1>5, <1>22 DEF LinksInv
<1>27. ContentsInv'
  <2>1. PICK W : W = Words(d)
    OBVIOUS
  <2>2. thoughts \in Seq(Words(d))
    BY <1>7, <1>19, BackSeq
  <2>3. <<>> \in Seq(Words(d)) /\ <<>> \o thoughts = thoughts
    <3>1. thoughts \in Seq(W)
      BY <2>1, <2>2
    <3>2. <<>> \in Seq(W) /\ <<>> \o thoughts = thoughts
      BY <3>1
    <3>. QED
      BY <3>2, <2>1
  <2>4. row = fresh'.notes[res'.note]
    BY <1>16, <1>22
  <2>5. row.files \union res'.files = d.files
    BY <1>12, <1>22
  <2>6. ASSUME fails' = 0, NEW n \in Docs, NEW m \in Copies(n)', n # i
        PROVE  Whole(zip.notes[n], m)'
    <3>1. m \in Copies(n) /\ m \in DOMAIN fresh.notes
      BY <2>6, <1>17 DEF Copies, FoundIn
    <3>2. Whole(zip.notes[n], m)
      BY <3>1, <2>6, <1>5, <1>6 DEF ContentsInv
    <3>3. fresh'.notes[m] = fresh.notes[m]
      BY <3>1, <1>16
    <3>. QED
      BY <3>2, <3>3, <1>5, WholeKept
  <2>7. /\ res'.thoughts \in Seq(Words(d)) /\ row.thoughts \in Seq(Words(d))
        /\ row.thoughts \o res'.thoughts = ThoughtsBack(d.thoughts)
    BY <2>2, <2>3, <1>12, <1>19, <1>22
  <2>8. fails' \in Nat
    BY <1>5, <1>6
  <2>. QED
    BY <2>4, <2>5, <2>6, <2>7, <2>8, <1>1, <1>5, <1>16, <1>22, StillInHand
<1>28. SnapInv' /\ ZipInv' /\ zip' # NoZip
  BY <1>5, <1>6, SnapKeeps, ZipSame
<1>. QED
  BY <1>16, <1>23, <1>24, <1>25, <1>26, <1>27, <1>28 DEF RestoreInv

-----------------------------------------------------------------------------
(* What a note holds                                                       *)

IsFresh(f) ==
  /\ f = [notes |-> f.notes, areas |-> f.areas, links |-> f.links]
  /\ IsSeq(f.notes) /\ \A m \in DOMAIN f.notes : IsRow(f.notes[m])

\* z is f with the row of note k put for another.
RowPut(f, z, k, row) ==
  /\ z = [notes |-> z.notes, areas |-> f.areas, links |-> f.links]
  /\ IsSeq(z.notes) /\ DOMAIN z.notes = DOMAIN f.notes /\ z.notes[k] = row
  /\ \A m \in DOMAIN f.notes : m # k => z.notes[m] = f.notes[m]

LEMMA PutRow ==
  ASSUME NEW f, IsFresh(f), NEW k \in DOMAIN f.notes, NEW row, IsRow(row),
         NEW z, z = [f EXCEPT !.notes[k] = row]
  PROVE  RowPut(f, z, k, row) /\ IsFresh(z)
<1>1. PICK old, new : old = f.notes /\ new = [old EXCEPT ![k] = row]
  OBVIOUS
<1>2. z = [notes |-> new, areas |-> f.areas, links |-> f.links]
  <2>1. z = [f EXCEPT !.notes = new]
    BY <1>1
  <2>2. f = [notes |-> f.notes, areas |-> f.areas, links |-> f.links]
    BY DEF IsFresh
  <2>. QED
    BY <2>1, <2>2
<1>3. IsSeq(old) /\ k \in DOMAIN old /\ \A m \in DOMAIN old : IsRow(old[m])
  BY <1>1 DEF IsFresh
<1>4. /\ IsSeq(new) /\ DOMAIN new = DOMAIN old /\ new[k] = row
      /\ \A m \in DOMAIN old : m # k => new[m] = old[m]
  BY <1>1, <1>3, PutSeq
<1>5. z.notes = new /\ z = [notes |-> z.notes, areas |-> f.areas, links |-> f.links]
      /\ z = [notes |-> z.notes, areas |-> z.areas, links |-> z.links]
  <2>1. z.notes = new /\ z.areas = f.areas /\ z.links = f.links
    BY <1>2
  <2>. QED
    BY <2>1, <1>2
<1>6. \A m \in DOMAIN new : IsRow(new[m])
  BY <1>3, <1>4
<1>7. IsFresh(z)
  BY <1>4, <1>5, <1>6 DEF IsFresh
<1>. QED
  BY <1>1, <1>4, <1>5, <1>7 DEF RowPut

LEMMA PutAgain ==
  ASSUME NEW f, NEW k, NEW r, NEW x, RowPut(f, x, k, r), NEW s, NEW z, RowPut(x, z, k, s)
  PROVE  RowPut(f, z, k, s)
<1>1. x.areas = f.areas /\ x.links = f.links
  <2>1. x = [notes |-> x.notes, areas |-> f.areas, links |-> f.links]
    BY DEF RowPut
  <2>. QED
    BY <2>1
<1>. QED
  BY <1>1 DEF RowPut

LEMMA DatePut ==
  ASSUME NEW f, IsFresh(f), NEW k \in DOMAIN f.notes, NEW date,
         NEW z, z = [f EXCEPT !.notes[k].updated = date]
  PROVE  LET o == f.notes[k]
             row == [title |-> o.title, body |-> o.body, status |-> o.status, area |-> o.area,
                     hash |-> o.hash, thoughts |-> o.thoughts, files |-> o.files, updated |-> date]
         IN  RowPut(f, z, k, row) /\ IsFresh(z)
<1>1. PICK o : o = f.notes[k]
  OBVIOUS
<1>2. PICK row : row = [title |-> o.title, body |-> o.body, status |-> o.status, area |-> o.area,
                        hash |-> o.hash, thoughts |-> o.thoughts, files |-> o.files, updated |-> date]
  OBVIOUS
<1>3. o = [title |-> o.title, body |-> o.body, status |-> o.status, area |-> o.area,
           hash |-> o.hash, thoughts |-> o.thoughts, files |-> o.files, updated |-> o.updated]
  BY <1>1 DEF IsFresh, IsRow
<1>4. row = [o EXCEPT !.updated = date]
  BY <1>2, <1>3
<1>5. z = [f EXCEPT !.notes[k] = row]
  BY <1>1, <1>4
<1>6. IsRow(row)
  BY <1>2 DEF IsRow
<1>7. RowPut(f, z, k, row) /\ IsFresh(z)
  BY <1>5, <1>6, PutRow
<1>. QED
  BY <1>1, <1>2, <1>7

LEMMA ThoughtPut ==
  ASSUME NEW f, IsFresh(f), NEW k \in DOMAIN f.notes, NEW thoughts,
         NEW z, z = [f EXCEPT !.notes[k].thoughts = thoughts]
  PROVE  LET o == f.notes[k]
             row == [title |-> o.title, body |-> o.body, status |-> o.status, area |-> o.area,
                     hash |-> o.hash, thoughts |-> thoughts, files |-> o.files,
                     updated |-> o.updated]
         IN  RowPut(f, z, k, row) /\ IsFresh(z)
<1>1. PICK o : o = f.notes[k]
  OBVIOUS
<1>2. PICK row : row = [title |-> o.title, body |-> o.body, status |-> o.status, area |-> o.area,
                        hash |-> o.hash, thoughts |-> thoughts, files |-> o.files,
                        updated |-> o.updated]
  OBVIOUS
<1>3. o = [title |-> o.title, body |-> o.body, status |-> o.status, area |-> o.area,
           hash |-> o.hash, thoughts |-> o.thoughts, files |-> o.files, updated |-> o.updated]
  BY <1>1 DEF IsFresh, IsRow
<1>4. row = [o EXCEPT !.thoughts = thoughts]
  BY <1>2, <1>3
<1>5. z = [f EXCEPT !.notes[k] = row]
  BY <1>1, <1>4
<1>6. IsRow(row)
  BY <1>2 DEF IsRow
<1>7. RowPut(f, z, k, row) /\ IsFresh(z)
  BY <1>5, <1>6, PutRow
<1>. QED
  BY <1>1, <1>2, <1>7

LEMMA FilesPut ==
  ASSUME NEW f, IsFresh(f), NEW k \in DOMAIN f.notes, NEW files,
         NEW z, z = [f EXCEPT !.notes[k].files = files]
  PROVE  LET o == f.notes[k]
             row == [title |-> o.title, body |-> o.body, status |-> o.status, area |-> o.area,
                     hash |-> o.hash, thoughts |-> o.thoughts, files |-> files,
                     updated |-> o.updated]
         IN  RowPut(f, z, k, row) /\ IsFresh(z)
<1>1. PICK o : o = f.notes[k]
  OBVIOUS
<1>2. PICK row : row = [title |-> o.title, body |-> o.body, status |-> o.status, area |-> o.area,
                        hash |-> o.hash, thoughts |-> o.thoughts, files |-> files,
                        updated |-> o.updated]
  OBVIOUS
<1>3. o = [title |-> o.title, body |-> o.body, status |-> o.status, area |-> o.area,
           hash |-> o.hash, thoughts |-> o.thoughts, files |-> o.files, updated |-> o.updated]
  BY <1>1 DEF IsFresh, IsRow
<1>4. row = [o EXCEPT !.files = files]
  BY <1>2, <1>3
<1>5. z = [f EXCEPT !.notes[k] = row]
  BY <1>1, <1>4
<1>6. IsRow(row)
  BY <1>2 DEF IsRow
<1>7. RowPut(f, z, k, row) /\ IsFresh(z)
  BY <1>5, <1>6, PutRow
<1>. QED
  BY <1>1, <1>2, <1>7

\* The note in hand gets a Thought, a file or its date.
LEMMA Touched ==
  ASSUME RestoreInv, res.at = "contents", snap' = snap, notes' = notes, zip' = zip,
         NEW row, RowPut(fresh, fresh', res.note, row), IsFresh(fresh'),
         NEW o, o = fresh.notes[res.note],
         row.hash = o.hash, row.body = o.body, row.area = o.area, row.status = o.status
  PROVE  /\ SnapInv' /\ ZipInv' /\ zip' # NoZip /\ FreshInv' /\ Docs' = Docs
         /\ fresh'.areas = fresh.areas
         /\ \A n : Copies(n)' = Copies(n)
         /\ res.i \in Docs /\ res.note \in Copies(res.i)
         /\ \A n \in Docs : \A m \in Copies(n) : n # res.i => fresh'.notes[m] = fresh.notes[m]
<1>1. zip # NoZip /\ SnapInv /\ ZipInv /\ FreshInv /\ MapInv
  BY RestoreFacts
<1>2. PICK k : k = res.note
  OBVIOUS
<1>3. /\ fresh'.areas = fresh.areas /\ fresh'.links = fresh.links
      /\ DOMAIN fresh'.notes = DOMAIN fresh.notes /\ fresh'.notes[k] = row
      /\ \A m \in DOMAIN fresh.notes : m # k => fresh'.notes[m] = fresh.notes[m]
  <2>1. fresh' = [notes |-> fresh'.notes, areas |-> fresh.areas, links |-> fresh.links]
    BY DEF RowPut
  <2>2. fresh'.areas = fresh.areas /\ fresh'.links = fresh.links
    BY <2>1
  <2>. QED
    BY <2>2, <1>2 DEF RowPut
<1>4. /\ SnapInv' /\ ZipInv' /\ Docs' = Docs
      /\ \A n : ExportId(zip.notes[n])' = ExportId(zip.notes[n])
  BY <1>1, SnapKeeps, ZipSame
<1>5. res.i \in Docs /\ k \in Copies(res.i)
  <2>1. res.i \in Nat /\ res.i <= res.i
    BY RestoreFacts
  <2>. QED
    BY <2>1, <1>1, <1>2 DEF MapInv
<1>6. \A m \in DOMAIN fresh.notes :
        /\ fresh'.notes[m].hash = fresh.notes[m].hash /\ fresh'.notes[m].body = fresh.notes[m].body
        /\ fresh'.notes[m].area = fresh.notes[m].area
        /\ fresh'.notes[m].status = fresh.notes[m].status
  <2>. SUFFICES ASSUME NEW m \in DOMAIN fresh.notes
                PROVE  /\ fresh'.notes[m].hash = fresh.notes[m].hash
                       /\ fresh'.notes[m].body = fresh.notes[m].body
                       /\ fresh'.notes[m].area = fresh.notes[m].area
                       /\ fresh'.notes[m].status = fresh.notes[m].status
    OBVIOUS
  <2>1. CASE m = k
    BY <2>1, <1>2, <1>3
  <2>2. CASE m # k
    BY <2>2, <1>3
  <2>. QED
    BY <2>1, <2>2
<1>7. FreshGrows
  BY <1>3, <1>6 DEF FreshGrows
<1>8. FreshShape'
  <2>1. PICK z, areas : z = fresh' /\ areas = fresh.areas
    OBVIOUS
  <2>2. IsSeq(areas) /\ \A a \in DOMAIN areas : IsArea(areas[a])
    BY <2>1, <1>1 DEF FreshInv, FreshShape
  <2>3. /\ z = [notes |-> z.notes, areas |-> z.areas, links |-> z.links]
        /\ IsSeq(z.notes) /\ \A m \in DOMAIN z.notes : IsRow(z.notes[m])
    BY <2>1 DEF IsFresh
  <2>4. IsSeq(fresh.notes)' /\ IsSeq(fresh.areas)'
    BY <2>1, <2>2, <2>3, <1>3 DEF IsSeq
  <2>5. \A m \in DOMAIN fresh'.notes : IsRow(fresh.notes[m])'
    BY <2>1, <2>3 DEF IsRow
  <2>6. \A a \in DOMAIN fresh'.areas : IsArea(fresh.areas[a])'
    BY <2>1, <2>2, <1>3 DEF IsArea
  <2>. QED
    BY <2>1, <2>3, <2>4, <2>5, <2>6 DEF FreshShape
<1>9. RetiredRight'
  BY <1>1, <1>3 DEF FreshInv, RetiredRight
<1>10. FreshInv'
  BY <1>1, <1>7, <1>8, <1>9, GrowsKeeps
<1>11. \A n : Copies(n)' = Copies(n)
  <2>. SUFFICES ASSUME NEW n PROVE Copies(n)' = Copies(n)
    OBVIOUS
  <2>1. PICK h : h = ExportId(zip.notes[n])
    OBVIOUS
  <2>2. h = ExportId(zip.notes[n])'
    BY <2>1, <1>4
  <2>3. Copies(n) = {m \in DOMAIN fresh.notes : fresh.notes[m].hash = h}
    BY <2>1 DEF Copies, FoundIn
  <2>4. Copies(n)' = {m \in DOMAIN fresh'.notes : fresh'.notes[m].hash = h}
    BY <2>2 DEF Copies, FoundIn
  <2>. QED
    BY <2>3, <2>4, <1>3, <1>6
<1>12. ASSUME NEW n \in Docs, NEW m \in Copies(n), n # res.i
       PROVE  fresh'.notes[m] = fresh.notes[m]
  <2>1. m \in DOMAIN fresh.notes /\ fresh.notes[m].hash = ExportId(zip.notes[n])
    BY <1>12 DEF Copies, FoundIn
  <2>2. fresh.notes[k].hash = ExportId(zip.notes[res.i])
    BY <1>5 DEF Copies, FoundIn
  <2>3. m # k
    <3>1. \A x, y \in Docs : ExportId(zip.notes[x]) = ExportId(zip.notes[y]) => x = y
      BY <1>1 DEF ZipInv
    <3>2. ExportId(zip.notes[n]) # ExportId(zip.notes[res.i])
      BY <3>1, <1>5, <1>12
    <3>. QED
      BY <3>2, <2>1, <2>2
  <2>. QED
    BY <2>1, <2>3, <1>3
<1>. QED
  BY <1>1, <1>2, <1>3, <1>4, <1>5, <1>10, <1>11, <1>12

\* The note in hand has got something, and the restore stays with it.
LEMMA StaysAtNote ==
  ASSUME RestoreInv, res.at = "contents", snap' = snap, notes' = notes, zip' = zip,
         done' = done, fails' = fails,
         NEW row, RowPut(fresh, fresh', res.note, row), IsFresh(fresh'),
         NEW o, o = fresh.notes[res.note],
         row.hash = o.hash, row.body = o.body, row.area = o.area, row.status = o.status,
         NEW thoughts, NEW files,
         res' = [at |-> res.at, i |-> res.i, live |-> res.live, map |-> res.map,
                 note |-> res.note, thoughts |-> thoughts, files |-> files],
         NEW d, d = zip.notes[res.i],
         thoughts \in Seq(Words(d)), row.thoughts \in Seq(Words(d)),
         row.thoughts \o thoughts = ThoughtsBack(d.thoughts), row.files \union files = d.files
  PROVE  RestoreInv'
<1>1. /\ ResShape /\ AreasInv /\ MapInv /\ LinksInv /\ ContentsInv
      /\ res.i \in Nat /\ res.i >= 1 /\ fails \in Nat
  BY RestoreFacts
<1>2. /\ SnapInv' /\ ZipInv' /\ zip' # NoZip /\ FreshInv' /\ Docs' = Docs
      /\ fresh'.areas = fresh.areas
      /\ \A n : Copies(n)' = Copies(n)
      /\ res.i \in Docs /\ res.note \in Copies(res.i)
      /\ \A n \in Docs : \A m \in Copies(n) : n # res.i => fresh'.notes[m] = fresh.notes[m]
  BY Touched
<1>3. /\ res'.at = "contents" /\ res'.i = res.i /\ res'.live = res.live /\ res'.map = res.map
      /\ res'.note = res.note /\ res'.thoughts = thoughts /\ res'.files = files
  <2>1. /\ res'.at = res.at /\ res'.i = res.i /\ res'.live = res.live /\ res'.map = res.map
        /\ res'.note = res.note /\ res'.thoughts = thoughts /\ res'.files = files
    OBVIOUS
  <2>. QED
    BY <2>1
<1>4. ResShape'
  <2>1. res.at \in Phases /\ res.at # "off"
    BY DEF Phases
  <2>. QED
    BY <2>1, <1>1, <1>2, MapStays
<1>5. AreasInv'
  BY <1>1, <1>2, <1>3, AreasStay
<1>6. MapInv'
  BY <1>1, <1>2, <1>3 DEF MapInv
<1>7. LinksInv'
  <2>1. ~done
    BY <1>1 DEF LinksInv
  <2>. QED
    BY <2>1, <1>3 DEF LinksInv
<1>8. ContentsInv'
  <2>1. ASSUME fails' = 0, NEW n \in Docs, NEW m \in Copies(n)', n # res.i
        PROVE  Whole(zip.notes[n], m)'
    <3>1. m \in Copies(n)
      BY <2>1, <1>2
    <3>2. Whole(zip.notes[n], m)
      BY <3>1, <2>1, <1>1 DEF ContentsInv
    <3>3. fresh'.notes[m] = fresh.notes[m]
      BY <3>1, <2>1, <1>2
    <3>. QED
      BY <3>2, <3>3, WholeKept
  <2>2. row = fresh'.notes[res'.note]
    BY <1>3 DEF RowPut
  <2>3. fails' \in Nat
    BY <1>1
  <2>4. PICK i : i = res.i
    OBVIOUS
  <2>5. res'.i = i /\ d = zip.notes[i]
    BY <2>4, <1>3
  <2>6. fails' = 0 => \A n \in Docs : \A m \in Copies(n)' : n # i => Whole(zip.notes[n], m)'
    BY <2>1, <2>4
  <2>7. /\ res'.thoughts \in Seq(Words(d))
        /\ row.thoughts \o res'.thoughts = ThoughtsBack(d.thoughts)
        /\ row.files \union res'.files = d.files
    BY <1>3
  <2>8. row.thoughts \in Seq(Words(d)) /\ zip' = zip /\ Docs' = Docs /\ res'.at = "contents"
    BY <1>2, <1>3
  <2>. QED
    BY ONLY <2>2, <2>3, <2>5, <2>6, <2>7, <2>8, StillInHand
<1>. QED
  BY <1>2, <1>4, <1>5, <1>6, <1>7, <1>8 DEF RestoreInv

\* The next Thought goes from what is in hand to the note.
LEMMA NextThought ==
  ASSUME NEW W, NEW c \in Seq(W), NEW t \in Seq(W), t # <<>>
  PROVE  /\ Append(c, Head(t)) \in Seq(W) /\ Tail(t) \in Seq(W)
         /\ Append(c, Head(t)) \o Tail(t) = c \o t
<1>1. /\ Len(c) \in Nat /\ Len(t) \in Nat /\ Len(t) >= 1
      /\ Append(c, Head(t)) \in Seq(W) /\ Tail(t) \in Seq(W)
      /\ Len(Append(c, Head(t))) = Len(c) + 1 /\ Len(Tail(t)) = Len(t) - 1
  OBVIOUS
<1>2. PICK x, y : x = Append(c, Head(t)) /\ y = Tail(t)
  OBVIOUS
<1>3. /\ x \o y \in Seq(W) /\ c \o t \in Seq(W)
      /\ Len(x \o y) = Len(c) + Len(t) /\ Len(c \o t) = Len(c) + Len(t)
  BY <1>1, <1>2
<1>4. ASSUME NEW j \in 1 .. Len(c) + Len(t)
      PROVE  (x \o y)[j] = (c \o t)[j]
  <2>1. CASE j <= Len(c)
    <3>1. (x \o y)[j] = x[j] /\ (c \o t)[j] = c[j] /\ x[j] = c[j]
      BY <2>1, <1>1, <1>2
    <3>. QED
      BY <3>1
  <2>2. CASE j = Len(c) + 1
    <3>1. (x \o y)[j] = x[j] /\ x[j] = Head(t)
      BY <2>2, <1>1, <1>2
    <3>2. (c \o t)[j] = t[1] /\ Head(t) = t[1]
      BY <2>2, <1>1
    <3>. QED
      BY <3>1, <3>2
  <2>3. CASE j > Len(c) + 1
    <3>1. (x \o y)[j] = y[j - (Len(c) + 1)]
      BY <2>3, <1>1, <1>2
    <3>2. (c \o t)[j] = t[j - Len(c)]
      BY <2>3, <1>1
    <3>3. j - (Len(c) + 1) \in 1 .. Len(t) - 1 /\ (j - (Len(c) + 1)) + 1 = j - Len(c)
      BY <2>3, <1>1
    <3>4. \A e \in 1 .. Len(t) - 1 : y[e] = t[e + 1]
      BY <1>1, <1>2
    <3>. QED
      BY <3>1, <3>2, <3>3, <3>4
  <2>4. j <= Len(c) \/ j = Len(c) + 1 \/ j > Len(c) + 1
    <3>1. PICK l : l = Len(c)
      OBVIOUS
    <3>2. l \in Nat /\ j \in Int
      BY <3>1, <1>1
    <3>3. j <= l \/ j = l + 1 \/ j > l + 1
      BY <3>2
    <3>. QED
      BY <3>1, <3>3
  <2>. QED
    BY <2>1, <2>2, <2>3, <2>4
<1>5. x \o y = c \o t
  <2>1. PICK p, q : p = x \o y /\ q = c \o t
    OBVIOUS
  <2>2. /\ p \in Seq(W) /\ q \in Seq(W) /\ Len(p) = Len(q)
        /\ \A j \in 1 .. Len(p) : p[j] = q[j]
    BY <2>1, <1>1, <1>3, <1>4
  <2>3. p = q
    BY <2>2, SeqEqual
  <2>. QED
    BY <2>1, <2>3
<1>. QED
  BY <1>1, <1>2, <1>5

LEMMA ContentsFacts ==
  ASSUME RestoreInv, res.at = "contents"
  PROVE  /\ IsFresh(fresh) /\ res.note \in DOMAIN fresh.notes /\ res.i \in Docs
         /\ InHand(zip.notes[res.i]) /\ ResShape
<1>1. FreshInv /\ MapInv /\ ContentsInv /\ ResShape /\ res.i \in Nat
  BY RestoreFacts
<1>2. res.i \in Docs /\ res.note \in Copies(res.i)
  <2>1. res.i <= res.i
    BY <1>1
  <2>. QED
    BY <2>1, <1>1 DEF MapInv
<1>3. IsFresh(fresh)
  BY <1>1 DEF FreshInv, FreshShape, IsFresh
<1>. QED
  BY <1>1, <1>2, <1>3 DEF ContentsInv, Copies, FoundIn

LEMMA RestoreThoughtKeeps ==
  ASSUME RestoreInv, RestoreThought
  PROVE  RestoreInv'
<1>1. PICK k, o, t, c : k = res.note /\ o = fresh.notes[k] /\ t = res.thoughts /\ c = o.thoughts
  OBVIOUS
<1>2. PICK add : add = Append(c, Head(t))
  OBVIOUS
<1>3. /\ res.at = "contents" /\ t # <<>> /\ done' = done /\ fails' = fails
      /\ notes' = notes /\ snap' = snap /\ zip' = zip
      /\ fresh' = [fresh EXCEPT !.notes[k].thoughts = add, !.notes[k].updated = "restored"]
      /\ res' = [res EXCEPT !.thoughts = Tail(t)]
  BY <1>1, <1>2 DEF RestoreThought, In, Elsewhere, Same, libraryVars
<1>4. /\ IsFresh(fresh) /\ k \in DOMAIN fresh.notes /\ res.i \in Docs
      /\ InHand(zip.notes[res.i]) /\ ResShape
  BY <1>1, <1>3, ContentsFacts
<1>5. PICK f : f = fresh
  OBVIOUS
<1>6. PICK x : x = [f EXCEPT !.notes[k].thoughts = add]
  OBVIOUS
<1>7. fresh' = [x EXCEPT !.notes[k].updated = "restored"]
  BY <1>3, <1>5, <1>6
<1>8. PICK r : r = [title |-> o.title, body |-> o.body, status |-> o.status, area |-> o.area,
                    hash |-> o.hash, thoughts |-> add, files |-> o.files, updated |-> o.updated]
  OBVIOUS
<1>9. RowPut(f, x, k, r) /\ IsFresh(x)
  BY <1>1, <1>4, <1>5, <1>6, <1>8, ThoughtPut
<1>10. PICK row : row = [title |-> r.title, body |-> r.body, status |-> r.status, area |-> r.area,
                         hash |-> r.hash, thoughts |-> r.thoughts, files |-> r.files,
                         updated |-> "restored"]
  OBVIOUS
<1>11. PICK z : z = fresh'
  OBVIOUS
<1>12. RowPut(x, z, k, row) /\ IsFresh(z)
  <2>1. k \in DOMAIN x.notes /\ x.notes[k] = r
    BY <1>4, <1>5, <1>9 DEF RowPut
  <2>. QED
    BY <2>1, <1>7, <1>9, <1>10, <1>11, DatePut
<1>13. RowPut(f, z, k, row)
  BY <1>9, <1>12, PutAgain
<1>14. /\ row.hash = o.hash /\ row.body = o.body /\ row.area = o.area /\ row.status = o.status
       /\ row.thoughts = add /\ row.files = o.files
  <2>1. /\ r.hash = o.hash /\ r.body = o.body /\ r.area = o.area /\ r.status = o.status
        /\ r.thoughts = add /\ r.files = o.files
    BY <1>8
  <2>. QED
    BY <2>1, <1>10
<1>15. PICK d : d = zip.notes[res.i]
  OBVIOUS
<1>16. /\ t \in Seq(Words(d)) /\ c \in Seq(Words(d)) /\ c \o t = ThoughtsBack(d.thoughts)
       /\ o.files \union res.files = d.files
  BY <1>1, <1>4, <1>15 DEF InHand
<1>17. /\ add \in Seq(Words(d)) /\ Tail(t) \in Seq(Words(d)) /\ add \o Tail(t) = ThoughtsBack(d.thoughts)
  BY <1>2, <1>3, <1>16, NextThought
<1>18. res' = [at |-> res.at, i |-> res.i, live |-> res.live, map |-> res.map,
               note |-> res.note, thoughts |-> Tail(t), files |-> res.files]
  BY <1>3, <1>4 DEF ResShape
<1>19. RowPut(fresh, fresh', res.note, row) /\ IsFresh(fresh')
  BY <1>1, <1>5, <1>11, <1>12, <1>13
<1>20. row.files \union res.files = d.files
  BY <1>14, <1>16
<1>21. /\ row.thoughts \in Seq(Words(d)) /\ Tail(t) \in Seq(Words(d))
       /\ row.thoughts \o Tail(t) = ThoughtsBack(d.thoughts)
  BY <1>14, <1>17
<1>. QED
  BY <1>1, <1>3, <1>14, <1>15, <1>18, <1>19, <1>20, <1>21, StaysAtNote

LEMMA RestoreAttachmentsKeeps ==
  ASSUME RestoreInv, _restore_attachments
  PROVE  RestoreInv'
<1>1. PICK k, o : k = res.note /\ o = fresh.notes[k]
  OBVIOUS
<1>2. PICK file \in res.files :
        /\ fresh' = [fresh EXCEPT !.notes[k].files = o.files \union {file},
                                  !.notes[k].updated = "restored"]
        /\ res' = [res EXCEPT !.files = res.files \ {file}]
  BY <1>1 DEF _restore_attachments
<1>3. PICK add : add = o.files \union {file}
  OBVIOUS
<1>4. /\ res.at = "contents" /\ done' = done /\ fails' = fails
      /\ notes' = notes /\ snap' = snap /\ zip' = zip
      /\ fresh' = [fresh EXCEPT !.notes[k].files = add, !.notes[k].updated = "restored"]
  BY <1>2, <1>3 DEF _restore_attachments, In, Elsewhere, Same, libraryVars
<1>5. /\ IsFresh(fresh) /\ k \in DOMAIN fresh.notes /\ res.i \in Docs
      /\ InHand(zip.notes[res.i]) /\ ResShape
  BY <1>1, <1>4, ContentsFacts
<1>6. PICK f : f = fresh
  OBVIOUS
<1>7. PICK x : x = [f EXCEPT !.notes[k].files = add]
  OBVIOUS
<1>8. fresh' = [x EXCEPT !.notes[k].updated = "restored"]
  BY <1>4, <1>6, <1>7
<1>9. PICK r : r = [title |-> o.title, body |-> o.body, status |-> o.status, area |-> o.area,
                    hash |-> o.hash, thoughts |-> o.thoughts, files |-> add, updated |-> o.updated]
  OBVIOUS
<1>10. RowPut(f, x, k, r) /\ IsFresh(x)
  BY <1>1, <1>5, <1>6, <1>7, <1>9, FilesPut
<1>11. PICK row : row = [title |-> r.title, body |-> r.body, status |-> r.status, area |-> r.area,
                         hash |-> r.hash, thoughts |-> r.thoughts, files |-> r.files,
                         updated |-> "restored"]
  OBVIOUS
<1>12. PICK z : z = fresh'
  OBVIOUS
<1>13. RowPut(x, z, k, row) /\ IsFresh(z)
  <2>1. k \in DOMAIN x.notes /\ x.notes[k] = r
    BY <1>5, <1>6, <1>10 DEF RowPut
  <2>. QED
    BY <2>1, <1>8, <1>10, <1>11, <1>12, DatePut
<1>14. RowPut(f, z, k, row)
  BY <1>10, <1>13, PutAgain
<1>15. /\ row.hash = o.hash /\ row.body = o.body /\ row.area = o.area /\ row.status = o.status
       /\ row.thoughts = o.thoughts /\ row.files = add
  <2>1. /\ r.hash = o.hash /\ r.body = o.body /\ r.area = o.area /\ r.status = o.status
        /\ r.thoughts = o.thoughts /\ r.files = add
    BY <1>9
  <2>. QED
    BY <2>1, <1>11
<1>16. PICK d : d = zip.notes[res.i]
  OBVIOUS
<1>17. /\ res.thoughts \in Seq(Words(d)) /\ o.thoughts \in Seq(Words(d))
       /\ o.thoughts \o res.thoughts = ThoughtsBack(d.thoughts)
       /\ o.files \union res.files = d.files
  BY <1>1, <1>5, <1>16 DEF InHand
<1>18. PICK left : left = res.files \ {file}
  OBVIOUS
<1>19. row.files \union left = d.files
  BY <1>2, <1>3, <1>15, <1>17, <1>18
<1>20. PICK said : said = res.thoughts
  OBVIOUS
<1>21. /\ said \in Seq(Words(d)) /\ row.thoughts \in Seq(Words(d))
       /\ row.thoughts \o said = ThoughtsBack(d.thoughts)
  BY <1>15, <1>17, <1>20
<1>22. res' = [at |-> res.at, i |-> res.i, live |-> res.live, map |-> res.map,
               note |-> res.note, thoughts |-> said, files |-> left]
  BY <1>2, <1>5, <1>18, <1>20 DEF ResShape
<1>23. RowPut(fresh, fresh', res.note, row) /\ IsFresh(fresh')
  BY <1>1, <1>6, <1>12, <1>13, <1>14
<1>24. RestoreInv /\ o = fresh.notes[res.note]
  BY <1>1
<1>. QED
  BY ONLY <1>4, <1>15, <1>16, <1>19, <1>21, <1>22, <1>23, <1>24, StaysAtNote

\* The date goes on last, and the note is whole.
LEMMA RestoreProvenanceKeeps ==
  ASSUME RestoreInv, _restore_provenance
  PROVE  RestoreInv'
<1>1. PICK k, o, d, i : k = res.note /\ o = fresh.notes[k] /\ i = res.i /\ d = zip.notes[i]
  OBVIOUS
<1>2. /\ res.at = "contents" /\ res.thoughts = <<>> /\ res.files = {}
      /\ done' = done /\ fails' = fails
      /\ notes' = notes /\ snap' = snap /\ zip' = zip
      /\ fresh' = [fresh EXCEPT !.notes[k].updated = d.updated]
      /\ res' = [res EXCEPT !.at = "notes", !.i = i + 1]
  BY <1>1 DEF _restore_provenance, set_note_provenance, ThisDoc, In, Elsewhere, Same, libraryVars
<1>3. /\ IsFresh(fresh) /\ k \in DOMAIN fresh.notes /\ i \in Docs /\ InHand(d) /\ ResShape
  BY <1>1, <1>2, ContentsFacts
<1>4. /\ ResShape /\ AreasInv /\ MapInv /\ LinksInv /\ ContentsInv /\ FreshInv
      /\ i \in Nat /\ i >= 1 /\ fails \in Nat /\ Docs = 1 .. Len(zip.notes)
  BY <1>1, <1>2, RestoreFacts
<1>5. PICK row : row = [title |-> o.title, body |-> o.body, status |-> o.status, area |-> o.area,
                        hash |-> o.hash, thoughts |-> o.thoughts, files |-> o.files,
                        updated |-> d.updated]
  OBVIOUS
<1>6. RowPut(fresh, fresh', res.note, row) /\ IsFresh(fresh')
  <2>1. PICK f, z, date : f = fresh /\ z = fresh' /\ date = d.updated
    OBVIOUS
  <2>2. RowPut(f, z, k, row) /\ IsFresh(z)
    BY <2>1, <1>1, <1>2, <1>3, <1>5, DatePut
  <2>. QED
    BY <2>1, <2>2, <1>1
<1>7. /\ row.hash = o.hash /\ row.body = o.body /\ row.area = o.area /\ row.status = o.status
      /\ row.thoughts = o.thoughts /\ row.files = o.files /\ row.updated = d.updated
  BY <1>5
<1>8. /\ SnapInv' /\ ZipInv' /\ zip' # NoZip /\ FreshInv' /\ Docs' = Docs
      /\ fresh'.areas = fresh.areas
      /\ \A n : Copies(n)' = Copies(n)
      /\ i \in Docs /\ k \in Copies(i)
      /\ \A n \in Docs : \A m \in Copies(n) : n # i => fresh'.notes[m] = fresh.notes[m]
  BY <1>1, <1>2, <1>6, <1>7, Touched
<1>9. res' = [at |-> "notes", i |-> i + 1, live |-> res.live, map |-> res.map,
              note |-> res.note, thoughts |-> res.thoughts, files |-> res.files]
  <2>1. PICK next : next = i + 1
    OBVIOUS
  <2>2. res' = [res EXCEPT !.at = "notes", !.i = next]
    BY <2>1, <1>2
  <2>. QED
    BY <2>1, <2>2, <1>3, ResTurned DEF ResShape
<1>10. res'.at = "notes" /\ res'.i = i + 1 /\ res'.map = res.map /\ res'.live = res.live
  BY <1>9
<1>11. ResShape'
  <2>1. "notes" \in Phases /\ res.at # "off" /\ i + 1 \in Nat /\ i + 1 >= 1
    BY <1>2, <1>4 DEF Phases
  <2>. QED
    BY <2>1, <1>4, <1>8, <1>9, MapStays
<1>12. AreasInv'
  BY <1>2, <1>4, <1>8, <1>10, AreasStay
<1>13. MapInv'
  <2>1. ASSUME NEW n \in Docs, n < i + 1
        PROVE  res.map[n] \in Copies(n)
    <3>1. n <= res.i
      BY <2>1, <1>1, <1>4
    <3>. QED
      BY <3>1, <1>2, <1>4 DEF MapInv
  <2>. QED
    BY <2>1, <1>8, <1>10 DEF MapInv
<1>14. LinksInv'
  <2>1. ~done
    BY <1>2, <1>4 DEF LinksInv
  <2>. QED
    BY <2>1, <1>2, <1>10 DEF LinksInv
<1>15. ContentsInv'
  <2>1. ASSUME fails' = 0, NEW n \in Docs, NEW m \in Copies(n)
        PROVE  Whole(zip.notes[n], m)'
    <3>1. CASE n # i
      <4>1. Whole(zip.notes[n], m)
        BY <3>1, <2>1, <1>1, <1>2, <1>4 DEF ContentsInv
      <4>2. fresh'.notes[m] = fresh.notes[m]
        BY <3>1, <2>1, <1>8
      <4>. QED
        BY <4>1, <4>2, <1>2, WholeKept
    <3>2. CASE n = i
      <4>1. m = k
        BY <3>2, <2>1, <1>4, <1>8 DEF FreshInv
      <4>2. fresh'.notes[m] = row
        BY <4>1, <1>1, <1>6 DEF RowPut
      <4>3. PICK W, T : W = Words(d) /\ T = ThoughtsBack(d.thoughts)
        OBVIOUS
      <4>4. o.thoughts \in Seq(W) /\ o.thoughts \o <<>> = T /\ o.files \union {} = d.files
        BY <4>3, <1>1, <1>2, <1>3 DEF InHand
      <4>5. o.thoughts = T /\ o.files = d.files
        BY <4>4
      <4>6. T = ThoughtsBack(d.thoughts)'
        BY <4>3, <1>2, ZipSame
      <4>7. Whole(d, m)'
        BY <4>2, <4>5, <4>6, <1>7 DEF Whole
      <4>. QED
        BY <4>7, <3>2, <1>1, <1>2, WholeAt
    <3>. QED
      BY <3>1, <3>2
  <2>2. fails' \in Nat
    BY <1>2, <1>4
  <2>3. \A n \in Docs' : ~ (res'.at = "contents" /\ res'.i = n)
    BY <1>10
  <2>. QED
    BY <2>1, <2>2, <2>3, <1>8 DEF ContentsInv
<1>. QED
  BY <1>8, <1>11, <1>12, <1>13, <1>14, <1>15 DEF RestoreInv

-----------------------------------------------------------------------------
(* The links, and the new library in use                                   *)

LEMMA RestoreLinksKeeps ==
  ASSUME RestoreInv, _restore_links
  PROVE  RestoreInv'
<1>1. PICK i, d : i = res.i /\ d = zip.notes[i]
  OBVIOUS
<1>2. PICK X : X = {<<res.map[d.id], res.map[m]>> :
                      m \in {k \in d.links : k \in DOMAIN res.map /\ res.map[k] # 0}}
  OBVIOUS
<1>3. /\ res.at = "links" /\ i <= Len(zip.notes)
      /\ fresh' = [fresh EXCEPT !.links = fresh.links \union X]
      /\ res' = [res EXCEPT !.i = i + 1]
      /\ done' = done /\ fails' = fails /\ notes' = notes /\ snap' = snap /\ zip' = zip
  BY <1>1, <1>2 DEF _restore_links, ThisDoc, In, Elsewhere, Same, libraryVars
<1>4. /\ zip # NoZip /\ SnapInv /\ ZipInv /\ FreshInv /\ ResShape /\ AreasInv /\ MapInv
      /\ LinksInv /\ ContentsInv
      /\ i \in Nat /\ i >= 1 /\ fails \in Nat
      /\ Len(zip.notes) \in Nat /\ Docs = 1 .. Len(zip.notes)
  BY <1>1, <1>3, RestoreFacts
<1>5. i \in Docs /\ d.id = i
  <2>1. i \in Docs
    BY <1>3, <1>4
  <2>. QED
    BY <2>1, <1>1, <1>4 DEF ZipInv
<1>6. PICK joined : joined = fresh.links \union X
  OBVIOUS
<1>7. fresh' = [notes |-> fresh.notes, areas |-> fresh.areas, links |-> joined]
  <2>1. fresh = [notes |-> fresh.notes, areas |-> fresh.areas, links |-> fresh.links]
    BY <1>4 DEF FreshInv, FreshShape
  <2>2. fresh' = [fresh EXCEPT !.links = joined]
    BY <1>3, <1>6
  <2>. QED
    BY <2>1, <2>2
<1>8. /\ fresh'.notes = fresh.notes /\ fresh'.areas = fresh.areas /\ fresh'.links = joined
      /\ fresh' = [notes |-> fresh'.notes, areas |-> fresh'.areas, links |-> fresh'.links]
  <2>1. fresh'.notes = fresh.notes /\ fresh'.areas = fresh.areas /\ fresh'.links = joined
    BY <1>7
  <2>. QED
    BY <2>1, <1>7
<1>9. SnapInv' /\ ZipInv' /\ Docs' = Docs
  BY <1>3, <1>4, SnapKeeps, ZipSame
<1>10. FreshShape'
  <2>1. PICK rows, areas : rows = fresh.notes /\ areas = fresh.areas
    OBVIOUS
  <2>2. /\ IsSeq(rows) /\ \A m \in DOMAIN rows : IsRow(rows[m])
        /\ IsSeq(areas) /\ \A a \in DOMAIN areas : IsArea(areas[a])
    BY <2>1, <1>4 DEF FreshInv, FreshShape
  <2>3. IsSeq(fresh.notes)' /\ IsSeq(fresh.areas)'
    BY <2>1, <2>2, <1>8 DEF IsSeq
  <2>4. \A m \in DOMAIN fresh'.notes : IsRow(fresh.notes[m])'
    BY <2>1, <2>2, <1>8 DEF IsRow
  <2>5. \A a \in DOMAIN fresh'.areas : IsArea(fresh.areas[a])'
    BY <2>1, <2>2, <1>8 DEF IsArea
  <2>. QED
    BY <2>3, <2>4, <2>5, <1>8 DEF FreshShape
<1>11. RetiredRight'
  BY <1>3, <1>4, <1>8 DEF FreshInv, RetiredRight
<1>12. FreshGrows
  BY <1>3, <1>6, <1>8 DEF FreshGrows
<1>13. /\ FreshInv'
       /\ \A n \in Docs : (\A m \in Docs : Copies(m) # {}) /\ Linked(n) => Linked(n)'
  BY <1>4, <1>10, <1>11, <1>12, GrowsKeeps
<1>14. \A n \in Docs : Copies(n)' = Copies(n)
  <2>. SUFFICES ASSUME NEW n \in Docs PROVE Copies(n)' = Copies(n)
    OBVIOUS
  <2>1. PICK h : h = ExportId(zip.notes[n])
    OBVIOUS
  <2>2. h = ExportId(zip.notes[n])'
    BY <2>1, <1>3, ZipSame
  <2>3. Copies(n) = {m \in DOMAIN fresh.notes : fresh.notes[m].hash = h}
    BY <2>1 DEF Copies, FoundIn
  <2>4. Copies(n)' = {m \in DOMAIN fresh'.notes : fresh'.notes[m].hash = h}
    BY <2>2 DEF Copies, FoundIn
  <2>. QED
    BY <2>3, <2>4, <1>8
<1>15. \A n \in Docs : res.map[n] \in Copies(n)
  BY <1>3, <1>4 DEF MapInv
<1>16. \A n \in Docs : Copies(n) # {}
  BY <1>15
<1>17. PICK next : next = i + 1
  OBVIOUS
<1>18. res' = [at |-> res.at, i |-> next, live |-> res.live, map |-> res.map, note |-> res.note,
               thoughts |-> res.thoughts, files |-> res.files]
  BY <1>3, <1>4, <1>17 DEF ResShape
<1>19. /\ res'.at = "links" /\ res'.i = next /\ res'.map = res.map /\ res'.live = res.live
  <2>1. res'.at = res.at /\ res'.i = next /\ res'.map = res.map /\ res'.live = res.live
    BY <1>18
  <2>. QED
    BY <2>1, <1>3
<1>20. ResShape'
  <2>1. res.at \in Phases /\ res.at # "off" /\ next \in Nat /\ next >= 1
    BY <1>3, <1>4, <1>17 DEF Phases
  <2>. QED
    BY <2>1, <1>4, <1>9, <1>18, MapStays
<1>21. AreasInv'
  BY <1>3, <1>4, <1>8, <1>19, AreasStay
<1>22. MapInv'
  BY <1>9, <1>14, <1>15, <1>19 DEF MapInv
<1>23. Linked(i)'
  <2>. SUFFICES ASSUME NEW m \in zip'.notes[i].links \intersect Docs',
                       NEW k \in Copies(i)', NEW j \in Copies(m)'
                PROVE  <<k, j>> \in fresh'.links
    BY DEF Linked
  <2>1. m \in d.links /\ m \in Docs /\ k \in Copies(i) /\ j \in Copies(m)
    BY <1>1, <1>3, <1>5, <1>9, <1>14
  <2>2. k = res.map[i] /\ j = res.map[m]
    BY <2>1, <1>4, <1>5, <1>15 DEF FreshInv
  <2>3. m \in DOMAIN res.map
    BY <2>1, <1>3, <1>4 DEF ResShape
  <2>4. j # 0
    <3>1. j \in DOMAIN fresh.notes
      BY <2>1 DEF Copies, FoundIn
    <3>2. Len(fresh.notes) \in Nat /\ DOMAIN fresh.notes = 1 .. Len(fresh.notes)
      BY <1>4, FreshAreas
    <3>. QED
      BY <3>1, <3>2
  <2>5. m \in {x \in d.links : x \in DOMAIN res.map /\ res.map[x] # 0}
    BY <2>1, <2>2, <2>3, <2>4
  <2>6. <<k, j>> \in X
    BY <2>2, <2>5, <1>2, <1>5
  <2>. QED
    BY <2>6, <1>6, <1>8
<1>24. LinksInv'
  <2>1. ASSUME NEW n \in Docs, n < next
        PROVE  Linked(n)'
    <3>1. CASE n = i
      BY <3>1, <1>23
    <3>2. CASE n # i
      <4>1. n < res.i
        BY <3>2, <2>1, <1>1, <1>4, <1>17
      <4>2. Linked(n)
        BY <4>1, <1>3, <1>4 DEF LinksInv
      <4>. QED
        BY <4>2, <1>13, <1>16
    <3>. QED
      BY <3>1, <3>2
  <2>2. ASSUME done, NEW n \in Docs
        PROVE  Linked(n)'
    <3>1. Linked(n)
      BY <2>2, <1>4 DEF LinksInv
    <3>. QED
      BY <3>1, <1>13, <1>16
  <2>. QED
    BY <2>1, <2>2, <1>3, <1>9, <1>14, <1>16, <1>19 DEF LinksInv
<1>25. ContentsInv'
  <2>1. ASSUME fails' = 0, NEW n \in Docs, NEW m \in Copies(n)
        PROVE  Whole(zip.notes[n], m)'
    <3>1. Whole(zip.notes[n], m)
      BY <2>1, <1>3, <1>4 DEF ContentsInv
    <3>2. fresh'.notes[m] = fresh.notes[m]
      BY <1>8
    <3>. QED
      BY <3>1, <3>2, <1>3, WholeKept
  <2>2. fails' \in Nat /\ res'.at # "contents"
    BY <1>3, <1>4, <1>19
  <2>. QED
    BY <2>1, <2>2, <1>9, <1>14 DEF ContentsInv
<1>26. zip' # NoZip
  BY <1>3, <1>4
<1>. QED
  BY <1>9, <1>13, <1>20, <1>21, <1>22, <1>24, <1>25, <1>26 DEF RestoreInv

\* The restore does not move, whatever else the new library takes in.
LEMMA ResStays ==
  ASSUME RestoreInv, zip # NoZip, snap' = snap, notes' = notes, zip' = zip, res' = res,
         done' = done, fails' = fails, FreshInv', fresh'.areas = fresh.areas,
         \A n \in Docs : Copies(n)' = Copies(n),
         \A m \in DOMAIN fresh.notes : fresh'.notes[m] = fresh.notes[m],
         \A n \in Docs : (\A m \in Docs : Copies(m) # {}) /\ Linked(n) => Linked(n)'
  PROVE  RestoreInv'
<1>1. /\ SnapInv /\ ZipInv /\ FreshInv /\ ResShape /\ AreasInv /\ MapInv
      /\ LinksInv /\ ContentsInv /\ fails \in Nat
  BY RestoreFacts
<1>2. SnapInv' /\ ZipInv' /\ Docs' = Docs
  BY <1>1, SnapKeeps, ZipSame
<1>3. ResShape'
  <2>1. PICK r, D : r = res /\ D = Docs
    OBVIOUS
  <2>2. r = res' /\ D = Docs'
    BY <2>1, <1>2
  <2>3. /\ r = [at |-> r.at, i |-> r.i, live |-> r.live, map |-> r.map, note |-> r.note,
                thoughts |-> r.thoughts, files |-> r.files]
        /\ r.at \in Phases /\ r.i \in Nat /\ r.i >= 1
        /\ r.at # "off" => DOMAIN r.map = D /\ r.map = [n \in D |-> r.map[n]]
    BY <2>1, <1>1 DEF ResShape
  <2>. QED
    BY <2>2, <2>3 DEF ResShape
<1>4. AreasInv'
  <2>1. \A x : FreshNamed(x)' = FreshNamed(x)
    BY DEF FreshNamed
  <2>2. ASSUME NEW b \in DOMAIN zip.areas
        PROVE  FreshNamed(zip.areas[b].name)' = FreshNamed(zip.areas[b].name)
    <3>1. PICK x : x = zip.areas[b].name
      OBVIOUS
    <3>2. x = zip'.areas[b].name /\ FreshNamed(x)' = FreshNamed(x)
      BY <3>1, <2>1
    <3>. QED
      BY <3>1, <3>2 DEF FreshNamed
  <2>3. res.at = "retire" => Len(fresh.areas)' \in FreshNamed(zip.areas[res.i].name)'
    <3>. SUFFICES ASSUME res.at = "retire"
                  PROVE  Len(fresh'.areas) \in FreshNamed(zip.areas[res.i].name)'
      OBVIOUS
    <3>1. PICK k, x : k = Len(fresh.areas) /\ x = zip.areas[res.i].name
      OBVIOUS
    <3>2. k \in FreshNamed(x)
      BY <3>1, <1>1 DEF AreasInv
    <3>3. k \in DOMAIN fresh.areas /\ fresh.areas[k].name = x
      BY <3>2 DEF FreshNamed
    <3>4. k = Len(fresh'.areas) /\ x = zip'.areas[res'.i].name
      BY <3>1
    <3>. QED
      BY <3>3, <3>4 DEF FreshNamed
  <2>. QED
    BY <2>2, <2>3, <1>1 DEF AreasInv
<1>5. MapInv'
  BY <1>1, <1>2 DEF MapInv
<1>6. LinksInv'
  <2>1. res.at = "links" => \A n \in Docs : Copies(n) # {}
    BY <1>1 DEF MapInv
  <2>. QED
    BY <2>1, <1>1, <1>2 DEF LinksInv
<1>7. ContentsInv'
  <2>1. ASSUME fails' = 0, NEW n \in Docs, NEW m \in Copies(n),
               ~ (res.at = "contents" /\ res.i = n)
        PROVE  Whole(zip.notes[n], m)'
    <3>1. Whole(zip.notes[n], m)
      BY <2>1, <1>1 DEF ContentsInv
    <3>2. fresh'.notes[m] = fresh.notes[m]
      BY <2>1 DEF Copies, FoundIn
    <3>. QED
      BY <3>1, <3>2, WholeKept
  <2>2. ASSUME NEW n \in Docs, res.at = "contents", res.i = n
        PROVE  InHand(zip.notes[n])'
    <3>1. PICK d : d = zip.notes[n]
      OBVIOUS
    <3>2. InHand(d)
      BY <3>1, <2>2, <1>1 DEF ContentsInv
    <3>3. fresh'.notes[res'.note] = fresh.notes[res.note]
      BY <2>2, ContentsFacts
    <3>4. Words(d)' = Words(d) /\ ThoughtsBack(d.thoughts)' = ThoughtsBack(d.thoughts)
      BY ZipSame
    <3>5. InHand(d)'
      BY <3>2, <3>3, <3>4 DEF InHand
    <3>. QED
      BY <3>1, <3>5, InHandAt
  <2>. QED
    BY <2>1, <2>2, <1>1, <1>2 DEF ContentsInv
<1>. QED
  BY <1>2, <1>3, <1>4, <1>5, <1>6, <1>7 DEF RestoreInv

LEMMA CaptureKeeps ==
  ASSUME RestoreInv, Capture
  PROVE  RestoreInv'
<1>1. PICK row : row = [title |-> "new", body |-> "new", status |-> "inbox", area |-> 0,
                        hash |-> NoHash, thoughts |-> <<>>, files |-> {}, updated |-> "restored"]
  OBVIOUS
<1>2. PICK old, new : old = fresh.notes /\ new = Append(old, row)
  OBVIOUS
<1>3. /\ zip # NoZip /\ fresh' = [fresh EXCEPT !.notes = new]
      /\ res' = res /\ done' = done /\ fails' = fails /\ notes' = notes /\ snap' = snap
      /\ zip' = zip
  BY <1>1, <1>2 DEF Capture, libraryVars
<1>4. ZipInv /\ FreshInv
  BY <1>3, RestoreFacts
<1>5. fresh' = [notes |-> new, areas |-> fresh.areas, links |-> fresh.links]
  <2>1. fresh = [notes |-> fresh.notes, areas |-> fresh.areas, links |-> fresh.links]
    BY <1>4 DEF FreshInv, FreshShape
  <2>. QED
    BY <2>1, <1>3
<1>6. IsRow(row) /\ row.hash = NoHash /\ Added(new, fresh.notes, row)
  BY <1>1, <1>2 DEF IsRow, Added
<1>7. \A n \in Docs : row.hash # ExportId(zip.notes[n])
  BY <1>4, <1>6 DEF ZipInv
<1>8. \A n \in Docs : row.hash = ExportId(zip.notes[n]) =>
        Copies(n) = {} /\ RowRight(zip.notes[n], row)
  BY <1>7
<1>9. /\ FreshInv'
      /\ \A m \in DOMAIN fresh.notes : fresh'.notes[m] = fresh.notes[m]
      /\ \A n \in Docs : Copies(n)' = IF row.hash = ExportId(zip.notes[n])
                                      THEN {Len(fresh.notes) + 1} ELSE Copies(n)
      /\ \A n \in Docs : (\A m \in Docs : Copies(m) # {}) /\ Linked(n) => Linked(n)'
  BY <1>3, <1>4, <1>5, <1>6, <1>8, NewRow
<1>10. \A n \in Docs : Copies(n)' = Copies(n)
  BY <1>7, <1>9
<1>11. fresh'.areas = fresh.areas
  BY <1>5
<1>. QED
  BY <1>3, <1>9, <1>10, <1>11, ResStays

-----------------------------------------------------------------------------
(* The invariant, and what a restore that ran to its end has done          *)

LEMMA RestStays ==
  ASSUME RestoreInv, UNCHANGED vars
  PROVE  RestoreInv'
<1>1. /\ snap' = snap /\ notes' = notes /\ zip' = zip /\ fresh' = fresh /\ res' = res
      /\ done' = done /\ fails' = fails
  BY DEF vars, libraryVars, restoreVars
<1>2. CASE zip = NoZip
  <2>1. SnapInv'
    BY <1>1, SnapKeeps DEF RestoreInv
  <2>2. NothingYet'
    BY <1>1, <1>2 DEF RestoreInv, NothingYet
  <2>. QED
    BY <2>1, <2>2, <1>1, <1>2 DEF RestoreInv
<1>3. CASE zip # NoZip
  <2>1. ZipInv /\ FreshInv
    BY <1>3, RestoreFacts
  <2>2. FreshInv' /\ \A n : Copies(n)' = Copies(n) /\ Linked(n)' = Linked(n)
    BY <1>1, <2>1, FreshSame
  <2>3. fresh'.areas = fresh.areas /\ fresh'.notes = fresh.notes
    BY <1>1
  <2>. QED
    BY <1>1, <1>3, <2>2, <2>3, ResStays
<1>. QED
  BY <1>2, <1>3

LEMMA RestoreStepKeeps ==
  ASSUME RestoreInv, RestoreStep
  PROVE  RestoreInv'
<1>1. CASE import_export
  BY <1>1, import_exportKeeps
<1>2. CASE RestoreArea
  BY <1>2, RestoreAreaKeeps
<1>3. CASE RetireRestored
  BY <1>3, RetireRestoredKeeps
<1>4. CASE AreasRestored
  BY <1>4, AreasRestoredKeeps
<1>5. CASE AlreadyRestored
  BY <1>5, AlreadyRestoredKeeps
<1>6. CASE _restore_note
  BY <1>6, RestoreNoteKeeps
<1>7. CASE RestoreThought
  BY <1>7, RestoreThoughtKeeps
<1>8. CASE _restore_attachments
  BY <1>8, RestoreAttachmentsKeeps
<1>9. CASE _restore_provenance
  BY <1>9, RestoreProvenanceKeeps
<1>10. CASE NotesRestored
  BY <1>10, NotesRestoredKeeps
<1>11. CASE _restore_links
  BY <1>11, RestoreLinksKeeps
<1>12. CASE RestoreEnds
  BY <1>12, RestoreEndsKeeps
<1>13. CASE RestoreCrash
  BY <1>13, RestoreCrashKeeps
<1>14. CASE Capture
  BY <1>14, CaptureKeeps
<1>. QED
  BY <1>1, <1>2, <1>3, <1>4, <1>5, <1>6, <1>7, <1>8, <1>9, <1>10, <1>11, <1>12, <1>13, <1>14
  DEF RestoreStep

\* Whatever is exported, restored, broken off and repeated: the archive holds
\* each document once, the other library no document twice and each at home,
\* and the restore in progress (import_export in backend/notes_import.py) stands
\* on what the phases before it have done.
THEOREM RestoreInvariant == Spec => []RestoreInv
<1>1. RestoreInit => RestoreInv
  <2>. SUFFICES ASSUME RestoreInit PROVE RestoreInv
    OBVIOUS
  <2>1. /\ snap = <<>> /\ zip = NoZip /\ fresh = [notes |-> <<>>, areas |-> <<>>, links |-> {}]
        /\ res = NoRestore /\ fails = 0 /\ done = FALSE
    BY DEF RestoreInit
  <2>2. SnapInv
    BY <2>1 DEF SnapInv
  <2>3. NothingYet
    BY <2>1 DEF NothingYet
  <2>. QED
    BY <2>1, <2>2, <2>3 DEF RestoreInv
<1>2. ImportInv /\ RestoreInv /\ [Next]_vars => RestoreInv'
  <2>. SUFFICES ASSUME ImportInv, RestoreInv, [Next]_vars PROVE RestoreInv'
    OBVIOUS
  <2>1. CASE zip = NoZip /\ (ImportStep \/ Owner) /\ UNCHANGED restoreVars
    BY <2>1, UnwrittenKeeps
  <2>2. CASE ReadNotes
    BY <2>2, ReadNotesKeeps
  <2>3. CASE export_zip
    BY <2>3, export_zipKeeps, ImportAssumption
  <2>4. CASE RestoreStep
    BY <2>4, RestoreStepKeeps
  <2>5. CASE UNCHANGED vars
    BY <2>5, RestStays
  <2>. QED
    BY <2>1, <2>2, <2>3, <2>4, <2>5 DEF Next
<1>. QED
  BY <1>1, <1>2, ImportInvariant, PTL DEF Spec

LEMMA RestoreHolds ==
  ASSUME RestoreInv
  PROVE  Restored
<1>. SUFFICES ASSUME done PROVE Restored
  BY DEF Restored
<1>1. zip # NoZip
  BY DEF RestoreInv, NothingYet
<1>2. ZipInv /\ FreshInv /\ LinksInv /\ ContentsInv
  BY <1>1, RestoreFacts
<1>3. res.at # "contents" /\ \A n \in Docs : Copies(n) # {} /\ Linked(n)
  BY <1>2 DEF LinksInv
<1>4. ASSUME NEW n \in Docs
      PROVE  /\ Copies(n) = {CopyOf(zip.notes[n])}
             /\ FoundIn(zip.notes[n]) = Copies(n)
  <2>1. PICK m : m \in Copies(n)
    BY <1>3
  <2>2. Copies(n) = {m}
    BY <2>1, <1>2 DEF FreshInv
  <2>3. FoundIn(zip.notes[n]) = {m}
    BY <2>2 DEF Copies
  <2>4. CopyOf(zip.notes[n]) = m
    BY <2>3 DEF CopyOf
  <2>. QED
    BY <2>2, <2>3, <2>4
<1>5. ASSUME NEW n \in Docs
      PROVE  LET d == zip.notes[n]  copy == fresh.notes[CopyOf(d)] IN
             /\ Cardinality(FoundIn(d)) = 1
             /\ copy.body = Back(d.body)
             /\ IF copy.area # 0 THEN fresh.areas[copy.area].name = d.area
                ELSE d.area = "" \/ \E a \in DOMAIN zip.areas :
                                        zip.areas[a].name = d.area /\ zip.areas[a].archived
             /\ copy.status = d.status \/ copy.area = 0
             /\ \A m \in d.links \intersect DOMAIN zip.notes :
                    <<CopyOf(d), CopyOf(zip.notes[m])>> \in fresh.links
             /\ fails = 0 =>
                    /\ copy.thoughts = ThoughtsBack(d.thoughts)
                    /\ copy.files = d.files /\ copy.updated = d.updated
  <2>1. PICK d, m : d = zip.notes[n] /\ m = CopyOf(zip.notes[n])
    OBVIOUS
  <2>2. Copies(n) = {m} /\ FoundIn(d) = {m}
    BY <2>1, <1>4
  <2>3. Cardinality(FoundIn(d)) = 1
    BY <2>2, FS_Singleton
  <2>4. CopyRight(d, m)
    BY <2>1, <2>2, <1>2 DEF FreshInv
  <2>5. ASSUME NEW k \in d.links \intersect DOMAIN zip.notes
        PROVE  <<m, CopyOf(zip.notes[k])>> \in fresh.links
    <3>1. k \in Docs /\ Linked(n)
      BY <1>3 DEF Docs
    <3>2. CopyOf(zip.notes[k]) \in Copies(k)
      BY <3>1, <1>4
    <3>. QED
      BY <3>1, <3>2, <2>1, <2>2 DEF Linked
  <2>6. fails = 0 => Whole(d, m)
    BY <2>1, <2>2, <1>2, <1>3 DEF ContentsInv
  <2>. QED
    BY <2>1, <2>3, <2>4, <2>5, <2>6 DEF CopyRight, Homeless, Whole
<1>. QED
  BY <1>5 DEF Restored, Docs

\* A restore that ran to its end (import_export, _restore_note and
\* _restore_links in backend/notes_import.py) has brought every document home
\* exactly once, links included, whatever broke earlier runs off, and wholly
\* if none was.
THEOREM RestoreRestores == Spec => []Restored
<1>1. RestoreInv => Restored
  BY RestoreHolds
<1>. QED
  BY <1>1, RestoreInvariant, PTL
=============================================================================
