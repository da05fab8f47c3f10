-------------------------- MODULE SchedulesProofs --------------------------
(***************************************************************************)
(* Proofs about schedules and notifications, for every set of schedules,   *)
(* syncers and bounds: the bell misses no change, nothing in it is marked  *)
(* read by a change older than itself, the phone buzzes for every row that *)
(* was passed, and a schedule that does not overlap has one open task.     *)
(***************************************************************************)
EXTENDS Schedules, WellFoundedInduction, FiniteSetTheorems,
        SequenceTheorems, TLAPS

-----------------------------------------------------------------------------
(* Induction over the changes one sync tells *)

\* The least-number principle.
LEMMA LeastNat ==
  ASSUME NEW T, T \subseteq Nat, T # {}
  PROVE  \E x \in T : \A y \in T : x <= y
<1>. DEFINE R == {p \in Nat \X Nat : p[1] < p[2]}
<1>1. IsWellFoundedOn(R, Nat)
  BY NatLessThanWellFounded DEF OpToRel
<1>2. PICK x \in T : \A y \in T : ~ (<<y, x>> \in R)
  <2>. HIDE DEF R
  <2>. QED
    BY <1>1, WFMin
<1>3. ASSUME NEW y \in T
      PROVE  x <= y
  <2>1. x \in Nat /\ y \in Nat /\ <<y, x>> \notin R
    BY <1>2
  <2>2. y < x => <<y, x>> \in R
    BY <2>1
  <2>. QED
    BY <2>1, <2>2
<1>. QED
  BY <1>3

\* What the recursive function of Told satisfies on from .. upto.
Telling1(f, from, upto) ==
  f = [i \in from .. upto |-> Noted(IF i = from THEN notice ELSE f[i - 1], i)]

\* The function exists for every upto: extend it at the first gap.
LEMMA TellingExists ==
  ASSUME NEW from \in Nat, NEW upto \in Nat, from <= upto
  PROVE  \E f : Telling1(f, from, upto)
<1>. DEFINE Gaps == {u \in Nat : from <= u /\ ~ \E f : Telling1(f, from, u)}
<1>1. SUFFICES ASSUME Gaps # {}
               PROVE  FALSE
  OBVIOUS
<1>2. PICK u \in Gaps : \A v \in Gaps : u <= v
  BY <1>1, LeastNat
<1>3. u \in Nat /\ from <= u /\ ~ \E f : Telling1(f, from, u)
  BY <1>2
<1>4. CASE u = from
  <2>. DEFINE g == [i \in from .. u |-> Noted(notice, i)]
  <2>1. g = [i \in from .. u |-> Noted(IF i = from THEN notice ELSE g[i - 1], i)]
    BY <1>4
  <2>. QED
    BY <1>3, <2>1 DEF Telling1
<1>5. CASE u # from
  <2>1. u - 1 \in Nat /\ from <= u - 1 /\ u - 1 \notin Gaps
    BY <1>2, <1>3, <1>5
  <2>2. PICK f : Telling1(f, from, u - 1)
    BY <2>1
  <2>. DEFINE g == [i \in from .. u |->
                      IF i = u THEN Noted(f[u - 1], u) ELSE f[i]]
  <2>3. \A i \in from .. u - 1 :
          g[i] = Noted(IF i = from THEN notice ELSE g[i - 1], i)
    <3>1. TAKE i \in from .. u - 1
    <3>2. i \in from .. u /\ i # u /\ g[i] = f[i]
      BY <1>3
    <3>3. f[i] = Noted(IF i = from THEN notice ELSE f[i - 1], i)
      BY <2>2, <3>1 DEF Telling1
    <3>4. i # from => i - 1 \in from .. u /\ i - 1 # u /\ g[i - 1] = f[i - 1]
      BY <1>3
    <3>. QED
      BY <3>2, <3>3, <3>4
  <2>4. g[u] = Noted(IF u = from THEN notice ELSE g[u - 1], u)
    BY <1>3, <1>5, <2>1
  <2>5. g = [i \in from .. u |-> Noted(IF i = from THEN notice ELSE g[i - 1], i)]
    <3>1. \A i \in from .. u : g[i] = Noted(IF i = from THEN notice ELSE g[i - 1], i)
      <4>. HIDE DEF g
      <4>. QED
        BY <1>3, <2>3, <2>4
    <3>. HIDE DEF g
    <3>2. DOMAIN g = from .. u /\ g = [i \in DOMAIN g |-> g[i]]
      BY DEF g
    <3>. QED
      BY <3>1, <3>2
  <2>. QED
    BY <1>3, <2>5 DEF Telling1
<1>. QED
  BY <1>4, <1>5

-----------------------------------------------------------------------------
(* Rows of the bell *)

NoticeKeys == ({"transition"} \X Nat \X {0}) \cup ({"reminder"} \X Names \X Nat)
NoticeRow == [kind : {"needs_you", "done"}, task : Nat, key : NoticeKeys,
              ts : Nat, read : BOOLEAN, seen : BOOLEAN]
MoveRow == [task : Nat, to : {"ready", "blocked", "done"}]

\* A change the owner should hear of.
Concerns(i) == moves[i].to \in NOTIFY_NEEDS_YOU \union NOTIFY_INFO
KeyOf(i) == <<"transition", i, 0>>

\* rows becomes new by telling the changes in I: nothing is lost or rewritten,
\* a row is marked read only by a later change of its own task.
Retold(rows, new, I) ==
  /\ new \in Seq(NoticeRow) /\ Len(rows) <= Len(new)
  /\ \A n \in DOMAIN rows :
       /\ new[n].kind = rows[n].kind /\ new[n].task = rows[n].task
       /\ new[n].key = rows[n].key /\ new[n].ts = rows[n].ts
       /\ new[n].seen = rows[n].seen
       /\ rows[n].read => new[n].read
       /\ new[n].read => \/ rows[n].read
                         \/ \E i \in I : /\ moves[i].task = rows[n].task
                                         /\ rows[n].ts <= 2 * i
  /\ \A n \in DOMAIN new \ DOMAIN rows : new[n].key[1] = "transition"

LEMMA RetoldStages ==
  ASSUME NEW a \in Seq(NoticeRow), NEW b, NEW c, NEW I, NEW J,
         Retold(a, b, I), Retold(b, c, J)
  PROVE  Retold(a, c, I \cup J)
<1>1. /\ b \in Seq(NoticeRow) /\ c \in Seq(NoticeRow)
      /\ Len(a) <= Len(b) /\ Len(b) <= Len(c)
  BY DEF Retold
<1>2. DOMAIN a \subseteq DOMAIN b
  BY <1>1
<1>3. \A n \in DOMAIN a :
       /\ c[n].kind = a[n].kind /\ c[n].task = a[n].task
       /\ c[n].key = a[n].key /\ c[n].ts = a[n].ts
       /\ c[n].seen = a[n].seen
       /\ a[n].read => c[n].read
       /\ c[n].read => \/ a[n].read
                       \/ \E i \in I \cup J : /\ moves[i].task = a[n].task
                                              /\ a[n].ts <= 2 * i
  BY <1>2 DEF Retold
<1>4. \A n \in DOMAIN c \ DOMAIN a : c[n].key[1] = "transition"
  <2>1. TAKE n \in DOMAIN c \ DOMAIN a
  <2>2. CASE n \in DOMAIN b
    <3>1. b[n].key[1] = "transition" /\ c[n].key = b[n].key
      BY <2>1, <2>2 DEF Retold
    <3>. QED
      BY <3>1
  <2>3. CASE n \notin DOMAIN b
    BY <2>1, <2>3 DEF Retold
  <2>. QED
    BY <2>2, <2>3
<1>. QED
  BY <1>1, <1>3, <1>4 DEF Retold

\* Telling keeps the keys there are.
LEMMA RetoldKeys ==
  ASSUME NEW a \in Seq(NoticeRow), NEW b, NEW I, Retold(a, b, I)
  PROVE  Keys(a) \subseteq Keys(b)
<1>1. DOMAIN a \subseteq DOMAIN b
  BY DEF Retold
<1>. QED
  BY <1>1 DEF Keys, Retold

LEMMA StaledRetold ==
  ASSUME NEW rows \in Seq(NoticeRow), NEW i \in Nat
  PROVE  Retold(rows, Staled(rows, i), {i})
<1>. DEFINE new == Staled(rows, i)
<1>1. /\ DOMAIN new = DOMAIN rows
      /\ \A n \in DOMAIN rows :
           new[n] = IF /\ rows[n].task = moves[i].task /\ rows[n].kind \in Attention
                       /\ rows[n].ts <= 2 * i
                    THEN [rows[n] EXCEPT !.read = TRUE] ELSE rows[n]
  BY DEF Staled
<1>2. \A n \in DOMAIN rows : rows[n] \in NoticeRow
  OBVIOUS
<1>3. \A n \in DOMAIN rows : new[n] \in NoticeRow
  <2>. HIDE DEF new
  <2>. QED
    BY <1>1, <1>2 DEF NoticeRow
<1>4. new \in Seq(NoticeRow) /\ Len(new) = Len(rows)
  <2>1. new \in [1 .. Len(rows) -> NoticeRow]
    <3>1. DOMAIN rows = 1 .. Len(rows)
      OBVIOUS
    <3>2. new = [n \in DOMAIN rows |-> new[n]]
      BY DEF Staled
    <3>. HIDE DEF new
    <3>. QED
      BY <1>1, <1>3, <3>1, <3>2
  <2>2. Len(rows) \in Nat
    OBVIOUS
  <2>. HIDE DEF new
  <2>. QED
    BY <2>1, <2>2
<1>5. \A n \in DOMAIN rows :
       /\ new[n].kind = rows[n].kind /\ new[n].task = rows[n].task
       /\ new[n].key = rows[n].key /\ new[n].ts = rows[n].ts
       /\ new[n].seen = rows[n].seen
       /\ rows[n].read => new[n].read
       /\ new[n].read => \/ rows[n].read
                         \/ /\ moves[i].task = rows[n].task
                            /\ rows[n].ts <= 2 * i
  <2>. HIDE DEF new
  <2>. QED
    BY <1>1, <1>2 DEF NoticeRow
<1>. HIDE DEF new
<1>. QED
  BY <1>1, <1>4, <1>5 DEF Retold, new

\* INSERT OR IGNORE.
LEMMA InsertedRetold ==
  ASSUME NEW rows \in Seq(NoticeRow), NEW row \in NoticeRow, NEW I
  PROVE  /\ row.key \in Keys(Inserted(rows, row))
         /\ row.key[1] = "transition" => Retold(rows, Inserted(rows, row), I)
<1>1. CASE row.key \in Keys(rows)
  BY <1>1 DEF Inserted, Retold
<1>2. CASE row.key \notin Keys(rows)
  <2>1. Inserted(rows, row) = Append(rows, row)
    BY <1>2 DEF Inserted
  <2>. DEFINE new == Append(rows, row)
  <2>2. /\ new \in Seq(NoticeRow) /\ Len(new) = Len(rows) + 1
        /\ \A n \in DOMAIN rows : new[n] = rows[n]
        /\ new[Len(rows) + 1] = row
        /\ DOMAIN new = 1 .. Len(rows) + 1 /\ DOMAIN rows = 1 .. Len(rows)
        /\ Len(rows) \in Nat
    BY AppendProperties
  <2>. HIDE DEF new
  <2>3. row.key \in Keys(new)
    BY <2>2 DEF Keys
  <2>4. row.key[1] = "transition" => Retold(rows, new, I)
    BY <2>2 DEF Retold
  <2>. QED
    BY <2>1, <2>3, <2>4 DEF new
<1>. QED
  BY <1>1, <1>2

LEMMA NotedRetold ==
  ASSUME NEW rows \in Seq(NoticeRow), NEW i \in DOMAIN moves, moves \in Seq(MoveRow)
  PROVE  /\ Retold(rows, Noted(rows, i), {i})
         /\ Concerns(i) => KeyOf(i) \in Keys(Noted(rows, i))
<1>1. i \in Nat /\ moves[i] \in MoveRow
  OBVIOUS
<1>2. Retold(rows, Staled(rows, i), {i})
  BY <1>1, StaledRetold
<1>3. CASE ~ Concerns(i)
  BY <1>2, <1>3 DEF Noted, Concerns
<1>4. CASE Concerns(i)
  <2>. DEFINE row == [kind |-> KindOf(moves[i].to), task |-> moves[i].task,
                      key |-> <<"transition", i, 0>>, ts |-> 2 * i,
                      read |-> FALSE, seen |-> FALSE]
  <2>1. Noted(rows, i) = Inserted(Staled(rows, i), row)
    BY <1>4 DEF Noted, Concerns
  <2>2. row \in NoticeRow /\ row.key = KeyOf(i) /\ row.key[1] = "transition"
    BY <1>1 DEF NoticeRow, NoticeKeys, MoveRow, KindOf, KeyOf
  <2>. HIDE DEF row
  <2>3. Staled(rows, i) \in Seq(NoticeRow)
    BY <1>2 DEF Retold
  <2>4. /\ row.key \in Keys(Inserted(Staled(rows, i), row))
        /\ Retold(Staled(rows, i), Inserted(Staled(rows, i), row), {i})
    BY <2>2, <2>3, InsertedRetold
  <2>5. Retold(rows, Inserted(Staled(rows, i), row), {i} \cup {i})
    BY <1>2, <2>4, RetoldStages
  <2>6. {i} \cup {i} = {i}
    OBVIOUS
  <2>. QED
    BY <2>1, <2>2, <2>4, <2>5, <2>6
<1>. QED
  BY <1>3, <1>4

\* The bell after a sync has told a range of changes.
LEMMA ToldRetold ==
  ASSUME notice \in Seq(NoticeRow), moves \in Seq(MoveRow),
         NEW from \in Nat \ {0}, NEW upto \in Nat, upto <= Len(moves)
  PROVE  /\ Retold(notice, Told(from, upto), from .. upto)
         /\ \A i \in from .. upto : Concerns(i) => KeyOf(i) \in Keys(Told(from, upto))
<1>1. CASE from > upto
  BY <1>1 DEF Told, Retold
<1>2. CASE from <= upto
  <2>1. PICK f : Telling1(f, from, upto) /\ Told(from, upto) = f[upto]
    <3>. DEFINE g == CHOOSE f : Telling1(f, from, upto)
    <3>1. Telling1(g, from, upto)
      BY <1>2, TellingExists
    <3>2. Told(from, upto) = g[upto]
      BY <1>2 DEF Told, Telling1
    <3>. HIDE DEF g
    <3>. QED
      BY <3>1, <3>2
  <2>2. \A i \in from .. upto : f[i] = Noted(IF i = from THEN notice ELSE f[i - 1], i)
    BY <2>1 DEF Telling1
  <2>. DEFINE Good(i) == /\ Retold(notice, f[i], from .. i)
                         /\ \A j \in from .. i : Concerns(j) => KeyOf(j) \in Keys(f[i])
              Bad == {i \in from .. upto : ~ Good(i)}
  <2>3. ASSUME Bad # {}
        PROVE  FALSE
    <3>1. PICK i \in Bad : \A j \in Bad : i <= j
      <4>1. Bad \subseteq Nat
        OBVIOUS
      <4>. HIDE DEF Bad
      <4>. QED
        BY <2>3, <4>1, LeastNat
    <3>2. i \in from .. upto /\ ~ Good(i) /\ i \in DOMAIN moves /\ i \in Nat
      BY <3>1
    <3>3. CASE i = from
      <4>1. f[i] = Noted(notice, i) /\ from .. i = {i}
        BY <2>2, <3>2, <3>3
      <4>2. /\ Retold(notice, Noted(notice, i), {i})
            /\ Concerns(i) => KeyOf(i) \in Keys(Noted(notice, i))
        BY <3>2, NotedRetold
      <4>. QED
        BY <3>2, <4>1, <4>2
    <3>4. CASE i # from
      <4>1. i - 1 \in from .. upto /\ Good(i - 1)
        BY <3>1, <3>2, <3>4
      <4>2. f[i] = Noted(f[i - 1], i)
        BY <2>2, <3>2, <3>4
      <4>3. f[i - 1] \in Seq(NoticeRow) /\ Retold(notice, f[i - 1], from .. i - 1)
        BY <4>1 DEF Retold
      <4>4. /\ Retold(f[i - 1], f[i], {i})
            /\ Concerns(i) => KeyOf(i) \in Keys(f[i])
        BY <3>2, <4>2, <4>3, NotedRetold
      <4>5. (from .. i - 1) \cup {i} = from .. i
        BY <3>2
      <4>6. Retold(notice, f[i], from .. i)
        BY <4>3, <4>4, <4>5, RetoldStages
      <4>7. Keys(f[i - 1]) \subseteq Keys(f[i])
        BY <4>3, <4>4, RetoldKeys
      <4>8. \A j \in from .. i : Concerns(j) => KeyOf(j) \in Keys(f[i])
        BY <4>1, <4>4, <4>5, <4>7
      <4>. QED
        BY <3>2, <4>6, <4>8
    <3>. QED
      BY <3>3, <3>4
  <2>4. Good(upto)
    BY <1>2, <2>3
  <2>. QED
    BY <2>1, <2>4
<1>. QED
  BY <1>1, <1>2

-----------------------------------------------------------------------------
(* The invariant of Notices *)

SyncRow == [at : {"idle", "rows", "write", "unpushed", "marks", "push"},
            last : Nat, top : Nat, rows : SUBSET Nat, ids : SUBSET Nat]

BellTyped ==
  /\ moves \in Seq(MoveRow) /\ notice \in Seq(NoticeRow)
  /\ mark \in Nat /\ mark <= Len(moves)
  /\ pushMark \in Nat /\ pushMark <= Len(notice)
  /\ sync \in [Syncers -> SyncRow]
  /\ buzzed \subseteq DOMAIN notice
  /\ crashes \in Nat

\* The bell holds what the changes up to k have to say.
Passed(k) == \A i \in 1 .. k : Concerns(i) => KeyOf(i) \in Keys(notice)

\* A syncer that has read its watermark has read it no earlier than the bell
\* was complete up to it; the rows it tells run on from there, at least to the
\* newest change it saw.
Heard(s) ==
  /\ sync[s].at \in {"rows", "write"} =>
       /\ sync[s].last <= Len(moves) /\ sync[s].top <= Len(moves)
       /\ Passed(sync[s].last)
  /\ sync[s].at = "write" =>
       \E u \in Nat : /\ sync[s].top <= u /\ sync[s].last <= u /\ u <= Len(moves)
                      /\ sync[s].rows = sync[s].last + 1 .. u

\* A row that is not a change's was written between two changes.
Kept(n) ==
  notice[n].key[1] # "transition" =>
    /\ \E k \in Nat : notice[n].ts = 2 * k + 1
    /\ notice[n].read => \/ notice[n].seen
                         \/ \E i \in DOMAIN moves : /\ moves[i].task = notice[n].task
                                                    /\ 2 * i > notice[n].ts

\* What Buzzed says of one row.
Covered(n) ==
  \/ notice[n].read
  \/ \E m \in buzzed : m >= n /\ notice[m].task = notice[n].task
  \/ \E s \in Syncers : sync[s].at = "push" /\ n \in sync[s].ids

\* The rows a syncer is about to pass run on from a watermark that had passed
\* only covered rows.
Pushing(s) ==
  /\ sync[s].at = "marks" =>
       \E p, q \in Nat : /\ p < q /\ q <= Len(notice)
                         /\ sync[s].ids = p + 1 .. q
                         /\ crashes = 0 => \A n \in 1 .. p : Covered(n)
  /\ sync[s].at = "push" => sync[s].ids \subseteq DOMAIN notice

NoticesInv ==
  /\ BellTyped
  /\ Passed(mark)
  /\ \A s \in Syncers : Heard(s)
  /\ \A n \in DOMAIN notice : Kept(n)
  /\ crashes = 0 => \A n \in 1 .. pushMark : Covered(n)
  /\ \A s \in Syncers : Pushing(s)

\* What the steps of Schedules do to the bell.
Tells == UNCHANGED noticeVars /\ UNCHANGED crashes
Records ==
  /\ \E t \in Nat, to \in {"ready", "blocked", "done"} : Moved(t, to)
  /\ UNCHANGED <<notice, mark, pushMark, sync, buzzed, crashes>>
Reminds ==
  /\ \E t \in Nat, s \in Names, at \in Nat :
       add_notification("needs_you", t, <<"reminder", s, at>>)
  /\ UNCHANGED <<moves, mark, pushMark, sync, buzzed, crashes>>
Reads == MarkRead /\ UNCHANGED crashes
Dies ==
  /\ sync' = [s \in Syncers |-> Idle]
  /\ crashes' = crashes + 1
  /\ UNCHANGED <<moves, notice, mark, pushMark, buzzed>>
Syncs(s) == SyncStep(s) /\ UNCHANGED crashes
NoticesStep ==
  Tells \/ Records \/ Reminds \/ Reads \/ Dies \/ \E s \in Syncers : Syncs(s)

\* Every step of the bell only adds to it.
BellGrows ==
  /\ moves' \in Seq(MoveRow) /\ Len(moves) <= Len(moves')
  /\ \A i \in DOMAIN moves : moves'[i] = moves[i]
  /\ notice' \in Seq(NoticeRow) /\ Len(notice) <= Len(notice')
  /\ \A n \in DOMAIN notice :
       /\ notice'[n].kind = notice[n].kind /\ notice'[n].task = notice[n].task
       /\ notice'[n].key = notice[n].key /\ notice'[n].ts = notice[n].ts
       /\ notice[n].read => notice'[n].read
       /\ notice[n].seen => notice'[n].seen

LEMMA GrowsPassed ==
  ASSUME BellTyped, BellGrows, NEW k \in Nat, k <= Len(moves), Passed(k)
  PROVE  Passed(k)'
<1>1. DOMAIN notice \subseteq DOMAIN notice' /\ 1 .. k \subseteq DOMAIN moves
  BY DEF BellTyped, BellGrows
<1>2. Keys(notice) \subseteq Keys(notice')
  BY <1>1 DEF Keys, BellGrows
<1>3. \A i \in 1 .. k : Concerns(i)' => Concerns(i)
  BY <1>1 DEF Concerns, BellGrows
<1>. QED
  BY <1>2, <1>3 DEF Passed, KeyOf

\* A syncer that does not move still knows what it knew.
LEMMA GrowsHeard ==
  ASSUME BellTyped, BellGrows, NEW s \in Syncers, Heard(s), sync'[s] = sync[s]
  PROVE  Heard(s)'
<1>1. Len(moves) \in Nat /\ Len(moves') \in Nat /\ Len(moves) <= Len(moves')
  BY DEF BellTyped, BellGrows
<1>2. sync[s] \in SyncRow
  BY DEF BellTyped
<1>3. sync[s].at \in {"rows", "write"} => Passed(sync[s].last)'
  BY <1>2, GrowsPassed DEF Heard, SyncRow
<1>. QED
  BY <1>1, <1>2, <1>3 DEF Heard, SyncRow

\* What was covered stays covered while nobody dies: by its row, by what has
\* buzzed, or by a caller that still holds it.
LEMMA GrowsCovered ==
  ASSUME BellTyped, BellGrows, buzzed \subseteq buzzed',
         NEW n \in DOMAIN notice, Covered(n),
         \A s \in Syncers : sync[s].at = "push" /\ n \in sync[s].ids =>
            Covered(n)' \/ (sync'[s].at = "push" /\ n \in sync'[s].ids)
  PROVE  Covered(n)'
BY DEF BellTyped, BellGrows, Covered

LEMMA AppendedMove ==
  ASSUME moves \in Seq(MoveRow), NEW t \in Nat, NEW to \in {"ready", "blocked", "done"},
         Moved(t, to)
  PROVE  /\ moves' \in Seq(MoveRow) /\ Len(moves') = Len(moves) + 1
         /\ \A i \in DOMAIN moves : moves'[i] = moves[i] /\ i \in DOMAIN moves'
<1>1. [task |-> t, to |-> to] \in MoveRow
  BY DEF MoveRow
<1>. QED
  BY <1>1 DEF Moved

\* A row the owner reads, and a row that a reminder adds.
LEMMA ReadRow ==
  ASSUME notice \in Seq(NoticeRow), MarkRead
  PROVE  /\ notice' \in Seq(NoticeRow) /\ Len(notice') = Len(notice)
         /\ \A n \in DOMAIN notice :
              /\ notice'[n].kind = notice[n].kind /\ notice'[n].task = notice[n].task
              /\ notice'[n].key = notice[n].key /\ notice'[n].ts = notice[n].ts
              /\ notice[n].read => notice'[n].read
              /\ notice[n].seen => notice'[n].seen
              /\ notice'[n].read => notice[n].read \/ notice'[n].seen
<1>1. PICK m \in DOMAIN notice :
        notice' = [notice EXCEPT ![m].read = TRUE, ![m].seen = TRUE]
  BY DEF MarkRead
<1>2. \A n \in DOMAIN notice : notice[n] \in NoticeRow
  OBVIOUS
<1>3. DOMAIN notice' = DOMAIN notice /\ notice' = [n \in DOMAIN notice |-> notice'[n]]
  BY <1>1
<1>4. \A n \in DOMAIN notice :
        notice'[n] = IF n = m THEN [notice[n] EXCEPT !.read = TRUE, !.seen = TRUE]
                     ELSE notice[n]
  BY <1>1
<1>5. \A n \in DOMAIN notice : notice'[n] \in NoticeRow
  <2>. SUFFICES ASSUME NEW n \in DOMAIN notice
                PROVE  notice'[n] \in NoticeRow
    OBVIOUS
  <2>1. PICK row \in NoticeRow : row = notice[n]
    BY <1>2
  <2>2. [row EXCEPT !.read = TRUE, !.seen = TRUE] \in NoticeRow
    BY ONLY <2>1 DEF NoticeRow
  <2>. QED
    BY <1>4, <2>1, <2>2
<1>6. notice' \in Seq(NoticeRow) /\ Len(notice') = Len(notice)
  <2>1. notice' \in [1 .. Len(notice) -> NoticeRow] /\ Len(notice) \in Nat
    <3>1. DOMAIN notice = 1 .. Len(notice) /\ Len(notice) \in Nat
      OBVIOUS
    <3>. QED
      BY <1>3, <1>5, <3>1
  <2>. QED
    BY <2>1
<1>. QED
  BY <1>2, <1>4, <1>6 DEF NoticeRow

LEMMA Reminded ==
  ASSUME moves \in Seq(MoveRow), notice \in Seq(NoticeRow),
         NEW t \in Nat, NEW s \in Names, NEW at \in Nat,
         add_notification("needs_you", t, <<"reminder", s, at>>)
  PROVE  /\ notice' \in Seq(NoticeRow) /\ Len(notice) <= Len(notice')
         /\ \A n \in DOMAIN notice : notice'[n] = notice[n]
         /\ \A n \in DOMAIN notice' \ DOMAIN notice :
              ~ notice'[n].read /\ notice'[n].ts = 2 * Len(moves) + 1
<1>. DEFINE row == [kind |-> "needs_you", task |-> t, key |-> <<"reminder", s, at>>,
                    ts |-> Moment, read |-> FALSE, seen |-> FALSE]
<1>1. /\ row \in NoticeRow /\ ~ row.read /\ row.ts = 2 * Len(moves) + 1
      /\ notice' = Inserted(notice, row)
  BY DEF NoticeRow, NoticeKeys, Moment, add_notification
<1>. HIDE DEF row
<1>2. CASE row.key \in Keys(notice)
  BY <1>1, <1>2 DEF Inserted
<1>3. CASE row.key \notin Keys(notice)
  <2>1. notice' = Append(notice, row)
    BY <1>1, <1>3 DEF Inserted
  <2>. QED
    BY <1>1, <2>1
<1>. QED
  BY <1>2, <1>3

LEMMA SyncWrites ==
  ASSUME BellTyped, NEW s \in Syncers, Heard(s), WriteSync(s)
  PROVE  /\ Retold(notice, notice', DOMAIN moves)
         /\ mark' = sync[s].top /\ mark' \in Nat /\ mark' <= Len(moves)
         /\ Passed(mark)'
         /\ UNCHANGED <<moves, pushMark, buzzed>>
         /\ sync' = [sync EXCEPT ![s] = [Idle EXCEPT !.at = "unpushed"]]
<1>1. /\ sync[s].at = "write" /\ mark' = sync[s].top
      /\ notice' = Told(sync[s].last + 1, sync[s].last + Cardinality(sync[s].rows))
      /\ UNCHANGED <<moves, pushMark, buzzed>>
      /\ sync' = [sync EXCEPT ![s] = [Idle EXCEPT !.at = "unpushed"]]
  BY DEF WriteSync, Step
<1>2. sync[s].last \in Nat /\ sync[s].top \in Nat
  BY DEF BellTyped, SyncRow
<1>3. PICK u \in Nat : /\ sync[s].top <= u /\ sync[s].last <= u /\ u <= Len(moves)
                       /\ sync[s].rows = sync[s].last + 1 .. u
  BY <1>1 DEF Heard
<1>4. Cardinality(sync[s].rows) = u - sync[s].last
  <2>. DEFINE a == sync[s].last + 1
  <2>1. a \in Int /\ u \in Int
    BY <1>2
  <2>2. Cardinality(a .. u) = IF a > u THEN 0 ELSE u - a + 1
    <3>. HIDE DEF a
    <3>. QED
      BY <2>1, FS_Interval
  <2>. QED
    BY <1>2, <1>3, <2>2
<1>5. notice' = Told(sync[s].last + 1, u)
  BY <1>1, <1>2, <1>3, <1>4
<1>6. /\ Retold(notice, notice', sync[s].last + 1 .. u)
      /\ \A i \in sync[s].last + 1 .. u : Concerns(i) => KeyOf(i) \in Keys(notice')
  BY <1>2, <1>3, <1>5, ToldRetold DEF BellTyped
<1>7. Keys(notice) \subseteq Keys(notice')
  BY <1>6, RetoldKeys DEF BellTyped
<1>8. \A i \in 1 .. sync[s].top : Concerns(i) => KeyOf(i) \in Keys(notice')
  BY <1>1, <1>2, <1>3, <1>6, <1>7 DEF Heard, Passed
<1>9. Passed(mark)'
  <2>1. \A i \in 1 .. mark' : Concerns(i)' => KeyOf(i) \in Keys(notice')
    BY <1>1, <1>8 DEF Concerns
  <2>. QED
    BY <2>1 DEF Passed, KeyOf
<1>10. Retold(notice, notice', DOMAIN moves)
  <2>1. sync[s].last + 1 .. u \subseteq DOMAIN moves
    BY <1>2, <1>3 DEF BellTyped
  <2>. QED
    BY <1>6, <2>1 DEF Retold
<1>. QED
  BY <1>1, <1>2, <1>9, <1>10, <1>3

\* No step rewrites the bell, and none marks a row read that it may not.
LEMMA StepGrows ==
  ASSUME NoticesInv, NoticesStep
  PROVE  /\ BellGrows /\ buzzed \subseteq buzzed'
         /\ \A n \in DOMAIN notice' : Kept(n)'
<1>0. BellTyped /\ moves \in Seq(MoveRow) /\ notice \in Seq(NoticeRow)
  BY DEF NoticesInv, BellTyped
<1>00. /\ \A n \in DOMAIN notice : Kept(n)
       /\ \A s \in Syncers : Heard(s)
  BY DEF NoticesInv
<1>1. CASE UNCHANGED <<notice, moves>> /\ buzzed \subseteq buzzed'
  BY <1>0, <1>00, <1>1 DEF BellGrows, Kept
<1>2. CASE Records
  <2>1. /\ moves' \in Seq(MoveRow) /\ Len(moves') = Len(moves) + 1
        /\ \A i \in DOMAIN moves : moves'[i] = moves[i] /\ i \in DOMAIN moves'
    BY <1>0, <1>2, AppendedMove DEF Records
  <2>2. UNCHANGED <<notice, buzzed>>
    BY <1>2 DEF Records
  <2>3. BellGrows
    BY <1>0, <2>1, <2>2 DEF BellGrows
  <2>4. \A n \in DOMAIN notice : Kept(n)'
    BY <1>00, <2>1, <2>2 DEF Kept
  <2>. QED
    BY <2>2, <2>3, <2>4
<1>3. CASE Reminds
  <2>1. /\ notice' \in Seq(NoticeRow) /\ Len(notice) <= Len(notice')
        /\ \A n \in DOMAIN notice : notice'[n] = notice[n]
        /\ \A n \in DOMAIN notice' \ DOMAIN notice :
             ~ notice'[n].read /\ notice'[n].ts = 2 * Len(moves) + 1
    BY <1>0, <1>3, Reminded DEF Reminds
  <2>2. UNCHANGED <<moves, buzzed>> /\ Len(moves) \in Nat
    BY <1>0, <1>3 DEF Reminds
  <2>3. BellGrows
    BY <1>0, <2>1, <2>2 DEF BellGrows
  <2>4. \A n \in DOMAIN notice : Kept(n)'
    BY <1>00, <2>1, <2>2 DEF Kept
  <2>5. \A n \in DOMAIN notice' \ DOMAIN notice : Kept(n)'
    BY <2>1, <2>2 DEF Kept
  <2>. QED
    BY <2>2, <2>3, <2>4, <2>5
<1>4. CASE Reads
  <2>1. /\ notice' \in Seq(NoticeRow) /\ Len(notice') = Len(notice)
        /\ \A n \in DOMAIN notice :
              /\ notice'[n].kind = notice[n].kind /\ notice'[n].task = notice[n].task
              /\ notice'[n].key = notice[n].key /\ notice'[n].ts = notice[n].ts
              /\ notice[n].read => notice'[n].read
              /\ notice[n].seen => notice'[n].seen
              /\ notice'[n].read => notice[n].read \/ notice'[n].seen
    BY <1>0, <1>4, ReadRow DEF Reads
  <2>2. UNCHANGED <<moves, buzzed>> /\ DOMAIN notice' = DOMAIN notice
    BY <1>0, <1>4, <2>1 DEF Reads, MarkRead
  <2>3. BellGrows
    BY <1>0, <2>1, <2>2 DEF BellGrows
  <2>4. \A n \in DOMAIN notice : Kept(n)'
    BY <1>00, <2>1, <2>2 DEF Kept
  <2>. QED
    BY <2>2, <2>3, <2>4
<1>5. ASSUME NEW s \in Syncers, WriteSync(s)
      PROVE  /\ BellGrows /\ buzzed \subseteq buzzed'
             /\ \A n \in DOMAIN notice' : Kept(n)'
  <2>1. Retold(notice, notice', DOMAIN moves) /\ UNCHANGED <<moves, buzzed>>
    BY <1>0, <1>00, <1>5, SyncWrites
  <2>2. BellGrows
    BY <1>0, <2>1 DEF BellGrows, Retold
  <2>3. \A n \in DOMAIN notice : Kept(n)'
    <3>1. TAKE n \in DOMAIN notice
    <3>2. SUFFICES ASSUME notice'[n].key[1] # "transition"
                   PROVE  /\ \E k \in Nat : notice'[n].ts = 2 * k + 1
                          /\ notice'[n].read =>
                               \/ notice'[n].seen
                               \/ \E i \in DOMAIN moves : /\ moves[i].task = notice'[n].task
                                                          /\ 2 * i > notice'[n].ts
      BY <2>1 DEF Kept
    <3>3. /\ notice'[n].task = notice[n].task /\ notice'[n].key = notice[n].key
          /\ notice'[n].ts = notice[n].ts /\ notice'[n].seen = notice[n].seen
          /\ notice'[n].read => \/ notice[n].read
                                \/ \E i \in DOMAIN moves : /\ moves[i].task = notice[n].task
                                                           /\ notice[n].ts <= 2 * i
      BY <2>1 DEF Retold
    <3>4. PICK k \in Nat : notice[n].ts = 2 * k + 1
      BY <1>00, <3>2, <3>3 DEF Kept
    <3>5. \A i \in DOMAIN moves : notice[n].ts <= 2 * i => 2 * i > notice[n].ts
      BY <1>0, <3>4
    <3>. QED
      BY <1>00, <3>2, <3>3, <3>4, <3>5 DEF Kept
  <2>4. \A n \in DOMAIN notice' \ DOMAIN notice : Kept(n)'
    BY <2>1 DEF Kept, Retold
  <2>. QED
    BY <2>1, <2>2, <2>3, <2>4
<1>6. CASE Tells \/ Dies
  BY <1>1, <1>6 DEF Tells, Dies, noticeVars
<1>7. ASSUME NEW s \in Syncers, SyncStep(s)
      PROVE  /\ BellGrows /\ buzzed \subseteq buzzed'
             /\ \A n \in DOMAIN notice' : Kept(n)'
  BY <1>1, <1>5, <1>7 DEF SyncStep, Start, ReadRows, ReadUnpushed, MarkPushed,
     push_notifications
<1>. QED
  BY <1>2, <1>3, <1>4, <1>6, <1>7 DEF NoticesStep, Syncs

\* Of the rows of one batch, an unread one or a later one of its task buzzes.
LEMMA CollapseCovers ==
  ASSUME BellTyped, NEW ids, ids \subseteq DOMAIN notice, NEW n \in ids,
         ~ notice[n].read
  PROVE  \E m \in collapse_for_push(ids) : m >= n /\ notice[m].task = notice[n].task
<1>. DEFINE T == {m \in ids : ~ notice[m].read /\ notice[m].task = notice[n].task /\ m >= n}
            D == {Len(notice) - m : m \in T}
<1>1. /\ Len(notice) \in Nat
      /\ \A m \in ids : m \in Nat /\ m <= Len(notice)
  BY DEF BellTyped
<1>2. D \subseteq Nat /\ D # {}
  BY <1>1
<1>3. PICK d \in D : \A e \in D : d <= e
  <2>. HIDE DEF D
  <2>. QED
    BY <1>2, LeastNat
<1>4. PICK m \in T : d = Len(notice) - m
  BY <1>3
<1>5. \A k \in T : k <= m
  <2>1. TAKE k \in T
  <2>2. Len(notice) - k \in D
    BY <2>1
  <2>3. Len(notice) - m <= Len(notice) - k
    BY <1>3, <1>4, <2>2
  <2>. QED
    BY <1>1, <1>4, <2>1, <2>3
<1>6. m \in collapse_for_push(ids)
  BY <1>1, <1>4, <1>5 DEF collapse_for_push
<1>. QED
  BY <1>4, <1>6

\* The last of a run of ids.
LEMMA LastOfRun ==
  ASSUME NEW p \in Nat, NEW q \in Nat, p < q
  PROVE  LastOf(p + 1 .. q) = q
<1>. DEFINE ids == p + 1 .. q
<1>1. /\ q \in ids
      /\ \A m \in ids : m <= q
      /\ \A n \in ids : (\A m \in ids : m <= n) => n = q
  OBVIOUS
<1>. HIDE DEF ids
<1>2. LastOf(ids) = q
  BY <1>1 DEF LastOf, MaxId
<1>. QED
  BY <1>2 DEF ids

\* Nothing is uncovered while nobody dies.
LEMMA StepCovers ==
  ASSUME NoticesInv, NoticesStep, ~ Dies, NEW n \in DOMAIN notice, Covered(n)
  PROVE  Covered(n)'
<1>0. BellTyped /\ BellGrows /\ buzzed \subseteq buzzed'
  BY StepGrows DEF NoticesInv
<1>1. CASE UNCHANGED sync
  BY <1>0, <1>1, GrowsCovered
<1>2. ASSUME NEW s \in Syncers, SyncStep(s)
      PROVE  Covered(n)'
  <2>1. \A x \in Syncers \ {s} : sync'[x] = sync[x]
    BY <1>0, <1>2 DEF SyncStep, Start, ReadRows, WriteSync, ReadUnpushed, MarkPushed,
       push_notifications, Step, BellTyped
  <2>2. CASE sync[s].at # "push"
    BY <1>0, <2>1, <2>2, GrowsCovered
  <2>3. CASE sync[s].at = "push"
    <3>1. /\ buzzed' = buzzed \union collapse_for_push(sync[s].ids)
          /\ UNCHANGED notice
      BY <1>2, <2>3 DEF SyncStep, Start, ReadRows, WriteSync, ReadUnpushed, MarkPushed,
         push_notifications, Step
    <3>2. sync[s].ids \subseteq DOMAIN notice
      BY <2>3 DEF NoticesInv, Pushing
    <3>3. n \in sync[s].ids => Covered(n)'
      <4>1. SUFFICES ASSUME n \in sync[s].ids, ~ notice[n].read
                     PROVE  Covered(n)'
        BY <3>1 DEF Covered
      <4>2. \E m \in collapse_for_push(sync[s].ids) :
               m >= n /\ notice[m].task = notice[n].task
        BY <1>0, <3>2, <4>1, CollapseCovers
      <4>. QED
        BY <3>1, <4>2 DEF Covered
    <3>. QED
      BY <1>0, <2>1, <3>3, GrowsCovered
  <2>. QED
    BY <2>2, <2>3
<1>. QED
  BY <1>1, <1>2 DEF NoticesStep, Tells, Records, Reminds, Reads, Syncs, MarkRead, noticeVars

\* What a syncer knows after its own step.
LEMMA OwnStep ==
  ASSUME NoticesInv, NEW s \in Syncers, Syncs(s)
  PROVE  /\ sync' \in [Syncers -> SyncRow]
         /\ \A x \in Syncers \ {s} : sync'[x] = sync[x]
         /\ mark' \in Nat /\ mark' <= Len(moves') /\ Passed(mark)'
         /\ pushMark' \in Nat /\ pushMark' <= Len(notice')
         /\ Heard(s)' /\ Pushing(s)'
         /\ crashes' = 0 => \A n \in 1 .. pushMark' : Covered(n)'
         /\ buzzed' \subseteq DOMAIN notice'
<1>0. /\ BellTyped /\ BellGrows /\ SyncStep(s) /\ Syncers # {} /\ crashes' = crashes
      /\ Passed(mark) /\ Heard(s) /\ Pushing(s)
      /\ crashes = 0 => \A n \in 1 .. pushMark : Covered(n)
  BY StepGrows DEF NoticesInv, Syncs, NoticesStep
<1>. DEFINE c == sync[s]
<1>00. /\ sync \in [Syncers -> SyncRow] /\ c \in SyncRow
       /\ mark \in Nat /\ mark <= Len(moves) /\ Len(moves) \in Nat
       /\ pushMark \in Nat /\ pushMark <= Len(notice) /\ Len(notice) \in Nat
       /\ Len(notice') \in Nat /\ Len(notice) <= Len(notice')
       /\ Len(moves') \in Nat /\ Len(moves) <= Len(moves')
       /\ buzzed \subseteq DOMAIN notice /\ DOMAIN notice = 1 .. Len(notice)
       /\ DOMAIN notice' = 1 .. Len(notice')
       /\ crashes \in Nat /\ DOMAIN moves \subseteq Nat
  BY <1>0 DEF BellTyped, BellGrows
<1>000. \A n \in 1 .. Len(notice) : Covered(n) => Covered(n)'
  <2>1. ~ Dies
    BY <1>0, <1>00 DEF Dies
  <2>. QED
    BY <1>0, <1>00, <2>1, StepCovers DEF NoticesStep, Syncs
<1>. DEFINE Moves(row) == row \in SyncRow /\ sync' = [sync EXCEPT ![s] = row]
<1>a. ASSUME NEW row, Moves(row)
      PROVE  /\ sync' \in [Syncers -> SyncRow] /\ sync'[s] = row
             /\ \A x \in Syncers \ {s} : sync'[x] = sync[x]
  BY <1>00, <1>a
<1>b. UNCHANGED mark => mark' <= Len(moves') /\ Passed(mark)'
  BY <1>0, <1>00, GrowsPassed DEF Passed
<1>c. UNCHANGED pushMark =>
        /\ pushMark' \in Nat /\ pushMark' <= Len(notice')
        /\ crashes' = 0 => \A n \in 1 .. pushMark' : Covered(n)'
  BY <1>0, <1>00, <1>000
<1>d. UNCHANGED buzzed => buzzed' \subseteq DOMAIN notice'
  BY <1>00
<1>1. CASE Start(s)
  <2>. DEFINE row == [Idle EXCEPT !.at = "rows", !.last = mark, !.top = Len(moves)]
  <2>1. /\ Moves(row) /\ UNCHANGED <<moves, notice, mark, pushMark, buzzed>>
        /\ row.at = "rows" /\ row.last = mark /\ row.top = Len(moves)
    BY <1>1, <1>00 DEF Start, Step, Idle, SyncRow
  <2>. HIDE DEF row
  <2>2. sync'[s] = row
    BY <1>a, <2>1
  <2>3. Heard(s)' /\ Pushing(s)'
    BY <1>0, <1>00, <2>1, <2>2, <1>b DEF Heard, Pushing, Passed, Concerns
  <2>. QED
    BY <1>00, <1>a, <1>b, <1>c, <1>d, <2>1, <2>3
<1>2. CASE ReadRows(s)
  <2>. DEFINE since == {i \in DOMAIN moves : i > c.last}
              row == [c EXCEPT !.at = "write", !.rows = since]
  <2>0. /\ row \in SyncRow
        /\ row.at = "write" /\ row.last = c.last /\ row.top = c.top /\ row.rows = since
    <3>1. since \subseteq Nat
      BY <1>00
    <3>. HIDE DEF since
    <3>. QED
      BY <1>00, <3>1 DEF SyncRow
  <2>1. /\ Moves(row) /\ UNCHANGED <<moves, notice, mark, pushMark, buzzed>>
        /\ row.at = "write" /\ row.last = c.last /\ row.top = c.top /\ c.at = "rows"
        /\ row.rows = {i \in DOMAIN moves : i > c.last}
    <3>1. sync' = [sync EXCEPT ![s] = row] /\ c.at = "rows"
      BY <1>2 DEF ReadRows, Step
    <3>2. UNCHANGED <<moves, notice, mark, pushMark, buzzed>>
      BY <1>2 DEF ReadRows
    <3>. HIDE DEF row
    <3>. QED
      BY <2>0, <3>1, <3>2
  <2>. HIDE DEF row, since
  <2>2. sync'[s] = row
    BY <1>a, <2>1
  <2>3. /\ c.last \in Nat /\ c.top \in Nat /\ c.last <= Len(moves) /\ c.top <= Len(moves)
        /\ Passed(c.last)
    BY <1>0, <1>00, <2>1 DEF Heard, SyncRow
  <2>4. \A i \in 1 .. c.last : Concerns(i)' => KeyOf(i) \in Keys(notice)'
    BY <2>1, <2>3 DEF Passed, Concerns
  <2>5. row.rows = c.last + 1 .. Len(moves)
    BY <1>0, <2>1, <2>3 DEF BellTyped
  <2>6. Heard(s)'
    <3>1. Passed(sync[s].last)'
      BY <2>1, <2>2, <2>4 DEF Passed, KeyOf
    <3>. QED
      BY <1>00, <2>1, <2>2, <2>3, <3>1, <2>5 DEF Heard
  <2>7. Pushing(s)'
    BY <2>1, <2>2 DEF Pushing
  <2>. QED
    BY <1>00, <1>a, <1>b, <1>c, <1>d, <2>1, <2>6, <2>7
<1>3. CASE WriteSync(s)
  <2>. DEFINE row == [Idle EXCEPT !.at = "unpushed"]
  <2>1. /\ mark' \in Nat /\ mark' <= Len(moves) /\ Passed(mark)'
        /\ UNCHANGED <<moves, pushMark, buzzed>>
        /\ sync' = [sync EXCEPT ![s] = row]
    BY <1>0, <1>3, SyncWrites
  <2>2. row \in SyncRow /\ row.at = "unpushed"
    BY DEF Idle, SyncRow
  <2>. HIDE DEF row
  <2>3. sync'[s] = row
    BY <1>a, <2>1, <2>2
  <2>4. Heard(s)' /\ Pushing(s)'
    BY <2>2, <2>3 DEF Heard, Pushing
  <2>. QED
    BY <1>00, <1>a, <1>c, <1>d, <2>1, <2>2, <2>4
<1>4. CASE ReadUnpushed(s)
  <2>. DEFINE new == {n \in DOMAIN notice : n > pushMark}
              row == IF \E n \in DOMAIN notice : n > pushMark
                     THEN [Idle EXCEPT !.at = "marks", !.ids = new] ELSE Idle
  <2>0. row \in SyncRow
    <3>1. new \subseteq Nat
      BY <1>00
    <3>. HIDE DEF new
    <3>. QED
      BY <3>1 DEF Idle, SyncRow
  <2>1. UNCHANGED <<moves, notice, mark, pushMark, buzzed>> /\ Moves(row)
    BY <1>4, <2>0 DEF ReadUnpushed, Step
  <2>2. /\ row.at \in {"marks", "idle"}
        /\ row.at = "marks" => row.ids = new /\ \E n \in DOMAIN notice : n > pushMark
    BY DEF Idle
  <2>3. new = pushMark + 1 .. Len(notice)
    BY <1>00
  <2>. HIDE DEF row, new
  <2>4. sync'[s] = row
    BY <1>a, <2>1
  <2>5. Heard(s)'
    BY <2>2, <2>4 DEF Heard
  <2>6. Pushing(s)'
    <3>1. SUFFICES ASSUME row.at = "marks"
                   PROVE  \E p, q \in Nat : /\ p < q /\ q <= Len(notice')
                                            /\ row.ids = p + 1 .. q
                                            /\ crashes' = 0 => \A n \in 1 .. p : Covered(n)'
      BY <2>2, <2>4 DEF Pushing
    <3>2. pushMark < Len(notice)
      BY <1>00, <2>2, <3>1
    <3>. QED
      BY <1>00, <1>c, <2>1, <2>2, <2>3, <3>1, <3>2
  <2>. QED
    BY <1>00, <1>a, <1>b, <1>c, <1>d, <2>1, <2>5, <2>6
<1>5. CASE MarkPushed(s)
  <2>. DEFINE row == [c EXCEPT !.at = "push"]
  <2>1. /\ UNCHANGED <<moves, notice, mark, buzzed>> /\ Moves(row)
        /\ row.at = "push" /\ row.ids = c.ids /\ c.at = "marks"
        /\ pushMark' = LastOf(c.ids)
    BY <1>5, <1>00 DEF MarkPushed, Step, SyncRow
  <2>. HIDE DEF row
  <2>2. sync'[s] = row
    BY <1>a, <2>1
  <2>3. PICK p \in Nat, q \in Nat :
          /\ p < q /\ q <= Len(notice) /\ c.ids = p + 1 .. q
          /\ crashes = 0 => \A n \in 1 .. p : Covered(n)
    BY <1>0, <2>1 DEF Pushing
  <2>4. pushMark' = q
    BY <2>1, <2>3, LastOfRun
  <2>5. crashes' = 0 => \A n \in 1 .. pushMark' : Covered(n)'
    <3>1. SUFFICES ASSUME crashes = 0, NEW n \in 1 .. q
                   PROVE  Covered(n)'
      BY <1>0, <2>4
    <3>2. CASE n <= p
      BY <1>00, <1>000, <2>3, <3>1, <3>2
    <3>3. CASE n > p
      BY <2>1, <2>2, <2>3, <3>1, <3>3 DEF Covered
    <3>. QED
      BY <3>1, <3>2, <3>3, <2>3
  <2>6. Heard(s)' /\ Pushing(s)'
    BY <1>00, <2>1, <2>2, <2>3 DEF Heard, Pushing
  <2>. QED
    BY <1>00, <1>a, <1>b, <1>d, <2>1, <2>3, <2>4, <2>5, <2>6
<1>6. CASE push_notifications(s)
  <2>1. /\ Moves(Idle) /\ UNCHANGED <<moves, notice, mark, pushMark>>
        /\ c.at = "push" /\ buzzed' = buzzed \union collapse_for_push(c.ids)
    BY <1>6, <1>00 DEF push_notifications, Step, SyncRow, Idle
  <2>2. sync'[s] = Idle /\ Idle.at = "idle"
    BY <1>a, <2>1 DEF Idle
  <2>3. Heard(s)' /\ Pushing(s)'
    BY <2>2 DEF Heard, Pushing
  <2>4. buzzed' \subseteq DOMAIN notice'
    <3>1. c.ids \subseteq DOMAIN notice
      BY <1>0, <2>1 DEF Pushing
    <3>. QED
      BY <1>00, <2>1, <3>1 DEF collapse_for_push
  <2>. QED
    BY <1>00, <1>a, <1>b, <1>c, <2>1, <2>3, <2>4
<1>. QED
  BY <1>0, <1>1, <1>2, <1>3, <1>4, <1>5, <1>6 DEF SyncStep


\* A syncer that holds still holds what it read: its batch runs on from rows
\* that stay covered.
LEMMA GrowsPushing ==
  ASSUME NoticesInv, NoticesStep, ~ Dies, crashes' = crashes,
         NEW x \in Syncers, sync'[x] = sync[x]
  PROVE  Pushing(x)'
<1>1. /\ BellTyped /\ BellGrows /\ Pushing(x)
  BY StepGrows DEF NoticesInv
<1>2. /\ Len(notice) \in Nat /\ Len(notice') \in Nat /\ Len(notice) <= Len(notice')
      /\ DOMAIN notice = 1 .. Len(notice) /\ DOMAIN notice' = 1 .. Len(notice')
  BY <1>1 DEF BellTyped, BellGrows
<1>3. \A n \in 1 .. Len(notice) : Covered(n) => Covered(n)'
  BY <1>2, StepCovers
<1>4. sync[x].at = "marks" =>
        \E p, q \in Nat : /\ p < q /\ q <= Len(notice')
                          /\ sync[x].ids = p + 1 .. q
                          /\ crashes' = 0 => \A n \in 1 .. p : Covered(n)'
  <2>1. SUFFICES ASSUME sync[x].at = "marks"
                 PROVE  \E p, q \in Nat :
                          /\ p < q /\ q <= Len(notice')
                          /\ sync[x].ids = p + 1 .. q
                          /\ crashes' = 0 => \A n \in 1 .. p : Covered(n)'
    OBVIOUS
  <2>2. PICK p \in Nat, q \in Nat :
          /\ p < q /\ q <= Len(notice) /\ sync[x].ids = p + 1 .. q
          /\ crashes = 0 => \A n \in 1 .. p : Covered(n)
    BY <1>1, <2>1 DEF Pushing
  <2>3. crashes' = 0 => \A n \in 1 .. p : Covered(n)'
    BY <1>2, <1>3, <2>2
  <2>4. q <= Len(notice')
    BY <1>2, <2>2
  <2>5. WITNESS p \in Nat, q \in Nat
  <2>. QED
    BY <2>2, <2>3, <2>4
<1>. QED
  BY <1>1, <1>2, <1>4 DEF Pushing

LEMMA NoticesInitial ==
  ASSUME NoticesInit, crashes = 0
  PROVE  NoticesInv
<1>1. BellTyped
  <2>1. Idle \in SyncRow
    BY DEF Idle, SyncRow
  <2>. QED
    BY <2>1 DEF NoticesInit, BellTyped
<1>. QED
  BY <1>1 DEF NoticesInit, NoticesInv, Passed, Heard, Pushing, Idle

LEMMA NoticesInductive ==
  ASSUME NoticesInv, NoticesStep
  PROVE  NoticesInv'
<1>0. /\ BellTyped /\ BellGrows /\ buzzed \subseteq buzzed'
      /\ \A n \in DOMAIN notice' : Kept(n)'
      /\ \A s \in Syncers : Heard(s)
      /\ Passed(mark)
      /\ crashes = 0 => \A n \in 1 .. pushMark : Covered(n)
  BY StepGrows DEF NoticesInv
<1>1. /\ moves' \in Seq(MoveRow) /\ notice' \in Seq(NoticeRow)
      /\ Len(moves) \in Nat /\ Len(moves') \in Nat /\ Len(moves) <= Len(moves')
      /\ Len(notice) \in Nat /\ Len(notice') \in Nat /\ Len(notice) <= Len(notice')
      /\ DOMAIN notice = 1 .. Len(notice) /\ DOMAIN notice' = 1 .. Len(notice')
      /\ mark \in Nat /\ mark <= Len(moves) /\ pushMark \in Nat /\ pushMark <= Len(notice)
      /\ sync \in [Syncers -> SyncRow] /\ crashes \in Nat /\ buzzed \subseteq DOMAIN notice
  BY <1>0 DEF BellTyped, BellGrows
<1>2. CASE UNCHANGED <<mark, pushMark, sync, buzzed, crashes>>
  <2>1. BellTyped'
    BY <1>1, <1>2 DEF BellTyped
  <2>2. Passed(mark)'
    <3>1. \A k \in Nat : k <= Len(moves) /\ Passed(k) => Passed(k)'
      BY <1>0, GrowsPassed
    <3>. QED
      BY <1>0, <1>1, <1>2, <3>1 DEF Passed
  <2>3. \A s \in Syncers : Heard(s)'
    BY <1>0, <1>2, GrowsHeard
  <2>4. ~ Dies
    BY <1>1, <1>2 DEF Dies
  <2>5. crashes' = 0 => \A n \in 1 .. pushMark' : Covered(n)'
    <3>1. \A n \in 1 .. pushMark : Covered(n) => Covered(n)'
      BY <1>1, <2>4, StepCovers
    <3>. QED
      BY <1>0, <1>2, <3>1
  <2>6. \A s \in Syncers : Pushing(s)'
    BY <1>2, <2>4, GrowsPushing
  <2>. QED
    BY <1>0, <2>1, <2>2, <2>3, <2>5, <2>6 DEF NoticesInv
<1>3. CASE Dies
  <2>1. /\ UNCHANGED <<moves, notice, mark, pushMark, buzzed>>
        /\ sync' = [s \in Syncers |-> Idle] /\ crashes' = crashes + 1
    BY <1>3 DEF Dies
  <2>2. Idle \in SyncRow /\ Idle.at = "idle"
    BY DEF Idle, SyncRow
  <2>3. BellTyped'
    BY <1>0, <1>1, <2>1, <2>2 DEF BellTyped
  <2>4. Passed(mark)'
    BY <1>0, <2>1 DEF Passed, Concerns
  <2>5. \A s \in Syncers : Heard(s)' /\ Pushing(s)'
    BY <2>1, <2>2 DEF Heard, Pushing
  <2>6. crashes' # 0
    BY <1>1, <2>1
  <2>. QED
    BY <1>0, <2>3, <2>4, <2>5, <2>6 DEF NoticesInv
<1>4. ASSUME NEW s \in Syncers, Syncs(s)
      PROVE  NoticesInv'
  <2>1. /\ sync' \in [Syncers -> SyncRow]
        /\ \A x \in Syncers \ {s} : sync'[x] = sync[x]
        /\ mark' \in Nat /\ mark' <= Len(moves') /\ Passed(mark)'
        /\ pushMark' \in Nat /\ pushMark' <= Len(notice')
        /\ Heard(s)' /\ Pushing(s)'
        /\ crashes' = 0 => \A n \in 1 .. pushMark' : Covered(n)'
        /\ buzzed' \subseteq DOMAIN notice'
    BY <1>4, OwnStep
  <2>2. crashes' = crashes /\ ~ Dies
    BY <1>1, <1>4 DEF Syncs, Dies
  <2>3. BellTyped'
    BY <1>1, <2>1, <2>2 DEF BellTyped
  <2>4. \A x \in Syncers \ {s} : Heard(x)'
    BY <1>0, <2>1, GrowsHeard
  <2>5. \A x \in Syncers \ {s} : Pushing(x)'
    BY <2>1, <2>2, GrowsPushing
  <2>. QED
    BY <1>0, <2>1, <2>3, <2>4, <2>5 DEF NoticesInv
<1>5. CASE Reads
  <2>1. MarkRead /\ crashes' = crashes
    BY <1>5 DEF Reads
  <2>2. UNCHANGED <<mark, pushMark, sync, buzzed>>
    BY <2>1 DEF MarkRead
  <2>. QED
    BY <1>2, <2>1, <2>2
<1>6. CASE Tells \/ Records \/ Reminds
  <2>1. UNCHANGED <<mark, pushMark, sync, buzzed, crashes>>
    BY <1>6, Zenon DEF Tells, Records, Reminds, noticeVars
  <2>. QED
    BY <1>2, <2>1
<1>. QED
  BY <1>3, <1>4, <1>5, <1>6 DEF NoticesStep

-----------------------------------------------------------------------------
(* The invariant of Schedules *)

SchedRow == [enabled : BOOLEAN, next : Nat \cup {None}, last : Nat]
DueRow == [name : Names, next : Nat, lastOpen : BOOLEAN, now : Nat]
TaskRow == [status : {"planned", "ready", "blocked", "done"}, from : Names \cup {None}]
HandRow == [at : {"idle", "create", "link", "ready", "remind", "advance"},
            row : DueRow \cup {None}, name : Names \cup {None},
            kind : {"none", "skipped", "late", "fired", "manual"}, task : Nat]

PlanTyped ==
  /\ clock \in Nat /\ ops \in Nat /\ crashes \in Nat /\ work \in BOOLEAN
  /\ sched \in [Names -> SchedRow \cup {None}]
  /\ task \in Seq(TaskRow)
  /\ due \subseteq DueRow /\ manual \subseteq Names
  /\ hand \in [Hands -> HandRow]

\* A firing in hand knows its schedule, the tick's its row too, the owner's is
\* known to be by hand; the task it has created is in the table.
Busy(h) ==
  /\ hand[h].at # "idle" => hand[h].name \in Names
  /\ hand[h].at # "idle" => IF h = "tick" THEN hand[h].row \in DueRow
                            ELSE hand[h].name \in manual
  /\ h = "owner" => hand[h].at \in {"idle", "create", "link", "ready"}

\* A hand that has created its task and not released it.
Holds(h) == hand[h].at \in {"link", "ready"}

\* It is the only one that has it, and nobody has moved it.
Held ==
  /\ \A h \in Hands : Holds(h) => /\ hand[h].task \in DOMAIN task
                                  /\ task[hand[h].task].status = "planned"
  /\ \A g, h \in Hands : Holds(g) /\ Holds(h) /\ hand[g].task = hand[h].task => g = h

\* A schedule that does not overlap and was never run by hand.
Single(s) == s \in Names /\ s \notin Overlapping /\ s \notin manual
OpenFrom(s, t) == task[t].from = s /\ task[t].status \in OPEN_TASK_STATUSES
NoneOpen(s) == \A t \in DOMAIN task : ~ OpenFrom(s, t)

\* Its open task is the one it remembers.
LastIsOpen ==
  \A s \in Names : Single(s) =>
    \A t \in DOMAIN task : OpenFrom(s, t) => Live(s) /\ sched[s].last = t

\* Its firing is decided on what still holds when the task is linked: no task
\* opens behind a row that was read, for there is one row per schedule and the
\* tick handles one at a time.
OneRow ==
  /\ \A r, q \in due : r.name = q.name => r = q
  /\ hand["tick"].at # "idle" => \A r \in due : r.name # hand["tick"].name
DecidedWell ==
  /\ \A r \in due : Single(r.name) /\ ~ r.lastOpen => NoneOpen(r.name)
  /\ hand["tick"].at \in {"create", "link"} /\ Single(hand["tick"].name) =>
       NoneOpen(hand["tick"].name)

PlanInv == /\ PlanTyped /\ (\A h \in Hands : Busy(h)) /\ Held
           /\ LastIsOpen /\ OneRow /\ DecidedWell

LEMMA NextFireNat ==
  ASSUME NEW a \in Nat
  PROVE  NextFire(a) \in Nat
<1>1. Period \in Nat /\ Period > 0
  BY SchedulesAssumption
<1>2. a \div Period \in Nat
  BY <1>1
<1>3. (a \div Period) + 1 \in Nat
  BY <1>2
<1>. HIDE DEF NextFire
<1>4. \A k \in Nat : Period * k \in Nat
  BY <1>1
<1>. QED
  BY <1>3, <1>4 DEF NextFire

LEMMA FreshRow ==
  ASSUME NEW e \in BOOLEAN, NEW now \in Nat
  PROVE  Fresh(e, now) \in SchedRow /\ Fresh(e, now) # None
<1>1. Fresh(e, now) \in SchedRow
  BY NextFireNat DEF Fresh, SchedRow
<1>. QED
  BY <1>1, SchedulesAssumption DEF SchedRow

\* The typed step, an action at a time.
LEMMA PlanInitial ==
  ASSUME Init
  PROVE  PlanInv
<1>1. PlanTyped
  <2>1. NoFiring \in HandRow
    BY DEF NoFiring, HandRow
  <2>2. sched \in [Names -> SchedRow \cup {None}]
    BY FreshRow DEF Init
  <2>3. <<>> \in Seq(TaskRow)
    OBVIOUS
  <2>4. hand \in [Hands -> HandRow]
    BY <2>1 DEF Init
  <2>5. task \in Seq(TaskRow) /\ due \subseteq DueRow /\ manual \subseteq Names
    BY <2>3, Zenon DEF Init
  <2>6. clock \in Nat /\ ops \in Nat /\ crashes \in Nat /\ work \in BOOLEAN
    BY DEF Init
  <2>. QED
    BY <2>2, <2>4, <2>5, <2>6, Zenon DEF PlanTyped
<1>2. \A h \in Hands : hand[h] = NoFiring /\ hand[h].at = "idle"
  BY DEF Init, NoFiring
<1>3. task = <<>> /\ due = {}
  BY DEF Init
<1>4. "tick" \in Hands
  BY DEF Hands
<1>. QED
  BY <1>1, <1>2, <1>3, <1>4 DEF PlanInv, Busy, Holds, Held, LastIsOpen, OneRow, DecidedWell

\* While no task opens for a schedule and its memory of its last task stands,
\* what was decided about it stands.
LEMMA Quiet ==
  ASSUME PlanInv, manual \subseteq manual',
         \A t \in DOMAIN task', s \in Names : OpenFrom(s, t)' => t \in DOMAIN task /\ OpenFrom(s, t),
         \A s \in Names : /\ Live(s) /\ (\E t \in DOMAIN task' : OpenFrom(s, t)')
                          => Live(s)' /\ sched'[s].last = sched[s].last
  PROVE  /\ LastIsOpen'
         /\ \A s \in Names : Single(s)' => Single(s)
         /\ \A s \in Names : NoneOpen(s) => NoneOpen(s)'
<1>1. \A s \in Names : Single(s)' => Single(s)
  BY DEF Single
<1>2. \A s \in Names : NoneOpen(s) => NoneOpen(s)'
  BY DEF NoneOpen
<1>3. LastIsOpen'
  BY <1>1 DEF PlanInv, LastIsOpen
<1>. QED
  BY <1>1, <1>2, <1>3

\* A step that edits rows of schedules and keeps what they remember.
RowEdit ==
  /\ UNCHANGED <<task, hand, due>> /\ crashes' \in Nat
  /\ clock' \in Nat /\ ops' \in Nat /\ work' \in BOOLEAN
  /\ manual \subseteq manual' /\ manual' \subseteq Names
  /\ sched' \in [Names -> SchedRow \cup {None}]
  /\ \A s \in Names : Live(s) => Live(s)' /\ sched'[s].last = sched[s].last

LEMMA RowEdited ==
  ASSUME PlanInv, RowEdit
  PROVE  PlanInv'
<1>1. /\ \A t \in DOMAIN task', s \in Names : OpenFrom(s, t)' => t \in DOMAIN task /\ OpenFrom(s, t)
      /\ manual \subseteq manual'
      /\ \A s \in Names : Live(s) => Live(s)' /\ sched'[s].last = sched[s].last
  BY DEF RowEdit, OpenFrom
<1>2. /\ LastIsOpen'
      /\ \A s \in Names : Single(s)' => Single(s)
      /\ \A s \in Names : NoneOpen(s) => NoneOpen(s)'
  BY <1>1, Quiet
<1>3. PlanTyped'
  BY DEF PlanInv, PlanTyped, RowEdit
<1>4. \A h \in Hands : Busy(h)'
  BY DEF PlanInv, Busy, RowEdit
<1>5. Held'
  BY DEF PlanInv, Held, Holds, RowEdit
<1>6. OneRow' /\ DecidedWell'
  <2>1. due' = due /\ hand' = hand /\ due \subseteq DueRow
    BY DEF PlanInv, PlanTyped, RowEdit
  <2>2. \A r \in due : Single(r.name)' /\ ~ r.lastOpen => NoneOpen(r.name)'
    BY <1>2, <2>1 DEF PlanInv, DecidedWell, Single
  <2>3. hand["tick"].at \in {"create", "link"} /\ Single(hand["tick"].name)' =>
          NoneOpen(hand["tick"].name)'
    BY <1>2, <2>1 DEF PlanInv, DecidedWell, Single
  <2>. QED
    BY <2>1, <2>2, <2>3 DEF PlanInv, OneRow, DecidedWell, Single, NoneOpen, OpenFrom
<1>. QED
  BY <1>2, <1>3, <1>4, <1>5, <1>6 DEF PlanInv

LEMMA EditStep ==
  ASSUME PlanInv,
         \/ TimePasses \/ Capture \/ OpensBell
         \/ \E s \in Names : CreateSchedule(s) \/ Pause(s) \/ Resume(s)
         \/ \E s \in Syncers : Telling(s)
         \/ UNCHANGED vars
  PROVE  RowEdit
<1>0. /\ PlanTyped /\ clock \in Nat /\ ops \in Nat /\ crashes \in Nat /\ work \in BOOLEAN
      /\ manual \subseteq Names /\ sched \in [Names -> SchedRow \cup {None}]
  BY DEF PlanInv, PlanTyped
<1>1. CASE TimePasses \/ OpensBell \/ (\E s \in Syncers : Telling(s)) \/ UNCHANGED vars
  <2>1. /\ UNCHANGED <<task, hand, due, crashes, work, manual, sched>>
        /\ clock' = clock \/ clock' = clock + 1
        /\ ops' = ops \/ ops' = ops + 1
    BY <1>1, Zenon DEF TimePasses, OpensBell, OwnerOp, Telling, scheduleVars, vars
  <2>. QED
    BY <1>0, <2>1 DEF RowEdit, Live
<1>2. ASSUME NEW s \in Names, CreateSchedule(s)
      PROVE  RowEdit
  <2>1. PICK e \in BOOLEAN : sched' = [sched EXCEPT ![s] = Fresh(e, clock)]
    BY <1>2 DEF CreateSchedule
  <2>2. Fresh(e, clock) \in SchedRow
    BY <1>0, FreshRow
  <2>. HIDE DEF Fresh
  <2>3. /\ sched' \in [Names -> SchedRow \cup {None}]
        /\ \A x \in Names : Live(x) => Live(x)' /\ sched'[x].last = sched[x].last
    BY <1>0, <1>2, <2>1, <2>2 DEF CreateSchedule, Live
  <2>. QED
    BY <1>0, <1>2, <2>3 DEF CreateSchedule, OwnerOp, RowEdit
<1>3. ASSUME NEW s \in Names, Pause(s) \/ Resume(s)
      PROVE  RowEdit
  <2>1. /\ Live(s) /\ sched[s] \in SchedRow
        /\ manual \subseteq manual' /\ manual' \subseteq Names
        /\ UNCHANGED <<task, hand, due, crashes, clock, work>> /\ ops' = ops + 1
    BY <1>0, <1>3 DEF Pause, Resume, OwnerOp, Live
  <2>2. \E row \in SchedRow : /\ sched' = [sched EXCEPT ![s] = row]
                              /\ row # None /\ row.last = sched[s].last
    <3>1. CASE Pause(s)
      <4>. DEFINE row == [sched[s] EXCEPT !.enabled = FALSE]
      <4>1. row \in SchedRow /\ row.last = sched[s].last
        BY <2>1 DEF SchedRow
      <4>2. row # None
        BY <4>1, SchedulesAssumption DEF SchedRow
      <4>3. sched' = [sched EXCEPT ![s] = row]
        BY <3>1 DEF Pause
      <4>. QED
        BY <4>1, <4>2, <4>3
    <3>2. CASE Resume(s)
      <4>. DEFINE next == NextFire(clock)
                  row == [sched[s] EXCEPT !.enabled = TRUE, !.next = next]
      <4>1. next \in Nat
        BY <1>0, NextFireNat
      <4>2. sched' = [sched EXCEPT ![s] = row]
        BY <3>2 DEF Resume
      <4>. HIDE DEF next
      <4>3. row \in SchedRow /\ row.last = sched[s].last
        BY <2>1, <4>1 DEF SchedRow
      <4>4. row # None
        BY <4>3, SchedulesAssumption DEF SchedRow
      <4>. QED
        BY <4>2, <4>3, <4>4
    <3>. QED
      BY <1>3, <3>1, <3>2
  <2>3. /\ sched' \in [Names -> SchedRow \cup {None}]
        /\ \A x \in Names : Live(x) => Live(x)' /\ sched'[x].last = sched[x].last
    BY <1>0, <2>2 DEF Live
  <2>. QED
    BY <1>0, <2>1, <2>3 DEF RowEdit
<1>4. CASE Capture
  <2>. DEFINE pulled == {s \in Names : /\ Live(s) /\ s \in Heartbeat /\ sched[s].enabled
                                       /\ sched[s].next # None /\ sched[s].next > clock + Nudge}
              row(s) == [sched[s] EXCEPT !.next = clock + Nudge]
  <2>1. sched' = [s \in Names |-> IF s \in pulled THEN row(s) ELSE sched[s]]
    BY <1>4 DEF Capture
  <2>2. \A s \in pulled : sched[s] \in SchedRow
    BY <1>0 DEF Live
  <2>3. clock + Nudge \in Nat
    BY <1>0, SchedulesAssumption
  <2>4. \A s \in pulled : row(s) \in SchedRow /\ row(s).last = sched[s].last
    BY <2>2, <2>3 DEF SchedRow
  <2>5. \A s \in pulled : row(s) # None
    BY <2>4, SchedulesAssumption DEF SchedRow
  <2>. HIDE DEF row, pulled
  <2>6. /\ sched' \in [Names -> SchedRow \cup {None}]
        /\ \A x \in Names : Live(x) => Live(x)' /\ sched'[x].last = sched[x].last
    BY <1>0, <2>1, <2>4, <2>5 DEF Live
  <2>. QED
    BY <1>0, <1>4, <2>6 DEF Capture, OwnerOp, RowEdit
<1>. QED
  BY <1>1, <1>2, <1>3, <1>4

\* The parts of the invariant, for use by name.
LEMMA PlanFacts ==
  ASSUME PlanInv
  PROVE  /\ PlanTyped /\ (\A h \in Hands : Busy(h)) /\ Held
         /\ LastIsOpen /\ OneRow /\ DecidedWell
         /\ clock \in Nat /\ ops \in Nat /\ crashes \in Nat /\ work \in BOOLEAN
         /\ sched \in [Names -> SchedRow \cup {None}]
         /\ task \in Seq(TaskRow) /\ due \subseteq DueRow /\ manual \subseteq Names
         /\ hand \in [Hands -> HandRow]
         /\ DOMAIN task = 1 .. Len(task) /\ Len(task) \in Nat
         /\ \A t \in DOMAIN task : task[t] \in TaskRow
         /\ "tick" \in Hands /\ "owner" \in Hands
BY DEF PlanInv, PlanTyped, Hands

\* What was decided still holds while no task opens behind it.
LEMMA StillDecided ==
  ASSUME PlanInv, due' \subseteq due,
         \A s \in Names : Single(s)' => Single(s),
         hand'["tick"].at \in {"create", "link"} =>
            hand["tick"].at \in {"create", "link"} /\ hand'["tick"].name = hand["tick"].name,
         \A s \in Names : Single(s) /\ NoneOpen(s) =>
            \/ NoneOpen(s)'
            \/ /\ hand'["tick"].at \notin {"create", "link"}
               /\ \A r \in due' : r.name # s
  PROVE  DecidedWell'
<1>1. DecidedWell
  BY DEF PlanInv
<1>2. \A s : Single(s)' => s \in Names
  BY DEF Single
<1>3. ASSUME NEW r \in due', Single(r.name)', ~ r.lastOpen
      PROVE  NoneOpen(r.name)'
  <2>1. PICK s \in Names : s = r.name
    BY <1>2, <1>3
  <2>2. Single(s) /\ NoneOpen(s)
    BY <1>1, <1>3, <2>1 DEF DecidedWell
  <2>. QED
    BY <1>3, <2>1, <2>2
<1>4. ASSUME NEW s, hand'["tick"].at \in {"create", "link"}, s = hand'["tick"].name, Single(s)'
      PROVE  NoneOpen(s)'
  BY <1>1, <1>2, <1>4 DEF DecidedWell
<1>5. hand'["tick"].at \in {"create", "link"} /\ Single(hand["tick"].name)' =>
        NoneOpen(hand["tick"].name)'
  BY <1>4 DEF Single, NoneOpen
<1>. QED
  BY <1>3, <1>5 DEF DecidedWell

\* The owner's firing never counts for a schedule the others must not double.
LEMMA HandStarts ==
  ASSUME PlanInv, NEW s \in Names, RunNow(s) \/ TriageNow(s)
  PROVE  PlanInv'
<1>0. /\ hand \in [Hands -> HandRow] /\ "owner" \in Hands /\ "tick" \in Hands
      /\ PlanTyped /\ (\A h \in Hands : Busy(h)) /\ Held /\ OneRow /\ DecidedWell
      /\ ops \in Nat /\ manual \subseteq Names
  BY PlanFacts
<1>. DEFINE f == [NoFiring EXCEPT !.at = "create", !.name = s, !.kind = "manual"]
<1>1. /\ hand' = [hand EXCEPT !["owner"] = f]
      /\ manual' = manual \union {s} /\ ops' = ops + 1
      /\ UNCHANGED <<clock, sched, task, work, due, crashes>>
  BY Zenon DEF RunNow, TriageNow, OwnerOp
<1>2. f \in HandRow /\ f.at = "create" /\ f.name = s
  BY DEF HandRow, NoFiring
<1>. HIDE DEF f
<1>3. /\ hand' \in [Hands -> HandRow] /\ hand'["owner"] = f /\ hand'["tick"] = hand["tick"]
      /\ \A h \in Hands : h # "owner" => hand'[h] = hand[h]
  BY <1>0, <1>1, <1>2
<1>4. PlanTyped'
  BY <1>0, <1>1, <1>3 DEF PlanTyped
<1>5. \A h \in Hands : Busy(h)'
  BY <1>0, <1>1, <1>2, <1>3 DEF Busy
<1>6. Held'
  BY <1>0, <1>1, <1>2, <1>3 DEF Held, Holds
<1>7. /\ LastIsOpen'
      /\ \A x \in Names : Single(x)' => Single(x)
      /\ \A x \in Names : NoneOpen(x) => NoneOpen(x)'
  BY <1>1, Quiet DEF OpenFrom, Live
<1>8. OneRow'
  BY <1>0, <1>1, <1>3 DEF OneRow
<1>9. DecidedWell'
  <2>1. \A x \in Names : Single(x)' => Single(x)
    BY <1>7
  <2>2. \A x : Single(x)' => x \in Names
    BY DEF Single
  <2>3. \A x : NoneOpen(x) => NoneOpen(x)'
    BY <1>1 DEF NoneOpen, OpenFrom
  <2>4. \A r \in due : Single(r.name)' /\ ~ r.lastOpen => NoneOpen(r.name)'
    BY <1>0, <2>1, <2>2, <2>3 DEF DecidedWell
  <2>. QED
    BY <1>0, <1>1, <1>3, <2>1, <2>2, <2>3, <2>4 DEF DecidedWell
<1>. QED
  BY <1>4, <1>5, <1>6, <1>7, <1>8, <1>9 DEF PlanInv

\* The due rows as fire_due reads them.
LEMMA PlanReadDue ==
  ASSUME PlanInv, ReadDue
  PROVE  PlanInv'
<1>0. /\ PlanTyped /\ (\A h \in Hands : Busy(h)) /\ Held /\ LastIsOpen
      /\ sched \in [Names -> SchedRow \cup {None}] /\ clock \in Nat
      /\ \A t \in DOMAIN task : t \in Nat \ {0}
  BY PlanFacts
<1>. DEFINE read(s) == [name |-> s, next |-> sched[s].next,
                        lastOpen |-> StatusOf(sched[s].last) \in OPEN_TASK_STATUSES,
                        now |-> clock]
<1>1. /\ due' = {read(s) : s \in {x \in Names : IsDue(x)}} /\ hand["tick"].at = "idle"
      /\ UNCHANGED <<clock, sched, task, work, hand, ops, crashes, manual>>
  BY DEF ReadDue
<1>2. \A s \in Names : IsDue(s) => Live(s) /\ sched[s].next \in Nat
  BY <1>0 DEF IsDue, Live, SchedRow
<1>3. \A s \in Names : IsDue(s) => read(s) \in DueRow
  BY <1>0, <1>2 DEF DueRow
<1>4. \A r \in due' : r.name \in Names /\ r = read(r.name) /\ r \in DueRow
  BY <1>1, <1>3
<1>5. due' \subseteq DueRow
  BY <1>4
<1>6. PlanTyped'
  BY <1>0, <1>1, <1>5 DEF PlanTyped
<1>7. (\A h \in Hands : Busy(h)') /\ Held'
  BY <1>0, <1>1 DEF Busy, Held, Holds
<1>8. LastIsOpen'
  BY <1>1, Quiet DEF OpenFrom, Live
<1>9. OneRow'
  <2>1. \A r, q \in due' : r.name = q.name => r = q
    <3>. HIDE DEF read
    <3>. QED
      BY <1>4
  <2>. QED
    BY <1>1, <2>1 DEF OneRow
<1>10. DecidedWell'
  <2>1. SUFFICES ASSUME NEW r \in due', Single(r.name), ~ r.lastOpen
                 PROVE  NoneOpen(r.name)
    BY <1>1 DEF DecidedWell, Single, NoneOpen, OpenFrom
  <2>2. StatusOf(sched[r.name].last) \notin OPEN_TASK_STATUSES
    <3>1. r = read(r.name)
      BY <1>4
    <3>2. read(r.name).lastOpen = (StatusOf(sched[r.name].last) \in OPEN_TASK_STATUSES)
      OBVIOUS
    <3>. HIDE DEF read
    <3>. QED
      BY <2>1, <3>1, <3>2
  <2>3. SUFFICES ASSUME NEW t \in DOMAIN task, OpenFrom(r.name, t)
                 PROVE  FALSE
    BY DEF NoneOpen
  <2>4. sched[r.name].last = t
    BY <1>0, <1>4, <2>1, <2>3 DEF LastIsOpen
  <2>5. StatusOf(t) = task[t].status
    BY <1>0, <2>3 DEF StatusOf
  <2>. QED
    BY <2>2, <2>3, <2>4, <2>5 DEF OpenFrom
<1>. QED
  BY <1>6, <1>7, <1>8, <1>9, <1>10 DEF PlanInv

\* The tick takes one of them in hand.
LEMMA PlanConsider ==
  ASSUME PlanInv, Consider
  PROVE  PlanInv'
<1>0. /\ hand \in [Hands -> HandRow] /\ "owner" \in Hands /\ "tick" \in Hands
      /\ PlanTyped /\ (\A h \in Hands : Busy(h)) /\ Held /\ OneRow /\ DecidedWell
      /\ due \subseteq DueRow
  BY PlanFacts
<1>1. PICK row \in due : /\ due' = due \ {row}
                         /\ hand' = [hand EXCEPT !["tick"] = Firing(row)]
  BY DEF Consider
<1>2. UNCHANGED <<clock, sched, task, work, ops, crashes, manual>> /\ hand["tick"].at = "idle"
  BY DEF Consider
<1>. DEFINE f == Firing(row)
<1>3. row \in DueRow /\ row.name \in Names
  BY <1>0, <1>1 DEF DueRow
<1>4. /\ f \in HandRow /\ f.at \in {"advance", "create"} /\ f.name = row.name
      /\ f.row \in DueRow /\ (f.at = "create" => ~ HeldBack(row)) /\ row.name \in Names
  <2>. DEFINE kind == Outcome(row)
              open == ~HasNoWork(row) /\ HeldBack(row)
              r == [row EXCEPT !.lastOpen = open]
  <2>1. kind \in {"skipped", "late", "fired"} /\ (kind # "skipped" => ~ HeldBack(row))
    BY DEF Outcome
  <2>2. r \in DueRow
    <3>1. open \in BOOLEAN
      OBVIOUS
    <3>. HIDE DEF open
    <3>. QED
      BY <1>3, <3>1 DEF DueRow
  <2>. DEFINE at == IF kind = "skipped" THEN "advance" ELSE "create"
  <2>3. f = [at |-> at, row |-> r, name |-> row.name, kind |-> kind, task |-> 0]
    BY DEF Firing
  <2>. HIDE DEF kind, r, f
  <2>. QED
    BY <1>3, <2>1, <2>2, <2>3 DEF HandRow
<1>5. hand' = [hand EXCEPT !["tick"] = f]
  BY <1>1
<1>. HIDE DEF f
<1>6. /\ hand' \in [Hands -> HandRow] /\ hand'["tick"] = f
      /\ \A h \in Hands : h # "tick" => hand'[h] = hand[h]
  BY <1>0, <1>4, <1>5
<1>7. PlanTyped'
  BY <1>0, <1>1, <1>2, <1>6 DEF PlanTyped
<1>8. \A h \in Hands : Busy(h)'
  BY <1>0, <1>2, <1>4, <1>6 DEF Busy
<1>9. Held'
  BY <1>0, <1>2, <1>4, <1>6 DEF Held, Holds
<1>10. LastIsOpen'
  BY <1>2, Quiet DEF OpenFrom, Live
<1>11. OneRow'
  BY <1>0, <1>1, <1>4, <1>6 DEF OneRow
<1>12. DecidedWell'
  <2>1. \A x : NoneOpen(x)' <=> NoneOpen(x)
    BY <1>2 DEF NoneOpen, OpenFrom
  <2>2. f.at = "create" /\ Single(f.name) => NoneOpen(f.name)
    BY <1>0, <1>1, <1>4 DEF DecidedWell, HeldBack, Single
  <2>3. \A x : Single(x)' <=> Single(x)
    BY <1>2 DEF Single
  <2>4. \A q \in due' : Single(q.name) /\ ~ q.lastOpen => NoneOpen(q.name)
    BY <1>0, <1>1 DEF DecidedWell
  <2>. QED
    BY <1>4, <1>6, <2>1, <2>2, <2>3, <2>4 DEF DecidedWell
<1>. QED
  BY <1>7, <1>8, <1>9, <1>10, <1>11, <1>12 DEF PlanInv

\* A hand creates its task: a new row, of no schedule yet.
LEMMA PlanCreate ==
  ASSUME PlanInv, NEW h \in Hands, Create(h)
  PROVE  PlanInv'
<1>0. /\ hand \in [Hands -> HandRow] /\ "tick" \in Hands
      /\ PlanTyped /\ (\A g \in Hands : Busy(g)) /\ Held /\ OneRow /\ DecidedWell
      /\ task \in Seq(TaskRow) /\ due \subseteq DueRow
      /\ DOMAIN task = 1 .. Len(task) /\ Len(task) \in Nat
  BY PlanFacts
<1>. DEFINE new == [status |-> "planned", from |-> None]
            f == [hand[h] EXCEPT !.at = "link", !.task = Len(task) + 1]
<1>1. /\ hand[h].at = "create" /\ task' = Append(task, new)
      /\ hand' = [hand EXCEPT ![h] = f]
      /\ UNCHANGED <<clock, sched, work, due, ops, crashes, manual>>
  <2>1. hand' = [hand EXCEPT ![h] = f]
    BY <1>0 DEF Create
  <2>. QED
    BY <2>1 DEF Create, At
<1>2. new \in TaskRow
  BY DEF TaskRow
<1>3. /\ f \in HandRow /\ f.at = "link" /\ f.task = Len(task) + 1
      /\ f.name = hand[h].name /\ f.row = hand[h].row
  <2>. DEFINE n == Len(task) + 1
  <2>1. n \in Nat
    BY <1>0
  <2>. HIDE DEF n
  <2>2. [[hand[h] EXCEPT !.at = "link"] EXCEPT !.task = n] \in HandRow
    BY <1>0, <2>1 DEF HandRow
  <2>. QED
    BY <1>0, <2>2 DEF HandRow, n
<1>. HIDE DEF f
<1>4. /\ hand' \in [Hands -> HandRow] /\ hand'[h] = f
      /\ \A g \in Hands : g # h => hand'[g] = hand[g]
  BY <1>0, <1>1, <1>3
<1>5. /\ task' \in Seq(TaskRow) /\ DOMAIN task' = 1 .. Len(task) + 1
      /\ \A t \in DOMAIN task : task'[t] = task[t] /\ t \in DOMAIN task'
      /\ task'[Len(task) + 1] = new
  BY <1>0, <1>1, <1>2
<1>6. PlanTyped'
  BY <1>0, <1>1, <1>4, <1>5 DEF PlanTyped
<1>7. \A g \in Hands : Busy(g)'
  BY <1>0, <1>1, <1>3, <1>4 DEF Busy
<1>8. Held'
  <2>1. \A g \in Hands : g # h /\ Holds(g)' => Holds(g) /\ hand'[g].task = hand[g].task
    BY <1>4 DEF Holds
  <2>2. \A g \in Hands : g # h /\ Holds(g)' =>
           /\ hand'[g].task \in DOMAIN task' /\ hand'[g].task # Len(task) + 1
           /\ task'[hand'[g].task].status = "planned"
    BY <1>0, <1>5, <2>1 DEF Held
  <2>3. /\ hand'[h].task = Len(task) + 1 /\ Len(task) + 1 \in DOMAIN task'
        /\ task'[Len(task) + 1].status = "planned"
    BY <1>0, <1>3, <1>4, <1>5
  <2>. QED
    BY <1>0, <2>1, <2>2, <2>3 DEF Held
<1>9. \A t \in DOMAIN task', s \in Names : OpenFrom(s, t)' => t \in DOMAIN task /\ OpenFrom(s, t)
  BY <1>0, <1>5, SchedulesAssumption DEF OpenFrom
<1>10. /\ LastIsOpen'
       /\ \A s \in Names : NoneOpen(s) => NoneOpen(s)'
  BY <1>1, <1>9, Quiet DEF Live
<1>11. OneRow'
  <2>1. hand'["tick"].at # "idle" => hand["tick"].at # "idle" /\ hand'["tick"].name = hand["tick"].name
    BY <1>0, <1>1, <1>3, <1>4
  <2>. QED
    BY <1>0, <1>1, <2>1 DEF OneRow
<1>12. DecidedWell'
  <2>1. \A s : Single(s)' <=> Single(s)
    BY <1>1 DEF Single
  <2>2. hand'["tick"].at \in {"create", "link"} =>
          hand["tick"].at \in {"create", "link"} /\ hand'["tick"].name = hand["tick"].name
    BY <1>0, <1>1, <1>3, <1>4
  <2>. QED
    BY <1>1, <1>10, <2>1, <2>2, StillDecided
<1>. QED
  BY <1>6, <1>7, <1>8, <1>10, <1>11, <1>12 DEF PlanInv

\* The link: what the schedule remembers becomes this task, and only the tick
\* links a schedule that was never run by hand.
LEMMA PlanLink ==
  ASSUME PlanInv, NEW h \in Hands, Link(h)
  PROVE  PlanInv'
<1>0. /\ hand \in [Hands -> HandRow] /\ "tick" \in Hands
      /\ PlanTyped /\ (\A g \in Hands : Busy(g)) /\ Held /\ OneRow /\ DecidedWell /\ LastIsOpen
      /\ task \in Seq(TaskRow) /\ due \subseteq DueRow
      /\ sched \in [Names -> SchedRow \cup {None}]
      /\ DOMAIN task = 1 .. Len(task) /\ Len(task) \in Nat
      /\ \A t \in DOMAIN task : task[t] \in TaskRow
  BY PlanFacts
<1>. DEFINE s == hand[h].name  n == hand[h].task
<1>1. /\ hand[h].at = "link" /\ s \in Names /\ n \in DOMAIN task /\ Holds(h)
      /\ task[n].status = "planned" /\ n \in Nat
      /\ UNCHANGED <<clock, work, ops, crashes, manual>>
  BY <1>0 DEF Link, At, Busy, Held, Holds, HandRow
<1>2. CASE ~ Live(s)
  <2>1. /\ hand' = [hand EXCEPT ![h] = NoFiring] /\ UNCHANGED <<task, sched>>
        /\ due' \subseteq due
    BY <1>2 DEF Link
  <2>2. /\ hand' \in [Hands -> HandRow] /\ hand'[h].at = "idle"
        /\ \A g \in Hands : g # h => hand'[g] = hand[g]
    <3>1. NoFiring \in HandRow /\ NoFiring.at = "idle"
      BY DEF NoFiring, HandRow
    <3>. QED
      BY <1>0, <2>1, <3>1
  <2>3. PlanTyped'
    BY <1>0, <1>1, <2>1, <2>2 DEF PlanTyped
  <2>4. \A g \in Hands : Busy(g)'
    BY <1>0, <1>1, <2>1, <2>2 DEF Busy
  <2>5. Held'
    BY <1>0, <1>1, <2>1, <2>2 DEF Held, Holds
  <2>6. LastIsOpen'
    BY <1>1, <2>1, Quiet DEF OpenFrom, Live
  <2>7. OneRow'
    BY <1>0, <2>1, <2>2 DEF OneRow
  <2>8. DecidedWell'
    <3>1. \A x : (NoneOpen(x)' <=> NoneOpen(x)) /\ (Single(x)' <=> Single(x))
      BY <1>1, <2>1 DEF NoneOpen, OpenFrom, Single
    <3>2. hand'["tick"].at \in {"create", "link"} => hand'["tick"] = hand["tick"]
      BY <1>0, <2>2
    <3>3. \A r \in due' : Single(r.name) /\ ~ r.lastOpen => NoneOpen(r.name)
      BY <1>0, <2>1 DEF DecidedWell
    <3>. QED
      BY <1>0, <3>1, <3>2, <3>3 DEF DecidedWell
  <2>. QED
    BY <2>3, <2>4, <2>5, <2>6, <2>7, <2>8 DEF PlanInv
<1>3. CASE Live(s)
  <2>. DEFINE f == [hand[h] EXCEPT !.at = "ready"]
              row == [sched[s] EXCEPT !.last = n]
              linked == [task[n] EXCEPT !.from = s]
  <2>1. /\ task' = [task EXCEPT ![n] = linked] /\ sched' = [sched EXCEPT ![s] = row]
        /\ hand' = [hand EXCEPT ![h] = f] /\ UNCHANGED due
    BY <1>0, <1>1, <1>3 DEF Link, Goes
  <2>2. f \in HandRow /\ f.at = "ready" /\ f.name = s /\ f.row = hand[h].row /\ f.task = n
    BY <1>0 DEF HandRow
  <2>3. /\ row \in SchedRow /\ row.last = n /\ row # None
    <3>1. row \in SchedRow /\ row.last = n
      BY <1>0, <1>1, <1>3 DEF SchedRow, Live
    <3>. QED
      BY <3>1, SchedulesAssumption DEF SchedRow
  <2>4. linked \in TaskRow /\ linked.from = s /\ linked.status = "planned"
    BY <1>0, <1>1 DEF TaskRow
  <2>. HIDE DEF f, row, linked
  <2>5. /\ hand' \in [Hands -> HandRow] /\ hand'[h] = f
        /\ \A g \in Hands : g # h => hand'[g] = hand[g]
    BY <1>0, <2>1, <2>2
  <2>6. /\ sched' \in [Names -> SchedRow \cup {None}] /\ sched'[s] = row
        /\ \A x \in Names : x # s => sched'[x] = sched[x]
    BY <1>0, <1>1, <2>1, <2>3
  <2>7. /\ task' \in Seq(TaskRow) /\ DOMAIN task' = DOMAIN task /\ task'[n] = linked
        /\ \A t \in DOMAIN task : t # n => task'[t] = task[t]
    BY <1>0, <1>1, <2>1, <2>4
  <2>8. PlanTyped'
    BY <1>0, <1>1, <2>1, <2>5, <2>6, <2>7 DEF PlanTyped
  <2>9. \A g \in Hands : Busy(g)'
    BY <1>0, <1>1, <2>1, <2>2, <2>5 DEF Busy
  <2>10. Held'
    <3>1. \A g \in Hands : Holds(g)' => Holds(g) /\ hand'[g].task = hand[g].task
      BY <1>1, <2>2, <2>5 DEF Holds
    <3>2. \A t \in DOMAIN task : task'[t].status = task[t].status
      BY <1>1, <2>4, <2>7
    <3>. QED
      BY <1>0, <2>7, <3>1, <3>2 DEF Held
  <2>11. Single(s) => h = "tick" /\ NoneOpen(s)
    BY <1>0, <1>1 DEF Busy, Single, DecidedWell, Hands
  <2>12. LastIsOpen'
    <3>1. SUFFICES ASSUME NEW x \in Names, Single(x), NEW t \in DOMAIN task, OpenFrom(x, t)'
                   PROVE  Live(x)' /\ sched'[x].last = t
      BY <1>1, <2>7 DEF LastIsOpen, Single
    <3>2. CASE t = n
      BY <2>3, <2>4, <2>6, <2>7, <3>1, <3>2 DEF OpenFrom, Live
    <3>3. CASE t # n
      <4>1. OpenFrom(x, t)
        BY <2>7, <3>1, <3>3 DEF OpenFrom
      <4>2. x # s
        BY <2>11, <3>1, <4>1 DEF NoneOpen
      <4>. QED
        BY <1>0, <2>6, <3>1, <4>1, <4>2 DEF LastIsOpen, Live
    <3>. QED
      BY <3>2, <3>3
  <2>13. OneRow'
    BY <1>0, <1>1, <2>1, <2>2, <2>5 DEF OneRow
  <2>14. DecidedWell'
    <3>1. \A x : Single(x)' <=> Single(x)
      BY <1>1 DEF Single
    <3>2. \A x : x # s /\ NoneOpen(x) => NoneOpen(x)'
      BY <2>4, <2>7 DEF NoneOpen, OpenFrom
    <3>3. Single(s) => /\ hand'["tick"].at \notin {"create", "link"}
                       /\ \A r \in due : r.name # s
      BY <1>0, <1>1, <2>2, <2>5, <2>11 DEF OneRow
    <3>4. hand'["tick"].at \in {"create", "link"} => hand'["tick"] = hand["tick"]
      BY <1>0, <2>2, <2>5
    <3>. QED
      BY <2>1, <3>1, <3>2, <3>3, <3>4, StillDecided
  <2>. QED
    BY <2>8, <2>9, <2>10, <2>12, <2>13, <2>14 DEF PlanInv
<1>. QED
  BY <1>2, <1>3

\* Only a task that was open can be open after the engine or a hand moved it.
LEMMA PlanRelease ==
  ASSUME PlanInv, NEW h \in Hands, Release(h)
  PROVE  PlanInv'
<1>0. /\ hand \in [Hands -> HandRow] /\ "tick" \in Hands
      /\ PlanTyped /\ (\A g \in Hands : Busy(g)) /\ Held /\ OneRow
      /\ task \in Seq(TaskRow)
      /\ \A t \in DOMAIN task : task[t] \in TaskRow
  BY PlanFacts
<1>. DEFINE n == hand[h].task
            moved == [task[n] EXCEPT !.status = "ready"]
            f == IF h = "tick" THEN [hand[h] EXCEPT !.at = "remind"] ELSE NoFiring
<1>1. /\ hand[h].at = "ready" /\ n \in DOMAIN task /\ Holds(h) /\ n \in Nat
      /\ task[n].status = "planned" /\ task' = [task EXCEPT ![n] = moved]
      /\ UNCHANGED <<clock, sched, work, due, ops, crashes, manual>>
  BY <1>0 DEF Release, At, Held, Holds, HandRow
<1>2. hand' = [hand EXCEPT ![h] = f]
  <2>1. CASE h = "tick"
    BY <1>0, <2>1 DEF Release, Goes
  <2>2. CASE h # "tick"
    BY <2>2 DEF Release
  <2>. QED
    BY <2>1, <2>2
<1>3. /\ f \in HandRow /\ f.at \in {"remind", "idle"} /\ (f.at = "remind" => h = "tick")
      /\ h = "tick" => f.row = hand[h].row /\ f.name = hand[h].name
  BY <1>0 DEF HandRow, NoFiring
<1>4. moved \in TaskRow /\ moved.from = task[n].from
  BY <1>0, <1>1 DEF TaskRow
<1>. HIDE DEF f, moved
<1>5. /\ hand' \in [Hands -> HandRow] /\ hand'[h] = f
      /\ \A g \in Hands : g # h => hand'[g] = hand[g]
  BY <1>0, <1>2, <1>3
<1>6. /\ task' \in Seq(TaskRow) /\ DOMAIN task' = DOMAIN task /\ task'[n] = moved
      /\ \A t \in DOMAIN task : t # n => task'[t] = task[t]
  BY <1>0, <1>1, <1>4
<1>7. PlanTyped'
  BY <1>0, <1>1, <1>5, <1>6 DEF PlanTyped
<1>8. \A g \in Hands : Busy(g)'
  BY <1>0, <1>1, <1>3, <1>5 DEF Busy
<1>9. Held'
  <2>1. \A g \in Hands : Holds(g)' => g # h /\ Holds(g) /\ hand'[g].task = hand[g].task
    BY <1>3, <1>5 DEF Holds
  <2>. QED
    BY <1>0, <1>1, <1>6, <2>1 DEF Held
<1>10. \A t \in DOMAIN task', s \in Names : OpenFrom(s, t)' => t \in DOMAIN task /\ OpenFrom(s, t)
  BY <1>1, <1>4, <1>6 DEF OpenFrom, OPEN_TASK_STATUSES
<1>11. /\ LastIsOpen'
       /\ \A s \in Names : NoneOpen(s) => NoneOpen(s)'
  BY <1>1, <1>10, Quiet DEF Live
<1>12. OneRow'
  BY <1>0, <1>1, <1>3, <1>5 DEF OneRow
<1>13. DecidedWell'
  <2>1. \A s : (Single(s)' <=> Single(s)) /\ (Single(s) => s \in Names)
    BY <1>1 DEF Single
  <2>2. hand'["tick"].at \in {"create", "link"} => hand'["tick"] = hand["tick"]
    BY <1>0, <1>3, <1>5
  <2>. QED
    BY <1>1, <1>11, <2>1, <2>2, StillDecided
<1>. QED
  BY <1>7, <1>8, <1>9, <1>11, <1>12, <1>13 DEF PlanInv

LEMMA PlanTaskMoves ==
  ASSUME PlanInv, NEW n \in DOMAIN task, NEW to \in {"ready", "blocked", "done"}, TaskMoves(n, to)
  PROVE  PlanInv'
<1>0. /\ PlanTyped /\ (\A g \in Hands : Busy(g)) /\ Held /\ OneRow
      /\ task \in Seq(TaskRow) /\ work \in BOOLEAN
      /\ \A t \in DOMAIN task : task[t] \in TaskRow
  BY PlanFacts
<1>. DEFINE moved == [task[n] EXCEPT !.status = to]
<1>1. /\ task' = [task EXCEPT ![n] = moved] /\ task[n].status \in {"ready", "blocked"}
      /\ UNCHANGED <<clock, sched, hand, due, ops, crashes, manual>> /\ work' \in BOOLEAN
  BY <1>0 DEF TaskMoves
<1>2. moved \in TaskRow /\ moved.from = task[n].from
  BY <1>0, <1>1 DEF TaskRow
<1>. HIDE DEF moved
<1>3. /\ task' \in Seq(TaskRow) /\ DOMAIN task' = DOMAIN task /\ task'[n] = moved
      /\ \A t \in DOMAIN task : t # n => task'[t] = task[t]
  BY <1>0, <1>1, <1>2
<1>4. PlanTyped'
  BY <1>0, <1>1, <1>3 DEF PlanTyped
<1>5. (\A g \in Hands : Busy(g)') /\ OneRow'
  BY <1>0, <1>1 DEF Busy, OneRow
<1>6. Held'
  BY <1>0, <1>1, <1>3 DEF Held, Holds
<1>7. \A t \in DOMAIN task', s \in Names : OpenFrom(s, t)' => t \in DOMAIN task /\ OpenFrom(s, t)
  BY <1>1, <1>2, <1>3 DEF OpenFrom, OPEN_TASK_STATUSES
<1>8. /\ LastIsOpen'
      /\ \A s \in Names : NoneOpen(s) => NoneOpen(s)'
  BY <1>1, <1>7, Quiet DEF Live
<1>9. DecidedWell'
  <2>1. \A s : (Single(s)' <=> Single(s)) /\ (Single(s) => s \in Names)
    BY <1>1 DEF Single
  <2>. QED
    BY <1>1, <1>8, <2>1, StillDecided
<1>. QED
  BY <1>4, <1>5, <1>6, <1>8, <1>9 DEF PlanInv

\* The tick's hand goes on: the reminder, then the move of next_fire_at.
LEMMA LaterNat ==
  ASSUME NEW f, f.row \in DueRow
  PROVE  Later(f) \in Nat
<1>1. f.row.now \in Nat
  BY DEF DueRow
<1>2. NextFire(f.row.now) \in Nat /\ f.row.now + Nudge \in Nat
  BY <1>1, NextFireNat, SchedulesAssumption
<1>. QED
  BY <1>2, Zenon DEF Later

LEMMA PlanTickGoesOn ==
  ASSUME PlanInv, Remind \/ Advance
  PROVE  PlanInv'
<1>0. /\ hand \in [Hands -> HandRow] /\ "tick" \in Hands
      /\ PlanTyped /\ (\A g \in Hands : Busy(g)) /\ Held /\ OneRow
      /\ sched \in [Names -> SchedRow \cup {None}]
  BY PlanFacts
<1>. DEFINE c == hand["tick"]
<1>1. /\ UNCHANGED <<clock, task, work, due, ops, crashes, manual>>
      /\ c.at \in {"remind", "advance"}
  BY DEF Remind, Advance, At
<1>2. c.name \in Names /\ c.row \in DueRow
  BY <1>0, <1>1 DEF Busy
<1>3. PICK f \in HandRow : /\ hand' = [hand EXCEPT !["tick"] = f]
                           /\ f.at \in {"idle", "advance"}
                           /\ f.at = "advance" => f.name = c.name /\ f.row = c.row
  <2>1. CASE Remind
    <3>. DEFINE g == [c EXCEPT !.at = "advance"]
    <3>1. hand' = [hand EXCEPT !["tick"] = g]
      BY <1>0, <2>1 DEF Remind, Goes
    <3>2. g \in HandRow /\ g.at = "advance" /\ g.name = c.name /\ g.row = c.row
      BY <1>0 DEF HandRow
    <3>. QED
      BY <3>1, <3>2
  <2>2. CASE Advance
    <3>1. NoFiring \in HandRow /\ NoFiring.at = "idle"
      BY DEF NoFiring, HandRow
    <3>. QED
      BY <2>2, <3>1 DEF Advance
  <2>. QED
    BY <2>1, <2>2
<1>4. /\ sched' \in [Names -> SchedRow \cup {None}]
      /\ \A s \in Names : Live(s) => Live(s)' /\ sched'[s].last = sched[s].last
  <2>1. CASE UNCHANGED sched
    BY <1>0, <2>1 DEF Live
  <2>2. ASSUME NEW row \in SchedRow, row.last = sched[c.name].last,
               sched' = [sched EXCEPT ![c.name] = row]
        PROVE  /\ sched' \in [Names -> SchedRow \cup {None}]
               /\ \A s \in Names : Live(s) => Live(s)' /\ sched'[s].last = sched[s].last
    <3>1. row # None
      BY SchedulesAssumption DEF SchedRow
    <3>. QED
      BY <1>0, <1>2, <2>2, <3>1 DEF Live
  <2>3. CASE Live(c.name) /\ Advance
    <3>1. sched[c.name] \in SchedRow /\ Later(c) \in Nat
      BY <1>0, <1>2, <2>3, LaterNat DEF Live
    <3>2. CASE Retires(c)
      <4>. DEFINE row == [sched[c.name] EXCEPT !.enabled = FALSE, !.next = None]
      <4>1. row \in SchedRow /\ row.last = sched[c.name].last
        BY <3>1 DEF SchedRow
      <4>2. sched' = [sched EXCEPT ![c.name] = row]
        BY <2>3, <3>2 DEF Advance
      <4>. QED
        BY <2>2, <4>1, <4>2
    <3>3. CASE ~ Retires(c)
      <4>. DEFINE row == [sched[c.name] EXCEPT !.next = Later(c)]
      <4>1. row \in SchedRow /\ row.last = sched[c.name].last
        BY <3>1 DEF SchedRow
      <4>2. sched' = [sched EXCEPT ![c.name] = row]
        BY <2>3, <3>3 DEF Advance
      <4>. QED
        BY <2>2, <4>1, <4>2
    <3>. QED
      BY <3>2, <3>3
  <2>. QED
    BY <2>1, <2>3 DEF Remind, Advance
<1>5. /\ hand' \in [Hands -> HandRow] /\ hand'["tick"] = f
      /\ \A g \in Hands : g # "tick" => hand'[g] = hand[g]
  BY <1>0, <1>3
<1>6. PlanTyped'
  BY <1>0, <1>1, <1>4, <1>5 DEF PlanTyped
<1>7. \A g \in Hands : Busy(g)'
  BY <1>0, <1>1, <1>2, <1>3, <1>5 DEF Busy
<1>8. Held'
  BY <1>0, <1>1, <1>3, <1>5 DEF Held, Holds
<1>9. /\ LastIsOpen'
      /\ \A s \in Names : NoneOpen(s) => NoneOpen(s)'
  BY <1>1, <1>4, Quiet DEF OpenFrom
<1>10. OneRow'
  BY <1>0, <1>1, <1>3, <1>5 DEF OneRow
<1>11. DecidedWell'
  <2>1. \A s : (Single(s)' <=> Single(s)) /\ (Single(s) => s \in Names)
    BY <1>1 DEF Single
  <2>2. hand'["tick"].at \notin {"create", "link"}
    BY <1>3, <1>5
  <2>. QED
    BY <1>1, <1>9, <2>1, <2>2, StillDecided
<1>. QED
  BY <1>6, <1>7, <1>8, <1>9, <1>10, <1>11 DEF PlanInv

\* A deleted schedule lets go of its tasks.
LEMMA PlanDelete ==
  ASSUME PlanInv, NEW d \in Names, Delete(d)
  PROVE  PlanInv'
<1>0. /\ PlanTyped /\ (\A g \in Hands : Busy(g)) /\ Held /\ OneRow
      /\ sched \in [Names -> SchedRow \cup {None}] /\ ops \in Nat
      /\ task \in Seq(TaskRow) /\ DOMAIN task = 1 .. Len(task) /\ Len(task) \in Nat
      /\ \A t \in DOMAIN task : task[t] \in TaskRow
  BY PlanFacts
<1>1. /\ sched' = [sched EXCEPT ![d] = None]
      /\ task' = [t \in DOMAIN task |-> IF task[t].from = d THEN [task[t] EXCEPT !.from = None]
                                        ELSE task[t]]
      /\ UNCHANGED <<clock, work, hand, due, crashes, manual>> /\ ops' = ops + 1
  BY DEF Delete, OwnerOp
<1>2. \A t \in DOMAIN task : /\ task'[t] \in TaskRow /\ task'[t].status = task[t].status
                             /\ task'[t].from = IF task[t].from = d THEN None ELSE task[t].from
  BY <1>0, <1>1 DEF TaskRow
<1>3. DOMAIN task' = DOMAIN task /\ task' \in Seq(TaskRow)
  <2>1. task' = [t \in 1 .. Len(task) |-> task'[t]] /\ \A t \in 1 .. Len(task) : task'[t] \in TaskRow
    BY <1>0, <1>1, <1>2
  <2>2. task' \in [1 .. Len(task) -> TaskRow]
    BY <2>1
  <2>. QED
    BY <1>0, <2>2
<1>4. PlanTyped'
  BY <1>0, <1>1, <1>3 DEF PlanTyped
<1>5. (\A g \in Hands : Busy(g)') /\ OneRow'
  BY <1>0, <1>1 DEF Busy, OneRow
<1>6. Held'
  BY <1>0, <1>1, <1>2, <1>3 DEF Held, Holds
<1>7. \A t \in DOMAIN task', s \in Names :
         OpenFrom(s, t)' => t \in DOMAIN task /\ OpenFrom(s, t) /\ s # d
  BY <1>2, <1>3, SchedulesAssumption DEF OpenFrom
<1>8. \A s \in Names : /\ Live(s) /\ (\E t \in DOMAIN task' : OpenFrom(s, t)')
                       => Live(s)' /\ sched'[s].last = sched[s].last
  BY <1>0, <1>1, <1>7 DEF Live
<1>9. /\ LastIsOpen'
      /\ \A s \in Names : NoneOpen(s) => NoneOpen(s)'
  BY <1>1, <1>7, <1>8, Quiet
<1>10. DecidedWell'
  <2>1. \A s : (Single(s)' <=> Single(s)) /\ (Single(s) => s \in Names)
    BY <1>1 DEF Single
  <2>. QED
    BY <1>1, <1>9, <2>1, StillDecided
<1>. QED
  BY <1>4, <1>5, <1>6, <1>9, <1>10 DEF PlanInv

LEMMA PlanCrash ==
  ASSUME PlanInv, Crash
  PROVE  PlanInv'
<1>0. PlanTyped /\ crashes \in Nat /\ "tick" \in Hands
  BY PlanFacts
<1>1. /\ UNCHANGED <<clock, sched, task, work, ops, manual>> /\ crashes' = crashes + 1
      /\ hand' = [h \in Hands |-> NoFiring] /\ due' = {}
  BY DEF Crash
<1>2. NoFiring \in HandRow /\ NoFiring.at = "idle"
  BY DEF NoFiring, HandRow
<1>3. PlanTyped'
  BY <1>0, <1>1, <1>2 DEF PlanTyped
<1>4. (\A h \in Hands : Busy(h)') /\ Held' /\ OneRow' /\ DecidedWell'
  BY <1>0, <1>1, <1>2 DEF Busy, Held, Holds, OneRow, DecidedWell
<1>5. LastIsOpen'
  BY <1>1, Quiet DEF OpenFrom, Live
<1>. QED
  BY <1>3, <1>4, <1>5 DEF PlanInv

LEMMA PlanStep ==
  ASSUME PlanInv, [Next]_vars
  PROVE  PlanInv'
<1>1. CASE RowEdit
  BY <1>1, RowEdited
<1>2. CASE Fire
  BY <1>2, PlanReadDue, PlanConsider, PlanTickGoesOn DEF Fire
<1>3. CASE Owner
  BY <1>1, <1>3, EditStep, HandStarts, PlanDelete DEF Owner
<1>4. ASSUME NEW h \in Hands, Spawn(h)
      PROVE  PlanInv'
  BY <1>4, PlanCreate, PlanLink, PlanRelease DEF Spawn
<1>5. CASE TimePasses \/ (\E s \in Syncers : Telling(s)) \/ UNCHANGED vars
  BY <1>1, <1>5, EditStep
<1>. QED
  BY <1>2, <1>3, <1>4, <1>5, PlanTaskMoves, PlanCrash DEF Next

\* What a step of the schedules is to the bell.
LEMMA BellStep ==
  ASSUME PlanInv, [Next]_vars
  PROVE  NoticesStep
<1>0. /\ hand \in [Hands -> HandRow] /\ (\A h \in Hands : Busy(h)) /\ "tick" \in Hands
      /\ DOMAIN task = 1 .. Len(task) /\ Len(task) \in Nat
  BY PlanFacts
<1>1. CASE Tells
  BY <1>1 DEF NoticesStep
<1>2. CASE Remind
  <2>1. /\ hand["tick"].task \in Nat /\ hand["tick"].name \in Names /\ hand["tick"].row.next \in Nat
    BY <1>0, <1>2 DEF Remind, At, Busy, HandRow, DueRow
  <2>2. UNCHANGED <<moves, mark, pushMark, sync, buzzed, crashes>>
    BY <1>2 DEF Remind
  <2>3. CASE hand["tick"].name \in ForOwner
    <3>1. add_notification("needs_you", hand["tick"].task,
             <<"reminder", hand["tick"].name, hand["tick"].row.next>>)
      BY <1>2, <2>3 DEF Remind
    <3>2. Reminds
      BY <2>1, <2>2, <3>1, Zenon DEF Reminds
    <3>. QED
      BY <3>2 DEF NoticesStep
  <2>4. CASE hand["tick"].name \notin ForOwner
    <3>1. UNCHANGED notice
      BY <1>2, <2>4 DEF Remind
    <3>. QED
      BY <2>2, <3>1, <1>1, Zenon DEF Tells, noticeVars
  <2>. QED
    BY <2>3, <2>4
<1>3. ASSUME NEW h \in Hands, Release(h)
      PROVE  NoticesStep
  <2>1. hand[h].task \in Nat
    BY <1>0 DEF HandRow
  <2>2. Moved(hand[h].task, "ready") /\ UNCHANGED <<notice, mark, pushMark, sync, buzzed, crashes>>
    BY <1>3, Zenon DEF Release, Unwatched
  <2>. QED
    BY <2>1, <2>2, Zenon DEF NoticesStep, Records
<1>4. ASSUME NEW t \in DOMAIN task, NEW to \in {"ready", "blocked", "done"}, TaskMoves(t, to)
      PROVE  NoticesStep
  <2>1. t \in Nat
    BY <1>0
  <2>2. Moved(t, to) /\ UNCHANGED <<notice, mark, pushMark, sync, buzzed, crashes>>
    BY <1>4, Zenon DEF TaskMoves, Unwatched
  <2>. QED
    BY <2>1, <2>2, Zenon DEF NoticesStep, Records
<1>5. CASE OpensBell
  BY <1>5, Zenon DEF OpensBell, NoticesStep, Reads
<1>6. CASE Crash
  BY <1>6, Zenon DEF Crash, NoticesStep, Dies
<1>7. ASSUME NEW s \in Syncers, Telling(s)
      PROVE  NoticesStep
  BY <1>7, Zenon DEF Telling, scheduleVars, NoticesStep, Syncs
<1>8. CASE TimePasses \/ ReadDue \/ Consider \/ Advance \/ UNCHANGED vars
  BY <1>1, <1>8, Zenon DEF TimePasses, ReadDue, Consider, Advance, vars, scheduleVars, Tells
<1>9. ASSUME NEW h \in Hands, Create(h) \/ Link(h)
      PROVE  NoticesStep
  BY <1>1, <1>9, Zenon DEF Create, Link, Tells
<1>10. ASSUME NEW s \in Names,
              \/ CreateSchedule(s) \/ Delete(s) \/ Pause(s) \/ Resume(s)
              \/ RunNow(s) \/ TriageNow(s)
       PROVE  NoticesStep
  BY <1>1, <1>10, Zenon DEF CreateSchedule, Delete, Pause, Resume, RunNow, TriageNow, Tells
<1>11. CASE Capture
  BY <1>1, <1>11, Zenon DEF Capture, Tells
<1>. QED
  BY <1>2, <1>3, <1>4, <1>5, <1>6, <1>7, <1>8, <1>9, <1>10, <1>11
     DEF Next, Fire, Owner, Spawn

-----------------------------------------------------------------------------
(* The theorems *)

AutomationInv == PlanInv /\ NoticesInv

\* The two invariants hold in every state (the schedules' transactions and the
\* syncs over the same database).
LEMMA AutomationInvariant == Spec => []AutomationInv
<1>1. Init => AutomationInv
  BY PlanInitial, NoticesInitial DEF Init, AutomationInv
<1>2. AutomationInv /\ [Next]_vars => AutomationInv'
  BY PlanStep, BellStep, NoticesInductive DEF AutomationInv
<1>. QED
  BY <1>1, <1>2, PTL DEF Spec

\* sync_notifications: every change the watermark has passed that concerns the
\* owner is in the bell, whatever syncs overlap and wherever one dies.
THEOREM BellMissesNothing == Spec => []BellComplete
<1>1. AutomationInv => BellComplete
  BY DEF AutomationInv, NoticesInv, Passed, Concerns, KeyOf, BellComplete
<1>. QED
  BY <1>1, AutomationInvariant, PTL

\* push_notifications: while no caller dies, every row the push watermark has
\* passed is read, buzzed by itself or by a later row of its task, or is about to.
THEOREM OwnerHears == Spec => []OwnerBuzzed
<1>1. AutomationInv => OwnerBuzzed
  BY DEF AutomationInv, NoticesInv, Covered, OwnerBuzzed, Buzzed
<1>. QED
  BY <1>1, AutomationInvariant, PTL

\* sync_notifications' clean-up: a reminder is read because the owner read it or
\* because its task moved on after it was written.
THEOREM NothingSwallowed == Spec => []NotSwallowed
<1>1. AutomationInv => NotSwallowed
  BY DEF AutomationInv, NoticesInv, Kept, NotSwallowed
<1>. QED
  BY <1>1, AutomationInvariant, PTL

\* _fire_schedule and _spawn_from_schedule: a schedule that does not overlap and
\* that nobody runs by hand never has two open tasks, crashes or not.
THEOREM NoOverlap == Spec => []OneAtATime
<1>1. AutomationInv => OneAtATime
  BY DEF AutomationInv, PlanInv, LastIsOpen, Single, OpenFrom, OneAtATime
<1>. QED
  BY <1>1, AutomationInvariant, PTL
=============================================================================
