--------------------------- MODULE LibraryProofs ---------------------------
(***************************************************************************)
(* Theorems about Library, for any notes, areas, tags, payloads, tabs and  *)
(* bounds: the search index is in step, the four read paths agree, the     *)
(* rules of filing hold while requests come one at a time, and an approval *)
(* buries no capture and says what happened.                               *)
(***************************************************************************)
EXTENDS Library, SequenceTheorems, FiniteSetTheorems, TLAPS

(***************************************************************************)
(* Types.  Fields are the field sets a call may carry, Calls the store     *)
(* calls a job is made of.                                                 *)
(***************************************************************************)

Values == UNION {NOTE_STATUSES, Areas \union {None}, BOOLEAN, SUBSET Tags, Texts}
Fields == {f \in UNION {[D -> Values] : D \in SUBSET Editable} : Over(f, BlankRow) \in Row}
Entries == [from : Nat, text : Texts]

Calls ==
  [call : {"update"}, note : Nat, fields : Fields]
  \union [call : {"create"}, fields : Fields, part : Nat]
  \union [call : {"entry"}, note : Nat, entry : Entries]
  \union [call : {"link"}, note : Nat, kind : {"note", "task", "schedule"}, id : Nat]
  \union [call : {"addtags"}, note : Nat, tags : SUBSET Tags]
  \union [call : {"retag"}, old : Tags, new : SUBSET Tags]
  \union [call : {"area"}, name : Areas, parent : Areas \union {None}]
  \union [call : {"nest"}, name : Areas, parent : Areas \union {None}]
  \union [call : {"retire"}, name : Areas, off : BOOLEAN]
  \union [call : {"mint"}]
  \union [call : {"check"}, payload : Payloads, pid : Nat, edited : BOOLEAN]
  \union [call : {"decide"}, payload : Payloads, pid : Nat]
  \union [call : {"open", "reject"}, pid : Nat]

LEMMA FieldsAre ==
  ASSUME NEW f, FieldsOK(f)
  PROVE  f \in Fields
<1>. DEFINE D == DOMAIN f
<1>1. ASSUME NEW k \in D PROVE f[k] \in Values
  <2>1. k \in DOMAIN BlankRow /\ Over(f, BlankRow)[k] = f[k]
    BY DEF FieldsOK, Editable, Over, BlankRow
  <2>2. Over(f, BlankRow) \in Row
    BY DEF FieldsOK
  <2>. HIDE DEF Row
  <2>3. k \in Editable
    BY DEF FieldsOK
  <2>4. \A r \in Row : r[k] \in Values
    <3>1. ASSUME NEW r \in Row
          PROVE  /\ r.status \in Values /\ r.area \in Values /\ r.project \in Values
                 /\ r.tags \in Values /\ r.text \in Values /\ r.disputed \in Values
      <4>1. /\ r.status \in NOTE_STATUSES /\ r.area \in Areas \union {None}
            /\ r.project \in BOOLEAN /\ r.tags \in SUBSET Tags
            /\ r.text \in Texts /\ r.disputed \in BOOLEAN
        BY DEF Row
      <4>. HIDE DEF Row
      <4>2. \A S \in {NOTE_STATUSES, Areas \union {None}, BOOLEAN, SUBSET Tags, Texts} :
              S \subseteq Values
        BY Zenon DEF Values
      <4>. QED
        BY <4>1, <4>2
    <3>. QED
      BY <2>3, <3>1 DEF Editable
  <2>. QED
    BY <2>1, <2>2, <2>4
<1>2. f \in [D -> Values]
  BY <1>1 DEF FieldsOK
<1>3. D \in SUBSET Editable /\ Over(f, BlankRow) \in Row
  BY DEF FieldsOK
<1>. QED
  BY <1>2, <1>3 DEF Fields

FieldTyped(f) ==
  /\ DOMAIN f \subseteq Editable
  /\ "status" \in DOMAIN f => f.status \in NOTE_STATUSES
  /\ "area" \in DOMAIN f => f.area \in Areas \union {None}
  /\ "project" \in DOMAIN f => f.project \in BOOLEAN
  /\ "tags" \in DOMAIN f => f.tags \in SUBSET Tags
  /\ "text" \in DOMAIN f => f.text \in Texts
  /\ "disputed" \in DOMAIN f => f.disputed \in BOOLEAN

LEMMA FieldTypes ==
  ASSUME NEW f \in Fields
  PROVE  FieldTyped(f)
<1>1. DOMAIN f \subseteq Editable /\ Over(f, BlankRow) \in Row
  BY DEF Fields
<1>2. \A k \in DOMAIN f : Over(f, BlankRow)[k] = f[k]
  BY <1>1 DEF Editable, Over, BlankRow
<1>. QED
  BY <1>1, <1>2 DEF Row, FieldTyped

LEMMA BlankType == BlankRow \in Row
<1>1. (CHOOSE x \in Texts : TRUE) \in Texts
  BY LibraryAssumption
<1>. QED
  BY <1>1 DEF BlankRow, Row, NOTE_STATUSES

\* An edit leaves Thoughts, links and the origin of a note alone.
LEMMA OverRow ==
  ASSUME NEW f, FieldTyped(f), NEW r \in Row
  PROVE  /\ Over(f, r) \in Row
         /\ Over(f, r).entries = r.entries
         /\ Over(f, r).links = r.links
         /\ Over(f, r).part = r.part
         /\ Over(f, r).tags = Named(f, "tags", r.tags)
         /\ Over(f, r).area = Named(f, "area", r.area)
         /\ Over(f, r).status = Named(f, "status", r.status)
         /\ Over(f, r).project = Named(f, "project", r.project)
<1>1. DOMAIN r = {"status", "area", "project", "tags", "text", "disputed",
                  "entries", "links", "part"}
  BY DEF Row
<1>. DEFINE o == Over(f, r)
<1>2. /\ o.status = IF "status" \in DOMAIN f THEN f.status ELSE r.status
      /\ o.area = IF "area" \in DOMAIN f THEN f.area ELSE r.area
      /\ o.project = IF "project" \in DOMAIN f THEN f.project ELSE r.project
      /\ o.tags = IF "tags" \in DOMAIN f THEN f.tags ELSE r.tags
      /\ o.text = IF "text" \in DOMAIN f THEN f.text ELSE r.text
      /\ o.disputed = IF "disputed" \in DOMAIN f THEN f.disputed ELSE r.disputed
      /\ o.entries = r.entries /\ o.links = r.links /\ o.part = r.part
  BY <1>1 DEF Over, Editable, FieldTyped
<1>3. o = [k \in {"status", "area", "project", "tags", "text", "disputed",
                  "entries", "links", "part"} |-> o[k]]
  BY <1>1 DEF Over
<1>. HIDE DEF o
<1>4. o \in Row
  BY <1>2, <1>3 DEF Row, FieldTyped
<1>. QED
  BY <1>2, <1>4 DEF o, Named

\* Field sets are made by naming fields.
LEMMA FieldsFrom ==
  ASSUME NEW f, FieldTyped(f), f = [k \in DOMAIN f |-> f[k]]
  PROVE  f \in Fields
<1>1. FieldsOK(f)
  BY OverRow, BlankType DEF FieldsOK, FieldTyped
<1>. QED
  BY <1>1, FieldsAre

LEMMA WithField ==
  ASSUME NEW f \in Fields, NEW x, NEW v,
         \/ x = "area" /\ v \in Areas \union {None}
         \/ x = "status" /\ v \in NOTE_STATUSES
  PROVE  [k \in DOMAIN f \union {x} |-> IF k = x THEN v ELSE f[k]] \in Fields
<1>. DEFINE g == [k \in DOMAIN f \union {x} |-> IF k = x THEN v ELSE f[k]]
<1>1. FieldTyped(f)
  BY FieldTypes
<1>2. FieldTyped(g)
  BY <1>1 DEF FieldTyped, Editable
<1>3. g = [k \in DOMAIN g |-> g[k]]
  OBVIOUS
<1>. HIDE DEF g
<1>4. g \in Fields
  BY <1>2, <1>3, FieldsFrom
<1>. QED
  BY <1>4 DEF g

LEMMA OneField ==
  /\ [status |-> "archived"] \in Fields
  /\ [disputed |-> TRUE] \in Fields
<1>1. FieldTyped([status |-> "archived"]) /\ FieldTyped([disputed |-> TRUE])
  BY DEF FieldTyped, Editable, NOTE_STATUSES
<1>2. /\ [status |-> "archived"] =
           [k \in DOMAIN [status |-> "archived"] |-> [status |-> "archived"][k]]
      /\ [disputed |-> TRUE] =
           [k \in DOMAIN [disputed |-> TRUE] |-> [disputed |-> TRUE][k]]
  OBVIOUS
<1>. QED
  BY <1>1, <1>2, FieldsFrom

-----------------------------------------------------------------------------
(* What every state keeps *)

ProposalRow == [note : Nat, payload : Payloads, class : {"routine", "needs_attention"},
                status : PROPOSAL_STATUSES]

RowsOK ==
  /\ note \in Seq(Row) /\ taxonomy \subseteq Tags
  /\ area \in [Areas -> AreaRow \union {None}]
  /\ \A n \in Ids : note[n].area # None => Born(note[n].area)
  /\ proposal \in Seq(ProposalRow) /\ \A i \in DOMAIN proposal : proposal[i].note \in Ids
  /\ tasks \in Nat /\ raced \in BOOLEAN
  /\ draft # None => /\ draft.note \in Ids /\ draft.payload \in Payloads
                     /\ draft.class \in {"routine", "needs_attention"}

\* The search index is the image of the notes.
InStep == index = [n \in Ids |-> Indexed(note[n])]

-----------------------------------------------------------------------------
(* What a job may still do *)

NoteCalls == {"update", "entry", "link", "addtags"}
PidCalls  == {"check", "decide", "open", "reject"}

\* The other note a payload speaks of: an approval learns with its check
\* that it exists.
Guests(p) == CASE p.kind = "append_entry"  -> {p.target}
               [] p.kind = "contradiction" -> {p.other}
               [] OTHER -> {}

Checking(cs) == cs[1].call = "check"

Sound(cs) ==
  /\ cs \in Seq(Calls) /\ cs # <<>>
  /\ \A i \in DOMAIN cs :
       /\ i # 1 => cs[i].call \notin {"check", "open"}
       /\ cs[i].call = "decide" => i = Len(cs)
       /\ cs[i].call \in NoteCalls =>
            cs[i].note \in Ids \/ (Checking(cs) /\ cs[i].note \in Guests(cs[1].payload))
       /\ cs[i].call \in PidCalls => cs[i].pid \in DOMAIN proposal

\* What was taken from note n has joined its target, or does before the i-th
\* of the calls b.
Entered(b, i, p, n) ==
  \/ /\ p.target \in Ids
     /\ \E e \in note[p.target].entries : e.from = n
  \/ \E k \in 1 .. i - 1 :
       b[k].call = "entry" /\ b[k].note = p.target /\ b[k].entry.from = n

PartsOf(pid) == {x \in Ids : note[x].part = pid}

\* The parts there are, with those the first calls still create, are all of
\* them.
Parted(b, i, p, pid) ==
  \E m \in 0 .. i - 1 :
    /\ \A k \in 1 .. m : b[k].call = "create" /\ b[k].part = pid
    /\ Cardinality(PartsOf(pid)) + m >= Len(p.parts)

Safe(b, i, p, pid, n) ==
  /\ p.kind = "append_entry" => Entered(b, i, p, n)
  /\ p.kind = "split" => Parted(b, i, p, pid)

\* Note x is linked to y, or will be before the i-th call.
Tied(b, i, x, y) ==
  \/ /\ x \in Ids
     /\ [kind |-> "note", id |-> y] \in note[x].links
  \/ \E k \in 1 .. i - 1 :
       b[k].call = "link" /\ b[k].note = x /\ b[k].kind = "note" /\ b[k].id = y

Minted(b, i, n) ==
  \/ \E l \in note[n].links : l.kind = "task"
  \/ \E k \in 1 .. i - 1 : b[k].call = "link" /\ b[k].note = n /\ b[k].kind = "task"

Founded(b, i, a) ==
  \/ Born(a)
  \/ \E k \in 1 .. i - 1 : b[k].call = "area" /\ b[k].name = a

\* An approval of payload p whose decision is the i-th of the calls b.
Owes(b, i, p, pid, n) ==
  /\ Safe(b, i, p, pid, n)
  /\ p.kind \in {"append_entry", "split"} =>
       \A k \in 1 .. i - 1 :
         b[k].call = "update" => b[k].note = n /\ Safe(b, k, p, pid, n)
  /\ p.kind = "contradiction" => Tied(b, i, n, p.other) /\ Tied(b, i, p.other, n)
  /\ p.kind = "new_task" => Minted(b, i, n)
  /\ p.kind = "file" /\ p.new_area # None => Founded(b, i, p.new_area.name)

Body(cs) == IF Checking(cs) THEN Tail(cs) ELSE cs

Owing(cs) ==
  \A i \in DOMAIN Body(cs) : Body(cs)[i].call = "decide" =>
    LET d == Body(cs)[i] IN
    /\ Guests(d.payload) \subseteq Ids \/ (Checking(cs) /\ cs[1].payload = d.payload)
    /\ \E n \in Ids : n = proposal[d.pid].note /\ Owes(Body(cs), i, d.payload, d.pid, n)

SeenOK(c, seen) ==
  seen # None =>
    /\ c.call \in Gapped
    /\ c.call \in {"update", "addtags"} => seen \in Row
    /\ c.call = "retag" => seen \in Seq(SUBSET Tags)
    /\ c.call \in {"retire", "nest"} => Born(c.name)

JobOK(j) ==
  /\ j = [calls |-> j.calls, seen |-> j.seen, made |-> j.made, bulk |-> j.bulk]
  /\ Sound(j.calls) /\ Owing(j.calls) /\ SeenOK(j.calls[1], j.seen)
  /\ j.made \in Nat
  /\ j.bulk \in Seq(Nat) /\ \A i \in DOMAIN j.bulk : j.bulk[i] \in DOMAIN proposal

JobsOK == /\ job = [t \in Tabs |-> job[t]]
          /\ \A t \in Tabs : \A j \in {job[t]} : j # None => JobOK(j)

\* A row that says approved.
Kept(p, pid, n) ==
  /\ Guests(p) \subseteq Ids
  /\ Rescued(p, pid, n)
  /\ p.kind = "contradiction" =>
        /\ [kind |-> "note", id |-> p.other] \in note[n].links
        /\ [kind |-> "note", id |-> n] \in note[p.other].links
  /\ p.kind = "new_task" => \E l \in note[n].links : l.kind = "task"
  /\ p.kind = "file" /\ p.new_area # None => Born(p.new_area.name)

Told == \A i \in DOMAIN proposal :
          \A p \in {proposal[i].payload} : \A n \in {proposal[i].note} :
            proposal[i].status = "approved" => Kept(p, i, n)

\* While requests come one at a time, what a call has seen is what there is.
Rooted == \A a \in Areas : Born(a) /\ area[a].parent # None => Born(area[a].parent)
Tidy == ActiveHomed /\ TagsKnown /\ TwoLevels /\ Rooted

Fresh == \A t \in Tabs : \A c \in {Call(t)} :
           /\ Busy(t) /\ job[t].seen # None
           /\ c.call \in {"update", "addtags", "retag", "area", "nest"}
           => job[t].seen = Found(c)

Alone == ~raced => /\ Tidy
                   /\ \A t, u \in Tabs : Busy(t) /\ Busy(u) => t = u
                   /\ Fresh

LibInv == RowsOK /\ InStep /\ JobsOK /\ Told /\ Alone

LEMMA CallTypes ==
  ASSUME NEW c \in Calls
  PROVE  /\ c.call \in {"update", "create", "entry", "link", "addtags", "retag", "area",
                        "nest", "retire", "mint", "check", "decide", "open", "reject"}
         /\ c.call = "update" => c.note \in Nat /\ c.fields \in Fields
         /\ c.call = "create" => c.fields \in Fields /\ c.part \in Nat
         /\ c.call = "entry" => c.note \in Nat /\ c.entry \in Entries
         /\ c.call = "link" => /\ c.note \in Nat /\ c.id \in Nat
                               /\ c.kind \in {"note", "task", "schedule"}
         /\ c.call = "addtags" => c.note \in Nat /\ c.tags \in SUBSET Tags
         /\ c.call = "retag" => c.old \in Tags /\ c.new \in SUBSET Tags
         /\ c.call \in {"area", "nest"} => c.name \in Areas /\ c.parent \in Areas \union {None}
         /\ c.call = "retire" => c.name \in Areas /\ c.off \in BOOLEAN
         /\ c.call \in {"check", "decide"} => c.payload \in Payloads
         /\ c.call \in PidCalls => c.pid \in Nat
  BY DEF Calls, PidCalls

\* A request of a single call.
LEMMA Single ==
  ASSUME NEW c \in Calls, c.call \notin {"check", "decide"},
         c.call \in NoteCalls => c.note \in Ids,
         c.call \in PidCalls => c.pid \in DOMAIN proposal
  PROVE  Sound(<<c>>) /\ Owing(<<c>>)
<1>1. /\ <<c>> \in Seq(Calls) /\ <<c>> # <<>> /\ DOMAIN <<c>> = {1}
      /\ Len(<<c>>) = 1 /\ <<c>>[1] = c
  OBVIOUS
<1>2. Sound(<<c>>)
  BY <1>1 DEF Sound
<1>3. Body(<<c>>) = <<c>>
  BY <1>1 DEF Body, Checking
<1>. QED
  BY <1>1, <1>2, <1>3 DEF Owing

-----------------------------------------------------------------------------
(* Plans of approvals *)

\* What is owed depends on the calls before the decision only.
LEMMA SameCalls ==
  ASSUME NEW b, NEW c, NEW i \in Nat, \A k \in 1 .. i - 1 : b[k] = c[k],
         NEW p, NEW pid, NEW n, Owes(b, i, p, pid, n)
  PROVE  Owes(c, i, p, pid, n)
<1>1. ASSUME NEW j \in 1 .. i, Safe(b, j, p, pid, n)
      PROVE  Safe(c, j, p, pid, n)
  <2>1. \A k \in 1 .. j - 1 : b[k] = c[k]
    OBVIOUS
  <2>2. Entered(b, j, p, n) => Entered(c, j, p, n)
    BY <2>1 DEF Entered
  <2>3. Parted(b, j, p, pid) => Parted(c, j, p, pid)
    <3>1. ASSUME NEW m \in 0 .. j - 1 PROVE \A k \in 1 .. m : b[k] = c[k]
      BY <2>1
    <3>. QED
      BY <3>1 DEF Parted
  <2>. QED
    BY <1>1, <2>2, <2>3 DEF Safe
<1>2. \A x, y : Tied(b, i, x, y) => Tied(c, i, x, y)
  BY DEF Tied
<1>3. Minted(b, i, n) => Minted(c, i, n)
  BY DEF Minted
<1>4. \A a : Founded(b, i, a) => Founded(c, i, a)
  BY DEF Founded
<1>5. Safe(b, i, p, pid, n) => Safe(c, i, p, pid, n)
  <2>. CASE i = 0
    BY DEF Safe, Entered, Parted
  <2>. CASE i # 0
    BY <1>1
  <2>. QED
    OBVIOUS
<1>6. \A k \in 1 .. i - 1 : Safe(b, k, p, pid, n) => Safe(c, k, p, pid, n)
  BY <1>1
<1>. QED
  BY <1>2, <1>3, <1>4, <1>5, <1>6 DEF Owes

\* A plan for payload p, whose decision follows it.
PlanOK(b, p, pid, n) ==
  /\ b \in Seq(Calls)
  /\ \A i \in DOMAIN b :
       /\ b[i].call \notin PidCalls
       /\ b[i].call \in NoteCalls => b[i].note \in {n} \union Guests(p)
  /\ Owes(b, Len(b) + 1, p, pid, n)

LEMMA Joined ==
  ASSUME NEW x \in Calls, NEW y \in Calls, NEW z \in Calls
  PROVE  <<x>> \o <<y>> = <<x, y>> /\ <<x, y>> \o <<z>> = <<x, y, z>>
<1>1. /\ <<x>> \in Seq(Calls) /\ <<y>> \in Seq(Calls) /\ <<z>> \in Seq(Calls)
      /\ <<x, y>> \in Seq(Calls) /\ <<x, y, z>> \in Seq(Calls)
      /\ Len(<<x>>) = 1 /\ Len(<<y>>) = 1 /\ Len(<<z>>) = 1 /\ Len(<<x, y>>) = 2
      /\ Len(<<x, y, z>>) = 3
  OBVIOUS
<1>. DEFINE s == <<x>> \o <<y>>
            u == <<x, y>> \o <<z>>
<1>2. /\ s \in Seq(Calls) /\ Len(s) = 2
      /\ \A i \in 1 .. 2 : s[i] = IF i <= 1 THEN <<x>>[i] ELSE <<y>>[i - 1]
  BY <1>1, ConcatProperties
<1>3. /\ u \in Seq(Calls) /\ Len(u) = 3
      /\ \A i \in 1 .. 3 : u[i] = IF i <= 2 THEN <<x, y>>[i] ELSE <<z>>[i - 2]
  BY <1>1, ConcatProperties
<1>. HIDE DEF s, u
<1>4. \A i \in 1 .. 2 : s[i] = <<x, y>>[i]
  BY <1>2
<1>5. \A i \in 1 .. 3 : u[i] = <<x, y, z>>[i]
  BY <1>3
<1>6. s = <<x, y>>
  BY <1>1, <1>2, <1>4, SeqEqual
<1>7. u = <<x, y, z>>
  BY <1>1, <1>3, <1>5, SeqEqual
<1>. QED
  BY <1>6, <1>7 DEF s, u

LEMMA FileIsOK ==
  ASSUME NEW p \in Payloads, p.kind = "file", NEW n \in Nat, NEW pid
  PROVE  PlanOK(FilePlan(p, n), p, pid, n)
<1>. DEFINE home  == IF p.new_area = None THEN p.filing
                     ELSE [k \in DOMAIN p.filing \union {"area"} |->
                             IF k = "area" THEN p.new_area.name ELSE p.filing[k]]
            what  == IF p.archive THEN "archived" ELSE "active"
            moved == [k \in DOMAIN home \union {"status"} |->
                        IF k = "status" THEN what ELSE home[k]]
            found == [call |-> "area", name |-> p.new_area.name, parent |-> p.new_area.parent]
            write == UpdateCall(n, moved)
<1>1. /\ FieldsOK(p.filing)
      /\ p.new_area # None => p.new_area \in [name : Areas, parent : Areas \union {None}]
  BY LibraryAssumption DEF PayloadOK
<1>2. p.filing \in Fields
  BY <1>1, FieldsAre
<1>3. home \in Fields
  <2>1. CASE p.new_area = None
    BY <1>2, <2>1
  <2>2. CASE p.new_area # None
    <3>1. p.new_area.name \in Areas
      BY <1>1, <2>2
    <3>. QED
      BY <1>2, <2>2, <3>1, WithField
  <2>. QED
    BY <2>1, <2>2
<1>4. moved \in Fields
  <2>. HIDE DEF home
  <2>1. what \in NOTE_STATUSES
    BY DEF NOTE_STATUSES
  <2>. HIDE DEF what
  <2>. QED
    BY <1>3, <2>1, WithField
<1>5. FilePlan(p, n) = (IF p.new_area = None THEN <<>> ELSE <<found>>) \o <<write>>
  BY DEF FilePlan
<1>. HIDE DEF moved
<1>6. write \in Calls /\ write.call = "update" /\ write.note = n
  BY <1>4 DEF UpdateCall, Calls
<1>7. p.new_area # None => found \in Calls /\ found.call = "area" /\ found.name = p.new_area.name
  BY <1>1 DEF Calls
<1>. HIDE DEF write, found
<1>8. CASE p.new_area = None
  <2>1. FilePlan(p, n) = <<write>>
    BY <1>5, <1>6, <1>8
  <2>2. <<write>> \in Seq(Calls) /\ DOMAIN <<write>> = {1} /\ <<write>>[1] = write
    BY <1>6
  <2>3. Owes(<<write>>, Len(<<write>>) + 1, p, pid, n)
    BY <1>8 DEF Owes, Safe
  <2>. QED
    BY <1>6, <2>1, <2>2, <2>3 DEF PlanOK, NoteCalls, PidCalls
<1>9. CASE p.new_area # None
  <2>1. FilePlan(p, n) = <<found, write>>
    BY <1>5, <1>6, <1>7, <1>9, Joined
  <2>. DEFINE b == <<found, write>>
  <2>2. b \in Seq(Calls) /\ DOMAIN b = {1, 2} /\ b[1] = found /\ b[2] = write /\ Len(b) = 2
    BY <1>6, <1>7, <1>9
  <2>. HIDE DEF b
  <2>3. Founded(b, 3, p.new_area.name)
    BY <1>7, <1>9, <2>2 DEF Founded
  <2>4. Owes(b, Len(b) + 1, p, pid, n)
    BY <2>2, <2>3 DEF Owes, Safe
  <2>. QED
    BY <1>6, <1>7, <1>9, <2>1, <2>2, <2>4 DEF PlanOK, NoteCalls, PidCalls, b
<1>. QED
  BY <1>8, <1>9

LEMMA PartsCount ==
  ASSUME NEW pid, Len(note) \in Nat
  PROVE  IsFiniteSet(PartsOf(pid)) /\ Cardinality(PartsOf(pid)) \in Nat
<1>1. IsFiniteSet(Ids) /\ PartsOf(pid) \subseteq Ids
  BY FS_Interval DEF Ids, PartsOf
<1>. QED
  BY <1>1, FS_Subset, FS_CardinalityType

LEMMA AppendIsOK ==
  ASSUME NEW p \in Payloads, p.kind = "append_entry", NEW n \in Nat, NEW pid,
         NEW x \in Texts
  PROVE  PlanOK(AppendPlan(p, n, x), p, pid, n)
<1>. DEFINE e == [call |-> "entry", note |-> p.target, entry |-> [from |-> n, text |-> x]]
            l == LinkCall(n, "note", p.target)
            a == Archive(n)
<1>1. p.target \in Nat
  BY LibraryAssumption DEF PayloadOK
<1>2. /\ e \in Calls /\ e.call = "entry" /\ e.note = p.target /\ e.entry.from = n
      /\ l \in Calls /\ l.call = "link" /\ l.note = n
      /\ a \in Calls /\ a.call = "update" /\ a.note = n
  BY <1>1, OneField DEF Calls, LinkCall, Archive, UpdateCall, Entries
<1>3. AppendPlan(p, n, x) = <<e, l>> \o (IF p.archive THEN <<a>> ELSE <<>>)
  BY DEF AppendPlan
<1>4. Guests(p) = {p.target}
  BY DEF Guests
<1>. HIDE DEF e, l, a
<1>5. ASSUME NEW b \in Seq(Calls), Len(b) \in {2, 3}, b[1] = e, b[2] = l,
             Len(b) = 3 => b[3] = a
      PROVE  PlanOK(b, p, pid, n)
  <2>1. DOMAIN b = 1 .. Len(b)
    OBVIOUS
  <2>2. \A i \in DOMAIN b : i = 1 \/ i = 2 \/ i = 3
    BY <1>5, <2>1
  <2>3. \A i \in {3, 4} : Entered(b, i, p, n)
    BY <1>2, <1>5 DEF Entered
  <2>4. \A k \in 1 .. Len(b) : b[k].call = "update" => k = 3 /\ b[k].note = n
    BY <1>2, <1>5, <2>1, <2>2
  <2>5. Owes(b, Len(b) + 1, p, pid, n)
    BY <1>5, <2>3, <2>4 DEF Owes, Safe
  <2>. QED
    BY <1>2, <1>4, <1>5, <2>1, <2>2, <2>5 DEF PlanOK, PidCalls
<1>6. CASE p.archive
  <2>1. AppendPlan(p, n, x) = <<e, l, a>>
    BY <1>2, <1>3, <1>6, Joined
  <2>2. /\ <<e, l, a>> \in Seq(Calls) /\ Len(<<e, l, a>>) \in {2, 3}
        /\ <<e, l, a>>[1] = e /\ <<e, l, a>>[2] = l /\ <<e, l, a>>[3] = a
    BY <1>2
  <2>. QED
    BY <1>5, <2>1, <2>2
<1>7. CASE ~ p.archive
  <2>1. <<e, l>> \in Seq(Calls)
    BY <1>2
  <2>2. AppendPlan(p, n, x) = <<e, l>>
    BY <1>3, <1>7, <2>1, ConcatEmptySeq
  <2>3. /\ Len(<<e, l>>) \in {2, 3} /\ Len(<<e, l>>) # 3
        /\ <<e, l>>[1] = e /\ <<e, l>>[2] = l
    OBVIOUS
  <2>. QED
    BY <1>5, <2>1, <2>2, <2>3
<1>. QED
  BY <1>6, <1>7

LEMMA ContradictionIsOK ==
  ASSUME NEW p \in Payloads, p.kind = "contradiction", NEW n \in Nat, NEW pid
  PROVE  PlanOK(ContradictionPlan(p, n), p, pid, n)
<1>. DEFINE b == ContradictionPlan(p, n)
            f == [disputed |-> TRUE]
<1>1. p.other \in Nat
  BY LibraryAssumption DEF PayloadOK
<1>2. Guests(p) = {p.other}
  BY DEF Guests
<1>3. /\ UpdateCall(n, f) \in Calls /\ LinkCall(n, "note", p.other) \in Calls
      /\ UpdateCall(p.other, f) \in Calls /\ LinkCall(p.other, "note", n) \in Calls
  BY <1>1, OneField DEF Calls, LinkCall, UpdateCall
<1>4. /\ b \in Seq(Calls) /\ DOMAIN b = {1, 2, 3, 4} /\ Len(b) = 4
      /\ b[1] = UpdateCall(n, f) /\ b[2] = LinkCall(n, "note", p.other)
      /\ b[3] = UpdateCall(p.other, f) /\ b[4] = LinkCall(p.other, "note", n)
  BY <1>3 DEF ContradictionPlan
<1>. HIDE DEF b, f
<1>5. Tied(b, 5, n, p.other) /\ Tied(b, 5, p.other, n)
  BY <1>4 DEF Tied, LinkCall
<1>6. Owes(b, Len(b) + 1, p, pid, n)
  BY <1>4, <1>5 DEF Owes, Safe
<1>7. \A i \in DOMAIN b : b[i].call \notin PidCalls /\ b[i].note \in {n, p.other}
  BY <1>4 DEF LinkCall, UpdateCall, PidCalls
<1>. QED
  BY <1>2, <1>4, <1>6, <1>7 DEF PlanOK, b

LEMMA TaskIsOK ==
  ASSUME NEW p \in Payloads, p.kind = "new_task", NEW n \in Nat, NEW pid
  PROVE  PlanOK(TaskPlan(n), p, pid, n)
<1>. DEFINE b == TaskPlan(n)
            m == [call |-> "mint"]
<1>1. m \in Calls /\ LinkCall(n, "task", 0) \in Calls
  BY DEF Calls, LinkCall
<1>2. /\ b \in Seq(Calls) /\ DOMAIN b = {1, 2} /\ Len(b) = 2
      /\ b[1] = m /\ b[2] = LinkCall(n, "task", 0)
  BY <1>1 DEF TaskPlan
<1>3. m.call = "mint"
  OBVIOUS
<1>. HIDE DEF b, m
<1>4. Minted(b, 3, n)
  BY <1>2 DEF Minted, LinkCall
<1>5. Owes(b, Len(b) + 1, p, pid, n)
  BY <1>2, <1>4 DEF Owes, Safe
<1>. QED
  BY <1>2, <1>3, <1>5 DEF PlanOK, LinkCall, NoteCalls, PidCalls, b

LEMMA PartType ==
  ASSUME NEW f \in Fields
  PROVE  PartOf(f) \in Fields
<1>. DEFINE v == IF Named(f, "area", None) # None \/ Named(f, "project", FALSE)
                 THEN "active" ELSE "inbox"
<1>1. v \in NOTE_STATUSES
  BY DEF NOTE_STATUSES
<1>2. PartOf(f) = [k \in DOMAIN f \union {"status"} |-> IF k = "status" THEN v ELSE f[k]]
  BY DEF PartOf
<1>. HIDE DEF v
<1>. QED
  BY <1>1, <1>2, WithField

LEMMA SplitIsOK ==
  ASSUME Len(note) \in Nat, NEW p \in Payloads, p.kind = "split", NEW n \in Nat, NEW pid \in Nat
  PROVE  PlanOK(SplitPlan(p, n, pid), p, pid, n)
<1>. DEFINE c == [i \in DOMAIN p.parts |-> CreateCall(PartOf(p.parts[i]), pid)]
            z == IF p.archive THEN <<Archive(n)>> ELSE <<>>
            b == c \o z
            L == Len(p.parts)
<1>1. DOMAIN p.parts = 1 .. L /\ L \in Nat /\ \A i \in DOMAIN p.parts : FieldsOK(p.parts[i])
  BY LibraryAssumption DEF PayloadOK
<1>2. \A i \in 1 .. L : /\ CreateCall(PartOf(p.parts[i]), pid) \in Calls
                        /\ CreateCall(PartOf(p.parts[i]), pid).call = "create"
                        /\ CreateCall(PartOf(p.parts[i]), pid).part = pid
  <2>. TAKE i \in 1 .. L
  <2>1. PartOf(p.parts[i]) \in Fields
    BY <1>1, FieldsAre, PartType
  <2>. QED
    BY <2>1 DEF CreateCall, Calls
<1>3. c \in [1 .. L -> Calls] /\ \A i \in 1 .. L : c[i].call = "create" /\ c[i].part = pid
  BY <1>1, <1>2
<1>4. c \in Seq(Calls) /\ Len(c) = L
  <2>. HIDE DEF c, L
  <2>. QED
    BY <1>1, <1>3, SeqDef, LenProperties
<1>5. Archive(n) \in Calls /\ Archive(n).call = "update" /\ Archive(n).note = n
  BY OneField DEF Calls, Archive, UpdateCall
<1>6. /\ z \in Seq(Calls) /\ Len(z) \in {0, 1}
      /\ Len(z) = 1 => z[1] = Archive(n)
  BY <1>5
<1>. HIDE DEF c, z, L
<1>7. /\ b \in Seq(Calls) /\ Len(b) = L + Len(z) /\ DOMAIN b = 1 .. Len(b)
      /\ \A i \in 1 .. Len(b) : b[i] = IF i <= L THEN c[i] ELSE z[i - L]
  <2>1. /\ b \in Seq(Calls) /\ Len(b) = Len(c) + Len(z)
        /\ \A i \in 1 .. Len(c) + Len(z) : b[i] = IF i <= Len(c) THEN c[i] ELSE z[i - Len(c)]
    BY <1>4, <1>6, ConcatProperties
  <2>. HIDE DEF b
  <2>2. DOMAIN b = 1 .. Len(b)
    BY <2>1
  <2>. QED
    BY <1>4, <2>1, <2>2
<1>. HIDE DEF b
<1>8. \A i \in 1 .. L : b[i].call = "create" /\ b[i].part = pid
  BY <1>1, <1>3, <1>6, <1>7
<1>9. \A i \in 1 .. Len(b) : i > L => i = L + 1 /\ b[i] = Archive(n)
  BY <1>1, <1>6, <1>7
<1>10. Cardinality(PartsOf(pid)) + L >= L
  BY <1>1, PartsCount
<1>11. Parted(b, L + 1, p, pid) /\ (Len(b) = L + 1 => Parted(b, L + 2, p, pid))
  <2>1. L \in 0 .. L + 1 - 1 /\ L \in 0 .. L + 2 - 1
    BY <1>1
  <2>. QED
    BY <1>8, <1>10, <2>1 DEF Parted, L
<1>12. \A k \in 1 .. Len(b) : b[k].call = "update" => k = L + 1 /\ b[k].note = n
  BY <1>1, <1>5, <1>7, <1>8, <1>9
<1>13. Owes(b, Len(b) + 1, p, pid, n)
  <2>1. Len(b) + 1 = L + 1 \/ (Len(b) = L + 1 /\ Len(b) + 1 = L + 2)
    BY <1>1, <1>6, <1>7
  <2>2. Parted(b, Len(b) + 1, p, pid)
    BY <1>11, <2>1
  <2>. QED
    BY <1>1, <1>7, <1>11, <1>12, <2>2 DEF Owes, Safe
<1>14. \A i \in DOMAIN b : /\ b[i].call \notin PidCalls
                           /\ b[i].call \in NoteCalls => b[i].note = n
  BY <1>1, <1>5, <1>7, <1>8, <1>9 DEF NoteCalls, PidCalls
<1>15. PlanOK(b, p, pid, n)
  BY <1>7, <1>13, <1>14 DEF PlanOK
<1>. QED
  BY <1>15 DEF b, c, z, SplitPlan

LEMMA PlanIsOK ==
  ASSUME RowsOK, NEW p \in Payloads, NEW pid \in DOMAIN proposal
  PROVE  PlanOK(Plan(p, proposal[pid].note, pid), p, pid, proposal[pid].note)
<1>. DEFINE n == proposal[pid].note
<1>1. n \in Ids /\ Len(note) \in Nat /\ n \in Nat /\ pid \in Nat
  BY DEF RowsOK, Ids
<1>2. note[n].text \in Texts
  <2>1. note[n] \in Row
    BY <1>1 DEF RowsOK, Ids
  <2>. QED
    BY <2>1 DEF Row
<1>3. p.kind \in PROPOSAL_KINDS
  BY LibraryAssumption DEF PayloadOK
<1>. HIDE DEF n
<1>4. CASE p.kind = "file"
  BY <1>1, <1>4, FileIsOK DEF Plan, n
<1>5. CASE p.kind = "split"
  BY <1>1, <1>5, SplitIsOK DEF Plan, n
<1>6. CASE p.kind = "contradiction"
  BY <1>1, <1>6, ContradictionIsOK DEF Plan, n
<1>7. CASE p.kind = "new_task"
  BY <1>1, <1>7, TaskIsOK DEF Plan, n
<1>8. CASE p.kind = "append_entry"
  BY <1>1, <1>2, <1>8, AppendIsOK DEF Plan, n
<1>. QED
  BY <1>3, <1>4, <1>5, <1>6, <1>7, <1>8 DEF PROPOSAL_KINDS

LEMMA ApprovalIsOK ==
  ASSUME RowsOK, NEW p \in Payloads, NEW pid \in DOMAIN proposal
  PROVE  Sound(Approval(p, pid)) /\ Owing(Approval(p, pid))
<1>. DEFINE n == proposal[pid].note
            b == Plan(p, n, pid)
            c == CheckCall(p, pid)
            d == [call |-> "decide", payload |-> p, pid |-> pid]
            s == <<c>> \o b
            cs == Approval(p, pid)
<1>1. n \in Ids /\ pid \in Nat
  BY DEF RowsOK
<1>2. PlanOK(b, p, pid, n)
  BY PlanIsOK
<1>3. /\ c \in Calls /\ c.call = "check" /\ c.payload = p /\ c.pid = pid
      /\ d \in Calls /\ d.call = "decide" /\ d.payload = p /\ d.pid = pid
  BY <1>1 DEF Calls, CheckCall
<1>4. cs = s \o <<d>>
  BY DEF Approval
<1>. HIDE DEF b, c, d, n
<1>5. b \in Seq(Calls) /\ Len(b) \in Nat
  BY <1>2 DEF PlanOK
<1>6. /\ s \in Seq(Calls) /\ Len(s) = 1 + Len(b)
      /\ \A i \in 1 .. 1 + Len(b) : s[i] = IF i <= 1 THEN c ELSE b[i - 1]
  <2>1. /\ <<c>> \in Seq(Calls) /\ Len(<<c>>) = 1 /\ <<c>>[1] = c
    BY <1>3
  <2>2. /\ <<c>> \o b \in Seq(Calls) /\ Len(<<c>> \o b) = Len(<<c>>) + Len(b)
        /\ \A i \in 1 .. Len(<<c>>) + Len(b) :
             (<<c>> \o b)[i] = IF i <= Len(<<c>>) THEN <<c>>[i] ELSE b[i - Len(<<c>>)]
    BY <1>5, <2>1, ConcatProperties
  <2>. HIDE DEF s
  <2>3. ASSUME NEW i \in 1 .. 1 + Len(b) PROVE s[i] = IF i <= 1 THEN c ELSE b[i - 1]
    BY <1>5, <2>1, <2>2 DEF s
  <2>. QED
    BY <2>1, <2>2, <2>3 DEF s
<1>. HIDE DEF s, cs
<1>7. /\ cs \in Seq(Calls) /\ Len(cs) = Len(b) + 2
      /\ \A i \in 1 .. Len(b) + 2 : cs[i] = IF i <= 1 + Len(b) THEN s[i] ELSE d
  <2>1. /\ <<d>> \in Seq(Calls) /\ Len(<<d>>) = 1 /\ <<d>>[1] = d
    BY <1>3
  <2>2. /\ cs \in Seq(Calls) /\ Len(cs) = Len(s) + Len(<<d>>)
        /\ \A i \in 1 .. Len(s) + Len(<<d>>) :
             cs[i] = IF i <= Len(s) THEN s[i] ELSE <<d>>[i - Len(s)]
    BY <1>4, <1>6, <2>1, ConcatProperties
  <2>3. ASSUME NEW i \in 1 .. Len(b) + 2 PROVE cs[i] = IF i <= 1 + Len(b) THEN s[i] ELSE d
    BY <1>5, <1>6, <2>1, <2>2
  <2>. QED
    BY <1>5, <1>6, <2>1, <2>2, <2>3
<1>8. /\ cs # <<>> /\ cs[1] = c /\ cs[Len(b) + 2] = d
      /\ DOMAIN cs = 1 .. Len(b) + 2
      /\ \A i \in 1 .. Len(b) : cs[i + 1] = b[i]
  BY <1>5, <1>6, <1>7
<1>9. /\ Len(Tail(cs)) = Len(b) + 1 /\ DOMAIN Tail(cs) = 1 .. Len(b) + 1
      /\ \A i \in 1 .. Len(b) + 1 : Tail(cs)[i] = cs[i + 1]
  BY <1>5, <1>7, <1>8, HeadTailProperties
<1>10. Sound(cs)
  <2>1. \A i \in DOMAIN b : /\ b[i].call \notin PidCalls
                            /\ b[i].call \in NoteCalls => b[i].note \in {n} \union Guests(p)
    BY <1>2 DEF PlanOK
  <2>2. \A i \in 1 .. Len(b) + 2 : i = 1 \/ i = Len(b) + 2 \/ (i - 1 \in DOMAIN b /\ cs[i] = b[i - 1])
    BY <1>5, <1>8
  <2>. QED
    BY <1>1, <1>3, <1>5, <1>7, <1>8, <2>1, <2>2 DEF Sound, Checking, NoteCalls, PidCalls
<1>11. Owing(cs)
  <2>1. Body(cs) = Tail(cs) /\ Checking(cs)
    BY <1>3, <1>8 DEF Body, Checking
  <2>2. Owes(b, Len(b) + 1, p, pid, n)
    BY <1>2 DEF PlanOK
  <2>3. Owes(Tail(cs), Len(b) + 1, p, pid, n)
    <3>. DEFINE m == Len(b) + 1
                u == Tail(cs)
    <3>1. \A k \in 1 .. m - 1 : b[k] = u[k]
      BY <1>5, <1>8, <1>9
    <3>2. m \in Nat /\ Owes(b, m, p, pid, n)
      BY <1>5, <2>2
    <3>. HIDE DEF m, u
    <3>3. Owes(u, m, p, pid, n)
      BY <3>1, <3>2, SameCalls
    <3>. QED
      BY <3>3 DEF m, u
  <2>4. Tail(cs)[Len(b) + 1] = d
    BY <1>5, <1>8, <1>9
  <2>5. \A i \in 1 .. Len(b) + 1 : Tail(cs)[i].call = "decide" => i = Len(b) + 1
    <3>1. \A i \in 1 .. Len(b) : b[i].call # "decide"
      BY <1>2, <1>5 DEF PlanOK, PidCalls
    <3>. QED
      BY <1>5, <1>8, <1>9, <3>1
  <2>6. ASSUME NEW i \in DOMAIN Tail(cs), Tail(cs)[i].call = "decide"
        PROVE  Tail(cs)[i] = d /\ i = Len(b) + 1
    BY <1>9, <2>4, <2>5, <2>6
  <2>. QED
    BY <1>1, <1>3, <1>8, <2>1, <2>3, <2>6 DEF Owing, n
<1>. QED
  BY <1>10, <1>11 DEF cs

-----------------------------------------------------------------------------
(* Rows only gain: what every step keeps of the Library for a job *)

Grows ==
  /\ Len(note) \in Nat /\ Len(note') \in Nat /\ Ids \subseteq Ids'
  /\ \A x \in Ids : /\ note[x].entries \subseteq note'[x].entries
                    /\ note[x].links \subseteq note'[x].links
                    /\ note'[x].part = note[x].part
  /\ \A a \in Areas : Born(a) => Born(a)'
  /\ DOMAIN proposal \subseteq DOMAIN proposal'
  /\ \A i \in DOMAIN proposal : proposal'[i].note = proposal[i].note

LEMMA PartsGrow ==
  ASSUME Grows, NEW pid
  PROVE  /\ PartsOf(pid) \subseteq PartsOf(pid)'
         /\ Cardinality(PartsOf(pid)) \in Nat /\ Cardinality(PartsOf(pid)') \in Nat
         /\ Cardinality(PartsOf(pid)) <= Cardinality(PartsOf(pid)')
<1>1. PartsOf(pid) \subseteq PartsOf(pid)'
  BY DEF Grows, PartsOf
<1>2. IsFiniteSet(PartsOf(pid)) /\ Cardinality(PartsOf(pid)) \in Nat
  BY PartsCount DEF Grows
<1>3. IsFiniteSet(Ids') /\ PartsOf(pid)' \subseteq Ids'
  BY FS_Interval DEF Ids, PartsOf, Grows
<1>4. IsFiniteSet(PartsOf(pid)')
  BY <1>3, FS_Subset
<1>. QED
  BY <1>1, <1>2, <1>4, FS_Subset, FS_CardinalityType

LEMMA OwesStays ==
  ASSUME Grows, NEW b, NEW i \in Nat, NEW p \in Payloads, NEW pid, NEW n \in Ids,
         Owes(b, i, p, pid, n)
  PROVE  Owes(b, i, p, pid, n)'
<1>1. \A k \in Nat : Entered(b, k, p, n) => Entered(b, k, p, n)'
  BY DEF Entered, Grows
<1>2. \A k \in Nat : Parted(b, k, p, pid) => Parted(b, k, p, pid)'
  <2>1. Len(p.parts) \in Nat \/ p.kind # "split"
    BY LibraryAssumption DEF PayloadOK
  <2>. TAKE k \in Nat
  <2>. HAVE Parted(b, k, p, pid)
  <2>2. PICK m \in 0 .. k - 1 : /\ \A j \in 1 .. m : b[j].call = "create" /\ b[j].part = pid
                                /\ Cardinality(PartsOf(pid)) + m >= Len(p.parts)
    BY DEF Parted
  <2>3. /\ Cardinality(PartsOf(pid)) \in Nat /\ Cardinality(PartsOf(pid)') \in Nat
        /\ Cardinality(PartsOf(pid)) <= Cardinality(PartsOf(pid)')
    BY PartsGrow
  <2>4. PICK x, y : x = Cardinality(PartsOf(pid)) /\ y = Cardinality(PartsOf(pid)')
    OBVIOUS
  <2>5. y + m >= Len(p.parts)
    <3>1. x \in Nat /\ y \in Nat /\ x <= y /\ x + m >= Len(p.parts) /\ m \in Nat
      BY <2>2, <2>3, <2>4
    <3>. QED
      BY <3>1
  <2>6. Cardinality(PartsOf(pid)') + m >= Len(p.parts)
    BY <2>4, <2>5
  <2>. QED
    BY <2>2, <2>6 DEF Parted
<1>3. \A k \in Nat : Safe(b, k, p, pid, n) => Safe(b, k, p, pid, n)'
  BY <1>1, <1>2 DEF Safe
<1>4. \A x, y : Tied(b, i, x, y) => Tied(b, i, x, y)'
  BY DEF Tied, Grows
<1>5. Minted(b, i, n) => Minted(b, i, n)'
  BY DEF Minted, Grows
<1>6. \A a \in Areas : Founded(b, i, a) => Founded(b, i, a)'
  BY DEF Founded, Grows
<1>7. p.kind = "file" /\ p.new_area # None => p.new_area.name \in Areas
  BY LibraryAssumption DEF PayloadOK
<1>. QED
  BY <1>3, <1>4, <1>5, <1>6, <1>7 DEF Owes

LEMMA JobStays ==
  ASSUME RowsOK, Grows, NEW j, JobOK(j)
  PROVE  JobOK(j)'
<1>. DEFINE cs == j.calls
<1>1. Sound(cs) /\ Owing(cs)
  BY DEF JobOK
<1>2. Sound(cs)'
  BY <1>1 DEF Sound, Grows
<1>3. Owing(cs)'
  <2>1. \A i \in DOMAIN Body(cs) : Body(cs)[i] \in Calls /\ i \in Nat
    BY <1>1, HeadTailProperties DEF Sound, Body
  <2>. HIDE DEF cs
  <2>2. SUFFICES ASSUME NEW i \in DOMAIN Body(cs), NEW d, d = Body(cs)[i], d.call = "decide"
                 PROVE  /\ Guests(d.payload) \subseteq Ids' \/ (Checking(cs) /\ cs[1].payload = d.payload)
                        /\ \E n \in Ids' : /\ n = proposal'[d.pid].note
                                           /\ Owes(Body(cs), i, d.payload, d.pid, n)'
    BY DEF Owing
  <2>3. d.payload \in Payloads
    BY <2>1, <2>2, CallTypes
  <2>4. d.pid \in DOMAIN proposal
    <3>1. \E k \in DOMAIN cs : d = cs[k]
      BY <1>1, <2>2, HeadTailProperties DEF Sound, Body
    <3>. QED
      BY <1>1, <2>2, <3>1 DEF Sound, PidCalls
  <2>5. /\ Guests(d.payload) \subseteq Ids \/ (Checking(cs) /\ cs[1].payload = d.payload)
    BY <1>1, <2>2 DEF Owing
  <2>6. PICK n \in Ids : n = proposal[d.pid].note /\ Owes(Body(cs), i, d.payload, d.pid, n)
    BY <1>1, <2>2 DEF Owing
  <2>7. n = proposal'[d.pid].note
    BY <2>4, <2>6 DEF Grows
  <2>8. Owes(Body(cs), i, d.payload, d.pid, n)'
    BY <2>1, <2>3, <2>6, OwesStays
  <2>. QED
    BY <2>5, <2>7, <2>8 DEF Grows
<1>4. SeenOK(cs[1], j.seen)'
  <2>1. cs[1] \in Calls
    BY <1>1, EmptySeq DEF Sound
  <2>2. SeenOK(cs[1], j.seen)
    BY DEF JobOK
  <2>. QED
    BY <2>1, <2>2, CallTypes DEF SeenOK, Grows
<1>. QED
  BY <1>2, <1>3, <1>4 DEF JobOK, Grows

-----------------------------------------------------------------------------
(* A call done, the next one *)

\* What a call of a plan leaves behind.
HeadDone(c) ==
  /\ c.call = "entry" => c.note \in Ids' /\ c.entry \in note'[c.note].entries
  /\ c.call = "create" => \E x \in Ids' \ Ids : note'[x].part = c.part
  /\ c.call = "link" =>
       /\ c.note \in Ids'
       /\ \E l \in note'[c.note].links :
            /\ l.kind = c.kind
            /\ c.kind = "note" => l = [kind |-> "note", id |-> c.id]
  /\ c.call = "area" => area'[c.name] # None

LEMMA OneMorePart ==
  ASSUME Grows, NEW pid, NEW x \in Ids' \ Ids, note'[x].part = pid
  PROVE  Cardinality(PartsOf(pid)') >= Cardinality(PartsOf(pid)) + 1
<1>. DEFINE old == PartsOf(pid)
            all == old \union {x}
<1>1. all \subseteq PartsOf(pid)' /\ x \notin old
  BY PartsGrow DEF PartsOf
<1>2. IsFiniteSet(old) /\ Cardinality(old) \in Nat
  BY PartsCount DEF Grows
<1>3. Cardinality(all) = Cardinality(old) + 1
  BY <1>1, <1>2, FS_AddElement
<1>4. IsFiniteSet(PartsOf(pid)')
  <2>1. IsFiniteSet(Ids') /\ PartsOf(pid)' \subseteq Ids'
    BY FS_Interval DEF Ids, PartsOf, Grows
  <2>. QED
    BY <2>1, FS_Subset
<1>5. Cardinality(all) <= Cardinality(PartsOf(pid)')
  BY <1>1, <1>4, FS_Subset
<1>. QED
  BY <1>3, <1>5

\* What the first call did is done, and the rest is still to be done.
LEMMA OwesShifts ==
  ASSUME Grows, NEW b, NEW c, NEW i \in Nat \ {0}, \A k \in 1 .. i - 1 : c[k] = b[k + 1],
         b[1] \in Calls, HeadDone(b[1]),
         NEW p \in Payloads, NEW pid, NEW n \in Ids, Guests(p) \subseteq Ids,
         Owes(b, i + 1, p, pid, n)
  PROVE  Owes(c, i, p, pid, n)'
<1>1. \A j \in 1 .. i : (Entered(b, j + 1, p, n) /\ p.kind = "append_entry") => Entered(c, j, p, n)'
  <2>. SUFFICES ASSUME NEW j \in 1 .. i, Entered(b, j + 1, p, n), p.kind = "append_entry"
                PROVE  Entered(c, j, p, n)'
    OBVIOUS
  <2>1. p.target \in Ids
    BY DEF Guests
  <2>2. CASE \E e \in note[p.target].entries : e.from = n
    BY <2>1, <2>2 DEF Entered, Grows
  <2>3. ASSUME NEW k \in 1 .. j, b[k].call = "entry", b[k].note = p.target, b[k].entry.from = n
        PROVE  Entered(c, j, p, n)'
    <3>1. CASE k = 1
      BY <2>1, <2>3, <3>1 DEF HeadDone, Entered, Grows
    <3>2. CASE k # 1
      <4>1. k - 1 \in 1 .. j - 1 /\ c[k - 1] = b[k]
        BY <3>2
      <4>. QED
        BY <2>3, <4>1 DEF Entered
    <3>. QED
      BY <3>1, <3>2
  <2>. QED
    BY <2>2, <2>3 DEF Entered
<1>2. \A j \in 1 .. i : Parted(b, j + 1, p, pid) => Parted(c, j, p, pid)'
  <2>. SUFFICES ASSUME NEW j \in 1 .. i, Parted(b, j + 1, p, pid)
                PROVE  Parted(c, j, p, pid)'
    OBVIOUS
  <2>1. PICK m \in 0 .. j : /\ \A k \in 1 .. m : b[k].call = "create" /\ b[k].part = pid
                            /\ Cardinality(PartsOf(pid)) + m >= Len(p.parts)
    BY DEF Parted
  <2>2. CASE m = 0
    BY <2>1, <2>2, PartsGrow DEF Parted
  <2>3. CASE m # 0
    <3>1. PICK x \in Ids' \ Ids : note'[x].part = pid
      BY <2>1, <2>3 DEF HeadDone
    <3>2. Cardinality(PartsOf(pid)') >= Cardinality(PartsOf(pid)) + 1
      BY <3>1, OneMorePart
    <3>3. \A k \in 1 .. m - 1 : c[k].call = "create" /\ c[k].part = pid
      <4>. SUFFICES ASSUME NEW k \in 1 .. m - 1
                    PROVE  c[k].call = "create" /\ c[k].part = pid
        OBVIOUS
      <4>1. k + 1 \in 1 .. m /\ c[k] = b[k + 1]
        BY <2>1
      <4>. QED
        BY <2>1, <4>1
    <3>4. m - 1 \in 0 .. j - 1 /\ Cardinality(PartsOf(pid)') + (m - 1) >= Len(p.parts)
      BY <2>1, <2>3, <3>2, PartsGrow
    <3>. QED
      BY <3>3, <3>4 DEF Parted
  <2>. QED
    BY <2>2, <2>3
<1>3. \A j \in 1 .. i : Safe(b, j + 1, p, pid, n) => Safe(c, j, p, pid, n)'
  BY <1>1, <1>2 DEF Safe
<1>4. \A x, y : Tied(b, i + 1, x, y) => Tied(c, i, x, y)'
  <2>. SUFFICES ASSUME NEW x, NEW y, Tied(b, i + 1, x, y)
                PROVE  Tied(c, i, x, y)'
    OBVIOUS
  <2>1. CASE x \in Ids /\ [kind |-> "note", id |-> y] \in note[x].links
    BY <2>1 DEF Tied, Grows
  <2>2. ASSUME NEW k \in 1 .. i, b[k].call = "link", b[k].note = x, b[k].kind = "note", b[k].id = y
        PROVE  Tied(c, i, x, y)'
    <3>1. CASE k = 1
      BY <2>2, <3>1 DEF HeadDone, Tied
    <3>2. CASE k # 1
      <4>1. k - 1 \in 1 .. i - 1 /\ c[k - 1] = b[k]
        BY <3>2
      <4>. QED
        BY <2>2, <4>1 DEF Tied
    <3>. QED
      BY <3>1, <3>2
  <2>. QED
    BY <2>1, <2>2 DEF Tied
<1>5. Minted(b, i + 1, n) => Minted(c, i, n)'
  <2>1. CASE \E l \in note[n].links : l.kind = "task"
    BY <2>1 DEF Minted, Grows
  <2>2. ASSUME NEW k \in 1 .. i, b[k].call = "link", b[k].note = n, b[k].kind = "task"
        PROVE  Minted(c, i, n)'
    <3>1. CASE k = 1
      BY <2>2, <3>1 DEF HeadDone, Minted
    <3>2. CASE k # 1
      <4>1. k - 1 \in 1 .. i - 1 /\ c[k - 1] = b[k]
        BY <3>2
      <4>. QED
        BY <2>2, <4>1 DEF Minted
    <3>. QED
      BY <3>1, <3>2
  <2>. QED
    BY <2>1, <2>2 DEF Minted
<1>6. \A a \in Areas : Founded(b, i + 1, a) => Founded(c, i, a)'
  <2>. SUFFICES ASSUME NEW a \in Areas, Founded(b, i + 1, a)
                PROVE  Founded(c, i, a)'
    OBVIOUS
  <2>1. CASE Born(a)
    BY <2>1 DEF Founded, Grows
  <2>2. ASSUME NEW k \in 1 .. i, b[k].call = "area", b[k].name = a
        PROVE  Founded(c, i, a)'
    <3>1. CASE k = 1
      BY <2>2, <3>1 DEF HeadDone, Founded, Born
    <3>2. CASE k # 1
      <4>1. k - 1 \in 1 .. i - 1 /\ c[k - 1] = b[k]
        BY <3>2
      <4>. QED
        BY <2>2, <4>1 DEF Founded
    <3>. QED
      BY <3>1, <3>2
  <2>. QED
    BY <2>1, <2>2 DEF Founded
<1>7. p.kind = "file" /\ p.new_area # None => p.new_area.name \in Areas
  BY LibraryAssumption DEF PayloadOK
<1>8. p.kind \in {"append_entry", "split"} =>
        \A k \in 1 .. i - 1 : c[k].call = "update" => c[k].note = n /\ Safe(c, k, p, pid, n)'
  <2>. SUFFICES ASSUME p.kind \in {"append_entry", "split"}, NEW k \in 1 .. i - 1,
                       c[k].call = "update"
                PROVE  c[k].note = n /\ Safe(c, k, p, pid, n)'
    OBVIOUS
  <2>1. k + 1 \in 1 .. i + 1 - 1 /\ b[k + 1] = c[k] /\ k \in 1 .. i
    OBVIOUS
  <2>2. b[k + 1].note = n /\ Safe(b, k + 1, p, pid, n)
    BY <2>1 DEF Owes
  <2>. QED
    BY <1>3, <2>1, <2>2
<1>9. Safe(b, i + 1, p, pid, n) /\ i \in 1 .. i
  BY DEF Owes
<1>10. Safe(c, i, p, pid, n)'
  BY <1>3, <1>9
<1>. QED
  BY <1>4, <1>5, <1>6, <1>7, <1>8, <1>10 DEF Owes

LEMMA StartOK ==
  ASSUME NEW cs, Sound(cs), Owing(cs), NEW bulk \in Seq(Nat),
         \A i \in DOMAIN bulk : bulk[i] \in DOMAIN proposal
  PROVE  JobOK(Start(cs, bulk)) /\ Start(cs, bulk).seen = None
<1>. DEFINE j == Start(cs, bulk)
<1>1. /\ j.calls = cs /\ j.seen = None /\ j.made = 0 /\ j.bulk = bulk
      /\ j = [calls |-> j.calls, seen |-> j.seen, made |-> j.made, bulk |-> j.bulk]
  BY DEF Start
<1>. HIDE DEF j
<1>2. JobOK(j)
  BY <1>1 DEF JobOK, SeenOK
<1>. QED
  BY <1>1, <1>2 DEF j

LEMMA OpenOK ==
  ASSUME NEW bulk \in Seq(Nat), bulk # <<>>, \A i \in DOMAIN bulk : bulk[i] \in DOMAIN proposal
  PROVE  LET w == Start(Open(Head(bulk)), Tail(bulk)) IN JobOK(w) /\ w.seen = None
<1>1. /\ Head(bulk) \in DOMAIN proposal /\ Head(bulk) \in Nat /\ Tail(bulk) \in Seq(Nat)
      /\ \A i \in DOMAIN Tail(bulk) : Tail(bulk)[i] \in DOMAIN proposal
  BY HeadTailProperties
<1>. DEFINE c == [call |-> "open", pid |-> Head(bulk)]
<1>2. c \in Calls /\ c.call = "open" /\ c.pid = Head(bulk)
  BY <1>1 DEF Calls
<1>3. Open(Head(bulk)) = <<c>>
  BY DEF Open
<1>. HIDE DEF c
<1>4. Sound(<<c>>) /\ Owing(<<c>>)
  BY <1>1, <1>2, Single DEF NoteCalls
<1>. QED
  BY <1>1, <1>3, <1>4, StartOK

LEMMA NextOK ==
  ASSUME RowsOK, Grows, NEW t, JobOK(job[t]), NEW x, x = NextJob(t), x # None
  PROVE  JobOK(x)'
<1>1. /\ job[t].bulk # <<>> /\ x = Start(Open(Head(job[t].bulk)), Tail(job[t].bulk))
      /\ job[t].bulk \in Seq(Nat)
      /\ \A i \in DOMAIN job[t].bulk : job[t].bulk[i] \in DOMAIN proposal
  BY DEF NextJob, JobOK
<1>2. JobOK(x)
  BY <1>1, OpenOK
<1>. QED
  BY <1>2, JobStays

LEMMA TailDone ==
  ASSUME RowsOK, Grows, NEW cs, Sound(cs), Owing(cs), ~ Checking(cs), HeadDone(cs[1]),
         Tail(cs) # <<>>
  PROVE  Sound(Tail(cs))' /\ Owing(Tail(cs))'
<1>. DEFINE u == Tail(cs)
<1>1. /\ cs \in Seq(Calls) /\ cs # <<>> /\ DOMAIN cs = 1 .. Len(cs) /\ Len(cs) \in Nat \ {0}
  BY EmptySeq DEF Sound
<1>2. /\ u \in Seq(Calls) /\ Len(u) = Len(cs) - 1 /\ DOMAIN u = 1 .. Len(u)
      /\ \A i \in 1 .. Len(u) : u[i] = cs[i + 1]
  BY <1>1, HeadTailProperties
<1>3. u # <<>> /\ 1 \in DOMAIN u
  BY <1>2, EmptySeq
<1>. HIDE DEF u
<1>4. \A i \in DOMAIN u : i + 1 \in DOMAIN cs /\ i + 1 # 1 /\ u[i] = cs[i + 1]
  BY <1>1, <1>2
<1>5. \A i \in DOMAIN u :
        /\ u[i].call \notin {"check", "open"}
        /\ u[i].call = "decide" => i = Len(u)
        /\ u[i].call \in NoteCalls => u[i].note \in Ids
        /\ u[i].call \in PidCalls => u[i].pid \in DOMAIN proposal
  BY <1>1, <1>2, <1>4 DEF Sound
<1>6. Sound(u)'
  BY <1>2, <1>3, <1>5 DEF Sound, Grows
<1>7. ~ Checking(u)
  BY <1>3, <1>5 DEF Checking
<1>8. Body(u) = u /\ Body(cs) = cs
  BY <1>7 DEF Body
<1>9. Owing(u)'
  <2>1. SUFFICES ASSUME NEW i \in DOMAIN u, NEW d, d = u[i], d.call = "decide"
                 PROVE  /\ Guests(d.payload) \subseteq Ids'
                        /\ \E n \in Ids' : /\ n = proposal'[d.pid].note
                                           /\ Owes(u, i, d.payload, d.pid, n)'
    BY <1>8 DEF Owing
  <2>2. d = cs[i + 1] /\ d \in Calls /\ i + 1 \in DOMAIN cs
    BY <1>2, <1>4, <2>1
  <2>3. d.payload \in Payloads /\ d.pid \in DOMAIN proposal
    BY <1>5, <2>1, <2>2, CallTypes DEF PidCalls
  <2>4. Guests(d.payload) \subseteq Ids
    BY <1>8, <2>1, <2>2 DEF Owing
  <2>5. PICK n \in Ids : n = proposal[d.pid].note /\ Owes(cs, i + 1, d.payload, d.pid, n)
    BY <1>8, <2>1, <2>2 DEF Owing
  <2>6. i \in Nat \ {0} /\ \A k \in 1 .. i - 1 : u[k] = cs[k + 1]
    BY <1>2, <2>1
  <2>7. cs[1] \in Calls
    BY <1>1
  <2>8. Owes(u, i, d.payload, d.pid, n)'
    BY <2>3, <2>4, <2>5, <2>6, <2>7, OwesShifts
  <2>9. n = proposal'[d.pid].note /\ n \in Ids'
    BY <2>3, <2>5 DEF Grows
  <2>. QED
    BY <2>4, <2>8, <2>9 DEF Grows
<1>. QED
  BY <1>6, <1>9 DEF u

LEMMA CheckDone ==
  ASSUME NEW cs, Sound(cs), Owing(cs), Checking(cs), Guests(cs[1].payload) \subseteq Ids,
         Tail(cs) # <<>>
  PROVE  Sound(Tail(cs)) /\ Owing(Tail(cs))
<1>. DEFINE u == Tail(cs)
<1>1. /\ cs \in Seq(Calls) /\ cs # <<>> /\ DOMAIN cs = 1 .. Len(cs) /\ Len(cs) \in Nat \ {0}
  BY EmptySeq DEF Sound
<1>2. /\ u \in Seq(Calls) /\ Len(u) = Len(cs) - 1 /\ DOMAIN u = 1 .. Len(u)
      /\ \A i \in 1 .. Len(u) : u[i] = cs[i + 1]
  BY <1>1, HeadTailProperties
<1>3. u # <<>> /\ 1 \in DOMAIN u
  BY <1>2, EmptySeq
<1>. HIDE DEF u
<1>4. \A i \in DOMAIN u : i + 1 \in DOMAIN cs /\ i + 1 # 1 /\ u[i] = cs[i + 1]
  BY <1>1, <1>2
<1>5. \A i \in DOMAIN u :
        /\ u[i].call \notin {"check", "open"}
        /\ u[i].call = "decide" => i = Len(u)
        /\ u[i].call \in NoteCalls => u[i].note \in Ids
        /\ u[i].call \in PidCalls => u[i].pid \in DOMAIN proposal
  BY <1>1, <1>2, <1>4 DEF Sound
<1>6. Sound(u)
  BY <1>2, <1>3, <1>5 DEF Sound
<1>7. ~ Checking(u)
  BY <1>3, <1>5 DEF Checking
<1>8. Body(u) = u /\ Body(cs) = u
  BY <1>7 DEF Body, u
<1>9. Owing(u)
  BY <1>8 DEF Owing
<1>. QED
  BY <1>6, <1>9 DEF u

LEMMA MovedOK ==
  ASSUME RowsOK, Grows, NEW t, JobOK(job[t]), NEW m \in Nat, NEW x, x = Moved(t, m), x # None,
         IF Checking(job[t].calls) THEN Guests(job[t].calls[1].payload) \subseteq Ids
                                   ELSE HeadDone(job[t].calls[1])
  PROVE  JobOK(x)'
<1>1. CASE Tail(job[t].calls) = <<>>
  BY <1>1, NextOK DEF Moved
<1>2. CASE Tail(job[t].calls) # <<>>
  <2>1. PICK cs : cs = job[t].calls
    OBVIOUS
  <2>2. PICK bulk : bulk = job[t].bulk
    OBVIOUS
  <2>. DEFINE u == Tail(cs)
  <2>3. /\ x.calls = u /\ x.seen = None /\ x.made = m /\ x.bulk = bulk
        /\ x = [calls |-> x.calls, seen |-> x.seen, made |-> x.made, bulk |-> x.bulk]
    BY <1>2, <2>1, <2>2 DEF Moved, JobOK
  <2>4. /\ Sound(cs) /\ Owing(cs) /\ u # <<>>
        /\ bulk \in Seq(Nat) /\ \A i \in DOMAIN bulk : bulk[i] \in DOMAIN proposal
    BY <1>2, <2>1, <2>2 DEF JobOK
  <2>5. IF Checking(cs) THEN Guests(cs[1].payload) \subseteq Ids ELSE HeadDone(cs[1])
    <3>1. CASE Checking(cs)
      BY <2>1, <3>1
    <3>2. CASE ~ Checking(cs)
      <4>1. HeadDone(job[t].calls[1])
        BY <2>1, <3>2
      <4>. QED
        BY <2>1, <3>2, <4>1 DEF HeadDone
    <3>. QED
      BY <3>1, <3>2
  <2>6. Sound(u)' /\ Owing(u)'
    <3>1. CASE ~ Checking(cs)
      BY <2>4, <2>5, <3>1, TailDone
    <3>2. CASE Checking(cs)
      <4>1. Sound(u) /\ Owing(u)
        BY <2>4, <2>5, <3>2, CheckDone
      <4>. HIDE DEF u
      <4>2. PICK y : y = Start(u, <<>>)
        OBVIOUS
      <4>3. JobOK(y) /\ y.calls = u
        <5>1. <<>> \in Seq(Nat) /\ DOMAIN <<>> = {}
          OBVIOUS
        <5>2. JobOK(Start(u, <<>>))
          BY <4>1, <5>1, StartOK
        <5>. QED
          BY <4>2, <5>2 DEF Start
      <4>4. JobOK(y)'
        BY <4>3, JobStays
      <4>. QED
        BY <4>3, <4>4 DEF JobOK
    <3>. QED
      BY <3>1, <3>2
  <2>. HIDE DEF u
  <2>. QED
    BY <2>3, <2>4, <2>6 DEF JobOK, SeenOK, Grows
<1>. QED
  BY <1>1, <1>2

-----------------------------------------------------------------------------
(* Requests *)

\* Minting a task or a reminder from a note.
LEMMA MintIsOK ==
  ASSUME NEW n \in Ids, Len(note) \in Nat, NEW k \in {"task", "schedule"}
  PROVE  /\ Sound(<< [call |-> "mint"], LinkCall(n, k, 0) >>)
         /\ Owing(<< [call |-> "mint"], LinkCall(n, k, 0) >>)
<1>. DEFINE m == [call |-> "mint"]
            l == LinkCall(n, k, 0)
            cs == <<m, l>>
<1>1. m \in Calls /\ l \in Calls /\ m.call = "mint" /\ l.call = "link" /\ l.note = n
  BY DEF Calls, LinkCall, Ids
<1>. HIDE DEF m, l
<1>2. /\ cs \in Seq(Calls) /\ cs # <<>> /\ DOMAIN cs = {1, 2} /\ cs[1] = m /\ cs[2] = l
  BY <1>1
<1>. HIDE DEF cs
<1>3. Sound(cs)
  BY <1>1, <1>2 DEF Sound, NoteCalls, PidCalls
<1>4. Body(cs) = cs
  BY <1>1, <1>2 DEF Body, Checking
<1>5. Owing(cs)
  BY <1>1, <1>2, <1>4 DEF Owing
<1>. QED
  BY <1>3, <1>5 DEF cs, m, l

LEMMA AskSingle ==
  ASSUME RowsOK, NEW t \in Tabs, NEW c \in Calls, c.call \notin {"check", "decide"},
         c.call \in NoteCalls => c.note \in Ids,
         c.call \in PidCalls => c.pid \in DOMAIN proposal,
         Ask(t, <<c>>)
  PROVE  \E w : JobOK(w) /\ w.seen = None /\ AskFor(t, w)
<1>1. <<>> \in Seq(Nat) /\ DOMAIN <<>> = {}
  OBVIOUS
<1>2. JobOK(Start(<<c>>, <<>>)) /\ Start(<<c>>, <<>>).seen = None
  BY <1>1, Single, StartOK
<1>. QED
  BY <1>2 DEF Ask

LEMMA Asked ==
  ASSUME RowsOK, NEW t \in Tabs, Request(t)
  PROVE  \E w : JobOK(w) /\ w.seen = None /\ AskFor(t, w)
<1>0. <<>> \in Seq(Nat) /\ DOMAIN <<>> = {}
  OBVIOUS
<1>1. CASE CreateNote(t)
  <2>1. PICK f \in Captures : Ask(t, << CreateCall(f, 0) >>)
    BY <1>1 DEF CreateNote
  <2>2. f \in Fields
    BY LibraryAssumption, FieldsAre
  <2>3. CreateCall(f, 0) \in Calls /\ CreateCall(f, 0).call = "create"
    BY <2>2 DEF CreateCall, Calls
  <2>. QED
    BY <2>1, <2>3, AskSingle DEF NoteCalls, PidCalls
<1>2. CASE EditNote(t)
  <2>1. PICK n \in Ids, f \in Edits : Ask(t, << UpdateCall(n, f) >>)
    BY <1>2 DEF EditNote
  <2>2. f \in Fields /\ n \in Nat
    BY LibraryAssumption, FieldsAre DEF Ids
  <2>3. UpdateCall(n, f) \in Calls /\ UpdateCall(n, f).call = "update" /\ UpdateCall(n, f).note = n
    BY <2>2 DEF UpdateCall, Calls
  <2>. QED
    BY <2>1, <2>3, AskSingle DEF PidCalls
<1>3. CASE AddEntry(t)
  <2>. DEFINE c(n, x) == [call |-> "entry", note |-> n, entry |-> [from |-> n, text |-> x]]
  <2>1. PICK n \in Ids, x \in Texts : Ask(t, << c(n, x) >>)
    BY <1>3 DEF AddEntry
  <2>2. c(n, x) \in Calls /\ c(n, x).call = "entry" /\ c(n, x).note = n
    BY DEF Calls, Entries, Ids
  <2>. HIDE DEF c
  <2>. QED
    BY <2>1, <2>2, AskSingle DEF PidCalls
<1>4. CASE AddTags(t)
  <2>. DEFINE c(n, g) == [call |-> "addtags", note |-> n, tags |-> {g}]
  <2>1. PICK n \in Ids, g \in Tags : Ask(t, << c(n, g) >>)
    BY <1>4 DEF AddTags
  <2>2. c(n, g) \in Calls /\ c(n, g).call = "addtags" /\ c(n, g).note = n
    BY DEF Calls, Ids
  <2>. HIDE DEF c
  <2>. QED
    BY <2>1, <2>2, AskSingle DEF PidCalls
<1>5. CASE RenameTag(t)
  <2>. DEFINE c(g, h) == [call |-> "retag", old |-> g, new |-> {h}]
  <2>1. PICK g \in Tags : \E h \in Tags \ {g} : Ask(t, << c(g, h) >>)
    BY <1>5 DEF RenameTag
  <2>2. PICK h \in Tags : Ask(t, << c(g, h) >>)
    BY <2>1
  <2>3. c(g, h) \in Calls /\ c(g, h).call = "retag"
    BY DEF Calls
  <2>. HIDE DEF c
  <2>. QED
    BY <2>2, <2>3, AskSingle DEF NoteCalls, PidCalls
<1>6. CASE RetireTag(t)
  <2>. DEFINE c(g) == [call |-> "retag", old |-> g, new |-> {}]
  <2>1. PICK g \in Tags : Ask(t, << c(g) >>)
    BY <1>6 DEF RetireTag
  <2>2. c(g) \in Calls /\ c(g).call = "retag"
    BY DEF Calls
  <2>. HIDE DEF c
  <2>. QED
    BY <2>1, <2>2, AskSingle DEF NoteCalls, PidCalls
<1>7. CASE CreateArea(t)
  <2>. DEFINE c(a, b) == [call |-> "area", name |-> a, parent |-> b]
  <2>1. PICK a \in Areas, b \in Areas \union {None} : Ask(t, << c(a, b) >>)
    BY <1>7 DEF CreateArea
  <2>2. c(a, b) \in Calls /\ c(a, b).call = "area"
    BY DEF Calls
  <2>. HIDE DEF c
  <2>. QED
    BY <2>1, <2>2, AskSingle DEF NoteCalls, PidCalls
<1>8. CASE RetireArea(t)
  <2>. DEFINE c(a, off) == [call |-> "retire", name |-> a, off |-> off]
  <2>1. PICK a \in Areas, off \in BOOLEAN : Ask(t, << c(a, off) >>)
    BY <1>8 DEF RetireArea
  <2>2. c(a, off) \in Calls /\ c(a, off).call = "retire"
    BY DEF Calls
  <2>. HIDE DEF c
  <2>. QED
    BY <2>1, <2>2, AskSingle DEF NoteCalls, PidCalls
<1>9. CASE MoveArea(t)
  <2>. DEFINE c(a, b) == [call |-> "nest", name |-> a, parent |-> b]
  <2>1. PICK a \in Areas, b \in Areas \union {None} : Ask(t, << c(a, b) >>)
    BY <1>9 DEF MoveArea
  <2>2. c(a, b) \in Calls /\ c(a, b).call = "nest"
    BY DEF Calls
  <2>. HIDE DEF c
  <2>. QED
    BY <2>1, <2>2, AskSingle DEF NoteCalls, PidCalls
<1>10. CASE NewTask(t) \/ NewReminder(t)
  <2>1. PICK n \in Ids, k \in {"task", "schedule"} :
          Ask(t, << [call |-> "mint"], LinkCall(n, k, 0) >>)
    BY <1>10 DEF NewTask, NewReminder, TaskPlan, ReminderPlan
  <2>2. Len(note) \in Nat
    BY DEF RowsOK
  <2>3. LET w == Start(<< [call |-> "mint"], LinkCall(n, k, 0) >>, <<>>)
        IN  JobOK(w) /\ w.seen = None
    BY <1>0, <2>2, MintIsOK, StartOK
  <2>. QED
    BY <2>1, <2>3 DEF Ask
<1>11. CASE Reject(t)
  <2>. DEFINE c(i) == [call |-> "reject", pid |-> i]
  <2>1. PICK i \in DOMAIN proposal : Ask(t, << c(i) >>)
    BY <1>11 DEF Reject
  <2>2. c(i) \in Calls /\ c(i).call = "reject" /\ c(i).pid = i
    BY DEF Calls, RowsOK
  <2>. HIDE DEF c
  <2>. QED
    BY <2>1, <2>2, AskSingle DEF NoteCalls
<1>12. CASE Approve(t)
  <2>1. PICK i \in DOMAIN proposal : \E p \in Payloads : Ask(t, Approval(p, i))
    BY <1>12 DEF Approve
  <2>2. PICK p \in Payloads : Ask(t, Approval(p, i))
    BY <2>1
  <2>3. JobOK(Start(Approval(p, i), <<>>)) /\ Start(Approval(p, i), <<>>).seen = None
    BY <1>0, ApprovalIsOK, StartOK
  <2>. QED
    BY <2>2, <2>3 DEF Ask
<1>13. CASE ApproveRoutine(t)
  <2>1. PICK ids \in [1 .. Cardinality(Routine) -> Routine] :
          AskFor(t, Start(Open(ids[1]), Tail(ids)))
    BY <1>13 DEF ApproveRoutine
  <2>2. Routine # {} /\ Routine \subseteq DOMAIN proposal /\ DOMAIN proposal \subseteq Nat
    BY <1>13 DEF ApproveRoutine, Routine, RowsOK
  <2>3. Cardinality(Routine) \in Nat \ {0}
    <3>1. DOMAIN proposal = 1 .. Len(proposal) /\ Len(proposal) \in Nat
      BY DEF RowsOK
    <3>2. IsFiniteSet(1 .. Len(proposal))
      BY <3>1, FS_Interval
    <3>3. IsFiniteSet(Routine)
      BY <2>2, <3>1, <3>2, FS_Subset
    <3>. QED
      BY <2>2, <3>3, FS_EmptySet, FS_CardinalityType
  <2>. DEFINE k == Cardinality(Routine)
  <2>4. ids \in [1 .. k -> Routine] /\ k \in Nat \ {0}
    BY <2>1, <2>3
  <2>. HIDE DEF k
  <2>5. ids \in Seq(Routine) /\ Len(ids) = k
    BY <2>4, SeqDef, LenProperties
  <2>6. ids # <<>> /\ Head(ids) = ids[1]
    BY <2>4, <2>5
  <2>7. ids \in Seq(Nat) /\ \A i \in DOMAIN ids : ids[i] \in DOMAIN proposal
    BY <2>2, <2>5, SeqMonotonic, ElementOfSeq
  <2>8. LET w == Start(Open(Head(ids)), Tail(ids)) IN JobOK(w) /\ w.seen = None
    BY <2>6, <2>7, OpenOK
  <2>. QED
    BY <2>1, <2>6, <2>8
<1>. QED
  BY <1>1, <1>2, <1>3, <1>4, <1>5, <1>6, <1>7, <1>8, <1>9, <1>10, <1>11, <1>12, <1>13 DEF Request

-----------------------------------------------------------------------------
(* What the transactions write *)

\* The call a job is at.
LEMMA CallIs ==
  ASSUME NEW t, JobOK(job[t]), NEW c, c = Call(t)
  PROVE  /\ c = job[t].calls[1] /\ c \in Calls
         /\ c.call \in NoteCalls => c.note \in Ids
         /\ c.call \in PidCalls => c.pid \in DOMAIN proposal
         /\ SeenOK(c, job[t].seen)
<1>1. /\ job[t].calls \in Seq(Calls) /\ job[t].calls # <<>> /\ Sound(job[t].calls)
  BY DEF JobOK, Sound
<1>2. c = job[t].calls[1] /\ c \in Calls /\ 1 \in DOMAIN job[t].calls
  BY <1>1, EmptySeq DEF Call
<1>. QED
  BY <1>1, <1>2 DEF JobOK, Sound, Checking, NoteCalls

RestSame == UNCHANGED <<area, proposal, tasks, draft, raced>>

LEMMA PutOK ==
  ASSUME RowsOK, InStep, NEW n \in Ids, NEW r \in Row, r.area # None => Born(r.area),
         note[n].entries \subseteq r.entries, note[n].links \subseteq r.links,
         r.part = note[n].part, PutNote(n, r), taxonomy' \subseteq Tags, RestSame
  PROVE  RowsOK' /\ InStep' /\ Grows
<1>1. /\ Len(note) \in Nat /\ Ids = 1 .. Len(note) /\ note \in Seq(Row) /\ DOMAIN note = Ids
  BY DEF RowsOK, Ids
<1>2. /\ note' = [note EXCEPT ![n] = r] /\ note' \in Seq(Row) /\ Len(note') = Len(note)
      /\ \A x \in Ids : note'[x] = IF x = n THEN r ELSE note[x]
  BY <1>1, ExceptSeq DEF PutNote
<1>3. Ids' = Ids
  BY <1>2 DEF Ids
<1>4. InStep'
  <2>1. DOMAIN index = Ids /\ index' = [x \in Ids |-> IF x = n THEN Indexed(r) ELSE index[x]]
    BY <1>1 DEF PutNote, Synced, InStep
  <2>2. \A x \in Ids : index'[x] = Indexed(note'[x])
    BY <1>2, <2>1 DEF InStep
  <2>. QED
    BY <1>3, <2>1, <2>2 DEF InStep
<1>5. Grows
  BY <1>1, <1>2, <1>3 DEF Grows, RestSame, Born
<1>6. RowsOK'
  BY <1>1, <1>2, <1>3 DEF RowsOK, RestSame, Born
<1>. QED
  BY <1>4, <1>5, <1>6

LEMMA RegisteredOK ==
  ASSUME RowsOK, NEW g \in SUBSET Tags
  PROVE  Registered(g) \subseteq Tags
  BY DEF Registered, RowsOK

LEMMA NamedTags ==
  ASSUME NEW f \in Fields
  PROVE  Named(f, "tags", {}) \in SUBSET Tags
  BY FieldTypes DEF Named, FieldTyped

LEMMA UpdateOK ==
  ASSUME RowsOK, InStep, NEW n \in Ids, NEW f \in Fields, AreaKnown(f),
         PutNote(n, Over(f, note[n])), taxonomy' = Registered(Named(f, "tags", {})), RestSame
  PROVE  RowsOK' /\ InStep' /\ Grows
<1>1. note[n] \in Row
  BY DEF RowsOK, Ids
<1>2. /\ Over(f, note[n]) \in Row /\ Over(f, note[n]).entries = note[n].entries
      /\ Over(f, note[n]).links = note[n].links /\ Over(f, note[n]).part = note[n].part
      /\ Over(f, note[n]).area = Named(f, "area", note[n].area)
  BY <1>1, FieldTypes, OverRow
<1>3. Over(f, note[n]).area # None => Born(Over(f, note[n]).area)
  <2>1. CASE "area" \in DOMAIN f
    BY <1>2, <2>1 DEF AreaKnown, Named
  <2>2. CASE "area" \notin DOMAIN f
    BY <1>2, <2>2 DEF Named, RowsOK
  <2>. QED
    BY <2>1, <2>2
<1>4. taxonomy' \subseteq Tags
  BY NamedTags, RegisteredOK
<1>. QED
  BY <1>2, <1>3, <1>4, PutOK

LEMMA EntryOK ==
  ASSUME RowsOK, InStep, NEW n \in Ids, NEW e \in Entries,
         PutNote(n, [note[n] EXCEPT !.entries = @ \union {e}]), taxonomy' = taxonomy, RestSame
  PROVE  RowsOK' /\ InStep' /\ Grows /\ n \in Ids' /\ e \in note'[n].entries
<1>. DEFINE r == [note[n] EXCEPT !.entries = @ \union {e}]
<1>1. note[n] \in Row
  BY DEF RowsOK, Ids
<1>2. /\ r \in Row /\ r.entries = note[n].entries \union {e} /\ r.links = note[n].links
      /\ r.part = note[n].part /\ r.area = note[n].area
  BY <1>1 DEF Row, Entries
<1>3. PutNote(n, r)
  OBVIOUS
<1>. HIDE DEF r
<1>4. RowsOK' /\ InStep' /\ Grows
  BY <1>2, <1>3, PutOK DEF RowsOK
<1>5. note'[n] = r
  BY <1>3 DEF PutNote, RowsOK, Ids
<1>. QED
  BY <1>2, <1>4, <1>5 DEF Grows

LEMMA TagsOK ==
  ASSUME RowsOK, InStep, NEW n \in Ids, NEW g \in SUBSET Tags, NEW h \in SUBSET Tags,
         PutNote(n, [note[n] EXCEPT !.tags = g]), taxonomy' = Registered(h), RestSame
  PROVE  RowsOK' /\ InStep' /\ Grows
<1>. DEFINE r == [note[n] EXCEPT !.tags = g]
<1>1. note[n] \in Row
  BY DEF RowsOK, Ids
<1>2. /\ r \in Row /\ r.entries = note[n].entries /\ r.links = note[n].links
      /\ r.part = note[n].part /\ r.area = note[n].area
  BY <1>1 DEF Row
<1>3. PutNote(n, r) /\ taxonomy' \subseteq Tags
  BY RegisteredOK
<1>. HIDE DEF r
<1>. QED
  BY <1>2, <1>3, PutOK DEF RowsOK

LEMMA LinkOK ==
  ASSUME RowsOK, InStep, NEW n \in Ids,
         NEW l \in [kind : {"note", "task", "schedule"}, id : Nat],
         note' = [note EXCEPT ![n].links = @ \union {l}],
         UNCHANGED <<index, taxonomy>>, RestSame
  PROVE  RowsOK' /\ InStep' /\ Grows /\ n \in Ids' /\ l \in note'[n].links
<1>. DEFINE r == [note[n] EXCEPT !.links = @ \union {l}]
<1>1. note[n] \in Row
  BY DEF RowsOK, Ids
<1>2. /\ r \in Row /\ r.entries = note[n].entries /\ r.links = note[n].links \union {l}
      /\ r.part = note[n].part /\ r.area = note[n].area
      /\ r.tags = note[n].tags /\ r.text = note[n].text
  BY <1>1 DEF Row
<1>3. note' = [note EXCEPT ![n] = r]
  OBVIOUS
<1>. HIDE DEF r
<1>4. /\ Len(note) \in Nat /\ Ids = 1 .. Len(note) /\ note \in Seq(Row) /\ DOMAIN note = Ids
  BY DEF RowsOK, Ids
<1>5. /\ note' \in Seq(Row) /\ Len(note') = Len(note)
      /\ \A x \in Ids : note'[x] = IF x = n THEN r ELSE note[x]
  <2>. DEFINE s == [note EXCEPT ![n] = r]
  <2>1. s \in Seq(Row) /\ Len(s) = Len(note) /\ \A x \in Ids : s[x] = IF x = n THEN r ELSE note[x]
    BY <1>2, <1>4, ExceptSeq
  <2>. HIDE DEF s
  <2>2. note' = s
    BY <1>3 DEF s
  <2>. QED
    BY <2>1, <2>2
<1>6. Ids' = Ids
  BY <1>5 DEF Ids
<1>7. InStep'
  <2>1. \A x \in Ids : Indexed(note'[x]) = Indexed(note[x])
    BY <1>2, <1>5 DEF Indexed
  <2>. QED
    BY <1>6, <2>1 DEF InStep
<1>8. Grows
  BY <1>2, <1>4, <1>5, <1>6 DEF Grows, RestSame, Born
<1>9. RowsOK'
  BY <1>2, <1>4, <1>5, <1>6 DEF RowsOK, RestSame, Born
<1>. QED
  BY <1>2, <1>5, <1>6, <1>7, <1>8, <1>9

LEMMA CreateOK ==
  ASSUME RowsOK, InStep, NEW r \in Row, r.area # None => Born(r.area),
         note' = Append(note, r), index' = Synced(Len(note) + 1, r),
         taxonomy' = Registered(r.tags), RestSame
  PROVE  /\ RowsOK' /\ InStep' /\ Grows
         /\ Len(note) + 1 \in Ids' \ Ids /\ note'[Len(note) + 1] = r
<1>1. /\ Len(note) \in Nat /\ Ids = 1 .. Len(note) /\ note \in Seq(Row) /\ DOMAIN note = Ids
  BY DEF RowsOK, Ids
<1>2. /\ note' \in Seq(Row) /\ Len(note') = Len(note) + 1
      /\ \A x \in 1 .. Len(note) + 1 : note'[x] = IF x = Len(note) + 1 THEN r ELSE note[x]
  BY <1>1
<1>3. Ids' = 1 .. Len(note) + 1 /\ Ids' = Ids \union {Len(note) + 1}
  BY <1>1, <1>2 DEF Ids
<1>4. InStep'
  <2>1. /\ DOMAIN index = Ids
        /\ index' = [x \in Ids' |-> IF x = Len(note) + 1 THEN Indexed(r) ELSE index[x]]
    BY <1>1, <1>3 DEF Synced, InStep
  <2>2. \A x \in Ids' : index'[x] = Indexed(note'[x])
    BY <1>1, <1>2, <1>3, <2>1 DEF InStep
  <2>. QED
    BY <2>1, <2>2 DEF InStep
<1>5. Grows
  BY <1>1, <1>2, <1>3 DEF Grows, RestSame, Born
<1>6. r.tags \in SUBSET Tags
  BY DEF Row
<1>7. taxonomy' \subseteq Tags
  BY <1>6, RegisteredOK
<1>8. RowsOK'
  BY <1>1, <1>2, <1>3, <1>7 DEF RowsOK, RestSame, Born
<1>. QED
  BY <1>1, <1>2, <1>3, <1>4, <1>5, <1>8

\* Every note that carried the tag is rewritten from the list that was read.
LEMMA RetagOK ==
  ASSUME RowsOK, InStep, NEW hit, NEW sw, \A n \in Ids : n \in hit => sw[n] \in SUBSET Tags,
         note' = [n \in Ids |-> note'[n]], index' = [n \in Ids |-> index'[n]],
         \A n \in Ids :
           /\ n \in hit => /\ note'[n] = [note[n] EXCEPT !.tags = sw[n]]
                           /\ index'[n] = Indexed([note[n] EXCEPT !.tags = sw[n]])
           /\ n \notin hit => note'[n] = note[n] /\ index'[n] = index[n],
         taxonomy' \subseteq Tags, RestSame
  PROVE  /\ RowsOK' /\ InStep' /\ Grows /\ Ids' = Ids
         /\ \A n \in Ids : /\ note'[n].status = note[n].status
                           /\ Homed(note[n]) => Homed(note'[n])
                           /\ note'[n].tags = IF n \in hit THEN sw[n] ELSE note[n].tags
<1>. DEFINE new(n) == [note[n] EXCEPT !.tags = sw[n]]
            r(n) == IF n \in hit THEN new(n) ELSE note[n]
<1>1. /\ Len(note) \in Nat /\ Ids = 1 .. Len(note) /\ note \in Seq(Row) /\ DOMAIN note = Ids
  BY DEF RowsOK, Ids
<1>2. \A n \in Ids : note[n] \in Row
  BY <1>1
<1>3. \A n \in Ids :
        /\ r(n) \in Row /\ r(n).entries = note[n].entries /\ r(n).links = note[n].links
        /\ r(n).part = note[n].part /\ r(n).area = note[n].area
        /\ r(n).status = note[n].status /\ r(n).project = note[n].project
        /\ r(n).tags = IF n \in hit THEN sw[n] ELSE note[n].tags
  <2>. TAKE n \in Ids
  <2>1. CASE n \in hit
    <3>1. note[n] \in Row /\ sw[n] \in SUBSET Tags
      BY <1>2, <2>1
    <3>. QED
      BY <2>1, <3>1 DEF Row
  <2>2. CASE n \notin hit
    BY <1>2, <2>2
  <2>. QED
    BY <2>1, <2>2
<1>4. \A n \in Ids : note'[n] = r(n)
  OBVIOUS
<1>5. \A n \in Ids : index'[n] = IF n \in hit THEN Indexed(new(n)) ELSE index[n]
  OBVIOUS
<1>. HIDE DEF r
<1>6. note' \in [1 .. Len(note) -> Row]
  BY <1>1, <1>3, <1>4
<1>7. note' \in Seq(Row) /\ Len(note') = Len(note)
  BY <1>1, <1>6, SeqDef, LenProperties
<1>8. Ids' = Ids /\ \A n \in Ids : note'[n] = r(n)
  BY <1>4, <1>7 DEF Ids
<1>9. InStep'
  <2>1. \A n \in Ids : index'[n] = Indexed(r(n))
    BY <1>5 DEF InStep, r
  <2>2. DOMAIN index' = Ids /\ index' = [n \in Ids |-> index'[n]]
    OBVIOUS
  <2>. QED
    BY <1>8, <2>1, <2>2 DEF InStep
<1>10. Grows
  BY <1>1, <1>3, <1>7, <1>8 DEF Grows, RestSame, Born
<1>11. RowsOK'
  BY <1>1, <1>3, <1>7, <1>8 DEF RowsOK, RestSame, Born
<1>. QED
  BY <1>3, <1>8, <1>9, <1>10, <1>11 DEF Homed

\* Areas are born and never vanish.
LEMMA AreaOK ==
  ASSUME RowsOK, InStep, NEW a \in Areas, NEW x \in AreaRow,
         area' = [area EXCEPT ![a] = x],
         UNCHANGED <<library, proposal, tasks, draft, raced>>
  PROVE  RowsOK' /\ InStep' /\ Grows /\ area'[a] = x /\ x # None
<1>1. x # None
  BY LibraryAssumption
<1>2. Ids' = Ids
  BY DEF Ids, library
<1>3. \A b \in Areas : area'[b] = IF b = a THEN x ELSE area[b]
  BY DEF RowsOK
<1>4. \A b \in Areas : Born(b) => Born(b)'
  BY <1>1, <1>3 DEF Born
<1>5. Len(note) \in Nat
  BY DEF RowsOK
<1>6. Grows
  BY <1>2, <1>4, <1>5 DEF Grows, library
<1>7. \A n \in Ids : note[n] \in Row
  BY DEF RowsOK, Ids
<1>8. \A n \in Ids : note[n].area # None => area'[note[n].area] # None
  <2>1. \A n \in Ids : note[n].area # None => note[n].area \in Areas
    BY <1>7 DEF Row
  <2>2. \A n \in Ids : note[n].area # None => area[note[n].area] # None
    BY DEF RowsOK, Born
  <2>. QED
    BY <1>1, <1>3, <2>1, <2>2
<1>9. RowsOK'
  BY <1>2, <1>3, <1>8 DEF RowsOK, library, Born
<1>10. InStep'
  BY <1>2 DEF InStep, library
<1>. QED
  BY <1>1, <1>3, <1>6, <1>9, <1>10

\* What changes no note and no area.
LEMMA ShelfOK ==
  ASSUME RowsOK, InStep, UNCHANGED <<note, index, area, proposal, draft, raced>>,
         taxonomy' \subseteq Tags, tasks' \in Nat
  PROVE  RowsOK' /\ InStep' /\ Grows
<1>1. Ids' = Ids
  BY DEF Ids
<1>. QED
  BY <1>1 DEF RowsOK, InStep, Grows, Born

LEMMA DecisionOK ==
  ASSUME RowsOK, InStep, NEW i \in DOMAIN proposal, NEW p \in Payloads,
         NEW s \in PROPOSAL_STATUSES,
         proposal' = [proposal EXCEPT ![i].status = s, ![i].payload = p],
         UNCHANGED <<library, area, tasks, draft, raced>>
  PROVE  /\ RowsOK' /\ InStep' /\ Grows
         /\ DOMAIN proposal' = DOMAIN proposal
         /\ proposal'[i].status = s /\ proposal'[i].payload = p
         /\ \A k \in DOMAIN proposal : k # i => proposal'[k] = proposal[k]
<1>. DEFINE q == [proposal[i] EXCEPT !.status = s, !.payload = p]
            P == [proposal EXCEPT ![i] = q]
<1>1. /\ proposal \in Seq(ProposalRow) /\ proposal[i] \in ProposalRow
      /\ DOMAIN proposal = 1 .. Len(proposal) /\ Len(proposal) \in Nat
  BY DEF RowsOK
<1>2. /\ q \in ProposalRow /\ q.note = proposal[i].note /\ q.status = s /\ q.payload = p
  BY <1>1 DEF ProposalRow
<1>3. proposal' = P
  BY <1>1
<1>. HIDE DEF q
<1>4. P \in Seq(ProposalRow) /\ Len(P) = Len(proposal)
      /\ \A k \in 1 .. Len(proposal) : P[k] = IF k = i THEN q ELSE proposal[k]
  BY <1>1, <1>2, ExceptSeq
<1>. HIDE DEF P
<1>5. DOMAIN proposal' = DOMAIN proposal
  BY <1>1, <1>3, <1>4
<1>6. Ids' = Ids
  BY DEF Ids, library
<1>7. \A k \in DOMAIN proposal : proposal'[k].note = proposal[k].note
  BY <1>1, <1>2, <1>3, <1>4
<1>8. Grows
  BY <1>5, <1>6, <1>7 DEF Grows, library, Born, RowsOK
<1>9. RowsOK'
  BY <1>3, <1>4, <1>5, <1>6, <1>7 DEF RowsOK, library, Born
<1>10. InStep'
  BY <1>6 DEF InStep, library
<1>. QED
  BY <1>1, <1>2, <1>3, <1>4, <1>5, <1>8, <1>9, <1>10

-----------------------------------------------------------------------------
(* From one state to the next *)

\* The other tabs' jobs stay what they were.
LEMMA JobSet ==
  ASSUME RowsOK, JobsOK, Grows, NEW t \in Tabs, NEW x, x # None => JobOK(x)',
         job' = [job EXCEPT ![t] = x]
  PROVE  JobsOK'
<1>1. /\ job = [u \in Tabs |-> job[u]]
      /\ \A u \in Tabs : \A j \in {job[u]} : j # None => JobOK(j)
  BY DEF JobsOK
<1>. HIDE DEF JobsOK
<1>2. /\ job' = [u \in Tabs |-> job'[u]]
      /\ \A u \in Tabs : job'[u] = IF u = t THEN x ELSE job[u]
  BY <1>1
<1>3. ASSUME NEW u \in Tabs, NEW j, j = job'[u], j # None
      PROVE  JobOK(j)'
  <2>1. CASE u = t
    BY <1>2, <1>3, <2>1
  <2>2. CASE u # t
    <3>1. j = job[u]
      BY <1>2, <1>3, <2>2
    <3>2. JobOK(j)
      BY <1>1, <1>3, <3>1
    <3>. QED
      BY <3>2, JobStays
  <2>. QED
    BY <2>1, <2>2
<1>. QED
  BY <1>2, <1>3 DEF JobsOK

LEMMA JobsStay ==
  ASSUME RowsOK, JobsOK, Grows, UNCHANGED job
  PROVE  JobsOK'
<1>1. /\ job = [u \in Tabs |-> job[u]]
      /\ \A u \in Tabs : \A j \in {job[u]} : j # None => JobOK(j)
  BY DEF JobsOK
<1>2. ASSUME NEW u \in Tabs, NEW j, j = job'[u], j # None
      PROVE  JobOK(j)'
  <2>1. JobOK(j)
    BY <1>1, <1>2
  <2>. QED
    BY <2>1, JobStays
<1>. QED
  BY <1>1, <1>2 DEF JobsOK

\* Tab t goes on, looking afresh, or ends its request.
Turned(t) == \E x : job' = [job EXCEPT ![t] = x] /\ (x # None => x.seen = None)

LEMMA NextTurn ==
  ASSUME RowsOK, JobsOK, Grows, NEW t \in Tabs, JobOK(job[t]),
         job' = [job EXCEPT ![t] = NextJob(t)]
  PROVE  JobsOK' /\ Turned(t)
<1>1. PICK x : x = NextJob(t)
  OBVIOUS
<1>2. x # None => JobOK(x)'
  BY <1>1, NextOK
<1>3. x # None => x.seen = None
  BY <1>1 DEF NextJob, Start
<1>4. job' = [job EXCEPT ![t] = x]
  BY <1>1
<1>. QED
  BY <1>2, <1>3, <1>4, JobSet DEF Turned

LEMMA MovedTurn ==
  ASSUME RowsOK, JobsOK, Grows, NEW t \in Tabs, JobOK(job[t]), NEW m \in Nat,
         job' = [job EXCEPT ![t] = Moved(t, m)],
         IF Checking(job[t].calls) THEN Guests(job[t].calls[1].payload) \subseteq Ids
                                   ELSE HeadDone(job[t].calls[1])
  PROVE  JobsOK' /\ Turned(t)
<1>1. PICK x : x = Moved(t, m)
  OBVIOUS
<1>2. x # None => JobOK(x)'
  BY <1>1, MovedOK
<1>3. x # None => x.seen = None
  BY <1>1 DEF Moved, NextJob, Start, JobOK
<1>4. job' = [job EXCEPT ![t] = x]
  BY <1>1
<1>. QED
  BY <1>2, <1>3, <1>4, JobSet DEF Turned

\* What was said of a decided proposal stays true.
LEMMA KeptStays ==
  ASSUME Grows, NEW p \in Payloads, NEW pid, NEW n \in Ids, Kept(p, pid, n)
  PROVE  Kept(p, pid, n)'
<1>1. p.kind = "split" => Len(p.parts) \in Nat
  BY LibraryAssumption DEF PayloadOK
<1>2. p.kind = "append_entry" =>
        p.target \in Ids /\ \E e \in note[p.target].entries : e.from = n
  BY DEF Kept, Guests, Rescued
<1>3. p.kind = "split" => Cardinality(PartsOf(pid)) >= Len(p.parts)
  BY DEF Kept, Rescued, PartsOf
<1>4. p.kind = "append_entry" => \E e \in note'[p.target].entries : e.from = n
  BY <1>2 DEF Grows
<1>5. p.kind = "split" => Cardinality(PartsOf(pid)') >= Len(p.parts)
  BY <1>1, <1>3, PartsGrow
<1>6. Rescued(p, pid, n)'
  BY <1>4, <1>5 DEF Rescued, PartsOf
<1>7. Guests(p) \subseteq Ids'
  BY DEF Kept, Grows
<1>8. p.kind = "contradiction" =>
        /\ [kind |-> "note", id |-> p.other] \in note'[n].links
        /\ [kind |-> "note", id |-> n] \in note'[p.other].links
  BY DEF Kept, Guests, Grows
<1>9. p.kind = "new_task" => \E l \in note'[n].links : l.kind = "task"
  BY DEF Kept, Grows
<1>10. (p.kind = "file" /\ p.new_area # None) => Born(p.new_area.name)'
  <2>1. (p.kind = "file" /\ p.new_area # None) => p.new_area.name \in Areas
    BY LibraryAssumption DEF PayloadOK
  <2>. QED
    BY <2>1 DEF Kept, Grows
<1>. QED
  BY <1>6, <1>7, <1>8, <1>9, <1>10 DEF Kept

LEMMA ToldStays ==
  ASSUME RowsOK, Told, Grows,
         \A i \in DOMAIN proposal' : proposal'[i].status = "approved" =>
           \A p \in {proposal'[i].payload} : \A n \in {proposal'[i].note} :
             p \in Payloads /\ n \in Ids /\ Kept(p, i, n)
  PROVE  Told'
<1>. SUFFICES ASSUME NEW i \in DOMAIN proposal', NEW p, p = proposal'[i].payload,
                     NEW n, n = proposal'[i].note, proposal'[i].status = "approved"
              PROVE  Kept(p, i, n)'
  BY DEF Told
<1>. QED
  BY KeptStays

LEMMA ToldSame ==
  ASSUME RowsOK, Told, Grows, UNCHANGED proposal
  PROVE  Told'
<1>1. \A i \in DOMAIN proposal : proposal[i].payload \in Payloads /\ proposal[i].note \in Ids
  <2>1. \A i \in DOMAIN proposal : proposal[i] \in ProposalRow /\ proposal[i].note \in Ids
    BY DEF RowsOK
  <2>. QED
    BY <2>1 DEF ProposalRow
<1>2. ASSUME NEW i \in DOMAIN proposal', proposal'[i].status = "approved",
             NEW p, p = proposal'[i].payload, NEW n, n = proposal'[i].note
      PROVE  p \in Payloads /\ n \in Ids /\ Kept(p, i, n)
  BY <1>1, <1>2 DEF Told
<1>. QED
  BY <1>2, ToldStays

-----------------------------------------------------------------------------
(* Tidiness *)

LEMMA AreasSame ==
  ASSUME Tidy, UNCHANGED area
  PROVE  TwoLevels' /\ Rooted'
  BY DEF Tidy, TwoLevels, Rooted, Born

LEMMA TidyPut ==
  ASSUME RowsOK, Tidy, NEW n \in Ids, NEW r \in Row, note' = [note EXCEPT ![n] = r],
         UNCHANGED area, taxonomy \subseteq taxonomy', r.tags \subseteq taxonomy',
         r.status = "active" => Homed(r)
  PROVE  Tidy'
<1>1. /\ Len(note) \in Nat /\ Ids = 1 .. Len(note) /\ note \in Seq(Row) /\ DOMAIN note = Ids
  BY DEF RowsOK, Ids
<1>. DEFINE s == [note EXCEPT ![n] = r]
<1>2. Len(s) = Len(note) /\ \A x \in Ids : s[x] = IF x = n THEN r ELSE note[x]
  BY <1>1, ExceptSeq
<1>. HIDE DEF s
<1>3. Len(note') = Len(note) /\ \A x \in Ids : note'[x] = IF x = n THEN r ELSE note[x]
  BY <1>2 DEF s
<1>4. Ids' = Ids
  BY <1>3 DEF Ids
<1>5. ActiveHomed'
  BY <1>3, <1>4 DEF Tidy, ActiveHomed, Homed
<1>6. TagsKnown'
  BY <1>3, <1>4 DEF Tidy, TagsKnown
<1>. QED
  BY <1>5, <1>6, AreasSame DEF Tidy

LEMMA TidyShelf ==
  ASSUME Tidy, UNCHANGED <<note, area>>, taxonomy \subseteq taxonomy'
  PROVE  Tidy'
<1>1. Ids' = Ids
  BY DEF Ids
<1>. QED
  BY <1>1, AreasSame DEF Tidy, ActiveHomed, TagsKnown, Homed

-----------------------------------------------------------------------------
(* Each call *)

Sane == RowsOK /\ InStep /\ JobsOK /\ Told

LEMMA GiveUpKeeps ==
  ASSUME Sane, NEW t \in Tabs, JobOK(job[t]), GiveUp(t), UNCHANGED <<draft, raced>>
  PROVE  Sane' /\ Turned(t) /\ (Tidy => Tidy')
<1>1. /\ UNCHANGED <<note, index, taxonomy, area, proposal, tasks>>
      /\ job' = [job EXCEPT ![t] = NextJob(t)]
  BY DEF GiveUp, library
<1>2. RowsOK /\ InStep /\ JobsOK /\ Told
  BY DEF Sane
<1>3. tasks \in Nat /\ taxonomy \subseteq Tags
  BY <1>2 DEF RowsOK
<1>4. RowsOK' /\ InStep' /\ Grows
  BY <1>1, <1>2, <1>3, ShelfOK
<1>5. JobsOK' /\ Turned(t)
  BY <1>1, <1>2, <1>4, NextTurn
<1>6. Told'
  BY <1>1, <1>2, <1>4, ToldSame
<1>7. Tidy => Tidy'
  BY <1>1, TidyShelf
<1>. QED
  BY <1>4, <1>5, <1>6, <1>7 DEF Sane

\* A call that wrote what it should and leaves the rest of its job.
LEMMA DoneKeeps ==
  ASSUME Sane, NEW t \in Tabs, JobOK(job[t]), NEW m \in Nat,
         job' = [job EXCEPT ![t] = Moved(t, m)],
         RowsOK', InStep', Grows, UNCHANGED proposal,
         IF Checking(job[t].calls) THEN Guests(job[t].calls[1].payload) \subseteq Ids
                                   ELSE HeadDone(job[t].calls[1])
  PROVE  Sane' /\ Turned(t)
<1>1. RowsOK /\ InStep /\ JobsOK /\ Told
  BY DEF Sane
<1>2. JobsOK' /\ Turned(t)
  BY <1>1, MovedTurn
<1>3. Told'
  BY <1>1, ToldSame
<1>. QED
  BY <1>2, <1>3 DEF Sane

\* What a write leaves to others.
Held == UNCHANGED <<draft, requests, crashes, raced>>

LEMMA UpdateKeeps ==
  ASSUME Sane, NEW t \in Tabs, JobOK(job[t]), NEW c, c = Call(t), c.call = "update",
         WriteUpdate(t, c), Held
  PROVE  /\ Sane' /\ Turned(t)
         /\ Tidy /\ job[t].seen = Found(c) => Tidy'
<1>1. /\ c = job[t].calls[1] /\ c \in Calls /\ c.note \in Ids
  BY CallIs DEF NoteCalls
<1>2. c.fields \in Fields /\ FieldTyped(c.fields)
  BY <1>1, CallTypes, FieldTypes
<1>3. RowsOK /\ InStep /\ JobsOK /\ Told /\ job[t].made \in Nat
  BY DEF Sane, JobOK
<1>4. UNCHANGED <<draft, raced>>
  BY DEF Held
<1>5. CASE ~ (HomeRule(c.fields, job[t].seen) /\ AreaKnown(c.fields))
  BY <1>4, <1>5, GiveUpKeeps DEF WriteUpdate
<1>6. CASE HomeRule(c.fields, job[t].seen) /\ AreaKnown(c.fields)
  <2>0. PICK n, f, r : n = c.note /\ f = c.fields /\ r = Over(f, note[n])
    OBVIOUS
  <2>1. /\ PutNote(n, r) /\ taxonomy' = Registered(Named(f, "tags", {}))
        /\ Done(t) /\ UNCHANGED <<area, proposal, tasks>>
    BY <1>6, <2>0 DEF WriteUpdate
  <2>2. RestSame
    BY <1>4, <2>1 DEF RestSame
  <2>3. RowsOK' /\ InStep' /\ Grows
    BY <1>1, <1>2, <1>3, <1>6, <2>0, <2>1, <2>2, UpdateOK
  <2>4. ~ Checking(job[t].calls) /\ HeadDone(c)
    BY <1>1 DEF Checking, HeadDone
  <2>5. Sane' /\ Turned(t)
    <3>1. job' = [job EXCEPT ![t] = Moved(t, job[t].made)]
      BY <2>1 DEF Done
    <3>2. ~ Checking(job[t].calls) /\ HeadDone(job[t].calls[1])
      BY <1>1, <2>4
    <3>3. UNCHANGED proposal
      BY <2>1
    <3>. QED
      BY <1>3, <2>3, <3>1, <3>2, <3>3, DoneKeeps
  <2>6. ASSUME Tidy, job[t].seen = Found(c) PROVE Tidy'
    <3>1. job[t].seen = note[n]
      BY <2>0, <2>6 DEF Found
    <3>2. note[n] \in Row
      BY <1>1, <1>3, <2>0 DEF RowsOK, Ids
    <3>3. /\ r \in Row /\ r.tags = Named(f, "tags", note[n].tags)
          /\ r.status = Named(f, "status", note[n].status)
          /\ r.area = Named(f, "area", note[n].area)
          /\ r.project = Named(f, "project", note[n].project)
      BY <1>2, <2>0, <3>2, OverRow
    <3>4. taxonomy \subseteq taxonomy' /\ r.tags \subseteq taxonomy'
      <4>1. note[n].tags \subseteq taxonomy
        BY <1>1, <2>0, <2>6 DEF Tidy, TagsKnown
      <4>2. taxonomy' = taxonomy \union Named(f, "tags", {})
        BY <2>1 DEF Registered
      <4>. QED
        BY <3>3, <4>1, <4>2 DEF Named
    <3>5. r.status = "active" => Homed(r)
      <4>1. CASE {"status", "area", "project"} \intersect DOMAIN f # {}
        BY <1>6, <2>0, <3>1, <4>1 DEF HomeRule, EndsUp
      <4>2. CASE {"status", "area", "project"} \intersect DOMAIN f = {}
        <5>1. r.status = note[n].status /\ r.area = note[n].area /\ r.project = note[n].project
          BY <3>3, <4>2 DEF Named
        <5>2. note[n].status = "active" => Homed(note[n])
          BY <1>1, <2>0, <2>6 DEF Tidy, ActiveHomed
        <5>. QED
          BY <5>1, <5>2 DEF Homed
      <4>. QED
        BY <4>1, <4>2
    <3>6. note' = [note EXCEPT ![n] = r]
      BY <2>1 DEF PutNote
    <3>. QED
      <4>1. n \in Ids /\ r \in Row /\ UNCHANGED area
        BY <1>1, <2>0, <2>1, <3>3
      <4>. QED
        BY <1>3, <2>6, <3>4, <3>5, <3>6, <4>1, TidyPut
  <2>. QED
    BY <2>5, <2>6
<1>. QED
  BY <1>5, <1>6

LEMMA CreateKeeps ==
  ASSUME Sane, NEW t \in Tabs, JobOK(job[t]), NEW c, c = Call(t), c.call = "create",
         WriteCreate(t, c), Held
  PROVE  Sane' /\ Turned(t) /\ (Tidy => Tidy')
<1>. DEFINE o == Over(c.fields, BlankRow)
            r == [o EXCEPT !.part = c.part]
<1>1. c = job[t].calls[1] /\ c \in Calls
  BY CallIs
<1>2. c.fields \in Fields /\ FieldTyped(c.fields) /\ c.part \in Nat
  BY <1>1, CallTypes, FieldTypes
<1>3. RowsOK /\ InStep /\ JobsOK /\ Told /\ job[t].made \in Nat
  BY DEF Sane, JobOK
<1>4. UNCHANGED <<draft, raced>>
  BY DEF Held
<1>5. CASE ~ ((r.status = "active" => Homed(r)) /\ AreaKnown(c.fields))
  <2>1. GiveUp(t)
    BY <1>5 DEF WriteCreate
  <2>. QED
    BY <1>4, <2>1, GiveUpKeeps
<1>6. CASE (r.status = "active" => Homed(r)) /\ AreaKnown(c.fields)
  <2>1. /\ note' = Append(note, r) /\ index' = Synced(Len(note) + 1, r)
        /\ taxonomy' = Registered(r.tags) /\ Done(t) /\ UNCHANGED <<area, proposal, tasks>>
    BY <1>6 DEF WriteCreate
  <2>2. RestSame
    BY <1>4, <2>1 DEF RestSame
  <2>3. o \in Row /\ o.area = Named(c.fields, "area", BlankRow.area)
    BY <1>2, BlankType, OverRow
  <2>4. BlankRow.area = None
    BY DEF BlankRow
  <2>5. r \in Row /\ r.part = c.part /\ r.area = o.area
    <3>. HIDE DEF o
    <3>. QED
      BY <1>2, <2>3 DEF Row
  <2>6. r.area # None => Born(r.area)
    BY <1>6, <2>3, <2>4, <2>5 DEF AreaKnown, Named
  <2>. HIDE DEF r
  <2>7. /\ RowsOK' /\ InStep' /\ Grows
        /\ Len(note) + 1 \in Ids' \ Ids /\ note'[Len(note) + 1] = r
    BY <1>3, <2>1, <2>2, <2>5, <2>6, CreateOK
  <2>8. ~ Checking(job[t].calls) /\ HeadDone(c)
    BY <1>1, <2>5, <2>7 DEF Checking, HeadDone
  <2>9. Sane' /\ Turned(t)
    BY <1>1, <1>3, <2>1, <2>7, <2>8, DoneKeeps DEF Done
  <2>10. ASSUME Tidy PROVE Tidy'
    <3>1. /\ Len(note) \in Nat /\ Ids = 1 .. Len(note) /\ note \in Seq(Row)
      BY <1>3 DEF RowsOK, Ids
    <3>2. /\ Ids' = Ids \union {Len(note) + 1} /\ \A x \in Ids : note'[x] = note[x]
      BY <2>1, <2>5, <3>1 DEF Ids
    <3>3. taxonomy \subseteq taxonomy' /\ r.tags \subseteq taxonomy'
      BY <2>1 DEF Registered
    <3>4. ActiveHomed'
      BY <1>6, <2>7, <2>10, <3>2 DEF Tidy, ActiveHomed, Homed, r
    <3>5. TagsKnown'
      BY <2>7, <2>10, <3>2, <3>3 DEF Tidy, TagsKnown
    <3>. QED
      BY <2>1, <2>10, <3>4, <3>5, AreasSame DEF Tidy
  <2>. QED
    BY <2>9, <2>10
<1>. QED
  BY <1>5, <1>6

LEMMA EntryKeeps ==
  ASSUME Sane, NEW t \in Tabs, JobOK(job[t]), NEW c, c = Call(t), c.call = "entry",
         WriteEntry(t, c), Held
  PROVE  Sane' /\ Turned(t) /\ (Tidy => Tidy')
<1>1. c = job[t].calls[1] /\ c \in Calls /\ c.note \in Ids /\ c.entry \in Entries
  BY CallIs, CallTypes DEF NoteCalls
<1>2. RowsOK /\ InStep /\ JobsOK /\ Told /\ job[t].made \in Nat
  BY DEF Sane, JobOK
<1>3. PICK n, e, r : n = c.note /\ e = c.entry /\ r = [note[n] EXCEPT !.entries = @ \union {e}]
  OBVIOUS
<1>4. /\ PutNote(n, r) /\ Done(t) /\ taxonomy' = taxonomy
      /\ UNCHANGED <<area, proposal, tasks>>
  BY <1>3 DEF WriteEntry
<1>5. RestSame
  BY <1>4 DEF Held, RestSame
<1>6. PutNote(n, [note[n] EXCEPT !.entries = @ \union {e}])
  BY <1>3, <1>4
<1>7. RowsOK' /\ InStep' /\ Grows /\ n \in Ids' /\ e \in note'[n].entries
  BY <1>1, <1>2, <1>3, <1>4, <1>5, <1>6, EntryOK
<1>8. ~ Checking(job[t].calls) /\ HeadDone(job[t].calls[1])
  BY <1>1, <1>3, <1>7 DEF Checking, HeadDone
<1>9. job' = [job EXCEPT ![t] = Moved(t, job[t].made)] /\ UNCHANGED proposal
  BY <1>4 DEF Done
<1>10. Sane' /\ Turned(t)
  BY <1>2, <1>7, <1>8, <1>9, DoneKeeps
<1>11. ASSUME Tidy PROVE Tidy'
  <2>1. n \in Ids /\ note[n] \in Row
    BY <1>1, <1>2, <1>3 DEF RowsOK, Ids
  <2>2. /\ r \in Row /\ r.status = note[n].status /\ r.area = note[n].area
        /\ r.project = note[n].project /\ r.tags = note[n].tags
    BY <1>1, <1>3, <2>1 DEF Row, Entries
  <2>3. r.tags \subseteq taxonomy' /\ (r.status = "active" => Homed(r))
    BY <1>4, <1>11, <2>1, <2>2 DEF Tidy, TagsKnown, ActiveHomed, Homed
  <2>4. note' = [note EXCEPT ![n] = r]
    BY <1>4 DEF PutNote
  <2>. QED
    BY <1>2, <1>4, <1>11, <2>1, <2>2, <2>3, <2>4, TidyPut
<1>. QED
  BY <1>10, <1>11

LEMMA LinkKeeps ==
  ASSUME Sane, NEW t \in Tabs, JobOK(job[t]), NEW c, c = Call(t), c.call = "link",
         WriteLink(t, c), Held
  PROVE  Sane' /\ Turned(t) /\ (Tidy => Tidy')
<1>1. /\ c = job[t].calls[1] /\ c \in Calls /\ c.note \in Ids
      /\ c.kind \in {"note", "task", "schedule"} /\ c.id \in Nat
  BY CallIs, CallTypes DEF NoteCalls
<1>2. RowsOK /\ InStep /\ JobsOK /\ Told /\ job[t].made \in Nat
  BY DEF Sane, JobOK
<1>3. PICK n, l : /\ n = c.note
                  /\ l = [kind |-> c.kind, id |-> IF c.kind = "note" THEN c.id ELSE job[t].made]
  OBVIOUS
<1>4. n \in Ids /\ l \in [kind : {"note", "task", "schedule"}, id : Nat]
  BY <1>1, <1>2, <1>3
<1>5. /\ note' = [note EXCEPT ![n].links = @ \union {l}] /\ Done(t)
      /\ UNCHANGED <<index, taxonomy>> /\ UNCHANGED <<area, proposal, tasks>>
  BY <1>3 DEF WriteLink
<1>6. RestSame
  BY <1>5 DEF Held, RestSame
<1>7. RowsOK' /\ InStep' /\ Grows /\ n \in Ids' /\ l \in note'[n].links
  BY <1>2, <1>4, <1>5, <1>6, LinkOK
<1>8. ~ Checking(job[t].calls) /\ HeadDone(job[t].calls[1])
  <2>1. l.kind = c.kind /\ (c.kind = "note" => l = [kind |-> "note", id |-> c.id])
    BY <1>3
  <2>. QED
    BY <1>1, <1>3, <1>7, <2>1 DEF Checking, HeadDone
<1>9. job' = [job EXCEPT ![t] = Moved(t, job[t].made)] /\ UNCHANGED proposal
  BY <1>5 DEF Done
<1>10. Sane' /\ Turned(t)
  BY <1>2, <1>7, <1>8, <1>9, DoneKeeps
<1>11. ASSUME Tidy PROVE Tidy'
  <2>1. note[n] \in Row
    BY <1>2, <1>4 DEF RowsOK, Ids
  <2>2. PICK r : r = [note[n] EXCEPT !.links = @ \union {l}]
    OBVIOUS
  <2>3. /\ r \in Row /\ r.status = note[n].status /\ r.area = note[n].area
        /\ r.project = note[n].project /\ r.tags = note[n].tags
    BY <1>4, <2>1, <2>2 DEF Row
  <2>4. r.tags \subseteq taxonomy' /\ (r.status = "active" => Homed(r))
    BY <1>4, <1>5, <1>11, <2>1, <2>3 DEF Tidy, TagsKnown, ActiveHomed, Homed
  <2>5. note' = [note EXCEPT ![n] = r]
    BY <1>5, <2>2
  <2>. QED
    BY <1>2, <1>4, <1>5, <1>11, <2>3, <2>4, <2>5, TidyPut
<1>. QED
  BY <1>10, <1>11

LEMMA TagsKeep ==
  ASSUME Sane, NEW t \in Tabs, JobOK(job[t]), NEW c, c = Call(t), c.call = "addtags",
         job[t].seen # None, WriteTags(t, c), Held
  PROVE  /\ Sane' /\ Turned(t)
         /\ Tidy /\ job[t].seen = Found(c) => Tidy'
<1>1. c = job[t].calls[1] /\ c \in Calls /\ c.note \in Ids /\ c.tags \in SUBSET Tags
  BY CallIs, CallTypes DEF NoteCalls
<1>2. RowsOK /\ InStep /\ JobsOK /\ Told /\ job[t].made \in Nat
  BY DEF Sane, JobOK
<1>3. job[t].seen \in Row
  BY CallIs DEF SeenOK
<1>4. ~ Checking(job[t].calls) /\ HeadDone(job[t].calls[1])
  BY <1>1 DEF Checking, HeadDone
<1>5. /\ job' = [job EXCEPT ![t] = Moved(t, job[t].made)]
      /\ UNCHANGED <<area, proposal, tasks>> /\ RestSame
  BY DEF WriteTags, Done, Held, RestSame
<1>6. CASE c.tags \subseteq job[t].seen.tags
  <2>1. UNCHANGED <<note, index, taxonomy>>
    BY <1>6 DEF WriteTags, library
  <2>2. taxonomy' \subseteq Tags /\ tasks' \in Nat
    BY <1>2, <1>5, <2>1 DEF RowsOK
  <2>3. RowsOK' /\ InStep' /\ Grows
    BY <1>2, <1>5, <2>1, <2>2, ShelfOK DEF RestSame
  <2>4. Sane' /\ Turned(t)
    BY <1>2, <1>4, <1>5, <2>3, DoneKeeps
  <2>5. Tidy => Tidy'
    BY <1>5, <2>1, TidyShelf
  <2>. QED
    BY <2>4, <2>5
<1>7. CASE ~ (c.tags \subseteq job[t].seen.tags)
  <2>1. PICK n, g, h : n = c.note /\ g = job[t].seen.tags \union c.tags /\ h = c.tags
    OBVIOUS
  <2>2. PutNote(n, [note[n] EXCEPT !.tags = g]) /\ taxonomy' = Registered(h)
    BY <1>7, <2>1 DEF WriteTags
  <2>3. g \in SUBSET Tags /\ h \in SUBSET Tags /\ n \in Ids
    BY <1>1, <1>3, <2>1 DEF Row
  <2>4. RowsOK' /\ InStep' /\ Grows
    BY <1>2, <1>5, <2>2, <2>3, TagsOK
  <2>5. Sane' /\ Turned(t)
    BY <1>2, <1>4, <1>5, <2>4, DoneKeeps
  <2>6. ASSUME Tidy, job[t].seen = Found(c) PROVE Tidy'
    <3>1. job[t].seen = note[n] /\ note[n] \in Row
      BY <1>2, <2>1, <2>3, <2>6 DEF Found, RowsOK, Ids
    <3>2. PICK r : r = [note[n] EXCEPT !.tags = g]
      OBVIOUS
    <3>3. /\ r \in Row /\ r.status = note[n].status /\ r.area = note[n].area
          /\ r.project = note[n].project /\ r.tags = g
      BY <2>3, <3>1, <3>2 DEF Row
    <3>4. note[n].tags \subseteq taxonomy /\ g = note[n].tags \union h
      BY <2>1, <2>3, <2>6, <3>1 DEF Tidy, TagsKnown
    <3>5. r.tags \subseteq taxonomy' /\ taxonomy \subseteq taxonomy'
      BY <2>2, <3>3, <3>4 DEF Registered
    <3>6. r.status = "active" => Homed(r)
      BY <2>3, <2>6, <3>3 DEF Tidy, ActiveHomed, Homed
    <3>7. note' = [note EXCEPT ![n] = r]
      BY <2>2, <3>2 DEF PutNote
    <3>. QED
      BY <1>2, <1>5, <2>3, <2>6, <3>3, <3>5, <3>6, <3>7, TidyPut
  <2>. QED
    BY <2>5, <2>6
<1>. QED
  BY <1>6, <1>7

LEMMA RetagKeeps ==
  ASSUME Sane, NEW t \in Tabs, JobOK(job[t]), NEW c, c = Call(t), c.call = "retag",
         job[t].seen # None, WriteRetag(t, c), Held
  PROVE  /\ Sane' /\ Turned(t)
         /\ Tidy /\ job[t].seen = Found(c) => Tidy'
<1>1. c = job[t].calls[1] /\ c \in Calls /\ c.old \in Tags /\ c.new \in SUBSET Tags
  BY CallIs, CallTypes
<1>2. RowsOK /\ InStep /\ JobsOK /\ Told /\ job[t].made \in Nat
  BY DEF Sane, JobOK
<1>3. PICK seen : seen = job[t].seen
  OBVIOUS
<1>4. seen \in Seq(SUBSET Tags)
  BY <1>3, CallIs DEF SeenOK
<1>5. PICK hit, sw : /\ hit = {n \in DOMAIN seen : c.old \in seen[n]}
                     /\ sw = [n \in hit |-> Swapped(seen[n], c)]
  OBVIOUS
<1>6. \A n \in hit : sw[n] \in SUBSET Tags
  BY <1>1, <1>4, <1>5 DEF Swapped
<1>7. /\ note' = [n \in Ids |-> IF n \in hit THEN [note[n] EXCEPT !.tags = sw[n]] ELSE note[n]]
      /\ index' = [n \in Ids |-> IF n \in hit THEN Indexed([note[n] EXCEPT !.tags = sw[n]])
                                              ELSE index[n]]
      /\ taxonomy' = (taxonomy \ {c.old}) \union c.new
  BY <1>3, <1>5 DEF WriteRetag
<1>8. /\ job' = [job EXCEPT ![t] = Moved(t, job[t].made)]
      /\ UNCHANGED <<area, proposal, tasks>> /\ RestSame
  BY DEF WriteRetag, Done, Held, RestSame
<1>9. taxonomy' \subseteq Tags
  BY <1>1, <1>2, <1>7 DEF RowsOK
<1>10. /\ RowsOK' /\ InStep' /\ Grows /\ Ids' = Ids
       /\ \A n \in Ids : /\ note'[n].status = note[n].status
                         /\ Homed(note[n]) => Homed(note'[n])
                         /\ note'[n].tags = IF n \in hit THEN sw[n] ELSE note[n].tags
  <2>1. \A n \in Ids : n \in hit => sw[n] \in SUBSET Tags
    BY <1>6
  <2>2. note' = [n \in Ids |-> note'[n]] /\ index' = [n \in Ids |-> index'[n]]
    BY <1>7
  <2>3. \A n \in Ids :
          /\ n \in hit => /\ note'[n] = [note[n] EXCEPT !.tags = sw[n]]
                          /\ index'[n] = Indexed([note[n] EXCEPT !.tags = sw[n]])
          /\ n \notin hit => note'[n] = note[n] /\ index'[n] = index[n]
    BY <1>7
  <2>. QED
    BY <1>2, <1>8, <1>9, <2>1, <2>2, <2>3, RetagOK
<1>11. ~ Checking(job[t].calls) /\ HeadDone(job[t].calls[1])
  BY <1>1 DEF Checking, HeadDone
<1>12. Sane' /\ Turned(t)
  BY <1>2, <1>8, <1>10, <1>11, DoneKeeps
<1>13. ASSUME Tidy, job[t].seen = Found(c) PROVE Tidy'
  <2>1. seen = [n \in Ids |-> note[n].tags]
    BY <1>3, <1>13 DEF Found
  <2>2. \A n \in Ids : note[n].tags \subseteq taxonomy
    BY <1>13 DEF Tidy, TagsKnown
  <2>3. \A n \in Ids : note'[n].tags \subseteq taxonomy'
    <3>. TAKE n \in Ids
    <3>1. CASE n \in hit
      <4>1. note'[n].tags = Swapped(note[n].tags, c) /\ c.old \in note[n].tags
        BY <1>5, <1>10, <2>1, <3>1
      <4>2. note[n].tags \subseteq taxonomy
        BY <2>2
      <4>. QED
        BY <1>7, <4>1, <4>2 DEF Swapped
    <3>2. CASE n \notin hit
      BY <1>5, <1>7, <1>10, <2>1, <2>2, <3>2
    <3>. QED
      BY <3>1, <3>2
  <2>4. TagsKnown'
    BY <1>10, <2>3 DEF TagsKnown
  <2>5. ActiveHomed'
    BY <1>10, <1>13 DEF Tidy, ActiveHomed
  <2>. QED
    BY <1>8, <1>13, <2>4, <2>5, AreasSame DEF Tidy
<1>. QED
  BY <1>12, <1>13

LEMMA AreaKeeps ==
  ASSUME Sane, NEW t \in Tabs, JobOK(job[t]), NEW c, c = Call(t),
         c.call \in {"area", "retire", "nest"},
         job[t].seen # None, WriteArea(t, c), Held
  PROVE  /\ Sane' /\ Turned(t)
         /\ Tidy /\ (c.call # "retire" => job[t].seen = Found(c)) => Tidy'
<1>1. /\ c = job[t].calls[1] /\ c \in Calls /\ SeenOK(c, job[t].seen)
  BY CallIs
<1>2. /\ c.name \in Areas
      /\ c.call # "retire" => c.parent \in Areas \union {None}
      /\ c.call = "retire" => c.off \in BOOLEAN
  BY <1>1, CallTypes
<1>3. RowsOK /\ InStep /\ JobsOK /\ Told /\ job[t].made \in Nat
  BY DEF Sane, JobOK
<1>4. CASE c.call = "area" /\ Born(c.name)
  <2>1. GiveUp(t) /\ UNCHANGED <<draft, raced>>
    BY <1>4 DEF WriteArea, Held
  <2>. QED
    BY <2>1, GiveUpKeeps
<1>5. CASE ~ (c.call = "area" /\ Born(c.name))
  <2>1. PICK a, old, x :
          /\ a = c.name /\ old = area[a]
          /\ x = CASE c.call = "area"   -> [parent |-> c.parent, archived |-> FALSE]
                   [] c.call = "retire" -> [old EXCEPT !.archived = c.off]
                   [] c.call = "nest"   -> [old EXCEPT !.parent = c.parent]
    OBVIOUS
  <2>2. /\ area' = [area EXCEPT ![a] = x] /\ Done(t)
        /\ UNCHANGED <<note, index, taxonomy, proposal, tasks>>
    <3>1. area \in [Areas -> AreaRow \union {None}]
      BY <1>3 DEF RowsOK
    <3>. QED
      BY <1>2, <1>5, <2>1, <3>1 DEF WriteArea, library
  <2>3. c.call # "area" => old \in AreaRow
    BY <1>1, <1>2, <1>3, <2>1 DEF SeenOK, RowsOK, Born
  <2>4. x \in AreaRow /\ (c.call = "retire" => x.parent = old.parent)
        /\ (c.call # "retire" => x.parent = c.parent)
    <3>1. CASE c.call = "area"
      BY <1>2, <2>1, <3>1 DEF AreaRow
    <3>2. CASE c.call = "retire"
      BY <1>2, <2>1, <2>3, <3>2 DEF AreaRow
    <3>3. CASE c.call = "nest"
      BY <1>2, <2>1, <2>3, <3>3 DEF AreaRow
    <3>. QED
      BY <3>1, <3>2, <3>3
  <2>5. UNCHANGED <<library, proposal, tasks, draft, raced>>
    BY <2>2 DEF library, Held
  <2>6. RowsOK' /\ InStep' /\ Grows /\ area'[a] = x /\ x # None
    <3>1. a \in Areas /\ x \in AreaRow /\ area' = [area EXCEPT ![a] = x]
      BY <1>2, <2>1, <2>2, <2>4
    <3>2. RowsOK' /\ InStep' /\ Grows /\ area'[a] = x /\ x # None
      BY <1>3, <2>5, <3>1, AreaOK
    <3>. QED
      BY <3>2
  <2>7. ~ Checking(job[t].calls) /\ HeadDone(job[t].calls[1])
    BY <1>1, <2>1, <2>6 DEF Checking, HeadDone
  <2>8. job' = [job EXCEPT ![t] = Moved(t, job[t].made)] /\ UNCHANGED proposal
    BY <2>2 DEF Done
  <2>9. Sane' /\ Turned(t)
    BY <1>3, <2>6, <2>7, <2>8, DoneKeeps
  <2>10. ASSUME Tidy, c.call # "retire" => job[t].seen = Found(c) PROVE Tidy'
    <3>1. \A b \in Areas : area'[b] = IF b = a THEN x ELSE area[b]
      BY <1>2, <1>3, <2>1, <2>2 DEF RowsOK
    <3>2. \A b \in Areas : area[b] # None /\ area[b].parent # None =>
            area[area[b].parent] # None /\ area[area[b].parent].parent = None
      BY <2>10 DEF Tidy, TwoLevels, Rooted, Born
    <3>3. \A b \in Areas : area[b] # None /\ area[b].parent # None => area[b].parent \in Areas
      BY <1>3 DEF RowsOK, AreaRow
    <3>4. x.parent # None =>
            /\ x.parent \in Areas /\ x.parent # a /\ area[x.parent] # None
            /\ area[x.parent].parent = None
            /\ \A b \in Areas : area[b] # None => area[b].parent # a
      <4>1. CASE c.call = "area"
        <5>1. AreaFree(c)
          BY <1>1, <2>10, <4>1 DEF Found
        <5>. QED
          BY <1>2, <2>1, <2>4, <3>2, <4>1, <5>1, LibraryAssumption DEF AreaFree, Born
      <4>2. CASE c.call = "nest"
        <5>1. Nestable(c)
          BY <1>1, <2>10, <4>2 DEF Found
        <5>. QED
          BY <1>2, <2>1, <2>4, <4>2, <5>1 DEF Nestable, Born, SubAreas
      <4>3. CASE c.call = "retire"
        <5>1. old # None /\ x.parent = old.parent /\ a \in Areas
          BY <1>1, <1>2, <2>1, <2>4, <4>3 DEF SeenOK, Born
        <5>2. x.parent # None => x.parent \in Areas /\ area[x.parent] # None
                                 /\ area[x.parent].parent = None
          BY <2>1, <3>2, <3>3, <5>1
        <5>. QED
          BY <2>1, <3>2, <5>1, <5>2, LibraryAssumption
      <4>. QED
        BY <4>1, <4>2, <4>3
    <3>5. \A b \in Areas : area'[b] # None /\ area'[b].parent # None =>
            area'[area'[b].parent] # None /\ area'[area'[b].parent].parent = None
      <4>. SUFFICES ASSUME NEW b \in Areas, area'[b] # None, area'[b].parent # None
                    PROVE  /\ area'[area'[b].parent] # None
                           /\ area'[area'[b].parent].parent = None
        OBVIOUS
      <4>1. CASE b = a
        <5>1. area'[b] = x
          BY <3>1, <4>1
        <5>2. area'[x.parent] = area[x.parent]
          BY <3>1, <3>4, <5>1
        <5>. QED
          BY <3>4, <5>1, <5>2
      <4>2. CASE b # a /\ area[b].parent # a
        BY <3>1, <3>2, <3>3, <4>2
      <4>3. CASE b # a /\ area[b].parent = a
        <5>1. area'[b] = area[b] /\ area[b] # None
          BY <3>1, <4>3
        <5>2. x.parent = None
          BY <3>4, <4>3, <5>1
        <5>. QED
          BY <2>6, <4>3, <5>1, <5>2
      <4>. QED
        BY <4>1, <4>2, <4>3
    <3>6. TwoLevels' /\ Rooted'
      BY <3>5 DEF TwoLevels, Rooted, Born
    <3>7. Ids' = Ids
      BY <2>2 DEF Ids
    <3>8. ActiveHomed' /\ TagsKnown'
      BY <2>2, <2>10, <3>7 DEF Tidy, ActiveHomed, TagsKnown, Homed
    <3>. QED
      BY <3>6, <3>8 DEF Tidy
  <2>. QED
    BY <2>9, <2>10
<1>. QED
  BY <1>4, <1>5

LEMMA MintKeeps ==
  ASSUME Sane, NEW t \in Tabs, JobOK(job[t]), NEW c, c = Call(t), c.call = "mint",
         WriteTask(t), Held
  PROVE  Sane' /\ Turned(t) /\ (Tidy => Tidy')
<1>1. c = job[t].calls[1] /\ c \in Calls
  BY CallIs
<1>2. RowsOK /\ InStep /\ JobsOK /\ Told /\ tasks \in Nat /\ taxonomy \subseteq Tags
  BY DEF Sane, RowsOK
<1>3. PICK m : m = tasks + 1
  OBVIOUS
<1>4. /\ job' = [job EXCEPT ![t] = Moved(t, m)] /\ tasks' \in Nat /\ m \in Nat
      /\ UNCHANGED <<note, index, taxonomy, area, proposal, draft, raced>>
  BY <1>2, <1>3 DEF WriteTask, Held, library
<1>5. taxonomy' \subseteq Tags
  BY <1>2, <1>4
<1>6. RowsOK' /\ InStep' /\ Grows
  BY <1>2, <1>4, <1>5, ShelfOK
<1>7. ~ Checking(job[t].calls) /\ HeadDone(job[t].calls[1])
  BY <1>1 DEF Checking, HeadDone
<1>8. Sane' /\ Turned(t)
  BY <1>4, <1>6, <1>7, DoneKeeps
<1>9. Tidy => Tidy'
  BY <1>4, TidyShelf
<1>. QED
  BY <1>8, <1>9

\* A valid payload speaks of notes that are there.
LEMMA ValidGuests ==
  ASSUME NEW p, NEW q, NEW n, Valid(q, n), q.kind = p.kind,
         p.kind \notin {"file", "split"} => q = p
  PROVE  Guests(p) \subseteq Ids
<1>1. CASE p.kind = "append_entry"
  BY <1>1 DEF Valid, Guests
<1>2. CASE p.kind = "contradiction"
  BY <1>2 DEF Valid, Guests
<1>3. CASE p.kind \notin {"append_entry", "contradiction"}
  BY <1>3 DEF Guests
<1>. QED
  BY <1>1, <1>2, <1>3

LEMMA CheckKeeps ==
  ASSUME Sane, NEW t \in Tabs, JobOK(job[t]), NEW c, c = Call(t), c.call = "check",
         WriteCheck(t, c), Held
  PROVE  Sane' /\ Turned(t) /\ (Tidy => Tidy')
<1>1. c = job[t].calls[1] /\ c \in Calls /\ c.payload \in Payloads
  BY CallIs, CallTypes
<1>2. /\ RowsOK /\ InStep /\ JobsOK /\ Told /\ tasks \in Nat /\ taxonomy \subseteq Tags
      /\ job[t].made \in Nat
  BY DEF Sane, RowsOK, JobOK
<1>3. PICK coined : coined = IF c.edited THEN PayloadTags(c.payload) ELSE {}
  OBVIOUS
<1>4. PICK p : p = IF c.payload.kind \in {"file", "split"}
                   THEN [c.payload EXCEPT !.new_tags = @ \union coined] ELSE c.payload
  OBVIOUS
<1>5. coined \in SUBSET Tags
  <2>1. PayloadOK(c.payload)
    BY <1>1, LibraryAssumption
  <2>2. PayloadTags(c.payload) \in SUBSET Tags
    <3>1. CASE c.payload.kind = "file"
      <4>1. Named(c.payload.filing, "tags", {}) \in SUBSET Tags
        BY <2>1, <3>1, FieldsAre, NamedTags DEF PayloadOK
      <4>. QED
        BY <3>1, <4>1 DEF PayloadTags
    <3>2. CASE c.payload.kind = "split"
      <4>1. \A i \in DOMAIN c.payload.parts :
              Named(c.payload.parts[i], "tags", {}) \in SUBSET Tags
        BY <2>1, <3>2, FieldsAre, NamedTags DEF PayloadOK
      <4>. QED
        BY <3>2, <4>1 DEF PayloadTags
    <3>3. CASE c.payload.kind \notin {"file", "split"}
      BY <3>3 DEF PayloadTags
    <3>. QED
      BY <3>1, <3>2, <3>3
  <2>. QED
    BY <1>3, <2>2
<1>6. UNCHANGED <<draft, raced>>
  BY DEF Held
<1>7. CASE ~ Valid(p, proposal[c.pid].note)
  <2>1. GiveUp(t)
    BY <1>3, <1>4, <1>7 DEF WriteCheck
  <2>. QED
    BY <1>6, <2>1, GiveUpKeeps
<1>8. CASE Valid(p, proposal[c.pid].note)
  <2>1. /\ taxonomy' = Registered(coined) /\ Done(t)
        /\ UNCHANGED <<note, index, area, proposal, tasks>>
    BY <1>3, <1>4, <1>8 DEF WriteCheck
  <2>2. p.kind = c.payload.kind /\ (c.payload.kind \notin {"file", "split"} => p = c.payload)
    <3>1. CASE c.payload.kind \in {"file", "split"}
      <4>1. p = [c.payload EXCEPT !.new_tags = @ \union coined]
        BY <1>4, <3>1
      <4>. QED
        BY <3>1, <4>1
    <3>2. CASE c.payload.kind \notin {"file", "split"}
      BY <1>4, <3>2
    <3>. QED
      BY <3>1, <3>2
  <2>3. Guests(c.payload) \subseteq Ids
    BY <1>8, <2>2, ValidGuests
  <2>4. taxonomy' \subseteq Tags /\ taxonomy \subseteq taxonomy'
    BY <1>2, <1>5, <2>1 DEF Registered
  <2>5. RowsOK' /\ InStep' /\ Grows
    BY <1>2, <1>6, <2>1, <2>4, ShelfOK
  <2>6. Checking(job[t].calls) /\ Guests(job[t].calls[1].payload) \subseteq Ids
    BY <1>1, <2>3 DEF Checking
  <2>7. job' = [job EXCEPT ![t] = Moved(t, job[t].made)] /\ UNCHANGED proposal
    BY <2>1 DEF Done
  <2>8. Sane' /\ Turned(t)
    BY <1>2, <2>5, <2>6, <2>7, DoneKeeps
  <2>9. Tidy => Tidy'
    BY <2>1, <2>4, TidyShelf
  <2>. QED
    BY <2>8, <2>9
<1>. QED
  BY <1>7, <1>8

LEMMA OpenKeeps ==
  ASSUME Sane, NEW t \in Tabs, JobOK(job[t]), NEW c, c = Call(t), c.call = "open",
         job[t].seen = None, WriteOpen(t, c), Held
  PROVE  Sane' /\ Turned(t) /\ (Tidy => Tidy')
<1>1. c = job[t].calls[1] /\ c \in Calls /\ c.pid \in DOMAIN proposal
  BY CallIs DEF PidCalls
<1>2. /\ RowsOK /\ InStep /\ JobsOK /\ Told /\ tasks \in Nat /\ taxonomy \subseteq Tags
  BY DEF Sane, RowsOK
<1>3. UNCHANGED <<draft, raced>>
  BY DEF Held
<1>4. CASE proposal[c.pid].status # "pending"
  <2>1. GiveUp(t)
    BY <1>4 DEF WriteOpen
  <2>. QED
    BY <1>3, <2>1, GiveUpKeeps
<1>5. CASE proposal[c.pid].status = "pending"
  <2>1. PICK p, i : p = proposal[c.pid].payload /\ i = c.pid
    OBVIOUS
  <2>2. p \in Payloads /\ i \in DOMAIN proposal
    <3>1. proposal[c.pid] \in ProposalRow
      BY <1>1, <1>2 DEF RowsOK
    <3>. QED
      BY <1>1, <2>1, <3>1 DEF ProposalRow
  <2>3. PICK cs : cs = Approval(p, i)
    OBVIOUS
  <2>4. Sound(cs) /\ Owing(cs)
    BY <1>2, <2>2, <2>3, ApprovalIsOK
  <2>5. PICK x : x = [job[t] EXCEPT !.calls = cs]
    OBVIOUS
  <2>6. x.calls = cs /\ x.seen = None /\ x.made = job[t].made /\ x.bulk = job[t].bulk
        /\ x = [calls |-> x.calls, seen |-> x.seen, made |-> x.made, bulk |-> x.bulk]
    BY <2>5 DEF JobOK
  <2>7. JobOK(x)
    BY <2>4, <2>6 DEF JobOK, SeenOK
  <2>8. /\ job' = [job EXCEPT ![t] = x]
        /\ UNCHANGED <<note, index, taxonomy, area, proposal, tasks>>
    <3>1. job = [u \in Tabs |-> job[u]]
      BY <1>2 DEF JobsOK
    <3>. QED
      BY <1>5, <2>1, <2>3, <2>5, <3>1 DEF WriteOpen, library
  <2>9. taxonomy' \subseteq Tags /\ tasks' \in Nat
    BY <1>2, <2>8
  <2>10. RowsOK' /\ InStep' /\ Grows
    BY <1>2, <1>3, <2>8, <2>9, ShelfOK
  <2>11. JobOK(x)'
    BY <1>2, <2>7, <2>10, JobStays
  <2>12. JobsOK' /\ Turned(t)
    BY <1>2, <2>6, <2>8, <2>10, <2>11, JobSet DEF Turned
  <2>13. Told'
    BY <1>2, <2>8, <2>10, ToldSame
  <2>14. Tidy => Tidy'
    BY <2>8, TidyShelf
  <2>. QED
    BY <2>10, <2>12, <2>13, <2>14 DEF Sane
<1>. QED
  BY <1>4, <1>5

\* A decision that is due finds everything done.
LEMMA Due ==
  ASSUME NEW b, NEW p, NEW pid, NEW n \in Ids, Guests(p) \subseteq Ids, Owes(b, 1, p, pid, n),
         PayloadOK(p), Len(note) \in Nat
  PROVE  Kept(p, pid, n)
<1>1. p.kind = "append_entry" => \E e \in note[p.target].entries : e.from = n
  BY DEF Owes, Safe, Entered
<1>2. p.kind = "split" => Cardinality(PartsOf(pid)) >= Len(p.parts)
  <2>1. p.kind = "split" => Len(p.parts) \in Nat
    BY DEF PayloadOK
  <2>2. Cardinality(PartsOf(pid)) \in Nat
    BY PartsCount
  <2>. QED
    BY <2>1, <2>2 DEF Owes, Safe, Parted
<1>3. Rescued(p, pid, n)
  BY <1>1, <1>2 DEF Rescued, PartsOf
<1>4. p.kind = "contradiction" =>
        /\ [kind |-> "note", id |-> p.other] \in note[n].links
        /\ [kind |-> "note", id |-> n] \in note[p.other].links
  BY DEF Owes, Tied
<1>5. p.kind = "new_task" => \E l \in note[n].links : l.kind = "task"
  BY DEF Owes, Minted
<1>6. (p.kind = "file" /\ p.new_area # None) => Born(p.new_area.name)
  BY DEF Owes, Founded
<1>. QED
  BY <1>3, <1>4, <1>5, <1>6 DEF Kept

LEMMA DecisionKeeps ==
  ASSUME Sane, NEW t \in Tabs, JobOK(job[t]), NEW c, c = Call(t), c.call \in {"decide", "reject"},
         WriteDecision(t, c), Held
  PROVE  Sane' /\ Turned(t) /\ (Tidy => Tidy')
<1>1. c = job[t].calls[1] /\ c \in Calls /\ c.pid \in DOMAIN proposal
  BY CallIs DEF PidCalls
<1>2. RowsOK /\ InStep /\ JobsOK /\ Told /\ job[t].made \in Nat
  BY DEF Sane, JobOK
<1>3. proposal[c.pid] \in ProposalRow /\ proposal[c.pid].note \in Ids
  BY <1>1, <1>2 DEF RowsOK
<1>4. PICK i, n, s, p : /\ i = c.pid /\ n = proposal[i].note
                        /\ s = IF c.call = "reject" THEN "rejected" ELSE "approved"
                        /\ p = IF c.call = "reject" THEN proposal[i].payload ELSE c.payload
  OBVIOUS
<1>5. i \in DOMAIN proposal /\ p \in Payloads /\ s \in PROPOSAL_STATUSES /\ n \in Ids
  <2>1. c.call = "decide" => c.payload \in Payloads
    BY <1>1, CallTypes
  <2>2. proposal[i].payload \in Payloads
    BY <1>3, <1>4 DEF ProposalRow
  <2>. QED
    BY <1>1, <1>3, <1>4, <2>1, <2>2 DEF PROPOSAL_STATUSES
<1>6. /\ proposal' = [proposal EXCEPT ![i].status = s, ![i].payload = p]
      /\ Done(t) /\ UNCHANGED <<library, area, tasks>>
  <2>1. proposal \in Seq(ProposalRow)
    BY <1>2 DEF RowsOK
  <2>2. proposal[i] \in ProposalRow
    BY <1>3, <1>4
  <2>3. proposal' = [proposal EXCEPT ![i].status = s,
                                     ![i].payload = IF c.call = "reject" THEN @ ELSE c.payload]
    BY <1>4 DEF WriteDecision
  <2>4. [proposal EXCEPT ![i].status = s,
                         ![i].payload = IF c.call = "reject" THEN @ ELSE c.payload]
        = [proposal EXCEPT ![i].status = s, ![i].payload = p]
    BY <1>4, <1>5, <2>1, <2>2 DEF ProposalRow
  <2>. QED
    BY <2>3, <2>4 DEF WriteDecision
<1>7. UNCHANGED <<draft, raced>>
  BY DEF Held
<1>8. /\ RowsOK' /\ InStep' /\ Grows
      /\ DOMAIN proposal' = DOMAIN proposal
      /\ proposal'[i].status = s /\ proposal'[i].payload = p
      /\ \A k \in DOMAIN proposal : k # i => proposal'[k] = proposal[k]
  BY <1>2, <1>5, <1>6, <1>7, DecisionOK
<1>9. ~ Checking(job[t].calls) /\ HeadDone(job[t].calls[1])
  BY <1>1 DEF Checking, HeadDone
<1>10. job' = [job EXCEPT ![t] = Moved(t, job[t].made)]
  BY <1>6 DEF Done
<1>11. JobsOK' /\ Turned(t)
  BY <1>2, <1>8, <1>9, <1>10, MovedTurn
<1>12. c.call = "decide" => Kept(p, i, n)
  <2>. SUFFICES ASSUME c.call = "decide" PROVE Kept(p, i, n)
    OBVIOUS
  <2>1. PICK b : b = job[t].calls
    OBVIOUS
  <2>2. Owing(b) /\ Sound(b) /\ Body(b) = b /\ 1 \in DOMAIN b /\ b[1] = c
    <3>1. Sound(b) /\ Owing(b)
      BY <2>1 DEF JobOK
    <3>2. Body(b) = b
      BY <1>9, <2>1 DEF Body
    <3>3. 1 \in DOMAIN b
      BY <3>1, EmptySeq DEF Sound
    <3>. QED
      BY <1>1, <2>1, <3>1, <3>2, <3>3
  <2>3. /\ Guests(p) \subseteq Ids \/ (Checking(b) /\ b[1].payload = p)
        /\ \E x \in Ids : x = proposal[i].note /\ Owes(b, 1, p, i, x)
    BY <1>4, <2>2 DEF Owing
  <2>4. Guests(p) \subseteq Ids /\ Owes(b, 1, p, i, n)
    BY <1>4, <1>9, <2>1, <2>3
  <2>5. PayloadOK(p) /\ Len(note) \in Nat
    BY <1>2, <1>5, LibraryAssumption DEF RowsOK
  <2>. QED
    BY <1>5, <2>4, <2>5, Due
<1>13. Told'
  <2>1. ASSUME NEW k \in DOMAIN proposal', proposal'[k].status = "approved",
               NEW q, q = proposal'[k].payload, NEW x, x = proposal'[k].note
        PROVE  q \in Payloads /\ x \in Ids /\ Kept(q, k, x)
    <3>1. x = proposal[k].note
      BY <1>8, <2>1 DEF Grows
    <3>2. CASE k = i
      BY <1>4, <1>5, <1>8, <1>12, <2>1, <3>1, <3>2
    <3>3. CASE k # i
      <4>1. proposal'[k] = proposal[k] /\ k \in DOMAIN proposal
        BY <1>8, <2>1, <3>3
      <4>2. proposal[k] \in ProposalRow /\ proposal[k].note \in Ids
        BY <1>2, <4>1 DEF RowsOK
      <4>. QED
        BY <1>2, <2>1, <4>1, <4>2 DEF Told, ProposalRow
    <3>. QED
      BY <3>2, <3>3
  <2>. QED
    BY <1>2, <1>8, <2>1, ToldStays
<1>14. Tidy => Tidy'
  BY <1>6, TidyShelf DEF library
<1>. QED
  BY <1>8, <1>11, <1>13, <1>14 DEF Sane

LEMMA AloneStays ==
  ASSUME Alone, JobsOK, NEW t \in Tabs, Busy(t), Turned(t), UNCHANGED raced, ~raced => Tidy'
  PROVE  Alone'
<1>. SUFFICES ASSUME ~raced PROVE Tidy' /\ (\A u, v \in Tabs : Busy(u) /\ Busy(v) => u = v)'
                                  /\ Fresh'
  BY DEF Alone
<1>1. PICK x : job' = [job EXCEPT ![t] = x] /\ (x # None => x.seen = None)
  BY DEF Turned
<1>2. job = [u \in Tabs |-> job[u]]
  BY DEF JobsOK
<1>3. \A u \in Tabs : job'[u] = IF u = t THEN x ELSE job[u]
  BY <1>1, <1>2
<1>4. \A u \in Tabs : job'[u] # None => u = t
  BY <1>3 DEF Alone, Busy
<1>5. (\A u, v \in Tabs : Busy(u) /\ Busy(v) => u = v)'
  BY <1>4 DEF Busy
<1>6. Fresh'
  BY <1>1, <1>3, <1>4 DEF Fresh, Busy
<1>. QED
  BY <1>5, <1>6

LEMMA WriteKeeps ==
  ASSUME LibInv, NEW t \in Tabs, Write(t)
  PROVE  LibInv'
<1>1. Sane /\ Alone
  BY DEF LibInv, Sane
<1>2. Busy(t) /\ JobOK(job[t])
  BY <1>1 DEF Write, Busy, Sane, JobsOK
<1>3. PICK c : c = Call(t)
  OBVIOUS
<1>4. Held /\ (c.call \in Gapped => job[t].seen # None)
  BY <1>3 DEF Write, Held
<1>5. c \in Calls /\ SeenOK(c, job[t].seen)
  BY <1>2, <1>3, CallIs
<1>6. ~raced => /\ Tidy
                /\ c.call \in {"update", "addtags", "retag", "area", "nest"}
                   => job[t].seen = Found(c)
  BY <1>1, <1>2, <1>3, <1>4 DEF Alone, Fresh, Gapped
<1>7. Sane' /\ Turned(t) /\ (~raced => Tidy')
  <2>1. CASE c.call = "update"
    <3>1. WriteUpdate(t, c)
      BY <1>3, <2>1 DEF Write
    <3>. QED
      BY <1>1, <1>2, <1>3, <1>4, <1>6, <2>1, <3>1, UpdateKeeps
  <2>2. CASE c.call = "create"
    <3>1. WriteCreate(t, c)
      BY <1>3, <2>2 DEF Write
    <3>. QED
      BY <1>1, <1>2, <1>3, <1>4, <1>6, <2>2, <3>1, CreateKeeps
  <2>3. CASE c.call = "entry"
    <3>1. WriteEntry(t, c)
      BY <1>3, <2>3 DEF Write
    <3>. QED
      BY <1>1, <1>2, <1>3, <1>4, <1>6, <2>3, <3>1, EntryKeeps
  <2>4. CASE c.call = "link"
    <3>1. WriteLink(t, c)
      BY <1>3, <2>4 DEF Write
    <3>. QED
      BY <1>1, <1>2, <1>3, <1>4, <1>6, <2>4, <3>1, LinkKeeps
  <2>5. CASE c.call = "addtags"
    <3>1. WriteTags(t, c) /\ job[t].seen # None
      BY <1>3, <1>4, <2>5 DEF Write, Gapped
    <3>. QED
      BY <1>1, <1>2, <1>3, <1>4, <1>6, <2>5, <3>1, TagsKeep
  <2>6. CASE c.call = "retag"
    <3>1. WriteRetag(t, c) /\ job[t].seen # None
      BY <1>3, <1>4, <2>6 DEF Write, Gapped
    <3>. QED
      BY <1>1, <1>2, <1>3, <1>4, <1>6, <2>6, <3>1, RetagKeeps
  <2>7. CASE c.call \in {"area", "retire", "nest"}
    <3>1. WriteArea(t, c) /\ job[t].seen # None
      BY <1>3, <1>4, <2>7 DEF Write, Gapped
    <3>2. ~raced => Tidy /\ (c.call # "retire" => job[t].seen = Found(c))
      BY <1>6, <2>7
    <3>. QED
      BY <1>1, <1>2, <1>3, <1>4, <2>7, <3>1, <3>2, AreaKeeps
  <2>8. CASE c.call = "mint"
    <3>1. WriteTask(t)
      BY <1>3, <2>8 DEF Write
    <3>. QED
      BY <1>1, <1>2, <1>3, <1>4, <1>6, <2>8, <3>1, MintKeeps
  <2>9. CASE c.call = "check"
    <3>1. WriteCheck(t, c)
      BY <1>3, <2>9 DEF Write
    <3>. QED
      BY <1>1, <1>2, <1>3, <1>4, <1>6, <2>9, <3>1, CheckKeeps
  <2>10. CASE c.call = "open"
    <3>1. WriteOpen(t, c) /\ job[t].seen = None
      BY <1>3, <1>5, <2>10 DEF Write, SeenOK, Gapped
    <3>. QED
      BY <1>1, <1>2, <1>3, <1>4, <1>6, <2>10, <3>1, OpenKeeps
  <2>11. CASE c.call \in {"decide", "reject"}
    <3>1. WriteDecision(t, c)
      BY <1>3, <2>11 DEF Write
    <3>. QED
      BY <1>1, <1>2, <1>3, <1>4, <1>6, <2>11, <3>1, DecisionKeeps
  <2>. QED
    BY <1>5, <2>1, <2>2, <2>3, <2>4, <2>5, <2>6, <2>7, <2>8, <2>9, <2>10, <2>11, CallTypes
<1>8. Alone'
  BY <1>1, <1>2, <1>4, <1>7, AloneStays DEF Sane, Held
<1>. QED
  BY <1>7, <1>8 DEF LibInv, Sane

LEMMA FoundSame ==
  ASSUME NEW c, UNCHANGED <<note, taxonomy, area, proposal>>
  PROVE  Found(c)' = Found(c)
<1>1. Ids' = Ids
  BY DEF Ids
<1>. QED
  BY <1>1 DEF Found, AreaFree, Retirable, Nestable, Born, SubAreas

LEMMA LookKeeps ==
  ASSUME LibInv, NEW t \in Tabs, Look(t)
  PROVE  LibInv'
<1>1. Sane /\ Alone /\ RowsOK /\ InStep /\ JobsOK /\ Told
  BY DEF LibInv, Sane
<1>2. Busy(t) /\ JobOK(job[t]) /\ job[t].seen = None /\ UNCHANGED <<draft, raced>>
  BY <1>1 DEF Look, Busy, JobsOK
<1>3. PICK c, f : c = Call(t) /\ f = Found(c)
  OBVIOUS
<1>4. CASE f = None
  <2>1. GiveUp(t)
    BY <1>3, <1>4 DEF Look
  <2>2. Sane' /\ Turned(t) /\ (Tidy => Tidy')
    BY <1>1, <1>2, <2>1, GiveUpKeeps
  <2>3. Alone'
    BY <1>1, <1>2, <2>2, AloneStays DEF Alone
  <2>. QED
    BY <2>2, <2>3 DEF LibInv, Sane
<1>5. CASE f # None
  <2>1. /\ job' = [job EXCEPT ![t].seen = f]
        /\ UNCHANGED <<note, index, taxonomy, area, proposal, tasks>>
    BY <1>3, <1>5 DEF Look, library
  <2>2. /\ c = job[t].calls[1] /\ c \in Calls
        /\ c.call \in NoteCalls => c.note \in Ids
    BY <1>2, <1>3, CallIs
  <2>3. SeenOK(c, f)
    <3>0. c.call \in Gapped
      BY <1>3 DEF Look
    <3>1. ASSUME c.call \in {"update", "addtags"}
          PROVE  f \in Row
      <4>1. f = note[c.note] /\ c.note \in Ids
        BY <1>3, <2>2, <3>1 DEF Found, NoteCalls
      <4>2. note \in Seq(Row)
        BY <1>1 DEF RowsOK
      <4>. QED
        BY <4>1, <4>2 DEF Ids
    <3>2. c.call = "retag" => f \in Seq(SUBSET Tags)
      <4>. SUFFICES ASSUME c.call = "retag" PROVE f \in Seq(SUBSET Tags)
        OBVIOUS
      <4>1. f = [n \in Ids |-> note[n].tags]
        BY <1>3, <1>5 DEF Found
      <4>2. \A n \in Ids : note[n] \in Row
        BY <1>1 DEF RowsOK, Ids
      <4>3. \A n \in Ids : note[n].tags \in SUBSET Tags
        BY <4>2 DEF Row
      <4>4. f \in [1 .. Len(note) -> SUBSET Tags] /\ Len(note) \in Nat
        BY <1>1, <4>1, <4>3 DEF Ids, RowsOK
      <4>. QED
        BY <4>4, SeqDef
    <3>3. c.call = "retire" => Born(c.name)
      BY <1>3, <1>5 DEF Found, Retirable
    <3>4. c.call = "nest" => Born(c.name)
      BY <1>3, <1>5 DEF Found, Nestable
    <3>. QED
      BY <3>0, <3>1, <3>2, <3>3, <3>4 DEF SeenOK
  <2>4. PICK j, x : j = job[t] /\ x = [j EXCEPT !.seen = f]
    OBVIOUS
  <2>5. JobOK(j) /\ j.calls[1] = c
    BY <1>2, <2>2, <2>4
  <2>6. x.calls = j.calls /\ x.seen = f /\ x.made = j.made /\ x.bulk = j.bulk
        /\ x = [calls |-> x.calls, seen |-> x.seen, made |-> x.made, bulk |-> x.bulk]
    BY <2>4, <2>5 DEF JobOK
  <2>7. JobOK(x)
    BY <2>3, <2>5, <2>6 DEF JobOK
  <2>8. job = [u \in Tabs |-> job[u]]
    BY <1>1 DEF JobsOK
  <2>9. job' = [job EXCEPT ![t] = x] /\ \A u \in Tabs : job'[u] = IF u = t THEN x ELSE job[u]
    BY <2>1, <2>4, <2>8
  <2>10. taxonomy' \subseteq Tags /\ tasks' \in Nat
    BY <1>1, <2>1 DEF RowsOK
  <2>11. RowsOK' /\ InStep' /\ Grows
    BY <1>1, <1>2, <2>1, <2>10, ShelfOK
  <2>12. JobOK(x)'
    BY <1>1, <2>7, <2>11, JobStays
  <2>13. JobsOK'
    BY <1>1, <2>9, <2>11, <2>12, JobSet
  <2>14. Told'
    BY <1>1, <2>1, <2>11, ToldSame
  <2>15. Alone'
    <3>1. Tidy => Tidy'
      BY <2>1, TidyShelf
    <3>2. ASSUME ~raced, NEW u \in Tabs, job'[u] # None PROVE u = t
      BY <1>1, <1>2, <2>9, <3>2 DEF Alone, Busy
    <3>3. ~raced => (\A u, v \in Tabs : Busy(u) /\ Busy(v) => u = v)'
      BY <3>2 DEF Busy
    <3>4. Found(c)' = Found(c)
      BY <2>1, FoundSame
    <3>5. Call(t)' = c /\ job'[t].seen = f
      BY <1>3, <2>4, <2>6, <2>9 DEF Call
    <3>6. ASSUME ~raced PROVE Fresh'
      <4>. SUFFICES ASSUME NEW u \in Tabs, NEW d, d = Call(u)', job'[u] # None
                    PROVE  job'[u].seen = Found(d)'
        BY DEF Fresh, Busy
      <4>1. u = t /\ d = c
        BY <3>2, <3>5, <3>6
      <4>. QED
        BY <1>3, <3>4, <3>5, <4>1
    <3>. QED
      BY <1>1, <1>2, <3>1, <3>3, <3>6 DEF Alone
  <2>. QED
    BY <2>11, <2>13, <2>14, <2>15 DEF LibInv
<1>. QED
  BY <1>4, <1>5

LEMMA RequestKeeps ==
  ASSUME LibInv, NEW t \in Tabs, Request(t)
  PROVE  LibInv'
<1>1. Sane /\ Alone /\ RowsOK /\ InStep /\ JobsOK /\ Told
  BY DEF LibInv, Sane
<1>2. PICK w : JobOK(w) /\ w.seen = None /\ AskFor(t, w)
  BY <1>1, Asked
<1>3. /\ ~Busy(t) /\ job' = [job EXCEPT ![t] = w] /\ raced' = (raced \/ Overlaps(t))
      /\ UNCHANGED <<note, index, taxonomy, area, proposal, tasks, draft>>
  BY <1>2 DEF AskFor, library
<1>4. Ids' = Ids
  BY <1>3 DEF Ids
<1>5. RowsOK' /\ InStep' /\ Grows
  <2>1. raced' \in BOOLEAN
    BY <1>1, <1>3 DEF RowsOK
  <2>2. RowsOK'
    BY <1>1, <1>3, <1>4, <2>1 DEF RowsOK, Born
  <2>. QED
    BY <1>1, <1>3, <1>4, <2>2 DEF InStep, Grows, RowsOK, Born
<1>6. JobOK(w)'
  BY <1>1, <1>2, <1>5, JobStays
<1>7. JobsOK'
  BY <1>1, <1>3, <1>5, <1>6, JobSet
<1>8. Told'
  BY <1>1, <1>3, <1>5, ToldSame
<1>9. Alone'
  <2>. SUFFICES ASSUME ~raced'
                PROVE  Tidy' /\ (\A u, v \in Tabs : Busy(u) /\ Busy(v) => u = v)' /\ Fresh'
    BY DEF Alone
  <2>1. ~raced /\ \A u \in Tabs \ {t} : ~Busy(u)
    BY <1>3 DEF Overlaps
  <2>2. Tidy'
    BY <1>1, <1>3, <2>1, TidyShelf DEF Alone
  <2>3. \A u \in Tabs : job'[u] = IF u = t THEN w ELSE job[u]
    BY <1>1, <1>3 DEF JobsOK
  <2>4. \A u \in Tabs : job'[u] # None => u = t
    BY <2>1, <2>3 DEF Busy
  <2>5. (\A u, v \in Tabs : Busy(u) /\ Busy(v) => u = v)'
    BY <2>4 DEF Busy
  <2>6. Fresh'
    BY <1>2, <2>3, <2>4 DEF Fresh, Busy
  <2>. QED
    BY <2>2, <2>5, <2>6
<1>. QED
  BY <1>5, <1>7, <1>8, <1>9 DEF LibInv

\* What leaves the rows and the jobs alone.
LEMMA AloneSame ==
  ASSUME Alone, UNCHANGED <<note, taxonomy, area, job, raced>>,
         \A t \in Tabs : \A c \in {Call(t)} :
           (c.call \in {"update", "addtags", "retag", "area", "nest"}) => Found(c)' = Found(c)
  PROVE  Alone'
<1>. SUFFICES ASSUME ~raced
              PROVE  Tidy' /\ (\A u, v \in Tabs : Busy(u) /\ Busy(v) => u = v)' /\ Fresh'
  BY DEF Alone
<1>1. Tidy'
  BY TidyShelf DEF Alone
<1>2. (\A u, v \in Tabs : Busy(u) /\ Busy(v) => u = v)'
  BY DEF Alone, Busy
<1>3. Fresh'
  <2>. SUFFICES ASSUME NEW u \in Tabs, NEW d, d = Call(u)', job'[u] # None, job'[u].seen # None,
                       d.call \in {"update", "addtags", "retag", "area", "nest"}
                PROVE  job'[u].seen = Found(d)'
    BY DEF Fresh, Busy
  <2>1. d = Call(u)
    BY DEF Call
  <2>2. job[u].seen = Found(d)
    BY <2>1 DEF Alone, Fresh, Busy
  <2>. QED
    BY <2>1, <2>2
<1>. QED
  BY <1>1, <1>2, <1>3

LEMMA ProposeKeeps ==
  ASSUME LibInv, NEW n \in Ids, NEW p \in Payloads, Propose(n, p)
  PROVE  LibInv'
<1>1. Alone /\ RowsOK /\ InStep /\ JobsOK /\ Told
  BY DEF LibInv
<1>2. /\ UNCHANGED <<note, index, taxonomy, area, proposal, tasks, job, raced>>
      /\ draft'.note = n /\ draft'.payload = p
      /\ draft'.class \in {"routine", "needs_attention"}
  BY DEF Propose, library
<1>3. Ids' = Ids
  BY <1>2 DEF Ids
<1>4. RowsOK'
  BY <1>1, <1>2, <1>3 DEF RowsOK, Born
<1>5. InStep' /\ Grows
  BY <1>1, <1>2, <1>3 DEF InStep, Grows, RowsOK, Born
<1>6. JobsOK'
  BY <1>1, <1>2, <1>5, JobsStay
<1>7. Told'
  BY <1>1, <1>2, <1>5, ToldSame
<1>8. Alone'
  BY <1>1, <1>2, FoundSame, AloneSame
<1>. QED
  BY <1>4, <1>5, <1>6, <1>7, <1>8 DEF LibInv

LEMMA FilingKeeps ==
  ASSUME LibInv, FileProposal
  PROVE  LibInv'
<1>1. Alone /\ RowsOK /\ InStep /\ JobsOK /\ Told
  BY DEF LibInv
<1>. DEFINE older == [i \in DOMAIN proposal |->
                        IF Superseded(proposal[i], draft)
                        THEN [proposal[i] EXCEPT !.status = "superseded"]
                        ELSE proposal[i]]
            row   == [note |-> draft.note, payload |-> draft.payload,
                      class |-> draft.class, status |-> "pending"]
<1>2. /\ UNCHANGED <<note, index, taxonomy, area, tasks, job, raced>>
      /\ proposal' = Append(older, row) /\ draft' = None /\ draft # None
  BY DEF FileProposal, library
<1>3. row \in ProposalRow /\ row.note \in Ids /\ row.status = "pending"
  <2>1. /\ draft.note \in Ids /\ draft.payload \in Payloads
        /\ draft.class \in {"routine", "needs_attention"}
    BY <1>1, <1>2 DEF RowsOK
  <2>2. draft.note \in Nat
    BY <2>1 DEF Ids
  <2>. QED
    BY <2>1, <2>2 DEF ProposalRow, PROPOSAL_STATUSES
<1>4. proposal \in Seq(ProposalRow) /\ DOMAIN proposal = 1 .. Len(proposal) /\ Len(proposal) \in Nat
  BY <1>1 DEF RowsOK
<1>5. \A i \in DOMAIN proposal :
        /\ older[i] \in ProposalRow /\ older[i].note = proposal[i].note
        /\ older[i].payload = proposal[i].payload
        /\ older[i].status = "approved" => proposal[i].status = "approved"
  <2>. TAKE i \in DOMAIN proposal
  <2>1. proposal[i] \in ProposalRow
    BY <1>4
  <2>. QED
    BY <2>1 DEF ProposalRow, PROPOSAL_STATUSES
<1>6. older \in Seq(ProposalRow) /\ Len(older) = Len(proposal)
  <2>1. older \in [1 .. Len(proposal) -> ProposalRow]
    BY <1>4, <1>5
  <2>. HIDE DEF older
  <2>. QED
    BY <1>4, <2>1, SeqDef, LenProperties
<1>. HIDE DEF older, row
<1>7. /\ proposal' \in Seq(ProposalRow) /\ Len(proposal') = Len(proposal) + 1
      /\ DOMAIN proposal' = 1 .. Len(proposal) + 1
      /\ \A i \in 1 .. Len(proposal) + 1 :
           proposal'[i] = IF i = Len(proposal) + 1 THEN row ELSE older[i]
  BY <1>2, <1>3, <1>4, <1>6
<1>8. Ids' = Ids
  BY <1>2 DEF Ids
<1>9. /\ DOMAIN proposal \subseteq DOMAIN proposal'
      /\ \A i \in DOMAIN proposal : proposal'[i] = older[i]
      /\ \A i \in DOMAIN proposal' : i \in DOMAIN proposal \/ proposal'[i] = row
  BY <1>4, <1>7
<1>10. Grows
  BY <1>1, <1>2, <1>5, <1>8, <1>9 DEF Grows, RowsOK, Born
<1>11. \A i \in DOMAIN proposal' : proposal'[i].note \in Ids
  BY <1>1, <1>3, <1>5, <1>9 DEF RowsOK
<1>12. RowsOK'
  BY <1>1, <1>2, <1>7, <1>8, <1>11 DEF RowsOK, Born
<1>13. InStep'
  BY <1>1, <1>2, <1>8 DEF InStep
<1>14. JobsOK'
  BY <1>1, <1>2, <1>10, JobsStay
<1>15. Told'
  <2>1. ASSUME NEW i \in DOMAIN proposal', proposal'[i].status = "approved",
               NEW p, p = proposal'[i].payload, NEW n, n = proposal'[i].note
        PROVE  p \in Payloads /\ n \in Ids /\ Kept(p, i, n)
    <3>1. i \in DOMAIN proposal /\ proposal'[i] = older[i]
      BY <1>3, <1>9, <2>1
    <3>2. /\ proposal[i].status = "approved" /\ p = proposal[i].payload
          /\ n = proposal[i].note
      BY <1>5, <2>1, <3>1
    <3>3. proposal[i] \in ProposalRow /\ n \in Ids
      BY <1>1, <3>1, <3>2 DEF RowsOK
    <3>. QED
      BY <1>1, <3>1, <3>2, <3>3 DEF Told, ProposalRow
  <2>. QED
    BY <1>1, <1>10, <2>1, ToldStays
<1>16. Alone'
  <2>1. ASSUME NEW c, c.call \in {"update", "addtags", "retag", "area", "nest"}
        PROVE  Found(c)' = Found(c)
    BY <1>2, <1>8, <2>1 DEF Found, AreaFree, Nestable, Born, SubAreas
  <2>. QED
    BY <1>1, <1>2, <2>1, AloneSame
<1>. QED
  BY <1>12, <1>13, <1>14, <1>15, <1>16 DEF LibInv

LEMMA CrashKeeps ==
  ASSUME LibInv, Crash
  PROVE  LibInv'
<1>1. Alone /\ RowsOK /\ InStep /\ JobsOK /\ Told
  BY DEF LibInv
<1>2. /\ UNCHANGED <<note, index, taxonomy, area, proposal, tasks, draft, raced>>
      /\ job' = [t \in Tabs |-> None]
  BY DEF Crash, library
<1>3. Ids' = Ids
  BY <1>2 DEF Ids
<1>4. RowsOK'
  BY <1>1, <1>2, <1>3 DEF RowsOK, Born
<1>5. InStep' /\ Grows
  BY <1>1, <1>2, <1>3 DEF InStep, Grows, RowsOK, Born
<1>6. JobsOK'
  BY <1>2 DEF JobsOK
<1>7. Told'
  BY <1>1, <1>2, <1>5, ToldSame
<1>8. Alone'
  <2>1. Tidy => Tidy'
    BY <1>2, TidyShelf
  <2>2. Fresh' /\ (\A u, v \in Tabs : Busy(u) /\ Busy(v) => u = v)'
    BY <1>2 DEF Fresh, Busy
  <2>. QED
    BY <1>1, <1>2, <2>1, <2>2 DEF Alone
<1>. QED
  BY <1>4, <1>5, <1>6, <1>7, <1>8 DEF LibInv

LEMMA InitHolds == Init => LibInv
<1>. SUFFICES ASSUME Init PROVE LibInv
  OBVIOUS
<1>1. /\ note = FirstNotes /\ note \in Seq(Row) /\ DOMAIN note = Ids /\ Len(note) \in Nat
      /\ area = FirstAreas /\ taxonomy = FirstTags
  BY LibraryAssumption DEF Init, Ids
<1>2. \A n \in Ids :
        /\ note[n].area # None => Born(note[n].area)
        /\ note[n].status = "active" => Homed(note[n])
        /\ note[n].tags \subseteq taxonomy
  BY <1>1, LibraryAssumption DEF Ids, Born
<1>3. RowsOK
  <2>1. proposal = <<>> /\ proposal \in Seq(ProposalRow) /\ DOMAIN proposal = {}
    BY DEF Init
  <2>2. area \in [Areas -> AreaRow \union {None}] /\ taxonomy \subseteq Tags
    BY <1>1, LibraryAssumption
  <2>3. tasks \in Nat /\ raced \in BOOLEAN /\ draft = None
    BY DEF Init
  <2>. QED
    BY <1>1, <1>2, <2>1, <2>2, <2>3 DEF RowsOK
<1>4. InStep
  BY <1>1 DEF Init, InStep
<1>5. JobsOK /\ Told
  BY DEF Init, JobsOK, Told
<1>6. Alone
  <2>1. ActiveHomed /\ TagsKnown
    BY <1>2 DEF ActiveHomed, TagsKnown
  <2>2. TwoLevels /\ Rooted
    BY <1>1, LibraryAssumption DEF TwoLevels, Rooted, Born
  <2>3. Fresh /\ \A u, v \in Tabs : Busy(u) /\ Busy(v) => u = v
    BY DEF Init, Fresh, Busy
  <2>. QED
    BY <2>1, <2>2, <2>3 DEF Alone, Tidy
<1>. QED
  BY <1>3, <1>4, <1>5, <1>6 DEF LibInv

-----------------------------------------------------------------------------
(* Theorems *)

\* The invariant the theorems below share: rows have their types and point at
\* rows there are, the search index is the image of the notes, every job keeps
\* what it owes its approval, every decision has come true, and while requests
\* come one at a time nothing a call has seen is stale.
THEOREM LibraryInvariant == Spec => []LibInv
<1>1. LibInv /\ [Next]_vars => LibInv'
  <2>. SUFFICES ASSUME LibInv, [Next]_vars PROVE LibInv'
    OBVIOUS
  <2>1. CASE UNCHANGED vars
    <3>1. Alone /\ RowsOK /\ InStep /\ JobsOK /\ Told
      BY DEF LibInv
    <3>2. UNCHANGED <<note, index, taxonomy, area, proposal, tasks, job, draft, raced>>
      BY <2>1 DEF vars
    <3>3. Ids' = Ids
      BY <3>2 DEF Ids
    <3>4. RowsOK'
      BY <3>1, <3>2, <3>3 DEF RowsOK, Born
    <3>5. InStep' /\ Grows
      BY <3>1, <3>2, <3>3 DEF InStep, Grows, RowsOK, Born
    <3>6. JobsOK' /\ Told'
      BY <3>1, <3>2, <3>5, JobsStay, ToldSame
    <3>7. Alone'
      BY <3>1, <3>2, FoundSame, AloneSame
    <3>. QED
      BY <3>4, <3>5, <3>6, <3>7 DEF LibInv
  <2>2. ASSUME NEW n \in Ids, NEW p \in Payloads, Propose(n, p) PROVE LibInv'
    BY <2>2, ProposeKeeps
  <2>3. CASE FileProposal
    BY <2>3, FilingKeeps
  <2>4. ASSUME NEW t \in Tabs, Request(t) PROVE LibInv'
    BY <2>4, RequestKeeps
  <2>5. ASSUME NEW t \in Tabs, Look(t) PROVE LibInv'
    BY <2>5, LookKeeps
  <2>6. ASSUME NEW t \in Tabs, Write(t) PROVE LibInv'
    BY <2>6, WriteKeeps
  <2>7. CASE Crash
    BY <2>7, CrashKeeps
  <2>. QED
    BY <2>1, <2>2, <2>3, <2>4, <2>5, <2>6, <2>7 DEF Next
<1>. QED
  BY <1>1, InitHolds, PTL DEF Spec

\* Search sees every note as it is, whichever tabs race and whatever dies
\* between two calls (_fts_sync runs inside each transaction that changes a
\* title, body, tag or Thought).
THEOREM SearchIsFresh == Spec => []FtsFresh
<1>1. LibInv => FtsFresh
  BY DEF LibInv, InStep, FtsFresh, Indexed
<1>. QED
  BY <1>1, LibraryInvariant, PTL

\* While requests come one at a time, active notes have homes, tags are in the
\* taxonomy and areas are two levels deep: for any payloads, approvals cut
\* short by a crash, and proposals filed meanwhile.
THEOREM TidyWhenAlone == Spec => []TidyAlone
<1>1. LibInv => TidyAlone
  BY DEF LibInv, Alone, Tidy, TidyAlone
<1>. QED
  BY <1>1, LibraryInvariant, PTL

\* An approved proposal's work can be found in the Library, however often the
\* approval was cut short, repeated or raced (approve_proposal decides last).
THEOREM ApprovedMeansLanded == Spec => []Landed
<1>1. LibInv => Landed
  BY DEF LibInv, Told, Kept, Landed
<1>. QED
  BY <1>1, LibraryInvariant, PTL

\* The list's own copy of the filter says what the shared clause says.
LEMMA ListedIsScoped ==
  ASSUME NEW f
  PROVE  Listed(f) = Scoped(f)
  BY DEF Listed, Scoped

\* Browse, search, totals and facets agree about every filter, at every
\* moment (list_notes, search_notes, count_notes, note_facets).
THEOREM ReadPathsAgree == Spec => []PagesAgree
<1>1. LibInv => PagesAgree
  <2>. SUFFICES ASSUME LibInv, NEW f \in Filters, f.area # None => Born(f.area)
                PROVE  /\ Counted(f, None) = Cardinality(Listed(f))
                       /\ \A q \in Texts :
                            /\ Searched(f, q) = {n \in Listed(f) : Says(n, q)}
                            /\ Counted(f, q) = Cardinality(Searched(f, q))
                       /\ f.area # None /\ ~area[f.area].archived =>
                            AreaFacet(f, f.area) = Cardinality(Listed(f))
                       /\ f.tag # None => TagFacet(f, f.tag) = Cardinality(Listed(f))
    BY DEF PagesAgree
  <2>1. RowsOK /\ InStep
    BY DEF LibInv
  <2>2. Listed(f) = Scoped(f)
    BY ListedIsScoped
  <2>3. Counted(f, None) = Cardinality(Listed(f))
    <3>1. {n \in Scoped(f) : None # None => n \in Matching(None)} = Scoped(f)
      OBVIOUS
    <3>. QED
      BY <2>2, <3>1 DEF Counted
  <2>4. ASSUME NEW q \in Texts
        PROVE  /\ Searched(f, q) = {n \in Listed(f) : Says(n, q)}
               /\ Counted(f, q) = Cardinality(Searched(f, q))
    <3>1. Scoped(f) \subseteq Ids
      BY DEF Scoped
    <3>2. \A n \in Ids : n \in Matching(q) <=> Says(n, q)
      BY <2>1 DEF Matching, Says, InStep, Indexed
    <3>3. Searched(f, q) = {n \in Listed(f) : Says(n, q)}
      BY <2>2, <3>1, <3>2 DEF Searched
    <3>4. q # None
      BY LibraryAssumption
    <3>5. {n \in Scoped(f) : q # None => n \in Matching(q)} = Searched(f, q)
      BY <3>4 DEF Searched
    <3>. QED
      BY <3>3, <3>5 DEF Counted
  <2>5. /\ f = [status |-> f.status, area |-> f.area, tag |-> f.tag]
        /\ f.area \in Areas \union {None}
    BY DEF Filters
  <2>6. ASSUME f.area # None, ~area[f.area].archived
        PROVE  AreaFacet(f, f.area) = Cardinality(Listed(f))
    <3>. DEFINE g == [f EXCEPT !.area = None]
                a == f.area
                found == {n \in Scoped(g) :
                            \/ note[n].area = a
                            \/ note[n].area # None /\ area[note[n].area].parent = a}
    <3>1. g.status = f.status /\ g.area = None /\ g.tag = f.tag
      BY <2>5
    <3>2. Born(a)
      BY <2>6
    <3>3. AreaFacet(f, a) = Cardinality(found)
      BY <2>6, <3>2 DEF AreaFacet
    <3>. HIDE DEF g
    <3>4. ASSUME NEW n \in Ids
          PROVE  (note[n].area = a \/ (note[n].area # None /\ area[note[n].area].parent = a))
                 <=> (note[n].area = a \/ note[n].area \in SubAreas(a))
      <4>1. note[n] \in Row
        BY <2>1 DEF RowsOK, Ids
      <4>2. note[n].area # None => note[n].area \in Areas /\ Born(note[n].area)
        BY <2>1, <4>1 DEF RowsOK, Row
      <4>3. None \notin Areas
        BY LibraryAssumption
      <4>. QED
        BY <4>2, <4>3 DEF SubAreas
    <3>5. \A n \in Ids : InStatus(n, g.status) <=> InStatus(n, f.status)
      BY <3>1
    <3>6. found = Scoped(f)
      BY <2>6, <3>1, <3>4, <3>5 DEF Scoped
    <3>. QED
      BY <2>2, <3>3, <3>6
  <2>7. ASSUME f.tag # None
        PROVE  TagFacet(f, f.tag) = Cardinality(Listed(f))
    <3>. DEFINE g == [f EXCEPT !.tag = None]
                found == {n \in Scoped(g) : f.tag \in note[n].tags}
    <3>1. g.status = f.status /\ g.area = f.area /\ g.tag = None
      BY <2>5
    <3>2. TagFacet(f, f.tag) = Cardinality(found)
      BY DEF TagFacet
    <3>. HIDE DEF g
    <3>3. found = Scoped(f)
      BY <2>7, <3>1 DEF Scoped
    <3>. QED
      BY <2>2, <3>2, <3>3
  <2>. QED
    BY <2>3, <2>4, <2>6, <2>7
<1>. QED
  BY <1>1, LibraryInvariant, PTL

\* No approval buries its capture: it archives the note only once what was
\* taken out of it is somewhere else, whatever dies in between.
THEOREM NoCaptureBuried == Spec => CaptureKept
<1>1. LibInv => \A t \in Tabs :
        Applying(t) /\ Call(t).call = "update"
        => Rescued(Decision(t).payload, Decision(t).pid, Call(t).note)
  <2>. SUFFICES ASSUME LibInv, NEW t \in Tabs, Applying(t), Call(t).call = "update"
                PROVE  Rescued(Decision(t).payload, Decision(t).pid, Call(t).note)
    OBVIOUS
  <2>1. JobOK(job[t]) /\ RowsOK
    BY DEF LibInv, JobsOK, Applying, Busy
  <2>2. PICK b, c : b = job[t].calls /\ c = Call(t)
    OBVIOUS
  <2>3. Sound(b) /\ Owing(b) /\ c = b[1] /\ 1 \in DOMAIN b /\ c.call = "update"
    <3>1. Sound(b) /\ Owing(b)
      BY <2>1, <2>2 DEF JobOK
    <3>2. c = b[1] /\ 1 \in DOMAIN b
      BY <2>1, <2>2, <3>1, CallIs, EmptySeq DEF Sound
    <3>. QED
      BY <2>2, <3>1, <3>2
  <2>4. ~ Checking(b) /\ Body(b) = b
    BY <2>3 DEF Checking, Body
  <2>5. PICK k : /\ k = CHOOSE i \in DOMAIN b : b[i].call = "decide"
    OBVIOUS
  <2>6. k \in DOMAIN b /\ b[k].call = "decide" /\ Decision(t) = b[k]
    BY <2>2, <2>5 DEF Applying, Decision
  <2>7. PICK d, n : /\ d = b[k] /\ n \in Ids
                    /\ Owes(b, k, d.payload, d.pid, n)
    BY <2>3, <2>4, <2>6 DEF Owing
  <2>8. k \in Nat /\ k # 1 /\ k >= 1 /\ Len(b) \in Nat
    BY <2>3, <2>6 DEF Sound
  <2>9. d.payload \in Payloads
    BY <2>3, <2>6, <2>7, CallTypes DEF Sound
  <2>10. CASE d.payload.kind \notin {"append_entry", "split"}
    BY <2>6, <2>7, <2>10 DEF Rescued
  <2>11. CASE d.payload.kind \in {"append_entry", "split"}
    <3>1. c.note = n /\ Safe(b, 1, d.payload, d.pid, n)
      BY <2>3, <2>7, <2>8, <2>11 DEF Owes
    <3>2. d.payload.kind = "append_entry" =>
            \E e \in note[d.payload.target].entries : e.from = n
      BY <3>1 DEF Safe, Entered
    <3>3. d.payload.kind = "split" =>
            Cardinality(PartsOf(d.pid)) >= Len(d.payload.parts)
      <4>1. d.payload.kind = "split" => Len(d.payload.parts) \in Nat
        BY <2>9, LibraryAssumption DEF PayloadOK
      <4>2. Cardinality(PartsOf(d.pid)) \in Nat
        BY <2>1, PartsCount DEF RowsOK
      <4>. QED
        BY <3>1, <4>1, <4>2 DEF Safe, Parted
    <3>4. Rescued(d.payload, d.pid, n)
      BY <3>2, <3>3 DEF Rescued, PartsOf
    <3>. QED
      BY <2>2, <2>6, <2>7, <3>1, <3>4
  <2>. QED
    BY <2>10, <2>11
<1>2. LibInv /\ [Next]_vars =>
        [\A t \in Tabs :
           /\ Applying(t) /\ job'[t] # job[t] /\ Call(t).call = "update"
           /\ note'[Call(t).note] # note[Call(t).note]
           /\ Named(Call(t).fields, "status", "") = "archived"
           => Rescued(Decision(t).payload, Decision(t).pid, Call(t).note)]_vars
  BY <1>1
<1>. QED
  BY <1>2, LibraryInvariant, PTL DEF Spec, CaptureKept

=============================================================================
