------------------------------ MODULE Library ------------------------------
(***************************************************************************)
(* The Library: life areas, notes, the tag taxonomy, the search index and  *)
(* the librarian's proposals (core/wm_store.py, backend/notes.py).         *)
(*                                                                         *)
(* A store function opens its own connection.  Its SELECTs before the      *)
(* first write run in autocommit, so what they read may be old when the    *)
(* write comes: such a call takes two steps, Look and Write.  Everything   *)
(* from the first write to the commit is one step.  approve_proposal is    *)
(* not one transaction but a list of such calls, and the server may die    *)
(* between any two of them.                                                *)
(***************************************************************************)
EXTENDS Naturals, Sequences, FiniteSets

CONSTANTS Areas,          \* area names that may ever exist
          Tags,           \* tags that may ever be coined
          Texts,          \* the words (title and body) of a note
          Tabs,           \* places the owner sends requests from
          Edits,          \* the field sets an edit may carry
          Captures,       \* the field sets a new note may carry
          Payloads,       \* what the librarian may propose
          Routinely,      \* the payloads it calls routine
          FirstNotes,     \* the notes, areas and tags there are at first
          FirstAreas,
          FirstTags,
          None,
          MaxRequests, MaxProposals, MaxCrashes

VARIABLES note,           \* rows of notes with their entries and links, by id
          index,          \* notes_fts, by note id
          taxonomy,       \* note_tag_taxonomy
          area,           \* rows of areas, by name
          proposal,       \* rows of proposals, by id
          tasks,          \* how many tasks and schedules came from notes
          job,            \* what each tab's request in flight still has to do
          draft,          \* the proposal the librarian has had validated
          requests, crashes,
          raced           \* history: two requests have been in flight at once

vars == <<note, index, taxonomy, area, proposal, tasks, job, draft,
          requests, crashes, raced>>
library == <<note, index, taxonomy>>

NOTE_STATUSES     == {"inbox", "active", "archived"}
PROPOSAL_KINDS    == {"split", "file", "contradiction", "new_task", "append_entry"}
PROPOSAL_STATUSES == {"pending", "approved", "rejected", "superseded"}
OWNER_EYES_KINDS  == {"contradiction", "new_task", "append_entry"}
Ids               == 1 .. Len(note)
Born(a)           == area[a] # None
SubAreas(a)       == {b \in Areas : Born(b) /\ area[b].parent = a}

Homed(r)   == r.area # None \/ r.project
Over(f, r) == [k \in DOMAIN r |-> IF k \in DOMAIN f THEN f[k] ELSE r[k]]
Named(f, k, d) == IF k \in DOMAIN f THEN f[k] ELSE d
Row == [status : NOTE_STATUSES, area : Areas \union {None}, project : BOOLEAN,
        tags : SUBSET Tags, text : Texts, disputed : BOOLEAN,
        entries : SUBSET [from : Nat, text : Texts],
        links : SUBSET [kind : {"note", "task", "schedule"}, id : Nat],
        part : Nat]
AreaRow == [parent : Areas \union {None}, archived : BOOLEAN]
BlankRow == [status |-> "inbox", area |-> None, project |-> FALSE, tags |-> {},
             text |-> CHOOSE x \in Texts : TRUE, disputed |-> FALSE,
             entries |-> {}, links |-> {}, part |-> 0]

(* The columns a request or a payload may name, with values of their kind. *)
Editable == {"status", "area", "project", "tags", "text", "disputed"}
FieldsOK(f) == /\ DOMAIN f \subseteq Editable /\ f = [k \in DOMAIN f |-> f[k]]
               /\ Over(f, BlankRow) \in Row

PayloadOK(p) ==
    /\ p.kind \in PROPOSAL_KINDS
    /\ p.kind = "file" =>
          /\ FieldsOK(p.filing) /\ p.archive \in BOOLEAN /\ p.new_tags \subseteq Tags
          /\ p.new_area # None =>
                p.new_area \in [name : Areas, parent : Areas \union {None}]
    /\ p.kind = "split" =>
          /\ DOMAIN p.parts = 1 .. Len(p.parts) /\ Len(p.parts) \in Nat
          /\ \A i \in DOMAIN p.parts : FieldsOK(p.parts[i])
          /\ p.archive \in BOOLEAN /\ p.new_tags \subseteq Tags
    /\ p.kind = "contradiction" => p.other \in Nat
    /\ p.kind = "append_entry" => p.target \in Nat /\ p.archive \in BOOLEAN

(* The Library starts in order: fields and rows have the types of their    *)
(* columns, every active note has a home that exists, every tag is known.  *)
ASSUME LibraryAssumption ==
    /\ Texts # {} /\ None \notin Texts
    /\ None \notin Areas /\ None \notin AreaRow
    /\ \A f \in Edits \union Captures : FieldsOK(f)
    /\ \A p \in Payloads : PayloadOK(p)
    /\ FirstNotes \in Seq(Row) /\ FirstTags \subseteq Tags
    /\ FirstAreas \in [Areas -> AreaRow \union {None}]
    /\ \A n \in 1 .. Len(FirstNotes) :
          /\ FirstNotes[n].area # None => FirstAreas[FirstNotes[n].area] # None
          /\ FirstNotes[n].status = "active" => Homed(FirstNotes[n])
          /\ FirstNotes[n].tags \subseteq FirstTags
    /\ \A a \in Areas : FirstAreas[a] # None /\ FirstAreas[a].parent # None =>
          /\ FirstAreas[FirstAreas[a].parent] # None
          /\ FirstAreas[FirstAreas[a].parent].parent = None

(* Mutant: Thoughts left out.                                              *)
IndexedTitle(r) == [text |-> r.text, tags |-> r.tags, entries |-> {}]

(* What _fts_sync puts in the search index for a row.                      *)
Indexed(r) == [text |-> r.text, tags |-> r.tags, entries |-> r.entries]
Synced(n, r) == [i \in DOMAIN index \union {n} |->
                    IF i = n THEN Indexed(r) ELSE index[i]]

----------------------------------------------------------------------------
(* Reading: one page of a list, its total, and the counts beside the       *)
(* filters.  A filter leaves out what it does not name.                    *)

Filters == [status : NOTE_STATUSES \union {None, "live"},
            area : Areas \union {None}, tag : Tags \union {None}]

(* status=..., or exclude_archived, or neither.                            *)
InStatus(n, s) == CASE s = None   -> TRUE
                    [] s = "live" -> note[n].status # "archived"
                    [] OTHER      -> note[n].status = s

(* list_notes' own copy of the WHERE clause.                               *)
Listed(f) ==
    {n \in Ids :
        /\ InStatus(n, f.status)
        /\ f.tag # None => f.tag \in note[n].tags
        /\ f.area # None => note[n].area \in {f.area} \union SubAreas(f.area)}

(* _scope_sql, which search, counts and facets share.                      *)
Scoped(f) ==
    {n \in Ids :
        /\ InStatus(n, f.status)
        /\ f.area # None => \/ note[n].area = f.area
                            \/ note[n].area \in SubAreas(f.area)
        /\ f.tag # None => f.tag \in note[n].tags}

(* A search for a text, q, within a filter; counting does without the join.*)
Matching(q)    == {n \in DOMAIN index : \/ index[n].text = q
                                        \/ \E e \in index[n].entries : e.text = q}
Searched(f, q) == Matching(q) \intersect Scoped(f)
Counted(f, q)  == Cardinality({n \in Scoped(f) : q # None => n \in Matching(q)})

(* The facets of note_facets: each counted with its own dimension left out.*)
AreaFacetFlat(f, a) ==                                   \* mutant: no rollup
    IF ~Born(a) \/ area[a].archived THEN 0
    ELSE Cardinality({n \in Scoped([f EXCEPT !.area = None]) : note[n].area = a})
AreaFacet(f, a) ==
    IF Born(a) /\ ~area[a].archived
    THEN Cardinality({n \in Scoped([f EXCEPT !.area = None]) :
            \/ note[n].area = a
            \/ note[n].area # None /\ area[note[n].area].parent = a})
    ELSE 0
TagFacet(f, g) == Cardinality({n \in Scoped([f EXCEPT !.tag = None]) :
                                  g \in note[n].tags})

----------------------------------------------------------------------------
(* Validating a proposal's payload against the rows as they stand.         *)

FilingOK(f, coined) ==
    /\ Named(f, "area", None) # None => Born(f.area)
    /\ Named(f, "tags", {}) \subseteq taxonomy \union coined

NewAreaOK(p) ==
    p.new_area # None =>
        /\ "area" \notin DOMAIN p.filing
        /\ ~Born(p.new_area.name)
        /\ p.new_area.parent # None =>
              Born(p.new_area.parent) /\ area[p.new_area.parent].parent = None

Valid(p, n) ==
    CASE p.kind = "file" ->
           /\ NewAreaOK(p)
           /\ p.new_tags \subseteq Named(p.filing, "tags", {})
           /\ FilingOK(p.filing, p.new_tags)
           /\ p.archive => p.new_area = None
           /\ \/ p.archive
              \/ p.new_area # None
              \/ {"area", "project"} \intersect DOMAIN p.filing # {}
              \/ DOMAIN p.filing # {} /\ Homed(note[n])
      [] p.kind = "split" ->
           /\ p.new_tags \subseteq UNION {Named(p.parts[i], "tags", {}) : i \in DOMAIN p.parts}
           /\ \A i \in DOMAIN p.parts : FilingOK(p.parts[i], p.new_tags)
      [] p.kind = "contradiction" ->
           /\ p.other # n /\ p.other \in Ids
           /\ ~ /\ note[n].disputed /\ note[p.other].disputed
                /\ [kind |-> "note", id |-> p.other] \in note[n].links
      [] p.kind = "new_task" -> p.project \/ note[n].project
      [] p.kind = "append_entry" ->
           /\ p.target # n /\ p.target \in Ids
           /\ note[p.target].status # "archived"

PayloadTags(p) ==
    CASE p.kind = "file"  -> Named(p.filing, "tags", {})
      [] p.kind = "split" -> UNION {Named(p.parts[i], "tags", {}) : i \in DOMAIN p.parts}
      [] OTHER -> {}

----------------------------------------------------------------------------
(* The store calls an approval makes once its payload is valid, in order.  *)

UpdateCall(n, f)     == [call |-> "update", note |-> n, fields |-> f]
LinkCall(n, kind, i) == [call |-> "link", note |-> n, kind |-> kind, id |-> i]
CreateCall(f, p)     == [call |-> "create", fields |-> f, part |-> p]
Archive(n)           == UpdateCall(n, [status |-> "archived"])

PartOf(f) == [k \in DOMAIN f \union {"status"} |->
                 IF k # "status" THEN f[k]
                 ELSE IF Named(f, "area", None) # None \/ Named(f, "project", FALSE)
                      THEN "active" ELSE "inbox"]

FilePlan(p, n) ==
    LET home  == IF p.new_area = None THEN p.filing
                 ELSE [k \in DOMAIN p.filing \union {"area"} |->
                          IF k = "area" THEN p.new_area.name ELSE p.filing[k]]
        moved == [k \in DOMAIN home \union {"status"} |->
                     IF k = "status" THEN IF p.archive THEN "archived" ELSE "active"
                     ELSE home[k]]
    IN  (IF p.new_area = None THEN <<>>
         ELSE << [call |-> "area", name |-> p.new_area.name,
                  parent |-> p.new_area.parent] >>)
        \o << UpdateCall(n, moved) >>

(* The capture joins the target first; only then may it be archived.       *)
AppendPlanArchiveFirst(p, n, text) ==                    \* mutant
    (IF p.archive THEN << Archive(n) >> ELSE <<>>)
    \o << [call |-> "entry", note |-> p.target, entry |-> [from |-> n, text |-> text]],
          LinkCall(n, "note", p.target) >>
AppendPlan(p, n, text) ==
    << [call |-> "entry", note |-> p.target, entry |-> [from |-> n, text |-> text]],
       LinkCall(n, "note", p.target) >>
    \o (IF p.archive THEN << Archive(n) >> ELSE <<>>)

SplitPlan(p, n, pid) ==
    [i \in DOMAIN p.parts |-> CreateCall(PartOf(p.parts[i]), pid)]
    \o (IF p.archive THEN << Archive(n) >> ELSE <<>>)

ContradictionPlan(p, n) ==
    << UpdateCall(n, [disputed |-> TRUE]), LinkCall(n, "note", p.other),
       UpdateCall(p.other, [disputed |-> TRUE]), LinkCall(p.other, "note", n) >>

TaskPlan(n)     == << [call |-> "mint"], LinkCall(n, "task", 0) >>
ReminderPlan(n) == << [call |-> "mint"], LinkCall(n, "schedule", 0) >>

Plan(p, n, pid) ==
    CASE p.kind = "file"          -> FilePlan(p, n)
      [] p.kind = "split"         -> SplitPlan(p, n, pid)
      [] p.kind = "contradiction" -> ContradictionPlan(p, n)
      [] p.kind = "new_task"      -> TaskPlan(n)
      [] p.kind = "append_entry"  -> AppendPlan(p, n, note[n].text)

(* Whether the owner edited the payload shows in the row as it is read.    *)
CheckCall(p, pid) == [call |-> "check", payload |-> p, pid |-> pid,
                      edited |-> p # proposal[pid].payload]
ApprovalDecidedFirst(p, pid) ==                          \* mutant
    << CheckCall(p, pid),
       [call |-> "decide", payload |-> p, pid |-> pid] >>
    \o Plan(p, proposal[pid].note, pid)
Approval(p, pid) ==
    LET n == proposal[pid].note
    IN  << CheckCall(p, pid) >>
        \o Plan(p, n, pid)
        \o << [call |-> "decide", payload |-> p, pid |-> pid] >>

----------------------------------------------------------------------------
Init == /\ note = FirstNotes
        /\ index = [n \in DOMAIN FirstNotes |-> Indexed(FirstNotes[n])]
        /\ taxonomy = FirstTags
        /\ area = FirstAreas
        /\ proposal = <<>>
        /\ tasks = 0
        /\ job = [t \in Tabs |-> None]
        /\ draft = None
        /\ requests = 0 /\ crashes = 0
        /\ raced = FALSE

(* The librarian: create_proposal validates against what it reads ...      *)
Propose(n, p) ==
    /\ draft = None /\ Len(proposal) < MaxProposals
    /\ ~(p.kind \in OWNER_EYES_KINDS /\ p \in Routinely)
    /\ Valid(p, n)
    /\ draft' = [note |-> n, payload |-> p,
                 class |-> IF p \in Routinely THEN "routine" ELSE "needs_attention"]
    /\ UNCHANGED <<library, area, proposal, tasks, job, requests, crashes, raced>>

Superseded(q, d) == q.note = d.note /\ q.payload.kind = d.payload.kind /\ q.status = "pending"

(* ... and then, in one transaction, supersedes the older pending proposal *)
(* of the same kind on the same note and inserts its own.                  *)
FileProposal ==
    /\ draft # None
    /\ proposal' = Append([i \in DOMAIN proposal |->
                             IF Superseded(proposal[i], draft)
                             THEN [proposal[i] EXCEPT !.status = "superseded"]
                             ELSE proposal[i]],
                          [note |-> draft.note, payload |-> draft.payload,
                           class |-> draft.class, status |-> "pending"])
    /\ draft' = None
    /\ UNCHANGED <<library, area, tasks, job, requests, crashes, raced>>

----------------------------------------------------------------------------
(* The owner's requests: each puts the store calls it makes in its job.    *)

Busy(t) == job[t] # None
Overlaps(t) == \E u \in Tabs \ {t} : Busy(u)

Start(calls, bulk) == [calls |-> calls, seen |-> None, made |-> 0, bulk |-> bulk]
Open(pid) == << [call |-> "open", pid |-> pid] >>

AskFor(t, work) ==
    /\ ~Busy(t) /\ requests < MaxRequests
    /\ requests' = requests + 1
    /\ job' = [job EXCEPT ![t] = work]
    /\ raced' = (raced \/ Overlaps(t))
    /\ UNCHANGED <<library, area, proposal, tasks, draft, crashes>>
Ask(t, calls) == AskFor(t, Start(calls, <<>>))

CreateNote(t)   == \E f \in Captures : Ask(t, << CreateCall(f, 0) >>)
EditNote(t)     == \E n \in Ids, f \in Edits : Ask(t, << UpdateCall(n, f) >>)
AddEntry(t)     == \E n \in Ids, x \in Texts :
                      Ask(t, << [call |-> "entry", note |-> n,
                                 entry |-> [from |-> n, text |-> x]] >>)
AddTags(t)      == \E n \in Ids, g \in Tags :
                      Ask(t, << [call |-> "addtags", note |-> n, tags |-> {g}] >>)
RenameTag(t)    == \E g \in Tags : \E h \in Tags \ {g} :
                      Ask(t, << [call |-> "retag", old |-> g, new |-> {h}] >>)
RetireTag(t)    == \E g \in Tags : Ask(t, << [call |-> "retag", old |-> g, new |-> {}] >>)
CreateArea(t)   == \E a \in Areas, b \in Areas \union {None} :
                      ~Born(a) /\ Ask(t, << [call |-> "area", name |-> a, parent |-> b] >>)
RetireArea(t)   == \E a \in Areas, off \in BOOLEAN :
                      Ask(t, << [call |-> "retire", name |-> a, off |-> off] >>)
MoveArea(t)     == \E a \in Areas, b \in Areas \union {None} :
                      Ask(t, << [call |-> "nest", name |-> a, parent |-> b] >>)
(* The owner names a project when the note has none.                       *)
NewTask(t)      == \E n \in Ids : Ask(t, TaskPlan(n))
NewReminder(t)  == \E n \in Ids : Ask(t, ReminderPlan(n))
Reject(t)       == \E i \in DOMAIN proposal :
                      Ask(t, << [call |-> "reject", pid |-> i] >>)

(* approve_proposal reads the proposal and its note; the owner may have    *)
(* edited the payload before pressing the button.                          *)
Approve(t) ==
    \E i \in DOMAIN proposal :
        /\ proposal[i].status = "pending"
        /\ \E p \in {q \in Payloads : q.kind = proposal[i].payload.kind} :
              Ask(t, Approval(p, i))

(* approve_routine_proposals: the pending routine ones, oldest first, one  *)
(* failure never stopping the rest.                                        *)
Routine == {i \in DOMAIN proposal : /\ proposal[i].status = "pending"
                                    /\ proposal[i].class = "routine"}
ApproveRoutine(t) ==
    /\ Routine # {}
    /\ \E ids \in [1 .. Cardinality(Routine) -> Routine] :
          /\ \A i, j \in DOMAIN ids : i < j => ids[i] < ids[j]
          /\ AskFor(t, Start(Open(ids[1]), Tail(ids)))

Request(t) ==
    \/ CreateNote(t) \/ EditNote(t) \/ AddEntry(t) \/ AddTags(t)
    \/ RenameTag(t) \/ RetireTag(t)
    \/ CreateArea(t) \/ RetireArea(t) \/ MoveArea(t)
    \/ NewTask(t) \/ NewReminder(t) \/ Reject(t) \/ Approve(t) \/ ApproveRoutine(t)

----------------------------------------------------------------------------
(* What a call finds before its transaction writes.                        *)

Call(t) == Head(job[t].calls)
Gapped  == {"update", "addtags", "retag", "area", "retire", "nest", "reject"}

AreaFree(c) ==
    /\ ~Born(c.name)
    /\ c.parent # None => Born(c.parent) /\ area[c.parent].parent = None

Retirable(c) ==
    /\ Born(c.name)
    /\ c.off => /\ \A n \in Ids : note[n].area = c.name => note[n].status = "archived"
                /\ \A b \in SubAreas(c.name) : area[b].archived

Nestable(c) ==
    /\ Born(c.name)
    /\ c.parent # None => /\ c.parent # c.name /\ Born(c.parent)
                          /\ area[c.parent].parent = None
                          /\ SubAreas(c.name) = {}

(* What the call may go on with, None when it is refused.                  *)
Found(c) ==
    CASE c.call = "update"  -> note[c.note]
      [] c.call = "addtags" -> note[c.note]
      [] c.call = "retag"   -> IF c.old \in taxonomy
                               THEN [n \in Ids |-> note[n].tags] ELSE None
      [] c.call = "area"    -> IF AreaFree(c) THEN "free" ELSE None
      [] c.call = "retire"  -> IF Retirable(c) THEN "empty" ELSE None
      [] c.call = "nest"    -> IF Nestable(c) THEN "flat" ELSE None
      [] c.call = "reject"  -> IF proposal[c.pid].status = "pending"
                               THEN "pending" ELSE None

(* A refused call raises: the request ends with what it has done so far,   *)
(* except that a bulk approval goes on with the next proposal.             *)
NextJob(t) == IF job[t].bulk = <<>> THEN None
              ELSE Start(Open(Head(job[t].bulk)), Tail(job[t].bulk))
Moved(t, made) ==
    IF Tail(job[t].calls) = <<>> THEN NextJob(t)
    ELSE [job[t] EXCEPT !.calls = Tail(@), !.seen = None, !.made = made]

GiveUp(t) == /\ job' = [job EXCEPT ![t] = NextJob(t)]
             /\ UNCHANGED <<library, area, proposal, tasks>>
Done(t)   == job' = [job EXCEPT ![t] = Moved(t, job[t].made)]

Look(t) ==
    /\ Busy(t) /\ Call(t).call \in Gapped /\ job[t].seen = None
    /\ IF Found(Call(t)) = None THEN GiveUp(t)
       ELSE /\ job' = [job EXCEPT ![t].seen = Found(Call(t))]
            /\ UNCHANGED <<library, area, proposal, tasks>>
    /\ UNCHANGED <<draft, requests, crashes, raced>>

----------------------------------------------------------------------------
(* What a call writes.  The home rule of update_note speaks of the row it  *)
(* read, and only when the edit touches status or filing.                  *)

EndsUp(f, seen) == Over(f, seen)
HomeRuleExplicit(f, seen) ==                             \* mutant
    Named(f, "status", "") = "active" => Homed(EndsUp(f, seen))
HomeRule(f, seen) ==
    /\ {"status", "area", "project"} \intersect DOMAIN f # {}
    /\ EndsUp(f, seen).status = "active"
    => Homed(EndsUp(f, seen))
AreaKnown(f) == Named(f, "area", None) # None => Born(f.area)

Registered(tags) == taxonomy \union tags

PutNote(n, r) == /\ note' = [note EXCEPT ![n] = r]
                 /\ index' = Synced(n, r)

WriteUpdate(t, c) ==
    IF HomeRule(c.fields, job[t].seen) /\ AreaKnown(c.fields)
    THEN /\ PutNote(c.note, Over(c.fields, note[c.note]))
         /\ taxonomy' = Registered(Named(c.fields, "tags", {}))
         /\ Done(t) /\ UNCHANGED <<area, proposal, tasks>>
    ELSE GiveUp(t)

WriteCreate(t, c) ==
    LET r == [Over(c.fields, BlankRow) EXCEPT !.part = c.part]
    IN  IF (r.status = "active" => Homed(r)) /\ AreaKnown(c.fields)
        THEN /\ note' = Append(note, r)
             /\ index' = Synced(Len(note) + 1, r)
             /\ taxonomy' = Registered(r.tags)
             /\ Done(t) /\ UNCHANGED <<area, proposal, tasks>>
        ELSE GiveUp(t)

WriteEntry(t, c) ==
    /\ PutNote(c.note, [note[c.note] EXCEPT !.entries = @ \union {c.entry}])
    /\ Done(t) /\ UNCHANGED <<taxonomy, area, proposal, tasks>>

WriteLink(t, c) ==
    /\ note' = [note EXCEPT ![c.note].links = @ \union
                  {[kind |-> c.kind, id |-> IF c.kind = "note" THEN c.id ELSE job[t].made]}]
    /\ Done(t) /\ UNCHANGED <<index, taxonomy, area, proposal, tasks>>

(* add_note_tags merges into the list it read; when the note already       *)
(* carries them all, nothing is written.                                   *)
WriteTags(t, c) ==
    /\ IF c.tags \subseteq job[t].seen.tags THEN UNCHANGED library
       ELSE /\ PutNote(c.note, [note[c.note] EXCEPT !.tags = job[t].seen.tags \union c.tags])
            /\ taxonomy' = Registered(c.tags)
    /\ Done(t) /\ UNCHANGED <<area, proposal, tasks>>

(* rename_tag and retire_tag rewrite the lists they read, where the tag is,*)
(* and re-index those notes.                                               *)
Swapped(tags, c) == IF c.old \in tags THEN (tags \ {c.old}) \union c.new ELSE tags
WriteRetag(t, c) ==
    LET seen == job[t].seen
        hit  == {n \in DOMAIN seen : c.old \in seen[n]}
        new  == [n \in Ids |-> IF n \in hit
                               THEN [note[n] EXCEPT !.tags = Swapped(seen[n], c)]
                               ELSE note[n]]
    IN  /\ note' = new
        /\ index' = [n \in Ids |-> IF n \in hit THEN Indexed(new[n]) ELSE index[n]]
        /\ taxonomy' = (taxonomy \ {c.old}) \union c.new
        /\ Done(t) /\ UNCHANGED <<area, proposal, tasks>>

WriteArea(t, c) ==
    IF c.call = "area" /\ Born(c.name) THEN GiveUp(t)     \* the UNIQUE index
    ELSE /\ area' = [area EXCEPT ![c.name] =
                       CASE c.call = "area"   -> [parent |-> c.parent, archived |-> FALSE]
                         [] c.call = "retire" -> [@ EXCEPT !.archived = c.off]
                         [] c.call = "nest"   -> [@ EXCEPT !.parent = c.parent]]
         /\ Done(t) /\ UNCHANGED <<library, proposal, tasks>>

WriteTask(t) ==
    /\ tasks' = tasks + 1
    /\ job' = [job EXCEPT ![t] = Moved(t, tasks + 1)]
    /\ UNCHANGED <<library, area, proposal>>

(* The approval's own two transactions.  An edited payload's tags are the  *)
(* owner's word and join the taxonomy with the validation that uses them.  *)
WriteCheck(t, c) ==
    LET coined == IF c.edited THEN PayloadTags(c.payload) ELSE {}
        p      == IF c.payload.kind \in {"file", "split"}
                  THEN [c.payload EXCEPT !.new_tags = @ \union coined] ELSE c.payload
    IN  IF Valid(p, proposal[c.pid].note)
        THEN /\ taxonomy' = Registered(coined)
             /\ Done(t) /\ UNCHANGED <<note, index, area, proposal, tasks>>
        ELSE GiveUp(t)

WriteDecision(t, c) ==
    /\ proposal' = [proposal EXCEPT ![c.pid].status =
                                       IF c.call = "reject" THEN "rejected" ELSE "approved",
                                    ![c.pid].payload =
                                       IF c.call = "reject" THEN @ ELSE c.payload]
    /\ Done(t) /\ UNCHANGED <<library, area, tasks>>

(* The next proposal of a bulk approval.                                   *)
WriteOpen(t, c) ==
    IF proposal[c.pid].status = "pending"
    THEN /\ job' = [job EXCEPT ![t].calls =
                       Approval(proposal[c.pid].payload, c.pid)]
         /\ UNCHANGED <<library, area, proposal, tasks>>
    ELSE GiveUp(t)

Write(t) ==
    /\ Busy(t) /\ (Call(t).call \in Gapped => job[t].seen # None)
    /\ LET c == Call(t) IN
       CASE c.call = "update"  -> WriteUpdate(t, c)
         [] c.call = "create"  -> WriteCreate(t, c)
         [] c.call = "entry"   -> WriteEntry(t, c)
         [] c.call = "link"    -> WriteLink(t, c)
         [] c.call = "addtags" -> WriteTags(t, c)
         [] c.call = "retag"   -> WriteRetag(t, c)
         [] c.call \in {"area", "retire", "nest"} -> WriteArea(t, c)
         [] c.call = "mint"    -> WriteTask(t)
         [] c.call = "check"   -> WriteCheck(t, c)
         [] c.call = "open"    -> WriteOpen(t, c)
         [] c.call \in {"decide", "reject"} -> WriteDecision(t, c)
    /\ UNCHANGED <<draft, requests, crashes, raced>>

(* The server dies: its requests stop where they are.                      *)
Crash ==
    /\ crashes < MaxCrashes /\ \E t \in Tabs : Busy(t)
    /\ crashes' = crashes + 1
    /\ job' = [t \in Tabs |-> None]
    /\ UNCHANGED <<library, area, proposal, tasks, draft, requests, raced>>

Next ==
    \/ \E n \in Ids, p \in Payloads : Propose(n, p)
    \/ FileProposal
    \/ \E t \in Tabs : Request(t) \/ Look(t) \/ Write(t)
    \/ Crash

Spec == Init /\ [][Next]_vars

----------------------------------------------------------------------------
(* Search sees every note as it is: whichever tabs race, each transaction  *)
(* that changes a title, body, tag or Thought leaves the index in step     *)
(* (_fts_sync is called inside it).                                        *)
FtsFresh ==
    \A n \in Ids : /\ index[n].text = note[n].text
                   /\ index[n].tags = note[n].tags
                   /\ index[n].entries = note[n].entries

(* While requests come one at a time - approvals, crashes of approvals and *)
(* a librarian filing proposals meanwhile included - every active note has *)
(* a home, every tag a note carries is in the closed taxonomy, and areas   *)
(* stay two levels deep (update_note, _register_tags, create_area,         *)
(* update_area).                                                           *)
ActiveHomed == \A n \in Ids : note[n].status = "active" => Homed(note[n])
TagsKnown   == \A n \in Ids : note[n].tags \subseteq taxonomy
TwoLevels   == \A a \in Areas : Born(a) /\ area[a].parent # None =>
                  area[area[a].parent].parent = None
TidyAlone   == ~raced => ActiveHomed /\ TagsKnown /\ TwoLevels

(* Applying a proposal never buries a capture: an approval archives the    *)
(* note it came from only when what was taken out of it is already         *)
(* somewhere else (append_entry, split), whatever dies in between.         *)
Rescued(p, pid, n) ==
    CASE p.kind = "append_entry" -> \E e \in note[p.target].entries : e.from = n
      [] p.kind = "split" -> Cardinality({m \in Ids : note[m].part = pid}) >= Len(p.parts)
      [] OTHER -> TRUE
Applying(t) == /\ Busy(t) /\ job[t].calls # <<>>
               /\ \E i \in DOMAIN job[t].calls : job[t].calls[i].call = "decide"
Decision(t) == job[t].calls[CHOOSE i \in DOMAIN job[t].calls :
                                 job[t].calls[i].call = "decide"]
CaptureKept ==
    [][\A t \in Tabs :
         /\ Applying(t) /\ job'[t] # job[t] /\ Call(t).call = "update"
         /\ note'[Call(t).note] # note[Call(t).note]
         /\ Named(Call(t).fields, "status", "") = "archived"
         => Rescued(Decision(t).payload, Decision(t).pid, Call(t).note)]_vars

(* "Approved" tells the truth: what the decided row says was done can be   *)
(* found in the Library, even when the approval was cut short and repeated *)
(* or raced another tab (the status is written last).                      *)
Landed ==
    \A i \in DOMAIN proposal :
        LET p == proposal[i].payload  n == proposal[i].note IN
        proposal[i].status = "approved" =>
            /\ Rescued(p, i, n)
            /\ p.kind = "contradiction" =>
                  /\ [kind |-> "note", id |-> p.other] \in note[n].links
                  /\ [kind |-> "note", id |-> n] \in note[p.other].links
            /\ p.kind = "new_task" => \E l \in note[n].links : l.kind = "task"
            /\ p.kind = "file" /\ p.new_area # None => Born(p.new_area.name)

(* Between requests, browse, search and count agree about every filter: the*)
(* total of a page is what the list would return, a filter option's count  *)
(* is what picking it would list, and a search finds the listed notes that *)
(* say so now (list_notes keeps its own copy of the clause _scope_sql gives*)
(* to search_notes, count_notes and note_facets).                          *)
Says(n, q) == note[n].text = q \/ \E e \in note[n].entries : e.text = q
Quiet == draft = None /\ \A t \in Tabs : ~Busy(t)
PagesAgree == Quiet =>
    \A f \in {g \in Filters : g.area # None => Born(g.area)} :
        LET page == Listed(f) IN
        /\ Counted(f, None) = Cardinality(page)
        /\ \A q \in Texts :
              LET found == Searched(f, q) IN
              /\ found = {n \in page : Says(n, q)}
              /\ Counted(f, q) = Cardinality(found)
        /\ f.area # None /\ ~area[f.area].archived =>
              AreaFacet(f, f.area) = Cardinality(page)
        /\ f.tag # None => TagFacet(f, f.tag) = Cardinality(page)
=============================================================================
