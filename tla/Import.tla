------------------------------- MODULE Import -------------------------------
(***************************************************************************)
(* Bringing other programs' notes home (backend/notes_import.py, the       *)
(* `brain-import run` command).  A dump is a fixed list of files in walk   *)
(* order.  Code decides what each file's content is, then what it becomes, *)
(* and two passes over the dump write it: notes first, then the tasks that *)
(* mirror a note, as Thoughts on it.  A run may die anywhere, take a slice *)
(* of the dump, and be repeated.                                           *)
(*                                                                         *)
(* A text, a title or a file is a value; Secrets, Fragments and Nameless   *)
(* are the ones the code's patterns match.  Tags are left out.             *)
(***************************************************************************)
EXTENDS Integers, Sequences, FiniteSets

CONSTANTS Dumps,          \* the dumps a run may be pointed at: sequences of units
          Secrets,        \* texts scan_secrets matches
          Fragments,      \* Keep texts too short to mean anything, or bare links
          Nameless,       \* titles that are only punctuation
          Idents,         \* the files' names, in the order that ranks equal files
          Areas,          \* areas in order of their ids: [name, parent]
          FirstNotes,     \* the library before anything is imported
          Slices,         \* the lengths a run may be cut to (--limit)
          MaxRuns, MaxCrashes, MaxOwnerOps

Blank  == ""
NoText == {Blank}
NoHash == <<>>

(* A file of a dump, with the frontmatter the code reads.                  *)
Unit == [source : STRING, ident : Idents, title : STRING, body : STRING,
         type : {"note", "task", ""}, mirror : BOOLEAN, domain : STRING,
         done : BOOLEAN, old : BOOLEAN, uuid : Seq(STRING), photos : SUBSET STRING]

Dates  == {"then", "now", "restored"}
Digest == Seq(STRING) \X STRING \X STRING \X SUBSET STRING
Note == [title : STRING, body : STRING, status : {"inbox", "active", "archived"},
         area : 0 .. Len(Areas), hash : {NoHash} \union Digest, thoughts : Seq(STRING),
         files : SUBSET STRING, updated : Dates]

(* No two files of a dump have one name, and a dump has files.  Only an    *)
(* import gives a note a digest, so no first note has one.                 *)
ASSUME ImportAssumption ==
    /\ Idents \subseteq Nat
    /\ Areas \in Seq([name : STRING, parent : Nat])
    /\ FirstNotes \in Seq(Note)
    /\ \A n \in DOMAIN FirstNotes : FirstNotes[n].hash = NoHash
    /\ \A d \in Dumps : /\ d \in Seq(Unit) /\ d # <<>>
                        /\ \A i, j \in DOMAIN d : d[i].ident = d[j].ident => i = j

VARIABLES dump,           \* the dump, in walk order
          notes,          \* the library's notes, by id
          links,          \* note_links of kind note
          retired,        \* archived areas
          held,           \* import_quarantine: idents held back
          imp,            \* the run in progress
          runs, crashes, ops,
          whole           \* history: a run over the whole dump has finished

libraryVars == <<notes, links, retired>>
importVars  == <<dump, held, imp, runs, crashes, ops, whole>>

Units == {dump[i] : i \in DOMAIN dump}
sha256(u) == <<u.uuid, u.title, u.body, u.photos>>

----------------------------------------------------------------------------
(* The pre-pass: one decision per unit.                                    *)

Quarantined(u) == u.body \in Secrets
Empty(u)       == u.body \in NoText /\ u.photos = {}
Unique         == {u \in Units : ~Quarantined(u) /\ ~Empty(u)}

(* The copy that stays: never one of an Archive folder before a live one,  *)
(* whatever order the files were walked in.                                *)
Outranks(u, v) == IF u.old # v.old THEN v.old ELSE u.ident < v.ident
Duplicate(u)   == \E v \in Unique : sha256(v) = sha256(u) /\ Outranks(v, u)
Survivors      == {u \in Unique : ~Duplicate(u)}

Superseded(u) == /\ u.old
                 /\ \E v \in Survivors : v.source = u.source /\ ~v.old /\ v.title = u.title
AutoArchived(u) == Superseded(u) \/ (u.source = "keep" /\ u.body \in Fragments)

classify(u) ==
    IF Quarantined(u)       THEN "quarantine"
    ELSE IF Empty(u)        THEN "empty"
    ELSE IF Duplicate(u)    THEN "duplicate"
    ELSE IF AutoArchived(u) THEN "auto_archive"
    ELSE "librarian"

----------------------------------------------------------------------------
(* The plan: where each unit lands.                                        *)

(* A task made from a note is that note's mirror; of several notes with    *)
(* its title, one filed in its own domain is preferred.                    *)
Namesakes(u) == {v \in Units : v.type = "note" /\ v.source = u.source /\ v.title = u.title}
Mirrors(u)   == u.type = "task" /\ u.mirror /\ Namesakes(u) # {}
First(S)     == CHOOSE u \in S : \A v \in S : u.ident <= v.ident
PairTarget(u) ==
    LET near == {v \in Namesakes(u) : v.domain = u.domain}
    IN  First(IF near = {} THEN Namesakes(u) ELSE near)

AreaNamed(name, live) ==
    LET S == {a \in live : Areas[a].name = name}
    IN  IF S = {} THEN 0 ELSE CHOOSE a \in S : \A b \in S : b <= a

Action(kind, status, area) == [does |-> kind, status |-> status, area |-> area]

(* What a unit becomes on its own.                                         *)
OwnPlan(u, live) ==
    LET area == AreaNamed(u.domain, live) IN
    IF classify(u) = "auto_archive"          THEN Action("create", "archived", 0)
    ELSE IF u.source = "focus" /\ u.done     THEN Action("create", "archived", area)
    ELSE IF u.source = "focus" /\ area # 0   THEN Action("create", "active", area)
    ELSE Action("create", "inbox", area)

plan_unit_mirror_first(u, live) ==                          \* mutant
    IF Mirrors(u)                                  THEN Action("append", "", 0)
    ELSE IF classify(u) = "quarantine"             THEN Action("hold", "", 0)
    ELSE IF classify(u) \in {"empty", "duplicate"} THEN Action("skip", "", 0)
    ELSE OwnPlan(u, live)
plan_unit(u, live) ==
    IF classify(u) = "quarantine"                  THEN Action("hold", "", 0)
    ELSE IF classify(u) \in {"empty", "duplicate"} THEN Action("skip", "", 0)
    ELSE IF Mirrors(u)                             THEN Action("append", "", 0)
    ELSE OwnPlan(u, live)

clean_title(u) == IF u.title \in Nameless THEN u.body ELSE u.title

----------------------------------------------------------------------------
(* The run.  `pass` is 0 when no run is in progress; `files` are those the *)
(* note just written still waits for.                                      *)

Unread == [read |-> FALSE, bodies |-> {}]
NoRun == [pass |-> 0, i |-> 1, limit |-> 0, live |-> {},
          ids  |-> [k \in Idents |-> 0],
          seen |-> [k \in Idents |-> Unread], note |-> 0, files |-> {}]

Init ==
    /\ dump \in Dumps
    /\ notes = FirstNotes /\ links = {} /\ retired = {}
    /\ held = {}
    /\ imp = NoRun
    /\ runs = 0 /\ crashes = 0 /\ ops = 0
    /\ whole = FALSE

create_note(u, plan) ==
    notes' = Append(notes, [title |-> clean_title(u), body |-> u.body,
                            status |-> plan.status, area |-> plan.area,
                            hash |-> sha256(u), thoughts |-> <<>>, files |-> {},
                            updated |-> "now"])

(* Any note that carries this digest, 0 when there is none.                *)
note_by_content_hash(h) ==
    LET S == {n \in DOMAIN notes : notes[n].hash = h}
    IN  IF S = {} THEN 0 ELSE CHOOSE n \in S : \A m \in S : n <= m

Learn(u, n) == [imp.ids EXCEPT ![u.ident] = n]

import_source(limit) ==
    /\ imp.pass = 0 /\ runs < MaxRuns
    /\ runs' = runs + 1
    /\ imp' = [NoRun EXCEPT !.pass = 1, !.limit = limit,
                            !.live = (DOMAIN Areas) \ retired]
    /\ UNCHANGED <<libraryVars, dump, held, crashes, ops, whole>>

Running(pass) == imp.pass = pass /\ imp.files = {} /\ imp.i <= imp.limit
ThisUnit      == dump[imp.i]
ThisPlan      == plan_unit(ThisUnit, imp.live)
NextUnit      == [imp EXCEPT !.i = @ + 1]

(* An APPEND waits for the second pass.                                    *)
PassOver ==
    /\ \/ Running(1) /\ ThisPlan.does \in {"skip", "append"}
       \/ Running(2) /\ ThisPlan.does # "append"
    /\ imp' = NextUnit
    /\ UNCHANGED <<libraryVars, dump, held, runs, crashes, ops, whole>>

quarantine_unit ==
    /\ Running(1) /\ ThisPlan.does = "hold"
    /\ held' = held \union {ThisUnit.ident}
    /\ imp' = NextUnit
    /\ UNCHANGED <<libraryVars, dump, runs, crashes, ops, whole>>

(* The note is committed before its files are attached.                    *)
Created(plan, next) ==
    /\ create_note(ThisUnit, plan)
    /\ imp' = [next EXCEPT !.ids = Learn(ThisUnit, Len(notes) + 1),
                           !.note = Len(notes) + 1, !.files = ThisUnit.photos]

CreateUnchecked ==                                          \* mutant
    /\ Running(1) /\ ThisPlan.does = "create"
    /\ Created(ThisPlan, NextUnit)
    /\ UNCHANGED <<links, retired, dump, held, runs, crashes, ops, whole>>
CreateUnit ==
    /\ Running(1) /\ ThisPlan.does = "create"
    /\ LET n == note_by_content_hash(sha256(ThisUnit)) IN
       IF n # 0 THEN imp' = [NextUnit EXCEPT !.ids = Learn(ThisUnit, n)] /\ UNCHANGED notes
       ELSE Created(ThisPlan, NextUnit)
    /\ UNCHANGED <<links, retired, dump, held, runs, crashes, ops, whole>>

(* One file: written, indexed, and the note's updated_at stamped.          *)
_attach(f) ==
    /\ imp.pass # 0 /\ f \in imp.files
    /\ notes' = [notes EXCEPT ![imp.note].files = @ \union {f}, ![imp.note].updated = "now"]
    /\ imp' = [imp EXCEPT !.files = @ \ {f}]
    /\ UNCHANGED <<links, retired, dump, held, runs, crashes, ops, whole>>

SecondPass ==
    /\ imp.pass = 1 /\ imp.files = {} /\ imp.i > imp.limit
    /\ imp' = [imp EXCEPT !.pass = 2, !.i = 1]
    /\ UNCHANGED <<libraryVars, dump, held, runs, crashes, ops, whole>>

(* The note of the mirrored unit: this run's, else an earlier run's.       *)
_target_note_id(u) ==
    IF imp.ids[u.ident] # 0 THEN imp.ids[u.ident] ELSE note_by_content_hash(sha256(u))

(* The Thoughts already there are read once per target and run.            *)
ThoughtsOf(n) == {notes[n].thoughts[k] : k \in DOMAIN notes[n].thoughts}
_entry_bodies(t, n) == IF imp.seen[t.ident].read THEN imp.seen[t.ident].bodies ELSE ThoughtsOf(n)
Remember(t, bodies) == [imp.seen EXCEPT ![t.ident] = [read |-> TRUE, bodies |-> bodies]]

(* An earlier run made it a note of its own: reported, never merged.       *)
AlreadyOwnNote ==
    /\ Running(2) /\ ThisPlan.does = "append"
    /\ LET own == note_by_content_hash(sha256(ThisUnit)) IN
       own # 0 /\ imp' = [NextUnit EXCEPT !.ids = Learn(ThisUnit, own)]
    /\ UNCHANGED <<libraryVars, dump, held, runs, crashes, ops, whole>>

(* The note it mirrors was held back, dropped or lies outside the slice:   *)
(* the task becomes a note after all.                                      *)
FallbackDropped ==                                          \* mutant
    /\ Running(2) /\ ThisPlan.does = "append"
    /\ note_by_content_hash(sha256(ThisUnit)) = 0
    /\ _target_note_id(PairTarget(ThisUnit)) = 0
    /\ imp' = NextUnit
    /\ UNCHANGED <<libraryVars, dump, held, runs, crashes, ops, whole>>
Fallback ==
    /\ Running(2) /\ ThisPlan.does = "append"
    /\ note_by_content_hash(sha256(ThisUnit)) = 0
    /\ _target_note_id(PairTarget(ThisUnit)) = 0
    /\ Created(OwnPlan(ThisUnit, imp.live), NextUnit)
    /\ UNCHANGED <<links, retired, dump, held, runs, crashes, ops, whole>>

_append_mirror ==
    /\ Running(2) /\ ThisPlan.does = "append"
    /\ note_by_content_hash(sha256(ThisUnit)) = 0
    /\ LET t == PairTarget(ThisUnit)
           n == _target_note_id(t)
           bodies == _entry_bodies(t, n)
       IN
       /\ n # 0
       /\ IF ThisUnit.body \in bodies \union NoText      \* a blank Thought is refused
          THEN /\ imp' = [NextUnit EXCEPT !.seen = Remember(t, bodies \union {ThisUnit.body})]
               /\ UNCHANGED notes
          ELSE /\ notes' = [notes EXCEPT ![n].thoughts = Append(@, ThisUnit.body),
                                         ![n].updated = "now"]
               /\ imp' = [NextUnit EXCEPT !.seen = Remember(t, bodies \union {ThisUnit.body}),
                                          !.note = n, !.files = ThisUnit.photos]
    /\ UNCHANGED <<links, retired, dump, held, runs, crashes, ops, whole>>

RunEnds ==
    /\ imp.pass = 2 /\ imp.files = {} /\ imp.i > imp.limit
    /\ whole' = (whole \/ imp.limit = Len(dump))
    /\ imp' = NoRun
    /\ UNCHANGED <<libraryVars, dump, held, runs, crashes, ops>>

ImportCrash ==
    /\ imp.pass # 0 /\ crashes < MaxCrashes
    /\ crashes' = crashes + 1 /\ imp' = NoRun
    /\ UNCHANGED <<libraryVars, dump, held, runs, ops, whole>>

ImportStep ==
    \/ \E limit \in (Slices \intersect 1 .. Len(dump)) \union {Len(dump)} : import_source(limit)
    \/ PassOver \/ quarantine_unit \/ CreateUnit \/ SecondPass
    \/ AlreadyOwnNote \/ Fallback \/ _append_mirror \/ RunEnds \/ ImportCrash
    \/ \E f \in imp.files : _attach(f)

----------------------------------------------------------------------------
(* The owner at the library meanwhile.                                     *)

OwnerOp == ops < MaxOwnerOps /\ ops' = ops + 1
                             /\ UNCHANGED <<dump, held, imp, runs, crashes, whole>>

ArchiveNote(n) == /\ OwnerOp /\ notes[n].status # "archived"
                  /\ notes' = [notes EXCEPT ![n].status = "archived", ![n].updated = "now"]
                  /\ UNCHANGED <<links, retired>>
Relate(n, m)   == /\ OwnerOp /\ n # m /\ <<n, m>> \notin links
                  /\ links' = links \union {<<n, m>>} /\ UNCHANGED <<notes, retired>>
(* Only archived notes may trail a retired area.                           *)
RetireArea(a)  == /\ OwnerOp /\ a \notin retired
                  /\ \A n \in DOMAIN notes : notes[n].area = a => notes[n].status = "archived"
                  /\ \A b \in DOMAIN Areas : Areas[b].parent = a => b \in retired
                  /\ retired' = retired \union {a} /\ UNCHANGED <<notes, links>>

Owner == \/ \E n \in DOMAIN notes : ArchiveNote(n)
         \/ \E n, m \in DOMAIN notes : Relate(n, m)
         \/ \E a \in DOMAIN Areas : RetireArea(a)

----------------------------------------------------------------------------
(* After a run over the whole dump nothing is missing: every text is held  *)
(* back, blank, a note or a Thought, and, unless a run died on the way,    *)
(* the files of every unit that is a note of its own are on a note.        *)
Accounted ==
    whole => \A u \in Units :
        IF Quarantined(u) THEN u.ident \in held
        ELSE /\ u.body # Blank =>
                   \E n \in DOMAIN notes : u.body \in {notes[n].body} \union ThoughtsOf(n)
             /\ /\ crashes = 0 /\ u.photos # {}
                /\ ~ \E v \in Units : sha256(v) = sha256(u) /\ Mirrors(v)
                => \E n \in DOMAIN notes : u.photos \subseteq notes[n].files

(* The importer never brings key material into the database, not as        *)
(* somebody's Thought.                                                     *)
SecretHeld ==
    \A n \in (DOMAIN notes) \ (DOMAIN FirstNotes) :
        ({notes[n].body} \union ThoughtsOf(n)) \intersect Secrets = {}

(* Two identical files, both of which a task mirrors: the Thoughts read of *)
(* the one note they become are remembered once for each.                  *)
Targets     == {PairTarget(u) : u \in {v \in Units : Mirrors(v)}}
TwinTargets == \E t, v \in Targets : t # v /\ sha256(t) = sha256(v)

(* However often a dump is imported, sliced, cut short and repeated, no    *)
(* unit is two notes, no note that was there before gains a Thought and,   *)
(* but for twin targets, no imported note carries a Thought twice.         *)
ImportOnce ==
    /\ \A n, m \in DOMAIN notes : notes[n].hash = notes[m].hash /\ notes[n].hash # NoHash => n = m
    /\ \A n \in DOMAIN notes :
           IF n \in DOMAIN FirstNotes THEN notes[n].thoughts = FirstNotes[n].thoughts
           ELSE TwinTargets \/ \A j, k \in DOMAIN notes[n].thoughts :
                                  notes[n].thoughts[j] = notes[n].thoughts[k] => j = k
=============================================================================
