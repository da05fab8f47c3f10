------------------------------ MODULE Restore ------------------------------
(***************************************************************************)
(* Taking the library to another machine (backend/notes_export.py,         *)
(* import_export in backend/notes_import.py).  The export reads the tables *)
(* one after another and writes one document per note; the restore reads   *)
(* them into a library that must not hold anything else, one commit per    *)
(* area, note, Thought, file, date and link.  It may die anywhere and be   *)
(* repeated; a note it finds is taken for restored.                        *)
(*                                                                         *)
(* Projects, tags, pinned and disputed are left out.                       *)
(***************************************************************************)
EXTENDS Import

CONSTANTS Marked,         \* texts holding one of the document's own marks
          Cut,            \* what is read back of such a text
          NoZip, MaxRestores, MaxFails, MaxCaptures

ASSUME RestoreAssumption == Cut \in STRING

VARIABLES snap,           \* the note rows the export has read
          zip,            \* the finished archive
          fresh,          \* the other library: notes, areas, links
          res,            \* the restore in progress
          restores, fails, captures,
          done            \* history: a restore has run to its end

restoreVars == <<snap, zip, fresh, res, restores, fails, captures, done>>
vars == <<libraryVars, importVars, restoreVars>>

NoRestore == [at |-> "off", i |-> 1, live |-> {}, map |-> <<>>, note |-> 0,
              thoughts |-> <<>>, files |-> {}]

RestoreInit ==
    /\ Init
    /\ snap = <<>> /\ zip = NoZip
    /\ fresh = [notes |-> <<>>, areas |-> <<>>, links |-> {}]
    /\ res = NoRestore
    /\ restores = 0 /\ fails = 0 /\ captures = 0
    /\ done = FALSE

----------------------------------------------------------------------------
(* The export.                                                             *)

AreaName(a) == IF a = 0 THEN "" ELSE Areas[a].name

ReadNotes ==
    /\ zip = NoZip /\ snap = <<>> /\ snap' = notes
    /\ UNCHANGED <<libraryVars, importVars, zip, fresh, res, restores, fails, captures, done>>

(* Thoughts, links, files and areas are read after the notes.              *)
Document(n) ==
    [id |-> n, title |-> snap[n].title, body |-> snap[n].body, status |-> snap[n].status,
     area |-> AreaName(snap[n].area), hash |-> snap[n].hash, updated |-> snap[n].updated,
     thoughts |-> notes[n].thoughts, files |-> notes[n].files,
     links |-> {m \in DOMAIN notes : <<n, m>> \in links}]

export_zip ==
    /\ zip = NoZip /\ snap # <<>>
    /\ zip' = [notes |-> [n \in DOMAIN snap |-> Document(n)],
               areas |-> [a \in DOMAIN Areas |->
                            [name |-> Areas[a].name, parent |-> AreaName(Areas[a].parent),
                             archived |-> a \in retired]]]
    /\ snap' = <<>>
    /\ UNCHANGED <<libraryVars, importVars, fresh, res, restores, fails, captures, done>>

----------------------------------------------------------------------------
(* What the reader makes of a document.                                    *)

Back(text) == IF text \in Marked THEN Cut ELSE text
(* The Thoughts in their order, without those of which nothing is left.    *)
ThoughtsBack(s) ==
    LET kept == {k \in DOMAIN s : Back(s[k]) # Blank}
    IN  [j \in 1 .. Cardinality(kept) |->
            Back(s[CHOOSE k \in kept : Cardinality({i \in kept : i <= k}) = j])]

(* A restored note keeps its digest, or takes one of its id.               *)
ExportId(d) ==
    <<IF d.hash = NoHash THEN <<"export-note", d.id>> ELSE d.hash, d.title, Back(d.body), d.files>>
Known       == {ExportId(zip.notes[n]) : n \in DOMAIN zip.notes}
Strangers   == {m \in DOMAIN fresh.notes : fresh.notes[m].hash \notin Known}

----------------------------------------------------------------------------
(* The restore.                                                            *)

Elsewhere == UNCHANGED <<libraryVars, importVars, snap, zip, captures>>
In(at)    == res.at = at
Same      == UNCHANGED <<restores, fails>>

import_export ==
    /\ In("off") /\ zip # NoZip /\ restores < MaxRestores
    /\ restores' = restores + 1
    /\ res' = IF Strangers = {} THEN [NoRestore EXCEPT !.at = "areas",
                                          !.map = [n \in DOMAIN zip.notes |-> 0]]
              ELSE NoRestore
    /\ Elsewhere /\ UNCHANGED <<fresh, fails, done>>

FreshNamed(name) == {a \in DOMAIN fresh.areas : fresh.areas[a].name = name}
ThisArea         == zip.areas[res.i]

(* An area whose name is there already is taken for restored; the flag of  *)
(* an archived one is a second commit.                                     *)
RestoreArea ==
    /\ In("areas") /\ res.i <= Len(zip.areas)
    /\ LET parents == FreshNamed(ThisArea.parent)
           parent  == IF parents = {} THEN 0 ELSE CHOOSE a \in parents : TRUE
       IN
       CASE FreshNamed(ThisArea.name) # {} ->
               res' = [res EXCEPT !.i = @ + 1] /\ UNCHANGED fresh
         [] FreshNamed(ThisArea.name) = {} /\ parent # 0 /\ fresh.areas[parent].parent # 0 ->
               res' = NoRestore /\ UNCHANGED fresh       \* two levels: the run fails
         [] OTHER ->
               /\ fresh' = [fresh EXCEPT !.areas = Append(@,
                              [name |-> ThisArea.name, parent |-> parent, archived |-> FALSE])]
               /\ res' = IF ThisArea.archived THEN [res EXCEPT !.at = "retire"]
                         ELSE [res EXCEPT !.i = @ + 1]
    /\ Elsewhere /\ Same /\ UNCHANGED done

RetireRestored ==
    /\ In("retire")
    /\ fresh' = [fresh EXCEPT !.areas[Len(fresh.areas)].archived = TRUE]
    /\ res' = [res EXCEPT !.at = "areas", !.i = @ + 1]
    /\ Elsewhere /\ Same /\ UNCHANGED done

(* Homes are looked up among the live areas only.                          *)
AreasRestored ==
    /\ In("areas") /\ res.i > Len(zip.areas)
    /\ res' = [res EXCEPT !.at = "notes", !.i = 1,
                          !.live = {a \in DOMAIN fresh.areas : ~fresh.areas[a].archived}]
    /\ Elsewhere /\ Same /\ UNCHANGED <<fresh, done>>

ThisDoc == zip.notes[res.i]
HomeOf(d) ==
    LET S == {a \in res.live : fresh.areas[a].name = d.area}
    IN  IF S = {} THEN 0 ELSE CHOOSE a \in S : \A b \in S : b <= a
(* The home rule refuses a homeless active note: it lands in the inbox.    *)
StatusFor(d) == IF d.status = "active" /\ HomeOf(d) = 0 THEN "inbox" ELSE d.status
FoundIn(d) == {m \in DOMAIN fresh.notes : fresh.notes[m].hash = ExportId(d)}

AlreadySkipped ==                                           \* mutant
    /\ In("notes") /\ res.i <= Len(zip.notes) /\ FoundIn(ThisDoc) # {}
    /\ res' = [res EXCEPT !.i = @ + 1]
    /\ Elsewhere /\ Same /\ UNCHANGED <<fresh, done>>
AlreadyRestored ==
    /\ In("notes") /\ res.i <= Len(zip.notes) /\ FoundIn(ThisDoc) # {}
    /\ res' = [res EXCEPT !.i = @ + 1,
                          !.map[ThisDoc.id] = CHOOSE m \in FoundIn(ThisDoc) : TRUE]
    /\ Elsewhere /\ Same /\ UNCHANGED <<fresh, done>>

_restore_note ==
    /\ In("notes") /\ res.i <= Len(zip.notes) /\ FoundIn(ThisDoc) = {}
    /\ fresh' = [fresh EXCEPT !.notes = Append(@,
                   [title |-> ThisDoc.title, body |-> Back(ThisDoc.body),
                    status |-> StatusFor(ThisDoc), area |-> HomeOf(ThisDoc),
                    hash |-> ExportId(ThisDoc), thoughts |-> <<>>, files |-> {},
                    updated |-> "restored"])]
    /\ res' = [res EXCEPT !.at = "contents", !.note = Len(fresh.notes) + 1,
                          !.map[ThisDoc.id] = Len(fresh.notes) + 1,
                          !.thoughts = ThoughtsBack(ThisDoc.thoughts),
                          !.files = ThisDoc.files]
    /\ Elsewhere /\ Same /\ UNCHANGED done

RestoreThought ==
    /\ In("contents") /\ res.thoughts # <<>>
    /\ fresh' = [fresh EXCEPT !.notes[res.note].thoughts = Append(@, Head(res.thoughts)),
                              !.notes[res.note].updated = "restored"]
    /\ res' = [res EXCEPT !.thoughts = Tail(@)]
    /\ Elsewhere /\ Same /\ UNCHANGED done

_restore_attachments ==
    /\ In("contents") /\ res.thoughts = <<>>
    /\ \E f \in res.files :
        /\ fresh' = [fresh EXCEPT !.notes[res.note].files = @ \union {f},
                                  !.notes[res.note].updated = "restored"]
        /\ res' = [res EXCEPT !.files = @ \ {f}]
    /\ Elsewhere /\ Same /\ UNCHANGED done

(* The dates last: a Thought or a file stamps updated_at.                  *)
set_note_provenance(m, date) == fresh' = [fresh EXCEPT !.notes[m].updated = date]

(* Last, for each of the writes before has stamped the note anew.          *)
_restore_provenance ==
    /\ In("contents") /\ res.thoughts = <<>> /\ res.files = {}
    /\ set_note_provenance(res.note, ThisDoc.updated)
    /\ res' = [res EXCEPT !.at = "notes", !.i = @ + 1]
    /\ Elsewhere /\ Same /\ UNCHANGED done

NotesRestored ==
    /\ In("notes") /\ res.i > Len(zip.notes)
    /\ res' = [res EXCEPT !.at = "links", !.i = 1]
    /\ Elsewhere /\ Same /\ UNCHANGED <<fresh, done>>

(* Links go through the new ids, found notes included.                     *)
_restore_links ==
    /\ In("links") /\ res.i <= Len(zip.notes)
    /\ fresh' = [fresh EXCEPT !.links = @ \union
                   {<<res.map[ThisDoc.id], res.map[m]>> :
                        m \in {k \in ThisDoc.links : k \in DOMAIN res.map /\ res.map[k] # 0}}]
    /\ res' = [res EXCEPT !.i = @ + 1]
    /\ Elsewhere /\ Same /\ UNCHANGED done

RestoreEnds ==
    /\ In("links") /\ res.i > Len(zip.notes)
    /\ res' = NoRestore /\ done' = TRUE
    /\ Elsewhere /\ Same /\ UNCHANGED fresh

RestoreCrash ==
    /\ ~In("off") /\ fails < MaxFails
    /\ fails' = fails + 1 /\ res' = NoRestore
    /\ Elsewhere /\ UNCHANGED <<fresh, restores, done>>

(* The new library is already in use.                                      *)
Capture ==
    /\ zip # NoZip /\ captures < MaxCaptures /\ captures' = captures + 1
    /\ fresh' = [fresh EXCEPT !.notes = Append(@,
                   [title |-> "new", body |-> "new", status |-> "inbox", area |-> 0,
                    hash |-> NoHash, thoughts |-> <<>>, files |-> {}, updated |-> "restored"])]
    /\ UNCHANGED <<libraryVars, importVars, snap, zip, res, restores, fails, done>>

RestoreStep ==
    \/ import_export \/ RestoreArea \/ RetireRestored \/ AreasRestored
    \/ AlreadyRestored \/ _restore_note \/ RestoreThought \/ _restore_attachments
    \/ _restore_provenance \/ NotesRestored \/ _restore_links \/ RestoreEnds
    \/ RestoreCrash \/ Capture

(* The two machines share nothing but the archive: once it is written, the *)
(* old library no longer matters to the new one, and rests.                *)
Next ==
    \/ zip = NoZip /\ (ImportStep \/ Owner) /\ UNCHANGED restoreVars
    \/ ReadNotes \/ export_zip \/ RestoreStep

Spec == RestoreInit /\ [][Next]_vars

----------------------------------------------------------------------------
CopyOf(d) == CHOOSE m \in FoundIn(d) : TRUE

(* A restore that ran to its end brought every document home exactly once, *)
(* links included, even after earlier runs that died; in an area of the    *)
(* name it was filed under, unless one of that name is archived; and in    *)
(* its own status unless it lost its area.  One that was never interrupted *)
(* also brought its Thoughts, files and date.                              *)
Restored ==
    done => \A n \in DOMAIN zip.notes :
        LET d == zip.notes[n]  copy == fresh.notes[CopyOf(d)] IN
        /\ Cardinality(FoundIn(d)) = 1
        /\ copy.body = Back(d.body)
        /\ IF copy.area # 0 THEN fresh.areas[copy.area].name = d.area
           ELSE d.area = "" \/ \E a \in DOMAIN zip.areas :
                                   zip.areas[a].name = d.area /\ zip.areas[a].archived
        /\ copy.status = d.status \/ copy.area = 0
        /\ \A m \in d.links \intersect DOMAIN zip.notes :
               <<CopyOf(d), CopyOf(zip.notes[m])>> \in fresh.links
        /\ fails = 0 =>
               /\ copy.thoughts = ThoughtsBack(d.thoughts)
               /\ copy.files = d.files /\ copy.updated = d.updated
=============================================================================
