----------------------------- MODULE MCLibrary -----------------------------
(* A Library with one capture in the inbox and one filed note, and a       *)
(* librarian with one proposal of each kind in mind; the owner may file a  *)
(* note elsewhere than proposed, under a tag nobody has coined.            *)
EXTENDS Library, TLC

CONSTANTS work, gym, green, blue, draft1, draft2

AnyTab == Permutations(Tabs)

MCEdits == { [text |-> draft2], [area |-> None],
             [tags |-> {green, blue}, status |-> "active"] }
MCCaptures == { [tags |-> {blue}], [status |-> "active", area |-> work] }
MCPayloads ==
    { [kind |-> "file", filing |-> [tags |-> {blue}], archive |-> FALSE,
       new_area |-> [name |-> gym, parent |-> work], new_tags |-> {blue}],
      [kind |-> "file", filing |-> [area |-> work, tags |-> {blue}], archive |-> FALSE,
       new_area |-> None, new_tags |-> {}],
      [kind |-> "split", parts |-> << [area |-> work], [tags |-> {green}] >>,
       archive |-> TRUE, new_tags |-> {}],
      [kind |-> "contradiction", other |-> 2],
      [kind |-> "new_task", project |-> TRUE],
      [kind |-> "append_entry", target |-> 2, archive |-> TRUE] }
MCRoutine == {p \in MCPayloads : p.kind = "file"}

Plain == [status |-> "inbox", area |-> None, project |-> FALSE, tags |-> {},
          text |-> draft1, disputed |-> FALSE, entries |-> {}, links |-> {}, part |-> 0]
MCFirstNotes == << Plain, [Plain EXCEPT !.status = "active", !.area = work,
                                        !.tags = {green}, !.project = FALSE] >>
MCFirstAreas == [a \in Areas |-> IF a = gym THEN None
                                 ELSE [parent |-> None, archived |-> FALSE]]
=============================================================================
