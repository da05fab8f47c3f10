------------------------------ MODULE MCRestore ------------------------------
(* Four small dumps, each a walk order and a mix of files in which one of  *)
(* the importer's rules decides, and a restore of what they became.        *)
EXTENDS Restore

File(source, ident, title, body) ==
    [source |-> source, ident |-> ident, title |-> title, body |-> body, type |-> "",
     mirror |-> FALSE, domain |-> "", done |-> FALSE, old |-> FALSE, uuid |-> <<>>,
     photos |-> {}]
MCIdents == 1 .. 4
MCAreas == <<[name |-> "work", parent |-> 0], [name |-> "garden", parent |-> 1]>>
MCSecrets == {"key"}
MCFragments == {"url"}
MCNameless == {"."}
Kept(title, body, hash) ==
    [title |-> title, body |-> body, status |-> "inbox", area |-> 0, hash |-> hash,
     thoughts |-> <<>>, files |-> {}, updated |-> "then"]
MCFirst == <<[Kept("diary", "mine", <<>>) EXCEPT !.thoughts = <<"more">>]>>
Focus(ident, title, body, type) ==
    [File("focus", ident, title, body) EXCEPT !.type = type, !.domain = "garden",
                                              !.uuid = <<"id", title, type, body>>]
(* A task walked before the note it mirrors, which carries a photo.        *)
Mirrored == <<[Focus(3, "seeds", "[ ] buy", "task") EXCEPT !.mirror = TRUE],
              [Focus(4, "seeds", "[ ] buy", "task") EXCEPT !.mirror = TRUE, !.uuid = <<"id">>,
                                                           !.photos = {"p2"}],
              [Focus(1, "seeds", "beans", "note") EXCEPT !.photos = {"p1"}],
              [Focus(2, "beds", "dig", "note") EXCEPT !.done = TRUE]>>
(* Key material in a mirrored note, and in a mirror.                       *)
Leaky == <<[Focus(2, "login", "[x] rotate", "task") EXCEPT !.mirror = TRUE],
           [Focus(3, "seeds", "key", "task") EXCEPT !.mirror = TRUE],
           Focus(1, "login", "key", "note"),
           Focus(4, "seeds", "beans", "note")>>
(* An Archive folder walked first: a clone, a superseded draft, a stranger.*)
Vault == <<[File("obsidian", 1, "plan", "v1") EXCEPT !.old = TRUE],
           [File("obsidian", 2, "list", "milk") EXCEPT !.old = TRUE],
           File("obsidian", 3, "plan", "v2"),
           File("obsidian", 4, "list", "milk")>>
(* Fragments, a blank file, a note that is only a photo, a nameless one.   *)
Scraps == <<File("keep", 1, "link", "url"), File("keep", 2, "none", ""),
            [File("apple-notes", 3, "pic", "") EXCEPT !.photos = {"p1"}],
            File("apple-notes", 4, ".", "word")>>
MCDumps == {Mirrored, Leaky, Vault, Scraps}
=============================================================================
