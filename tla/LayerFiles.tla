------------------------------ MODULE LayerFiles ------------------------------
(* `ikigai layers post file` and `ikigai layers save`                          *)
(* (src/crates/ikigai-cli/src/layer.rs): files posted to a layer, and entries  *)
(* of it saved into one directory by several processes at once, any of which   *)
(* may be killed and its process id given to a later one.  The directory is    *)
(* on the least helpful file system there is: it files a name under its `key`, *)
(* whatever its case, its width, its invisible characters, its trailing dots   *)
(* and its streams, and lets a separator lead out of it.                       *)
EXTENDS Naturals, Sequences

CONSTANTS
    Pids,       \* the process ids saves run under
    LastNumber, \* the last number a temporary name is tried with
    Bodies,     \* [id, plain, size, escapes]: a file's bytes, and their text's escapes
    Keys,       \* what the directory files a name under
    Posts,      \* [name, body]: what participants post with `post file`
    Others,     \* the entries other clients' posts made
    Commands,   \* [how, name, force]: into a directory, under --as, or to a PATH
    Bound,      \* the layer's sh:maxLength on ik:content
    Owned,      \* the keys the user may have a file of their own under
    ConfigNames, Dotted, Devices, Outside,  \* kinds of key
    Nothing, Mine  \* no file; the content of a file of the user's own

VARIABLES
    files,      \* per key: Nothing, or a content
    temps,      \* per process id and number: Nothing, or a content
    board,      \* the layer's entries
    save,       \* per process id: what its save is doing, or how the last one ended
    left        \* the temporary files of saves that were killed

filesVars == <<files, temps, board, save, left>>

Numbers == 0 .. LastNumber
NotSaving == [at |-> "idle", told |-> Nothing, ours |-> FALSE]

FilesInit ==
    /\ files = [k \in Keys |-> Nothing] /\ temps = [p \in Pids |-> [n \in Numbers |-> Nothing]]
    /\ board = Others /\ save = [p \in Pids |-> NotSaving] /\ left = {}

-----------------------------------------------------------------------------
(* Names.  A name is a key and what is written around it: another case, a      *)
(* compatibility form, trailing dots or spaces, an invisible character, a      *)
(* colon, a character Windows refuses, a control character, a separator.  To   *)
(* no system is a device, or a dot, written in a compatibility form one.       *)

Writings == {"case", "wide", "trailing", "invisible", "colon", "forbidden", "control", "long",
             "separator"}
Names == {name \in [key : Keys \ {Outside}, with : SUBSET Writings] :
             name.key \in Devices \cup Dotted => "wide" \notin name.with}

(* Of what others post nothing is assumed but that its names are names.        *)
ASSUME LayerFilesAssumption ==
    /\ LastNumber \in Nat /\ Bound \in Nat
    /\ ConfigNames \cup Dotted \cup Devices \cup Owned \cup {Outside} \subseteq Keys
    /\ Nothing \notin [body : Bodies \cup {Mine}, whole : BOOLEAN]
    /\ \A f \in Posts : f.name \in Names /\ f.body \in Bodies
    /\ \A c \in Commands : /\ c.how \in {"dir", "as", "path"} /\ c.force \in BOOLEAN
                           /\ c.how # "dir" => c.name \in Names
    /\ \A e \in Others : /\ Len(e.fileName) = 1 => e.fileName[1] \in Names
                         /\ Len(e.content) = 1 => e.content[1].body \in Bodies

Lands(name) == IF "separator" \in name.with THEN Outside ELSE name.key

(* Compared as it is written: case, width and trailing dots hide it.           *)
ConfigAsWritten(name) == name.key \in ConfigNames /\ name.with = {}

(* NFKC, the trailing dots and spaces dropped, case folded.                    *)
Config(name) == name.key \in ConfigNames /\ name.with \subseteq {"case", "wide", "trailing"}

SafeName(name) ==
    /\ {"separator", "control", "long", "invisible"} \cap name.with = {}
    /\ ~Config(name)
    /\ name.key \notin Dotted
    /\ {"colon", "forbidden", "trailing"} \cap name.with = {}
    /\ ~(name.key \in Devices /\ name.with \subseteq {"case"})

-----------------------------------------------------------------------------
(* Entries.  A field holds every value the door's Turtle gives it.             *)

Encoding(body) == IF body.plain THEN "text" ELSE "base64"

(* The literal's bytes, escapes and all.                                       *)
Encoded(body) ==
    IF body.plain THEN body.size + body.escapes ELSE 4 * ((body.size + 2) \div 3)

Posted(f) ==
    [type |-> "File", fileName |-> <<f.name>>,
     content |-> <<[as |-> Encoding(f.body), body |-> f.body]>>,
     encoding |-> <<Encoding(f.body)>>, byteSize |-> <<f.body.size>>,
     contentHash |-> <<f.body>>]

PostFile(f) ==
    /\ SafeName(f.name) /\ Encoded(f.body) <= Bound /\ Posted(f) \notin board
    /\ board' = board \cup {Posted(f)}
    /\ UNCHANGED <<files, temps, save, left>>

One(values) == Len(values) = 1

(* What the content decodes to under the encoding the entry names.             *)
Decodes(entry) == One(entry.content) /\ One(entry.encoding)
                    /\ entry.encoding[1] = entry.content[1].as

Sound(entry) ==
    /\ Decodes(entry) /\ entry.byteSize = <<entry.content[1].body.size>>
    /\ entry.contentHash = <<entry.content[1].body>>

-----------------------------------------------------------------------------
(* A save.  `at` is what it has done: prepared its command ("asked" the door), *)
(* looked at the target ("looked"), made its temporary file ("made"), written  *)
(* it in part ("part") or all and synced it ("synced").                        *)

Ends(p, told) == save' = [save EXCEPT ![p] = [at |-> "idle", told |-> told, ours |-> FALSE]]
RefusesEntry(p, entry) ==
    save' = [save EXCEPT ![p] =
        [at |-> "idle", told |-> "refused", ours |-> entry \in board \ Others]]

Prepare(p, command) ==
    /\ save[p].at = "idle"
    /\ IF command.how = "dir" \/ SafeName(command.name)
       THEN save' = [save EXCEPT ![p] = [at |-> "asked", command |-> command]]
       ELSE Ends(p, "refused")
    /\ UNCHANGED <<files, temps, board, left>>

(* The door has no such entry, or may not be reached. *)
DoorRefuses(p) ==
    save[p].at = "asked" /\ Ends(p, "failed") /\ UNCHANGED <<files, temps, board, left>>

(* The entry is read and judged, and its target looked at, when it arrives.    *)
Judge(p, entry) ==
    LET command == save[p].command
        own == command.how = "dir"
        named == entry.type = "File" /\ (own => One(entry.fileName) /\ SafeName(entry.fileName[1]))
    IN
    /\ save[p].at = "asked"
    /\ IF ~named \/ ~Sound(entry) THEN RefusesEntry(p, entry)
       ELSE LET key == Lands(IF own THEN entry.fileName[1] ELSE command.name) IN
            IF files[key] # Nothing /\ ~command.force THEN Ends(p, "exists")
            ELSE save' = [save EXCEPT ![p] =
                   [at |-> "looked", key |-> key, data |-> entry.content[1].body, n |-> 0]]
    /\ UNCHANGED <<files, temps, board, left>>

(* create_new: a name that is taken is stepped over. *)
Free(p) == temps[p][save[p].n] = Nothing

Make(p) ==
    /\ save[p].at = "looked"
    /\ IF Free(p)
       THEN /\ temps' = [temps EXCEPT ![p][save[p].n] = [body |-> save[p].data, whole |-> FALSE]]
            /\ save' = [save EXCEPT ![p].at = "made"]
       ELSE /\ UNCHANGED temps
            /\ IF save[p].n < LastNumber
               THEN save' = [save EXCEPT ![p].n = @ + 1]
               ELSE Ends(p, "failed")
    /\ UNCHANGED <<files, board, left>>

WriteSync(p) ==
    /\ save[p].at = "made"
    /\ temps' = [temps EXCEPT ![p][save[p].n] = [body |-> save[p].data, whole |-> TRUE]]
    /\ save' = [save EXCEPT ![p].at = "synced"]
    /\ UNCHANGED <<files, board, left>>

Rename(p) ==
    /\ save[p].at = "synced"
    /\ files' = [files EXCEPT ![save[p].key] = temps[p][save[p].n]]
    /\ temps' = [temps EXCEPT ![p][save[p].n] = Nothing]
    /\ Ends(p, "saved")
    /\ UNCHANGED <<board, left>>

(* A directory that cannot be made; or a write, a sync or a rename that fails  *)
(* and takes its temporary file along.                                         *)
Fail(p) ==
    /\ save[p].at \in {"looked", "made", "synced"}
    /\ temps' = IF save[p].at = "looked" THEN temps
                ELSE [temps EXCEPT ![p][save[p].n] = Nothing]
    /\ Ends(p, "failed")
    /\ UNCHANGED <<files, board, left>>

(* Killed at any moment: whatever the file it was writing holds by then is one *)
(* leftover like another.                                                      *)
Leftover == [body |-> Mine, whole |-> FALSE]
KillSave(p) ==
    /\ save[p].at # "idle" /\ save' = [save EXCEPT ![p] = NotSaving]
    /\ IF save[p].at \in {"made", "synced"}
       THEN /\ left' = left \cup {<<p, save[p].n>>}
            /\ temps' = [temps EXCEPT ![p][save[p].n] = Leftover]
       ELSE UNCHANGED <<left, temps>>
    /\ UNCHANGED <<files, board>>

(* The user's own file, made or written at any time. *)
Own(k) ==
    /\ files[k] # [body |-> Mine, whole |-> TRUE]
    /\ files' = [files EXCEPT ![k] = [body |-> Mine, whole |-> TRUE]]
    /\ UNCHANGED <<temps, board, save, left>>

Step(p) ==
    \/ \E c \in Commands : Prepare(p, c)
    \/ DoorRefuses(p)
    \/ \E e \in board : Judge(p, e)
    \/ Make(p) \/ WriteSync(p) \/ Rename(p) \/ Fail(p) \/ KillSave(p)

FilesNext ==
    \/ \E f \in Posts : PostFile(f)
    \/ \E p \in Pids : Step(p)
    \/ \E k \in Owned : Own(k)

FilesSpec == FilesInit /\ [][FilesNext]_filesVars

-----------------------------------------------------------------------------
Contents == {Nothing} \cup [body : Bodies \cup {Mine}, whole : BOOLEAN]

FilesTypeOK ==
    /\ files \in [Keys -> Contents] /\ temps \in [Pids -> [Numbers -> Contents]]
    /\ left \subseteq Pids \X Numbers

(* "Whole or not at all": under a name of the directory there is only the      *)
(* user's own file or all the bytes of an entry that vouches for them, never   *)
(* a configuration, hidden or device name, and never a file outside.           *)
Vouched(body) ==
    \E e \in board : e.type = "File" /\ e.contentHash = <<body>> /\ e.byteSize = <<body.size>>
FilesAreWhole ==
    \A k \in Keys : files[k] \notin {Nothing, [body |-> Mine, whole |-> TRUE]} =>
        /\ files[k].whole /\ Vouched(files[k].body)
        /\ k \notin ConfigNames \cup Dotted \cup Devices \cup {Outside}

(* A save that ends, however it ends, leaves nothing of its own behind, and    *)
(* what a killed one left is stepped over, never reused.                       *)
NothingLeft ==
    \A p \in Pids, n \in Numbers :
        temps[p][n] # Nothing <=>
            \/ <<p, n>> \in left
            \/ save[p].at \in {"made", "synced"} /\ save[p].n = n

(* What `post file` posted, `save` does not refuse: not its name, its size nor *)
(* its digest.                                                                 *)
PostsCanBeSaved == \A p \in Pids : save[p].at = "idle" => ~save[p].ours

SavedIsWhole == FilesAreWhole /\ NothingLeft /\ PostsCanBeSaved
=============================================================================
