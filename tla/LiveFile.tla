------------------------------- MODULE LiveFile -------------------------------
(* What a host settings file that is applied while the process runs promises: *)
(* the table in force is one some version of the file stated, a version that  *)
(* does not read is never in force, and an older reading never replaces a     *)
(* newer one.  If the file comes to rest on a version that reads, that        *)
(* version's table is in the end the one in force.                            *)
EXTENDS Naturals, Sequences

CONSTANTS
    Contents,   \* what the file may hold
    Refused,    \* the contents that do not read
    MaxEdits    \* bound on the edits

VARIABLES
    file,       \* every content the file has had, the present one last
    inforce     \* which of them is in force; 0 before any is

lvars == <<file, inforce>>

Init == (\E c \in Contents : file = <<c>>) /\ inforce = 0

Edit(c) ==
    /\ Len(file) <= MaxEdits
    /\ file' = Append(file, c)
    /\ UNCHANGED inforce

Install(v) ==
    /\ inforce < v /\ file[v] \notin Refused
    /\ inforce' = v
    /\ UNCHANGED file

Next == (\E c \in Contents : Edit(c)) \/ (\E v \in 1 .. Len(file) : Install(v))

Spec == Init /\ [][Next]_lvars

Now == file[Len(file)]
Current == inforce # 0 /\ file[inforce] = Now

(* A file left alone on a content that reads is in the end in force.          *)
Settles == <>[](Now \notin Refused) => []<>(Now \in Refused \/ Current)
=============================================================================
