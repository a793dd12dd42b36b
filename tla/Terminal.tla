------------------------------- MODULE Terminal -------------------------------
(* The terminal faces (src/crates/ikigai-cli/src/session.rs, repl.rs,         *)
(* script.rs, tui.rs, clipboard.rs): the session that refuses everything once *)
(* a `cap` was refused, whichever face a line comes from, and the editor of   *)
(* the full-screen one, its two buffers, its kill buffer and the clipboard it *)
(* shares with other programs.  Quitting ends a behaviour; a character is one *)
(* place, whatever its bytes, and the chord C-c C-c one key.                  *)
EXTENDS Naturals, Sequences, FiniteSetsExt

CONSTANTS
    MaxText,    \* how much each buffer holds, by tab
    MaxHistory, \* how many lines are submitted
    Clips,      \* what other programs put on the clipboard
    Scripts,    \* the scripts that are stored, by the kinds of their lines
    Unset       \* no place, or no line

Characters == {"x", "nl"}   \* a newline, or any other

ASSUME TerminalAssumption == Unset \notin Nat /\ Clips \subseteq Seq(Characters)

VARIABLES
    face,       \* "tui", "lines", "batch" or "file"
    refusing,   \* Session's
    script,     \* the lines of the script that runs, by kind
    over,       \* the batch or the file has ended
    granted,    \* the authority in force is the one last asked for
    astray,     \* something was evaluated under another
    scheme,     \* "emacs" or "vi"
    tab,        \* the one open last of "repl" and "scratch"
    buffer,     \* by tab: text, cursor, mark, and the text that was marked
    kill, mode, history, at,
    tool, clip, \* the clipboard's programs, and what it holds
    due         \* what was killed, copied, pasted or put on the clipboard last

session == <<refusing, script, over, granted, astray>>
screen == <<tab, history, at>>
edited == <<buffer, kill, mode, clip, due>>
fixed == <<face, scheme, tool>>
terminalVars == <<fixed, session, screen, edited>>

-----------------------------------------------------------------------------
(* The session.  A line is a `cap` with scopes, any other `cap`, a command of *)
(* the host's own, or resolves something.                                     *)
HostsOwn == {"quit", "note"}
Kinds == {"narrow", "cap", "resolve"} \union HostsOwn

RecoversByAny(kind) == kind \in {"narrow", "cap"}
Recovers(kind) == kind = "narrow"

Blocked(kind) == refusing /\ ~Recovers(kind)
Failed(kind, ok) == kind \notin HostsOwn /\ (Blocked(kind) \/ ~ok)

(* Session::eval and eval_lisp.  The engine keeps the authority it had when   *)
(* it refuses a `cap`.                                                        *)
Eval(kind, ok) ==
    LET ran == ~Blocked(kind) /\ kind \notin HostsOwn IN
    /\ refusing' = IF ~ran \/ kind = "resolve" THEN refusing ELSE ~ok
    /\ granted' = IF ran /\ (kind = "narrow" \/ (kind = "cap" /\ ~ok)) THEN ok ELSE granted
    /\ astray' = (astray \/ (ran /\ kind = "resolve" /\ ~granted))

(* A stored script is read as any resource is, then run (script::run_command);*)
(* it may not be readable, or not parse.                                      *)
StartScript ==
    \/ \E ok \in BOOLEAN : Eval("resolve", ok) /\ UNCHANGED script
    \/ ~refusing /\ Eval("resolve", TRUE) /\ script' \in Scripts

Line == \/ \E kind \in Kinds, ok \in BOOLEAN : Eval(kind, ok) /\ UNCHANGED script
        \/ StartScript

(* script::run: the first line that fails, or `quit`, is the last.            *)
ScriptLine ==
    /\ script # << >>
    /\ \E ok \in BOOLEAN :
          LET kind == Head(script) IN
          /\ Eval(kind, ok)
          /\ script' = IF Failed(kind, ok) \/ kind = "quit" THEN << >> ELSE Tail(script)
          /\ over' = \/ face = "file" /\ script' = << >>
                     \/ face = "batch" /\ Failed(kind, ok) /\ refusing'
    /\ UNCHANGED <<fixed, screen, edited>>

(* The plain REPL and `-c`, where a refused `cap` is the end.                 *)
Plain ==
    /\ face \in {"lines", "batch"} /\ script = << >> /\ ~over
    /\ Line
    /\ over' = (face = "batch" /\ refusing')
    /\ UNCHANGED <<fixed, screen, edited>>

-----------------------------------------------------------------------------
(* Places in a text: how many characters are before them.                     *)
Part(s, lo, hi) == SubSeq(s, lo + 1, hi)
Without(s, lo, hi) == Part(s, 0, lo) \o Part(s, hi, Len(s))
Blank(s) == s = "nl"
LineStart(s, c) == Max({0} \union {i \in 1 .. c : s[i] = "nl"})
LineEnd(s, c) == Min({Len(s)} \union {i \in c .. Len(s) - 1 : s[i + 1] = "nl"})
WordLeft(s, c) ==
    Max({0} \union {i \in 1 .. c - 1 : Blank(s[i]) /\ ~Blank(s[i + 1])})
WordRight(s, c) ==
    Min({Len(s)} \union {i \in c + 1 .. Len(s) - 1 : ~Blank(s[i]) /\ Blank(s[i + 1])})
WordForward(s, c) ==
    Min({Len(s)} \union {i \in c + 1 .. Len(s) - 1 : Blank(s[i]) /\ ~Blank(s[i + 1])})
WordEnd(s, c) == IF WordRight(s, c) > c THEN WordRight(s, c) - 1 ELSE c
Column(s, c) == c - LineStart(s, c)
Above(s, c) ==
    LET a == LineStart(s, c) IN
    IF a = 0 THEN c ELSE Min({LineStart(s, a - 1) + Column(s, c), a - 1})
Below(s, c) ==
    LET e == LineEnd(s, c) IN
    IF e = Len(s) THEN c ELSE Min({e + 1 + Column(s, c), LineEnd(s, e + 1)})
Trimmed(s) ==
    Part(s, 0, Max({0} \union {i \in 1 .. Len(s) : ~Blank(s[i])}))

-----------------------------------------------------------------------------
(* The keys of either scheme. *)
Vi(m) == scheme = "vi" /\ mode = m
Typing == scheme = "emacs" \/ Vi("insert")
ViOperators == {"delete", "change", "copy"}
Pending == scheme = "vi" /\ mode \in ViOperators

text == buffer[tab].text
cursor == buffer[tab].cursor
mark == buffer[tab].mark

Moves ==
    [left |-> Max({cursor, 1}) - 1, right |-> Min({cursor + 1, Len(text)}),
     home |-> LineStart(text, cursor), end |-> LineEnd(text, cursor),
     wordLeft |-> WordLeft(text, cursor), wordRight |-> WordRight(text, cursor),
     wordForward |-> WordForward(text, cursor), wordEnd |-> WordEnd(text, cursor)]
Reach ==
    {"left", "right", "home", "end"}
      \union (IF scheme = "emacs" THEN {"wordLeft", "wordRight"}
              ELSE IF mode = "normal" THEN {"wordLeft", "wordForward", "wordEnd"} ELSE {})

Buffer(s, c, m) == [text |-> s, cursor |-> c, mark |-> m, marked |-> IF m = Unset THEN << >> ELSE s]
Become(b) == buffer' = [buffer EXCEPT ![tab] = b]
GoTo(c) == Become([buffer[tab] EXCEPT !.cursor = c])

(* edit_text around the clipboard (apply, apply_scratch): what changed the    *)
(* kill buffer goes to the clipboard.                                         *)
Took(s) ==
    /\ kill' = s /\ due' = s
    /\ clip' = IF tool /\ s # kill THEN s ELSE clip
Kill(lo, hi) ==
    /\ Become(Buffer(Without(text, lo, hi), lo, Unset))
    /\ Took(Part(text, lo, hi))
Same == UNCHANGED <<kill, clip, due>>
InMode(m) == mode' = m

(* edit and scratch_edit, in the tab with the buffer.                         *)
Key == face = "tui" /\ script = << >> /\ UNCHANGED <<fixed, tab>>
Edits == Key /\ UNCHANGED <<session, history, at>>

Put(s) ==
    /\ Len(text) + Len(s) <= MaxText[tab]
    /\ Become(Buffer(Part(text, 0, cursor) \o s \o Part(text, cursor, Len(text)), cursor + Len(s), Unset))

Type ==
    /\ Edits /\ Same /\ UNCHANGED mode
    /\ \/ Typing /\ Put(<<"x">>)
       \/ tab = "scratch" /\ ~Pending /\ Put(<<"nl">>)

Erase ==
    /\ Edits /\ Same /\ UNCHANGED mode /\ ~Pending
    /\ \E to \in {Moves.left, Moves.right} :
          Become(Buffer(Without(text, Min({to, cursor}), Max({to, cursor})), Min({to, cursor}), Unset))

Move ==
    /\ Edits /\ Same /\ UNCHANGED mode /\ ~Pending
    /\ \/ \E m \in Reach : GoTo(Moves[m])
       \/ tab = "scratch" /\ \E c \in {Above(text, cursor), Below(text, cursor)} : GoTo(c)

Region ==
    IF mark = Unset THEN <<WordLeft(text, cursor), cursor>>
    ELSE LET m == Min({mark, Len(text)}) IN <<Min({m, cursor}), Max({m, cursor})>>

Spans ==
    (IF scheme = "emacs" \/ mode = "normal" THEN {<<cursor, LineEnd(text, cursor)>>} ELSE {})
      \union (IF Typing THEN {<<LineStart(text, cursor), cursor>>, Region} ELSE {})
CutText ==
    /\ Edits /\ ~Pending
    /\ \E span \in Spans : Kill(span[1], span[2])
    /\ IF Vi("normal") THEN mode' \in {"normal", "insert"} ELSE UNCHANGED mode

SetMark ==
    /\ Edits /\ Same /\ UNCHANGED mode /\ scheme = "emacs"
    /\ Become(Buffer(text, cursor, cursor))

Copy ==
    /\ Edits /\ UNCHANGED mode /\ scheme = "emacs" /\ mark # Unset
    /\ Become(Buffer(text, cursor, Unset))
    /\ Took(Part(text, Region[1], Region[2]))

Given == IF tool THEN Trimmed(clip) ELSE kill

Yank ==
    /\ Edits /\ UNCHANGED <<mode, clip>> /\ (scheme = "emacs" \/ Vi("normal"))
    /\ Put(Given) /\ kill' = Given /\ due' = Given

(* vi's modes, which the two tabs share. *)
Switch ==
    /\ Edits /\ Same /\ scheme = "vi"
    /\ \/ Vi("normal") /\ InMode("insert")
             /\ \E c \in {cursor, Moves.right, Moves.home, Moves.end} : GoTo(c)
       \/ Vi("normal") /\ mode' \in ViOperators /\ UNCHANGED buffer
       \/ mode # "normal" /\ InMode("normal") /\ UNCHANGED buffer

(* vi_range: what an operator acts on. *)
Ranges ==
    {<<cursor, IF mode = "change" THEN WordRight(text, cursor) ELSE WordForward(text, cursor)>>,
     <<cursor, WordRight(text, cursor)>>, <<WordLeft(text, cursor), cursor>>,
     <<cursor, Len(text)>>, <<0, cursor>>, <<0, Len(text)>>}
Operate ==
    /\ Edits /\ Pending
    /\ \E r \in Ranges :
          IF mode = "copy" THEN Become(Buffer(text, r[1], Unset)) /\ Took(Part(text, r[1], r[2]))
          ELSE Kill(r[1], r[2])
    /\ InMode(IF mode = "change" THEN "insert" ELSE "normal")

(* The line only: Esc empties it, Up and Down recall, Enter evaluates it.     *)
OnLine == tab = "repl" /\ ~Pending
Renew(s) == Become(Buffer(s, Len(s), Unset))

Clear == Edits /\ Same /\ UNCHANGED mode /\ OnLine /\ scheme = "emacs" /\ Renew(<< >>)

Recall ==
    /\ Key /\ Same /\ UNCHANGED <<session, mode, history>> /\ OnLine /\ history # << >>
    /\ \/ at' = IF at = Unset THEN Len(history) ELSE Max({at - 1, 1})
       \/ at' = IF at # Unset /\ at < Len(history) THEN at + 1 ELSE Unset
    /\ Renew(IF at' = Unset THEN << >> ELSE history[at'])

Submit ==
    /\ Key /\ Same /\ OnLine
    /\ Renew(<< >>) /\ InMode("insert") /\ at' = Unset
    /\ IF Trimmed(text) = << >>
       THEN UNCHANGED <<session, history>>
       ELSE /\ Len(history) < MaxHistory /\ history' = Append(history, text)
            /\ Line /\ UNCHANGED over

(* eval_scratch, of the region or of it all: F5, Ctrl-Enter or the chord.     *)
Source == IF mark # Unset /\ Region[1] < Region[2] THEN Part(text, Region[1], Region[2]) ELSE text
EvalScratch ==
    /\ Key /\ UNCHANGED <<edited, history, at, script, over>> /\ tab = "scratch"
    /\ IF Trimmed(Source) = << >>
       THEN UNCHANGED <<refusing, granted, astray>>
       ELSE \E ok \in BOOLEAN : Eval("resolve", ok)

(* Tab and BackTab. *)
Turn ==
    /\ face = "tui" /\ script = << >> /\ tab' \in DOMAIN buffer
    /\ UNCHANGED <<fixed, session, edited, history, at>>

(* The pages without a buffer: a runbook's step, the clock and the Control    *)
(* page each second, and the loading of the demos, which needs their list.    *)
Page ==
    /\ face = "tui" /\ script = << >>
    /\ \E kind \in Kinds, ok \in BOOLEAN : Eval(kind, ok)
    /\ UNCHANGED <<fixed, script, over, screen, edited>>

(* Another program copies something. *)
OtherProgram ==
    /\ tool /\ clip' \in Clips /\ due' = clip'
    /\ UNCHANGED <<fixed, session, screen, buffer, kill, mode>>

TerminalInit ==
    /\ face \in {"tui", "lines", "batch", "file"} /\ scheme \in {"emacs", "vi"} /\ tool \in BOOLEAN
    /\ (face # "tui" => scheme = "emacs" /\ ~tool)
    /\ refusing = FALSE /\ granted = TRUE /\ astray = FALSE /\ over = FALSE
    /\ IF face = "file" THEN script \in Scripts ELSE script = << >>
    /\ tab = "repl" /\ buffer = [t \in {"repl", "scratch"} |-> Buffer(<< >>, 0, Unset)]
    /\ mode = "insert" /\ history = << >> /\ at = Unset
    /\ kill = << >> /\ clip = << >> /\ due = << >>

Editing == Type \/ Erase \/ Move \/ CutText \/ SetMark \/ Copy \/ Yank \/ Switch \/ Operate \/ Clear
TerminalNext ==
    \/ ScriptLine \/ Plain \/ Editing \/ Recall \/ Submit \/ EvalScratch
    \/ Turn \/ Page \/ OtherProgram

TerminalSpec == TerminalInit /\ [][TerminalNext]_terminalVars

-----------------------------------------------------------------------------
(* Once a `cap` was refused nothing is evaluated, from a line, a script, the  *)
(* scratch buffer, a step or a refresh, until a `cap` with scopes is granted. *)
NothingAstray == ~astray

(* What Ctrl-Y inserts is what was killed, copied or pasted last, or put on   *)
(* the clipboard since, less the newlines it ends in; but where the same text *)
(* is killed again, the clipboard's.                                          *)
KilledIsKept ==
    \/ Given = (IF tool THEN Trimmed(due) ELSE due)
    \/ tool /\ kill = due

(* A region is cut, copied or evaluated out of the text it was marked in.     *)
MarkedIsThere ==
    \A t \in DOMAIN buffer :
        /\ buffer[t].cursor \in 0 .. Len(buffer[t].text)
        /\ buffer[t].mark # Unset =>
               /\ buffer[t].marked = buffer[t].text
               /\ buffer[t].mark \in 0 .. Len(buffer[t].text)

TerminalHolds == NothingAstray /\ KilledIsKept /\ MarkedIsThere
=============================================================================
