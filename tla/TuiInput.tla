------------------------------ MODULE TuiInput -------------------------------
(***************************************************************************)
(* The command line of the dashboard (pkg/tui/app.go): its event loop,     *)
(* line editing, completion menu, history recall and console scrollback,   *)
(* with the history of pkg/cli/history.go, in memory and on disk, and the  *)
(* rows of the menu that drawMenu (pkg/tui/view.go) shows.                 *)
(*                                                                         *)
(* A line is a sequence of letters.  Commands run inside handleEvent, so   *)
(* keys typed meanwhile wait in the channel of terminal events.            *)
(***************************************************************************)
EXTENDS Lists

CONSTANTS
    Letters,     \* what may be typed; " " separates words
    Words,       \* the words of the grammar, a sequence sorted by Value
    Builtins,    \* the lines "exit" and "quit", which are not recorded
    ConsoleMax,  \* consoleMax (200 in the code)
    Widths, Heights,  \* sizes of the terminal, where drawMenu has room for a row
    MaxKeys,     \* bound: keys typed
    MaxQueue,    \* bound: keys waiting for the loop
    MaxOutput,   \* bound: lines a command prints
    MaxStarts    \* bound: starts of the program

ASSUME TuiAssumption ==
    /\ Words \in Seq(Seq(STRING))
    /\ ConsoleMax \in Nat \ {0} /\ MaxOutput \in Nat
    /\ Widths \subseteq Nat \ (0 .. 2) /\ Heights \subseteq Nat \ (0 .. 4)
    /\ MaxKeys \in Nat /\ MaxQueue \in Nat /\ MaxStarts \in Nat

VARIABLES
    pc,                 \* "loop", "running" a command, or "quit"
    queue,              \* keys typed and not yet handled
    input,
    menuActive, menuIdx, menuCands, menuHead, menuOrig,
    lines, file,        \* History.lines and the history file
    diskFailed,         \* an append to the file has failed
    histIdx,
    console, logged,    \* App.console, and how many lines were logged in all
    typed,              \* input as the user left it before the menu was opened
    walk,               \* the history since the last command: "none", its line "shown", or "edited"
    keys, starts        \* keys typed, starts of the program

menu == <<menuActive, menuIdx, menuCands, menuHead, menuOrig>>
hist == <<lines, file, diskFailed, histIdx>>
out  == <<console, logged>>
vars == <<pc, queue, input, menu, hist, out, typed, walk, keys, starts>>

Init ==
    /\ pc = "loop" /\ queue = <<>> /\ input = <<>> /\ typed = <<>> /\ walk = "none"
    /\ menuActive = FALSE /\ menuIdx = 0 /\ menuCands = <<>>
    /\ menuHead = <<>> /\ menuOrig = <<>>
    /\ lines = <<>> /\ file = <<>> /\ diskFailed = FALSE /\ histIdx = 0
    /\ console = <<>> /\ logged = 0
    /\ keys = 0 /\ starts = 1

Key(name)     == [name |-> name]
TextKey(text) == [name |-> "text", text |-> text]
Keys == {Key(n) : n \in {"quit", "tab", "backtab", "esc", "up", "down", "enter",
                         "backspace"}}
        \cup {TextKey(l) : l \in Letters}

-----------------------------------------------------------------------------
(* History *)

\* strings.TrimSpace
TrimSpace(s) ==
    LET ink == {n \in DOMAIN s : s[n] # " "} IN
    IF ink = {} THEN <<>> ELSE SubSeq(s, Min(ink), Max(ink))

AddKeepsSpace(line) ==
    IF line = <<>> \/ line \in Builtins \/ (lines # <<>> /\ Last(lines) = line)
    THEN UNCHANGED <<lines, file, diskFailed>>
    ELSE /\ lines' = Append(lines, line)
         /\ file' = Append(file, TrimSpace(line)) /\ UNCHANGED diskFailed

\* Add and appendLocked: blanks, exits and consecutive duplicates are skipped;
\* a failure to append to the file is ignored.
Add(line) ==
    LET l == TrimSpace(line) IN
    IF l = <<>> \/ l \in Builtins \/ (lines # <<>> /\ Last(lines) = l)
    THEN UNCHANGED <<lines, file, diskFailed>>
    ELSE /\ lines' = Append(lines, l)
         /\ \/ file' = Append(file, l) /\ UNCHANGED diskFailed
            \/ diskFailed' = TRUE /\ UNCHANGED file

\* historyRecall(delta): past the newest entry the line is empty.
historyRecall(delta) ==
    LET idx == histIdx + delta IN      \* 0-based, as in the code
    /\ IF idx < 0 THEN UNCHANGED <<histIdx, input>>
       ELSE IF idx >= Len(lines) THEN histIdx' = Len(lines) /\ input' = <<>>
       ELSE histIdx' = idx /\ input' = lines[idx + 1]
    /\ typed' = input' /\ walk' = IF idx < 0 THEN walk ELSE "shown"
    /\ UNCHANGED <<lines, file, diskFailed>>

-----------------------------------------------------------------------------
(* The completion menu *)

\* The word being completed: what follows the last blank.
CurrentWord(s) ==
    LET blanks == {n \in DOMAIN s : s[n] = " "} IN
    SubSeq(s, (IF blanks = {} THEN 0 ELSE Max(blanks)) + 1, Len(s))

\* The complete words before it.
Seen(s) ==
    LET word(m, n) == /\ \A j \in m .. n : s[j] # " "
                      /\ m = 1 \/ s[m - 1] = " "
                      /\ s[n + 1] = " "
    IN  UNION {{SubSeq(s, m, n) : n \in {e \in m .. Len(s) - 1 : word(m, e)}} : m \in DOMAIN s}

\* addCand of completeArgs: candidates extend the current word and are not on
\* the line already.  Which words the grammar offers is left to Words.
Complete(s) ==
    Kept(Words, {w \in Range(Words) : IsPrefix(CurrentWord(s), w) /\ w \notin Seen(s)})

closeMenu == menuActive' = FALSE /\ menuCands' = <<>>

moveMenuNoWrap(delta) ==
    /\ menuIdx' = menuIdx + delta
    /\ input' = IF menuIdx' \in 0 .. Len(menuCands) - 1
                THEN menuHead \o menuCands[menuIdx' + 1] ELSE input
    /\ UNCHANGED <<menuActive, menuCands, menuHead, menuOrig, typed>>

\* moveMenu and applyMenu: wrap around and preview the candidate.
moveMenu(delta) ==
    /\ menuIdx' = (menuIdx + delta + Len(menuCands)) % Len(menuCands)
    /\ input' = menuHead \o menuCands[menuIdx' + 1]
    /\ UNCHANGED <<menuActive, menuCands, menuHead, menuOrig, typed>>

openMenuOrigLate ==
    LET cands == Complete(input)
        head  == SubSeq(input, 1, Len(input) - Len(CurrentWord(input)))
    IN  /\ menuHead' = head
        /\ menuCands' = cands /\ menuIdx' = 0 /\ menuActive' = TRUE
        /\ input' = head \o cands[1] /\ menuOrig' = input' /\ UNCHANGED typed

\* complete with the menu closed and several candidates.
openMenu ==
    LET cands == Complete(input)
        head  == SubSeq(input, 1, Len(input) - Len(CurrentWord(input)))
    IN  /\ menuOrig' = input /\ menuHead' = head
        /\ menuCands' = cands /\ menuIdx' = 0 /\ menuActive' = TRUE
        /\ input' = head \o cands[1] /\ UNCHANGED typed

\* A single candidate is inserted directly.
insertOnly ==
    LET head == SubSeq(input, 1, Len(input) - Len(CurrentWord(input))) IN
    /\ menuOrig' = input /\ menuHead' = head
    /\ input' = head \o Complete(input)[1] \o <<" ">>
    /\ typed' = input'
    /\ UNCHANGED <<menuActive, menuIdx, menuCands>>

complete(delta) ==
    IF menuActive THEN moveMenu(delta)
    ELSE CASE Len(Complete(input)) = 0 -> UNCHANGED <<input, menu, typed>>
           [] Len(Complete(input)) = 1 -> insertOnly
           [] Len(Complete(input)) > 1 -> openMenu

\* drawMenu's geometry for a terminal of w columns and h rows: how many rows of
\* how many candidates it shows, and the first one.  Candidates with help texts
\* are listed one to a row.
MinOf(a, b) == IF a <= b THEN a ELSE b

CellWidth(w) ==
    MinOf(w - 2, 2 + Max({Len(menuCands[n]) : n \in DOMAIN menuCands}))

Cols(w, described) ==
    LET fit == (w - 2) \div CellWidth(w) IN IF described \/ fit < 1 THEN 1 ELSE fit

Rows(w, h, described) ==
    LET cols == Cols(w, described)
    IN  MinOf((Len(menuCands) + cols - 1) \div cols, MinOf(h - 4, 12))

SelectedRow(w, described) == menuIdx \div Cols(w, described)

FirstRowTooFar(w, h, described) ==
    LET sel == SelectedRow(w, described)
        rows == Rows(w, h, described)
    IN  IF sel >= rows THEN sel - rows ELSE 0

FirstRow(w, h, described) ==
    LET sel == SelectedRow(w, described)
        rows == Rows(w, h, described)
    IN  IF sel >= rows THEN sel - rows + 1 ELSE 0

-----------------------------------------------------------------------------
(* handleEvent, one action per kind of key *)

Touched == walk' = IF walk = "shown" THEN "edited" ELSE walk

LastN(s, n) == SubSeq(s, (IF Len(s) > n THEN Len(s) - n ELSE 0) + 1, Len(s))

\* log: n lines are appended, the oldest fall off.
log(n) ==
    /\ logged' = logged + n
    /\ console' = LastN(console \o [m \in 1 .. n |-> logged + m], ConsoleMax)

Pressed(k) == pc = "loop" /\ queue # <<>> /\ Head(queue) = k /\ queue' = Tail(queue)

Quit ==
    /\ Pressed(Key("quit"))
    /\ pc' = "quit"
    /\ UNCHANGED <<input, menu, hist, out, typed, walk, keys, starts>>

\* '?' is another Tab.
Tab ==
    /\ \/ Pressed(Key("tab")) /\ complete(1)
       \/ Pressed(Key("backtab")) /\ complete(-1)
    /\ Touched
    /\ UNCHANGED <<pc, hist, out, keys, starts>>

Esc ==
    /\ Pressed(Key("esc"))
    /\ input' = IF menuActive THEN menuOrig ELSE input
    /\ closeMenu /\ typed' = input'
    /\ UNCHANGED <<pc, menuIdx, menuHead, menuOrig, hist, out, walk, keys, starts>>

Arrow ==
    /\ \E d \in {-1, 1} :
        /\ Pressed(Key(IF d = -1 THEN "up" ELSE "down"))
        /\ IF menuActive THEN moveMenu(d) /\ UNCHANGED <<hist, walk>>
                         ELSE historyRecall(d) /\ UNCHANGED menu
    /\ UNCHANGED <<pc, out, keys, starts>>

EnterKeepsCursor ==
    /\ Pressed(Key("enter")) /\ closeMenu
    /\ input' = <<>> /\ typed' = <<>>
    /\ IF input = <<>>
       THEN Touched /\ UNCHANGED <<pc, hist, out>>
       ELSE Add(input) /\ histIdx' = Len(lines) /\ walk' = "none" /\ log(1) /\ pc' = "running"
    /\ UNCHANGED <<menuIdx, menuHead, menuOrig, keys, starts>>

\* runInput: an empty line returns at once; any other is recorded, echoed and
\* dispatched.
Enter ==
    /\ Pressed(Key("enter")) /\ closeMenu
    /\ input' = <<>> /\ typed' = <<>>
    /\ IF input = <<>>
       THEN Touched /\ UNCHANGED <<pc, hist, out>>
       ELSE Add(input) /\ histIdx' = Len(lines') /\ walk' = "none" /\ log(1) /\ pc' = "running"
    /\ UNCHANGED <<menuIdx, menuHead, menuOrig, keys, starts>>

Edit ==
    /\ \/ Pressed(Key("backspace")) /\ input' = IF input = <<>> THEN input ELSE Front(input)
       \/ \E l \in Letters : Pressed(TextKey(l)) /\ input' = Append(input, l)
    /\ closeMenu /\ typed' = input' /\ Touched
    /\ UNCHANGED <<pc, menuIdx, menuHead, menuOrig, hist, out, keys, starts>>

CommandEndsDrains ==
    /\ pc = "running" /\ pc' = "loop"
    /\ queue' = <<>>
    /\ \E n \in 0 .. MaxOutput : log(n)
    /\ UNCHANGED <<input, menu, hist, typed, walk, keys, starts>>

\* cli.Dispatch returns: its output went through lineWriter, an error is logged.
CommandEnds ==
    /\ pc = "running" /\ pc' = "loop"
    /\ \E n \in 0 .. MaxOutput : log(n)
    /\ UNCHANGED <<queue, input, menu, hist, typed, walk, keys, starts>>

Handle == Quit \/ Tab \/ Esc \/ Arrow \/ Enter \/ Edit

-----------------------------------------------------------------------------
(* The user and the program *)

TypeKey ==
    /\ pc # "quit" /\ keys < MaxKeys /\ Len(queue) < MaxQueue
    /\ \E key \in Keys : queue' = Append(queue, key)
    /\ keys' = keys + 1
    /\ UNCHANGED <<pc, input, menu, hist, out, typed, walk, starts>>

\* ctx is cancelled and the loop notices.
CtxDone ==
    /\ pc = "loop" /\ pc' = "quit"
    /\ UNCHANGED <<queue, input, menu, hist, out, typed, walk, keys, starts>>

\* The program is started again: NewHistory reads the file and Run makes a new
\* App whose cursor is past the newest entry.
Restart ==
    /\ pc = "quit" /\ starts < MaxStarts
    /\ starts' = starts + 1
    /\ pc' = "loop" /\ queue' = <<>> /\ input' = <<>> /\ typed' = <<>> /\ walk' = "none"
    /\ closeMenu /\ menuIdx' = 0 /\ menuHead' = <<>> /\ menuOrig' = <<>>
    /\ lines' = Kept(file, Range(file) \ {<<>>}) /\ histIdx' = Len(lines')
    /\ console' = <<>> /\ logged' = 0
    /\ UNCHANGED <<file, diskFailed, keys>>

Next == Handle \/ CommandEnds \/ TypeKey \/ CtxDone \/ Restart

Spec == Init /\ [][Next]_vars

\* The loop runs and commands return (CliPorts!CommandReturns,
\* PerfRun!MeasurementReturns).
FairSpec == Spec /\ WF_vars(Handle) /\ WF_vars(CommandEnds)

-----------------------------------------------------------------------------
(* Properties *)

\* Types; the cursor of the recall is an entry or just past the newest one.
TypeOK ==
    /\ pc \in {"loop", "running", "quit"}
    /\ histIdx \in 0 .. Len(lines)
    /\ menuActive \in BOOLEAN /\ menuIdx \in Nat
    /\ Len(console) <= ConsoleMax

\* What the input line shows while the menu is open, and so what Enter runs, is
\* the highlighted candidate in place of the word that was typed.
MenuPreview ==
    menuActive =>
        /\ Len(menuCands) > 1 /\ menuIdx \in 0 .. Len(menuCands) - 1
        /\ input = menuHead \o menuCands[menuIdx + 1]
        /\ typed = menuHead \o CurrentWord(typed)
        /\ IsPrefix(CurrentWord(typed), menuCands[menuIdx + 1])

\* Escape with the menu open puts back the line as typed, wherever Tab,
\* Shift-Tab and the arrows moved the selection.
EscRestores ==
    [][Pressed(Key("esc")) /\ menuActive => input' = typed /\ ~menuActive']_vars

\* The cursor and the line keep in step.  Until the history is walked, and again
\* after every command, also one that was recalled or is not recorded, the cursor
\* is past the newest entry, where Up finds it; and a recalled line is the entry
\* at the cursor until it is edited.
RecallInStep ==
    /\ walk = "none" => histIdx = Len(lines)
    /\ walk = "shown" => input = IF histIdx = Len(lines) THEN <<>> ELSE lines[histIdx + 1]

\* "cursor into the shared command history (== len when not recalling)": Enter
\* ends a recall.  It fails: runInput returns before it resets the cursor when the
\* recalled line was erased.
EnterEndsRecall == [][Pressed(Key("enter")) => histIdx' = Len(lines')]_vars

\* drawMenu scrolls so that the highlighted candidate is one of the rows shown.
SelectionVisible ==
    menuActive => \A w \in Widths, h \in Heights, described \in BOOLEAN :
        SelectedRow(w, described) - FirstRow(w, h, described)
            \in 0 .. Rows(w, h, described) - 1

\* A restart recalls what was recorded: memory and file hold the same lines as
\* long as the disk does, none blank, none twice in a row.
HistoryDurable ==
    /\ ~diskFailed => lines = file
    /\ \A n \in DOMAIN lines :
          lines[n] # <<>> /\ (n > 1 /\ ~diskFailed => lines[n] # lines[n - 1])

\* A Ctrl-C or Ctrl-D is honoured, also one typed while a command blocks the
\* loop.
QuitHonoured ==
    (\E n \in DOMAIN queue : queue[n] = Key("quit")) ~> (pc = "quit")

=============================================================================
