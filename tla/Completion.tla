----------------------------- MODULE Completion -----------------------------
(***************************************************************************)
(* The completion of command lines (pkg/cli/completion.go) in its three    *)
(* front ends: bash, the shell and the dashboard.  completeArgs walks the  *)
(* words typed so far over the grammar with a parser of its own; kong      *)
(* parses the finished line.                                               *)
(*                                                                         *)
(* A word is its number of dashes, what is between them and an "=", and    *)
(* whether there is one.  The unfinished word is what it may become: begins *)
(* is the set of the words it is a prefix of.                              *)
(***************************************************************************)
EXTENDS Integers, Sequences, FiniteSets, SequencesExt

CONSTANTS
    FrontEnds,      \* a subset of {"bash", "shell", "tui"}
    Grammar,        \* by front end, its nodes by name: their parent ("" for the root),
                    \* aliases, flags, positionals, and whether they are hidden
    Files,          \* what fileCompletions finds: records [word, dir, hidden]
    Typed,          \* the words a user types besides those offered
    Unfinished,     \* the beginnings of words: records [text, dir, begins]
    MaxWords        \* bound: words of a line

Word == [dashes : 0 .. 2, text : STRING, eq : BOOLEAN]
Flag == [name : STRING, short : STRING, no : STRING, value : BOOLEAN, hidden : BOOLEAN,
         hints : SUBSET Word]

ASSUME CompletionAssumption ==
    /\ FrontEnds \subseteq {"bash", "shell", "tui"} /\ MaxWords \in Nat
    /\ \A e \in FrontEnds : \A n \in DOMAIN Grammar[e] :
            \A f \in Grammar[e][n].flags : f \in Flag
    /\ \A f \in Files : f.word \in Word /\ f.word.dashes = 0
    /\ Typed \subseteq Word

Plain(text) == [dashes |-> 0, text |-> text, eq |-> FALSE]
Long(text)  == [dashes |-> 2, text |-> text, eq |-> FALSE]
Short(text) == [dashes |-> 1, text |-> text, eq |-> FALSE]
Empty       == [text |-> "", dir |-> "", begins |-> {}]

VARIABLES
    front,          \* the front end
    line,           \* the finished words
    current         \* the word being typed

vars == <<front, line, current>>

Init == front \in FrontEnds /\ line = <<>> /\ current = Empty

-----------------------------------------------------------------------------
(* The grammar *)

Nodes == Grammar[front]
Root  == CHOOSE n \in DOMAIN Nodes : Nodes[n].parent = ""

Children(node) == {n \in DOMAIN Nodes : Nodes[n].parent = node}

\* A node and its ancestors; grammars here have two levels.
Path(node) == {node} \cup ({Nodes[node].parent} \ {""})

FlagsOf(nodes) == UNION {Nodes[n].flags : n \in nodes}

-----------------------------------------------------------------------------
(* completeArgs *)

findFlagOwn(node, w) == {f \in Nodes[node].flags : w.text \in {f.name, f.short}}

\* findFlag: by name or letter, however many dashes, on the node or above it.
findFlag(node, w) == {f \in FlagsOf(Path(node)) : w.text \in {f.name, f.short}}

findChild(node, w) == {n \in Children(node) : w.text = n \/ w.text \in Nodes[n].aliases}

\* One word of the walk.  A flag that takes a value takes the next word, or waits
\* for it at the end of the line.
Walk(at, w) ==
    LET takesValue == \E f \in findFlag(at.node, w) : f.value /\ ~w.eq
        child      == findChild(at.node, w)
    IN  IF at.flag # {} THEN [at EXCEPT !.flag = {}]
        ELSE IF w.dashes > 0
             THEN [at EXCEPT !.flag = IF takesValue THEN findFlag(at.node, w) ELSE {}]
        ELSE IF child # {}
             THEN [at EXCEPT !.node = CHOOSE n \in child : TRUE, !.posGiven = 0]
        ELSE [at EXCEPT !.posGiven = @ + 1]

Reached(words) == FoldLeft(Walk, [node |-> Root, posGiven |-> 0, flag |-> {}], words)

\* fileCompletions: the entries of the directory of the word, hidden ones only if
\* it asks for them.
fileCompletions(word) ==
    {f.word : f \in {f \in Files : f.dir = word.dir /\ (f.hidden => word.text # "")}}

flagValueHints(flags) == UNION {f.hints : f \in flags}

\* A flag that was given, by either name, is not offered again.
FlagWords(node, seen) ==
    UNION {{Long(f.name)} \cup (IF f.no # "" THEN {Long(f.no)} ELSE {}) :
              f \in {f \in FlagsOf(Path(node)) :
                        /\ ~f.hidden /\ f.name # "help"
                        /\ seen \cap {Long(f.name), Short(f.short)} = {}}}

PositionalFiles(at, word) ==
    IF at.posGiven < Len(Nodes[at.node].positional) /\ Nodes[at.node].positional[at.posGiven + 1] = "file"
    THEN fileCompletions(word) ELSE {}

\* addCand: what the unfinished word may become and is not on the line already.
Matching(words, seen, word) == {w \in words : (word.text = "" \/ w \in word.begins) /\ w \notin seen}

completeArgs(words, word) ==
    LET at   == Reached(words)
        seen == ToSet(words)
        commands == {Plain(n) : n \in {c \in Children(at.node) : ~Nodes[c].hidden}}
    IN  Matching(IF at.flag # {} THEN flagValueHints(at.flag)
                 ELSE commands \cup FlagWords(at.node, seen) \cup PositionalFiles(at, word),
                 seen, word)

FileWords == {f.word : f \in Files}

\* What the front end shows: bashComplete leaves files to readline, which lists
\* them when there is nothing else (complete -o default).
Offered ==
    LET all == completeArgs(line, current)
    IN  IF front # "bash" THEN all
        ELSE IF all \ FileWords # {} THEN all \ FileWords
        ELSE Matching(fileCompletions(current), {}, current)

-----------------------------------------------------------------------------
(* The user *)

Room == Len(line) < MaxWords

TypeWord ==
    /\ Room /\ current = Empty
    /\ \E w \in Typed : line' = Append(line, w)
    /\ UNCHANGED <<front, current>>

BeginWord ==
    /\ Room /\ current = Empty
    /\ current' \in Unfinished
    /\ UNCHANGED <<front, line>>

Pick ==
    /\ Room
    /\ \E w \in Offered : line' = Append(line, w)
    /\ current' = Empty
    /\ UNCHANGED front

Enter ==
    /\ line # <<>> /\ current = Empty
    /\ line' = <<>>
    /\ UNCHANGED <<front, current>>

Next == TypeWord \/ BeginWord \/ Pick \/ Enter

Spec == Init /\ [][Next]_vars

-----------------------------------------------------------------------------
(* kong's own reading of a line *)

\* One word for kong: a flag is known on the path to the command and spelled with
\* its own number of dashes, its value is no flag; positionals come before
\* commands.
Parse(st, w) ==
    LET known == {f \in FlagsOf(Path(st.node)) :
                    \/ w.dashes = 2 /\ w.text \in {f.name, f.no}
                    \/ w.dashes = 1 /\ w.text = f.short /\ ~w.eq}
        child == findChild(st.node, w)
    IN  IF ~st.ok THEN st
        ELSE IF st.value THEN [st EXCEPT !.value = FALSE, !.ok = (w.dashes = 0)]
        ELSE IF w.dashes > 0 THEN [st EXCEPT !.ok = (known # {}), !.value = \E f \in known : f.value /\ ~w.eq]
        ELSE IF st.given < Len(Nodes[st.node].positional) THEN [st EXCEPT !.given = @ + 1]
        ELSE IF child # {} THEN [st EXCEPT !.node = CHOOSE n \in child : TRUE, !.given = 0]
        ELSE [st EXCEPT !.ok = FALSE]

kong(words) == FoldLeft(Parse, [ok |-> TRUE, value |-> FALSE, node |-> Root, given |-> 0], words)

-----------------------------------------------------------------------------
(* Properties *)

\* The front end's grammar has the nodes.
TypeOK ==
    /\ front \in FrontEnds /\ Len(line) <= MaxWords
    /\ current \in Unfinished \cup {Empty}
    /\ Reached(line).node \in DOMAIN Nodes

Awaits(st) == IF ~st.value /\ st.given < Len(Nodes[st.node].positional)
              THEN Nodes[st.node].positional[st.given + 1] ELSE ""

\* The walk and kong agree.  As long as kong can make sense of the line, a word
\* that completeArgs finds keeps it so: no flag of another command, no command or
\* flag where a value is due.  And where kong wants a file next, the shell and the
\* dashboard offer the ones that match; bash does once the word has begun like a
\* file.
OffersFit ==
    kong(line).ok =>
        /\ \A w \in completeArgs(line, current) : kong(Append(line, w)).ok
        /\ /\ Awaits(kong(line)) = "file"
           /\ front # "bash" \/ (current # Empty /\ current.begins \subseteq FileWords)
           => Matching(fileCompletions(current), ToSet(line), current) \subseteq Offered

=============================================================================
