---------------------------- MODULE MCCompletion ----------------------------
(* Completion over the commands of CLI (bash, shell) and of Commands (the    *)
(* dashboard) that differ in what they take: a file and flags with values, a *)
(* negatable flag, nothing, and the hidden default.                          *)
EXTENDS Completion, TLC

Switch(name, short) ==
    [name |-> name, short |-> short, no |-> "", value |-> FALSE, hidden |-> FALSE, hints |-> {}]
Valued(name, short) == [Switch(name, short) EXCEPT !.value = TRUE]

Node(flags, positional) ==
    [parent |-> "trexc", aliases |-> {}, flags |-> flags, positional |-> positional, hidden |-> FALSE]

Commands ==
    [streams |-> Node({Valued("ports", "p"), Switch("force", "f")}, <<"file">>),
     stop    |-> Node({Valued("ports", "p"), [Switch("force", "f") EXCEPT !.no = "no-force"]}, <<>>),
     stats   |-> Node({}, <<>>)]

RootNode(flags) == [Node(flags \cup {Switch("help", "h")}, <<>>) EXCEPT !.parent = ""]

CLI == Commands @@ ("shell" :> [Node({}, <<>>) EXCEPT !.hidden = TRUE])
                @@ ("trexc" :> RootNode({Valued("host", "s")}))

MCGrammar == [bash |-> CLI, shell |-> CLI, tui |-> Commands @@ ("trexc" :> RootNode({}))]

\* Two profiles, one of them in a directory, and a hidden file.
MCFiles ==
    {[word |-> Plain("p.yaml"), dir |-> "", hidden |-> FALSE],
     [word |-> Plain("d/"), dir |-> "", hidden |-> FALSE],
     [word |-> Plain("d/q.yaml"), dir |-> "d/", hidden |-> FALSE],
     [word |-> Plain(".rc"), dir |-> "", hidden |-> TRUE]}

\* Values and positionals, flags by letter, with "=", and misspelled.
MCTyped ==
    {Plain("0"), Plain("p.yaml"), Plain("shell"), Short("p"), Short("s"), Short("f"),
     [Long("host") EXCEPT !.eq = TRUE], Long("ports"), Long("p"), Long("no-force")}

MCUnfinished ==
    {[text |-> "-", dir |-> "", begins |-> {Long(t) : t \in {"ports", "force", "no-force", "host"}}],
     [text |-> "st", dir |-> "", begins |-> {Plain("streams"), Plain("stop"), Plain("stats")}],
     [text |-> "p", dir |-> "", begins |-> {Plain("p.yaml")}],
     [text |-> ".", dir |-> "", begins |-> {Plain(".rc")}],
     [text |-> "d/", dir |-> "d/", begins |-> {Plain("d/q.yaml")}]}
=============================================================================
