----------------------------- MODULE OutputRunner -----------------------------
(***************************************************************************)
(* The output runner (internal/ibazel/output_runner/output_runner.go):     *)
(* what executeOutput does with the output of one Bazel command.  It reads *)
(* the rules of .bazel_fix_commands.json, matches every line with every    *)
(* rule, builds the commands from the match groups and runs them, asking   *)
(* before each unless --run_output_interactive=false.                      *)
(*                                                                         *)
(* A template of the configuration is a sequence of characters; what a     *)
(* regular expression captures is a value of its own.  Lines are the lines *)
(* after the escape codes are taken out.                                   *)
(***************************************************************************)
EXTENDS Integers, Sequences, SequencesExt

CONSTANTS
    Regexes,   \* the regular expressions; "bad" does not compile
    Chars,     \* the characters of a template
    Captures,  \* what a group of a regular expression captures
    Configs,   \* the configurations
    Outputs,   \* the outputs
    MaxTyped,  \* bound on the answers waiting on standard input
    MaxChunk   \* the answers one read returns: 1 from a terminal, more from a pipe

\* Optcmd: a command and its arguments are templates.
Rule == [regex : Regexes, command : Seq(Chars), args : Seq(Seq(Chars))]

\* A line: what FindStringSubmatch returns for each regular expression, the whole match
\* first and nothing if there is none, and whether it is too long for the Scanner.
Line == [groups : [Regexes -> Seq(Captures)], long : BOOLEAN]

\* The rule used when the file is missing, cannot be opened or is not JSON, matched by the
\* regular expression "buildozer".
DefaultConfig ==
    <<[regex |-> "buildozer", command |-> <<"b">>, args |-> <<<<"$", "1">>, <<"$", "2">>>>]>>

ASSUME OutputRunnerAssumption ==
    /\ "buildozer" \in Regexes /\ {"b", "$", "1", "2"} \subseteq Chars
    /\ Configs \subseteq Seq(Rule) /\ Outputs \subseteq Seq(Line)
    /\ MaxTyped \in Nat /\ MaxChunk \in Nat

VARIABLES
    runOutput,    \* --run_output and a non-nil output
    interactive,  \* --run_output_interactive
    config,       \* what readConfigs returns
    output,       \* the buffer
    stdin,        \* the answers waiting: chunks of lines
    step,         \* where executeOutput is
    commands,     \* matchRegex's result: [rule, line, argv]
    idx,          \* executeOutput's idx, the next command
    executed,     \* history: the indices of the commands run, in order
    typed         \* history: what was on standard input at first

vars == <<runOutput, interactive, config, output, stdin, step, commands, idx, executed, typed>>

(***************************************************************************)
(* Templates.                                                              *)
(***************************************************************************)

Figures == <<"0", "1", "2", "3", "4", "5", "6", "7", "8", "9">>
Digits == [d \in Range(Figures) |-> CHOOSE n \in 0..9 : Figures[n + 1] = d]

\* matches[n], or the reference itself when there is no such group; matches[0] is the whole.
Group(matches, n) == IF n < Len(matches) THEN <<matches[n + 1]>> ELSE <<"$", ToString(n)>>

\* Mutant of WriteMatch: the index stays.
WriteMatchKeepsIndex(matches, s) ==
    IF s.matching THEN [s EXCEPT !.out = @ \o Group(matches, s.index), !.matching = FALSE]
    ELSE s

\* writeMatch, on convertArgs' local variables s.
WriteMatch(matches, s) ==
    IF s.matching THEN [out |-> s.out \o Group(matches, s.index), matching |-> FALSE, index |-> 0]
    ELSE s

\* One character of convertArgs.  A `$` while matching is a literal one, and leaves index.
ConvertChar(matches, s, c) ==
    IF c = "$"
    THEN [s EXCEPT !.out = IF s.matching THEN Append(@, c) ELSE @, !.matching = ~@]
    ELSE IF s.matching /\ c \in DOMAIN Digits
    THEN [s EXCEPT !.index = @ * 10 + Digits[c]]
    ELSE LET w == WriteMatch(matches, s) IN [w EXCEPT !.out = Append(@, c)]

ConvertArgs(matches, arg) ==
    WriteMatch(matches,
               FoldLeft(LAMBDA s, c : ConvertChar(matches, s, c),
                        [out |-> <<>>, matching |-> FALSE, index |-> 0], arg)).out

Number(chars) == FoldLeft(LAMBDA n, c : n * 10 + Digits[c], 0, chars)

\* convertArg's index: Atoi fails with 0 for what is no number.
CommandIndex(template) ==
    IF \A i \in 2..Len(template) : template[i] \in DOMAIN Digits THEN Number(Tail(template)) ELSE 0

IsReference(template) == template # <<>> /\ Head(template) = "$"

ConvertArg(matches, template) ==
    IF IsReference(template) THEN <<matches[CommandIndex(template) + 1]>> ELSE template

(***************************************************************************)
(* matchRegex.                                                             *)
(***************************************************************************)

Matches(rule, line) == line.groups[rule.regex]
DoesMatch(rule, line) == Matches(rule, line) # <<>>

Argv(rule, line) ==
    <<ConvertArg(Matches(rule, line), rule.command)>>
        \o [k \in 1..Len(rule.args) |-> ConvertArgs(Matches(rule, line), rule.args[k])]

\* The lines the Scanner returns: it stops for good at a line longer than its 64 KiB.
Scanned(lines) ==
    SubSeq(lines, 1, Max({k \in 0..Len(lines) : \A l \in 1..k : ~lines[l].long}))

\* The pairs of a line and a rule in the order matchRegex looks at them.
Pairs(rules, lines) ==
    [p \in 1..(Len(lines) * Len(rules)) |->
        [line |-> lines[((p - 1) \div Len(rules)) + 1],
         rule |-> rules[((p - 1) % Len(rules)) + 1]]]

\* MustCompile and an index out of range panic.
Panics(rules, lines) ==
    \E p \in DOMAIN Pairs(rules, lines) :
        LET rule == Pairs(rules, lines)[p].rule
            line == Pairs(rules, lines)[p].line IN
        \/ rule.regex = "bad"
        \/ /\ DoesMatch(rule, line) /\ IsReference(rule.command)
           /\ CommandIndex(rule.command) >= Len(Matches(rule, line))

\* fullCmd, the key of distinctCommands: the words joined by spaces.
FullCmd(argv) == FoldLeft(LAMBDA text, word : text \o <<" ">> \o word, Head(argv), Tail(argv))

\* Mutant of AddCommand: the key is the line, as in `commandLines`.
AddCommandPerLine(found, pair) ==
    IF DoesMatch(pair.rule, pair.line) /\ \A k \in 1..Len(found) : found[k].line # pair.line
    THEN Append(found, [rule |-> pair.rule, line |-> pair.line, argv |-> Argv(pair.rule, pair.line)])
    ELSE found

AddCommand(found, pair) ==
    IF /\ DoesMatch(pair.rule, pair.line)
       /\ \A k \in 1..Len(found) : FullCmd(found[k].argv) # FullCmd(Argv(pair.rule, pair.line))
    THEN Append(found, [rule |-> pair.rule, line |-> pair.line, argv |-> Argv(pair.rule, pair.line)])
    ELSE found

MatchRegex(rules, lines) == FoldLeft(AddCommand, <<>>, Pairs(rules, lines))

(***************************************************************************)
(* executeOutput.                                                          *)
(***************************************************************************)

Answers == {"y", "n"}

Init ==
    /\ runOutput \in BOOLEAN
    /\ interactive \in BOOLEAN
    /\ config \in Configs \cup {DefaultConfig}
    /\ output \in Outputs
    /\ stdin \in BoundedSeq(BoundedSeq(Answers, MaxChunk) \ {<<>>}, MaxTyped)
    /\ step = "begin"
    /\ commands = <<>>
    /\ idx = 1
    /\ executed = <<>>
    /\ typed = stdin

\* AfterCommand, and Initialize with the output of `bazel info`.
Sift ==
    /\ step = "begin"
    /\ LET lines == Scanned(output) IN
       IF ~runOutput THEN step' = "done" /\ UNCHANGED commands
       ELSE IF Panics(config, lines) THEN step' = "crashed" /\ UNCHANGED commands
       ELSE step' = "commands" /\ commands' = MatchRegex(config, lines)
    /\ UNCHANGED <<runOutput, interactive, config, output, stdin, idx, executed, typed>>

\* readConfigs does not find the workspace, whose markers may be gone by now: ibazel ends.
WorkspaceLost ==
    /\ step = "begin" /\ runOutput
    /\ step' = "exited"
    /\ UNCHANGED <<runOutput, interactive, config, output, stdin, commands, idx, executed, typed>>

Pending == step = "commands" /\ idx <= Len(commands)

\* Mutant of PromptCommand: the end of the input is a yes.
PromptCommandDefaultsToYes ==
    /\ Pending /\ interactive
    /\ executed' = IF stdin = <<>> \/ stdin[1][1] = "y" THEN Append(executed, idx) ELSE executed
    /\ stdin' = IF stdin = <<>> THEN stdin ELSE Tail(stdin)
    /\ idx' = idx + 1
    /\ UNCHANGED <<runOutput, interactive, config, output, step, commands, typed>>

\* promptCommand and executeCommand.  The reader is made for one prompt: what else it read
\* is gone with it.  At the end of the input the text is empty, which is a no.
PromptCommand ==
    /\ Pending /\ interactive
    /\ executed' = IF stdin # <<>> /\ stdin[1][1] = "y" THEN Append(executed, idx) ELSE executed
    /\ stdin' = IF stdin = <<>> THEN stdin ELSE Tail(stdin)
    /\ idx' = idx + 1
    /\ UNCHANGED <<runOutput, interactive, config, output, step, commands, typed>>

\* executeCommand; a failing command is only logged.
ExecuteCommand ==
    /\ Pending /\ ~interactive
    /\ executed' = Append(executed, idx)
    /\ idx' = idx + 1
    /\ UNCHANGED <<runOutput, interactive, config, output, stdin, step, commands, typed>>

Finish ==
    /\ step = "commands" /\ idx > Len(commands)
    /\ step' = "done"
    /\ UNCHANGED <<runOutput, interactive, config, output, stdin, commands, idx, executed, typed>>

Next == Sift \/ WorkspaceLost \/ PromptCommand \/ ExecuteCommand \/ Finish

Spec == Init /\ [][Next]_vars /\ WF_vars(Next)

(***************************************************************************)
(* Properties.                                                             *)
(***************************************************************************)

\* A pair that asks for a command, and the command's text.
Asks(pair) == DoesMatch(pair.rule, pair.line)
Text(pair) == FullCmd(Argv(pair.rule, pair.line))

\* Where a command is asked for that was not asked for before.
FirstAsked(pairs) ==
    {p \in DOMAIN pairs : /\ Asks(pairs[p])
                          /\ \A e \in 1..(p - 1) : Asks(pairs[e]) => Text(pairs[e]) # Text(pairs[p])}

\* Of the commands found, the k-th is the one that the k-th of these places asks for.
OncePerCommand(found, pairs) ==
    \E first \in [1..Len(found) -> FirstAsked(pairs)] :
        /\ \A k \in 1..Len(found) : FullCmd(found[k].argv) = Text(pairs[first[k]])
        /\ \A k, l \in 1..Len(found) : k < l => first[k] < first[l]
        /\ \A p \in FirstAsked(pairs) : \E k \in 1..Len(found) : first[k] = p

\* README.md:168: a regex "will be matched against every line of output".  Every command a
\* scanned line asks for is there, once (matchRegex, output_runner.go:157), in the order of
\* the output and, within a line, of the configuration.
EveryCommandOnce ==
    step = "commands" => OncePerCommand(commands, Pairs(config, Scanned(output)))

\* Where the digits after the i-th character end.
RunEnd(arg, i) ==
    CHOOSE j \in i..Len(arg) :
        /\ \A k \in (i + 1)..j : arg[k] \in DOMAIN Digits
        /\ j = Len(arg) \/ arg[j + 1] \notin DOMAIN Digits

\* What a template means: `$$` is a dollar, `$` and the digits after it a group, any other
\* character itself.
Expansion(matches, arg) ==
    LET expand[i \in 1..(Len(arg) + 2)] ==
            IF i > Len(arg) THEN <<>>
            ELSE IF arg[i] # "$" THEN <<arg[i]>> \o expand[i + 1]
            ELSE IF i < Len(arg) /\ arg[i + 1] = "$" THEN <<"$">> \o expand[i + 2]
            ELSE LET j == RunEnd(arg, i) IN
                 Group(matches, Number(SubSeq(arg, i + 1, j))) \o expand[j + 1]
    IN  expand[1]

\* No `$` follows a reference at once: `$1$2` is not two references for convertArgs.
Separated(arg) ==
    \A i, j \in 1..Len(arg) :
        /\ i + 1 < j /\ arg[i] = "$" /\ arg[j] = "$"
        => \E k \in (i + 1)..(j - 1) : arg[k] \notin DOMAIN Digits

\* README.md:173: the arguments are given "substituting `$1` with the first match group of
\* `regex`, `$2` with the second, etc." (convertArgs, output_runner.go:186), for every
\* template in which no `$` follows a reference at once.
ArgumentsSubstituted ==
    \A n \in 1..Len(commands) :
        LET rule == commands[n].rule
            line == commands[n].line IN
        \A k \in 1..Len(rule.args) :
            Separated(rule.args[k]) =>
                commands[n].argv[k + 1] = Expansion(Matches(rule, line), rule.args[k])

\* Interactively, the k-th command runs if and only if the k-th answer is a yes
\* (executeOutput, output_runner.go:98): no answer is lost, used twice or for another
\* command.  This is for a terminal, which gives one line to a read (MaxChunk = 1).
ConfirmedIsRun ==
    step = "done" /\ interactive =>
        LET answers == FlattenSeq(typed) IN
        Range(executed) = {k \in 1..Len(commands) : k <= Len(answers) /\ answers[k] = "y"}

=============================================================================
