---------------------------- MODULE MCOutputRunner ----------------------------
(***************************************************************************)
(* An instance of OutputRunner for TLC: outputs of two lines at most, and  *)
(* configurations of one rule with any short template or of two rules.     *)
(***************************************************************************)
EXTENDS OutputRunner

MCRegexes == {"buildozer", "import", "bad"}
MCChars == {"$", "1", "2", "3", "x", "b", "T"}
MCCaptures == {"W1", "W2", "W3", "W4", "A", "B", "C", "T"}

LineWith(buildozer, import, long) ==
    [groups |-> [r \in MCRegexes |-> CASE r = "buildozer" -> buildozer
                                       [] r = "import" -> import
                                       [] OTHER -> <<>>],
     long |-> long]
Nothing == <<>>

\* A buildozer command, another one with the same second group, a missing import that both
\* rules match, a line no rule matches and one too long.
MCLines ==
    {LineWith(<<"W1", "A", "T">>, Nothing, FALSE), LineWith(<<"W2", "B", "T">>, Nothing, FALSE),
     LineWith(<<"W3", "A", "T">>, <<"W3", "A">>, FALSE), LineWith(Nothing, Nothing, FALSE),
     LineWith(<<"W4", "C", "T">>, Nothing, TRUE)}
MCOutputs == BoundedSeq(MCLines, 2)

RuleWith(regex, command, args) == [regex |-> regex, command |-> command, args |-> args]

\* One rule with any short template, and pairs of rules.
MCConfigs ==
    {<<RuleWith("buildozer", <<"b">>, <<arg>>)>> : arg \in BoundedSeq({"$", "1", "x"}, 4)}
    \cup {<<>>}
    \cup {<<RuleWith("buildozer", command, <<<<"$", "2">>>>),
            RuleWith(other, <<"$", "1">>, <<<<"T">>>>)>> :
              command \in {<<"$", "1">>, <<"$", "3">>, <<"$">>}, other \in {"import", "bad"}}

=============================================================================
