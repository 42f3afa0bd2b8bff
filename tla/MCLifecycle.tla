----------------------------- MODULE MCLifecycle -----------------------------
(***************************************************************************)
(* An instance of Lifecycle for TLC: what the four hook flags may be.      *)
(***************************************************************************)
EXTENDS Lifecycle

Flags(before, after, onSuccess, onError) ==
    [h \in HookNames |-> CASE h = "before" -> before [] h = "after" -> after
                           [] h = "after_success" -> onSuccess [] h = "after_error" -> onError]

\* All hooks; those of the results only; one that cannot be parsed.
MCHookChoices ==
    {Flags("command", "command", "command", "command"),
     Flags("empty", "empty", "command", "command"),
     Flags("empty", "unparsable", "empty", "empty"),
     Flags("command", "empty", "empty", "unparsable")}

=============================================================================
