---------------------------- MODULE MCAgentTurn ----------------------------
(***************************************************************************)
(* One turn at a time of one session, with a call or a command for every   *)
(* rule of the gates, a path for every spelling they normalise, and a      *)
(* message for every detector and for none.                                *)
(***************************************************************************)
EXTENDS AgentTurn

MCHashOf == [p \in Plans |-> p]

MCHome == <<"", "home", "u">>

(* The agent's working directory is the home directory.                    *)
MCLocation ==
    LET config == <<"", "home", "u", ".openclaw", "config">>
        readme == <<"", "home", "u", "work", "README">>
        system == <<"", "etc", "openclaw", "gateway">>
    IN  ( <<"~", ".openclaw", "config">> :> config @@
          <<"", "home", "v", "..", "u", "", ".openclaw", "config">> :> config @@
          <<"~", "..", "u", ".", ".openclaw", "config">> :> config @@
          <<".openclaw", "config">> :> config @@
          <<"~", ".openclaw", "..", "work", "README">> :> readme @@
          <<"", "etc", "", "openclaw", "gateway">> :> system )

Call(tool, suffix, command, params, targets) ==
    [tool |-> tool, suffix |-> suffix, command |-> command,
     params |-> params, patchTargets |-> targets]

Bare == [n \in {} |-> <<>>]

Plain == [operators |-> FALSE, flag |-> FALSE, readOnly |-> FALSE, matches |-> {}]

Listing == [Plain EXCEPT !.readOnly = TRUE]

MCCommands ==
    { Plain, Listing, [Listing EXCEPT !.operators = TRUE],
      [Listing EXCEPT !.flag = TRUE] }
    \cup {[Plain EXCEPT !.matches = {c}] : c \in Category}

(* One call for every way to say what is written: each parameter, two of   *)
(* them, one the hook does not know, and a patch.                           *)
MCWriterCalls ==
    LET secret == <<"~", ".openclaw", "config">>
        readme == <<"~", ".openclaw", "..", "work", "README">>
    IN  { Call("write", "", NoCommand, "file_path" :> p, {}) : p \in DOMAIN MCLocation }
        \cup {Call("edit", "", NoCommand, n :> secret, {}) : n \in {"path", "target", "filePath"}}
        \cup { Call("create", "", NoCommand, "file_path" :> readme @@ "path" :> secret, {}),
               Call("apply_patch", "", NoCommand, Bare, {secret}) }

MCCalls ==
    {Call(t, "", NoCommand, Bare, {}) : t \in {"exit_plan_mode", "exec", "unheard_of"}}
    \cup {Call("custom", s, NoCommand, Bare, {}) : s \in {".read", ".write"}}
    \cup {Call("bash", "", c, Bare, {}) : c \in MCCommands}
    \cup MCWriterCalls

Silence ==
    [blank |-> TRUE, long |-> FALSE, code |-> FALSE, structured |-> FALSE,
     promise |-> FALSE, verb |-> FALSE, completion |-> FALSE]

Text == [Silence EXCEPT !.blank = FALSE]

(* No rooted path of the instance leads over a link.                       *)
ASSUME MCLinkAssumption == NoLinks

MCMessages ==
    { Silence, Text, [Text EXCEPT !.completion = TRUE],
      [Text EXCEPT !.promise = TRUE], [Text EXCEPT !.structured = TRUE],
      [Text EXCEPT !.promise = TRUE, !.verb = TRUE],
      [Text EXCEPT !.promise = TRUE, !.verb = TRUE, !.long = TRUE],
      [Text EXCEPT !.promise = TRUE, !.verb = TRUE, !.code = TRUE] }
=============================================================================
