----------------------------- MODULE MCHostBoot -----------------------------
(* HostBoot: the two files of the manifest; two plugins, one of them found *)
(* twice, that want the same command, handler and CLI; two registries. *)
EXTENDS HostBoot

MCTargets == <<"loader", "protocol">>

MCOrder == <<"claw", "other", "claw">>

MCCalls ==
    [ claw  |-> << <<"extension", "plan-mode">>, <<"entry", "plan.accept">>,
                   <<"handler", "telegram">>, <<"command", "plan">>,
                   <<"cli", "plan-clear">> >>,
      other |-> << <<"cli", "plan-clear">>, <<"command", "plan">>,
                   <<"harness", "pi">>, <<"handler", "telegram">>,
                   <<"compaction", "pi">> >> ]

MCConfigs == {{"claw"}, {"claw", "other"}}
=============================================================================
