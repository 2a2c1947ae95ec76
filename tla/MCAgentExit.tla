---------------------------- MODULE MCAgentExit ----------------------------
(***************************************************************************)
(* Instances of AgentExit: an agent with all its parts, one whose file     *)
(* names the handlers itself, and one with nothing to report to. Two       *)
(* threads of a process share a pid, which a second process gets later.    *)
(***************************************************************************)
EXTENDS AgentExit

CONSTANTS agent, app

TwoCpus == {1, 2}
TwoPids == {agent, app}
BpfCall == {"bpf"}

Everything ==
  [export_handlers |-> << >>, disable_other_configs |-> FALSE,
   enable_container_manager |-> TRUE, enabled_export_types |-> {"prometheus", "stdout"},
   fmt |-> "json_format", enable_sec_rule_detect |-> TRUE, exit_after |-> 0]
FromFile ==
  [Everything EXCEPT !.disable_other_configs = TRUE, !.enable_container_manager = FALSE,
                     !.enabled_export_types = {}, !.export_handlers = <<"json_format", "plain_text">>, !.exit_after = 1]
Silent ==
  [Everything EXCEPT !.enable_container_manager = FALSE, !.enable_sec_rule_detect = FALSE,
                     !.enabled_export_types = {"stdout"}, !.fmt = "none"]
ThreeConfigs == {Everything, FromFile, Silent}
OnlyEverything == {Everything}
=============================================================================
