---------------------------- MODULE HandlerChain ----------------------------
(***************************************************************************)
(* The system call tracker in the agent: the chain of event handlers that  *)
(* the agent core builds from its configuration (src/agent_core.cpp,       *)
(* src/config.cpp), the security rules at its head (src/sec_analyzer.cpp), *)
(* and the thread that polls the tracer's ring buffer and runs each event  *)
(* through the chain (syscall_tracker.h, model/event_handler.h).           *)
(***************************************************************************)
EXTENDS SyscallTrace

CONSTANTS
  Configs,        (* agent_config_data, as far as it matters here           *)
  Rules,          (* the calls some rule's signature names                  *)
  Unnamed,        (* calls beyond syscall_names_x86_64, or without a name   *)
  AgentPid        (* the agent's own pid                                    *)

Printers == {"json_format", "plain_text", "csv"}
Handlers == Printers \union {"prometheus", "container_info"}

ASSUME ChainAssumption ==
  /\ Rules \subseteq Calls /\ Unnamed \subseteq Calls /\ Rules \intersect Unnamed = {}
  /\ \A f \in Configs :
       /\ f.export_handlers \in Seq(Handlers)
       /\ f.enabled_export_types \subseteq {"prometheus", "stdout"}
       /\ f.fmt \in Printers \union {"none"}
       /\ f.exit_after \in Nat
       /\ {f.disable_other_configs, f.enable_container_manager, f.enable_sec_rule_detect}
            \subseteq BOOLEAN

VARIABLES
  config,         (* core_config                                            *)
  live,           (* the members of the agent core that handlers refer to   *)
  thread,         (* what the tracker's thread does                         *)
  pos,            (* where in the chain the event at the head of rb is      *)
  exiting,        (* the flag the thread polls                              *)
  alerts,         (* ghost: the calls the security analyzer reported        *)
  stale           (* ghost: members a handler used after their end          *)

chainVars == <<config, live, thread, pos, exiting, alerts, stale>>

(***************************************************************************)
(* Building the chain.                                                     *)
(***************************************************************************)
When(b, h) == IF b THEN <<h>> ELSE << >>

(* load_config_options_to_trackers; the export types are an ordered set.
   "none" makes no handler and is left out, here and in the file's own list. *)
ExportHandlers(f) ==
  IF f.disable_other_configs THEN f.export_handlers
  ELSE f.export_handlers
       \o When(f.enable_container_manager, "container_info")
       \o When("prometheus" \in f.enabled_export_types, "prometheus")
       \o When("stdout" \in f.enabled_export_types /\ f.fmt # "none", f.fmt)

(* Mutant: the rules come after the exporters. *)
RulesLast(f) == ExportHandlers(f) \o When(f.enable_sec_rule_detect, "rules")

(* create_default_tracker_with_sec_analyzer *)
Chain(f) == When(f.enable_sec_rule_detect, "rules") \o ExportHandlers(f)

(* check_rule: the agent's own calls break no rule. *)
Matches(call) == call.pid # AgentPid /\ call.id \in Rules

(* The members of the core a handler touches for an event. The analyzer itself
   is shared with the rules; with prometheus on, it counts what they match.   *)
Uses(h, call) ==
  CASE h = "prometheus"               -> {"prometheus"}
    [] h = "container_info"           -> {"containers"}
    [] h = "rules" /\ Matches(call)   -> {"prometheus"} \intersect config.enabled_export_types
    [] OTHER                          -> {}

(* The rules and the exporter take the name from the table without a look at
   its size; what they find may be text, no text or no memory at all.        *)
ReadsNoName(h, call) ==
  call.id \in Unnamed /\ (h = "prometheus" \/ (h = "rules" /\ call.pid # AgentPid))

(* The text of a command name need not be UTF-8, which to_json().dump()
   refuses; and std::string(nullptr) throws.                                 *)
MayThrow(h, call) == h = "json_format" \/ (h = "prometheus" /\ ReadsNoName(h, call))

(***************************************************************************)
(* The thread.                                                             *)
(***************************************************************************)
ChainInit ==
  /\ TraceInit
  /\ config \in Configs
  /\ live = {"prometheus", "containers"}
  /\ thread = "none" /\ pos = 1 /\ exiting = FALSE
  /\ alerts = {} /\ stale = {}

StaysInChain == UNCHANGED <<traceVars, config, live, exiting>>
NoEvent == UNCHANGED <<pos, alerts, stale>>

(* Load and attach; then the ring buffer, which may be refused, too. *)
Setup ==
  /\ thread = "setup"
  /\ \/ thread' = "ended" /\ UNCHANGED attached
     \/ thread' \in {"loop", "cleanup"} /\ attached' = TRUE
  /\ UNCHANGED rb /\ NoEvent /\ StaysInChain

TestExiting ==
  /\ thread = "loop"
  /\ thread' = IF exiting THEN "cleanup" ELSE "poll"
  /\ UNCHANGED <<attached, rb>> /\ NoEvent /\ StaysInChain

(* ring_buffer__poll returns when the buffer is empty: 0 or more events were
   handled, or an error or a signal ended the wait, and that ends the loop.  *)
PollEmpty ==
  /\ thread = "poll" /\ rb = << >>
  /\ thread' \in {"loop", "cleanup"}
  /\ UNCHANGED <<attached, rb>> /\ NoEvent /\ StaysInChain

(* Mutant: the next event starts where this one ended. *)
NotRewound == pos' = pos + 1 /\ rb' = Tail(rb)

Handled == pos' = 1 /\ rb' = Tail(rb)

(* One handler's handle(), inside do_handle_event. An exception ends the way
   of the event; the next handler is not called.                             *)
Handle ==
  LET chain == Chain(config)
      h == chain[pos]
  IN  /\ thread = "poll" /\ rb # << >>
      /\ alerts' = IF h = "rules" /\ Matches(Head(rb)) THEN alerts \union {Head(rb)} ELSE alerts
      /\ stale' = stale \union (Uses(h, Head(rb)) \ live)
      /\ \/ pos < Len(chain) /\ pos' = pos + 1 /\ UNCHANGED rb
         \/ pos = Len(chain) /\ Handled
         \/ MayThrow(h, Head(rb)) /\ Handled
      /\ UNCHANGED <<attached, thread>> /\ StaysInChain

(* Events that were not handled are lost with the buffer. *)
Cleanup ==
  /\ thread = "cleanup"
  /\ attached' = FALSE /\ rb' = << >> /\ thread' = "ended"
  /\ NoEvent /\ StaysInChain

Thread == Setup \/ TestExiting \/ PollEmpty \/ Handle \/ Cleanup

-----------------------------------------------------------------------------

ChainTypeOK ==
  /\ TraceTypeOK
  /\ config \in Configs
  /\ live \subseteq {"prometheus", "containers"} /\ stale \subseteq {"prometheus", "containers"}
  /\ thread \in {"none", "setup", "loop", "poll", "cleanup", "ended"}
  /\ pos = 1 \/ (rb # << >> /\ pos \in 1..Len(Chain(config)))
  /\ exiting \in BOOLEAN
  /\ alerts \subseteq made

(* A rule misses no first call (sec_analyzer.h): whatever the other handlers
   do, a call that has a rule and did not meet a full buffer is reported, or
   is on its way, until the thread leaves its loop; except a call that the
   process that had the pid before has made.                                 *)
AlertedOrUnderWay ==
  (config.enable_sec_rule_detect /\ thread \in {"loop", "poll"}) =>
    \A call \in made : Matches(call) =>
      \/ call \in alerts \union dropped
      \/ \E i \in DOMAIN rb : rb[i] = call
      \/ Inherited(call)
=============================================================================
