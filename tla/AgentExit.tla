------------------------------ MODULE AgentExit ------------------------------
(***************************************************************************)
(* The life of an agent that runs one system call tracker                  *)
(* (src/agent_core.cpp, include/agent/agent_core.h), in the modes without  *)
(* a server: it starts its parts, waits for its time or for Ctrl-C, and    *)
(* its members are destroyed in the reverse of their order, the trackers   *)
(* last, while the tracker's thread still runs events through the chain.   *)
(***************************************************************************)
EXTENDS HandlerChain

VARIABLES
  main,           (* what the main thread does                              *)
  sigint,         (* is the agent's own SIGINT handler installed?           *)
  is_exiting,     (* set by that handler                                    *)
  owners          (* who shares the analyzer                                *)

mainVars == <<main, sigint, is_exiting, owners>>
vars == <<attached, rb, traceVars, chainVars, mainVars>>

Init ==
  /\ ChainInit
  /\ main = "start"
  /\ sigint = FALSE /\ is_exiting = FALSE /\ owners = {}

NoSignal == UNCHANGED <<sigint, is_exiting>>
NoTracker == UNCHANGED <<attached, rb, traceVars, thread, pos, exiting, alerts, stale, config>>

(* start_sec_analyzer, then start_container_manager: an exception of its
   init() ends start_agent before there is any tracker.                      *)
StartParts ==
  /\ main = "start"
  /\ owners' = IF config.enable_sec_rule_detect THEN {"core"} ELSE {}
  /\ \/ main' = "trackers"
     \/ config.enable_container_manager /\ main' = "destroy_analyzer"
  /\ UNCHANGED live /\ NoSignal /\ NoTracker

(* start_trackers: without a handler there is no tracker. *)
StartTrackers ==
  /\ main = "trackers"
  /\ main' = "auto_exit"
  /\ thread' = IF Chain(config) = << >> THEN "none" ELSE "setup"
  /\ owners' = IF owners = {} THEN {} ELSE owners \union {"rules"}
  /\ UNCHANGED <<attached, rb, traceVars, config, live, pos, exiting, alerts, stale>>
  /\ NoSignal

(* check_auto_exit goes to sleep, or asks for Ctrl-C: until then the signal
   has its default effect, though the tracker's thread is already at work.   *)
CheckAutoExit ==
  /\ main = "auto_exit"
  /\ main' = "wait"
  /\ sigint' = (config.exit_after = 0)
  /\ UNCHANGED <<is_exiting, live, owners>> /\ NoTracker

(* check_auto_exit returns, and with it start_agent. No tracker is told. *)
Leave ==
  /\ main = "wait" /\ (config.exit_after > 0 \/ is_exiting)
  /\ main' = "destroy_analyzer"
  /\ UNCHANGED <<live, owners>> /\ NoSignal /\ NoTracker

(***************************************************************************)
(* The destructor of agent_core.                                           *)
(***************************************************************************)
DestroyAnalyzer ==
  /\ main = "destroy_analyzer"
  /\ main' = "destroy_prometheus" /\ owners' = owners \ {"core"}
  /\ UNCHANGED live /\ NoSignal /\ NoTracker

DestroyPrometheus ==
  /\ main = "destroy_prometheus"
  /\ main' = "destroy_containers" /\ live' = live \ {"prometheus"}
  /\ UNCHANGED owners /\ NoSignal /\ NoTracker

DestroyContainers ==
  /\ main = "destroy_containers"
  /\ main' = "destroy_trackers" /\ live' = live \ {"containers"}
  /\ UNCHANGED owners /\ NoSignal /\ NoTracker

(* Mutant: the destructor waits for the thread without a word to it. *)
JoinOnly ==
  /\ main = "destroy_trackers"
  /\ main' = "join"
  /\ UNCHANGED <<live, owners>> /\ NoSignal /\ NoTracker

(* ~tracker_base: stop_tracker raises the flag ... *)
StopTracker ==
  /\ main = "destroy_trackers"
  /\ main' = "join" /\ exiting' = TRUE
  /\ UNCHANGED <<attached, rb, traceVars, config, live, thread, pos, alerts, stale, owners>>
  /\ NoSignal

(* Mutant: the thread is detached. *)
DoNotWait ==
  /\ main = "join"
  /\ main' = "done" /\ owners' = owners \ {"rules"}
  /\ UNCHANGED live /\ NoSignal /\ NoTracker

(* ... and waits; the tracker's handlers go with it. *)
Join ==
  /\ main = "join" /\ thread \in {"none", "ended"}
  /\ main' = "done" /\ owners' = owners \ {"rules"}
  /\ UNCHANGED live /\ NoSignal /\ NoTracker

Main ==
  \/ StartParts \/ StartTrackers \/ CheckAutoExit \/ Leave
  \/ DestroyAnalyzer \/ DestroyPrometheus \/ DestroyContainers \/ StopTracker \/ Join

(***************************************************************************)
(* The end that nobody planned.                                            *)
(***************************************************************************)
Running == main \notin {"done", "killed"}

(* The process is gone, and its BPF links and maps with it. *)
Die ==
  /\ main' = "killed" /\ thread' = "ended" /\ attached' = FALSE /\ rb' = << >> /\ pos' = 1
  /\ UNCHANGED <<traceVars, config, live, exiting, alerts, stale,
                 sigint, is_exiting, owners>>

(* Ctrl-C: the handler gives itself up; without it the signal kills. *)
Interrupt ==
  /\ Running
  /\ \/ /\ sigint
        /\ is_exiting' = TRUE /\ sigint' = FALSE
        /\ UNCHANGED <<main, owners, live>> /\ NoTracker
     \/ ~sigint /\ Die

(* What a handler finds in place of a dead member, or of the name of a call
   that has none, may well kill the agent.                                   *)
Crash ==
  LET h == Chain(config)[pos]
  IN  /\ thread = "poll" /\ rb # << >>
      /\ ~(Uses(h, Head(rb)) \subseteq live) \/ ReadsNoName(h, Head(rb))
      /\ Die

Next ==
  \/ Main /\ Running
  \/ Thread /\ UNCHANGED mainVars
  \/ Running /\ Kernel /\ UNCHANGED <<chainVars, mainVars>>
  \/ Interrupt \/ Crash
  \/ ~Running /\ UNCHANGED vars

(* The threads run on, and so does what is under way in the kernel; nobody
   has to make a system call or to press Ctrl-C.                             *)
Fairness ==
  /\ WF_vars(Main) /\ WF_vars(Thread /\ UNCHANGED mainVars)
  /\ \A c \in Cpus : WF_vars(SysEnter(c) /\ UNCHANGED <<chainVars, mainVars>>)

Spec == Init /\ [][Next]_vars /\ Fairness

-----------------------------------------------------------------------------

TypeOK ==
  /\ ChainTypeOK
  /\ main \in {"start", "trackers", "auto_exit", "wait", "destroy_analyzer", "destroy_prometheus",
               "destroy_containers", "destroy_trackers", "join", "done", "killed"}
  /\ {sigint, is_exiting} \subseteq BOOLEAN
  /\ owners \subseteq {"core", "rules"}

(* Once the agent has left, no thread of it runs, the tracer is not attached
   and the analyzer, which core and rules share, is freed (agent_core.h).    *)
ExitIsClean ==
  main = "done" => thread \in {"none", "ended"} /\ ~attached /\ owners = {}

(* The agent that begins to leave gets to the end, if the tracer's buffer is
   empty from some time on: inside ring_buffer__poll a stream of events keeps
   the thread from the test of its flag (tracker.h, syscall_tracker.h).      *)
ExitEnds ==
  <>[](rb = << >>) => (main = "destroy_analyzer" ~> main \in {"done", "killed"})

(* check_auto_exit is to "check and stop all trackers" (agent_core.h:69): no
   handler refers to a member of the core whose life is over.                *)
HandlersUseLiveMembers == stale = {}
=============================================================================
