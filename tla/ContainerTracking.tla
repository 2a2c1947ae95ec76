------------------------- MODULE ContainerTracking -------------------------
(***************************************************************************)
(* The container manager: the table pid |-> container, filled from /proc   *)
(* and dockerd at start and then kept up to date by the handler of the     *)
(* process tracker's exec and exit events (container.cpp), while processes *)
(* come, go and enter containers (the kernel and dockerd are external, the *)
(* BPF side is bpftools/process/process.bpf.c).                            *)
(***************************************************************************)
EXTENDS Integers, Sequences, FiniteSets

CONSTANTS
  Pids,
  Init1,        (* pid 1                                                    *)
  Containers,   (* the containers dockerd may know                          *)
  Host,         (* os_info, and the namespaces of the host                  *)
  Private,      (* a mount namespace that belongs to no container           *)
  Dead,         (* what /proc tells of a process that is gone: all zeros    *)
  RbSize,       (* how many events the ring buffer holds                    *)
  MaxForks      (* bound on the processes created                           *)

ASSUME PidsAssumption ==
  /\ Init1 \in Pids
  /\ Cardinality({Host, Private, Dead}) = 3
  /\ {Host, Private, Dead} \cap Containers = {}
  /\ RbSize \in Nat \ {0} /\ MaxForks \in Nat

VARIABLES
  proc,       (* pid |-> "free", "running" or "exiting"                     *)
  parent,     (* pid |-> the pid of the parent                              *)
  ns,         (* pid |-> its namespaces                                     *)
  ct,         (* pid |-> the container it is in, or Host                    *)
  forks,      (* how many processes were created                            *)
  listed,     (* the containers dockerd lists                               *)
  rb,         (* the ring buffer of process.bpf.c                           *)
  attached,   (* are the BPF programs attached?                             *)
  lost,       (* ghost: did an exit go unreported, or was it handled before *)
              (* dockerd listed the process all the same?                   *)
  mistaken,   (* ghost: did a pid get a new process, or a process a         *)
              (* container, while the agent still acts on what was before?  *)
  info_map,   (* pid |-> [common, info]                                     *)
  hpc,        (* where the process tracker's thread is                      *)
  ev,         (* the exec event it handles                                  *)
  pp_info,    (* the copy it made of the parent's entry                     *)
  todo,       (* the containers update_container_map_data has to go through *)
  top         (* the processes of a container it has to enter: <<pid, ct>>  *)

kernelVars == <<proc, parent, ns, ct, forks, listed, mistaken>>
rbVars == <<rb, attached, lost>>
handlerVars == <<info_map, hpc, ev, pp_info, todo, top>>
vars == <<kernelVars, rbVars, handlerVars>>

(* struct common_event, as get_process_common_event reads it in /proc, and
   as the BPF program fills it: get_current_pid_ns_id takes level 0 of the
   pid namespaces, which is the host's for every process.                    *)
PidNs(n) == IF n = Private THEN Host ELSE n
CommonOfProc(p) ==
  IF proc[p] \in {"running", "exiting"} THEN [pid |-> PidNs(ns[p]), mnt |-> ns[p]]
  ELSE [pid |-> Dead, mnt |-> Dead]
CommonOfEvent(p) == [pid |-> Host, mnt |-> ns[p]]

Event(kind, p) == [kind |-> kind, pid |-> p, ppid |-> parent[p], common |-> CommonOfEvent(p)]

Known == DOMAIN info_map
Insert(m, p, d) == [q \in DOMAIN m \union {p} |-> IF q = p THEN d ELSE m[q]]
Remove(m, p) == [q \in DOMAIN m \ {p} |-> m[q]]
Data(common, info) == [common |-> common, info |-> info]

(* The handler has no event in hand. *)
IdleEvent == [kind |-> "none", pid |-> Init1, ppid |-> Init1,
              common |-> [pid |-> Host, mnt |-> Host]]

Init ==
  /\ proc = [p \in Pids |-> IF p = Init1 THEN "running" ELSE "free"]
  /\ parent = [p \in Pids |-> Init1]
  /\ ns = [p \in Pids |-> Host]
  /\ ct = [p \in Pids |-> Host]
  /\ forks = 0
  /\ listed = {}
  /\ rb = << >>
  /\ attached = FALSE
  /\ lost = FALSE
  /\ mistaken = FALSE
  /\ info_map = [p \in {} |-> 0]
  /\ hpc = "scan"
  /\ ev = IdleEvent
  /\ pp_info = Data(IdleEvent.common, Host)
  /\ todo = {}
  /\ top = {}

(***************************************************************************)
(* The kernel: processes, and the events process.bpf.c reports.            *)
(***************************************************************************)
Running(p) == proc[p] = "running"

(* Mutant: the buffer takes every event. *)
ReportAlways(e) ==
  IF attached
  THEN rb' = Append(rb, e) /\ UNCHANGED lost
  ELSE UNCHANGED rb /\ lost' = (lost \/ e.kind = "exit")

(* bpf_ringbuf_reserve gives nothing when the buffer is full. *)
Report(e) ==
  IF attached /\ Len(rb) < RbSize
  THEN rb' = Append(rb, e) /\ UNCHANGED lost
  ELSE UNCHANGED rb /\ lost' = (lost \/ e.kind = "exit")

ExitPending(p) == \E i \in 1..Len(rb) : rb[i].kind = "exit" /\ rb[i].pid = p

(* Does the agent hold something of the pid's last process that no exit event
   under way will take back, or an exec event that names it as the parent?   *)
ExitFollows(i, p) == \E j \in (i + 1)..Len(rb) : rb[j].kind = "exit" /\ rb[j].pid = p
NamedAsParent(p) == \E i \in 1..Len(rb) : rb[i].kind = "exec" /\ rb[i].ppid = p
Outlived(p) ==
  \/ \E c \in Containers : <<p, c>> \in top
  \/ (p \in Known \/ ev.pid = p) /\ ~ExitPending(p)
  \/ \E i \in 1..Len(rb) : rb[i].kind = "exec" /\ rb[i].pid = p /\ ~ExitFollows(i, p)
  \/ NamedAsParent(p)

Fork(p, q) ==
  /\ Running(p) /\ proc[q] = "free"
  /\ mistaken' = (mistaken \/ Outlived(q))
  /\ forks < MaxForks
  /\ proc' = [proc EXCEPT ![q] = "running"]
  /\ parent' = [parent EXCEPT ![q] = p]
  /\ ns' = [ns EXCEPT ![q] = ns[p]]
  /\ ct' = [ct EXCEPT ![q] = ct[p]]
  /\ forks' = forks + 1
  /\ UNCHANGED <<listed, rbVars, handlerVars>>

(* The container runtime moves a process without children into a container. *)
Enter(p, c) ==
  /\ Running(p) /\ p # Init1 /\ ct[p] = Host
  /\ \A q \in Pids : parent[q] = p => proc[q] = "free"
  /\ ns' = [ns EXCEPT ![p] = c]
  /\ ct' = [ct EXCEPT ![p] = c]
  /\ mistaken' = (mistaken \/ NamedAsParent(p))
  /\ UNCHANGED <<proc, parent, forks, listed, rbVars, handlerVars>>

(* A process of the host takes a mount namespace of its own. *)
Unshare(p) ==
  /\ Running(p) /\ p # Init1 /\ ns[p] = Host
  /\ ns' = [ns EXCEPT ![p] = Private]
  /\ UNCHANGED <<proc, parent, ct, forks, listed, mistaken, rbVars, handlerVars>>

(* dockerd lists a container some time after its first process is there. *)
DockerLists(c) ==
  /\ c \notin listed
  /\ \E p \in Pids : Running(p) /\ ct[p] = c
  /\ listed' = listed \union {c}
  /\ UNCHANGED <<proc, parent, ns, ct, forks, mistaken, rbVars, handlerVars>>

Exec(p) ==
  /\ Running(p) /\ p # Init1
  /\ Report(Event("exec", p))
  /\ UNCHANGED <<kernelVars, attached, handlerVars>>

(* sched_process_exit, and later the children get another parent and the
   pid is given back.                                                        *)
Exit(p) ==
  /\ Running(p) /\ p # Init1
  /\ proc' = [proc EXCEPT ![p] = "exiting"]
  /\ Report(Event("exit", p))
  /\ UNCHANGED <<parent, ns, ct, forks, listed, mistaken, attached, handlerVars>>

Release(p) ==
  /\ proc[p] = "exiting"
  /\ proc' = [proc EXCEPT ![p] = "free"]
  /\ parent' = [q \in Pids |-> IF parent[q] = p THEN Init1 ELSE parent[q]]
  /\ UNCHANGED <<ns, ct, forks, listed, mistaken, rbVars, handlerVars>>

(***************************************************************************)
(* update_container_map_data: dockerd is asked for its containers, then    *)
(* for the processes of each, and each process is entered in the table.    *)
(***************************************************************************)
UpdateSteps == {"list", "top"}

ListAllContainers ==
  /\ hpc = "list"
  /\ todo' = listed
  /\ top' = {}
  /\ hpc' = "top"
  /\ UNCHANGED <<kernelVars, rbVars, info_map, ev, pp_info>>

(* docker top lists what runs in the container, and may list some of what is
   exiting there, whether or not the agent has handled the exit.             *)
Inside(c) == {p \in Pids : Running(p) /\ ct[p] = c}
Leaving(c) == {p \in Pids : proc[p] = "exiting" /\ ct[p] = c}

ListAllProcesses(c) ==
  /\ hpc = "top" /\ top = {} /\ c \in todo
  /\ todo' = todo \ {c}
  /\ \E late \in SUBSET Leaving(c) :
       /\ top' = {<<p, c>> : p \in Inside(c) \union late}
       /\ lost' = (lost \/ \E p \in late : ~ExitPending(p))
  /\ UNCHANGED <<kernelVars, rb, attached, info_map, hpc, ev, pp_info>>

(* Mutant: the column of the parent's pid is read for the pid's. *)
EnterParent(p, c) ==
  /\ hpc = "top" /\ <<p, c>> \in top
  /\ top' = top \ {<<p, c>>}
  /\ info_map' = Insert(info_map, parent[p], Data(CommonOfProc(parent[p]), c))
  /\ UNCHANGED <<kernelVars, rbVars, hpc, ev, pp_info, todo>>

EnterProcess(p, c) ==
  /\ hpc = "top" /\ <<p, c>> \in top
  /\ top' = top \ {<<p, c>>}
  /\ info_map' = Insert(info_map, p,
       Data(IF p \in Known THEN info_map[p].common ELSE CommonOfProc(p), c))
  /\ UNCHANGED <<kernelVars, rbVars, hpc, ev, pp_info, todo>>

Updated == hpc = "top" /\ todo = {} /\ top = {}

(* dockerd's answer is no JSON: the exception ends init, or the handling of
   the event that asked for the update.                                      *)
UpdateThrows ==
  /\ hpc \in UpdateSteps
  /\ hpc' = IF attached THEN "poll" ELSE "failed"
  /\ todo' = {} /\ top' = {} /\ ev' = IdleEvent
  /\ UNCHANGED <<kernelVars, rbVars, info_map, pp_info>>

(***************************************************************************)
(* init, then the process tracker attaches its programs.                   *)
(***************************************************************************)
GetAllProcessInfo ==
  /\ hpc = "scan"
  /\ info_map' = [p \in {q \in Pids : proc[q] \in {"running", "exiting"}} |->
                    Data(CommonOfProc(p), Host)]
  /\ hpc' = "list"
  /\ UNCHANGED <<kernelVars, rbVars, ev, pp_info, todo, top>>

Attach ==
  /\ Updated /\ ~attached
  /\ attached' = TRUE
  /\ hpc' = "poll"
  /\ UNCHANGED <<kernelVars, rb, lost, info_map, ev, pp_info, todo, top>>

(***************************************************************************)
(* container_tracking_handler::handle.                                     *)
(***************************************************************************)
Take(kind) == hpc = "poll" /\ rb # << >> /\ Head(rb).kind = kind
Consume == rb' = Tail(rb) /\ UNCHANGED <<attached, lost>>

(* Mutant: exits are left alone. *)
IgnoreExit ==
  /\ Take("exit")
  /\ Consume
  /\ UNCHANGED <<kernelVars, handlerVars>>

HandleExit ==
  /\ Take("exit")
  /\ Consume
  /\ info_map' = Remove(info_map, Head(rb).pid)
  /\ UNCHANGED <<kernelVars, hpc, ev, pp_info, todo, top>>

HandleKnown ==
  LET e == Head(rb)
  IN  /\ Take("exec") /\ e.pid \in Known
      /\ Consume
      /\ info_map' = Insert(info_map, e.pid, Data(e.common, info_map[e.pid].info))
      /\ UNCHANGED <<kernelVars, hpc, ev, pp_info, todo, top>>

HandleChild ==
  LET e == Head(rb)
  IN  /\ Take("exec") /\ e.pid \notin Known /\ e.ppid \in Known
      /\ info_map[e.ppid].common = e.common
      /\ Consume
      /\ info_map' = Insert(info_map, e.pid, Data(e.common, info_map[e.ppid].info))
      /\ UNCHANGED <<kernelVars, hpc, ev, pp_info, todo, top>>

(* Not the parent's namespaces: ask dockerd, with the parent's data in hand. *)
HandleOtherNamespace ==
  LET e == Head(rb)
  IN  /\ Take("exec") /\ e.pid \notin Known /\ e.ppid \in Known
      /\ info_map[e.ppid].common # e.common
      /\ Consume
      /\ ev' = e
      /\ pp_info' = info_map[e.ppid]
      /\ hpc' = "list"
      /\ UNCHANGED <<kernelVars, info_map, todo, top>>

FinishOtherNamespace ==
  /\ Updated /\ attached
  /\ info_map' = Insert(info_map, ev.pid, Data(ev.common, pp_info.info))
  /\ hpc' = "poll" /\ ev' = IdleEvent
  /\ UNCHANGED <<kernelVars, rbVars, pp_info, todo, top>>

HandleUnknown ==
  LET e == Head(rb)
  IN  /\ Take("exec") /\ e.pid \notin Known /\ e.ppid \notin Known
      /\ Consume
      /\ info_map' = Insert(Insert(info_map, e.pid, Data(e.common, Host)),
                            e.ppid, Data(CommonOfProc(e.ppid), Host))
      /\ UNCHANGED <<kernelVars, hpc, ev, pp_info, todo, top>>

Kernel ==
  \/ \E p, q \in Pids : Fork(p, q)
  \/ \E p \in Pids : Exec(p) \/ Exit(p) \/ Release(p) \/ Unshare(p)
  \/ \E p \in Pids, c \in Containers : Enter(p, c)
  \/ \E c \in Containers : DockerLists(c)

Agent ==
  \/ GetAllProcessInfo \/ Attach
  \/ ListAllContainers \/ UpdateThrows
  \/ \E c \in Containers : ListAllProcesses(c) \/ \E p \in Pids : EnterProcess(p, c)
  \/ HandleExit \/ HandleKnown \/ HandleChild
  \/ HandleOtherNamespace \/ FinishOtherNamespace \/ HandleUnknown

Next == Kernel \/ Agent

Spec == Init /\ [][Next]_vars
FairSpec == Spec /\ WF_vars(Agent)

-----------------------------------------------------------------------------
(***************************************************************************)
(* Properties.                                                             *)
(***************************************************************************)
Common == [pid : Containers \union {Host, Dead}, mnt : Containers \union {Host, Private, Dead}]

(* Every variable keeps its shape. *)
TypeOK ==
  /\ proc \in [Pids -> {"free", "running", "exiting"}]
  /\ parent \in [Pids -> Pids]
  /\ ct \in [Pids -> Containers \union {Host}]
  /\ listed \subseteq Containers
  /\ Len(rb) <= RbSize
  /\ Known \subseteq Pids
  /\ \A p \in Known : /\ info_map[p].common \in Common
                      /\ info_map[p].info \in Containers \union {Host}
  /\ hpc \in {"scan", "poll", "failed"} \union UpdateSteps
  /\ todo \subseteq Containers
  /\ top \subseteq Pids \X Containers

(* The table never puts a live process in a container it is not in: what is
   missing falls back to the host, but nothing is attributed to a stranger.
   Excepted is a process whose predecessor's exit is still to be handled, and
   all that follows once a pid is used again, or a process enters a container,
   behind the back of an agent that still acts on what was before.           *)
NeverWrongContainer ==
  ~mistaken =>
    \A p \in Known : Running(p) /\ ~ExitPending(p) => info_map[p].info \in {Host, ct[p]}

(* While no exit is lost and none is handled before dockerd lists its process,
   the table forgets the processes of containers: an entry of a pid that
   nobody has, or whose exit is under way, is the host's, or its exit is
   still to be handled.                                                      *)
ContainersAreForgotten ==
  ~lost => \A p \in Known : ~Running(p) => info_map[p].info = Host \/ ExitPending(p)

(* container.cpp: "not same namespace, update container info". When the
   handling of such an exec ends, a process that dockerd has just listed in a
   container is in the table with that container.                            *)
UpdateIsUsed ==
  [][FinishOtherNamespace =>
       (ev.pid \in Known => info_map'[ev.pid].info = info_map[ev.pid].info)]_vars

(* An exit that the kernel has reported takes the process out of the table,
   however long dockerd kept the handler busy before.                        *)
ExitIsHandled == \A p \in Pids : ExitPending(p) ~> p \notin Known
=============================================================================
