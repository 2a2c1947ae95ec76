---------------------------- MODULE SyscallTrace ----------------------------
(***************************************************************************)
(* The system call tracer in the kernel (bpftools/syscall/syscall.bpf.c),  *)
(* as the agent loads it: no filter, filter_report_times = 0 and           *)
(* min_duration_ns = 0. sys_enter runs on every CPU; it reports the first  *)
(* call of each system call by each process, which it remembers per pid.   *)
(***************************************************************************)
EXTENDS Integers, Sequences, FiniteSets

CONSTANTS
  Cpus,
  Pids,
  Calls,          (* system calls below MAX_SYSCALLS                        *)
  MaxEntries,     (* MAX_ENTRIES of the table                               *)
  MaxEvents,      (* events the ring buffer holds                           *)
  MaxGen          (* bound: no pid changes hands once one has its MaxGen-th *)
                  (* process                                                *)

ASSUME TraceAssumption ==
  /\ MaxEntries \in Nat /\ MaxEvents \in Nat /\ MaxGen \in Nat \ {0}

VARIABLES
  attached,       (* is sys_enter attached to the tracepoint?               *)
  syscalls,       (* the table: pid |-> calls that were reported            *)
  rb,             (* events on their way to the agent                       *)
  cpu,            (* per CPU: idle, or sys_enter under way                  *)
  gen,            (* which process has the pid                              *)
  made,           (* ghost: the calls made                                  *)
  dropped,        (* ghost: those whose event found no room                 *)
  excused         (* ghost: pids the table had no room for, or of which two *)
                  (* threads were in sys_enter at once                      *)

ghostVars == <<made, dropped, excused>>
traceVars == <<syscalls, cpu, gen, ghostVars>>

Idle == [at |-> "idle"]

TraceInit ==
  /\ attached = FALSE
  /\ syscalls = [p \in {} |-> {}]
  /\ rb = << >>
  /\ cpu = [c \in Cpus |-> Idle]
  /\ gen = [p \in Pids |-> 1]
  /\ made = {} /\ dropped = {} /\ excused = {}

Within(p) == {c \in Cpus : cpu[c].at # "idle" /\ cpu[c].pid = p}

(* Mutant: what is in the table is reported again. *)
NeverReported(p, id) == FALSE

Reported(p, id) == p \in DOMAIN syscalls /\ id \in syscalls[p]

(* submit_event, once for each first call. *)
Submit(call) ==
  /\ rb' = IF Len(rb) < MaxEvents THEN Append(rb, call) ELSE rb
  /\ dropped' = IF Len(rb) < MaxEvents THEN dropped ELSE dropped \union {call}

(* sys_enter up to the event: the lookup, the test, and submit_event. *)
Enter(c, p, id) ==
  LET call == [pid |-> p, gen |-> gen[p], id |-> id]
  IN  /\ attached /\ cpu[c] = Idle
      /\ made' = made \union {call}
      /\ excused' = IF Within(p) = {} THEN excused ELSE excused \union {p}
      /\ IF Reported(p, id)
         THEN UNCHANGED <<rb, dropped, cpu>>
         ELSE /\ Submit(call)
              /\ cpu' = [cpu EXCEPT ![c] =
                   [at |-> IF p \in DOMAIN syscalls THEN "mark" ELSE "insert",
                    pid |-> p, id |-> id, lost |-> FALSE]]
      /\ UNCHANGED <<attached, syscalls, gen>>

(* An empty entry; it replaces one that another CPU has put there since, and
   what that CPU still writes goes to the entry replaced. No room: nothing is
   remembered.                                                               *)
Insert(c) ==
  LET p == cpu[c].pid
  IN  /\ cpu[c].at = "insert"
      /\ \/ /\ p \in DOMAIN syscalls \/ Cardinality(DOMAIN syscalls) < MaxEntries
            /\ syscalls' = [q \in DOMAIN syscalls \union {p} |->
                              IF q = p THEN {} ELSE syscalls[q]]
            /\ cpu' = [d \in Cpus |->
                 IF d = c THEN [cpu[c] EXCEPT !.at = "mark"]
                 ELSE IF d \in Within(p) THEN [cpu[d] EXCEPT !.lost = TRUE] ELSE cpu[d]]
            /\ UNCHANGED excused
         \/ /\ p \notin DOMAIN syscalls /\ Cardinality(DOMAIN syscalls) >= MaxEntries
            /\ cpu' = [cpu EXCEPT ![c] = Idle]
            /\ excused' = excused \union {p}
            /\ UNCHANGED syscalls
      /\ UNCHANGED <<attached, rb, gen, made, dropped>>

Mark(c) ==
  /\ cpu[c].at = "mark"
  /\ syscalls' = IF cpu[c].lost THEN syscalls
                 ELSE [syscalls EXCEPT ![cpu[c].pid] = @ \union {cpu[c].id}]
  /\ cpu' = [cpu EXCEPT ![c] = Idle]
  /\ UNCHANGED <<attached, rb, gen, ghostVars>>

(* The process ends and another one gets its pid. Nothing tells the table. *)
Reuse(p) ==
  /\ attached /\ (\A q \in Pids : gen[q] < MaxGen) /\ Within(p) = {}
  /\ gen' = [gen EXCEPT ![p] = @ + 1]
  /\ UNCHANGED <<attached, syscalls, rb, cpu, ghostVars>>

SysEnter(c) == Insert(c) \/ Mark(c)

Kernel ==
  \/ \E c \in Cpus : SysEnter(c) \/ \E p \in Pids, id \in Calls : Enter(c, p, id)
  \/ \E p \in Pids : Reuse(p)

-----------------------------------------------------------------------------

Call == [pid : Pids, gen : 1..MaxGen, id : Calls]
SysEnterState == [at : {"mark", "insert"}, pid : Pids, id : Calls, lost : BOOLEAN]

TraceTypeOK ==
  /\ attached \in BOOLEAN
  /\ DOMAIN syscalls \subseteq Pids
  /\ \A p \in DOMAIN syscalls : syscalls[p] \subseteq Calls
  /\ rb \in Seq(Call) /\ Len(rb) <= MaxEvents
  /\ cpu \in [Cpus -> {Idle} \union SysEnterState]
  /\ gen \in [Pids -> 1..MaxGen]
  /\ made \subseteq Call /\ dropped \subseteq made
  /\ excused \subseteq Pids

(* A process's system call is reported once (syscall.bpf.c: "submit event at
   first time"), although two CPUs may be in sys_enter for its pid and the
   table forgets what did not fit: only those two repeat a report.           *)
ReportedOnce ==
  [][\A c \in Cpus : (cpu[c] = Idle /\ cpu'[c] # Idle) =>
       LET p == cpu'[c].pid
       IN  [pid |-> p, gen |-> gen[p], id |-> cpu'[c].id] \in made => p \in excused']_<<cpu, made>>

(* A first call is reported unless its pid's former process made it, too: the
   entries of a pid stay when the process ends.                              *)
Inherited(call) == \E g \in 1..(call.gen - 1) : [call EXCEPT !.gen = g] \in made
=============================================================================
