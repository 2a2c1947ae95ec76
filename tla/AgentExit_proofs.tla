-------------------------- MODULE AgentExit_proofs --------------------------
(***************************************************************************)
(* Theorems about AgentExit and the layers beneath it, for any number of   *)
(* CPUs, pids and system calls, any configurations and any room in the     *)
(* table and in the ring buffer.                                           *)
(***************************************************************************)
EXTENDS AgentExit, TLAPS

(***************************************************************************)
(* The inductive invariant.                                                *)
(***************************************************************************)

(* The tracer: what was made is remembered in the table or about to be, but
   for pids that are excused; and the table remembers nothing else.          *)
Busy(c) == cpu[c].at # "idle"
Made(p, id) == \E g \in 1..gen[p] : [pid |-> p, gen |-> g, id |-> id] \in made
AboutToMark(p, id) == \E c \in Cpus : Busy(c) /\ cpu[c].pid = p /\ cpu[c].id = id

NotFromTheFuture == \A call \in made : call.gen <= gen[call.pid]
OnlyMadeIsReported ==
  /\ \A p \in DOMAIN syscalls : \A id \in syscalls[p] : Made(p, id)
  /\ \A c \in Cpus : Busy(c) => Made(cpu[c].pid, cpu[c].id)
MadeIsReported ==
  \A call \in made :
    call.gen = gen[call.pid] /\ call.pid \notin excused =>
      Reported(call.pid, call.id) \/ AboutToMark(call.pid, call.id)
EntriesStay ==
  \A c \in Cpus :
    Busy(c) =>
      /\ cpu[c].at = "mark" => cpu[c].pid \in DOMAIN syscalls
      /\ cpu[c].pid \notin excused =>
           /\ ~cpu[c].lost
           /\ cpu[c].at = "insert" => cpu[c].pid \notin DOMAIN syscalls
           /\ \A d \in Cpus : Busy(d) /\ cpu[d].pid = cpu[c].pid => d = c

TraceInv == NotFromTheFuture /\ OnlyMadeIsReported /\ MadeIsReported /\ EntriesStay

(* The thread: an event is on its way through the chain only inside the poll,
   the tracer is attached only while the thread is in its loop, and nothing
   is traced before.                                                         *)
ThreadInv ==
  /\ thread # "poll" => pos = 1
  /\ attached => thread \in {"loop", "poll", "cleanup"}
  /\ thread \in {"none", "setup"} => made = {}

(* The main thread: when there is a tracker, and who shares the analyzer. *)
MainInv ==
  /\ main \in {"start", "trackers"} => thread = "none"
  /\ main = "start" => owners = {}
  /\ main = "trackers" => owners \subseteq {"core"}
  /\ main \in {"destroy_prometheus", "destroy_containers", "destroy_trackers", "join"}
       => owners \subseteq {"rules"}
  /\ main = "done" => thread \in {"none", "ended"} /\ owners = {}

(* The rules are first: an event that is past them was matched. *)
HeadIsMatched ==
  config.enable_sec_rule_detect /\ pos > 1 /\ Matches(Head(rb)) => Head(rb) \in alerts
QueuedIsMade == \A i \in DOMAIN rb : rb[i] \in made

IInv ==
  /\ TypeOK /\ TraceInv /\ ThreadInv /\ MainInv
  /\ HeadIsMatched /\ QueuedIsMade /\ AlertedOrUnderWay

-----------------------------------------------------------------------------
(* The chain of any configuration is a sequence of handlers, at whose head
   are the rules when they are switched on.                                  *)
LEMMA ChainIsSeq ==
  ASSUME NEW f \in Configs
  PROVE  /\ Chain(f) \in Seq(Handlers \union {"rules"})
         /\ f.enable_sec_rule_detect => Chain(f) # << >> /\ Chain(f)[1] = "rules"
<1> DEFINE H == Handlers \union {"rules"}
<1>1. f.export_handlers \in Seq(H)
  BY ChainAssumption DEF Handlers
<1>2. When(f.enable_container_manager, "container_info") \in Seq(H)
      /\ When("prometheus" \in f.enabled_export_types, "prometheus") \in Seq(H)
      /\ When(f.enable_sec_rule_detect, "rules") \in Seq(H)
  <2>1. \A h \in H : <<h>> \in Seq(H) /\ << >> \in Seq(H)
    OBVIOUS
  <2>2. {"container_info", "prometheus", "rules"} \subseteq H
    BY DEF Handlers
  <2> HIDE DEF H
  <2> QED BY <2>1, <2>2 DEF When
<1>3. "stdout" \in f.enabled_export_types /\ f.fmt # "none" => f.fmt \in H
  BY ChainAssumption DEF Handlers
<1>4. When("stdout" \in f.enabled_export_types /\ f.fmt # "none", f.fmt) \in Seq(H)
  <2>1. \A h \in H : <<h>> \in Seq(H) /\ << >> \in Seq(H)
    OBVIOUS
  <2> HIDE DEF H
  <2> QED BY <1>3, <2>1 DEF When
<1>5. ExportHandlers(f) \in Seq(H)
  <2>1. \A s, t, u, v \in Seq(H) : s \o t \o u \o v \in Seq(H)
    OBVIOUS
  <2>2. CASE f.disable_other_configs
    BY <1>1, <2>2 DEF ExportHandlers
  <2>3. CASE ~f.disable_other_configs
    <3>1. ExportHandlers(f) =
            f.export_handlers
            \o When(f.enable_container_manager, "container_info")
            \o When("prometheus" \in f.enabled_export_types, "prometheus")
            \o When("stdout" \in f.enabled_export_types /\ f.fmt # "none", f.fmt)
      BY <2>3 DEF ExportHandlers
    <3> HIDE DEF H
    <3> QED BY <1>1, <1>2, <1>4, <2>1, <3>1
  <2> QED BY <2>2, <2>3
<1>6. Chain(f) \in Seq(H)
  <2> HIDE DEF H
  <2> QED BY <1>2, <1>5 DEF Chain
<1>7. ASSUME f.enable_sec_rule_detect
      PROVE  Chain(f) # << >> /\ Chain(f)[1] = "rules"
  <2>1. Chain(f) = <<"rules">> \o ExportHandlers(f)
    BY <1>7 DEF Chain, When
  <2> QED BY <2>1, <1>5
<1> QED BY <1>6, <1>7

(* A call that has found no room, or is new at the end of the buffer, hides
   nothing that was in the buffer.                                           *)
LEMMA SubmitQueues ==
  ASSUME rb \in Seq(Call), Len(rb) <= MaxEvents, dropped \subseteq made,
         NEW call \in Call, Submit(call)
  PROVE  /\ rb' \in Seq(Call) /\ Len(rb') <= MaxEvents
         /\ dropped \subseteq dropped' /\ dropped' \subseteq made \union {call}
         /\ \A i \in DOMAIN rb : i \in DOMAIN rb' /\ rb'[i] = rb[i]
         /\ \A i \in DOMAIN rb' : i \in DOMAIN rb \/ rb'[i] = call
         /\ call \in dropped' \/ \E i \in DOMAIN rb' : rb'[i] = call
         /\ rb # << >> => rb' # << >> /\ Head(rb') = Head(rb)
<1>1. CASE Len(rb) < MaxEvents
  <2>1. rb' = Append(rb, call) /\ dropped' = dropped
    BY <1>1 DEF Submit
  <2>2. rb' \in Seq(Call) /\ Len(rb') = Len(rb) + 1 /\ rb'[Len(rb) + 1] = call
        /\ \A i \in 1..Len(rb) : rb'[i] = rb[i]
    BY <2>1
  <2>3. DOMAIN rb' = 1..(Len(rb) + 1) /\ DOMAIN rb = 1..Len(rb) /\ Len(rb) \in Nat
    BY <2>2
  <2>4. \A i \in DOMAIN rb' : i \in DOMAIN rb \/ rb'[i] = call
    BY <2>2, <2>3
  <2>5. Len(rb) + 1 \in DOMAIN rb'
    BY <2>3
  <2>6. rb # << >> => rb' # << >> /\ Head(rb') = Head(rb)
    BY <2>1
  <2>7. Len(rb') <= MaxEvents
    BY <1>1, <2>2, TraceAssumption
  <2> QED BY <2>1, <2>2, <2>3, <2>4, <2>5, <2>6, <2>7
<1>2. CASE ~(Len(rb) < MaxEvents)
  BY <1>2 DEF Submit
<1> QED BY <1>1, <1>2

-----------------------------------------------------------------------------
(* The strengthened invariant holds when the agent starts. *)
LEMMA InitIInv == Init => IInv
<1> SUFFICES ASSUME Init PROVE IInv
  OBVIOUS
<1> USE DEF Init, ChainInit, TraceInit
<1>1. TypeOK
  <2>1. TraceTypeOK
    <3>1. rb \in Seq(Call) /\ Len(rb) <= MaxEvents
      BY TraceAssumption
    <3>2. gen \in [Pids -> 1..MaxGen]
      BY TraceAssumption
    <3> QED BY <3>1, <3>2 DEF TraceTypeOK
  <2>2. ChainTypeOK
    BY <2>1 DEF ChainTypeOK
  <2> QED BY <2>2 DEF TypeOK
<1>2. TraceInv
  BY DEF TraceInv, NotFromTheFuture, OnlyMadeIsReported, MadeIsReported, EntriesStay, Busy, Idle
<1>3. ThreadInv /\ MainInv /\ HeadIsMatched /\ QueuedIsMade /\ AlertedOrUnderWay
  BY DEF ThreadInv, MainInv, HeadIsMatched, QueuedIsMade, AlertedOrUnderWay
<1> QED BY <1>1, <1>2, <1>3 DEF IInv

(***************************************************************************)
(* The tracer.                                                             *)
(***************************************************************************)

(* Every step of the tracer keeps its own shape. *)
LEMMA KernelType ==
  ASSUME TraceTypeOK, Kernel
  PROVE  TraceTypeOK'
<1> USE TraceAssumption DEF TraceTypeOK
<1>1. ASSUME NEW c \in Cpus, NEW p \in Pids, NEW id \in Calls, Enter(c, p, id)
      PROVE  TraceTypeOK'
  <2> DEFINE call == [pid |-> p, gen |-> gen[p], id |-> id]
  <2>1. call \in Call
    BY DEF Call
  <2>2. made' = made \union {call}
    BY <1>1 DEF Enter
  <2>3. rb' \in Seq(Call) /\ Len(rb') <= MaxEvents /\ dropped' \subseteq made'
    <3>1. CASE Reported(p, id)
      BY <1>1, <2>2, <3>1 DEF Enter
    <3>2. CASE ~Reported(p, id)
      <4>1. Submit(call)
        BY <1>1, <3>2 DEF Enter
      <4> HIDE DEF call
      <4> QED BY <2>1, <2>2, <4>1, SubmitQueues
    <3> QED BY <3>1, <3>2
  <2>4. cpu' \in [Cpus -> {Idle} \union SysEnterState]
    <3>1. CASE Reported(p, id)
      BY <1>1, <3>1 DEF Enter
    <3>2. CASE ~Reported(p, id)
      <4> DEFINE new == [at |-> IF p \in DOMAIN syscalls THEN "mark" ELSE "insert",
                         pid |-> p, id |-> id, lost |-> FALSE]
      <4>1. new \in SysEnterState
        BY DEF SysEnterState
      <4>2. cpu' = [cpu EXCEPT ![c] = new]
        BY <1>1, <3>2 DEF Enter
      <4> HIDE DEF new
      <4> QED BY <4>1, <4>2
    <3> QED BY <3>1, <3>2
  <2>5. UNCHANGED <<attached, syscalls, gen>> /\ excused' \subseteq Pids
    BY <1>1 DEF Enter
  <2> QED BY <2>1, <2>2, <2>3, <2>4, <2>5
<1>2. ASSUME NEW c \in Cpus, Insert(c)
      PROVE  TraceTypeOK'
  <2>1. cpu[c] \in SysEnterState
    BY <1>2 DEF Insert, Idle, SysEnterState
  <2>2. DOMAIN syscalls' \subseteq Pids /\ \A p \in DOMAIN syscalls' : syscalls'[p] \subseteq Calls
    BY <1>2, <2>1 DEF Insert, SysEnterState
  <2>3. cpu' \in [Cpus -> {Idle} \union SysEnterState]
    <3>1. \A st \in SysEnterState : /\ [st EXCEPT !.lost = TRUE] \in SysEnterState
                                   /\ [st EXCEPT !.at = "mark"] \in SysEnterState
      BY DEF SysEnterState
    <3>2. \A d \in Within(cpu[c].pid) : cpu[d] \in SysEnterState
      BY DEF Within, Idle
    <3> DEFINE next(d) == IF d = c THEN [cpu[c] EXCEPT !.at = "mark"]
                          ELSE IF d \in Within(cpu[c].pid) THEN [cpu[d] EXCEPT !.lost = TRUE]
                          ELSE cpu[d]
    <3>3. \A d \in Cpus : next(d) \in {Idle} \union SysEnterState
      BY <2>1, <3>1, <3>2
    <3>4. cpu' = [d \in Cpus |-> next(d)] \/ cpu' = [cpu EXCEPT ![c] = Idle]
      BY <1>2 DEF Insert
    <3> HIDE DEF next, Idle
    <3> QED BY <3>3, <3>4
  <2>4. UNCHANGED <<attached, rb, gen, made, dropped>> /\ excused' \subseteq Pids
    BY <1>2, <2>1 DEF Insert, SysEnterState
  <2> QED BY <2>2, <2>3, <2>4
<1>3. ASSUME NEW c \in Cpus, Mark(c)
      PROVE  TraceTypeOK'
  <2>1. cpu[c] \in SysEnterState
    BY <1>3 DEF Mark, Idle, SysEnterState
  <2>2. DOMAIN syscalls' \subseteq Pids /\ \A p \in DOMAIN syscalls' : syscalls'[p] \subseteq Calls
    BY <1>3, <2>1 DEF Mark, SysEnterState
  <2> QED BY <1>3, <2>2 DEF Mark, ghostVars
<1>4. ASSUME NEW p \in Pids, Reuse(p)
      PROVE  TraceTypeOK'
  BY <1>4 DEF Reuse, ghostVars
<1> QED BY <1>1, <1>2, <1>3, <1>4 DEF Kernel, SysEnter

(* What is in a CPU that is not idle. *)
LEMMA BusyState ==
  ASSUME TraceTypeOK, NEW c \in Cpus, Busy(c)
  PROVE  cpu[c] \in SysEnterState
BY DEF TraceTypeOK, Busy, Idle

(* sys_enter keeps the table and what is under way in agreement with the
   calls that were made; a pid of which this cannot be said is excused.      *)
LEMMA EnterTrace ==
  ASSUME TraceTypeOK, TraceInv, NEW c \in Cpus, NEW p \in Pids, NEW id \in Calls,
         Enter(c, p, id)
  PROVE  TraceInv'
<1> DEFINE call == [pid |-> p, gen |-> gen[p], id |-> id]
<1> DEFINE new == [at |-> IF p \in DOMAIN syscalls THEN "mark" ELSE "insert",
                   pid |-> p, id |-> id, lost |-> FALSE]
<1>1. made' = made \union {call} /\ UNCHANGED <<syscalls, gen>> /\ ~Busy(c)
  BY DEF Enter, Busy, Idle
<1>2. gen[p] \in 1..gen[p] /\ gen[p] \in Nat
  BY DEF TraceTypeOK
<1>3. excused \subseteq excused' /\ (Within(p) = {} \/ p \in excused')
  BY DEF Enter
<1>4. NotFromTheFuture'
  BY <1>1, <1>2 DEF TraceInv, NotFromTheFuture
<1>5. Made(p, id)'
  BY <1>1, <1>2 DEF Made
<1>6. \A q, i : Made(q, i) => Made(q, i)'
  BY <1>1 DEF Made
<1>7. CASE Reported(p, id)
  <2>1. UNCHANGED cpu
    BY <1>7 DEF Enter
  <2>2. OnlyMadeIsReported'
    BY <1>1, <1>6, <2>1 DEF TraceInv, OnlyMadeIsReported, Busy
  <2>3. MadeIsReported'
    BY <1>1, <1>3, <1>7, <2>1 DEF TraceInv, MadeIsReported, Reported, AboutToMark, Busy
  <2>4. EntriesStay'
    BY <1>1, <1>3, <2>1 DEF TraceInv, EntriesStay, Busy
  <2> QED BY <1>4, <2>2, <2>3, <2>4 DEF TraceInv
<1>8. CASE ~Reported(p, id)
  <2>1. cpu' = [cpu EXCEPT ![c] = new]
    BY <1>8 DEF Enter
  <2>2. cpu'[c] = new /\ \A d \in Cpus : d # c => cpu'[d] = cpu[d]
    BY <2>1 DEF TraceTypeOK
  <2>3. Busy(c)' /\ cpu'[c].pid = p /\ cpu'[c].id = id /\ ~cpu'[c].lost
        /\ (cpu'[c].at = "mark" => p \in DOMAIN syscalls)
        /\ (cpu'[c].at = "insert" => p \notin DOMAIN syscalls)
    BY <2>2 DEF Busy
  <2>4. \A d \in Cpus : d # c => (Busy(d)' <=> Busy(d))
    BY <2>2 DEF Busy
  <2>5. OnlyMadeIsReported'
    BY <1>1, <1>5, <1>6, <2>2, <2>3, <2>4 DEF TraceInv, OnlyMadeIsReported
  <2>6. MadeIsReported'
    <3> SUFFICES ASSUME NEW k \in made', k.gen = gen'[k.pid], k.pid \notin excused'
                 PROVE  Reported(k.pid, k.id)' \/ AboutToMark(k.pid, k.id)'
      BY DEF MadeIsReported
    <3>1. CASE k = call
      BY <2>3, <3>1 DEF AboutToMark
    <3>2. CASE k # call
      <4>1. Reported(k.pid, k.id) \/ AboutToMark(k.pid, k.id)
        BY <1>1, <1>3, <3>2 DEF TraceInv, MadeIsReported
      <4>2. AboutToMark(k.pid, k.id) => AboutToMark(k.pid, k.id)'
        BY <1>1, <2>2, <2>4 DEF AboutToMark
      <4> QED BY <1>1, <4>1, <4>2 DEF Reported
    <3> QED BY <3>1, <3>2
  <2>7. EntriesStay'
    <3> SUFFICES ASSUME NEW d \in Cpus, Busy(d)'
                 PROVE  /\ cpu'[d].at = "mark" => cpu'[d].pid \in DOMAIN syscalls'
                        /\ cpu'[d].pid \notin excused' =>
                             /\ ~cpu'[d].lost
                             /\ cpu'[d].at = "insert" => cpu'[d].pid \notin DOMAIN syscalls'
                             /\ \A e \in Cpus : Busy(e)' /\ cpu'[e].pid = cpu'[d].pid => e = d
      BY DEF EntriesStay
    <3>1. ASSUME NEW e \in Cpus, e # c, Busy(e), cpu[e].pid = p
          PROVE  p \in excused'
      BY <1>3, <3>1 DEF Within, Busy
    <3>2. CASE d = c
      BY <1>1, <2>2, <2>3, <2>4, <3>1, <3>2
    <3>3. CASE d # c
      BY <1>1, <1>3, <2>2, <2>3, <2>4, <3>1, <3>3 DEF TraceInv, EntriesStay
    <3> QED BY <3>2, <3>3
  <2> QED BY <1>4, <2>5, <2>6, <2>7 DEF TraceInv
<1> QED BY <1>7, <1>8

(* So does the entry for a pid that has none. *)
LEMMA InsertTrace ==
  ASSUME TraceTypeOK, TraceInv, NEW c \in Cpus, Insert(c)
  PROVE  TraceInv'
<1> DEFINE p == cpu[c].pid
<1>1. cpu[c] \in SysEnterState /\ Busy(c) /\ cpu[c].at = "insert"
  BY BusyState DEF Insert, Busy
<1>2. UNCHANGED <<gen, made>> /\ excused \subseteq excused'
  BY DEF Insert
<1>3. NotFromTheFuture'
  BY <1>2 DEF TraceInv, NotFromTheFuture
<1>4. \A q, i : Made(q, i)' <=> Made(q, i)
  BY <1>2 DEF Made
<1> DEFINE Inserted ==
       /\ syscalls' = [q \in DOMAIN syscalls \union {p} |-> IF q = p THEN {} ELSE syscalls[q]]
       /\ cpu' = [d \in Cpus |->
            IF d = c THEN [cpu[c] EXCEPT !.at = "mark"]
            ELSE IF d \in Within(p) THEN [cpu[d] EXCEPT !.lost = TRUE] ELSE cpu[d]]
       /\ UNCHANGED excused
    Full == cpu' = [cpu EXCEPT ![c] = Idle] /\ p \in excused' /\ UNCHANGED syscalls
<1>5. CASE Inserted
  <2>1. Inserted
    BY <1>5
  <2>2. /\ Busy(c)' /\ cpu'[c].at = "mark" /\ cpu'[c].pid = p
        /\ cpu'[c].id = cpu[c].id /\ (~cpu[c].lost => ~cpu'[c].lost)
    BY <1>1, <2>1 DEF Busy, SysEnterState
  <2>3. ASSUME NEW d \in Cpus, d # c
        PROVE  /\ Busy(d)' <=> Busy(d)
               /\ Busy(d) => /\ cpu'[d].at = cpu[d].at /\ cpu'[d].pid = cpu[d].pid
                             /\ cpu'[d].id = cpu[d].id
                             /\ ~cpu[d].lost /\ cpu[d].pid # p => ~cpu'[d].lost
    <3>1. CASE Busy(d)
      <4>1. cpu[d] \in SysEnterState
        BY <3>1, BusyState
      <4>2. cpu[d].pid = p => d \in Within(p)
        BY <3>1 DEF Within, Busy
      <4>3. cpu[d].pid # p => d \notin Within(p)
        BY DEF Within
      <4> QED BY <2>1, <2>3, <3>1, <4>1, <4>2, <4>3 DEF Busy, SysEnterState
    <3>2. CASE ~Busy(d)
      BY <2>1, <2>3, <3>2 DEF Busy, Within
    <3> QED BY <3>1, <3>2
  <2>4. OnlyMadeIsReported'
    <3>1. \A q \in DOMAIN syscalls' : \A i \in syscalls'[q] : q \in DOMAIN syscalls /\ i \in syscalls[q]
      BY <2>1
    <3> QED BY <1>1, <1>4, <2>2, <2>3, <3>1 DEF TraceInv, OnlyMadeIsReported
  <2>5. MadeIsReported'
    <3> SUFFICES ASSUME NEW k \in made, k.gen = gen[k.pid], k.pid \notin excused
                 PROVE  Reported(k.pid, k.id)' \/ AboutToMark(k.pid, k.id)'
      BY <1>2, <2>1 DEF MadeIsReported
    <3>1. Reported(k.pid, k.id) \/ AboutToMark(k.pid, k.id)
      BY DEF TraceInv, MadeIsReported
    <3>2. AboutToMark(k.pid, k.id) => AboutToMark(k.pid, k.id)'
      BY <2>2, <2>3 DEF AboutToMark
    <3>3. Reported(k.pid, k.id) => k.pid # p
      BY <1>1 DEF Reported, TraceInv, EntriesStay
    <3>4. Reported(k.pid, k.id) => Reported(k.pid, k.id)'
      BY <2>1, <3>3 DEF Reported
    <3> QED BY <3>1, <3>2, <3>4
  <2>6. EntriesStay'
    <3> SUFFICES ASSUME NEW d \in Cpus, Busy(d)'
                 PROVE  /\ cpu'[d].at = "mark" => cpu'[d].pid \in DOMAIN syscalls'
                        /\ cpu'[d].pid \notin excused' =>
                             /\ ~cpu'[d].lost
                             /\ cpu'[d].at = "insert" => cpu'[d].pid \notin DOMAIN syscalls'
                             /\ \A e \in Cpus : Busy(e)' /\ cpu'[e].pid = cpu'[d].pid => e = d
      BY DEF EntriesStay
    <3>1. DOMAIN syscalls' = DOMAIN syscalls \union {p}
      BY <2>1
    <3>2. CASE d = c
      <4>1. p \notin excused => ~cpu[c].lost /\ \A e \in Cpus : Busy(e) /\ cpu[e].pid = p => e = c
        BY <1>1 DEF TraceInv, EntriesStay
      <4> QED BY <2>1, <2>2, <2>3, <3>1, <3>2, <4>1
    <3>3. CASE d # c
      <4>1. Busy(d) /\ cpu'[d].pid = cpu[d].pid /\ cpu'[d].at = cpu[d].at
        BY <2>3, <3>3
      <4>2. cpu[d].pid = p => p \in excused
        BY <1>1, <3>3, <4>1 DEF TraceInv, EntriesStay
      <4>3. cpu[d].at = "mark" => cpu[d].pid \in DOMAIN syscalls
        BY <4>1 DEF TraceInv, EntriesStay
      <4>4. cpu[d].pid \notin excused =>
              /\ ~cpu[d].lost
              /\ cpu[d].at = "insert" => cpu[d].pid \notin DOMAIN syscalls
              /\ \A e \in Cpus : Busy(e) /\ cpu[e].pid = cpu[d].pid => e = d
        BY <4>1 DEF TraceInv, EntriesStay
      <4>5. cpu'[d].pid \notin excused' => ~cpu'[d].lost
        BY <2>1, <2>3, <3>3, <4>1, <4>2, <4>4
      <4>6. cpu'[d].pid \notin excused' /\ cpu'[d].at = "insert" => cpu'[d].pid \notin DOMAIN syscalls'
        BY <2>1, <3>1, <4>1, <4>2, <4>4
      <4>7. cpu'[d].pid \notin excused' =>
              \A e \in Cpus : Busy(e)' /\ cpu'[e].pid = cpu'[d].pid => e = d
        BY <2>1, <2>2, <2>3, <4>1, <4>2, <4>4
      <4> QED BY <3>1, <4>1, <4>3, <4>5, <4>6, <4>7
    <3> QED BY <3>2, <3>3
  <2> QED BY <1>3, <2>4, <2>5, <2>6 DEF TraceInv
<1>6. CASE Full
  <2>1. Full
    BY <1>6
  <2>2. ~Busy(c)' /\ \A d \in Cpus : d # c => cpu'[d] = cpu[d] /\ (Busy(d)' <=> Busy(d))
    BY <2>1 DEF Busy, Idle, TraceTypeOK
  <2>3. OnlyMadeIsReported'
    BY <1>4, <2>1, <2>2 DEF TraceInv, OnlyMadeIsReported
  <2>4. MadeIsReported'
    BY <1>2, <2>1, <2>2 DEF TraceInv, MadeIsReported, Reported, AboutToMark
  <2>5. EntriesStay'
    BY <1>2, <2>1, <2>2 DEF TraceInv, EntriesStay
  <2> QED BY <1>3, <2>3, <2>4, <2>5 DEF TraceInv
<1>7. Inserted \/ Full
  BY DEF Insert
<1> QED BY <1>5, <1>6, <1>7

(* And the mark in it, which is lost only where it is excused. *)
LEMMA MarkTrace ==
  ASSUME TraceTypeOK, TraceInv, NEW c \in Cpus, Mark(c)
  PROVE  TraceInv'
<1> DEFINE p == cpu[c].pid
<1>1. cpu[c] \in SysEnterState /\ Busy(c) /\ cpu[c].at = "mark" /\ p \in DOMAIN syscalls
  BY BusyState DEF Mark, Busy, TraceInv, EntriesStay
<1>2. UNCHANGED <<gen, made, excused>>
  BY DEF Mark, ghostVars
<1>3. cpu' = [cpu EXCEPT ![c] = Idle]
  BY DEF Mark
<1>4. ~Busy(c)' /\ \A d \in Cpus : d # c => cpu'[d] = cpu[d] /\ (Busy(d)' <=> Busy(d))
  BY <1>3 DEF Busy, Idle, TraceTypeOK
<1>5. DOMAIN syscalls' = DOMAIN syscalls
  BY <1>1 DEF Mark
<1>6. \A q \in DOMAIN syscalls : /\ syscalls[q] \subseteq syscalls'[q]
                                /\ \A i \in syscalls'[q] : i \in syscalls[q] \/ (q = p /\ i = cpu[c].id)
  BY <1>1 DEF Mark
<1>7. p \notin excused => cpu[c].id \in syscalls'[p]
  <2>1. p \notin excused => ~cpu[c].lost
    BY <1>1 DEF TraceInv, EntriesStay
  <2> QED BY <1>1, <2>1 DEF Mark
<1>8. NotFromTheFuture'
  BY <1>2 DEF TraceInv, NotFromTheFuture
<1>9. OnlyMadeIsReported'
  <2>1. \A q, i : Made(q, i)' <=> Made(q, i)
    BY <1>2 DEF Made
  <2>2. Made(p, cpu[c].id)
    BY <1>1 DEF TraceInv, OnlyMadeIsReported
  <2>3. \A d \in Cpus : Busy(d)' => Made(cpu'[d].pid, cpu'[d].id)
    BY <1>4 DEF TraceInv, OnlyMadeIsReported
  <2>4. \A q \in DOMAIN syscalls : \A i \in syscalls'[q] : Made(q, i)
    BY <1>6, <2>2 DEF TraceInv, OnlyMadeIsReported
  <2> QED BY <1>5, <2>1, <2>3, <2>4 DEF OnlyMadeIsReported
<1>10. MadeIsReported'
  <2> SUFFICES ASSUME NEW k \in made, k.gen = gen[k.pid], k.pid \notin excused
               PROVE  Reported(k.pid, k.id)' \/ AboutToMark(k.pid, k.id)'
    BY <1>2 DEF MadeIsReported
  <2>1. Reported(k.pid, k.id) => Reported(k.pid, k.id)'
    BY <1>5, <1>6 DEF Reported
  <2>2. AboutToMark(k.pid, k.id) => AboutToMark(k.pid, k.id)' \/ (k.pid = p /\ k.id = cpu[c].id)
    BY <1>4 DEF AboutToMark
  <2>3. k.pid = p /\ k.id = cpu[c].id => Reported(k.pid, k.id)'
    BY <1>1, <1>5, <1>7 DEF Reported
  <2> QED BY <2>1, <2>2, <2>3 DEF TraceInv, MadeIsReported
<1>11. EntriesStay'
  BY <1>2, <1>4, <1>5 DEF TraceInv, EntriesStay
<1> QED BY <1>8, <1>9, <1>10, <1>11 DEF TraceInv

(* A new process has made no call, and nobody is in sys_enter for it. *)
LEMMA ReuseTrace ==
  ASSUME TraceTypeOK, TraceInv, NEW p \in Pids, Reuse(p)
  PROVE  TraceInv'
<1>1. gen' = [gen EXCEPT ![p] = @ + 1] /\ UNCHANGED <<syscalls, cpu, made, excused>>
  BY DEF Reuse, ghostVars
<1>2. gen'[p] = gen[p] + 1 /\ \A q \in Pids : q # p => gen'[q] = gen[q]
  BY <1>1 DEF TraceTypeOK
<1>3. \A q \in Pids : gen[q] \in Nat
  BY DEF TraceTypeOK
<1>4. \A k \in made : k.pid \in Pids /\ k.gen \in Nat
  BY DEF TraceTypeOK, Call
<1>5. NotFromTheFuture'
  BY <1>1, <1>2, <1>3, <1>4 DEF TraceInv, NotFromTheFuture
<1>6. OnlyMadeIsReported'
  <2>1. \A q \in Pids : \A i : Made(q, i) => Made(q, i)'
    BY <1>1, <1>2, <1>3 DEF Made
  <2>2. \A c \in Cpus : Busy(c) => cpu[c].pid \in Pids
    BY BusyState DEF SysEnterState
  <2>3. \A c \in Cpus : Busy(c)' <=> Busy(c)
    BY <1>1 DEF Busy
  <2> QED BY <1>1, <2>1, <2>2, <2>3 DEF TraceInv, OnlyMadeIsReported, TraceTypeOK
<1>7. MadeIsReported'
  <2> SUFFICES ASSUME NEW k \in made, k.gen = gen'[k.pid], k.pid \notin excused
               PROVE  Reported(k.pid, k.id)' \/ AboutToMark(k.pid, k.id)'
    BY <1>1 DEF MadeIsReported
  <2>1. k.pid # p
    BY <1>2, <1>3, <1>4 DEF TraceInv, NotFromTheFuture
  <2>2. Reported(k.pid, k.id) \/ AboutToMark(k.pid, k.id)
    BY <1>2, <1>4, <2>1 DEF TraceInv, MadeIsReported
  <2> QED BY <1>1, <2>2 DEF Reported, AboutToMark, Busy
<1>8. EntriesStay'
  BY <1>1 DEF TraceInv, EntriesStay, Busy
<1> QED BY <1>5, <1>6, <1>7, <1>8 DEF TraceInv

(* The steps of the kernel, sys_enter on a CPU and the reuse of a pid, keep the account of the calls. *)
LEMMA KernelTrace ==
  ASSUME TraceTypeOK, TraceInv, Kernel
  PROVE  TraceInv'
BY EnterTrace, InsertTrace, MarkTrace, ReuseTrace DEF Kernel, SysEnter

(* What the tracer does to the buffer: nothing that is in it is touched, and a
   new call is in it, dropped, or one that the pid's former process made.    *)
LEMMA KernelQueues ==
  ASSUME TraceTypeOK, TraceInv, Kernel
  PROVE  /\ UNCHANGED attached /\ (attached \/ made' = made)
         /\ made \subseteq made' /\ dropped \subseteq dropped'
         /\ \A i \in DOMAIN rb : i \in DOMAIN rb' /\ rb'[i] = rb[i]
         /\ \A i \in DOMAIN rb' : i \in DOMAIN rb \/ rb'[i] \in made'
         /\ rb # << >> => rb' # << >> /\ Head(rb') = Head(rb)
         /\ \A call \in made' : \/ call \in made \/ call \in dropped'
                                \/ \E i \in DOMAIN rb' : rb'[i] = call
                                \/ Inherited(call)'
<1>1. ASSUME NEW c \in Cpus, SysEnter(c)
      PROVE  UNCHANGED <<attached, rb, made, dropped>>
  BY <1>1 DEF SysEnter, Insert, Mark, ghostVars
<1>2. ASSUME NEW p \in Pids, Reuse(p)
      PROVE  UNCHANGED <<attached, rb, made, dropped>>
  BY <1>2 DEF Reuse, ghostVars
<1>3. ASSUME NEW c \in Cpus, NEW p \in Pids, NEW id \in Calls, Enter(c, p, id)
      PROVE  /\ attached /\ UNCHANGED attached
             /\ made \subseteq made' /\ dropped \subseteq dropped'
             /\ \A i \in DOMAIN rb : i \in DOMAIN rb' /\ rb'[i] = rb[i]
             /\ \A i \in DOMAIN rb' : i \in DOMAIN rb \/ rb'[i] \in made'
             /\ rb # << >> => rb' # << >> /\ Head(rb') = Head(rb)
             /\ \A call \in made' : \/ call \in made \/ call \in dropped'
                                    \/ \E i \in DOMAIN rb' : rb'[i] = call
                                    \/ Inherited(call)'
  <2> DEFINE new == [pid |-> p, gen |-> gen[p], id |-> id]
  <2>1. new \in Call
    BY DEF Call, TraceTypeOK
  <2>2. attached /\ UNCHANGED attached /\ made' = made \union {new}
    BY <1>3 DEF Enter
  <2>3. CASE Reported(p, id)
    <3>1. UNCHANGED <<rb, dropped>>
      BY <1>3, <2>3 DEF Enter
    <3>2. PICK g \in 1..gen[p] : [pid |-> p, gen |-> g, id |-> id] \in made
      BY <2>3 DEF TraceInv, OnlyMadeIsReported, Reported, Made
    <3>3. gen[p] \in Nat
      BY DEF TraceTypeOK
    <3>4. ASSUME g # gen[p], NEW call \in made', call = new PROVE Inherited(call)'
      <4>1. [call EXCEPT !.gen = g] = [pid |-> p, gen |-> g, id |-> id] /\ call.gen = gen[p]
        BY <3>4
      <4>2. g \in 1..(call.gen - 1) /\ [call EXCEPT !.gen = g] \in made'
        BY <2>2, <3>2, <3>3, <3>4, <4>1
      <4> QED BY <4>2 DEF Inherited
    <3>5. g = gen[p] => new \in made
      BY <3>2
    <3>6. \A call \in made' : call \in made \/ Inherited(call)'
      BY <2>2, <3>4, <3>5
    <3> QED BY <2>2, <3>1, <3>6
  <2>4. CASE ~Reported(p, id)
    <3>1. Submit(new)
      BY <1>3, <2>4 DEF Enter
    <3> HIDE DEF new
    <3>2. rb \in Seq(Call) /\ Len(rb) <= MaxEvents /\ dropped \subseteq made
      BY DEF TraceTypeOK
    <3> QED BY <2>1, <2>2, <3>1, <3>2, SubmitQueues
  <2> QED BY <2>3, <2>4
<1>4. CASE \E c \in Cpus : SysEnter(c) \/ \E p \in Pids, id \in Calls : Enter(c, p, id)
  BY <1>1, <1>3, <1>4
<1>5. CASE \E p \in Pids : Reuse(p)
  BY <1>2, <1>5
<1> QED BY <1>4, <1>5 DEF Kernel

(***************************************************************************)
(* Types.                                                                  *)
(***************************************************************************)

(* The head of a buffer that is not empty, and what is behind it. *)
LEMMA QueueParts ==
  ASSUME TraceTypeOK, rb # << >>
  PROVE  /\ 1 \in DOMAIN rb /\ Head(rb) = rb[1]
         /\ Tail(rb) \in Seq(Call) /\ Len(Tail(rb)) <= MaxEvents
         /\ \A i \in DOMAIN Tail(rb) : i + 1 \in DOMAIN rb /\ Tail(rb)[i] = rb[i + 1]
         /\ \A i \in DOMAIN rb : i # 1 => i - 1 \in DOMAIN Tail(rb) /\ Tail(rb)[i - 1] = rb[i]
BY TraceAssumption DEF TraceTypeOK

(* Every step of the thread keeps the shape of the chain's state. *)
LEMMA ThreadType ==
  ASSUME IInv, Thread
  PROVE  ChainTypeOK'
<1> USE DEF IInv, TypeOK, ChainTypeOK, StaysInChain, NoEvent, traceVars, ghostVars
<1>0. << >> \in Seq(Call) /\ Len(<< >>) <= MaxEvents
  BY TraceAssumption
<1>1. CASE Setup
  BY <1>1 DEF Setup, ThreadInv, TraceTypeOK
<1>2. CASE TestExiting
  BY <1>2 DEF TestExiting, ThreadInv, TraceTypeOK
<1>3. CASE PollEmpty
  BY <1>3 DEF PollEmpty, TraceTypeOK
<1>4. CASE Handle
  <2> DEFINE chain == Chain(config)
             h == chain[pos]
  <2>1. Len(chain) \in Nat
    BY ChainIsSeq
  <2>2. rb # << >> /\ UNCHANGED <<attached, thread, traceVars, config, live, exiting>>
    BY <1>4 DEF Handle
  <2>3. Head(rb) \in made
    BY <2>2, QueueParts DEF QueuedIsMade
  <2>4. alerts' \subseteq made'
    BY <1>4, <2>2, <2>3 DEF Handle
  <2>5. Uses(h, Head(rb)) \subseteq {"prometheus", "containers"}
    BY DEF Uses
  <2>6. stale' \subseteq {"prometheus", "containers"}
    <3>1. stale' = stale \union (Uses(h, Head(rb)) \ live)
      BY <1>4 DEF Handle
    <3> QED BY <2>5, <3>1
  <2>7. rb' = rb \/ rb' = Tail(rb)
    BY <1>4 DEF Handle, Handled
  <2>8. TraceTypeOK'
    <3>1. rb' \in Seq(Call) /\ Len(rb') <= MaxEvents
      BY <2>2, <2>7, QueueParts DEF TraceTypeOK
    <3> QED BY <2>2, <3>1 DEF TraceTypeOK
  <2>9. (pos' = 1) \/ (pos < Len(chain) /\ pos' = pos + 1 /\ UNCHANGED rb)
    BY <1>4 DEF Handle, Handled
  <2>10. pos' = 1 \/ (rb' # << >> /\ pos' \in 1..Len(Chain(config)))
    <3>1. pos \in Nat
      BY <2>1
    <3> HIDE DEF chain
    <3>2. chain = Chain(config)
      BY DEF chain
    <3> QED BY <2>1, <2>2, <2>9, <3>1, <3>2
  <2> HIDE DEF chain, h
  <2> QED BY <2>2, <2>4, <2>6, <2>8, <2>10
<1>5. CASE Cleanup
  BY <1>0, <1>5 DEF Cleanup, ThreadInv, TraceTypeOK
<1> QED BY <1>1, <1>2, <1>3, <1>4, <1>5 DEF Thread

(* Every step keeps the shape of the state. *)
LEMMA NextType ==
  ASSUME IInv, Next
  PROVE  TypeOK'
<1> USE DEF IInv, TypeOK
<1>0. << >> \in Seq(Call) /\ Len(<< >>) <= MaxEvents
  BY TraceAssumption
<1>1. ASSUME Main PROVE TypeOK'
  <2>1. UNCHANGED <<attached, rb, traceVars, pos, alerts, stale, config>>
    BY <1>1 DEF Main, StartParts, StartTrackers, CheckAutoExit, Leave, DestroyAnalyzer, DestroyPrometheus,
                DestroyContainers, StopTracker, Join, NoTracker
  <2>2. TraceTypeOK'
    BY <2>1 DEF ChainTypeOK, TraceTypeOK, traceVars, ghostVars
  <2>3. live' \subseteq live /\ thread' \in {thread, "none", "setup"} /\ exiting' \in BOOLEAN
    BY <1>1 DEF Main, StartParts, StartTrackers, CheckAutoExit, Leave, DestroyAnalyzer, DestroyPrometheus,
                DestroyContainers, StopTracker, Join, NoTracker, ChainTypeOK
  <2>4. ChainTypeOK'
    BY <2>1, <2>2, <2>3 DEF ChainTypeOK, traceVars, ghostVars
  <2>5. {sigint', is_exiting'} \subseteq BOOLEAN
    BY <1>1 DEF Main, StartParts, StartTrackers, CheckAutoExit, Leave, DestroyAnalyzer, DestroyPrometheus,
                DestroyContainers, StopTracker, Join, NoSignal
  <2>6. owners' \subseteq {"core", "rules"}
    BY <1>1 DEF Main, StartParts, StartTrackers, CheckAutoExit, Leave, DestroyAnalyzer, DestroyPrometheus,
                DestroyContainers, StopTracker, Join
  <2>7. main' \in {"start", "trackers", "auto_exit", "wait", "destroy_analyzer", "destroy_prometheus",
                   "destroy_containers", "destroy_trackers", "join", "done", "killed"}
    BY <1>1 DEF Main, StartParts, StartTrackers, CheckAutoExit, Leave, DestroyAnalyzer, DestroyPrometheus,
                DestroyContainers, StopTracker, Join
  <2> QED BY <2>4, <2>5, <2>6, <2>7
<1>2. ASSUME Thread, UNCHANGED mainVars PROVE TypeOK'
  BY <1>2, ThreadType DEF mainVars
<1>3. ASSUME Kernel, UNCHANGED <<chainVars, mainVars>> PROVE TypeOK'
  <2>1. TraceTypeOK'
    BY <1>3, KernelType DEF ChainTypeOK
  <2>2. (rb # << >> => rb' # << >>) /\ made \subseteq made'
    BY <1>3, KernelQueues DEF ChainTypeOK
  <2> QED BY <1>3, <2>1, <2>2 DEF ChainTypeOK, chainVars, mainVars
<1>4. ASSUME Die PROVE TypeOK'
  BY <1>0, <1>4 DEF Die, ChainTypeOK, TraceTypeOK, traceVars, ghostVars
<1>5. ASSUME Interrupt PROVE TypeOK'
  <2>1. CASE Die
    BY <1>4, <2>1
  <2>2. CASE ~Die
    <3>1. is_exiting' = TRUE /\ sigint' = FALSE /\ UNCHANGED <<main, owners, live>> /\ NoTracker
      BY <1>5, <2>2 DEF Interrupt
    <3> QED BY <3>1 DEF ChainTypeOK, TraceTypeOK, NoTracker, traceVars, ghostVars
  <2> QED BY <2>1, <2>2
<1>6. ASSUME UNCHANGED vars PROVE TypeOK'
  BY <1>6 DEF vars, ChainTypeOK, TraceTypeOK, traceVars, ghostVars, chainVars, mainVars
<1> QED BY <1>1, <1>2, <1>3, <1>4, <1>5, <1>6 DEF Next, Crash

(***************************************************************************)
(* The steps of the strengthened invariant.                                *)
(***************************************************************************)

(* A step of the main thread disturbs no event and no table. *)
LEMMA MainStep ==
  ASSUME IInv, Main
  PROVE  ThreadInv' /\ MainInv' /\ HeadIsMatched' /\ QueuedIsMade' /\ AlertedOrUnderWay'
<1> USE DEF IInv, TypeOK, ChainTypeOK
<1>1. UNCHANGED <<attached, rb, made, dropped, pos, alerts, config>>
  BY DEF Main, StartParts, StartTrackers, CheckAutoExit, Leave, DestroyAnalyzer, DestroyPrometheus,
         DestroyContainers, StopTracker, Join, NoTracker, traceVars, ghostVars
<1>2. \/ UNCHANGED thread
      \/ main = "trackers" /\ thread = "none" /\ thread' \in {"none", "setup"}
  BY DEF Main, StartParts, StartTrackers, CheckAutoExit, Leave, DestroyAnalyzer, DestroyPrometheus,
         DestroyContainers, StopTracker, Join, NoTracker, MainInv
<1>3. ThreadInv'
  BY <1>1, <1>2 DEF ThreadInv
<1>4. MainInv'
  BY DEF MainInv, Main, StartParts, StartTrackers, CheckAutoExit, Leave, DestroyAnalyzer, DestroyPrometheus,
         DestroyContainers, StopTracker, Join, NoTracker
<1>5. HeadIsMatched' /\ QueuedIsMade'
  BY <1>1 DEF HeadIsMatched, QueuedIsMade, Matches
<1>6. AlertedOrUnderWay'
  BY <1>1, <1>2 DEF AlertedOrUnderWay, Matches, Inherited
<1> QED BY <1>3, <1>4, <1>5, <1>6

(* One handler's work: the rules are the first to see an event, so the event
   that leaves the buffer was matched.                                       *)
LEMMA HandleStep ==
  ASSUME IInv, Handle
  PROVE  HeadIsMatched' /\ QueuedIsMade' /\ AlertedOrUnderWay'
<1> USE DEF IInv, TypeOK, ChainTypeOK
<1> DEFINE chain == Chain(config)
           h == chain[pos]
<1>1. rb # << >> /\ UNCHANGED <<attached, thread, config, live, exiting, made, dropped>>
  BY DEF Handle, StaysInChain, traceVars, ghostVars
<1>2. alerts \subseteq alerts' /\ (h = "rules" /\ Matches(Head(rb)) => Head(rb) \in alerts')
  BY DEF Handle
<1>3. config.enable_sec_rule_detect /\ pos = 1 => h = "rules"
  BY ChainIsSeq
<1>4. pos = 1 \/ pos > 1
  BY ChainIsSeq
<1>5. config.enable_sec_rule_detect /\ Matches(Head(rb)) => Head(rb) \in alerts'
  BY <1>2, <1>3, <1>4 DEF HeadIsMatched
<1>6. UNCHANGED rb \/ (rb' = Tail(rb) /\ pos' = 1)
  BY DEF Handle, Handled
<1> HIDE DEF chain, h
<1>7. CASE UNCHANGED rb
  <2>1. HeadIsMatched'
    BY <1>1, <1>5, <1>7 DEF HeadIsMatched, Matches
  <2>2. QueuedIsMade' /\ AlertedOrUnderWay'
    BY <1>1, <1>2, <1>7 DEF QueuedIsMade, AlertedOrUnderWay, Matches, Inherited
  <2> QED BY <2>1, <2>2
<1>8. CASE rb' = Tail(rb) /\ pos' = 1
  <2>1. HeadIsMatched'
    BY <1>8 DEF HeadIsMatched
  <2>2. QueuedIsMade'
    BY <1>1, <1>8, QueueParts DEF QueuedIsMade
  <2>3. AlertedOrUnderWay'
    <3> SUFFICES ASSUME config.enable_sec_rule_detect, thread \in {"loop", "poll"},
                        NEW call \in made, Matches(call),
                        call \notin alerts' \union dropped
                 PROVE  (\E i \in DOMAIN rb' : rb'[i] = call) \/ Inherited(call)
      BY <1>1 DEF AlertedOrUnderWay, Matches, Inherited
    <3>1. ASSUME NEW i \in DOMAIN rb, rb[i] = call
          PROVE  \E j \in DOMAIN rb' : rb'[j] = call
      <4>1. i # 1
        BY <1>1, <1>5, <3>1, QueueParts
      <4> QED BY <1>1, <1>8, <3>1, <4>1, QueueParts
    <3> QED BY <1>2, <3>1 DEF AlertedOrUnderWay
  <2> QED BY <2>1, <2>2, <2>3
<1> QED BY <1>6, <1>7, <1>8

(* The other steps of the thread: before the loop nothing is traced, after it
   nothing is promised.                                                      *)
LEMMA ThreadStep ==
  ASSUME IInv, Thread, UNCHANGED mainVars
  PROVE  ThreadInv' /\ MainInv' /\ HeadIsMatched' /\ QueuedIsMade' /\ AlertedOrUnderWay'
<1> USE DEF IInv, TypeOK, ChainTypeOK
<1>1. MainInv'
  BY DEF MainInv, mainVars, Thread, Setup, TestExiting, PollEmpty, Handle, Cleanup
<1>2. ThreadInv'
  BY DEF ThreadInv, Thread, Setup, TestExiting, PollEmpty, Handle, Cleanup,
         NoEvent, StaysInChain, traceVars, ghostVars
<1>3. CASE Handle
  BY <1>1, <1>2, <1>3, HandleStep
<1>4. CASE Setup
  <2>1. made = {} /\ UNCHANGED <<rb, pos, alerts, made, dropped, config>>
    BY <1>4 DEF Setup, ThreadInv, NoEvent, StaysInChain, traceVars, ghostVars
  <2> QED BY <1>1, <1>2, <2>1 DEF HeadIsMatched, QueuedIsMade, AlertedOrUnderWay, Matches
<1>5. CASE TestExiting \/ PollEmpty
  <2>1. /\ UNCHANGED <<rb, pos, alerts, made, dropped, config>>
        /\ thread \in {"loop", "poll"}
    BY <1>5 DEF TestExiting, PollEmpty, NoEvent, StaysInChain, traceVars, ghostVars
  <2> QED BY <1>1, <1>2, <2>1
          DEF HeadIsMatched, QueuedIsMade, AlertedOrUnderWay, Matches, Inherited
<1>6. CASE Cleanup
  <2>1. thread' = "ended" /\ rb' = << >> /\ pos' = 1
    BY <1>6 DEF Cleanup, NoEvent, ThreadInv
  <2> QED BY <1>1, <1>2, <2>1 DEF HeadIsMatched, QueuedIsMade, AlertedOrUnderWay
<1> QED BY <1>3, <1>4, <1>5, <1>6 DEF Thread

(* A call that is made is in the buffer, dropped or inherited; the others
   stay where they were.                                                     *)
LEMMA KernelStep ==
  ASSUME IInv, Kernel, UNCHANGED <<chainVars, mainVars>>
  PROVE  ThreadInv' /\ MainInv' /\ HeadIsMatched' /\ QueuedIsMade' /\ AlertedOrUnderWay'
<1> USE DEF IInv, TypeOK, ChainTypeOK, chainVars, mainVars
<1>1. ThreadInv' /\ MainInv'
  BY KernelQueues DEF ThreadInv, MainInv
<1>2. HeadIsMatched'
  <2>1. pos > 1 => rb # << >>
    OBVIOUS
  <2> QED BY <2>1, KernelQueues DEF HeadIsMatched, Matches
<1>3. QueuedIsMade'
  BY KernelQueues DEF QueuedIsMade
<1>4. AlertedOrUnderWay'
  <2> SUFFICES ASSUME config.enable_sec_rule_detect, thread \in {"loop", "poll"},
                      NEW call \in made', Matches(call)
               PROVE  \/ call \in alerts' \union dropped'
                      \/ \E i \in DOMAIN rb' : rb'[i] = call
                      \/ Inherited(call)'
    BY DEF AlertedOrUnderWay, Matches
  <2>1. CASE call \in made
    <3>1. \/ call \in alerts \union dropped
          \/ \E i \in DOMAIN rb : rb[i] = call
          \/ Inherited(call)
      BY <2>1 DEF AlertedOrUnderWay
    <3>2. Inherited(call) => Inherited(call)'
      BY KernelQueues DEF Inherited
    <3> QED BY <3>1, <3>2, KernelQueues
  <2>2. CASE call \notin made
    BY <2>2, KernelQueues
  <2> QED BY <2>1, <2>2
<1> QED BY <1>1, <1>2, <1>3, <1>4

(* Whoever leaves the tracer's state alone leaves it in agreement. *)
LEMMA TraceStays == TraceInv /\ UNCHANGED traceVars => TraceInv'
BY DEF traceVars, ghostVars, TraceInv, NotFromTheFuture, OnlyMadeIsReported, MadeIsReported,
       EntriesStay, Busy, Made, AboutToMark, Reported

(* The strengthened invariant is inductive. *)
LEMMA NextIInv == IInv /\ [Next]_vars => IInv'
<1> SUFFICES ASSUME IInv, [Next]_vars PROVE IInv'
  OBVIOUS
<1>1. ASSUME UNCHANGED vars PROVE IInv'
  <2>1. TypeOK'
    BY <1>1 DEF vars, traceVars, ghostVars, chainVars, mainVars, IInv, TypeOK, ChainTypeOK,
                TraceTypeOK
  <2>2. TraceInv'
    BY <1>1, TraceStays DEF vars, IInv
  <2> QED BY <1>1, <2>1, <2>2
          DEF vars, traceVars, ghostVars, chainVars, mainVars, IInv, ThreadInv, MainInv,
              HeadIsMatched, QueuedIsMade, AlertedOrUnderWay, Matches, Inherited
<1>2. ASSUME Next PROVE TypeOK'
  BY <1>2, NextType
<1>3. CASE Main /\ Running
  <2>1. TraceInv'
    BY <1>3, TraceStays
       DEF Main, StartParts, StartTrackers, CheckAutoExit, Leave, DestroyAnalyzer, DestroyPrometheus,
           DestroyContainers, StopTracker, Join, NoTracker, IInv
  <2> QED BY <1>2, <1>3, <2>1, MainStep DEF IInv, Next
<1>4. CASE Thread /\ UNCHANGED mainVars
  <2>1. TraceInv'
    BY <1>4, TraceStays
       DEF Thread, Setup, TestExiting, PollEmpty, Handle, Cleanup, StaysInChain, IInv
  <2> QED BY <1>2, <1>4, <2>1, ThreadStep DEF IInv, Next
<1>5. CASE Running /\ Kernel /\ UNCHANGED <<chainVars, mainVars>>
  <2>1. TraceInv'
    BY <1>5, KernelTrace DEF IInv, TypeOK, ChainTypeOK
  <2> QED BY <1>2, <1>5, <2>1, KernelStep DEF IInv, Next
<1>6. ASSUME Die, Next PROVE IInv'
  <2>1. TraceInv'
    BY <1>6, TraceStays DEF Die, IInv
  <2>2. ThreadInv' /\ MainInv' /\ HeadIsMatched' /\ QueuedIsMade' /\ AlertedOrUnderWay'
    BY <1>6 DEF Die, ThreadInv, MainInv, HeadIsMatched, QueuedIsMade, AlertedOrUnderWay
  <2> QED BY <1>2, <1>6, <2>1, <2>2 DEF IInv
<1>7. CASE Interrupt
  <2>1. CASE Die
    BY <1>6, <1>7, <2>1 DEF Next
  <2>2. CASE ~Die
    <3>1. UNCHANGED <<main, owners, live>> /\ NoTracker
      BY <1>7, <2>2 DEF Interrupt
    <3>2. TraceInv'
      BY <3>1, TraceStays DEF NoTracker, IInv
    <3>3. ThreadInv' /\ MainInv' /\ HeadIsMatched' /\ QueuedIsMade' /\ AlertedOrUnderWay'
      BY <3>1 DEF NoTracker, traceVars, ghostVars, IInv, ThreadInv, MainInv, HeadIsMatched,
                  QueuedIsMade, AlertedOrUnderWay, Matches, Inherited
    <3> QED BY <1>2, <1>7, <3>2, <3>3 DEF IInv, Next
  <2> QED BY <2>1, <2>2
<1>8. CASE Crash
  BY <1>6, <1>8 DEF Next, Crash
<1> QED BY <1>1, <1>3, <1>4, <1>5, <1>7, <1>8 DEF Next

-----------------------------------------------------------------------------
(* TypeOK holds always. *)
THEOREM AgentTypeCorrect == Spec => []TypeOK
<1>1. IInv => TypeOK
  BY DEF IInv
<1> QED BY InitIInv, NextIInv, <1>1, PTL DEF Spec

(* No first call with a rule is missed (do_handle_event runs the rules first):
   whatever the other handlers throw, and whatever else the CPUs and the
   threads do, it is reported, dropped by a full buffer, on its way, or one
   the pid's former process has made.                                        *)
THEOREM RulesMissNothing == Spec => []AlertedOrUnderWay
<1>1. IInv => AlertedOrUnderWay
  BY DEF IInv
<1> QED BY InitIInv, NextIInv, <1>1, PTL DEF Spec

(* When start_agent's core is destroyed, the tracker's thread has ended and
   detached the tracer, and nobody shares the analyzer.                      *)
THEOREM CleanExit == Spec => []ExitIsClean
<1>1. IInv => ExitIsClean
  BY DEF IInv, ThreadInv, MainInv, ExitIsClean
<1> QED BY InitIInv, NextIInv, <1>1, PTL DEF Spec

(* sys_enter submits a call that was submitted before only for a pid that the
   table had no room for or of which two threads were in sys_enter at once.  *)
THEOREM FirstCallsOnce == Spec => ReportedOnce
<1> DEFINE A == \A c \in Cpus : (cpu[c] = Idle /\ cpu'[c] # Idle) =>
       LET p == cpu'[c].pid
       IN  [pid |-> p, gen |-> gen[p], id |-> cpu'[c].id] \in made => p \in excused'
<1>1. IInv /\ [Next]_vars => [A]_<<cpu, made>>
  <2> SUFFICES ASSUME IInv, [Next]_vars, NEW c \in Cpus, cpu[c] = Idle, cpu'[c] # Idle,
                      [pid |-> cpu'[c].pid, gen |-> gen[cpu'[c].pid], id |-> cpu'[c].id] \in made
               PROVE  cpu'[c].pid \in excused'
    OBVIOUS
  <2> USE DEF IInv, TypeOK, ChainTypeOK
  <2>1. Kernel
    BY DEF Next, vars, Die, Crash, Interrupt, Main, StartParts, StartTrackers, CheckAutoExit, Leave,
           DestroyAnalyzer, DestroyPrometheus, DestroyContainers, StopTracker, Join, NoTracker,
           Thread, Setup, TestExiting, PollEmpty, Handle, Cleanup, StaysInChain,
           traceVars
  <2>2. PICK d \in Cpus : SysEnter(d) \/ \E p \in Pids, id \in Calls : Enter(d, p, id)
    BY <2>1 DEF Kernel, Reuse
  <2>3. CASE SysEnter(d)
    <3>1. cpu'[c] = Idle
      BY <2>2, <2>3 DEF SysEnter, Insert, Mark, Within, TraceTypeOK, Idle, SysEnterState
    <3> QED BY <3>1
  <2>4. ASSUME NEW p \in Pids, NEW id \in Calls, Enter(d, p, id)
        PROVE  cpu'[c].pid \in excused'
    <3> DEFINE new == [at |-> IF p \in DOMAIN syscalls THEN "mark" ELSE "insert",
                       pid |-> p, id |-> id, lost |-> FALSE]
    <3>1. ~Reported(p, id) /\ cpu' = [cpu EXCEPT ![d] = new]
      BY <2>4 DEF Enter
    <3>2. d = c /\ cpu'[c] = new
      BY <3>1 DEF TraceTypeOK
    <3>3. [pid |-> p, gen |-> gen[p], id |-> id] \in made
      BY <3>2
    <3>4. p \in excused \/ AboutToMark(p, id)
      BY <3>1, <3>3 DEF TraceInv, MadeIsReported
    <3>5. AboutToMark(p, id) => Within(p) # {}
      BY DEF AboutToMark, Within, Busy
    <3>6. p \in excused'
      BY <2>4, <3>4, <3>5 DEF Enter
    <3> QED BY <3>2, <3>6
  <2> QED BY <2>2, <2>3, <2>4
<1> QED BY InitIInv, NextIInv, <1>1, PTL DEF Spec, ReportedOnce
=============================================================================
