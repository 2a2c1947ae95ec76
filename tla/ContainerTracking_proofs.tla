---------------------- MODULE ContainerTracking_proofs ----------------------
(***************************************************************************)
(* Theorems about ContainerTracking, for any pids and containers, any room *)
(* in the ring buffer and any number of processes.                         *)
(***************************************************************************)
EXTENDS ContainerTracking, SequenceTheorems, TLAPS

(***************************************************************************)
(* The inductive invariants.                                               *)
(***************************************************************************)

(* Shapes. The agent works on an exec event exactly when an update was asked
   for by one, and what an update has still to do is there only during it.   *)
Namespaces == Containers \union {Host, Private}
Infos == Containers \union {Host}
CommonOfEvents == [pid : {Host}, mnt : Namespaces]
Events == [kind : {"exec", "exit"}, pid : Pids, ppid : Pids, common : CommonOfEvents]
Entries == [common : Common, info : Infos]
IsTable(m) ==
  /\ DOMAIN m \subseteq Pids
  /\ m = [p \in DOMAIN m |-> m[p]]
  /\ \A p \in DOMAIN m : m[p] \in Entries

Processes ==
  /\ proc \in [Pids -> {"free", "running", "exiting"}]
  /\ parent \in [Pids -> Pids]
  /\ ns \in [Pids -> Namespaces]
  /\ ct \in [Pids -> Infos]
  /\ listed \subseteq Containers
Buffer ==
  /\ rb \in Seq(Events) /\ Len(rb) <= RbSize
  /\ attached \in BOOLEAN /\ lost \in BOOLEAN /\ mistaken \in BOOLEAN
Handler ==
  /\ IsTable(info_map) /\ pp_info \in Entries
  /\ hpc \in {"scan", "poll", "failed", "list", "top"}
  /\ attached => hpc \in {"poll", "list", "top"}
  /\ hpc = "poll" => attached
  /\ ev = IdleEvent \/ (ev \in Events /\ ev.kind = "exec")
  /\ ev # IdleEvent <=> (attached /\ hpc \in {"list", "top"})
  /\ todo \subseteq Containers /\ top \subseteq Pids \X Containers
  /\ hpc # "top" => top = {}
TypeInv == Processes /\ Buffer /\ Handler

(* The processes: pid 1 runs on the host for ever, a pid that is free is
   nobody's parent, and a child of a process of a container is in it too.    *)
FamilyInv ==
  /\ Running(Init1) /\ ct[Init1] = Host
  /\ \A p \in Pids : proc[p] # "free" => proc[parent[p]] # "free"
  /\ \A p \in Pids :
       proc[p] # "free" /\ parent[p] # Init1 => ct[parent[p]] \in {Host, ct[p]}

(* While no exit is lost, whatever the agent holds of a process that is no
   more is followed by its exit.                                             *)
IsExec(i, p) == rb[i].kind = "exec" /\ rb[i].pid = p
Gone(p) == ~Running(p) /\ ~ExitPending(p)
ForgetInv ==
  ~lost =>
    /\ \A p \in Known : Gone(p) => info_map[p].info = Host
    /\ \A p \in Pids, c \in Containers : <<p, c>> \in top => ~Gone(p)
    /\ \A p \in Pids, i \in 1..Len(rb) : IsExec(i, p) => Running(p) \/ ExitFollows(i, p)
    /\ \A p \in Pids : ev # IdleEvent /\ ev.pid = p => ~Gone(p)

(* An entry the agent has once it has handled i events may still be used: no
   exit of its process follows, or an exec event that names the process as
   its parent comes before the exit does.                                    *)
Used(p, i) ==
  \/ ~ExitFollows(i, p)
  \/ \E j \in (i + 1)..Len(rb) :
       /\ rb[j].kind = "exec" /\ rb[j].ppid = p
       /\ \A k \in (i + 1)..(j - 1) : ~(rb[k].kind = "exit" /\ rb[k].pid = p)

TableIsRight == \A p \in Known : Used(p, 0) => info_map[p].info \in {Host, ct[p]}
CopyIsRight ==
  \A p \in Pids : ev # IdleEvent /\ ev.pid = p /\ Used(p, 0) => pp_info.info \in {Host, ct[p]}
QueueIsRight ==
  \A p \in Pids, i \in 1..Len(rb) :
    IsExec(i, p) /\ Used(p, i) => ct[rb[i].ppid] \in {Host, ct[p]}
ListIsRight == \A p \in Pids, c \in Containers : <<p, c>> \in top => ct[p] = c
RightInv == ~mistaken => TableIsRight /\ CopyIsRight /\ QueueIsRight /\ ListIsRight

(***************************************************************************)
(* Shapes.                                                                 *)
(***************************************************************************)

(* What /proc and the events tell of a process is of its type. *)
LEMMA CommonTypes ==
  ASSUME Processes, NEW p \in Pids
  PROVE  CommonOfProc(p) \in Common /\ CommonOfEvent(p) \in CommonOfEvents
BY DEF Processes, CommonOfProc, CommonOfEvent, Common, CommonOfEvents, PidNs, Namespaces

(* Namespaces as an event tells them are namespaces the table may hold. *)
LEMMA EventCommons == CommonOfEvents \subseteq Common
BY DEF CommonOfEvents, Common, Namespaces

(* Inserting and removing keeps a table a table. *)
LEMMA Tables ==
  ASSUME NEW m, IsTable(m), NEW p \in Pids
  PROVE  /\ \A d \in Entries : IsTable(Insert(m, p, d))
         /\ IsTable(Remove(m, p))
<1>1. ASSUME NEW d \in Entries PROVE IsTable(Insert(m, p, d))
  BY <1>1 DEF IsTable, Insert
<1>2. IsTable(Remove(m, p))
  BY DEF IsTable, Remove
<1> QED BY <1>1, <1>2

(* What an entry is made of. *)
LEMMA EntryTypes ==
  /\ \A common \in Common, info \in Infos : Data(common, info) \in Entries
  /\ \A d \in Entries : d.common \in Common /\ d.info \in Infos
BY DEF Entries, Data

(* The events of a process are events, and reporting one keeps the buffer's shape. *)
LEMMA ReportTypes ==
  ASSUME PidsAssumption, Processes, Buffer, NEW p \in Pids, NEW kind \in {"exec", "exit"},
         Report(Event(kind, p))
  PROVE  rb' \in Seq(Events) /\ Len(rb') <= RbSize /\ lost' \in BOOLEAN
<1>1. Event(kind, p) \in Events
  BY CommonTypes DEF Event, Events, Processes
<1>2. CASE attached /\ Len(rb) < RbSize
  <2>1. rb' = Append(rb, Event(kind, p)) /\ lost' = lost
    BY <1>2 DEF Report
  <2>2. Append(rb, Event(kind, p)) \in Seq(Events) /\ Len(Append(rb, Event(kind, p))) = Len(rb) + 1
    BY <1>1 DEF Buffer
  <2> QED BY <1>2, <2>1, <2>2 DEF Buffer, PidsAssumption
<1>3. CASE ~(attached /\ Len(rb) < RbSize)
  BY <1>3 DEF Report, Buffer
<1> QED BY <1>2, <1>3

(* Taking an event from the buffer: it is an event, and the buffer keeps its shape. *)
LEMMA ConsumeTypes ==
  ASSUME PidsAssumption, Buffer, rb # << >>, Consume
  PROVE  /\ Head(rb) \in Events
         /\ rb' \in Seq(Events) /\ Len(rb') = Len(rb) - 1 /\ Len(rb') <= RbSize
         /\ attached' = attached /\ lost' = lost
<1>1. rb \in Seq(Events) /\ Len(rb) <= RbSize /\ rb' = Tail(rb)
  BY DEF Buffer, Consume
<1>2. Head(rb) \in Events /\ Tail(rb) \in Seq(Events) /\ Len(Tail(rb)) = Len(rb) - 1
  BY <1>1
<1>3. Len(rb) \in Nat /\ RbSize \in Nat
  BY <1>1 DEF PidsAssumption
<1> QED BY <1>1, <1>2, <1>3 DEF Consume, Buffer

(* The handler's variables, when a step of the kernel leaves them alone. *)
LEMMA SameHandler ==
  ASSUME Handler, UNCHANGED <<handlerVars, attached>>
  PROVE  Handler'
BY DEF Handler, handlerVars, IdleEvent, IsTable

(* The agent starts with every variable in its type. *)
LEMMA InitTypes == PidsAssumption /\ Init => TypeInv
<1> SUFFICES ASSUME PidsAssumption, Init PROVE TypeInv
  OBVIOUS
<1>1. Processes
  <2>1. Init1 \in Pids
    BY DEF PidsAssumption
  <2> QED BY <2>1 DEF Init, Processes, Namespaces, Infos
<1>2. Buffer
  <2>1. << >> \in Seq(Events) /\ Len(<< >>) = 0 /\ 0 <= RbSize
    BY DEF PidsAssumption
  <2> QED BY <2>1 DEF Init, Buffer
<1>3. pp_info \in Entries
  BY DEF Init, Entries, Data, IdleEvent, Common, Infos
<1>4. IsTable(info_map)
  BY DEF Init, IsTable
<1> QED BY <1>1, <1>2, <1>3, <1>4 DEF Init, TypeInv, Handler, UpdateSteps

(* Every step keeps the shapes. *)
LEMMA NextTypes == PidsAssumption /\ TypeInv /\ [Next]_vars => TypeInv'
<1> SUFFICES ASSUME PidsAssumption, TypeInv, [Next]_vars PROVE TypeInv'
  OBVIOUS
<1> USE DEF TypeInv
<1>1. ASSUME NEW p \in Pids, NEW q \in Pids, Fork(p, q) PROVE TypeInv'
  <2>1. Processes'
    BY <1>1 DEF Fork, Processes
  <2>2. Buffer'
    BY <1>1 DEF Fork, rbVars, Buffer
  <2> QED BY <1>1, <2>1, <2>2, SameHandler DEF Fork, rbVars
<1>2. ASSUME NEW p \in Pids, Exec(p) PROVE TypeInv'
  <2>1. Processes'
    BY <1>2 DEF Exec, kernelVars, Processes
  <2>2. Buffer'
    BY <1>2, ReportTypes DEF Exec, kernelVars, Buffer
  <2> QED BY <1>2, <2>1, <2>2, SameHandler DEF Exec
<1>3. ASSUME NEW p \in Pids, Exit(p) PROVE TypeInv'
  <2>1. Processes'
    BY <1>3 DEF Exit, Processes
  <2>2. Buffer'
    BY <1>3, ReportTypes DEF Exit, Buffer
  <2> QED BY <1>3, <2>1, <2>2, SameHandler DEF Exit
<1>4. ASSUME NEW p \in Pids, Release(p) PROVE TypeInv'
  <2>1. Processes'
    BY <1>4 DEF Release, Processes, PidsAssumption
  <2>2. Buffer'
    BY <1>4 DEF Release, rbVars, Buffer
  <2> QED BY <1>4, <2>1, <2>2, SameHandler DEF Release, rbVars
<1>5. ASSUME NEW p \in Pids, Unshare(p) PROVE TypeInv'
  <2>1. Processes'
    BY <1>5 DEF Unshare, Processes, Namespaces
  <2>2. Buffer'
    BY <1>5 DEF Unshare, rbVars, Buffer
  <2> QED BY <1>5, <2>1, <2>2, SameHandler DEF Unshare, rbVars
<1>6. ASSUME NEW p \in Pids, NEW c \in Containers, Enter(p, c) PROVE TypeInv'
  <2>1. Processes'
    BY <1>6 DEF Enter, Processes, Namespaces, Infos
  <2>2. Buffer'
    BY <1>6 DEF Enter, rbVars, Buffer
  <2> QED BY <1>6, <2>1, <2>2, SameHandler DEF Enter, rbVars
<1>7. ASSUME NEW c \in Containers, DockerLists(c) PROVE TypeInv'
  <2>1. Processes'
    BY <1>7 DEF DockerLists, Processes
  <2>2. Buffer'
    BY <1>7 DEF DockerLists, rbVars, Buffer
  <2> QED BY <1>7, <2>1, <2>2, SameHandler DEF DockerLists, rbVars
<1>8. ASSUME UNCHANGED kernelVars PROVE Processes' /\ mistaken' = mistaken
  BY <1>8 DEF kernelVars, Processes
<1>9. ASSUME UNCHANGED <<kernelVars, rbVars>> PROVE Processes' /\ Buffer' /\ attached' = attached
  BY <1>8, <1>9 DEF kernelVars, rbVars, Buffer
<1>10. ASSUME UNCHANGED kernelVars, rb # << >>, Consume
       PROVE  Processes' /\ Buffer' /\ attached' = attached /\ Head(rb) \in Events
  BY <1>8, <1>10, ConsumeTypes DEF Buffer
<1>11. CASE GetAllProcessInfo
  <2>1. \A p \in Pids : Data(CommonOfProc(p), Host) \in Entries
    BY CommonTypes, EntryTypes DEF Infos
  <2>2. IsTable(info_map')
    BY <1>11, <2>1 DEF GetAllProcessInfo, IsTable
  <2> QED BY <1>11, <1>9, <2>2 DEF GetAllProcessInfo, Handler, IdleEvent, Events
<1>12. CASE Attach
  <2>1. Processes' /\ Buffer'
    BY <1>12, <1>8 DEF Attach, Buffer
  <2> QED BY <1>12, <2>1 DEF Attach, Updated, Handler, IdleEvent, IsTable
<1>13. CASE ListAllContainers
  BY <1>13, <1>9 DEF ListAllContainers, Handler, IdleEvent, IsTable, Processes
<1>14. ASSUME NEW c \in Containers, ListAllProcesses(c) PROVE TypeInv'
  <2>1. Processes' /\ Buffer'
    BY <1>14, <1>8 DEF ListAllProcesses, Buffer
  <2>2. UNCHANGED <<info_map, hpc, ev, pp_info, attached>> /\ hpc = "top"
    BY <1>14 DEF ListAllProcesses
  <2>3. todo' \subseteq Containers /\ top' \subseteq Pids \X Containers
    BY <1>14 DEF ListAllProcesses, Handler, Inside, Leaving
  <2> QED BY <1>14, <2>1, <2>2, <2>3 DEF Handler, IdleEvent, IsTable
<1>15. ASSUME NEW p \in Pids, NEW c \in Containers, EnterProcess(p, c) PROVE TypeInv'
  <2>1. (IF p \in Known THEN info_map[p].common ELSE CommonOfProc(p)) \in Common
    BY CommonTypes, EntryTypes DEF Handler, IsTable, Known
  <2>2. IsTable(info_map')
    BY <1>15, <2>1, Tables, EntryTypes DEF EnterProcess, Handler, Infos
  <2> QED BY <1>15, <1>9, <2>2 DEF EnterProcess, Handler, IdleEvent
<1>16. CASE UpdateThrows
  BY <1>16, <1>9 DEF UpdateThrows, Handler, IdleEvent, IsTable
<1>17. CASE HandleExit
  <2>1. Processes' /\ Buffer' /\ attached' = attached /\ Head(rb).pid \in Pids
    BY <1>17, <1>10 DEF HandleExit, Take, Events
  <2>2. IsTable(info_map')
    BY <1>17, <2>1, Tables DEF HandleExit, Handler
  <2> QED BY <1>17, <2>1, <2>2 DEF HandleExit, Handler, IdleEvent
<1>18. CASE HandleKnown
  <2> DEFINE e == Head(rb)
  <2>1. Processes' /\ Buffer' /\ attached' = attached /\ e.pid \in Pids /\ e.common \in CommonOfEvents
    BY <1>18, <1>10 DEF HandleKnown, Take, Events
  <2>2. Data(e.common, info_map[e.pid].info) \in Entries
    BY <1>18, <2>1, EntryTypes, EventCommons DEF HandleKnown, Handler, IsTable, Known
  <2>3. IsTable(info_map')
    BY <1>18, <2>1, <2>2, Tables DEF HandleKnown, Handler
  <2> QED BY <1>18, <2>1, <2>3 DEF HandleKnown, Handler, IdleEvent
<1>19. CASE HandleChild
  <2> DEFINE e == Head(rb)
  <2>1. Processes' /\ Buffer' /\ attached' = attached /\ e.pid \in Pids /\ e.common \in CommonOfEvents
    BY <1>19, <1>10 DEF HandleChild, Take, Events
  <2>2. Data(e.common, info_map[e.ppid].info) \in Entries
    BY <1>19, <2>1, EntryTypes, EventCommons DEF HandleChild, Handler, IsTable, Known
  <2>3. IsTable(info_map')
    BY <1>19, <2>1, <2>2, Tables DEF HandleChild, Handler
  <2> QED BY <1>19, <2>1, <2>3 DEF HandleChild, Handler, IdleEvent
<1>20. CASE HandleOtherNamespace
  <2>1. Processes' /\ Buffer' /\ attached' = attached /\ Head(rb) \in Events /\ Head(rb).kind = "exec"
    BY <1>20, <1>10 DEF HandleOtherNamespace, Take
  <2>2. pp_info' \in Entries
    BY <1>20 DEF HandleOtherNamespace, Handler, IsTable, Known
  <2>3. hpc' = "list" /\ ev' = Head(rb) /\ ev' # IdleEvent
    BY <1>20, <2>1 DEF HandleOtherNamespace, IdleEvent
  <2>4. attached
    BY <1>20 DEF HandleOtherNamespace, Take, Handler
  <2> QED BY <1>20, <2>1, <2>2, <2>3, <2>4
     DEF HandleOtherNamespace, Take, Handler, IdleEvent, IsTable
<1>21. CASE FinishOtherNamespace
  <2>1. ev \in Events /\ ev.kind = "exec"
    BY <1>21 DEF FinishOtherNamespace, Updated, Handler
  <2>2. Data(ev.common, pp_info.info) \in Entries /\ ev.pid \in Pids
    BY <2>1, EntryTypes, EventCommons DEF Events, Handler
  <2>3. IsTable(info_map')
    BY <1>21, <2>2, Tables DEF FinishOtherNamespace, Handler
  <2> QED BY <1>21, <1>9, <2>3 DEF FinishOtherNamespace, Updated, Handler, IdleEvent
<1>22. CASE HandleUnknown
  <2> DEFINE e == Head(rb)
             first == Insert(info_map, e.pid, Data(e.common, Host))
  <2>1. /\ Processes' /\ Buffer' /\ attached' = attached
        /\ e.pid \in Pids /\ e.ppid \in Pids /\ e.common \in CommonOfEvents
    BY <1>22, <1>10 DEF HandleUnknown, Take, Events
  <2>2. Data(e.common, Host) \in Entries /\ Data(CommonOfProc(e.ppid), Host) \in Entries
    BY <2>1, EntryTypes, EventCommons, CommonTypes DEF Infos
  <2>3. IsTable(first)
    BY <2>1, <2>2, Tables DEF Handler
  <2>4. IsTable(info_map')
    BY <1>22, <2>1, <2>2, <2>3, Tables DEF HandleUnknown
  <2> QED BY <1>22, <2>1, <2>4 DEF HandleUnknown, Handler, IdleEvent
<1>23. CASE UNCHANGED vars
  BY <1>23, <1>9, SameHandler DEF vars, rbVars
<1> QED
  BY <1>1, <1>2, <1>3, <1>4, <1>5, <1>6, <1>7, <1>11, <1>12, <1>13, <1>14, <1>15, <1>16,
     <1>17, <1>18, <1>19, <1>20, <1>21, <1>22, <1>23 DEF Next, Kernel, Agent

(* The record of types that the runs check is part of it. *)
LEMMA TypesAreChecked == PidsAssumption /\ TypeInv => TypeOK
BY EntryTypes DEF TypeInv, Processes, Buffer, Handler, IsTable, TypeOK, Known, UpdateSteps, Infos

(* Every variable keeps its shape: the buffer never holds more than it has
   room for, the table only pids and containers that may exist.              *)
THEOREM TrackingTypeCorrect == Spec => []TypeOK
<1>1. Init => TypeInv
  BY InitTypes, PidsAssumption
<1>2. TypeInv /\ [Next]_vars => TypeInv'
  BY NextTypes, PidsAssumption
<1>3. TypeInv => TypeOK
  BY TypesAreChecked, PidsAssumption
<1> QED BY <1>1, <1>2, <1>3, PTL DEF Spec

(***************************************************************************)
(* The processes and their parents.                                        *)
(***************************************************************************)
(* At the start pid 1 is the only process. *)
LEMMA InitFamily == PidsAssumption /\ Init => FamilyInv
BY DEF Init, PidsAssumption, FamilyInv, Running

(* Every step keeps what is true of parents, children and pids that are released. *)
LEMMA NextFamily == PidsAssumption /\ TypeInv /\ FamilyInv /\ [Next]_vars => FamilyInv'
<1> SUFFICES ASSUME PidsAssumption, TypeInv, FamilyInv, [Next]_vars PROVE FamilyInv'
  OBVIOUS
<1>1. Init1 \in Pids /\ Processes
  BY DEF PidsAssumption, TypeInv
<1>2. CASE UNCHANGED <<proc, parent, ct>>
  BY <1>2 DEF FamilyInv, Running
<1>3. ASSUME NEW p \in Pids, NEW q \in Pids, Fork(p, q) PROVE FamilyInv'
  BY <1>1, <1>3 DEF Fork, FamilyInv, Running, Processes
<1>4. ASSUME NEW p \in Pids, Exit(p) PROVE FamilyInv'
  BY <1>1, <1>4 DEF Exit, FamilyInv, Running, Processes
<1>5. ASSUME NEW p \in Pids, Release(p) PROVE FamilyInv'
  BY <1>1, <1>5 DEF Release, FamilyInv, Running, Processes
<1>6. ASSUME NEW p \in Pids, NEW c \in Containers, Enter(p, c) PROVE FamilyInv'
  BY <1>1, <1>6 DEF Enter, FamilyInv, Running, Processes
<1>7. ASSUME NEW p \in Pids, Exec(p) \/ Unshare(p) PROVE UNCHANGED <<proc, parent, ct>>
  BY <1>7 DEF Exec, Unshare, kernelVars
<1>8. ASSUME NEW c \in Containers, DockerLists(c) PROVE UNCHANGED <<proc, parent, ct>>
  BY <1>8 DEF DockerLists
<1>9. ASSUME Agent PROVE UNCHANGED kernelVars
  BY <1>9 DEF Agent, GetAllProcessInfo, Attach, ListAllContainers, UpdateThrows, ListAllProcesses,
    EnterProcess, HandleExit, HandleKnown, HandleChild, HandleOtherNamespace,
    FinishOtherNamespace, HandleUnknown
<1> QED
  BY <1>2, <1>3, <1>4, <1>5, <1>6, <1>7, <1>8, <1>9 DEF Next, Kernel, vars, kernelVars

(***************************************************************************)
(* The buffer: what exits follow, before and after a step.                 *)
(***************************************************************************)

(* An exit that is under way follows everything the agent has handled. *)
LEMMA Pending == \A p : ExitPending(p) <=> ExitFollows(0, p)
BY DEF ExitPending, ExitFollows

(* Reporting: the new event is the last one, and every exit that followed an
   event still does; only an exit makes one follow.                          *)
LEMMA AfterReport ==
  ASSUME Processes, Buffer, NEW q \in Pids, NEW kind \in {"exec", "exit"},
         Report(Event(kind, q))
  PROVE  /\ lost => lost'
         /\ Len(rb) <= Len(rb')
         /\ \A i \in 1..Len(rb) : rb'[i] = rb[i]
         /\ \A i \in 1..Len(rb') : i \notin 1..Len(rb) => i = Len(rb) + 1 /\ rb'[i] = Event(kind, q)
         /\ \A p \in Pids, i \in Nat : ExitFollows(i, p) => ExitFollows(i, p)'
         /\ kind = "exit" /\ ~lost' => \A i \in 0..Len(rb) : ExitFollows(i, q)'
         /\ \A p \in Pids, i \in Nat :
              ExitFollows(i, p)' /\ ~ExitFollows(i, p) => kind = "exit" /\ p = q
<1> DEFINE e == Event(kind, q)
<1>1. e \in Events /\ e.kind = kind /\ e.pid = q
  BY CommonTypes DEF Event, Events, Processes
<1>2. Len(rb) \in Nat /\ rb \in Seq(Events) /\ lost \in BOOLEAN
  BY DEF Buffer
<1>3. CASE attached /\ Len(rb) < RbSize
  <2>1. rb' = Append(rb, e) /\ lost' = lost
    BY <1>3 DEF Report
  <2> HIDE DEF e
  <2>2. /\ Len(rb') = Len(rb) + 1
        /\ \A i \in 1..Len(rb) : rb'[i] = rb[i]
        /\ rb'[Len(rb) + 1] = e
    BY <1>1, <1>2, <2>1
  <2>3. \A p \in Pids, i \in Nat : ExitFollows(i, p) => ExitFollows(i, p)'
    BY <1>2, <2>2 DEF ExitFollows
  <2>4. kind = "exit" => \A i \in 0..Len(rb) : ExitFollows(i, q)'
    BY <1>1, <1>2, <2>2 DEF ExitFollows
  <2>5. \A p \in Pids, i \in Nat : ExitFollows(i, p)' /\ ~ExitFollows(i, p) => kind = "exit" /\ p = q
    <3> SUFFICES ASSUME NEW p \in Pids, NEW i \in Nat, ExitFollows(i, p)', ~ExitFollows(i, p)
                 PROVE  kind = "exit" /\ p = q
      OBVIOUS
    <3>1. PICK j \in (i + 1)..Len(rb') : rb'[j].kind = "exit" /\ rb'[j].pid = p
      BY DEF ExitFollows
    <3>2. j \notin 1..Len(rb)
      BY <1>2, <2>2, <3>1 DEF ExitFollows
    <3>3. j = Len(rb) + 1
      BY <1>2, <2>2, <3>1, <3>2
    <3> QED BY <1>1, <2>2, <3>1, <3>3
  <2> QED BY <1>2, <2>1, <2>2, <2>3, <2>4, <2>5 DEF e
<1>4. CASE ~(attached /\ Len(rb) < RbSize)
  <2>1. rb' = rb /\ lost' = (lost \/ e.kind = "exit")
    BY <1>4 DEF Report
  <2>2. (lost => lost') /\ (kind = "exit" => lost')
    BY <1>1, <2>1
  <2>3. \A p \in Pids, i \in Nat : ExitFollows(i, p)' <=> ExitFollows(i, p)
    BY <2>1 DEF ExitFollows
  <2> HIDE DEF e
  <2>4. Len(rb) = Len(rb') /\ \A i \in 1..Len(rb) : rb'[i] = rb[i]
    BY <2>1
  <2> QED BY <1>2, <2>2, <2>3, <2>4
<1> QED BY <1>3, <1>4

(* Taking the first event: the others move up by one. *)
LEMMA AfterConsume ==
  ASSUME Buffer, rb # << >>, Consume
  PROVE  /\ lost' = lost
         /\ Head(rb) = rb[1] /\ 1 \in 1..Len(rb)
         /\ Len(rb') = Len(rb) - 1
         /\ \A i \in 1..Len(rb') : i + 1 \in 1..Len(rb) /\ rb'[i] = rb[i + 1]
         /\ \A p \in Pids, i \in Nat : ExitFollows(i, p)' <=> ExitFollows(i + 1, p)
         /\ \A p \in Pids : ExitFollows(0, p) /\ ~ExitFollows(1, p)
              => Head(rb).kind = "exit" /\ Head(rb).pid = p
<1>1. rb \in Seq(Events) /\ Len(rb) \in Nat /\ rb' = Tail(rb) /\ lost' = lost
  BY DEF Buffer, Consume
<1>2. /\ Head(rb) = rb[1] /\ Len(rb) # 0 /\ Len(rb') = Len(rb) - 1
      /\ \A i \in 1..Len(rb') : rb'[i] = rb[i + 1]
  BY <1>1
<1>3. ASSUME NEW p \in Pids, NEW i \in Nat PROVE ExitFollows(i, p)' <=> ExitFollows(i + 1, p)
  <2>1. ASSUME ExitFollows(i, p)' PROVE ExitFollows(i + 1, p)
    <3>1. PICK j \in (i + 1)..Len(rb') : rb'[j].kind = "exit" /\ rb'[j].pid = p
      BY <2>1 DEF ExitFollows
    <3>2. j + 1 \in (i + 1 + 1)..Len(rb) /\ rb[j + 1] = rb'[j]
      BY <1>1, <1>2, <3>1
    <3> QED BY <3>1, <3>2 DEF ExitFollows
  <2>2. ASSUME ExitFollows(i + 1, p) PROVE ExitFollows(i, p)'
    <3>1. PICK j \in (i + 1 + 1)..Len(rb) : rb[j].kind = "exit" /\ rb[j].pid = p
      BY <2>2 DEF ExitFollows
    <3>2. j - 1 \in (i + 1)..Len(rb') /\ rb[j] = rb'[j - 1]
      BY <1>1, <1>2, <3>1
    <3> QED BY <3>1, <3>2 DEF ExitFollows
  <2> QED BY <2>1, <2>2
<1>4. ASSUME NEW p \in Pids, ExitFollows(0, p), ~ExitFollows(1, p)
      PROVE  Head(rb).kind = "exit" /\ Head(rb).pid = p
  BY <1>1, <1>2, <1>4 DEF ExitFollows
<1>5. 1 \in 1..Len(rb) /\ \A i \in 1..Len(rb') : i + 1 \in 1..Len(rb)
  BY <1>1, <1>2
<1>6. \A i \in 1..Len(rb') : i + 1 \in 1..Len(rb) /\ rb'[i] = rb[i + 1]
  BY <1>2, <1>5
<1>7. \A p \in Pids, i \in Nat : ExitFollows(i, p)' <=> ExitFollows(i + 1, p)
  BY <1>3
<1>8. \A p \in Pids : ExitFollows(0, p) /\ ~ExitFollows(1, p)
        => Head(rb).kind = "exit" /\ Head(rb).pid = p
  BY <1>4
<1> QED BY <1>1, <1>2, <1>5, <1>6, <1>7, <1>8

(***************************************************************************)
(* What is gone is forgotten.                                              *)
(***************************************************************************)
(* The agent starts with nothing in its table. *)
LEMMA InitForget == Init => ForgetInv
<1> SUFFICES ASSUME Init PROVE ForgetInv
  OBVIOUS
<1>1. rb = << >> /\ top = {} /\ ev = IdleEvent /\ Known = {}
  BY DEF Init, Known
<1> QED BY <1>1 DEF ForgetInv

(* It holds after a step that leaves the table alone, when only a process
   whose exit is under way may end, and only a running one reports an exec.  *)
LEMMA KernelForget ==
  ASSUME ForgetInv, Handler, UNCHANGED handlerVars,
         Len(rb) \in Nat, Len(rb') \in Nat, Len(rb) <= Len(rb'),
         lost => lost',
         \A i \in 1..Len(rb) : rb'[i] = rb[i],
         \A p \in Pids, i \in Nat : ExitFollows(i, p) => ExitFollows(i, p)',
         ~lost' => \A p \in Pids, i \in 0..Len(rb) :
           Running(p) => Running(p)' \/ ExitFollows(i, p)',
         \A p \in Pids, i \in 1..Len(rb') :
           i \notin 1..Len(rb) /\ IsExec(i, p)' => Running(p)'
  PROVE  ForgetInv'
<1> SUFFICES ASSUME ~lost' PROVE ForgetInv'
  BY DEF ForgetInv
<1>1. info_map' = info_map /\ top' = top /\ ev' = ev /\ Known' = Known /\ ~lost /\ Known \subseteq Pids
  BY DEF handlerVars, Known, Handler, IsTable
<1>2. \A p \in Pids : Gone(p)' => Gone(p)
  BY Pending DEF Gone, ExitPending, ExitFollows
<1>3. \A p \in Known' : Gone(p)' => info_map'[p].info = Host
  BY <1>1, <1>2 DEF ForgetInv
<1>4. \A p \in Pids, c \in Containers : <<p, c>> \in top' => ~Gone(p)'
  BY <1>1, <1>2 DEF ForgetInv
<1>5. \A p \in Pids : ev' # IdleEvent /\ ev'.pid = p => ~Gone(p)'
  BY <1>1, <1>2 DEF ForgetInv
<1>6. ASSUME NEW p \in Pids, NEW i \in 1..Len(rb'), IsExec(i, p)', ~Running(p)'
      PROVE  ExitFollows(i, p)'
  <2>1. i \in 1..Len(rb) /\ IsExec(i, p)
    BY <1>6 DEF IsExec
  <2>2. Running(p) \/ ExitFollows(i, p)
    BY <1>1, <2>1 DEF ForgetInv
  <2> QED BY <1>6, <2>1, <2>2
<1> QED BY <1>1, <1>3, <1>4, <1>5, <1>6 DEF ForgetInv

(* Handling the first event: nobody is gone for that but the process whose
   exit it is, and the process of an exec event is not.                      *)
LEMMA ConsumeForget ==
  ASSUME ForgetInv, Buffer, rb # << >>, Consume, proc' = proc, ~lost
  PROVE  /\ \A p \in Pids : Gone(p)' /\ ~Gone(p) => Head(rb).kind = "exit" /\ Head(rb).pid = p
         /\ \A p \in Pids : Head(rb).kind = "exec" /\ Head(rb).pid = p => ~Gone(p)'
         /\ \A p \in Pids, i \in 1..Len(rb') : IsExec(i, p)' => Running(p)' \/ ExitFollows(i, p)'
<1>1. Len(rb) \in Nat /\ \A p : Running(p)' <=> Running(p)
  BY DEF Running, Buffer
<1>2. \A p \in Pids : ExitPending(p)' <=> ExitFollows(1, p)
  <2> TAKE p \in Pids
  <2>1. ExitPending(p)' <=> ExitFollows(0, p)'
    BY DEF ExitPending, ExitFollows
  <2> QED BY <2>1, AfterConsume
<1>3. \A p \in Pids : ExitPending(p) <=> ExitFollows(0, p)
  BY Pending
<1>4. ASSUME NEW p \in Pids, Gone(p)', ~Gone(p) PROVE Head(rb).kind = "exit" /\ Head(rb).pid = p
  BY <1>1, <1>2, <1>3, <1>4, AfterConsume DEF Gone
<1>5. ASSUME NEW p \in Pids, Head(rb).kind = "exec" /\ Head(rb).pid = p PROVE ~Gone(p)'
  <2>1. IsExec(1, p) /\ 1 \in 1..Len(rb)
    BY <1>5, AfterConsume DEF IsExec
  <2>2. Running(p) \/ ExitFollows(1, p)
    BY <2>1 DEF ForgetInv
  <2> QED BY <1>1, <1>2, <2>2 DEF Gone
<1>6. ASSUME NEW p \in Pids, NEW i \in 1..Len(rb'), IsExec(i, p)'
      PROVE  Running(p)' \/ ExitFollows(i, p)'
  <2>1. i + 1 \in 1..Len(rb) /\ rb'[i] = rb[i + 1] /\ Len(rb') = Len(rb) - 1
    BY AfterConsume
  <2>2. IsExec(i + 1, p) /\ i \in Nat
    BY <1>1, <1>6, <2>1 DEF IsExec
  <2>3. Running(p) \/ ExitFollows(i + 1, p)
    BY <2>1, <2>2 DEF ForgetInv
  <2> QED BY <1>1, <2>2, <2>3, AfterConsume
<1> QED BY <1>4, <1>5, <1>6

(* Every step keeps it. *)
LEMMA NextForget ==
  PidsAssumption /\ TypeInv /\ FamilyInv /\ ForgetInv /\ [Next]_vars => ForgetInv'
<1> SUFFICES ASSUME PidsAssumption, TypeInv, FamilyInv, ForgetInv, [Next]_vars PROVE ForgetInv'
  OBVIOUS
<1>1. /\ Processes /\ Buffer /\ Handler /\ Len(rb) \in Nat /\ IsTable(info_map) /\ Known \subseteq Pids
      /\ Len(rb') \in Nat /\ rb \in Seq(Events)
  <2>1. TypeInv'
    BY NextTypes
  <2> QED BY <2>1 DEF TypeInv, Handler, Buffer, IsTable, Known
<1>2. ASSUME UNCHANGED <<rb, lost>>, UNCHANGED handlerVars,
             \A p \in Pids : Running(p) => Running(p)'
      PROVE  ForgetInv'
  BY <1>1, <1>2, KernelForget DEF ExitFollows
<1>3. ASSUME NEW p \in Pids, NEW q \in Pids, Fork(p, q) PROVE ForgetInv'
  BY <1>1, <1>2, <1>3 DEF Fork, rbVars, Running, Processes
<1>4. ASSUME NEW p \in Pids, Exec(p) PROVE ForgetInv'
  <2>1. /\ Report(Event("exec", p)) /\ UNCHANGED handlerVars /\ Running(p)
        /\ \A q \in Pids : Running(q)' <=> Running(q)
    BY <1>4 DEF Exec, kernelVars, Running
  <2>2. Event("exec", p).pid = p
    BY DEF Event
  <2> QED BY <1>1, <2>1, <2>2, AfterReport, KernelForget DEF IsExec
<1>5. ASSUME NEW p \in Pids, Exit(p) PROVE ForgetInv'
  <2>1. /\ Report(Event("exit", p)) /\ UNCHANGED handlerVars
        /\ \A q \in Pids : q # p => (Running(q)' <=> Running(q))
    BY <1>1, <1>5 DEF Exit, Running, Processes
  <2>2. Event("exit", p).kind = "exit"
    BY DEF Event
  <2> QED BY <1>1, <2>1, <2>2, AfterReport, KernelForget DEF IsExec
<1>6. ASSUME NEW p \in Pids, Release(p) PROVE ForgetInv'
  BY <1>1, <1>2, <1>6 DEF Release, rbVars, Running, Processes
<1>7. ASSUME NEW p \in Pids, Unshare(p) PROVE ForgetInv'
  BY <1>1, <1>2, <1>7 DEF Unshare, rbVars, Running
<1>8. ASSUME NEW p \in Pids, NEW c \in Containers, Enter(p, c) PROVE ForgetInv'
  BY <1>1, <1>2, <1>8 DEF Enter, rbVars, Running
<1>9. ASSUME NEW c \in Containers, DockerLists(c) PROVE ForgetInv'
  BY <1>1, <1>2, <1>9 DEF DockerLists, rbVars, Running
<1>10. CASE Agent
  <2> SUFFICES ASSUME ~lost' PROVE ForgetInv'
    BY DEF ForgetInv
  <2>0. proc' = proc /\ ~lost
    <3>1. GetAllProcessInfo \/ Attach \/ ListAllContainers \/ UpdateThrows \/ FinishOtherNamespace
            => proc' = proc /\ (lost => lost')
      BY DEF GetAllProcessInfo, Attach, ListAllContainers, UpdateThrows, FinishOtherNamespace,
        kernelVars, rbVars
    <3>2. \A p \in Pids, c \in Containers :
            ListAllProcesses(c) \/ EnterProcess(p, c) => proc' = proc /\ (lost => lost')
      <4>1. ASSUME NEW c \in Containers, ListAllProcesses(c)
            PROVE  proc' = proc /\ (lost => lost')
        BY <4>1 DEF ListAllProcesses, kernelVars
      <4>2. ASSUME NEW p \in Pids, NEW c \in Containers, EnterProcess(p, c)
            PROVE  proc' = proc /\ (lost => lost')
        BY <4>2 DEF EnterProcess, kernelVars, rbVars
      <4> QED BY <4>1, <4>2
    <3>3. HandleExit \/ HandleKnown \/ HandleChild \/ HandleOtherNamespace \/ HandleUnknown
            => proc' = proc /\ (lost => lost')
      BY DEF HandleExit, HandleKnown, HandleChild, HandleOtherNamespace, HandleUnknown,
        kernelVars, Consume
    <3>4. Init1 \in Pids
      BY DEF PidsAssumption
    <3> QED BY <1>10, <3>1, <3>2, <3>3, <3>4 DEF Agent
  <2> DEFINE Table == \A p \in Known' : Gone(p)' => info_map'[p].info = Host
             Listed == \A p \in Pids, c \in Containers : <<p, c>> \in top' => ~Gone(p)'
             Queue == \A p \in Pids, i \in 1..Len(rb') : IsExec(i, p)' => Running(p)' \/ ExitFollows(i, p)'
             InHand == \A p \in Pids : ev' # IdleEvent /\ ev'.pid = p => ~Gone(p)'
  <2>1. Table /\ Listed /\ Queue /\ InHand => ForgetInv'
    BY <2>0 DEF ForgetInv
  <2>2. ASSUME rb' = rb
        PROVE  Queue /\ \A p \in Pids : Gone(p)' <=> Gone(p)
    BY <2>0, <2>2 DEF ForgetInv, Gone, ExitPending, ExitFollows, Running, IsExec
  <2>3. ASSUME NEW kind \in {"exec", "exit"}, Take(kind), Consume
        PROVE  /\ Queue /\ Head(rb).kind = kind /\ top = {} /\ ev = IdleEvent
               /\ Head(rb).pid \in Pids /\ Head(rb).ppid \in Pids
               /\ \A p \in Pids : Gone(p)' /\ ~Gone(p) => kind = "exit" /\ Head(rb).pid = p
               /\ \A p \in Pids : kind = "exec" /\ Head(rb).pid = p => ~Gone(p)'
    <3>1. Head(rb) \in Events
      BY <1>1, <2>3 DEF Take
    <3> QED BY <1>1, <2>0, <2>3, <3>1, ConsumeForget DEF Take, Handler, Events
  <2> USE DEF Known
  <2>4. CASE GetAllProcessInfo
    <3>1. rb' = rb /\ top' = {} /\ ev' = IdleEvent /\ Table
      BY <1>1, <2>4 DEF GetAllProcessInfo, rbVars, Data, Handler
    <3> QED BY <2>1, <2>2, <3>1
  <2>5. CASE Attach \/ UpdateThrows \/ ListAllContainers
    <3>1. /\ rb' = rb /\ info_map' = info_map
          /\ (ev' = ev \/ ev' = IdleEvent) /\ (top' = top \/ top' = {})
      BY <2>5 DEF Attach, UpdateThrows, ListAllContainers, rbVars
    <3>2. \A p \in Pids : Gone(p)' <=> Gone(p)
      BY <2>2, <3>1
    <3> QED BY <1>1, <2>0, <2>1, <2>2, <3>1, <3>2 DEF ForgetInv
  <2>6. ASSUME NEW c \in Containers, ListAllProcesses(c) PROVE ForgetInv'
    <3>1. rb' = rb /\ info_map' = info_map /\ ev' = ev
      BY <2>6 DEF ListAllProcesses, rbVars
    <3>2. Listed
      <4>1. PICK late \in SUBSET Leaving(c) :
              /\ top' = {<<p, c>> : p \in Inside(c) \union late}
              /\ lost' = (lost \/ \E p \in late : ~ExitPending(p))
        BY <2>6 DEF ListAllProcesses
      <4>2. \A p \in Inside(c) \union late : ~Gone(p)
        BY <4>1, <2>6 DEF Inside, Gone
      <4>3. \A p \in Pids : Gone(p)' <=> Gone(p)
        BY <2>2, <3>1
      <4>4. Inside(c) \union late \subseteq Pids
        BY DEF Inside, Leaving
      <4> QED BY <4>1, <4>2, <4>3, <4>4
    <3>3. \A p \in Pids : Gone(p)' <=> Gone(p)
      BY <2>2, <3>1
    <3> QED BY <1>1, <2>0, <2>1, <2>2, <3>1, <3>2, <3>3 DEF ForgetInv
  <2>7. ASSUME NEW p \in Pids, NEW c \in Containers, EnterProcess(p, c) PROVE ForgetInv'
    <3>1. rb' = rb /\ top' \subseteq top /\ ev' = ev /\ <<p, c>> \in top
      BY <2>7 DEF EnterProcess, rbVars
    <3>2. \A q \in Pids : Gone(q)' <=> Gone(q)
      BY <2>2, <3>1
    <3>3. ~Gone(p)
      BY <2>0, <3>1 DEF ForgetInv
    <3>4. \A q \in Known' : q # p => q \in Known /\ info_map'[q] = info_map[q]
      BY <2>7 DEF EnterProcess, Insert
    <3>5. Table
      BY <1>1, <2>0, <3>2, <3>3, <3>4 DEF ForgetInv
    <3> QED BY <2>0, <2>1, <2>2, <3>1, <3>2, <3>5 DEF ForgetInv
  <2>8. CASE HandleExit
    <3>1. Take("exit") /\ Consume /\ top' = top /\ ev' = ev
      BY <2>8 DEF HandleExit
    <3>2. \A q \in Known' : q # Head(rb).pid /\ q \in Known /\ info_map'[q] = info_map[q]
      BY <2>8 DEF HandleExit, Remove
    <3>3. Table
      BY <1>1, <2>0, <2>3, <3>1, <3>2 DEF ForgetInv
    <3> QED BY <2>1, <2>3, <3>1, <3>3
  <2>9. CASE HandleKnown \/ HandleChild
    <3>1. Take("exec") /\ Consume /\ top' = top /\ ev' = ev
      BY <2>9 DEF HandleKnown, HandleChild
    <3>2. \A q \in Known' : q # Head(rb).pid => q \in Known /\ info_map'[q] = info_map[q]
      BY <2>9 DEF HandleKnown, HandleChild, Insert
    <3>3. Table
      BY <1>1, <2>0, <2>3, <3>1, <3>2 DEF ForgetInv
    <3> QED BY <2>1, <2>3, <3>1, <3>3
  <2>10. CASE HandleOtherNamespace
    <3>1. Take("exec") /\ Consume /\ top' = top /\ ev' = Head(rb) /\ info_map' = info_map
      BY <2>10 DEF HandleOtherNamespace
    <3>2. Table
      BY <1>1, <2>0, <2>3, <3>1 DEF ForgetInv
    <3> QED BY <2>1, <2>3, <3>1, <3>2
  <2>11. CASE FinishOtherNamespace
    <3>1. rb' = rb /\ top' = top /\ ev' = IdleEvent /\ ev # IdleEvent /\ ev.pid \in Pids
      BY <1>1, <2>11 DEF FinishOtherNamespace, rbVars, Updated, Handler, Events
    <3>2. \A q \in Pids : Gone(q)' <=> Gone(q)
      BY <2>2, <3>1
    <3>3. ~Gone(ev.pid)
      BY <2>0, <3>1 DEF ForgetInv
    <3>4. \A q \in Known' : q # ev.pid => q \in Known /\ info_map'[q] = info_map[q]
      BY <2>11 DEF FinishOtherNamespace, Insert
    <3>5. Table
      BY <1>1, <2>0, <3>1, <3>2, <3>3, <3>4 DEF ForgetInv
    <3> QED BY <2>0, <2>1, <2>2, <3>1, <3>2, <3>5 DEF ForgetInv
  <2>12. CASE HandleUnknown
    <3>1. Take("exec") /\ Consume /\ top' = top /\ ev' = ev
      BY <2>12 DEF HandleUnknown
    <3>2. \A q \in Known' : info_map'[q].info = Host \/ (q \in Known /\ q # Head(rb).pid /\ info_map'[q] = info_map[q])
      BY <2>12 DEF HandleUnknown, Insert, Data
    <3>3. Table
      BY <1>1, <2>0, <2>3, <3>1, <3>2 DEF ForgetInv
    <3> QED BY <2>1, <2>3, <3>1, <3>3
  <2> QED
    BY <1>10, <2>4, <2>5, <2>6, <2>7, <2>8, <2>9, <2>10, <2>11, <2>12 DEF Agent
<1>11. CASE UNCHANGED vars
  BY <1>1, <1>2, <1>11 DEF vars, kernelVars, rbVars, Running
<1> QED
  BY <1>3, <1>4, <1>5, <1>6, <1>7, <1>8, <1>9, <1>10, <1>11 DEF Next, Kernel

(* While no exit is lost, the table forgets the processes of containers: what
   it holds of a pid that does not run is the host's, or its exit is under
   way to the handler.                                                       *)
THEOREM GoneIsForgotten == Spec => []ContainersAreForgotten
<1> DEFINE IInv == TypeInv /\ FamilyInv /\ ForgetInv
<1>1. Init => IInv
  BY InitTypes, InitFamily, InitForget, PidsAssumption
<1>2. IInv /\ [Next]_vars => IInv'
  BY NextTypes, NextFamily, NextForget, PidsAssumption
<1>3. IInv => ContainersAreForgotten
  BY DEF ForgetInv, Gone, ContainersAreForgotten
<1> QED BY <1>1, <1>2, <1>3, PTL DEF Spec

(***************************************************************************)
(* Nothing is attributed to a stranger.                                    *)
(***************************************************************************)

(* A new event makes nothing usable that was not. *)
LEMMA UsedAfterReport ==
  ASSUME Processes, Buffer, NEW q \in Pids, NEW kind \in {"exec", "exit"},
         Report(Event(kind, q))
  PROVE  \A p \in Pids, i \in 0..Len(rb) : Used(p, i)' => Used(p, i)
<1> SUFFICES ASSUME NEW p \in Pids, NEW i \in 0..Len(rb), Used(p, i)', ExitFollows(i, p)
             PROVE  Used(p, i)
  BY DEF Used
<1>1. Len(rb) \in Nat /\ i \in Nat
  BY DEF Buffer
<1>2. ExitFollows(i, p)'
  BY <1>1, AfterReport
<1>3. PICK j \in (i + 1)..Len(rb') :
        /\ rb'[j].kind = "exec" /\ rb'[j].ppid = p
        /\ \A k \in (i + 1)..(j - 1) : ~(rb'[k].kind = "exit" /\ rb'[k].pid = p)
  BY <1>2 DEF Used
<1>4. \A k \in 1..Len(rb) : rb'[k] = rb[k]
  BY AfterReport
<1>5. CASE j \in 1..Len(rb)
  BY <1>1, <1>3, <1>4, <1>5 DEF Used
<1>6. CASE j \notin 1..Len(rb)
  <2>1. j \in 1..Len(rb')
    BY <1>1, <1>3
  <2>2. j = Len(rb) + 1
    BY <1>6, <2>1, AfterReport
  <2>3. \A k \in (i + 1)..Len(rb) : ~(rb[k].kind = "exit" /\ rb[k].pid = p)
    BY <1>1, <1>3, <1>4, <2>2
  <2> QED BY <2>3 DEF ExitFollows
<1> QED BY <1>5, <1>6

(* Once the first event is handled, what may be used is what might be used
   after it; that is already so before, unless it is the process's exit; and
   the parent that an exec event names may be used.                          *)
LEMMA UsedAfterConsume ==
  ASSUME Buffer, rb # << >>, Consume
  PROVE  /\ \A p \in Pids, i \in Nat : Used(p, i)' => Used(p, i + 1)
         /\ \A p \in Pids : Used(p, 1) => Used(p, 0) \/ (Head(rb).kind = "exit" /\ Head(rb).pid = p)
         /\ \A p \in Pids : Head(rb).kind = "exec" /\ Head(rb).ppid = p => Used(p, 0)
<1>1. /\ Len(rb) \in Nat /\ Head(rb) = rb[1] /\ 1 \in 1..Len(rb) /\ Len(rb') = Len(rb) - 1
      /\ \A i \in 1..Len(rb') : rb'[i] = rb[i + 1]
  BY AfterConsume DEF Buffer
<1>2. ASSUME NEW p \in Pids, NEW i \in Nat, Used(p, i)' PROVE Used(p, i + 1)
  <2>1. CASE ~ExitFollows(i, p)'
    BY <2>1, AfterConsume DEF Used
  <2>2. CASE ExitFollows(i, p)'
    <3>1. PICK j \in (i + 1)..Len(rb') :
            /\ rb'[j].kind = "exec" /\ rb'[j].ppid = p
            /\ \A k \in (i + 1)..(j - 1) : ~(rb'[k].kind = "exit" /\ rb'[k].pid = p)
      BY <1>2, <2>2 DEF Used
    <3>2. j + 1 \in (i + 1 + 1)..Len(rb) /\ rb[j + 1] = rb'[j]
      BY <1>1, <3>1
    <3>3. ASSUME NEW k \in (i + 1 + 1)..(j + 1 - 1) PROVE ~(rb[k].kind = "exit" /\ rb[k].pid = p)
      <4>1. k - 1 \in (i + 1)..(j - 1) /\ k - 1 \in 1..Len(rb') /\ k - 1 + 1 = k
        BY <1>1, <3>1
      <4> QED BY <1>1, <3>1, <4>1
    <3> QED BY <3>1, <3>2, <3>3 DEF Used
  <2> QED BY <2>1, <2>2
<1>3. ASSUME NEW p \in Pids, Used(p, 1), ~(Head(rb).kind = "exit" /\ Head(rb).pid = p)
      PROVE  Used(p, 0)
  <2>1. CASE ~ExitFollows(1, p)
    BY <1>3, <2>1, AfterConsume DEF Used
  <2>2. CASE ExitFollows(1, p)
    <3>1. PICK j \in 2..Len(rb) :
            /\ rb[j].kind = "exec" /\ rb[j].ppid = p
            /\ \A k \in 2..(j - 1) : ~(rb[k].kind = "exit" /\ rb[k].pid = p)
      BY <1>3, <2>2 DEF Used
    <3>2. \A k \in 1..(j - 1) : k = 1 \/ k \in 2..(j - 1)
      BY <3>1
    <3>3. \A k \in 1..(j - 1) : ~(rb[k].kind = "exit" /\ rb[k].pid = p)
      BY <1>1, <1>3, <3>1, <3>2
    <3> QED BY <1>1, <3>1, <3>3 DEF Used
  <2> QED BY <2>1, <2>2
<1>4. ASSUME NEW p \in Pids, Head(rb).kind = "exec", Head(rb).ppid = p PROVE Used(p, 0)
  BY <1>1, <1>4 DEF Used
<1> QED BY <1>2, <1>3, <1>4

(* A pid is used again only when nothing of its last process is to be used. *)
LEMMA NotUsedAgain ==
  ASSUME TypeInv, NEW q \in Pids, ~Outlived(q)
  PROVE  /\ q \in Known \/ ev.pid = q => ~Used(q, 0)
         /\ \A i \in 1..Len(rb) : IsExec(i, q) => ~Used(q, i)
         /\ \A i \in 1..Len(rb) : rb[i].kind = "exec" => rb[i].ppid # q
         /\ \A c \in Containers : <<q, c>> \notin top
<1>1. Len(rb) \in Nat
  BY DEF TypeInv, Buffer
<1>2. \A i \in 1..Len(rb) : rb[i].kind = "exec" => rb[i].ppid # q
  BY DEF Outlived, NamedAsParent
<1>3. \A i \in Nat : ExitFollows(i, q) => ~Used(q, i)
  BY <1>1, <1>2 DEF Used
<1>4. q \in Known \/ ev.pid = q => ExitFollows(0, q)
  BY Pending DEF Outlived
<1>5. \A i \in 1..Len(rb) : IsExec(i, q) => ExitFollows(i, q)
  BY DEF Outlived, IsExec
<1> QED BY <1>1, <1>2, <1>3, <1>4, <1>5 DEF Outlived

(* The table is empty at the start, so that nothing in it is wrong. *)
LEMMA InitRight == Init => RightInv
<1> SUFFICES ASSUME Init PROVE RightInv
  OBVIOUS
<1>1. rb = << >> /\ top = {} /\ ev = IdleEvent /\ Known = {}
  BY DEF Init, Known
<1> QED BY <1>1 DEF RightInv, TableIsRight, CopyIsRight, QueueIsRight, ListIsRight

(* It holds after a step that leaves the table and the containers alone, when
   nothing becomes usable and a new exec event is right.                     *)
LEMMA KernelRight ==
  ASSUME RightInv, Handler, UNCHANGED handlerVars, ct' = ct, mistaken' = mistaken,
         Len(rb) \in Nat, Len(rb') \in Nat,
         \A i \in 1..Len(rb) : rb'[i] = rb[i],
         \A p \in Pids, i \in 0..Len(rb) : Used(p, i)' => Used(p, i),
         \A p \in Pids, i \in 1..Len(rb') :
           i \notin 1..Len(rb) /\ IsExec(i, p)' => ct[rb'[i].ppid] \in {Host, ct[p]}
  PROVE  RightInv'
<1> SUFFICES ASSUME ~mistaken PROVE RightInv'
  BY DEF RightInv
<1>1. info_map' = info_map /\ top' = top /\ ev' = ev /\ Known' = Known /\ pp_info' = pp_info
      /\ Known \subseteq Pids
  BY DEF handlerVars, Known, Handler, IsTable
<1>2. TableIsRight'
  BY <1>1 DEF RightInv, TableIsRight
<1>3. CopyIsRight'
  BY <1>1 DEF RightInv, CopyIsRight
<1>4. ListIsRight'
  BY <1>1 DEF RightInv, ListIsRight
<1>5. ASSUME NEW p \in Pids, NEW i \in 1..Len(rb'), IsExec(i, p)', Used(p, i)'
      PROVE  ct'[rb'[i].ppid] \in {Host, ct'[p]}
  <2>1. CASE i \in 1..Len(rb)
    <3>1. IsExec(i, p) /\ Used(p, i) /\ rb'[i] = rb[i]
      BY <1>5, <2>1 DEF IsExec
    <3> QED BY <2>1, <3>1 DEF RightInv, QueueIsRight
  <2>2. CASE i \notin 1..Len(rb)
    BY <1>5, <2>2
  <2> QED BY <2>1, <2>2
<1>6. QueueIsRight'
  BY <1>5 DEF QueueIsRight
<1> QED BY <1>2, <1>3, <1>4, <1>6 DEF RightInv

(* Handling the first event, with the containers as they are: what is said of
   the events left, and whom an exec event may give its parent's container.  *)
LEMMA ConsumeRight ==
  ASSUME RightInv, ~mistaken, Buffer, rb # << >>, Consume, ct' = ct
  PROVE  /\ QueueIsRight'
         /\ \A p \in Pids : Used(p, 0)' => Used(p, 0) \/ (Head(rb).kind = "exit" /\ Head(rb).pid = p)
         /\ \A p \in Pids, r \in Pids :
              /\ Head(rb).kind = "exec" /\ Head(rb).pid = p /\ Head(rb).ppid = r
              /\ r \in Known /\ Used(p, 0)'
              => info_map[r].info \in {Host, ct[p]}
<1>1. /\ Len(rb) \in Nat /\ Head(rb) = rb[1] /\ 1 \in 1..Len(rb) /\ Len(rb') = Len(rb) - 1
      /\ \A i \in 1..Len(rb') : i + 1 \in 1..Len(rb) /\ rb'[i] = rb[i + 1]
  BY AfterConsume DEF Buffer
<1>2. \A p \in Pids, i \in Nat : Used(p, i)' => Used(p, i + 1)
  BY UsedAfterConsume
<1>3. ASSUME NEW p \in Pids, NEW i \in 1..Len(rb'), IsExec(i, p)', Used(p, i)'
      PROVE  ct'[rb'[i].ppid] \in {Host, ct'[p]}
  <2>1. i + 1 \in 1..Len(rb) /\ rb'[i] = rb[i + 1] /\ IsExec(i + 1, p)
    BY <1>1, <1>3 DEF IsExec
  <2>2. Used(p, i + 1)
    BY <1>1, <1>2, <1>3
  <2> QED BY <2>1, <2>2 DEF RightInv, QueueIsRight
<1>4. QueueIsRight'
  BY <1>3 DEF QueueIsRight
<1>5. \A p \in Pids : Used(p, 0)' => Used(p, 0) \/ (Head(rb).kind = "exit" /\ Head(rb).pid = p)
  BY <1>2, UsedAfterConsume
<1>6. ASSUME NEW p \in Pids, NEW r \in Pids,
             Head(rb).kind = "exec" /\ Head(rb).pid = p /\ Head(rb).ppid = r,
             r \in Known, Used(p, 0)'
      PROVE  info_map[r].info \in {Host, ct[p]}
  <2>1. IsExec(1, p) /\ Used(p, 1) /\ rb[1].ppid = r
    BY <1>1, <1>2, <1>6 DEF IsExec
  <2>2. ct[r] \in {Host, ct[p]}
    BY <1>1, <2>1 DEF RightInv, QueueIsRight
  <2>3. info_map[r].info \in {Host, ct[r]}
    BY <1>6, UsedAfterConsume DEF RightInv, TableIsRight
  <2> QED BY <2>2, <2>3
<1> QED BY <1>4, <1>5, <1>6

(* Every step keeps it. *)
LEMMA NextRight ==
  PidsAssumption /\ TypeInv /\ FamilyInv /\ RightInv /\ [Next]_vars => RightInv'
<1> SUFFICES ASSUME PidsAssumption, TypeInv, FamilyInv, RightInv, [Next]_vars PROVE RightInv'
  OBVIOUS
<1>1. /\ Processes /\ Buffer /\ Handler /\ Len(rb) \in Nat /\ IsTable(info_map) /\ Known \subseteq Pids
      /\ Len(rb') \in Nat /\ rb \in Seq(Events)
  <2>1. TypeInv'
    BY NextTypes
  <2> QED BY <2>1 DEF TypeInv, Handler, Buffer, IsTable, Known
<1>2. ASSUME UNCHANGED rb, UNCHANGED handlerVars, ct' = ct, mistaken' = mistaken
      PROVE  RightInv'
  <2>1. \A p \in Pids, i \in 0..Len(rb) : Used(p, i)' => Used(p, i)
    BY <1>2 DEF Used, ExitFollows
  <2> QED BY <1>1, <1>2, <2>1, KernelRight
<1>3. ASSUME NEW p \in Pids, NEW q \in Pids, Fork(p, q) PROVE RightInv'
  <2> SUFFICES ASSUME ~mistaken' PROVE RightInv'
    BY DEF RightInv
  <2>1. ~mistaken /\ ~Outlived(q) /\ rb' = rb /\ UNCHANGED handlerVars
        /\ \A x \in Pids : x # q => ct'[x] = ct[x]
    BY <1>1, <1>3 DEF Fork, rbVars, Processes
  <2>2. /\ info_map' = info_map /\ top' = top /\ ev' = ev /\ Known' = Known /\ pp_info' = pp_info
        /\ \A x \in Pids, i \in Nat : Used(x, i)' <=> Used(x, i)
        /\ \A x \in Pids, i \in Nat : IsExec(i, x)' <=> IsExec(i, x)
    BY <2>1 DEF handlerVars, Known, Used, ExitFollows, IsExec
  <2>3. TableIsRight'
    BY <1>1, <2>1, <2>2, NotUsedAgain DEF RightInv, TableIsRight
  <2>4. CopyIsRight'
    BY <2>1, <2>2, NotUsedAgain DEF RightInv, CopyIsRight
  <2>5. ASSUME NEW x \in Pids, NEW i \in 1..Len(rb), IsExec(i, x), Used(x, i)
        PROVE  ct'[rb[i].ppid] \in {Host, ct'[x]}
    <3>1. rb[i].ppid \in Pids
      <4>1. rb[i] \in Events
        BY <1>1
      <4> QED BY <4>1 DEF Events
    <3>2. x # q /\ rb[i].ppid # q
      BY <2>1, <2>5, NotUsedAgain DEF IsExec
    <3>3. ct[rb[i].ppid] \in {Host, ct[x]}
      BY <2>1, <2>5 DEF RightInv, QueueIsRight
    <3> QED BY <2>1, <3>1, <3>2, <3>3
  <2>6. QueueIsRight'
    BY <1>1, <2>1, <2>2, <2>5 DEF QueueIsRight
  <2>7. ListIsRight'
    BY <2>1, <2>2, NotUsedAgain DEF RightInv, ListIsRight
  <2> QED BY <2>3, <2>4, <2>6, <2>7 DEF RightInv
<1>4. ASSUME NEW p \in Pids, NEW c \in Containers, Enter(p, c) PROVE RightInv'
  <2> SUFFICES ASSUME ~mistaken' PROVE RightInv'
    BY DEF RightInv
  <2>1. /\ ~mistaken /\ ~NamedAsParent(p) /\ rb' = rb /\ UNCHANGED handlerVars
        /\ ct[p] = Host /\ \A x \in Pids : x # p => ct'[x] = ct[x]
    BY <1>1, <1>4 DEF Enter, rbVars, Processes
  <2>2. /\ info_map' = info_map /\ top' = top /\ ev' = ev /\ Known' = Known /\ pp_info' = pp_info
        /\ \A x \in Pids, i \in Nat : Used(x, i)' <=> Used(x, i)
        /\ \A x \in Pids, i \in Nat : IsExec(i, x)' <=> IsExec(i, x)
    BY <2>1 DEF handlerVars, Known, Used, ExitFollows, IsExec
  <2>3. TableIsRight'
    BY <1>1, <2>1, <2>2 DEF RightInv, TableIsRight
  <2>4. CopyIsRight'
    BY <2>1, <2>2 DEF RightInv, CopyIsRight
  <2>5. ASSUME NEW x \in Pids, NEW i \in 1..Len(rb), IsExec(i, x), Used(x, i)
        PROVE  ct'[rb[i].ppid] \in {Host, ct'[x]}
    <3>1. rb[i].ppid \in Pids
      <4>1. rb[i] \in Events
        BY <1>1
      <4> QED BY <4>1 DEF Events
    <3>2. rb[i].ppid # p
      BY <2>1, <2>5 DEF IsExec, NamedAsParent
    <3>3. ct[rb[i].ppid] \in {Host, ct[x]}
      BY <2>1, <2>5 DEF RightInv, QueueIsRight
    <3> QED BY <2>1, <3>1, <3>2, <3>3
  <2>6. QueueIsRight'
    BY <1>1, <2>1, <2>2, <2>5 DEF QueueIsRight
  <2>7. \A d \in Containers : <<p, d>> \notin top
    <3>1. Host \notin Containers
      BY DEF PidsAssumption
    <3> QED BY <2>1, <3>1 DEF RightInv, ListIsRight
  <2>8. ListIsRight'
    BY <2>1, <2>2, <2>7 DEF RightInv, ListIsRight
  <2> QED BY <2>3, <2>4, <2>6, <2>8 DEF RightInv
<1>5. ASSUME NEW p \in Pids, Exec(p) PROVE RightInv'
  <2>1. /\ Report(Event("exec", p)) /\ UNCHANGED handlerVars /\ ct' = ct /\ mistaken' = mistaken
        /\ Running(p)
    BY <1>5 DEF Exec, kernelVars
  <2>2. Event("exec", p).pid = p /\ Event("exec", p).ppid = parent[p]
    BY DEF Event
  <2>3. ct[parent[p]] \in {Host, ct[p]}
    BY <1>1, <2>1 DEF FamilyInv, Running, Processes
  <2>4. /\ \A q \in Pids, i \in 0..Len(rb) : Used(q, i)' => Used(q, i)
        /\ \A i \in 1..Len(rb) : rb'[i] = rb[i]
        /\ \A i \in 1..Len(rb') : i \notin 1..Len(rb) => rb'[i] = Event("exec", p)
    BY <1>1, <2>1, UsedAfterReport, AfterReport
  <2>5. \A q \in Pids, i \in 1..Len(rb') :
          i \notin 1..Len(rb) /\ IsExec(i, q)' => ct[rb'[i].ppid] \in {Host, ct[q]}
    BY <2>2, <2>3, <2>4 DEF IsExec
  <2> QED BY <1>1, <2>1, <2>4, <2>5, KernelRight
<1>6. ASSUME NEW p \in Pids, Exit(p) PROVE RightInv'
  <2>1. Report(Event("exit", p)) /\ UNCHANGED handlerVars /\ ct' = ct /\ mistaken' = mistaken
    BY <1>6 DEF Exit
  <2>2. Event("exit", p).kind = "exit"
    BY DEF Event
  <2>3. /\ \A q \in Pids, i \in 0..Len(rb) : Used(q, i)' => Used(q, i)
        /\ \A i \in 1..Len(rb) : rb'[i] = rb[i]
        /\ \A i \in 1..Len(rb') : i \notin 1..Len(rb) => rb'[i] = Event("exit", p)
    BY <1>1, <2>1, UsedAfterReport, AfterReport
  <2>4. \A q \in Pids, i \in 1..Len(rb') :
          i \notin 1..Len(rb) /\ IsExec(i, q)' => ct[rb'[i].ppid] \in {Host, ct[q]}
    BY <2>2, <2>3 DEF IsExec
  <2> QED BY <1>1, <2>1, <2>3, <2>4, KernelRight
<1>7. ASSUME NEW p \in Pids, Release(p) \/ Unshare(p) PROVE RightInv'
  BY <1>2, <1>7 DEF Release, Unshare, rbVars
<1>8. ASSUME NEW c \in Containers, DockerLists(c) PROVE RightInv'
  BY <1>2, <1>8 DEF DockerLists, rbVars
<1>9. CASE Agent
  <2> SUFFICES ASSUME ~mistaken' PROVE RightInv'
    BY DEF RightInv
  <2>0. UNCHANGED kernelVars
    <3>1. Init1 \in Pids
      BY DEF PidsAssumption
    <3> QED
      BY <1>9, <3>1 DEF Agent, GetAllProcessInfo, Attach, ListAllContainers, UpdateThrows,
        ListAllProcesses, EnterProcess, HandleExit, HandleKnown, HandleChild,
        HandleOtherNamespace, FinishOtherNamespace, HandleUnknown
  <2>1. ct' = ct /\ ~mistaken
    BY <2>0 DEF kernelVars
  <2>2. TableIsRight' /\ CopyIsRight' /\ QueueIsRight' /\ ListIsRight' => RightInv'
    BY DEF RightInv
  <2>3. ASSUME rb' = rb
        PROVE  QueueIsRight' /\ \A p \in Pids : Used(p, 0)' <=> Used(p, 0)
    BY <2>1, <2>3 DEF RightInv, QueueIsRight, Used, ExitFollows, IsExec
  <2>4. ASSUME NEW kind \in {"exec", "exit"}, Take(kind), Consume
        PROVE  /\ QueueIsRight' /\ Head(rb).kind = kind /\ top = {} /\ ev = IdleEvent
               /\ Head(rb).pid \in Pids /\ Head(rb).ppid \in Pids
               /\ \A p \in Pids : Used(p, 0)' => Used(p, 0) \/ (kind = "exit" /\ Head(rb).pid = p)
               /\ kind = "exec" /\ Head(rb).ppid \in Known =>
                    \A p \in Pids : Head(rb).pid = p /\ Used(p, 0)' =>
                      info_map[Head(rb).ppid].info \in {Host, ct[p]}
    <3>1. Head(rb) \in Events
      BY <1>1, <2>4 DEF Take
    <3>2. Head(rb).pid \in Pids /\ Head(rb).ppid \in Pids
      BY <3>1 DEF Events
    <3> QED BY <1>1, <2>1, <2>4, <3>2, ConsumeRight DEF Take, Handler
  <2>5. top' = {} => ListIsRight'
    BY DEF ListIsRight
  <2>6. ev' = IdleEvent => CopyIsRight'
    BY DEF CopyIsRight
  <2> USE DEF Known
  <2>7. CASE GetAllProcessInfo
    <3>1. rb' = rb /\ top' = {} /\ ev' = IdleEvent /\ \A p \in Known' : info_map'[p].info = Host
      BY <1>1, <2>7 DEF GetAllProcessInfo, rbVars, Data, Handler
    <3> QED BY <2>2, <2>3, <2>5, <2>6, <3>1 DEF TableIsRight
  <2>8. CASE Attach \/ UpdateThrows \/ ListAllContainers
    <3>1. /\ rb' = rb /\ info_map' = info_map /\ pp_info' = pp_info
          /\ (ev' = ev \/ ev' = IdleEvent) /\ (top' = top \/ top' = {})
      BY <2>8 DEF Attach, UpdateThrows, ListAllContainers, rbVars
    <3>2. \A p \in Pids : Used(p, 0)' <=> Used(p, 0)
      BY <2>3, <3>1
    <3>3. TableIsRight' /\ CopyIsRight' /\ ListIsRight'
      BY <1>1, <2>1, <3>1, <3>2 DEF RightInv, TableIsRight, CopyIsRight, ListIsRight
    <3> QED BY <2>2, <2>3, <3>1, <3>3
  <2>9. ASSUME NEW c \in Containers, ListAllProcesses(c) PROVE RightInv'
    <3>1. rb' = rb /\ info_map' = info_map /\ pp_info' = pp_info /\ ev' = ev
      BY <2>9 DEF ListAllProcesses, rbVars
    <3>2. \A p \in Pids : Used(p, 0)' <=> Used(p, 0)
      BY <2>3, <3>1
    <3>3. TableIsRight' /\ CopyIsRight'
      BY <1>1, <2>1, <3>1, <3>2 DEF RightInv, TableIsRight, CopyIsRight
    <3>4. ListIsRight'
      BY <2>1, <2>9 DEF ListAllProcesses, Inside, Leaving, ListIsRight
    <3> QED BY <2>2, <2>3, <3>1, <3>3, <3>4
  <2>10. ASSUME NEW p \in Pids, NEW c \in Containers, EnterProcess(p, c) PROVE RightInv'
    <3>1. rb' = rb /\ top' \subseteq top /\ pp_info' = pp_info /\ ev' = ev /\ ct[p] = c
      BY <2>1, <2>10 DEF EnterProcess, rbVars, RightInv, ListIsRight
    <3>2. \A q \in Pids : Used(q, 0)' <=> Used(q, 0)
      BY <2>3, <3>1
    <3>3. \A q \in Known' : \/ q = p /\ info_map'[q].info = c
                            \/ q \in Known /\ info_map'[q] = info_map[q]
      BY <2>10 DEF EnterProcess, Insert, Data
    <3>4. TableIsRight'
      BY <1>1, <2>1, <3>1, <3>2, <3>3 DEF RightInv, TableIsRight
    <3>5. CopyIsRight' /\ ListIsRight'
      BY <2>1, <3>1, <3>2 DEF RightInv, CopyIsRight, ListIsRight
    <3> QED BY <2>2, <2>3, <3>1, <3>4, <3>5
  <2>11. CASE HandleExit
    <3>1. Take("exit") /\ Consume /\ top' = top /\ ev' = ev
      BY <2>11 DEF HandleExit
    <3>2. \A q \in Known' : q # Head(rb).pid /\ q \in Known /\ info_map'[q] = info_map[q]
      BY <2>11 DEF HandleExit, Remove
    <3>3. TableIsRight'
      BY <1>1, <2>1, <2>4, <3>1, <3>2 DEF RightInv, TableIsRight
    <3> QED BY <2>2, <2>4, <2>5, <2>6, <3>1, <3>3
  <2>12. CASE HandleKnown
    <3>1. Take("exec") /\ Consume /\ top' = top /\ ev' = ev
      BY <2>12 DEF HandleKnown
    <3>2. \A q \in Known' : q \in Known /\ info_map'[q].info = info_map[q].info
      BY <2>12 DEF HandleKnown, Insert, Data
    <3>3. TableIsRight'
      BY <1>1, <2>1, <2>4, <3>1, <3>2 DEF RightInv, TableIsRight
    <3> QED BY <2>2, <2>4, <2>5, <2>6, <3>1, <3>3
  <2>13. CASE HandleChild
    <3>1. Take("exec") /\ Consume /\ top' = top /\ ev' = ev /\ Head(rb).ppid \in Known
      BY <2>13 DEF HandleChild
    <3>2. \A q \in Known' : \/ q = Head(rb).pid /\ info_map'[q].info = info_map[Head(rb).ppid].info
                            \/ q \in Known /\ info_map'[q] = info_map[q]
      BY <2>13 DEF HandleChild, Insert, Data
    <3>3. TableIsRight'
      BY <1>1, <2>1, <2>4, <3>1, <3>2 DEF RightInv, TableIsRight
    <3> QED BY <2>2, <2>4, <2>5, <2>6, <3>1, <3>3
  <2>14. CASE HandleOtherNamespace
    <3>1. /\ Take("exec") /\ Consume /\ top' = top /\ Head(rb).ppid \in Known
          /\ ev' = Head(rb) /\ pp_info' = info_map[Head(rb).ppid] /\ info_map' = info_map
      BY <2>14 DEF HandleOtherNamespace
    <3>2. TableIsRight'
      BY <1>1, <2>1, <2>4, <3>1 DEF RightInv, TableIsRight
    <3>3. CopyIsRight'
      BY <2>1, <2>4, <3>1 DEF CopyIsRight
    <3> QED BY <2>2, <2>4, <2>5, <3>1, <3>2, <3>3
  <2>15. CASE FinishOtherNamespace
    <3>1. rb' = rb /\ top' = {} /\ ev' = IdleEvent /\ ev # IdleEvent /\ ev.pid \in Pids
      BY <1>1, <2>15 DEF FinishOtherNamespace, rbVars, Updated, Handler, Events
    <3>2. \A q \in Pids : Used(q, 0)' <=> Used(q, 0)
      BY <2>3, <3>1
    <3>3. \A q \in Known' : \/ q = ev.pid /\ info_map'[q].info = pp_info.info
                            \/ q \in Known /\ info_map'[q] = info_map[q]
      BY <2>15 DEF FinishOtherNamespace, Insert, Data
    <3>4. TableIsRight'
      BY <1>1, <2>1, <3>1, <3>2, <3>3 DEF RightInv, TableIsRight, CopyIsRight
    <3> QED BY <2>2, <2>3, <2>5, <2>6, <3>1, <3>4
  <2>16. CASE HandleUnknown
    <3>1. Take("exec") /\ Consume /\ top' = top /\ ev' = ev
      BY <2>16 DEF HandleUnknown
    <3>2. \A q \in Known' : info_map'[q].info = Host \/ (q \in Known /\ info_map'[q] = info_map[q])
      BY <2>16 DEF HandleUnknown, Insert, Data
    <3>3. TableIsRight'
      BY <1>1, <2>1, <2>4, <3>1, <3>2 DEF RightInv, TableIsRight
    <3> QED BY <2>2, <2>4, <2>5, <2>6, <3>1, <3>3
  <2> QED
    BY <1>9, <2>7, <2>8, <2>9, <2>10, <2>11, <2>12, <2>13, <2>14, <2>15, <2>16 DEF Agent
<1>10. CASE UNCHANGED vars
  BY <1>2, <1>10 DEF vars, kernelVars, rbVars
<1> QED
  BY <1>3, <1>4, <1>5, <1>6, <1>7, <1>8, <1>9, <1>10 DEF Next, Kernel

(* The table never puts a live process in a container it is not in, with the
   exceptions the property names: whatever order execs, exits, forks and
   dockerd's answers come in, the copy made of a parent's entry is of the
   parent the exec event meant.                                              *)
THEOREM NothingMisattributed == Spec => []NeverWrongContainer
<1> DEFINE IInv == TypeInv /\ FamilyInv /\ RightInv
<1>1. Init => IInv
  BY InitTypes, InitFamily, InitRight, PidsAssumption
<1>2. IInv /\ [Next]_vars => IInv'
  BY NextTypes, NextFamily, NextRight, PidsAssumption
<1>3. IInv => NeverWrongContainer
  BY Pending DEF RightInv, TableIsRight, Used, TypeInv, Handler, IsTable, Known, NeverWrongContainer
<1> QED BY <1>1, <1>2, <1>3, PTL DEF Spec
=============================================================================
