# A verification development for the eBPF container-monitoring agent

The repository holds two programs.

* **The agent** (`src/src`, `src/include/agent`, `src/bpftools`; paths here are those of the
  repository, so `src/agent_core.cpp` is its `src/` directory): a C++ daemon that starts and stops
  *trackers*. A tracker is a BPF program with a thread that reads the program's events and passes
  them through a chain of handlers. A container manager, fed by one of those trackers, keeps a
  table of which process is in which container. An HTTP server lets clients start, stop and list
  trackers.
* **The XDP firewall** (`goebpf`): an XDP program in C that limits the packets of each source and
  to each port, and a controller in Go that fills its maps and offers the operator a menu.

The modules here model the core of both and two of the BPF tracers the agent loads (system calls
and memory leaks). The configurations check them with TLC on small instances, and the modules
`*_proofs` prove the safety properties of the passing runs for instances of every size. `PROJECT.json` maps
every definition to the lines it translates.

```
tlasany AgentServer.tla                                  # parse
tlc -workers 2 -config AgentServer.cfg MCAgentServer     # model-check a run
tlapm AgentServer_proofs.tla                             # check the proofs
```

## 1. Inventory

| component | state | operations | what is hard |
|---|---|---|---|
| agent server (`src/http_server.cpp`) | `seq_mutex`, the `agent_core` it refers to | `/start`, `/stop`, `/list`, each under the mutex; `serve` boots first | httplib's worker threads; exceptions half-way; a join under the mutex |
| agent core (`src/agent_core.cpp`) | configuration, the tracker manager, optional container manager, analyzer, prometheus server | boot (`start_agent`), `create_default_tracker_with_handler`, `stop_tracker`, exit | boot that throws; null trackers reported as ok; members destroyed in reverse order |
| tracker manager (`include/agent/tracker_manager.h`) | `id_count`, map `trackers` | `start_tracker`, `remove_tracker`, `get_tracker_list` | no lock of its own; the thread runs before the map owns the tracker |
| tracker threads (`include/agent/model/tracker.h`, `bpftools/*/`*`_tracker.h`) | the flag `exiting`, the `jthread` | set-up, poll loop, `stop_tracker` | the object dies while its thread runs in it |
| standalone trackers (`src/tracker_alone.cpp`) | pipe, `child_pid`, a buffer of 4 MB, the child process | `start_tracker`, the read loop, the destructor | two readers of a pipe, inherited descriptors, descriptor reuse, uninitialised members |
| container manager (`src/container.cpp`) | the table pid -> (namespaces, container) | `init`, `update_container_map_data`, `handle` of exec and exit events | events are late; dockerd's answers are of another instant; pids are reused; the ring buffer overflows |
| process tracing (`bpftools/process/process.bpf.c`) | `exec_start`, the ring buffer | `handle_exec`, `handle_exit` | a full buffer, the pid filter |
| XDP program (`goebpf/ebpf_prog/xdp_fw.c`) | the blacklists, counters, limits, ARP table, packet counters | `firewall`, per packet and CPU | map operations of several CPUs interleave; windows and blocks in time |
| XDP controller (`goebpf/main.go`) | the configuration, copies of it, the maps | fill, attach, the menu, detach | the program changes the same maps between a lookup and a delete; an upsert is two steps; `fatalError` skips `Detach` |
| handler chain (`include/agent/model/event_handler.h`) | a linked list of handlers | `add_handler`, `do_handle_event` | a handler that throws hides the event from the rest |
| security analyzer (`src/sec_analyzer.cpp`) | rules and their counts | `check_rule`, `report_event` | who owns it at the exit; events that never reach it |
| configuration (`src/config.cpp`, `src/main.cpp`), prometheus, seccomp filter, hot update | files, options | parsing, start | the order in which options become handlers; otherwise input and output |
| system calls (`bpftools/syscall`) | the table pid -> calls reported, the ring buffer | `sys_enter` on every CPU, the poll loop | several CPUs on one entry; a pid that is reused; a full table or buffer |
| memory leaks (`bpftools/memleak`) | sizes noted at entries, allocations, statistics per stack | the probes on the allocator, the report | entries matched with exits; statistics shared by threads; a map read while it changes |
| TCP, file access (`bpftools/{tcpconnect,files}`) | BPF maps | entry and exit probes, counters | the same in simpler form |

How they interact. `serve` calls `start_agent`, which starts the configured trackers, and then
listens; a handler of the server calls `agent_core`, which calls the tracker manager, which owns
the trackers; each tracker has one thread, which calls the tracker's handler chain; the chain of
the process tracker begins with the container manager's handler, and every other chain may ask the
container manager or the analyzer. The standalone trackers add a child process each. The BPF
programs run on whatever CPU or thread meets their hook and share maps with each other and with
the tracker's thread. The XDP program and its controller share only BPF maps.

What would make them correct: a tracker that exists is owned once and its thread is joined before
it goes; an id is given once and answered truly; a control request takes effect at one instant; a
stop ends; messages reach the handler of their own tracker, whole and in order; no child, thread or
descriptor is left behind; the container table does not attribute processes to strangers and
forgets the dead; a call that a security rule names is not missed; an exit ends and leaves nothing
running; what the leak tracer says of memory is what the allocator did; the limits of the
firewall hold in every second, also while they are edited; a block lasts its time and a ban for good.
`PROJECT.json` lists every hazard of the code at its line with the properties that watch it.

## 2. Modules

```
TrackerRegistry            what the control API promises (abstract)
      ^ refinement
AgentServer --EXTENDS--> TrackerManager          MCAgentServer, AgentServer_proofs
TrackerAlone               standalone trackers   MCTrackerAlone, TrackerAlone_proofs
ContainerTracking          container manager, process.bpf.c, kernel, dockerd
                                                 MCContainerTracking, ContainerTracking_proofs
SyscallTrace <--EXTENDS-- HandlerChain <--EXTENDS-- AgentExit
                           the tracer in the kernel, the agent's handlers, its start and exit
                                                 MCAgentExit, AgentExit_proofs
MemLeak                    the leak tracer and the allocator it watches
                                                 MCMemLeak, MemLeak_proofs, SumTheorems
XdpFirewall <--EXTENDS-- XdpControl
                           the XDP program, its controller
                                                 MCXdp, XdpControl_proofs
```
An `MC` module gives the constants their values for TLC; a `_proofs` module has the theorems.

### TrackerRegistry, TrackerManager, AgentServer

`TrackerManager` holds the map and the tracker threads: `id_count`, `trackers`, and for each
address at which a tracker can be allocated the state of object and thread (`thread`) and its flag
(`exiting`). An address is reused after the object is freed, so a flag left up by the constructor
would be seen by the next tracker there. `ThreadStep` is the code of
`process_tracker.h:109-187`: set-up that can fail at each libbpf call, the test of the flag, the
poll of 100 ms.

`AgentServer` adds the callers: the main thread, which boots, and httplib's worker threads. `pc`
says where each is; its values name the points between which another thread can run. A request
goes `idle -> waiting -> start/stop/list/bad -> ... -> reply -> idle`; `owned[c]` is the tracker
in the caller's `unique_ptr` (a start) or in the map node being erased (a stop). Every early
return and exception is an action of its own: an unknown name (`UnknownName`), no handler built, which is
answered ok (`NoHandler`), a constructor or `jthread` that throws (`CreateThrows`,
`LaunchThrows`), a body that does not parse (`BadBody`), a key that is not there
(`EraseNothing`), a boot that throws before the first tracker (`BootFails`). A start takes three steps,
`CreateTracker`, `LaunchThread`, `EmplaceTracker`, because the thread runs before the map knows
of it; a stop takes three, `EraseTracker`, `RaiseExiting` and `JoinThread`; a list walks the map an entry at a
time. A tracker without a thread goes with `DiscardTracker`.

The names the server dispatches are of two kinds. `InProcess` trackers poll a ring buffer in the agent; all
others are standalone and get an address in `Standalone`. Before the flag of a standalone tracker is raised
its destructor cleans up after the child, which `TrackerAlone` shows may not end: `CleaningUp` is that
place, and nothing is assumed about leaving it. Nor is anything assumed about a poll (or a pipe's `read`) that
has begun (`thread` is `poll`): `ring_buffer__poll` goes on while there are events.
`AsInt` is the conversion of the request's `size_t` to the key's `int`.

`TrackerRegistry` is the promise: a registry that every request reads or changes in one instant
between call and answer. `ImplementsRegistry` maps the map without its trackers to `registry`, `id_count`
to `nextId`, and takes the effect of a stop at the erase, of every other request where its answer
is settled. The mapping is right without atomicity of the steps only because every step is under
`seq_mutex` (the mutant without the mutex breaks it).

### TrackerAlone

`start_tracker` and the read loop of `tracker_alone.cpp` are the thread's actions (`tpc`), the
`std::async` task of `~tracker_alone_base` and `stop_tracker` of its base class are the
destructor's (`dpc`), and the child prints, gives up or obeys the interrupt. A pipe is named by the
tracker that made it; `fds` says which descriptor number the agent has it under, `wr` which write
ends the agent has open and `holds[t]` which write ends each child inherited. `read` is two steps:
what it reads from is fixed when it begins (`TestExiting`, `Drain`), and it returns when there is
data or no writer is left. The buffer `buf` is shared by both readers and keeps what a shorter
message does not overwrite; `got` is `read_bytes`.

The module models the situations the code does not handle, each named in the constant `Hazards`:
stopping a tracker before its thread has forked (`early_stop`), failing `pipe` or `fork`
(`fork_fails`), no handler (`no_handler`), two threads between `pipe` and `close` (`fork_race`),
reuse of a closed descriptor's number (`fd_reuse`). The passing run has `fork_fails` and
`no_handler`; a violation run each shows what `fork_race` and `fd_reuse` do. `child_pid` and
`stdout_pipe_fd` are not initialised by the code: `GarbagePids` and `GarbageFDs` say what they may
hold. The runs take them to name nothing the agent has. With `early_stop` TLC finds `FreedIsClean` violated
within a few steps: the destructor finds no child, and the one forked afterwards outlives its tracker. With
a garbage pid that is another tracker's child `SignalsOnlyItsChild` fails; a pid of 0, which would be the
agent's own process group, is not modelled.

### ContainerTracking

The kernel's actions (fork, exec, exit, release of the pid, entering a container, unsharing a
mount namespace) and dockerd's list are external and can come at any moment. Exec and exit put an
event in the bounded ring buffer, or drop it when it is full. The agent's actions are `init`
(`GetAllProcessInfo`, `ListAllContainers`, `ListAllProcesses`, `EnterProcess`), the attachment of
the BPF programs, and `container_tracking_handler::handle`, one action per branch; the branch that
asks dockerd (`HandleOtherNamespace`) is left with the parent's entry in hand, as in the code, and
completed by `FinishOtherNamespace` after the update's steps. `UpdateThrows` is the parse
exception, which ends `init` or the handling of the event. `CommonOfProc` and `CommonOfEvent` keep a
difference in the code: the BPF program takes the pid namespace at level 0, so it is the host's for
every process, while `/proc` tells the process's own.

`docker top` lists the processes in a container (`Inside`) and may list those that are exiting and not yet
released (`Leaving`).

Two ghosts say when the agent cannot know better. `lost`: an exit was not reported (buffer full, or
programs not attached yet), or it was handled before dockerd listed its process. `mistaken`: a pid got a new process, or a process entered a container, while the agent
still acts on what was before: it holds something of that process that no exit event on its way will
take back (`Outlived`), or an exec event is on its way that names the process as the parent
(`NamedAsParent`), whose entry the handler then copies to the child.

### SyscallTrace, HandlerChain, AgentExit

One system call tracker from the kernel to the alert, in three layers.

`SyscallTrace` is `sys_enter` of `syscall.bpf.c`, cut where another CPU can run: lookup, test and
event (`Enter`), the empty entry for a pid that has none (`Insert`), the mark (`Mark`). An entry that
is replaced while another CPU holds a pointer to it takes that CPU's mark with it (`lost`).
`Reuse` gives a pid to another process, of which nothing tells the table. The ring buffer and the
table are bounded; what finds no room is dropped, as in the code.

`HandlerChain` is the tracker's thread and its handlers. `Chain` computes the list from the options as
`load_config_options_to_trackers` and `create_default_tracker_with_sec_analyzer` do: the rules
come first, then the handlers of the file, the container handler, prometheus, stdout. `Handle` is one
handler's `handle()` on the event at the head of the buffer; an exception (`to_json().dump()` of a
command name that is not UTF-8) ends the event's way and nothing else. `Unnamed` are the calls
whose number is beyond the table of names or has none: the printers check the number, the prometheus
handler and the rules do not (`ReadsNoName`), and what they read may end the event's way or the
agent. `Uses` says which members of the core a handler touches: the rules touch prometheus only
for an event that matches. The thread's outer loop
(`TestExiting`, `PollEmpty`) tests the flag only when `ring_buffer__poll` has emptied the buffer.

`AgentExit` adds the main thread in the modes without a server: `start_agent` with an
`init()` of the container manager that may throw, `check_auto_exit` (the tracker's thread is at work before
it installs the handler of Ctrl-C), and the destructor of `agent_core`,
one member at a time in the reverse of their order. `owners` is the analyzer's `shared_ptr`, `live`
the members to which handlers only refer. `Interrupt` is Ctrl-C, with and without the handler that
`check_auto_exit` installs and that gives itself up; `Crash` is what a handler may do that finds a dead
member or reads past the table of names. A safe-mode start has the trackers `process`, `files` and `tcpconnect`; the system call
tracker and with it the rules on calls run when the configuration file lists it.

### MemLeak

The probes on `malloc`, `realloc`, `posix_memalign` and `free`, one action per probe and map
operation, on top of an allocator (`heap`, external) that gives and takes addresses. A call is `run`
between its entry probe and its return probe; both probes of a function are attached one after
the other while the traced process runs (`Attach`), so that a return may be seen without its entry and
the other way round. `sizes` carries the size from entry to exit per thread. The statistics per stack
are read (`ReadStat`) and written back (`WriteStat`) in two steps. `malloc` stands for `calloc`, `memalign`,
`valloc`, `pvalloc` and `aligned_alloc`, whose probes do the same; the variable of
`posix_memalign` that is remembered from entry to exit is part of the record `call`, since no other thread
touches it. The report walks the map by `bpf_map_get_next_key`, which begins again from the
first key when the one it is given is gone (`NextKey`), and fills a slot per stack (`AddTo`). The slots are then
sorted by size and the first `Top` of them, `env.top` in the code, are gone through (`Firsts`); for a stack that cannot be
looked up or has no symbols the code prints that it was missed instead of the slot.

Two ghosts say where the tracer cannot be right. `doubtful`: addresses whose allocation had no probe, no
room, no stack or too small a size, a `realloc` that failed after its entry had taken the record
away, and what `posix_memalign` left in its caller's variable where the call failed or the probe could not
read it (`Unread`, which leaves the noted size behind). `inexact`: stacks at whose
statistics two threads were at once, or that lost a record which was overwritten or not stored.

### XdpFirewall, XdpControl

`firewall` is cut at its map operations: look up the blacklists and the counter and read the clock
(`Receive`), and then, per branch, the write of the counter, the second lookup with the test of the limits, the
write to the blacklist, the port counter. Between two of them another CPU runs. ARP packets take the
branch of `ReceiveArp`, `CheckArp`, `Admit`. Time is in ticks,
`Second` of them a second. A lookup returns an entry that is replaced, never changed in place, so
`cpu[c].seen` keeps what was found. `Config`, `ArpTable`, `Permanent` and `Temporary` are what the controller
wrote before attaching. `passed` and `opened` are ghosts that keep the packets of the last second,
`blocked` who blocked a source and when, `loosest` the most permissive setting that was in force so
far. The limits of the map are cut to 32 bits (`U32`) as in the code.

`XdpControl` is the controller's menu, one system call at a time. An `Upsert` on a map with room
for one entry takes the old entry out before the new one is in (`Edit`, then `Upsert`): between
the two the program goes by its defaults, and for ARP by no check at all. A blacklist item is a lookup and then
an insert or a delete; if the program has unblocked the address in between, the delete fails and
the controller exits with the program attached (`ctl` is `fatal`, which the run reaches). An insert
into a full permanent list displaces an entry, which `displaced` remembers. Deleting an ARP pair (`DeleteArp`)
changes the controller's own list, `arp_list`, and leaves the map as it is; `Quit` detaches.

Two assumptions about the maps are `ASSUME`s of these modules, which TLC evaluates and every theorem about them rests
on. `MapsHaveRoom`: there are at most `MapEntries` (512 in the code) sources and ports, so that the LRU maps
`ip_counter`, `syn_counter`, `udp_counter` and `ip_blacklist_t` evict nothing and an update does not
fail. `PermanentFits`: what the configuration bans fits the permanent list (`MaxRules`).

## 3. Runs

Every run finishes within four minutes on two cores.

| run | instance | what it asks | result |
|---|---|---|---|
| `agent_server` | 2 clients, 3 addresses of which one of a standalone tracker, 1 configured tracker + the process tracker, 3 keys | `TypeOK`, `OwnedExactlyOnce`, `ListedIsNotExiting`, `KeysNeverReused`, `StopLeavesNoThread`, `ImplementsRegistry`, `MutexIsReleased` | pass, 602 thousand states |
| `agent_server_reply` | the same, nothing configured | is a start answered with the key? (`ReplyIsTheKey`) | violated |
| `tracker_alone` | 2 trackers, 2 descriptor numbers, 2 messages each | `TypeOK`, `FreedIsClean`, `SignalsOnlyItsChild`, `NothingLost`, `OwnMessages`, `StopEnds` | pass, 359 thousand states |
| `tracker_alone_fork_race` | forks may overlap | `StopEnds` | violated |
| `tracker_alone_fd_reuse` | closed numbers are reused | `OwnMessages` | violated |
| `container_tracking` | 3 pids, 1 container, 2 forks, a buffer of 2 events | `TypeOK`, `NeverWrongContainer`, `ContainersAreForgotten`, `ExitIsHandled` | pass, 423 thousand states |
| `container_tracking_update` | the same | is dockerd's answer used? (`UpdateIsUsed`) | violated |
| `agent_exit` | 2 CPUs, 2 pids, 1 call, a table of 1 entry, a buffer of 1 event, 3 configurations | `TypeOK`, `AlertedOrUnderWay`, `ExitIsClean`, `ReportedOnce`, `ExitEnds` | pass, 1.1 million states |
| `agent_exit_members` | one configuration with every part | `HandlersUseLiveMembers` | violated |
| `memleak` | 2 threads, 3 addresses, 2 sizes of which one too small, 2 stacks, 2 records, 3 calls, reports of 1 stack | `TypeOK`, `RecordsAreTrue`, `StatsExact`, `ReportCovers` | pass, 1.8 million states |
| `xdp_firewall` | 1 CPU, 2 sources, 5 packets, 2 ARP packets, one command of the operator, 4 ticks, 2 of them a second | `ControlTypeOK`, `RateBound`, `PortBound`, `BlockLasts`, `BansArePermanent`, `ArpOnlyEntered` | pass, 7.4 million states |
| `xdp_firewall_cpus` | 2 CPUs, 1 source, no command | `RateBound` | violated |

### What the properties say

* `OwnedExactlyOnce`: every tracker object has one owner, the map or one caller. Its parts are no
  dangling owner, no two owners, no leak. It is RAII as the code relies on it, through exceptions,
  the erase and the reuse of addresses.
* `ListedIsNotExiting`: what `/list` shows has a thread and has not been told to exit.
* `KeysNeverReused`: a key enters the map once. `StopLeavesNoThread`: when a stop is answered, its
  key is not in the map and no thread that was told to exit still runs.
* `ImplementsRegistry`: the refinement; in particular a list is the registry of one instant.
* `MutexIsReleased`: a stop joins a thread under the mutex. A request that keeps the mutex for ever is one whose
  tracker never comes back from a poll or from the clean-up of its child (`HeldUp`); no other step inside the
  mutex waits for anything. Without the exception the property is false of the code, as finding 2 and
  `ExitEnds` say.
* `FreedIsClean`: after the destructor the thread has returned, the child is reaped and no
  descriptor of the pipe is open, also when `fork` or `pipe` failed. `SignalsOnlyItsChild`: the signals go to
  the tracker's own child, not to a pid that may be someone else's by now.
* `NothingLost`: until the stop, handled + in hand + in the pipe is what the child printed, in
  order. `OwnMessages`: nobody gets another tracker's messages. `StopEnds`: the destructor ends,
  although it waits without limit behind its "timeout" of three seconds.
* `NeverWrongContainer`: what the table does not know falls back to the host; a process is not put in
  a container it is not in, even though events are late and dockerd's answers are from another
  moment. A process whose predecessor's exit is in the buffer, and everything after `mistaken` (section 2), is
  excepted. `ContainersAreForgotten`: while no exit was lost, an entry of a container goes with its process.
  `ExitIsHandled`: a reported exit is handled in the end, however long dockerd keeps the handler.
* `ReportedOnce`: the tracer promises the first call of each kind by each process. Two CPUs that are in
  `sys_enter` for one pid, and a table with no room, repeat a report; nothing else does.
* `AlertedOrUnderWay`: a call with a rule is alerted, dropped for want of room, or still on its way,
  whatever other handlers throw. It rests on the order of the chain (the mutant with the rules last
  breaks it) and on the mark being made after the event. A call that the former process of the same pid
  had made is excepted: the entries of a pid outlive the process, and the new one's call is not reported.
* `ExitIsClean`: once the agent has left, no thread runs, the program is detached and the analyzer
  is freed. `ExitEnds`: an exit that has begun comes to its end if the ring buffer is empty
  from some time on. The condition is needed: `ring_buffer__poll` goes on while there are events.
* `RecordsAreTrue`: for every address but the doubtful ones the map says what the allocator holds,
  so sizes are never matched with another thread's or another call's exit and freed memory is never
  called a leak. `StatsExact`: the statistics of a stack add up to its records.
  `ReportCovers` is about the slots a report has gathered at its end: a stack has one slot, with at least the memory
  that was in the map throughout and, if nothing was freed, no more than is there, although the walk starts
  again; and a stack with such memory is not among the first `Top` only if they are `Top` others with as
  much. It does not say that the stack is printed: the code prints "missed stack" for some of the first.
  Reports that met a stack with the id 0 are excepted: 0 marks a free slot in the code, and the next stack
  takes it over.
* `RateBound`, `PortBound`: in every second, aligned or not, at most two windows' worth of packets
  pass. The factor two is real: a window starts with a packet, and the next may start right after it.
  `opened` keeps the packets that the program counts for a port. A packet that ends a block is none of
  them: `XDP_PASS` comes before the ports are looked at, so that it falls under `RateBound` only.
  `BlockLasts`: a source blocked for its packets gets none through before its time,
  although the code computes the time from the window and not from the block. All of them hold
  against the loosest setting that was in force, the moment in which an entry is missing included.
* `BansArePermanent`: no packet of a permanently banned source gets past the lookup, whatever happens on the
  temporary list, unless an insert into the full list has put that very source out: every other ban holds, the new one too. `ArpOnlyEntered`: with the ARP flag on, only pairs that were
  entered get through. It is "ever entered": a pair that is deleted stays in the map.

### Bounds and why they are enough

* `MaxId = 4` lets three trackers be started, so that a start, a stop and another start can
  happen around two that are listed: the smallest history in which a key could come back. Two addresses
  of trackers in the agent make the second allocation reuse the first one's address; the third is a standalone
  tracker's, whose destructor may not end. Two clients are enough for every race
  on the mutex, since the code treats them alike. The requests include each answer the code can
  give. Ids are in the range of an int, and no
  more can be asked: a wider one breaks the refinement (section 5).
* Two trackers are the smallest number with a descriptor to inherit or to reuse; two messages per
  child distinguish loss, repetition and reordering.
* Three pids with two forks allow pid 1, a parent and a child, and the reuse of a pid. A buffer of
  two events overflows with an exec and an exit behind another exit. One container beside the
  host and a private mount namespace are all the namespaces a comparison can tell apart.
* Two CPUs and a table of one entry are the smallest instance with a replaced entry, a lost mark and a full
  table; a pid of the agent and one that is not distinguish the rules' test; `MaxGen = 2` lets a pid be
  reused once. The three configurations are all parts on, a file that names its own handlers, and no
  handler at all, so that a chain can throw at its end or in its middle, or be empty. Every call has a name
  (`Unnamed` is empty), since a second call does not fit the run's time; `AlertedOrUnderWay` was checked apart on one CPU with
  a call that has none (69 thousand states), and is proved for any.
* Two threads race for the statistics; three calls are an allocation and a `realloc` or `free` of one thread
  beside a call of the other. Two stacks and a `Top` of 1 make a report leave one out. Two records make the map full with the third address; a size below
  `MinSize` is the boundary case of the code. No stack has the id 0: `ReportCovers` excepts it, and the other
  properties treat it as any stack.
* `Second = 2` ticks and a clock of 4 give two windows, a block and its end. Limits of 1 to 3 are
  reached within a window; 17 is a limit that does not fit `U32 = 16`. One command is enough
  to meet every packet in progress; the permanent list has room for one (`MaxRules`), so that a ban can
  displace another. The other LRU maps have room (`MapsHaveRoom`). `MaxTime` ends the runs; deadlock is not checked in them, nor where
  every tracker or process may have come to its end.

### Fairness

* Agent server: main and each caller take the steps they can, outside the clean-up of a standalone tracker; a tracker
  thread sets itself up and tests its flag. The scheduler gives this, and httplib's workers do not stop
  inside a handler. That a poll, a read or a clean-up returns is not assumed. `Accept` and `Lock` have no fairness: clients need
  not come, and `std::mutex` promises no waiter its turn.
* Standalone trackers: the thread, the destructor, and the child's reaction to `SIGINT`, all of
  which are running threads or processes. A child need not print or end by itself. `Destroy` and
  `Launch` have no fairness.
* Container tracking: the agent's one thread that polls the ring buffer. dockerd is assumed to answer, since
  the code sets no time limit of its own. The kernel has no fairness.
* Agent exit: the main thread, the tracker's thread, and each `sys_enter` that is under way. System
  calls, the reuse of pids and Ctrl-C have no fairness: nobody has to do them.
* Memory leaks and XDP: only safety is checked. Neither has to do anything unless it is called.

## 4. Proofs

Six modules state theorems about the components, for any sets of nodes, pids, addresses or packets, any
limits and any bounds; a seventh, `SumTheorems`, has lemmas about sums over finite sets and says nothing of the program. What a
theorem assumes has a name. It is part of the theorem's statement or an `ASSUME` of the module, which TLC
evaluates in each run. Most of those are about the shape of the constants; two are about the program's surroundings and
carry weight: `MapsHaveRoom` and `PermanentFits` (section 2), on which all theorems of `XdpControl_proofs`
rest. With more than 512 sources or ports the LRU maps evict counters, and no bound is claimed.

| module | theorem | statement |
|---|---|---|
| `AgentServer_proofs` | `TypeCorrect` | `Spec => []TypeOK` |
| | `TrackersOwnedOnce` | `Spec => []OwnedExactlyOnce` |
| | `ListedNeverExiting` | `Spec => []ListedIsNotExiting` |
| | `KeysFresh` | `Spec => KeysNeverReused` |
| | `StopJoins` | `Spec => StopLeavesNoThread` |
| | `Refinement` | `IdsFitInt` implies `Spec => ImplementsRegistry` |
| `AgentExit_proofs` | `AgentTypeCorrect` | `Spec => []TypeOK` |
| | `RulesMissNothing` | `Spec => []AlertedOrUnderWay` |
| | `CleanExit` | `Spec => []ExitIsClean` |
| | `FirstCallsOnce` | `Spec => ReportedOnce` |
| `TrackerAlone_proofs` | `TrackersTypeCorrect` | `Spec => []TypeOK` |
| | `DestroyedIsClean` | `NoEarlyStop` implies `Spec => []FreedIsClean` |
| | `OwnChildOnly` | `NoEarlyStop`, `NoGarbagePid` imply `Spec => []SignalsOnlyItsChild` |
| | `OwnMessagesOnly` | `NoEarlyStop`, `NoForeignFD` imply `Spec => []OwnMessages` |
| | `EveryMessageArrives` | `NoEarlyStop`, `NoForeignFD` imply `Spec => []NothingLost` |
| `ContainerTracking_proofs` | `TrackingTypeCorrect` | `Spec => []TypeOK` |
| | `GoneIsForgotten` | `Spec => []ContainersAreForgotten` |
| | `NothingMisattributed` | `Spec => []NeverWrongContainer` |
| `MemLeak_proofs` | `LeakTypeCorrect` | `Spec => []TypeOK` |
| | `LeaksAreTrue` | `Spec => []RecordsAreTrue` |
| | `StatisticsExact` | `Spec => []StatsExact` |
| | `ReportsCover` | `Spec => []ReportCovers` |
| `XdpControl_proofs` | `ControlTypeCorrect` | `ControlSpec => []ControlTypeOK` |
| | `BansHold` | `ControlSpec => BansArePermanent` |
| | `OnlyEnteredArp` | `ControlSpec => ArpOnlyEntered` |
| | `BlocksLast` | `OneCPU` implies `ControlSpec => BlockLasts` |
| | `RateIsBounded` | `OneCPU`, `SomePps` imply `ControlSpec => []RateBound` |
| | `PortsAreBounded` | `OneCPU` implies `ControlSpec => []PortBound` |

Each rests on an inductive invariant. A proof of `[Next]_vars => Inv'` has a step per action and, for the
larger actions, a step per conjunct.

### The agent server

The assumptions are those of the modules: requests are records of their type and name an
operation, main is not a client, `None` is neither a client nor an address, `MaxId` and `IntRange`
are positive. `Refinement` assumes besides that the ids of requests fit an `int`; without it the statement
is false, since `remove_tracker` then removes a tracker nobody named.

`OwnedExactlyOnce` is not inductive: that `EmplaceTracker` does not share a tracker needs to know
that no other caller is between `CreateTracker` and the emplace, which is the mutex. `IInv` is
therefore `TypeOK` with

* `MutexInv`: a client is past `waiting` exactly when it holds `seq_mutex`;
* `BootInv`: clients are idle while main boots, so that main, which takes no mutex, is alone;
* `HoldingInv`: what a caller owns at each point, and in which state that tracker is;
* `KeysBelowCount`: keys are below `id_count`, so that an emplace never finds its key taken;
* `OwnedExactlyOnce` and `ListedIsNotExiting` themselves.

The action properties and the refinement need more history: `RInv` adds `RequestInv` (the request agrees
with the place, and a stop past its erase has its key out of the map), `ListInv` (the part of the list
gathered so far is what the map holds below the next key) and `ReplyInv` (answers are kept only until
they are sent). `NextRefines` maps each action to one action of the registry or to a stutter.

### From the system call to the alert, and the exit

The theorems hold for any number of CPUs and any configuration. `TraceInv` says of a call that was made that
the table remembers it, a CPU is about to mark it, or its pid is excused, and that the table remembers
nothing else; that needs `EntriesStay`, that no entry in use is replaced unless two CPUs met in it.
`HeadIsMatched` says that an event past the rules was matched, which needs the rules to be first in
`Chain(config)` (`ChainIsSeq`, proved for every configuration). `ThreadInv` and `MainInv` relate the thread,
the attachment and the owners of the analyzer to where the main thread is.

### Standalone trackers

`CleanInv` has three parts: a destructor meets a thread that has its child or never will
(`ForkedIsKnown`), an end of a pipe is open only as long as somebody is to close it
(`EndsAreClosed`), and how far the destructor is tells what is left of the child (`ChildIsEnded`). `PidsInv`
follows `child_pid`, `NumbersInv` the descriptor numbers that are written down.

The assumptions are the situations the code does not handle (section 2), no more of them than a theorem needs.
`NoEarlyStop`: no tracker is erased before its thread has forked. `NoGarbagePid`, `NoForeignFD`: the
uninitialised `child_pid` and `stdout_pipe_fd` hold no process's pid and no number in use, where `fork`
or `pipe` can fail, and for `NoForeignFD`, numbers a tracker still has are not reused. The overlap of forks
(`fork_race`) is not excluded: it breaks `StopEnds`, and by these theorems nothing else.

### The container table

`FamilyInv` is about the processes: pid 1 runs on the host, a pid that is somebody's parent is not
free, a child of a process in a container is in it too. `ForgetInv` says that while no exit is
lost, whatever the agent holds of a process that is no more is followed by its exit. `RightInv` says that
what the agent may still use is right: in the table, in the copy of the parent's entry that a handler has in
hand, in the events, in the list of `docker top`. What "may still use" means is `Used`: an entry whose
process's exit is on its way counts as long as an exec event before that exit names the process as the
parent.

The attempt to prove `NeverWrongContainer` found that the ghost `mistaken` missed three cases, all
beyond the bounds of the run: the parent's pid is reused while the child's exec is still in the
buffer; a process execs after the exit of its predecessor was reported, and its own exit is lost; a
parent enters a container while execs that name it are queued. In each the agent cannot know better, so
they are part of `mistaken` now.

### Memory leaks

`OwnerInv`: the program gives an address to one call only and owns it till then. `NoteInv`: the size a call was entered with is
noted till the call returns, for each thread its own. With these `RecordsAreTrue` is inductive.

`StatsExact` speaks of moments when no thread is at the statistics; `StatInv` says what they are at every
other. The records of a stack whose threads have told the statistics of them are *settled*, those whose
removal the statistics have not been told of are *leaving*: what the statistics say of a stack is the
settled and the leaving ones together (`CountsOK`), whatever a thread has read of a stack is still so
when it writes (`SeenInv`), and what a thread has yet to tell is in the map (`ToldInv`). It leaves out the stacks the
ghost `inexact` names, where two threads met or a record was lost.

`ReportInv` is about the walk: of each stack the slot has at least the records the walk has passed (`Passed`)
among those that were there from the beginning and, while nothing has been freed, at most what it has passed of
those there now (`Covered`); no stack has two slots (`Apart`). When the walk's key is gone it begins again: it then
has passed nothing, and what the slots have can only be too much. A slot that is not among the first `Top` is no
larger than any that is, which gives the last part. `ReportsCover` assumes no more than the
property does, that no stack has the id 0.

Both compare with sums over sets. `SumTheorems` proves from the definition of the fold in the community modules
what the proofs need of them: that a sum of natural numbers is the same whichever element is taken first
(`SumWithout`), that a smaller set has no greater sum. The prover has no induction over sets, so each takes
a smallest counterexample (`Smallest`: the least cardinality of a set of sets is that of one of them), and
that the fold's function exists is proved before anything is said of its values.

### The firewall

What holds on several CPUs is proved for any number of them: types, `BansArePermanent`
(`BansInv`: a ban is on the list unless another entry has put it out) and `ArpOnlyEntered` (`ArpInv`).
The others assume `OneCPU`, and run `xdp_firewall_cpus` shows `RateBound` violated on two.
`HandInv` says that what the CPU has seen of the maps is still so, whatever the operator edits, and
`BlockedInv` that a source is on the temporary list until its block is over.

The core of `RateBound` is `WindowInv`: the times of the packets that passed in the last second split in two
(`Split`), those that passed before the present window began and those that are counted in it, neither
more than the loosest limit in force. A window ends when it began at least a second before, so that all of
the first part leave the second as the present window becomes the former one. It needs `TimesInv` (the
times are in order) and `LimitsInv`. `RateBound` assumes `SomePps`, that the configured limit is not 0:
with 0 the packet that ends a block passes nevertheless. `PortWindowInv` is the same for ports, and does
not need that.

The attempt to prove `PortBound` found an earlier form of it false: it counted the packets that end a
block against the port and made up for them with the number of sources on the lists. A source that is
banned after such a packet, or a block time of 0, breaks that bound, on instances larger than the
run's.

### What TLC checked of the invariants

Before its proof each inductive invariant was checked with TLC, on the runs' instances and, for the
proofs' assumptions, on variants of them: `TrackerAlone` with 359 thousand, 1.5 million and 193 thousand states,
`ContainerTracking` with 423 thousand and, with four pids and three forks, 18 million states (not all of
them), `MemLeak` with 1.4 million (stack 0 and another) and, with two
stacks other than 0 and every size traced, 6.5 million, `XdpControl` with 2.5 to 2.8 million, the ports' also with
two sources, one port and a block time of 0 (26 million states, not all of them).

### Only model-checked

* `MutexIsReleased`, `StopEnds`, `ExitIsHandled` and `ExitEnds`: liveness under fairness, out of the prover's
  reach.

## 5. Where the code and what it says differ

Each is a violation run with the trace of a small instance.

1. `tracker_manager.h:54` returns the size of the map less one where `:44` promises the id: the first tracker
   has key 1 and is answered with 0. After a stop the number can be another tracker's key.
2. `tracker_alone.cpp:132` forks while another thread has its pipe's write end open. The child keeps it, and the other
   tracker's destructor waits in `join` for an end of file that does not come, with `seq_mutex` held.
3. `tracker_alone.cpp:102` closes the read end before the flag is raised and the thread joined. The thread can read
   from the number when it already belongs to another tracker's pipe, and passes that tracker's message to
   its own handler.
4. `container.cpp:245` overwrites what dockerd was asked for with the copy of the parent's entry made before.
5. `xdp_fw.c:413` counts by look-up, addition and write: two CPUs lose updates, and a source passes
   more packets than two windows allow.
6. `agent_core.cpp:233` returns from `check_auto_exit` without a word to the trackers, where `agent_core.h:69` says
   "check and stop all trackers if needed". The members are then destroyed in reverse order, and a
   tracker's thread, which is told last, still runs handlers on the container manager and the
   prometheus server.

The code disagrees with what it says of itself in more places, which the models contain and the checked
properties except. TLC finds each of them when the exception is taken out of the property:

* `agent_core.cpp:145` narrows the id of a stop to an `int`, so that the id 2^32 + 1 stops the tracker with key 1;
  `agent_core.h:86` says "stop a tracker by id". Assumed away by `IdsFitInt`.
* `tracker_alone.cpp:94`: the child of a tracker that is stopped before its fork is told nothing and outlives it; `:92`
  says "close pipe and clean up". Assumed away by `NoEarlyStop`.
* `syscall.bpf.c:133` replaces the entry another thread of the process has marked, and calls are reported again;
  `syscall.h:6` says "the first time". Excepted in `ReportedOnce` (`excused`).
* `syscall.bpf.c:100`: a reused pid inherits the calls of its predecessor, and its own first call is not submitted; `:104`
  says "submit event at first time". Excepted in `AlertedOrUnderWay` (`Inherited`).
* `main.go:402`: the delete of an address the program has just unblocked fails and ends the controller with the
  program attached; the comment at `main.go:295` promises the opposite. `ctl` is `fatal`; no property.
* `xdp_fw.c:65`: an entry of the permanent list puts another out; `main.go:31` calls the list permanent. Excepted in
  `BansArePermanent` (`displaced`).
* `main.go:701`: an ARP pair deleted from the menu is still admitted. `ArpOnlyEntered` is about what was ever entered.
* `main.go:678`: while the ARP flag is written again every pair gets through, although it was not 0 before nor after;
  `main.go:36` says not 0 is on. Excepted in `ArpOnlyEntered` (`loosest`).

Seen while modelling, and stated in the hazards and the excepted cases above, with nothing in the repository that says
otherwise: a stack id of 0 (`memleak_tracker.h:487`), a stale variable after a failed `posix_memalign`
(`memleak.bpf.c:249`), a record overwritten when memory was freed before the probe of `free` was attached, a
number of a call beyond the table of names (`src/syscall.cpp:100`, `sec_analyzer.cpp:123`).

## 6. Not modelled

* XDP: `drop_cnt` and `pass_cnt`, which only a printout reads; eviction from the LRU maps other than the permanent
  list, and updates that fail for want of memory (assumption `MapsHaveRoom`, section 4); parsing of what the operator types (a negative number becomes a large limit).
* Process tracing: the duration and pid filters, off by default.
* System calls: the filters, the repeated reports and the map of command names, off or unread.
* Memory leaks: the kernel's tracepoints, which share the maps; sampling, the age filter, `max_size`; the
  report of combined statistics; reports for which `calloc` fails; `int size` in the report's slots, which overflows past 2 GiB
  (`memleak_tracker.h:261`); the record read after its deletion (`memleak.bpf.c:163`), taken to be intact.
* Agent: `remove_all_trackers` and `inspect_container`, which nothing calls; the rules on files
  and processes, which have the shape of those on calls; the prometheus server and its metrics; reading
  the configuration file and the command line; hot update; the system call filter, whose call is commented
  out.
* TCP connection tracing and file access statistics: a map between entry and exit and a
  counter read in rounds, both of which `MemLeak` has in harder form.
* Vendored libraries, `vmlinux.h` and the BCC tools that standalone trackers run (as far as the agent is
  concerned they are children that print). They are nearly all of the repository's lines.

## 7. Plan

1. Done: the modules of section 2, model-checked, and the theorems of section 4: every invariant and every
   safety property of a passing run is proved.
2. Left to prove: `BlockLasts` for several CPUs, under an assumption on who may see a window end.
3. Modules, should they be wanted: TCP connections per thread, the file counters.
