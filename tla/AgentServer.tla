---------------------------- MODULE AgentServer ----------------------------
(***************************************************************************)
(* The agent in server mode: agent_core boots the configured trackers,     *)
(* then agent_server (http_server.cpp) serves /start, /stop and /list on   *)
(* httplib's worker threads, each request under seq_mutex.                 *)
(***************************************************************************)
EXTENDS TrackerManager, Sequences

CONSTANTS
  Clients,                   (* httplib worker threads, one request each    *)
  Main,                      (* the main thread, which boots the trackers   *)
  None,                      (* no tracker, or the mutex is free            *)
  Requests,                  (* the requests: [op, name, handlers, id]      *)
  Standalone,                (* the addresses of standalone trackers, whose
                                objects have a size of their own            *)
  EnabledTrackers,           (* core_config.enabled_trackers                *)
  enable_container_manager,
  enable_sec_rule_detect,
  IntRange                   (* 2^32: how many values an int has            *)

Callers == Clients \union {Main}

(* The names start_tracker knows; "syscount" is known and refused. *)
Dispatched ==
  {"files", "process", "syscall", "tcpconnect", "capable", "memleak",
   "tcpconnlat", "mountsnoop", "sigsnoop", "bindsnoop", "opensnoop",
   "oomkill", "tcprtt", "hotupdate", "funclatency"}

(* The trackers that poll a ring buffer in the agent. All others derive from
   tracker_alone_base, fork a child and read its output from a pipe.         *)
InProcess == {"files", "process", "syscall", "tcpconnect"}

(* op is "bad" when the body does not parse. handlers: at least one of the
   export handlers named in the request can be built.                        *)
Request == [op : {"start", "stop", "list", "bad", "none"}, name : Names,
            handlers : BOOLEAN, id : Int]

ASSUME RequestsAssumption ==
  /\ Requests \subseteq Request
  /\ \A r \in Requests : r.op # "none"

ASSUME CallersAssumption ==
  /\ Main \notin Clients
  /\ None \notin Clients
  /\ None \notin Trackers
  /\ Standalone \subseteq Trackers

ASSUME ConfigAssumption ==
  /\ EnabledTrackers \in Seq(Request)
  /\ enable_container_manager \in BOOLEAN
  /\ enable_sec_rule_detect \in BOOLEAN
  /\ IntRange \in Nat \ {0}
  /\ "process" \in Names

VARIABLES
  seq_mutex,   (* the client that holds it, or None                         *)
  pc,          (* where each caller is                                      *)
  req,         (* the request, or boot entry, each caller works on          *)
  owned,       (* the tracker in the caller's unique_ptr or map node        *)
  acc,         (* the part of the list a /list request has gathered         *)
  reply,       (* the answer of each caller's last request                  *)
  boot         (* enabled trackers main has yet to start                    *)

serverVars == <<seq_mutex, pc, req, owned, acc, reply, boot>>
vars == <<managerVars, serverVars>>

(* A start's answer carries the number tracker_manager returned, a list's
   answer the entries; both are bookkeeping fields of one record.            *)
Done(status, id, list) == [status |-> status, id |-> id, list |-> list]
Empty == [k \in {} |-> 0]
NoReply == Done("ok", 0, Empty)
NoRequest == [op |-> "none", name |-> "process", handlers |-> FALSE, id |-> 0]

ProcessEntry == [op |-> "start", name |-> "process", handlers |-> FALSE, id |-> 0]

(* start_container_manager adds a process tracker when none is configured. *)
BootList ==
  IF enable_container_manager
       /\ \A i \in DOMAIN EnabledTrackers : EnabledTrackers[i].name # "process"
  THEN Append(EnabledTrackers, ProcessEntry)
  ELSE EnabledTrackers

(* Does create_default_tracker_with_handler end up with a handler? *)
HasHandler(r) ==
  \/ r.handlers
  \/ r.name = "process" /\ enable_container_manager
  \/ r.name = "syscall" /\ enable_sec_rule_detect

(* A size_t id of the request becomes the int key of remove_tracker. *)
AsInt(id) ==
  LET low == id % IntRange
  IN  IF 2 * low >= IntRange THEN low - IntRange ELSE low

Goto(c, l) == pc' = [pc EXCEPT ![c] = l]

(* The work on the request is over; main drops what start_tracker returns. *)
Finish(c, r) ==
  /\ Goto(c, IF c = Main THEN "boot" ELSE "reply")
  /\ reply' = IF c = Main THEN reply ELSE [reply EXCEPT ![c] = r]

Init ==
  /\ ManagerInit
  /\ seq_mutex = None
  /\ pc = [c \in Callers |-> IF c = Main THEN "boot" ELSE "idle"]
  /\ req = [c \in Callers |-> NoRequest]
  /\ owned = [c \in Callers |-> None]
  /\ acc = [c \in Callers |-> Empty]
  /\ reply = [c \in Callers |-> NoReply]
  /\ boot = BootList

(***************************************************************************)
(* start_agent, then listen: no client is served before boot is over.      *)
(***************************************************************************)
BootNext ==
  /\ pc[Main] = "boot"
  /\ IF boot = << >>
     THEN /\ Goto(Main, "listen")
          /\ req' = [req EXCEPT ![Main] = NoRequest]
          /\ UNCHANGED boot
     ELSE /\ Goto(Main, "start")
          /\ req' = [req EXCEPT ![Main] = Head(boot)]
          /\ boot' = Tail(boot)
  /\ UNCHANGED <<managerVars, seq_mutex, owned, acc, reply>>

(* start_agent throws before the first tracker (dockerd does not answer
   start_container_manager): serve goes on to listen with no tracker.        *)
BootFails ==
  /\ pc[Main] = "boot"
  /\ boot = BootList
  /\ Goto(Main, "listen")
  /\ boot' = << >>
  /\ req' = [req EXCEPT ![Main] = NoRequest]
  /\ UNCHANGED <<managerVars, seq_mutex, owned, acc, reply>>

Accept(c, r) ==
  /\ pc[Main] = "listen"
  /\ pc[c] = "idle"
  /\ Goto(c, "waiting")
  /\ req' = [req EXCEPT ![c] = r]
  /\ UNCHANGED <<managerVars, seq_mutex, owned, acc, reply, boot>>

(* Mutant: the handlers do not take the mutex. *)
NoMutex == TRUE

(* const std::lock_guard<std::mutex> lock(seq_mutex) *)
MutexFree == seq_mutex = None

Lock(c) ==
  /\ pc[c] = "waiting"
  /\ MutexFree
  /\ seq_mutex' = c
  /\ Goto(c, req[c].op)
  /\ UNCHANGED <<managerVars, req, owned, acc, reply, boot>>

(* json::parse or at("id") throws: 404. *)
BadBody(c) ==
  /\ pc[c] = "bad"
  /\ Finish(c, Done("bad_request", 0, Empty))
  /\ UNCHANGED <<managerVars, seq_mutex, req, owned, acc, boot>>

(* The lock_guard goes out of scope and httplib sends the answer. *)
Return(c) ==
  /\ pc[c] = "reply"
  /\ seq_mutex' = None
  /\ Goto(c, "idle")
  /\ req' = [req EXCEPT ![c] = NoRequest]
  /\ reply' = [reply EXCEPT ![c] = NoReply]
  /\ UNCHANGED <<managerVars, owned, acc, boot>>

(***************************************************************************)
(* /start, and the same work done by main for each configured tracker.     *)
(***************************************************************************)
UnknownName(c) ==
  /\ pc[c] = "start"
  /\ req[c].name \notin Dispatched
  /\ Finish(c, Done("error", 0, Empty))
  /\ UNCHANGED <<managerVars, seq_mutex, req, owned, acc, boot>>

(* No handler was created: the null tracker is reported as ok with id 0. *)
NoHandler(c) ==
  /\ pc[c] = "start"
  /\ req[c].name \in Dispatched
  /\ ~HasHandler(req[c])
  /\ Finish(c, Done("ok", 0, Empty))
  /\ UNCHANGED <<managerVars, seq_mutex, req, owned, acc, boot>>

CreateTracker(c) ==
  /\ pc[c] = "start"
  /\ req[c].name \in Dispatched
  /\ HasHandler(req[c])
  /\ \E o \in Trackers : /\ o \in Standalone <=> req[c].name \notin InProcess
                         /\ Construct(o)
                         /\ owned' = [owned EXCEPT ![c] = o]
  /\ Goto(c, "launch")
  /\ UNCHANGED <<seq_mutex, req, acc, reply, boot>>

(* Creating the tracker throws (its arguments, its memory): a client gets
   404, main's start_agent gives up the entries that are left.               *)
CreateThrows(c) ==
  /\ pc[c] = "start"
  /\ req[c].name \in Dispatched
  /\ HasHandler(req[c])
  /\ Finish(c, Done("bad_request", 0, Empty))
  /\ boot' = IF c = Main THEN << >> ELSE boot
  /\ UNCHANGED <<managerVars, seq_mutex, req, owned, acc>>

LaunchThread(c) ==
  /\ pc[c] = "launch"
  /\ Launch(owned[c])
  /\ Goto(c, "emplace")
  /\ UNCHANGED <<seq_mutex, req, owned, acc, reply, boot>>

(* std::jthread throws std::system_error: the tracker goes with its
   unique_ptr, and main's start_agent gives up the entries that are left.    *)
LaunchThrows(c) ==
  /\ pc[c] = "launch"
  /\ Goto(c, "discard")
  /\ boot' = IF c = Main THEN << >> ELSE boot
  /\ UNCHANGED <<managerVars, seq_mutex, req, owned, acc, reply>>

(* Mutant: the unique_ptr is moved from before emplace moves it in. *)
EmplaceMovedFrom(c) ==
  /\ pc[c] = "emplace"
  /\ Emplace(req[c].name, None)
  /\ owned' = [owned EXCEPT ![c] = None]
  /\ Finish(c, Done("ok", StartResult, Empty))
  /\ UNCHANGED <<seq_mutex, req, acc, boot>>

EmplaceTracker(c) ==
  /\ pc[c] = "emplace"
  /\ Emplace(req[c].name, owned[c])
  /\ owned' = [owned EXCEPT ![c] = None]
  /\ Finish(c, Done("ok", StartResult, Empty))
  /\ UNCHANGED <<seq_mutex, req, acc, boot>>

(***************************************************************************)
(* /stop                                                                   *)
(***************************************************************************)
EraseNothing(c) ==
  /\ pc[c] = "stop"
  /\ AsInt(req[c].id) \notin Keys
  /\ Finish(c, Done("ok", 0, Empty))
  /\ UNCHANGED <<managerVars, seq_mutex, req, owned, acc, boot>>

(* Mutant: the map holds raw pointers, and erase destroys nothing. *)
EraseLeaks(c) ==
  /\ pc[c] = "stop"
  /\ AsInt(req[c].id) \in Keys
  /\ Unlink(AsInt(req[c].id))
  /\ Finish(c, Done("ok", 0, Empty))
  /\ UNCHANGED <<seq_mutex, req, owned, acc, boot>>

EraseTracker(c) ==
  /\ pc[c] = "stop"
  /\ AsInt(req[c].id) \in Keys
  /\ Unlink(AsInt(req[c].id))
  /\ owned' = [owned EXCEPT ![c] = trackers[AsInt(req[c].id)].tracker]
  /\ Goto(c, "destroy")
  /\ UNCHANGED <<seq_mutex, req, acc, reply, boot>>

(***************************************************************************)
(* The destructor of a tracker, from erase or from the unique_ptr of a     *)
(* start that failed. ~tracker_alone_base first waits for its own clean-up, *)
(* which kills the child, reads the pipe and waits for the child; only     *)
(* then does ~tracker_base raise the flag.                                 *)
(***************************************************************************)
RaiseExiting(c) ==
  /\ pc[c] = "destroy"
  /\ StopTracker(owned[c])
  /\ Goto(c, "join")
  /\ UNCHANGED <<seq_mutex, req, owned, acc, reply, boot>>

(* There is no thread to join. *)
DiscardTracker(c) ==
  /\ pc[c] = "discard"
  /\ Discard(owned[c])
  /\ owned' = [owned EXCEPT ![c] = None]
  /\ Finish(c, Done("bad_request", 0, Empty))
  /\ UNCHANGED <<seq_mutex, req, acc, boot>>

(* Mutant: the destructor detaches the thread instead of joining it. *)
DetachThread(c) ==
  /\ pc[c] = "join"
  /\ owned' = [owned EXCEPT ![c] = None]
  /\ Finish(c, Done("ok", 0, Empty))
  /\ UNCHANGED <<managerVars, seq_mutex, req, acc, boot>>

JoinThread(c) ==
  /\ pc[c] = "join"
  /\ Join(owned[c])
  /\ owned' = [owned EXCEPT ![c] = None]
  /\ Finish(c, Done("ok", 0, Empty))
  /\ UNCHANGED <<seq_mutex, req, acc, boot>>

(***************************************************************************)
(* /list walks the map in key order, an entry at a time.                   *)
(***************************************************************************)
Ahead(c) == {k \in Keys : \A j \in DOMAIN acc[c] : j < k}

ListNext(c) ==
  /\ pc[c] = "list"
  /\ \E k \in Ahead(c) :
       /\ \A j \in Ahead(c) : k <= j
       /\ acc' = [acc EXCEPT ![c] = [j \in DOMAIN @ \union {k} |->
                                       IF j = k THEN trackers[k].name ELSE @[j]]]
  /\ UNCHANGED <<managerVars, seq_mutex, pc, req, owned, reply, boot>>

ListEnd(c) ==
  /\ pc[c] = "list"
  /\ Ahead(c) = {}
  /\ Finish(c, Done("list", 0, acc[c]))
  /\ acc' = [acc EXCEPT ![c] = Empty]
  /\ UNCHANGED <<managerVars, seq_mutex, req, owned, boot>>

(***************************************************************************)
(* The specification.                                                      *)
(***************************************************************************)
Work(c) ==
  \/ BadBody(c)
  \/ UnknownName(c) \/ NoHandler(c) \/ CreateTracker(c) \/ CreateThrows(c)
  \/ LaunchThread(c) \/ LaunchThrows(c) \/ EmplaceTracker(c)
  \/ EraseNothing(c) \/ EraseTracker(c)
  \/ RaiseExiting(c) \/ DiscardTracker(c) \/ JoinThread(c)
  \/ ListNext(c) \/ ListEnd(c)
  \/ Return(c)

(* The clean-up of a standalone tracker waits for its child, and may be for
   ever: TrackerAlone says when.                                             *)
CleaningUp(c) == pc[c] \in {"destroy", "discard"} /\ owned[c] \in Standalone

TrackerThread(o) == ThreadStep(o) /\ UNCHANGED serverVars

Next ==
  \/ BootNext \/ BootFails
  \/ \E c \in Clients : Lock(c) \/ \E r \in Requests : Accept(c, r)
  \/ \E c \in Callers : Work(c)
  \/ \E o \in Trackers : TrackerThread(o)

(* Every thread the scheduler runs takes its next step. Nothing is assumed
   of the clients, nor that std::mutex lets any particular waiter in, nor that
   a poll, a read or the clean-up of a standalone tracker comes back.        *)
Fairness ==
  /\ WF_vars(BootNext \/ BootFails)
  /\ \A c \in Callers : WF_vars(Work(c) /\ ~CleaningUp(c))
  /\ \A o \in Trackers : WF_vars((Setup(o) \/ TestExiting(o)) /\ UNCHANGED serverVars)

Spec == Init /\ [][Next]_vars
FairSpec == Spec /\ Fairness

-----------------------------------------------------------------------------
(***************************************************************************)
(* Properties.                                                             *)
(***************************************************************************)
Label == {"boot", "listen", "idle", "waiting", "start", "launch", "discard",
          "emplace", "stop", "destroy", "join", "list", "bad", "reply"}

(* Every variable keeps its shape, whatever requests come. *)
TypeOK ==
  /\ ManagerTypeOK
  /\ seq_mutex \in Clients \union {None}
  /\ pc \in [Callers -> Label]
  /\ req \in [Callers -> Request]
  /\ owned \in [Callers -> Trackers \union {None}]
  /\ boot \in Seq(Request)

(* RAII: a tracker that exists is owned exactly once, by one map entry or by
   the caller that is building or destroying it, so that no thread outlives
   its owner, none is joined twice and none is leaked (tracker_manager.h,
   remove_tracker and start_tracker; tracker.h, ~tracker_base).              *)
NotDangling ==
  /\ \A c \in Callers : owned[c] # None => thread[owned[c]] # "free"
  /\ \A k \in Keys : thread[trackers[k].tracker] # "free"

NotShared ==
  /\ \A c, d \in Callers : owned[c] # None /\ owned[c] = owned[d] => c = d
  /\ \A k, j \in Keys : trackers[k].tracker = trackers[j].tracker => k = j
  /\ \A c \in Callers, k \in Keys : owned[c] # trackers[k].tracker

NotLeaked ==
  \A o \in Trackers :
    thread[o] # "free" => \/ \E c \in Callers : owned[c] = o
                          \/ \E k \in Keys : trackers[k].tracker = o

OwnedExactlyOnce == NotDangling /\ NotShared /\ NotLeaked

(* A thread is told to exit only by the request that removes its tracker:
   the flag is never up on a tracker that /list still shows.                 *)
ListedIsNotExiting ==
  \A k \in Keys : ~exiting[trackers[k].tracker] /\ thread[trackers[k].tracker] # "created"

(* Keys are handed out once: a key that enters the map was never in it. *)
KeysNeverReused ==
  [][\A k \in Keys' \ Keys : k >= id_count /\ k < id_count']_vars

(* When /stop answers ok, the tracker of that id is gone from the map and
   the thread it had is not running (agent_core.h: stop a tracker by id).    *)
StopLeavesNoThread ==
  [][\A c \in Clients :
       (req[c].op = "stop" /\ pc[c] = "reply" /\ pc'[c] = "idle") =>
         /\ AsInt(req[c].id) \notin Keys
         /\ \A o \in Trackers : exiting[o] => thread[o] \in {"free", "ended"}]_vars

(* A request that waits for what may never come: the clean-up of a standalone
   tracker, or a tracker thread that does not come back to test its flag.    *)
HeldUp(c) == CleaningUp(c) \/ (pc[c] = "join" /\ thread[owned[c]] = "poll")

(* A request keeps seq_mutex for ever, and with it all later requests waiting,
   only if it destroys a tracker whose child or whose poll never comes back:
   no other step inside the mutex waits for anything (http_server.cpp, the
   three handlers; tracker.h, stop_tracker).                                 *)
MutexIsReleased ==
  \A c \in Clients : []<>(seq_mutex # c) \/ <>[]HeldUp(c)

(* The number a start is answered with is the key of the tracker it started
   (tracker_manager.h: start a tracker and return id).                       *)
ReplyIsTheKey ==
  \A c \in Clients :
    (pc[c] = "reply" /\ req[c].op = "start" /\ reply[c].status = "ok") =>
      reply[c].id \in Keys /\ trackers[reply[c].id].name = req[c].name

(***************************************************************************)
(* The inductive invariant behind the safety properties.                   *)
(***************************************************************************)
Critical == {"start", "launch", "discard", "emplace", "stop", "destroy", "join", "list", "bad", "reply"}

(* A client works on a request only while it holds seq_mutex. *)
MutexInv ==
  \A c \in Clients :
    /\ pc[c] \in Critical \union {"idle", "waiting"}
    /\ pc[c] \in Critical <=> seq_mutex = c
    /\ pc[c] = "waiting" => req[c].op # "none"

(* While main boots, no client is there; afterwards main does nothing. *)
BootInv ==
  /\ pc[Main] \in {"boot", "start", "launch", "discard", "emplace", "listen"}
  /\ pc[Main] # "listen" => \A c \in Clients : pc[c] = "idle"

(* What a caller owns, by where it is: nothing, a tracker it has yet to
   register, or one it destroys, be it taken out of the map or never in it.  *)
HoldingInv ==
  \A c \in Callers :
    /\ owned[c] # None <=> pc[c] \in {"launch", "discard", "emplace", "destroy", "join"}
    /\ pc[c] \in {"launch", "discard"} => thread[owned[c]] = "created" /\ ~exiting[owned[c]]
    /\ pc[c] \in {"emplace", "destroy"} => thread[owned[c]] # "created" /\ ~exiting[owned[c]]
    /\ pc[c] = "join" => thread[owned[c]] # "created" /\ exiting[owned[c]]
    /\ pc[c] \in {"launch", "emplace"} => id_count < MaxId

(* The map holds keys already handed out. *)
KeysBelowCount == \A k \in Keys : 1 <= k /\ k < id_count

(* The place a client is at agrees with its request, and a stop that is past
   the erase has its key out of the map.                                     *)
RequestInv ==
  \A c \in Clients :
    /\ pc[c] # "idle" => req[c] \in Requests
    /\ pc[c] \in {"start", "launch", "discard", "emplace"} => req[c].op = "start"
    /\ pc[c] \in {"stop", "destroy", "join"} => req[c].op = "stop"
    /\ pc[c] = "list" => req[c].op = "list"
    /\ pc[c] = "bad" => req[c].op = "bad"
    /\ pc[c] \in {"destroy", "join", "reply"} /\ req[c].op = "stop" => AsInt(req[c].id) \notin Keys

IInv ==
  /\ TypeOK /\ MutexInv /\ BootInv /\ HoldingInv
  /\ KeysBelowCount /\ OwnedExactlyOnce /\ ListedIsNotExiting

(* A list under way holds the entries of an initial segment of the keys. *)
ListInv ==
  \A c \in Clients :
    /\ pc[c] # "list" => acc[c] = Empty
    /\ acc[c] = [k \in DOMAIN acc[c] |-> trackers[k].name]
    /\ DOMAIN acc[c] \subseteq Keys
    /\ \A j \in DOMAIN acc[c], k \in Keys : k <= j => k \in DOMAIN acc[c]

(* Answers are kept only until they are sent. *)
ReplyInv ==
  /\ reply = [c \in Callers |-> reply[c]]
  /\ acc = [c \in Callers |-> acc[c]]
  /\ \A c \in Clients : pc[c] # "reply" => reply[c] = NoReply

RInv == IInv /\ RequestInv /\ ListInv /\ ReplyInv

(***************************************************************************)
(* The code implements the atomic registry.                                *)
(***************************************************************************)
AbstractAnswer(r) ==
  IF r.status = "list" THEN [status |-> "list", list |-> r.list]
  ELSE [status |-> IF r.status = "ok" THEN "ok" ELSE "error"]

(* A request has had its effect once its answer is settled; a stop's is
   settled when it has unlinked the tracker, before the join.                *)
CallState(c) ==
  IF pc[c] = "idle" THEN "none"
  ELSE IF pc[c] \in {"destroy", "join", "reply"} THEN "done" ELSE "called"

Registry == INSTANCE TrackerRegistry WITH
  registry <- [k \in Keys |-> trackers[k].name],
  nextId <- id_count,
  call <- [c \in Clients |-> CallState(c)],
  request <- [c \in Clients |-> req[c]],
  answer <- [c \in Clients |-> AbstractAnswer(reply[c])]

(* Every answer is the one the atomic registry of TrackerRegistry gives at
   one instant between the request and the answer.                           *)
ImplementsRegistry == Registry!Spec
=============================================================================
