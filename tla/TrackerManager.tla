--------------------------- MODULE TrackerManager ---------------------------
(***************************************************************************)
(* The tracker manager (include/agent/tracker_manager.h) and the tracker   *)
(* threads it owns (include/agent/model/tracker.h): the poll loop of the    *)
(* in-process trackers, e.g. bpftools/process/process_tracker.h, and the   *)
(* read loop of the standalone ones (src/tracker_alone.cpp), which         *)
(* TrackerAlone has in detail.                                             *)
(*                                                                         *)
(* This module gives the data and the operations. Who calls them, and      *)
(* under which lock, is the business of AgentServer.                       *)
(***************************************************************************)
EXTENDS Integers, FiniteSets

CONSTANTS
  Trackers,    (* addresses at which a tracker object can be allocated     *)
  Names,       (* the names requests and configurations use                *)
  MaxId        (* bound on id_count                                        *)

ASSUME MaxIdAssumption == MaxId \in Nat \ {0}

VARIABLES
  id_count,    (* the next key                                             *)
  trackers,    (* the map: key |-> [name, tracker]                         *)
  thread,      (* what each tracker object and its jthread is doing        *)
  exiting      (* the flag the thread polls                                *)

managerVars == <<id_count, trackers, thread, exiting>>

(* "free": no object at this address. "created": constructed, no thread yet.
   "setup", "loop" and "poll": the thread is loading the BPF program (or
   forking the child), testing the flag, or inside ring_buffer__poll (or read)
   and the handlers. "ended": the thread has returned.                       *)
Running == {"setup", "loop", "poll"}
ThreadState == {"free", "created", "ended"} \union Running

Entry == [name : Names, tracker : Trackers]

Keys == DOMAIN trackers

ManagerTypeOK ==
  /\ id_count \in 1..MaxId
  /\ Keys \subseteq Nat
  /\ trackers \in [Keys -> Entry]
  /\ thread \in [Trackers -> ThreadState]
  /\ exiting \in [Trackers -> BOOLEAN]

ManagerInit ==
  /\ id_count = 1
  /\ trackers = [k \in {} |-> 0]
  /\ thread = [o \in Trackers |-> "free"]
  /\ exiting = [o \in Trackers |-> FALSE]

(* Mutant: the constructor forgets the flag. *)
ConstructKeepsFlag(o) ==
  /\ thread[o] = "free"
  /\ id_count < MaxId
  /\ thread' = [thread EXCEPT ![o] = "created"]
  /\ UNCHANGED <<id_count, trackers, exiting>>

(* The constructor of a tracker, which clears the flag. *)
Construct(o) ==
  /\ thread[o] = "free"
  /\ id_count < MaxId
  /\ thread' = [thread EXCEPT ![o] = "created"]
  /\ exiting' = [exiting EXCEPT ![o] = FALSE]
  /\ UNCHANGED <<id_count, trackers>>

(* start_tracker, first half: the thread runs before the map knows of it.   *)
Launch(o) ==
  /\ thread' = [thread EXCEPT ![o] = "setup"]
  /\ UNCHANGED <<id_count, trackers, exiting>>

(* The destructor of a tracker without a thread: nothing to join.            *)
Discard(o) ==
  /\ thread' = [thread EXCEPT ![o] = "free"]
  /\ UNCHANGED <<id_count, trackers, exiting>>

(* Mutant: the key is the size of the map, as what start_tracker returns is. *)
NewKeyBySize == Cardinality(Keys) + 1

NewKey == id_count

(* start_tracker, second half: trackers.emplace(id_count++, ...). *)
Emplace(name, o) ==
  /\ trackers' = [k \in Keys \union {NewKey} |->
                    IF k = NewKey THEN [name |-> name, tracker |-> o] ELSE trackers[k]]
  /\ id_count' = id_count + 1
  /\ UNCHANGED <<thread, exiting>>

(* remove_tracker of a key that is there: erase unlinks the node, then
   destroys the tracker in it.                                               *)
Unlink(id) ==
  /\ trackers' = [k \in Keys \ {id} |-> trackers[k]]
  /\ UNCHANGED <<id_count, thread, exiting>>

(* stop_tracker in the destructor: the flag goes up, then join() waits.     *)
StopTracker(o) ==
  /\ exiting' = [exiting EXCEPT ![o] = TRUE]
  /\ UNCHANGED <<id_count, trackers, thread>>

(* join() returns once the thread has ended; the object is then freed. *)
Join(o) ==
  /\ thread[o] = "ended"
  /\ thread' = [thread EXCEPT ![o] = "free"]
  /\ UNCHANGED <<id_count, trackers, exiting>>

(* What start_tracker returns for the entry it has just made. *)
StartResult == Cardinality(Keys') - 1

(***************************************************************************)
(* The tracker thread.                                                     *)
(***************************************************************************)

(* Open, load and attach the BPF program, create the ring buffer, or pipe and
   fork; any of them may fail, and then the thread returns and nobody is told. *)
Setup(o) ==
  /\ thread[o] = "setup"
  /\ \E s \in {"loop", "ended"} : thread' = [thread EXCEPT ![o] = s]
  /\ UNCHANGED <<id_count, trackers, exiting>>

(* Mutant: the loop does not look at the flag. *)
TestNothing(o) ==
  /\ thread[o] = "loop"
  /\ thread' = [thread EXCEPT ![o] = "poll"]
  /\ UNCHANGED <<id_count, trackers, exiting>>

(* The test of the while loop. *)
TestExiting(o) ==
  /\ thread[o] = "loop"
  /\ thread' = [thread EXCEPT ![o] = IF exiting[o] THEN "ended" ELSE "poll"]
  /\ UNCHANGED <<id_count, trackers, exiting>>

(* ring_buffer__poll, or the read of a standalone tracker, comes back: an
   error, a signal or the end of the pipe ends the loop. Neither need ever
   come back, the first as long as there are events, the second as long as
   the child is silent.                                                      *)
Poll(o) ==
  /\ thread[o] = "poll"
  /\ \E s \in {"loop", "ended"} : thread' = [thread EXCEPT ![o] = s]
  /\ UNCHANGED <<id_count, trackers, exiting>>

ThreadStep(o) == Setup(o) \/ TestExiting(o) \/ Poll(o)
=============================================================================
