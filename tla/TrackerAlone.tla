---------------------------- MODULE TrackerAlone ----------------------------
(***************************************************************************)
(* Trackers that run as a process of their own (tracker_alone.cpp): the    *)
(* tracker's thread makes a pipe, forks the child and reads its output;    *)
(* the destructor, run by whoever erases the tracker, interrupts the child,*)
(* reads what is left, reaps the child and joins the thread.               *)
(*                                                                         *)
(* A pipe is named by the tracker that made it. A child inherits, at fork, *)
(* every write end the agent has open at that instant.                     *)
(***************************************************************************)
EXTENDS Integers, Sequences, FiniteSets

CONSTANTS
  Trackers,
  FDs,           (* the descriptor numbers of read ends                     *)
  None,
  GarbagePids,   (* what child_pid may hold before start_tracker sets it    *)
  GarbageFDs,    (* what stdout_pipe_fd[0] may hold before pipe() sets it   *)
  Hazards,       (* which of the situations below are let happen            *)
  MaxChunks      (* how many messages a child prints: bounds the state      *)

(* "early_stop": the tracker is erased before its thread has forked.
   "fork_fails": pipe or fork fails.
   "no_handler": trackers may be made without a handler.
   "fork_race": a thread forks while another is between pipe and close.
   "fd_reuse": pipe gives a number that a tracker has closed.                *)
AllHazards == {"early_stop", "fork_fails", "no_handler", "fork_race", "fd_reuse"}

ASSUME ConstantsAssumption ==
  /\ None \notin Trackers /\ None \notin FDs
  /\ GarbagePids \subseteq Trackers \union {None}
  /\ GarbageFDs \subseteq FDs \union {None}
  /\ Hazards \subseteq AllHazards
  /\ MaxChunks \in Nat

VARIABLES
  handler,    (* was the tracker made with a handler?                       *)
  tpc,        (* where the tracker's thread is                              *)
  dpc,        (* where the tracker's destructor is                          *)
  exiting,    (* tracker_base::exiting                                      *)
  child,      (* what became of the child process                           *)
  child_pid,
  rfd,        (* stdout_pipe_fd[0]                                          *)
  fds,        (* the agent's descriptors: number |-> pipe                   *)
  wr,         (* the pipes whose write end the agent has open               *)
  holds,      (* the write ends each child has open                         *)
  pipe,       (* what each pipe holds                                       *)
  buf,        (* stdout_pipe_buf, shared by thread and destructor           *)
  reading,    (* the pipe that the thread's and the destructor's read is on *)
  got,        (* the read_bytes of the thread and of the destructor         *)
  handled,    (* the messages given to the tracker's handler                *)
  written     (* how many messages each child has printed                   *)

threadVars == <<tpc, reading, got>>
procVars == <<handler, child, holds, written>>
fdVars == <<rfd, fds, wr>>
vars == <<handler, tpc, dpc, exiting, child, child_pid, rfd, fds, wr, holds, pipe, buf,
          reading, got, handled, written>>

Chunk == Trackers \X (1..MaxChunks)
Alive == {"running", "interrupted"}
Readers == {"thread", "destructor"}

Init ==
  /\ handler \in [Trackers -> IF "no_handler" \in Hazards THEN BOOLEAN ELSE {TRUE}]
  /\ tpc = [t \in Trackers |-> "none"]
  /\ dpc = [t \in Trackers |-> "alive"]
  /\ exiting = [t \in Trackers |-> FALSE]
  /\ child = [t \in Trackers |-> "none"]
  /\ child_pid \in [Trackers -> GarbagePids]
  /\ rfd \in [Trackers -> GarbageFDs]
  /\ fds = [f \in FDs |-> None]
  /\ wr = {}
  /\ holds = [t \in Trackers |-> {}]
  /\ pipe = [t \in Trackers |-> << >>]
  /\ buf = [t \in Trackers |-> << >>]
  /\ reading = [r \in Readers |-> [t \in Trackers |-> None]]
  /\ got = [r \in Readers |-> [t \in Trackers |-> 0]]
  /\ handled = [t \in Trackers |-> << >>]
  /\ written = [t \in Trackers |-> 0]

(***************************************************************************)
(* Pipes.                                                                  *)
(***************************************************************************)
HasWriter(p) == p \in wr \/ \E t \in Trackers : p \in holds[t]

(* The pipe behind a descriptor number, None if the number is not open. *)
PipeOf(f) == IF f = None THEN None ELSE fds[f]

(* Mutant: what is read goes after what an earlier read left. *)
AppendTo(b, s) == b \o s

(* The first bytes of a buffer are overwritten, the others stay. *)
Overwrite(b, s) == s \o SubSeq(b, Len(s) + 1, Len(b))

(* read() returns what is in the pipe, into the tracker's buffer. *)
ReadReturns(r, t) ==
  LET p == reading[r][t]
  IN  /\ pipe[p] # << >>
      /\ buf' = [buf EXCEPT ![t] = Overwrite(@, pipe[p])]
      /\ got' = [got EXCEPT ![r][t] = Len(pipe[p])]
      /\ pipe' = [pipe EXCEPT ![p] = << >>]

ReadSeesEnd(r, t) ==
  /\ pipe[reading[r][t]] = << >>
  /\ ~HasWriter(reading[r][t])
  /\ UNCHANGED <<buf, got, pipe>>

(* handle_message_event(std::string(stdout_pipe_buf, read_bytes)) *)
HandleMessage(r, t) ==
  handled' = IF handler[t]
             THEN [handled EXCEPT ![t] = @ \o SubSeq(buf[t], 1, got[r][t])]
             ELSE handled

(***************************************************************************)
(* The tracker's thread: start_tracker.                                    *)
(***************************************************************************)
ThreadGoes(t, l) == tpc' = [tpc EXCEPT ![t] = l]

(* The manager's callers start and erase trackers one after the other. *)
NoStopUnderWay == \A t \in Trackers : dpc[t] \in {"alive", "freed"}

Launch(t) ==
  /\ tpc[t] = "none"
  /\ NoStopUnderWay
  /\ ThreadGoes(t, "pipe")
  /\ UNCHANGED <<dpc, exiting, procVars, child_pid, fdVars, pipe, buf, reading, got, handled>>

(* Has a tracker that made its pipe still got this number written down? *)
Remembered(f) == \E t \in Trackers : tpc[t] \notin {"none", "pipe"} /\ rfd[t] = f

(* Mutant: stdout_pipe_fd is shared by the trackers. *)
MakeSharedPipe(t) ==
  /\ tpc[t] = "pipe"
  /\ "fork_race" \in Hazards \/ wr = {}
  /\ \E f \in FDs : /\ fds[f] = None
                    /\ fds' = [fds EXCEPT ![f] = t]
                    /\ rfd' = [u \in Trackers |-> f]
  /\ wr' = wr \union {t}
  /\ ThreadGoes(t, "fork")
  /\ UNCHANGED <<dpc, exiting, procVars, child_pid, pipe, buf, reading, got, handled>>

MakePipe(t) ==
  /\ tpc[t] = "pipe"
  /\ "fork_race" \in Hazards \/ wr = {}
  /\ \E f \in FDs :
       /\ fds[f] = None
       /\ "fd_reuse" \in Hazards \/ ~Remembered(f)
       /\ fds' = [fds EXCEPT ![f] = t]
       /\ rfd' = [rfd EXCEPT ![t] = f]
  /\ wr' = wr \union {t}
  /\ ThreadGoes(t, "fork")
  /\ UNCHANGED <<dpc, exiting, procVars, child_pid, pipe, buf, reading, got, handled>>

PipeFails(t) ==
  /\ "fork_fails" \in Hazards
  /\ tpc[t] = "pipe"
  /\ ThreadGoes(t, "done")
  /\ UNCHANGED <<dpc, exiting, procVars, child_pid, fdVars, pipe, buf, reading, got, handled>>

Fork(t) ==
  /\ tpc[t] = "fork"
  /\ child' = [child EXCEPT ![t] = "running"]
  /\ holds' = [holds EXCEPT ![t] = wr]
  /\ ThreadGoes(t, "forked")
  /\ UNCHANGED <<handler, dpc, exiting, written, child_pid, fdVars, pipe, buf, reading, got, handled>>

ForkFails(t) ==
  /\ "fork_fails" \in Hazards
  /\ tpc[t] = "fork"
  /\ fds' = [fds EXCEPT ![rfd[t]] = None]
  /\ wr' = wr \ {t}
  /\ ThreadGoes(t, "done")
  /\ UNCHANGED <<dpc, exiting, procVars, child_pid, rfd, pipe, buf, reading, got, handled>>

NotePid(t) ==
  /\ tpc[t] = "forked"
  /\ child_pid' = [child_pid EXCEPT ![t] = t]
  /\ ThreadGoes(t, "close")
  /\ UNCHANGED <<dpc, exiting, procVars, fdVars, pipe, buf, reading, got, handled>>

(* Mutant: the parent keeps its copy of the write end. *)
KeepWriteEnd(t) ==
  /\ tpc[t] = "close"
  /\ ThreadGoes(t, "test")
  /\ UNCHANGED <<dpc, exiting, procVars, child_pid, fdVars, pipe, buf, reading, got, handled>>

CloseWriteEnd(t) ==
  /\ tpc[t] = "close"
  /\ wr' = wr \ {t}
  /\ ThreadGoes(t, "test")
  /\ UNCHANGED <<dpc, exiting, procVars, child_pid, rfd, fds, pipe, buf, reading, got, handled>>

(* Mutant: a failed read counts as a read under way. *)
ReadAlwaysOpens(t) == ~exiting[t]

(* while (!exiting && read(...) > 0): read of a closed descriptor fails. *)
ReadOpens(t) == ~exiting[t] /\ PipeOf(rfd[t]) # None

TestExiting(t) ==
  /\ tpc[t] = "test"
  /\ IF ReadOpens(t)
     THEN /\ reading' = [reading EXCEPT !["thread"][t] = PipeOf(rfd[t])]
          /\ ThreadGoes(t, "read")
     ELSE UNCHANGED reading /\ ThreadGoes(t, "done")
  /\ UNCHANGED <<dpc, exiting, procVars, child_pid, fdVars, pipe, buf, got, handled>>

ThreadReads(t) ==
  /\ tpc[t] = "read"
  /\ \/ ReadReturns("thread", t) /\ ThreadGoes(t, "handle")
     \/ ReadSeesEnd("thread", t) /\ ThreadGoes(t, "done")
  /\ UNCHANGED <<dpc, exiting, procVars, child_pid, fdVars, reading, handled>>

(* handle_message_event returns -1 when the tracker has no handler, and the
   thread returns with the message in hand.                                  *)
ThreadHandles(t) ==
  /\ tpc[t] = "handle"
  /\ HandleMessage("thread", t)
  /\ ThreadGoes(t, IF handler[t] THEN "test" ELSE "done")
  /\ UNCHANGED <<dpc, exiting, procVars, child_pid, fdVars, pipe, buf, reading, got>>

Thread(t) ==
  \/ MakePipe(t) \/ PipeFails(t) \/ Fork(t) \/ ForkFails(t) \/ NotePid(t)
  \/ CloseWriteEnd(t) \/ TestExiting(t) \/ ThreadReads(t) \/ ThreadHandles(t)

(***************************************************************************)
(* The destructor: ~tracker_alone_base in its async task, which the future *)
(* waits for without limit, then ~tracker_with_config.                     *)
(***************************************************************************)
DestructorGoes(t, l) == dpc' = [dpc EXCEPT ![t] = l]

(* Erased by /stop or with the manager's map: one tracker at a time. *)
Destroy(t) ==
  /\ dpc[t] = "alive"
  /\ tpc[t] # "none"
  /\ "early_stop" \in Hazards \/ tpc[t] \notin {"pipe", "fork", "forked"}
  /\ NoStopUnderWay
  /\ DestructorGoes(t, "interrupt")
  /\ UNCHANGED <<threadVars, exiting, procVars, child_pid, fdVars, pipe, buf, handled>>

(* Mutant: waitpid with WNOHANG before the child is told to die. *)
ReapEarly(t) ==
  /\ dpc[t] = "interrupt"
  /\ child' = [c \in Trackers |-> IF c = child_pid[t] /\ child[c] = "zombie"
                                  THEN "reaped"
                                  ELSE IF c = child_pid[t] /\ child[c] = "running"
                                  THEN "interrupted" ELSE child[c]]
  /\ DestructorGoes(t, "drain")
  /\ UNCHANGED <<handler, threadVars, exiting, holds, written, child_pid, fdVars, pipe, buf, handled>>

(* kill(child_pid, SIGINT), and a second's sleep for the last messages. *)
Interrupt(t) ==
  /\ dpc[t] = "interrupt"
  /\ child' = [c \in Trackers |-> IF c = child_pid[t] /\ child[c] = "running"
                                  THEN "interrupted" ELSE child[c]]
  /\ DestructorGoes(t, "drain")
  /\ UNCHANGED <<handler, threadVars, exiting, holds, written, child_pid, fdVars, pipe, buf, handled>>

Drain(t) ==
  /\ dpc[t] = "drain"
  /\ IF PipeOf(rfd[t]) # None
     THEN /\ reading' = [reading EXCEPT !["destructor"][t] = PipeOf(rfd[t])]
          /\ DestructorGoes(t, "read")
     ELSE UNCHANGED reading /\ DestructorGoes(t, "close")
  /\ UNCHANGED <<tpc, got, exiting, procVars, child_pid, fdVars, pipe, buf, handled>>

DestructorReads(t) ==
  /\ dpc[t] = "read"
  /\ \/ ReadReturns("destructor", t) /\ DestructorGoes(t, "handle")
     \/ ReadSeesEnd("destructor", t) /\ DestructorGoes(t, "close")
  /\ UNCHANGED <<tpc, exiting, procVars, child_pid, fdVars, reading, handled>>

DestructorHandles(t) ==
  /\ dpc[t] = "handle"
  /\ HandleMessage("destructor", t)
  /\ DestructorGoes(t, "close")
  /\ UNCHANGED <<threadVars, exiting, procVars, child_pid, fdVars, pipe, buf>>

CloseReadEnd(t) ==
  /\ dpc[t] = "close"
  /\ fds' = [f \in FDs |-> IF f = rfd[t] THEN None ELSE fds[f]]
  /\ DestructorGoes(t, "kill")
  /\ UNCHANGED <<threadVars, exiting, procVars, child_pid, rfd, wr, pipe, buf, handled>>

(* kill(child_pid, SIGKILL): the kernel closes what the child had open. *)
Kill(t) ==
  /\ dpc[t] = "kill"
  /\ child' = [c \in Trackers |-> IF c = child_pid[t] /\ child[c] \in Alive
                                  THEN "zombie" ELSE child[c]]
  /\ holds' = [c \in Trackers |-> IF c = child_pid[t] THEN {} ELSE holds[c]]
  /\ DestructorGoes(t, "wait")
  /\ UNCHANGED <<handler, threadVars, exiting, written, child_pid, fdVars, pipe, buf, handled>>

(* Mutant: the child is not waited for. *)
SkipWait(t) ==
  /\ dpc[t] = "wait"
  /\ DestructorGoes(t, "flag")
  /\ UNCHANGED <<threadVars, exiting, procVars, child_pid, fdVars, pipe, buf, handled>>

(* waitpid(child_pid): fails at once if there is no such child. *)
Wait(t) ==
  /\ dpc[t] = "wait"
  /\ LET c == child_pid[t]
     IN  IF c \in Trackers /\ child[c] \notin {"none", "reaped"}
         THEN child[c] = "zombie" /\ child' = [child EXCEPT ![c] = "reaped"]
         ELSE UNCHANGED child
  /\ DestructorGoes(t, "flag")
  /\ UNCHANGED <<handler, threadVars, exiting, holds, written, child_pid, fdVars, pipe, buf, handled>>

(* ~tracker_with_config: stop_tracker sets the flag and joins the thread. *)
SetExiting(t) ==
  /\ dpc[t] = "flag"
  /\ exiting' = [exiting EXCEPT ![t] = TRUE]
  /\ DestructorGoes(t, "join")
  /\ UNCHANGED <<threadVars, procVars, child_pid, fdVars, pipe, buf, handled>>

Join(t) ==
  /\ dpc[t] = "join"
  /\ tpc[t] = "done"
  /\ DestructorGoes(t, "freed")
  /\ UNCHANGED <<threadVars, exiting, procVars, child_pid, fdVars, pipe, buf, handled>>

Destructor(t) ==
  \/ Interrupt(t) \/ Drain(t) \/ DestructorReads(t) \/ DestructorHandles(t)
  \/ CloseReadEnd(t) \/ Kill(t) \/ Wait(t) \/ SetExiting(t) \/ Join(t)

(***************************************************************************)
(* The child: main_func of a BPF tool, with its output on the pipe.        *)
(***************************************************************************)
ChildPrints(t) ==
  /\ child[t] \in Alive
  /\ written[t] < MaxChunks
  /\ \E f \in FDs : fds[f] = t
  /\ written' = [written EXCEPT ![t] = @ + 1]
  /\ pipe' = [pipe EXCEPT ![t] = Append(@, <<t, written[t] + 1>>)]
  /\ UNCHANGED <<handler, threadVars, dpc, exiting, child, holds, child_pid, fdVars, buf, handled>>

Ends(t) ==
  /\ child' = [child EXCEPT ![t] = "zombie"]
  /\ holds' = [holds EXCEPT ![t] = {}]
  /\ UNCHANGED <<handler, threadVars, dpc, exiting, written, child_pid, fdVars, pipe, buf, handled>>

(* The tool gives up by itself, for instance when its program does not load. *)
ChildGivesUp(t) == child[t] = "running" /\ Ends(t)

(* The tool's SIGINT handler ends its loop. *)
ChildObeys(t) == child[t] = "interrupted" /\ Ends(t)

Next ==
  \E t \in Trackers :
    \/ Launch(t) \/ Thread(t) \/ Destroy(t) \/ Destructor(t)
    \/ ChildPrints(t) \/ ChildGivesUp(t) \/ ChildObeys(t)

Fairness ==
  \A t \in Trackers : WF_vars(Thread(t)) /\ WF_vars(Destructor(t)) /\ WF_vars(ChildObeys(t))

Spec == Init /\ [][Next]_vars
FairSpec == Spec /\ Fairness

-----------------------------------------------------------------------------
(***************************************************************************)
(* Properties.                                                             *)
(***************************************************************************)

(* Every variable keeps its shape; who reads, reads a pipe. *)
TypeOK ==
  /\ handler \in [Trackers -> BOOLEAN]
  /\ tpc \in [Trackers -> {"none", "pipe", "fork", "forked", "close", "test",
                           "read", "handle", "done"}]
  /\ dpc \in [Trackers -> {"alive", "interrupt", "drain", "read", "handle", "close",
                           "kill", "wait", "flag", "join", "freed"}]
  /\ exiting \in [Trackers -> BOOLEAN]
  /\ child \in [Trackers -> {"none", "zombie", "reaped"} \union Alive]
  /\ child_pid \in [Trackers -> Trackers \union {None}]
  /\ rfd \in [Trackers -> FDs \union {None}]
  /\ fds \in [FDs -> Trackers \union {None}]
  /\ wr \in SUBSET Trackers
  /\ holds \in [Trackers -> SUBSET Trackers]
  /\ pipe \in [Trackers -> Seq(Chunk)]
  /\ buf \in [Trackers -> Seq(Chunk)]
  /\ handled \in [Trackers -> Seq(Chunk)]
  /\ written \in [Trackers -> 0..MaxChunks]
  /\ \A t \in Trackers : /\ tpc[t] = "read" => reading["thread"][t] \in Trackers
                         /\ dpc[t] = "read" => reading["destructor"][t] \in Trackers

(* When the destructor is through, nothing of the tracker is left, whichever
   of its steps failed: its thread has returned, its child, if it had one, is
   reaped, and the agent has closed both ends of its pipe.                   *)
FreedIsClean ==
  \A t \in Trackers :
    dpc[t] = "freed" =>
      /\ tpc[t] = "done"
      /\ child[t] \in {"none", "reaped"}
      /\ t \notin wr
      /\ \A f \in FDs : fds[f] # t

(* When the fork worked, the two kills and the waitpid of the destructor name
   the tracker's own child, which nobody has reaped: its pid cannot have been
   given to another process.                                                 *)
SignalsOnlyItsChild ==
  \A t \in Trackers :
    (dpc[t] \in {"interrupt", "kill", "wait"} /\ child[t] # "none") =>
      child_pid[t] = t /\ child[t] # "reaped"

(* Until a tracker is destroyed no message is lost, repeated or reordered:
   what its handler got, then what the thread has read, then what the pipe
   holds is what its child has printed. A tracker without a handler stops
   reading at the first message.                                             *)
InHand(t) == IF tpc[t] = "handle" THEN SubSeq(buf[t], 1, got["thread"][t]) ELSE << >>

NothingLost ==
  \A t \in Trackers :
    dpc[t] = "alive" /\ handler[t] =>
      handled[t] \o InHand(t) \o pipe[t] = [i \in 1..written[t] |-> <<t, i>>]

(* A tracker's handler gets the messages of the tracker's own child only
   (tracker_alone.h: run tracker as a standalone process, and communicate
   with pipe).                                                               *)
OwnMessages ==
  \A t \in Trackers : \A i \in 1..Len(handled[t]) : handled[t][i][1] = t

(* Destroying a tracker comes to an end (tracker.h: stop the tracker thread). *)
StopEnds ==
  \A t \in Trackers : (dpc[t] = "interrupt") ~> (dpc[t] = "freed")
=============================================================================
