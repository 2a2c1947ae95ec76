------------------------ MODULE TrackerAlone_proofs ------------------------
(***************************************************************************)
(* Theorems about TrackerAlone, for any number of trackers, descriptors    *)
(* and messages. A theorem names the situations it leaves out, and those   *)
(* only: whatever else may go wrong, does.                                 *)
(***************************************************************************)
EXTENDS TrackerAlone, SequenceTheorems, TLAPS

(***************************************************************************)
(* What the theorems leave out.                                            *)
(***************************************************************************)

(* No tracker is erased before its thread has forked. *)
NoEarlyStop == "early_stop" \notin Hazards

(* Where pipe or fork can fail, child_pid starts as no process's pid. *)
NoGarbagePid == "fork_fails" \in Hazards => GarbagePids \subseteq {None}

(* pipe() gives no number that a tracker still has written down, and where
   pipe can fail, stdout_pipe_fd starts as no descriptor's number.           *)
NoForeignFD ==
  /\ "fd_reuse" \notin Hazards
  /\ "fork_fails" \in Hazards => GarbageFDs \subseteq {None}

(***************************************************************************)
(* The inductive invariants.                                               *)
(***************************************************************************)

(* What was read is in the buffer, which never shrinks. *)
TypeInv ==
  /\ TypeOK
  /\ reading \in [Readers -> [Trackers -> Trackers \union {None}]]
  /\ got \in [Readers -> [Trackers -> Nat]]
  /\ \A r \in Readers, t \in Trackers : got[r][t] <= Len(buf[t])

BeforeFork == {"none", "pipe", "fork"}
BeforeClose == {"alive", "interrupt", "drain", "read", "handle", "close"}

(* A destructor meets a thread that has its child, or will never have one. *)
ForkedIsKnown ==
  \A t \in Trackers :
    /\ dpc[t] # "alive" => tpc[t] \notin BeforeFork \union {"forked"}
    /\ tpc[t] \in BeforeFork => child[t] = "none"
    /\ tpc[t] # "forked" /\ child[t] # "none" => child_pid[t] = t

(* An end of a pipe is open only as long as somebody is to close it. *)
EndsAreClosed ==
  \A t \in Trackers :
    /\ t \in wr => tpc[t] \in {"fork", "forked", "close"}
    /\ \A f \in FDs : fds[f] = t => /\ rfd[t] = f
                                    /\ tpc[t] \notin {"none", "pipe"}
                                    /\ dpc[t] \in BeforeClose

(* How far the destructor is tells what is left of the child. *)
ChildIsEnded ==
  \A t \in Trackers :
    /\ dpc[t] = "wait" => child[t] \in {"none", "zombie", "reaped"}
    /\ dpc[t] \in {"flag", "join", "freed"} => child[t] \in {"none", "reaped"}
    /\ dpc[t] = "freed" => tpc[t] = "done"

CleanInv == ForkedIsKnown /\ EndsAreClosed /\ ChildIsEnded

(* A destructor knows no child but its own, and reaps it last. *)
PidsInv ==
  \A t \in Trackers :
    /\ child_pid[t] \in GarbagePids \/ tpc[t] \notin BeforeFork \union {"forked"}
    /\ tpc[t] \in BeforeFork \union {"forked"} \/ child_pid[t] \in {t, None}
    /\ dpc[t] \in {"flag", "join", "freed"} \/ child[t] # "reaped"

(* The number a tracker has written down is its own pipe's or nobody's, so
   that nobody reads another tracker's pipe.                                 *)
NumbersInv ==
  \A t \in Trackers :
    /\ tpc[t] \in {"none", "pipe"} => rfd[t] \in GarbageFDs
    /\ tpc[t] \notin {"none", "pipe"} => PipeOf(rfd[t]) \in {t, None}
    /\ \A r \in Readers : reading[r][t] \in {t, None}

Own(s, t) == \A i \in 1..Len(s) : s[i][1] = t
OwnInv == \A t \in Trackers : Own(pipe[t], t) /\ Own(buf[t], t) /\ Own(handled[t], t)

-----------------------------------------------------------------------------
(* What is read is at the front of the buffer, and the buffer holds nothing
   else than before.                                                         *)
LEMMA OverwriteFacts ==
  ASSUME NEW S, NEW b \in Seq(S), NEW s \in Seq(S)
  PROVE  /\ Overwrite(b, s) \in Seq(S)
         /\ Len(s) <= Len(Overwrite(b, s)) /\ Len(b) <= Len(Overwrite(b, s))
         /\ SubSeq(Overwrite(b, s), 1, Len(s)) = s
         /\ \A i \in 1..Len(Overwrite(b, s)) :
              \/ i \in 1..Len(s) /\ Overwrite(b, s)[i] = s[i]
              \/ i \in 1..Len(b) /\ Overwrite(b, s)[i] = b[i]
<1> DEFINE rest == SubSeq(b, Len(s) + 1, Len(b))
<1>1. CASE Len(s) < Len(b)
  <2>1. rest \in Seq(S) /\ Len(rest) = Len(b) - Len(s)
        /\ \A i \in 1..Len(rest) : rest[i] = b[Len(s) + i]
    BY <1>1
  <2> HIDE DEF rest
  <2>2. Overwrite(b, s) = s \o rest
    BY DEF Overwrite, rest
  <2>3. s \o rest \in Seq(S) /\ Len(s \o rest) = Len(b)
        /\ \A i \in 1..Len(b) : (s \o rest)[i] = IF i <= Len(s) THEN s[i] ELSE rest[i - Len(s)]
    BY <1>1, <2>1
  <2>4. SubSeq(s \o rest, 1, Len(s)) = s
    BY <1>1, <2>1, <2>3
  <2>5. \A i \in 1..Len(b) : i <= Len(s) \/ (s \o rest)[i] = b[i]
    BY <1>1, <2>1, <2>3
  <2> QED BY <1>1, <2>2, <2>3, <2>4, <2>5
<1>2. CASE Len(b) <= Len(s)
  <2>1. rest = << >>
    BY <1>2
  <2> HIDE DEF rest
  <2>2. Overwrite(b, s) = s \o rest /\ s \o << >> = s
    BY DEF Overwrite, rest
  <2>3. SubSeq(s, 1, Len(s)) = s
    OBVIOUS
  <2> QED BY <1>2, <2>1, <2>2, <2>3
<1> QED BY <1>1, <1>2

(* An entry of one reader for one tracker changes, and no other. *)
LEMMA ExceptTwice ==
  ASSUME NEW R, NEW T, NEW V, NEW f \in [R -> [T -> V]], NEW r \in R, NEW t \in T, NEW v \in V
  PROVE  /\ [f EXCEPT ![r][t] = v] \in [R -> [T -> V]]
         /\ \A q \in R, u \in T :
              [f EXCEPT ![r][t] = v][q][u] = IF q = r /\ u = t THEN v ELSE f[q][u]
<1>1. [f EXCEPT ![r][t] = v] = [f EXCEPT ![r] = [f[r] EXCEPT ![t] = v]]
  OBVIOUS
<1>2. [f[r] EXCEPT ![t] = v] \in [T -> V]
  OBVIOUS
<1> QED BY <1>1, <1>2

(***************************************************************************)
(* Types.                                                                  *)
(***************************************************************************)
(* Every variable starts in its type. *)
LEMMA InitType == Init => TypeInv
<1> SUFFICES ASSUME Init PROVE TypeInv
  OBVIOUS
<1>1. handler \in [Trackers -> BOOLEAN]
  BY DEF Init
<1>2. << >> \in Seq(Chunk) /\ Len(<< >>) = 0 /\ 0 \in 0..MaxChunks
  BY ConstantsAssumption
<1>3. child_pid \in [Trackers -> Trackers \union {None}] /\ rfd \in [Trackers -> FDs \union {None}]
  BY ConstantsAssumption DEF Init
<1>4. TypeOK
  BY <1>1, <1>2, <1>3 DEF Init, TypeOK
<1>5. \A r \in Readers, t \in Trackers : got[r][t] <= Len(buf[t])
  BY <1>2 DEF Init
<1> QED BY <1>4, <1>5 DEF Init, TypeInv

(* What read() returns keeps the shapes of pipe and buffer. *)
LEMMA ReadType ==
  ASSUME TypeInv, NEW r \in Readers, NEW t \in Trackers, reading[r][t] \in Trackers,
         ReadReturns(r, t)
  PROVE  /\ pipe' \in [Trackers -> Seq(Chunk)] /\ buf' \in [Trackers -> Seq(Chunk)]
         /\ got' \in [Readers -> [Trackers -> Nat]]
         /\ \A q \in Readers, u \in Trackers : got'[q][u] <= Len(buf'[u])
<1> DEFINE s == pipe[reading[r][t]]
<1>1. s \in Seq(Chunk) /\ Len(s) \in Nat /\ buf[t] \in Seq(Chunk)
  BY DEF TypeInv, TypeOK
<1>2. /\ buf' = [buf EXCEPT ![t] = Overwrite(buf[t], s)]
      /\ got' = [got EXCEPT ![r][t] = Len(s)]
      /\ pipe' = [pipe EXCEPT ![reading[r][t]] = << >>]
  BY DEF ReadReturns
<1> HIDE DEF s
<1>3. /\ Overwrite(buf[t], s) \in Seq(Chunk)
      /\ Len(s) <= Len(Overwrite(buf[t], s)) /\ Len(buf[t]) <= Len(Overwrite(buf[t], s))
  BY <1>1, OverwriteFacts
<1> HIDE DEF Overwrite
<1>4. << >> \in Seq(Chunk)
  OBVIOUS
<1>5. pipe' \in [Trackers -> Seq(Chunk)] /\ buf' \in [Trackers -> Seq(Chunk)]
  BY <1>2, <1>3, <1>4 DEF TypeInv, TypeOK
<1>6. got' \in [Readers -> [Trackers -> Nat]]
  BY <1>1, <1>2 DEF TypeInv
<1>7. ASSUME NEW q \in Readers, NEW u \in Trackers
      PROVE  got'[q][u] <= Len(buf'[u])
  <2>1. Len(buf[u]) \in Nat /\ Len(buf'[u]) \in Nat /\ got[q][u] \in Nat /\ got[q][u] <= Len(buf[u])
    <3>1. buf[u] \in Seq(Chunk) /\ buf'[u] \in Seq(Chunk)
      BY <1>5 DEF TypeInv, TypeOK
    <3>2. got[q][u] \in Nat /\ got[q][u] <= Len(buf[u])
      BY DEF TypeInv
    <3> QED BY <3>1, <3>2
  <2>2. CASE u = t /\ q = r
    BY <1>2, <1>3, <2>2 DEF TypeInv, TypeOK
  <2>3. CASE u = t /\ q # r
    BY <1>2, <1>3, <2>1, <2>3 DEF TypeInv, TypeOK
  <2>4. CASE u # t
    BY <1>2, <2>1, <2>4 DEF TypeInv, TypeOK
  <2> QED BY <2>2, <2>3, <2>4
<1> QED BY <1>5, <1>6, <1>7

(* So does the start of a read. *)
LEMMA OpenType ==
  ASSUME TypeInv, NEW r \in Readers, NEW t \in Trackers, NEW p \in Trackers,
         reading' = [reading EXCEPT ![r][t] = p]
  PROVE  /\ reading' \in [Readers -> [Trackers -> Trackers \union {None}]]
         /\ \A q \in Readers, u \in Trackers :
              reading'[q][u] = IF q = r /\ u = t THEN p ELSE reading[q][u]
<1> DEFINE V == Trackers \union {None}
<1>1. reading \in [Readers -> [Trackers -> V]] /\ p \in V
  BY DEF TypeInv
<1> HIDE DEF V
<1>2. /\ reading' \in [Readers -> [Trackers -> V]]
      /\ \A q \in Readers, u \in Trackers :
           reading'[q][u] = IF q = r /\ u = t THEN p ELSE reading[q][u]
  BY <1>1, ExceptTwice
<1> QED BY <1>2 DEF V

(* And what the handler is given. *)
LEMMA HandleType ==
  ASSUME TypeInv, NEW r \in Readers, NEW t \in Trackers, HandleMessage(r, t)
  PROVE  handled' \in [Trackers -> Seq(Chunk)]
<1> DEFINE m == SubSeq(buf[t], 1, got[r][t])
<1>1. m \in Seq(Chunk)
  <2>1. buf[t] \in Seq(Chunk) /\ got[r][t] \in Nat /\ got[r][t] <= Len(buf[t])
    BY DEF TypeInv, TypeOK
  <2>2. \A b \in Seq(Chunk), n \in Nat : n <= Len(b) => SubSeq(b, 1, n) \in Seq(Chunk)
    OBVIOUS
  <2> QED BY <2>1, <2>2
<1>2. handled' = [handled EXCEPT ![t] = handled[t] \o m] \/ handled' = handled
  BY DEF HandleMessage
<1> HIDE DEF m
<1>3. handled[t] \o m \in Seq(Chunk)
  <2>1. \A b, c \in Seq(Chunk) : b \o c \in Seq(Chunk)
    OBVIOUS
  <2> QED BY <1>1, <2>1 DEF TypeInv, TypeOK
<1> QED BY <1>2, <1>3 DEF TypeInv, TypeOK

(* Every step keeps the shape of the state. *)
LEMMA NextType == TypeInv /\ [Next]_vars => TypeInv'
<1> SUFFICES ASSUME TypeInv, [Next]_vars PROVE TypeInv'
  OBVIOUS
<1> USE DEF TypeInv, TypeOK
<1>1. CASE UNCHANGED vars
  BY <1>1 DEF vars
<1>2. ASSUME NEW t \in Trackers, Thread(t) \/ Launch(t) PROVE TypeInv'
  <2> USE DEF threadVars, procVars, fdVars, ThreadGoes
  <2>1. CASE Launch(t)
    BY <2>1 DEF Launch
  <2>2. CASE MakePipe(t)
    BY <2>2 DEF MakePipe
  <2>3. CASE PipeFails(t)
    BY <2>3 DEF PipeFails
  <2>4. CASE Fork(t)
    BY <2>4 DEF Fork, Alive
  <2>5. CASE ForkFails(t)
    BY <2>5 DEF ForkFails
  <2>6. CASE NotePid(t)
    BY <2>6 DEF NotePid
  <2>7. CASE CloseWriteEnd(t)
    BY <2>7 DEF CloseWriteEnd
  <2>8. CASE TestExiting(t)
    <3>1. PipeOf(rfd[t]) # None => PipeOf(rfd[t]) \in Trackers
      BY DEF PipeOf
    <3>2. "thread" \in Readers /\ "destructor" \in Readers
      BY DEF Readers
    <3>3. CASE ~(ReadOpens(t))
      BY <2>8, <3>3 DEF TestExiting
    <3>4. CASE ReadOpens(t)
      <4>1. PICK p \in Trackers : p = PipeOf(rfd[t])
        BY <3>1, <3>4 DEF ReadOpens
      <4>2. reading' = [reading EXCEPT !["thread"][t] = p]
        BY <2>8, <3>4, <4>1 DEF TestExiting
      <4>3. /\ reading' \in [Readers -> [Trackers -> Trackers \union {None}]]
            /\ \A r \in Readers, u \in Trackers :
                 reading'[r][u] = IF r = "thread" /\ u = t THEN p ELSE reading[r][u]
        BY <3>2, <4>2, OpenType
      <4> QED BY <2>8, <3>2, <3>4, <4>3 DEF TestExiting
    <3> QED BY <3>3, <3>4
  <2>9. CASE ThreadReads(t)
    <3>1. reading["thread"][t] \in Trackers /\ "thread" \in Readers
      BY <2>9 DEF ThreadReads, Readers
    <3>2. CASE ReadReturns("thread", t)
      BY <2>9, <3>1, <3>2, ReadType DEF ThreadReads
    <3>3. CASE ReadSeesEnd("thread", t)
      BY <2>9, <3>3 DEF ThreadReads, ReadSeesEnd
    <3> QED BY <2>9, <3>2, <3>3 DEF ThreadReads
  <2>10. CASE ThreadHandles(t)
    <3>1. handled' \in [Trackers -> Seq(Chunk)]
      BY <2>10, HandleType DEF ThreadHandles, Readers
    <3> QED BY <2>10, <3>1 DEF ThreadHandles
  <2> QED BY <1>2, <2>1, <2>2, <2>3, <2>4, <2>5, <2>6, <2>7, <2>8, <2>9, <2>10 DEF Thread
<1>3. ASSUME NEW t \in Trackers, Destroy(t) \/ Destructor(t) PROVE TypeInv'
  <2> USE DEF threadVars, procVars, fdVars, DestructorGoes
  <2>1. CASE Destroy(t)
    BY <2>1 DEF Destroy
  <2>2. CASE Interrupt(t)
    BY <2>2 DEF Interrupt, Alive
  <2>3. CASE Drain(t)
    <3>1. PipeOf(rfd[t]) # None => PipeOf(rfd[t]) \in Trackers
      BY DEF PipeOf
    <3>2. "thread" \in Readers /\ "destructor" \in Readers
      BY DEF Readers
    <3>3. CASE ~(PipeOf(rfd[t]) # None)
      BY <2>3, <3>3 DEF Drain
    <3>4. CASE PipeOf(rfd[t]) # None
      <4>1. PICK p \in Trackers : p = PipeOf(rfd[t])
        BY <3>1, <3>4
      <4>2. reading' = [reading EXCEPT !["destructor"][t] = p]
        BY <2>3, <3>4, <4>1 DEF Drain
      <4>3. /\ reading' \in [Readers -> [Trackers -> Trackers \union {None}]]
            /\ \A r \in Readers, u \in Trackers :
                 reading'[r][u] = IF r = "destructor" /\ u = t THEN p ELSE reading[r][u]
        BY <3>2, <4>2, OpenType
      <4> QED BY <2>3, <3>2, <3>4, <4>3 DEF Drain
    <3> QED BY <3>3, <3>4
  <2>4. CASE DestructorReads(t)
    <3>1. reading["destructor"][t] \in Trackers /\ "destructor" \in Readers
      BY <2>4 DEF DestructorReads, Readers
    <3>2. CASE ReadReturns("destructor", t)
      BY <2>4, <3>1, <3>2, ReadType DEF DestructorReads
    <3>3. CASE ReadSeesEnd("destructor", t)
      BY <2>4, <3>3 DEF DestructorReads, ReadSeesEnd
    <3> QED BY <2>4, <3>2, <3>3 DEF DestructorReads
  <2>5. CASE DestructorHandles(t)
    <3>1. handled' \in [Trackers -> Seq(Chunk)]
      BY <2>5, HandleType DEF DestructorHandles, Readers
    <3> QED BY <2>5, <3>1 DEF DestructorHandles
  <2>6. CASE CloseReadEnd(t)
    BY <2>6 DEF CloseReadEnd
  <2>7. CASE Kill(t)
    BY <2>7 DEF Kill, Alive
  <2>8. CASE Wait(t)
    BY <2>8 DEF Wait, Alive
  <2>9. CASE SetExiting(t)
    BY <2>9 DEF SetExiting
  <2>10. CASE Join(t)
    BY <2>10 DEF Join
  <2> QED BY <1>3, <2>1, <2>2, <2>3, <2>4, <2>5, <2>6, <2>7, <2>8, <2>9, <2>10 DEF Destructor
<1>4. ASSUME NEW t \in Trackers, ChildPrints(t) PROVE TypeInv'
  <2>1. <<t, written[t] + 1>> \in Chunk /\ written[t] + 1 \in 0..MaxChunks
    BY <1>4, ConstantsAssumption DEF ChildPrints, Chunk
  <2>2. \A s \in Seq(Chunk), e \in Chunk : Append(s, e) \in Seq(Chunk)
    OBVIOUS
  <2> HIDE DEF Chunk
  <2>3. pipe' \in [Trackers -> Seq(Chunk)] /\ written' \in [Trackers -> 0..MaxChunks]
    BY <1>4, <2>1, <2>2 DEF ChildPrints
  <2> QED BY <1>4, <2>3 DEF ChildPrints, threadVars, fdVars
<1>5. ASSUME NEW t \in Trackers, ChildGivesUp(t) \/ ChildObeys(t) PROVE TypeInv'
  <2>1. Ends(t)
    BY <1>5 DEF ChildGivesUp, ChildObeys
  <2>2. {} \in SUBSET Trackers /\ "zombie" \in {"none", "zombie", "reaped"} \union Alive
    OBVIOUS
  <2> QED BY <2>1, <2>2 DEF Ends, threadVars, fdVars
<1> QED BY <1>1, <1>2, <1>3, <1>4, <1>5 DEF Next

(***************************************************************************)
(* What a destroyed tracker leaves behind.                                 *)
(***************************************************************************)
(* At the start no thread runs and no destructor has begun. *)
LEMMA InitClean == Init => CleanInv
BY ConstantsAssumption DEF Init, CleanInv, ForkedIsKnown, EndsAreClosed, ChildIsEnded,
                           BeforeFork, BeforeClose

(* What the destructors and the child itself make of a child. *)
LEMMA ChildMoves ==
  ASSUME child \in [Trackers -> {"none", "zombie", "reaped"} \union Alive], NEW t \in Trackers
  PROVE  /\ Interrupt(t) => \A c \in Trackers :
              child'[c] = child[c] \/ (child[c] = "running" /\ child'[c] = "interrupted")
         /\ Kill(t) => \A c \in Trackers :
              /\ child'[c] = child[c] \/ (child[c] \in Alive /\ child'[c] = "zombie")
              /\ c = child_pid[t] => child'[c] \notin Alive
         /\ Wait(t) => \A c \in Trackers :
              /\ \/ child'[c] = child[c]
                 \/ c = child_pid[t] /\ child[c] = "zombie" /\ child'[c] = "reaped"
              /\ c = child_pid[t] => child'[c] \in {"none", "reaped"}
         /\ Ends(t) /\ child[t] \in Alive => \A c \in Trackers :
              child'[c] = child[c] \/ (child[c] \in Alive /\ child'[c] = "zombie")
<1>1. ASSUME Interrupt(t), NEW c \in Trackers
      PROVE  child'[c] = child[c] \/ (child[c] = "running" /\ child'[c] = "interrupted")
  BY <1>1 DEF Interrupt
<1>2. ASSUME Kill(t), NEW c \in Trackers
      PROVE  /\ child'[c] = child[c] \/ (child[c] \in Alive /\ child'[c] = "zombie")
             /\ c = child_pid[t] => child'[c] \notin Alive
  BY <1>2 DEF Kill, Alive
<1>3. ASSUME Wait(t), NEW c \in Trackers
      PROVE  /\ \/ child'[c] = child[c]
                \/ c = child_pid[t] /\ child[c] = "zombie" /\ child'[c] = "reaped"
             /\ c = child_pid[t] => child'[c] \in {"none", "reaped"}
  BY <1>3 DEF Wait
<1>4. ASSUME Ends(t), child[t] \in Alive, NEW c \in Trackers
      PROVE  child'[c] = child[c] \/ (child[c] \in Alive /\ child'[c] = "zombie")
  BY <1>4 DEF Ends
<1> QED BY <1>1, <1>2, <1>3, <1>4

(* Which number a tracker has, what its child is, and who is to close what:
   the thread makes it so and the destructor finds it so.                    *)
LEMMA NextClean ==
  ASSUME NoEarlyStop
  PROVE  TypeInv /\ CleanInv /\ [Next]_vars => CleanInv'
<1> SUFFICES ASSUME TypeInv, CleanInv, [Next]_vars PROVE CleanInv'
  OBVIOUS
<1> USE DEF TypeInv, TypeOK, CleanInv, ForkedIsKnown, EndsAreClosed, ChildIsEnded,
            BeforeFork, BeforeClose, Alive
<1>1. CASE UNCHANGED vars
  BY <1>1 DEF vars
<1>2. ASSUME NEW t \in Trackers, Thread(t) \/ Launch(t) PROVE CleanInv'
  <2> USE DEF threadVars, procVars, fdVars, ThreadGoes
  <2>1. CASE Launch(t)
    BY <2>1 DEF Launch
  <2>2. CASE MakePipe(t)
    BY <2>2, ConstantsAssumption DEF MakePipe
  <2>3. CASE PipeFails(t)
    BY <2>3 DEF PipeFails
  <2>4. CASE Fork(t)
    BY <2>4 DEF Fork
  <2>5. CASE ForkFails(t)
    BY <2>5, ConstantsAssumption DEF ForkFails
  <2>6. CASE NotePid(t)
    BY <2>6 DEF NotePid
  <2>7. CASE CloseWriteEnd(t)
    BY <2>7 DEF CloseWriteEnd
  <2>8. CASE TestExiting(t)
    BY <2>8 DEF TestExiting
  <2>9. CASE ThreadReads(t)
    BY <2>9 DEF ThreadReads
  <2>10. CASE ThreadHandles(t)
    BY <2>10 DEF ThreadHandles
  <2> QED BY <1>2, <2>1, <2>2, <2>3, <2>4, <2>5, <2>6, <2>7, <2>8, <2>9, <2>10 DEF Thread
<1>3. ASSUME NEW t \in Trackers, Destroy(t) \/ Destructor(t) PROVE CleanInv'
  <2> USE DEF threadVars, procVars, fdVars, DestructorGoes
  <2>1. CASE Destroy(t)
    BY <2>1 DEF Destroy, NoEarlyStop
  <2>2. CASE Interrupt(t)
    <3>1. /\ dpc[t] = "interrupt" /\ dpc' = [dpc EXCEPT ![t] = "drain"]
          /\ UNCHANGED <<tpc, child_pid, rfd, fds, wr>>
      BY <2>2 DEF Interrupt
    <3>2. \A c \in Trackers :
            child'[c] = child[c] \/ (child[c] = "running" /\ child'[c] = "interrupted")
      BY <2>2, ChildMoves
    <3>3. ForkedIsKnown'
      BY <3>1, <3>2
    <3>4. EndsAreClosed'
      BY <3>1
    <3>5. ChildIsEnded'
      BY <3>1, <3>2
    <3> QED BY <3>3, <3>4, <3>5
  <2>3. CASE Drain(t)
    <3>1. \E l \in {"read", "close"} : dpc' = [dpc EXCEPT ![t] = l]
      BY <2>3 DEF Drain
    <3> QED BY <2>3, <3>1 DEF Drain
  <2>4. CASE DestructorReads(t)
    <3>1. /\ \E l \in {"handle", "close"} : dpc' = [dpc EXCEPT ![t] = l]
          /\ dpc[t] = "read" /\ UNCHANGED <<tpc, child, child_pid, rfd, fds, wr>>
      BY <2>4 DEF DestructorReads
    <3> QED BY <3>1
  <2>5. CASE DestructorHandles(t)
    BY <2>5 DEF DestructorHandles
  <2>6. CASE CloseReadEnd(t)
    BY <2>6, ConstantsAssumption DEF CloseReadEnd
  <2>7. CASE Kill(t)
    BY <2>7 DEF Kill
  <2>8. CASE Wait(t)
    <3>1. /\ dpc[t] = "wait" /\ dpc' = [dpc EXCEPT ![t] = "flag"]
          /\ UNCHANGED <<tpc, child_pid, rfd, fds, wr>>
      BY <2>8 DEF Wait
    <3>2. \A c \in Trackers :
            /\ \/ child'[c] = child[c]
               \/ c = child_pid[t] /\ child[c] = "zombie" /\ child'[c] = "reaped"
            /\ c = child_pid[t] => child'[c] \in {"none", "reaped"}
      BY <2>8, ChildMoves
    <3>3. child'[t] \in {"none", "reaped"}
      BY <3>1, <3>2
    <3> QED BY <3>1, <3>2, <3>3
  <2>9. CASE SetExiting(t)
    BY <2>9 DEF SetExiting
  <2>10. CASE Join(t)
    BY <2>10 DEF Join
  <2> QED BY <1>3, <2>1, <2>2, <2>3, <2>4, <2>5, <2>6, <2>7, <2>8, <2>9, <2>10 DEF Destructor
<1>4. ASSUME NEW t \in Trackers, ChildPrints(t) \/ ChildGivesUp(t) \/ ChildObeys(t) PROVE CleanInv'
  <2>1. /\ \A c \in Trackers : \/ child'[c] = child[c]
                               \/ child[c] \in Alive /\ child'[c] = "zombie"
        /\ UNCHANGED <<tpc, dpc, child_pid, rfd, fds, wr>>
    <3>1. CASE ChildPrints(t)
      BY <3>1 DEF ChildPrints, threadVars, fdVars
    <3>2. CASE ChildGivesUp(t) \/ ChildObeys(t)
      BY <3>2, ChildMoves DEF ChildGivesUp, ChildObeys, Ends, threadVars, fdVars
    <3> QED BY <1>4, <3>1, <3>2
  <2>2. ForkedIsKnown'
    <3>1. \A c \in Trackers : child'[c] = "none" <=> child[c] = "none"
      BY <2>1
    <3> QED BY <2>1, <3>1
  <2>3. EndsAreClosed'
    BY <2>1
  <2>4. ChildIsEnded'
    BY <2>1
  <2> QED BY <2>2, <2>3, <2>4
<1> QED BY <1>1, <1>2, <1>3, <1>4 DEF Next

(***************************************************************************)
(* Signals.                                                                *)
(***************************************************************************)
(* At the start child_pid is what the memory held. *)
LEMMA InitPids == Init => PidsInv
BY DEF Init, PidsInv, BeforeFork

(* A tracker that never forked has nobody's pid, so that its destructor
   reaps nobody's child; the others have their child's.                      *)
LEMMA NextPids ==
  ASSUME NoEarlyStop, NoGarbagePid
  PROVE  TypeInv /\ CleanInv /\ PidsInv /\ [Next]_vars => PidsInv'
<1> SUFFICES ASSUME TypeInv, CleanInv, PidsInv, [Next]_vars PROVE PidsInv'
  OBVIOUS
<1> USE DEF TypeInv, TypeOK, PidsInv, BeforeFork
<1>1. CASE UNCHANGED vars
  BY <1>1 DEF vars
<1>2. ASSUME NEW t \in Trackers, Thread(t) \/ Launch(t) PROVE PidsInv'
  <2> USE DEF threadVars, procVars, fdVars, ThreadGoes
  <2>1. CASE Launch(t)
    BY <2>1 DEF Launch
  <2>2. CASE MakePipe(t)
    BY <2>2 DEF MakePipe
  <2>3. CASE PipeFails(t)
    BY <2>3, NoGarbagePid DEF PipeFails, NoGarbagePid
  <2>4. CASE Fork(t)
    BY <2>4 DEF Fork
  <2>5. CASE ForkFails(t)
    BY <2>5, NoGarbagePid DEF ForkFails, NoGarbagePid
  <2>6. CASE NotePid(t)
    BY <2>6 DEF NotePid
  <2>7. CASE CloseWriteEnd(t)
    BY <2>7 DEF CloseWriteEnd
  <2>8. CASE TestExiting(t)
    BY <2>8 DEF TestExiting
  <2>9. CASE ThreadReads(t)
    BY <2>9 DEF ThreadReads
  <2>10. CASE ThreadHandles(t)
    BY <2>10 DEF ThreadHandles
  <2> QED BY <1>2, <2>1, <2>2, <2>3, <2>4, <2>5, <2>6, <2>7, <2>8, <2>9, <2>10 DEF Thread
<1>3. ASSUME NEW t \in Trackers, Destroy(t) \/ Destructor(t) PROVE PidsInv'
  <2> USE DEF threadVars, procVars, fdVars, DestructorGoes
  <2>1. CASE Destroy(t)
    BY <2>1 DEF Destroy
  <2>2. CASE Interrupt(t)
    <3>1. \A c \in Trackers :
            child'[c] = child[c] \/ (child[c] = "running" /\ child'[c] = "interrupted")
      BY <2>2, ChildMoves
    <3> QED BY <2>2, <3>1 DEF Interrupt
  <2>3. CASE Drain(t)
    <3>1. \E l \in {"read", "close"} : dpc' = [dpc EXCEPT ![t] = l]
      BY <2>3 DEF Drain
    <3> QED BY <2>3, <3>1 DEF Drain
  <2>4. CASE DestructorReads(t)
    <3>1. /\ \E l \in {"handle", "close"} : dpc' = [dpc EXCEPT ![t] = l]
          /\ dpc[t] = "read" /\ UNCHANGED <<tpc, child, child_pid>>
      BY <2>4 DEF DestructorReads
    <3> QED BY <3>1
  <2>5. CASE DestructorHandles(t)
    BY <2>5 DEF DestructorHandles
  <2>6. CASE CloseReadEnd(t)
    BY <2>6 DEF CloseReadEnd
  <2>7. CASE Kill(t)
    <3>1. \A c \in Trackers : child'[c] = "reaped" => child[c] = "reaped"
      BY <2>7 DEF Kill
    <3> QED BY <2>7, <3>1 DEF Kill
  <2>8. CASE Wait(t)
    <3>1. \A c \in Trackers :
            \/ child'[c] = child[c]
            \/ c = child_pid[t] /\ child[c] = "zombie" /\ child'[c] = "reaped"
      BY <2>8, ChildMoves
    <3>2. child_pid[t] \in {t, None}
      BY <2>8 DEF Wait, CleanInv, ForkedIsKnown
    <3>3. \A c \in Trackers : c # t => child'[c] = child[c]
      BY <3>1, <3>2, ConstantsAssumption
    <3> QED BY <2>8, <3>3 DEF Wait
  <2>9. CASE SetExiting(t)
    BY <2>9 DEF SetExiting
  <2>10. CASE Join(t)
    BY <2>10 DEF Join
  <2> QED BY <1>3, <2>1, <2>2, <2>3, <2>4, <2>5, <2>6, <2>7, <2>8, <2>9, <2>10 DEF Destructor
<1>4. ASSUME NEW t \in Trackers, ChildPrints(t) \/ ChildGivesUp(t) \/ ChildObeys(t) PROVE PidsInv'
  <2>1. \A c \in Trackers : child'[c] = "reaped" => child[c] = "reaped"
    BY <1>4 DEF ChildPrints, ChildGivesUp, ChildObeys, Ends, procVars
  <2> QED BY <1>4, <2>1 DEF ChildPrints, ChildGivesUp, ChildObeys, Ends, threadVars, fdVars
<1> QED BY <1>1, <1>2, <1>3, <1>4 DEF Next

(***************************************************************************)
(* Messages.                                                               *)
(***************************************************************************)
(* A read is only ever opened on the pipe of the number written down. *)
LEMMA OpenedPipe ==
  ASSUME TypeInv, NEW t \in Trackers, TestExiting(t) \/ Drain(t)
  PROVE  \A r \in Readers, u \in Trackers :
           reading'[r][u] = reading[r][u] \/ (u = t /\ reading'[r][u] = PipeOf(rfd[t]))
<1>1. UNCHANGED reading \/ PipeOf(rfd[t]) # None
  BY DEF TestExiting, ReadOpens, Drain
<1>2. CASE UNCHANGED reading
  BY <1>2
<1>3. CASE PipeOf(rfd[t]) # None /\ reading' # reading
  <2>1. PICK p \in Trackers : p = PipeOf(rfd[t])
    BY <1>3 DEF PipeOf, TypeInv, TypeOK
  <2>2. PICK r \in Readers : reading' = [reading EXCEPT ![r][t] = p]
    BY <1>3, <2>1 DEF TestExiting, Drain, Readers
  <2> QED BY <2>1, <2>2, OpenType
<1> QED BY <1>1, <1>2, <1>3

(* No descriptor is open at the start. *)
LEMMA InitNumbers == Init => NumbersInv
BY DEF Init, NumbersInv

(* pipe() gives a number that nobody has written down, and whoever closes a
   number makes it nobody's.                                                 *)
LEMMA NextNumbers ==
  ASSUME NoEarlyStop, NoForeignFD
  PROVE  TypeInv /\ CleanInv /\ NumbersInv /\ [Next]_vars => NumbersInv'
<1> SUFFICES ASSUME TypeInv, CleanInv, NumbersInv, [Next]_vars PROVE NumbersInv'
  OBVIOUS
<1> USE ConstantsAssumption DEF TypeInv, TypeOK, NumbersInv, PipeOf
<1>1. CASE UNCHANGED vars
  BY <1>1 DEF vars
<1>2. ASSUME NEW t \in Trackers, Thread(t) \/ Launch(t) PROVE NumbersInv'
  <2> USE DEF threadVars, procVars, fdVars, ThreadGoes
  <2>1. CASE Launch(t)
    BY <2>1 DEF Launch
  <2>2. CASE MakePipe(t)
    BY <2>2, NoForeignFD DEF MakePipe, NoForeignFD, Remembered
  <2>3. CASE PipeFails(t)
    BY <2>3, NoForeignFD DEF PipeFails, NoForeignFD
  <2>4. CASE Fork(t)
    BY <2>4 DEF Fork
  <2>5. CASE ForkFails(t)
    BY <2>5 DEF ForkFails
  <2>6. CASE NotePid(t)
    BY <2>6 DEF NotePid
  <2>7. CASE CloseWriteEnd(t)
    BY <2>7 DEF CloseWriteEnd
  <2>8. CASE TestExiting(t)
    <3>1. PipeOf(rfd[t]) \in {t, None} /\ UNCHANGED <<rfd, fds>>
      BY <2>8 DEF TestExiting
    <3>2. \A r \in Readers, u \in Trackers : reading'[r][u] \in {u, None}
      <4> HIDE DEF PipeOf, TypeInv, TypeOK
      <4> QED BY <2>8, <3>1, OpenedPipe
    <3> QED BY <2>8, <3>1, <3>2 DEF TestExiting
  <2>9. CASE ThreadReads(t)
    BY <2>9 DEF ThreadReads
  <2>10. CASE ThreadHandles(t)
    BY <2>10 DEF ThreadHandles
  <2> QED BY <1>2, <2>1, <2>2, <2>3, <2>4, <2>5, <2>6, <2>7, <2>8, <2>9, <2>10 DEF Thread
<1>3. ASSUME NEW t \in Trackers, Destroy(t) \/ Destructor(t) PROVE NumbersInv'
  <2> USE DEF threadVars, procVars, fdVars, DestructorGoes
  <2>1. CASE Destroy(t)
    BY <2>1 DEF Destroy
  <2>2. CASE Interrupt(t)
    BY <2>2 DEF Interrupt
  <2>3. CASE Drain(t)
    <3>1. /\ tpc[t] \notin {"none", "pipe"} /\ PipeOf(rfd[t]) \in {t, None}
          /\ UNCHANGED <<tpc, rfd, fds>>
      BY <2>3 DEF Drain, CleanInv, ForkedIsKnown, BeforeFork
    <3>2. \A r \in Readers, u \in Trackers : reading'[r][u] \in {u, None}
      <4> HIDE DEF PipeOf, TypeInv, TypeOK
      <4> QED BY <2>3, <3>1, OpenedPipe
    <3> QED BY <3>1, <3>2
  <2>4. CASE DestructorReads(t)
    BY <2>4 DEF DestructorReads
  <2>5. CASE DestructorHandles(t)
    BY <2>5 DEF DestructorHandles
  <2>6. CASE CloseReadEnd(t)
    BY <2>6 DEF CloseReadEnd
  <2>7. CASE Kill(t)
    BY <2>7 DEF Kill
  <2>8. CASE Wait(t)
    BY <2>8 DEF Wait
  <2>9. CASE SetExiting(t)
    BY <2>9 DEF SetExiting
  <2>10. CASE Join(t)
    BY <2>10 DEF Join
  <2> QED BY <1>3, <2>1, <2>2, <2>3, <2>4, <2>5, <2>6, <2>7, <2>8, <2>9, <2>10 DEF Destructor
<1>4. ASSUME NEW t \in Trackers, ChildPrints(t) \/ ChildGivesUp(t) \/ ChildObeys(t) PROVE NumbersInv'
  BY <1>4 DEF ChildPrints, ChildGivesUp, ChildObeys, Ends, threadVars, fdVars
<1> QED BY <1>1, <1>2, <1>3, <1>4 DEF Next

(* Whoever reads, reads the tracker's own pipe. *)
LEMMA ReadsOwn ==
  ASSUME TypeInv, NumbersInv, NEW r \in Readers, NEW t \in Trackers,
         reading[r][t] \in Trackers, ReadReturns(r, t)
  PROVE  /\ pipe' = [pipe EXCEPT ![t] = << >>]
         /\ buf' = [buf EXCEPT ![t] = Overwrite(buf[t], pipe[t])]
         /\ got'[r][t] = Len(pipe[t])
         /\ \A u \in Trackers : u # t => got'["thread"][u] = got["thread"][u]
<1>1. reading[r][t] = t
  BY ConstantsAssumption DEF NumbersInv
<1>2. /\ pipe' = [pipe EXCEPT ![t] = << >>]
      /\ buf' = [buf EXCEPT ![t] = Overwrite(buf[t], pipe[t])]
      /\ got' = [got EXCEPT ![r][t] = Len(pipe[t])]
  BY <1>1 DEF ReadReturns
<1>3. Len(pipe[t]) \in Nat /\ "thread" \in Readers
  BY DEF TypeInv, TypeOK, Readers
<1>4. got \in [Readers -> [Trackers -> Nat]]
  BY DEF TypeInv
<1>5. \A q \in Readers, u \in Trackers :
        got'[q][u] = IF q = r /\ u = t THEN Len(pipe[t]) ELSE got[q][u]
  BY <1>2, <1>3, <1>4, ExceptTwice
<1> QED BY <1>2, <1>3, <1>5

(* No message has been read at the start. *)
LEMMA InitOwn == Init => OwnInv
BY DEF Init, OwnInv, Own

(* No step brings a message of another child into a tracker's hands. *)
LEMMA NextOwn == TypeInv /\ NumbersInv /\ OwnInv /\ [Next]_vars => OwnInv'
<1> SUFFICES ASSUME TypeInv, NumbersInv, OwnInv, [Next]_vars PROVE OwnInv'
  OBVIOUS
<1>1. ASSUME UNCHANGED <<pipe, buf, handled>> PROVE OwnInv'
  BY <1>1 DEF OwnInv, Own
<1>2. ASSUME NEW r \in Readers, NEW t \in Trackers, reading[r][t] \in Trackers,
             ReadReturns(r, t), UNCHANGED handled
      PROVE  OwnInv'
  <2>1. /\ pipe' = [pipe EXCEPT ![t] = << >>]
        /\ buf' = [buf EXCEPT ![t] = Overwrite(buf[t], pipe[t])]
    BY <1>2, ReadsOwn
  <2>2. /\ pipe[t] \in Seq(Chunk) /\ buf[t] \in Seq(Chunk)
        /\ pipe \in [Trackers -> Seq(Chunk)] /\ buf \in [Trackers -> Seq(Chunk)]
    BY DEF TypeInv, TypeOK
  <2>3. Own(Overwrite(buf[t], pipe[t]), t)
    <3>1. Own(buf[t], t) /\ Own(pipe[t], t)
      BY DEF OwnInv
    <3>2. \A i \in 1..Len(Overwrite(buf[t], pipe[t])) :
            \/ i \in 1..Len(pipe[t]) /\ Overwrite(buf[t], pipe[t])[i] = pipe[t][i]
            \/ i \in 1..Len(buf[t]) /\ Overwrite(buf[t], pipe[t])[i] = buf[t][i]
      BY <2>2, OverwriteFacts
    <3> HIDE DEF Overwrite
    <3> QED BY <3>1, <3>2 DEF Own
  <2>4. Own(<< >>, t)
    BY DEF Own
  <2>5. /\ buf'[t] = Overwrite(buf[t], pipe[t]) /\ pipe'[t] = << >>
        /\ \A u \in Trackers : u # t => buf'[u] = buf[u] /\ pipe'[u] = pipe[u]
    BY <2>1, <2>2
  <2>6. \A u \in Trackers : Own(pipe'[u], u) /\ Own(buf'[u], u) /\ Own(handled'[u], u)
    BY <1>2, <2>3, <2>4, <2>5 DEF OwnInv
  <2> QED BY <2>6 DEF OwnInv, Own
<1>3. ASSUME NEW r \in Readers, NEW t \in Trackers, HandleMessage(r, t), UNCHANGED <<pipe, buf>>
      PROVE  OwnInv'
  <2> DEFINE m == SubSeq(buf[t], 1, got[r][t])
  <2>1. buf[t] \in Seq(Chunk) /\ handled[t] \in Seq(Chunk) /\ got[r][t] \in Nat
        /\ got[r][t] <= Len(buf[t])
    BY DEF TypeInv, TypeOK
  <2>2. m \in Seq(Chunk) /\ Len(m) = got[r][t] /\ \A i \in 1..Len(m) : m[i] = buf[t][i]
    BY <2>1
  <2>3. handled' = [handled EXCEPT ![t] = handled[t] \o m] \/ UNCHANGED handled
    BY <1>3 DEF HandleMessage
  <2>4. Own(buf[t], t) /\ Own(handled[t], t)
    BY DEF OwnInv
  <2>5. Own(m, t)
    BY <2>1, <2>2, <2>4 DEF Own
  <2> HIDE DEF m
  <2>6. Own(handled[t] \o m, t)
    BY <2>1, <2>2, <2>4, <2>5 DEF Own
  <2>7. \A u \in Trackers : Own(handled'[u], u)
    BY <2>3, <2>6 DEF OwnInv, TypeInv, TypeOK
  <2> QED BY <1>3, <2>7 DEF OwnInv, Own
<1>4. ASSUME NEW t \in Trackers, ChildPrints(t) PROVE OwnInv'
  <2> DEFINE e == <<t, written[t] + 1>>
  <2>1. pipe' = [pipe EXCEPT ![t] = Append(pipe[t], e)] /\ UNCHANGED <<buf, handled>>
    BY <1>4 DEF ChildPrints
  <2>2. e[1] = t
    OBVIOUS
  <2>3. pipe[t] \in Seq(Chunk) /\ Own(pipe[t], t)
    BY DEF TypeInv, TypeOK, OwnInv
  <2> HIDE DEF e
  <2>4. Own(Append(pipe[t], e), t)
    BY <2>2, <2>3 DEF Own
  <2>5. \A u \in Trackers : Own(pipe'[u], u)
    BY <2>1, <2>4 DEF OwnInv, TypeInv, TypeOK
  <2> QED BY <2>1, <2>5 DEF OwnInv, Own
<1>5. ASSUME NEW t \in Trackers,
             \/ Launch(t) \/ Destroy(t) \/ ChildGivesUp(t) \/ ChildObeys(t)
             \/ MakePipe(t) \/ PipeFails(t) \/ Fork(t) \/ ForkFails(t) \/ NotePid(t)
             \/ CloseWriteEnd(t) \/ TestExiting(t)
             \/ Interrupt(t) \/ Drain(t) \/ CloseReadEnd(t) \/ Kill(t) \/ Wait(t)
             \/ SetExiting(t) \/ Join(t)
      PROVE  UNCHANGED <<pipe, buf, handled>>
  BY <1>5 DEF Launch, Destroy, ChildGivesUp, ChildObeys, Ends, MakePipe, PipeFails, Fork, ForkFails,
              NotePid, CloseWriteEnd, TestExiting, Interrupt, Drain, CloseReadEnd, Kill, Wait,
              SetExiting, Join
<1>6. ASSUME NEW t \in Trackers, ThreadReads(t) \/ DestructorReads(t) PROVE OwnInv'
  <2>1. \E r \in Readers : \/ reading[r][t] \in Trackers /\ ReadReturns(r, t)
                           \/ ReadSeesEnd(r, t)
    BY <1>6 DEF ThreadReads, DestructorReads, Readers, TypeInv, TypeOK
  <2>2. UNCHANGED handled
    BY <1>6 DEF ThreadReads, DestructorReads
  <2> QED BY <1>1, <1>2, <2>1, <2>2 DEF ReadSeesEnd
<1>7. ASSUME NEW t \in Trackers, ThreadHandles(t) \/ DestructorHandles(t) PROVE OwnInv'
  BY <1>3, <1>7 DEF ThreadHandles, DestructorHandles, Readers
<1>8. CASE UNCHANGED vars
  BY <1>1, <1>8 DEF vars
<1> QED BY <1>1, <1>4, <1>5, <1>6, <1>7, <1>8 DEF Next, Thread, Destructor

(* Moving what is between child and handler one place on moves nothing else. *)
LEMMA Moved ==
  ASSUME NEW S, NEW h \in Seq(S), NEW m \in Seq(S), NEW p \in Seq(S), NEW e \in S
  PROVE  /\ (h \o << >>) \o p = (h \o p) \o << >>
         /\ (h \o m) \o p = ((h \o m) \o << >>) \o p
         /\ (h \o m) \o Append(p, e) = Append((h \o m) \o p, e)
<1>1. h \o << >> = h /\ (h \o p) \o << >> = h \o p /\ (h \o m) \o << >> = h \o m
  <2>1. h \o p \in Seq(S) /\ h \o m \in Seq(S)
    OBVIOUS
  <2> QED BY <2>1, ConcatEmptySeq
<1>2. (h \o m) \o Append(p, e) = Append((h \o m) \o p, e)
  <2>1. h \o m \in Seq(S) /\ <<e>> \in Seq(S)
    OBVIOUS
  <2>2. (h \o m) \o p \in Seq(S)
    BY <2>1
  <2>3. (h \o m) \o Append(p, e) = (h \o m) \o (p \o <<e>>)
    BY AppendIsConcat
  <2>4. Append((h \o m) \o p, e) = ((h \o m) \o p) \o <<e>>
    BY <2>2, AppendIsConcat
  <2> QED BY <2>1, <2>3, <2>4, ConcatAssociative
<1> QED BY <1>1, <1>2

(* The messages a child has printed, when it prints one more. *)
LEMMA OneMore ==
  ASSUME NEW t, NEW n \in Nat
  PROVE  Append([i \in 1..n |-> <<t, i>>], <<t, n + 1>>) = [i \in 1..(n + 1) |-> <<t, i>>]
<1> DEFINE s(k) == [i \in 1..k |-> <<t, i>>]
           S == {t} \X Nat
<1>1. s(n) \in Seq(S) /\ s(n + 1) \in Seq(S) /\ <<t, n + 1>> \in S
  <2>1. \A k \in Nat : s(k) \in [1..k -> S]
    OBVIOUS
  <2> QED BY <2>1, SeqDef
<1>2. Len(s(n)) = n /\ Len(s(n + 1)) = n + 1
  OBVIOUS
<1>3. Append(s(n), <<t, n + 1>>) \in Seq(S) /\ Len(Append(s(n), <<t, n + 1>>)) = n + 1
  BY <1>1, <1>2, AppendProperties
<1>4. \A i \in 1..(n + 1) : Append(s(n), <<t, n + 1>>)[i] = s(n + 1)[i]
  <2>1. \A i \in 1..n : Append(s(n), <<t, n + 1>>)[i] = s(n)[i]
    BY <1>1, <1>2, AppendProperties
  <2>2. Append(s(n), <<t, n + 1>>)[n + 1] = <<t, n + 1>>
    BY <1>1, <1>2, AppendProperties
  <2> QED BY <2>1, <2>2
<1> HIDE DEF s, S
<1>5. Append(s(n), <<t, n + 1>>) = s(n + 1)
  BY <1>1, <1>2, <1>3, <1>4, SeqEqual
<1> QED BY <1>5 DEF s

(* No message has been printed at the start. *)
LEMMA InitNothingLost == Init => NothingLost
<1> SUFFICES ASSUME Init, NEW t \in Trackers
             PROVE  handled[t] \o InHand(t) \o pipe[t] = [i \in 1..written[t] |-> <<t, i>>]
  BY DEF NothingLost
<1>1. handled[t] = << >> /\ InHand(t) = << >> /\ pipe[t] = << >> /\ written[t] = 0
  BY DEF Init, InHand
<1> QED BY <1>1

(* A message that is read is in the thread's hands, and a message in its hands
   goes to the handler, before the next one is read.                         *)
LEMMA NextNothingLost ==
  TypeInv /\ NumbersInv /\ NothingLost /\ [Next]_vars => NothingLost'
<1> SUFFICES ASSUME TypeInv, NumbersInv, NothingLost, [Next]_vars,
                    NEW t \in Trackers, dpc'[t] = "alive", handler'[t]
             PROVE  handled'[t] \o InHand(t)' \o pipe'[t] = [i \in 1..written'[t] |-> <<t, i>>]
  BY DEF NothingLost
<1>1. UNCHANGED handler /\ dpc[t] = "alive"
  <2>1. UNCHANGED handler
    BY DEF Next, vars, procVars, Launch, Destroy, ChildPrints, ChildGivesUp, ChildObeys, Ends,
           Thread, MakePipe, PipeFails, Fork, ForkFails, NotePid, CloseWriteEnd, TestExiting,
           ThreadReads, ThreadHandles,
           Destructor, Interrupt, Drain, DestructorReads, DestructorHandles, CloseReadEnd, Kill,
           Wait, SetExiting, Join
  <2>2. dpc[t] = "alive"
    BY DEF Next, vars, Launch, Destroy, ChildPrints, ChildGivesUp, ChildObeys, Ends,
           Thread, MakePipe, PipeFails, Fork, ForkFails, NotePid, CloseWriteEnd, TestExiting,
           ThreadReads, ThreadHandles, DestructorGoes, TypeInv, TypeOK,
           Destructor, Interrupt, Drain, DestructorReads, DestructorHandles, CloseReadEnd, Kill,
           Wait, SetExiting, Join
  <2> QED BY <2>1, <2>2
<1>2. handled[t] \o InHand(t) \o pipe[t] = [i \in 1..written[t] |-> <<t, i>>]
  BY <1>1 DEF NothingLost
<1>3. /\ handled[t] \in Seq(Chunk) /\ pipe[t] \in Seq(Chunk) /\ buf[t] \in Seq(Chunk)
      /\ written[t] \in Nat
  BY ConstantsAssumption DEF TypeInv, TypeOK
<1>4. InHand(t) \in Seq(Chunk)
  <2>1. got["thread"][t] \in Nat /\ got["thread"][t] <= Len(buf[t])
    BY DEF TypeInv, Readers
  <2>2. \A b \in Seq(Chunk), n \in Nat : n <= Len(b) => SubSeq(b, 1, n) \in Seq(Chunk)
    OBVIOUS
  <2> QED BY <1>3, <2>1, <2>2 DEF InHand
<1>5. ASSUME handled'[t] = handled[t], InHand(t)' = InHand(t), pipe'[t] = pipe[t],
             written'[t] = written[t]
      PROVE  handled'[t] \o InHand(t)' \o pipe'[t] = [i \in 1..written'[t] |-> <<t, i>>]
  BY <1>2, <1>5
<1>6. CASE ThreadReads(t) /\ ReadReturns("thread", t)
  <2>1. reading["thread"][t] \in Trackers /\ "thread" \in Readers
    BY <1>6 DEF ThreadReads, Readers, TypeInv, TypeOK
  <2>2. /\ pipe' = [pipe EXCEPT ![t] = << >>]
        /\ buf' = [buf EXCEPT ![t] = Overwrite(buf[t], pipe[t])]
        /\ got'["thread"][t] = Len(pipe[t])
    BY <1>6, <2>1, ReadsOwn
  <2>3. /\ pipe'[t] = << >> /\ buf'[t] = Overwrite(buf[t], pipe[t])
    BY <2>2 DEF TypeInv, TypeOK
  <2>4. SubSeq(Overwrite(buf[t], pipe[t]), 1, Len(pipe[t])) = pipe[t]
    <3>1. \A b, s \in Seq(Chunk) : SubSeq(Overwrite(b, s), 1, Len(s)) = s
      BY OverwriteFacts
    <3> QED BY <1>3, <3>1
  <2>5. CASE ThreadGoes(t, "handle")
    <3>1. tpc[t] = "read" /\ tpc'[t] = "handle" /\ UNCHANGED <<handled, written>>
      BY <1>6, <2>5 DEF ThreadReads, ThreadGoes, procVars, TypeInv, TypeOK
    <3>2. InHand(t) = << >> /\ InHand(t)' = pipe[t]
      BY <2>2, <2>3, <2>4, <3>1 DEF InHand
    <3>3. handled[t] \o << >> \o pipe[t] = handled[t] \o pipe[t] \o << >>
      BY <1>3, Moved, EmptySeq
    <3> QED BY <1>2, <2>3, <3>1, <3>2, <3>3
  <2>6. CASE ~ThreadGoes(t, "handle")
    <3>1. UNCHANGED pipe /\ tpc[t] = "read" /\ tpc'[t] = "done" /\ UNCHANGED <<handled, written>>
      BY <1>6, <2>6 DEF ThreadReads, ThreadGoes, ReadSeesEnd, procVars, TypeInv, TypeOK
    <3> QED BY <1>5, <3>1 DEF InHand
  <2> QED BY <2>5, <2>6
<1>7. CASE ThreadReads(t) /\ ReadSeesEnd("thread", t)
  <2>1. UNCHANGED <<pipe, handled, written>> /\ tpc[t] = "read"
    BY <1>7 DEF ThreadReads, ReadSeesEnd, procVars
  <2>2. pipe[reading["thread"][t]] = << >>
    BY <1>7 DEF ReadSeesEnd
  <2>3. tpc'[t] = "done"
    BY <1>7, <2>2 DEF ThreadReads, ReadReturns, ThreadGoes, TypeInv, TypeOK
  <2> QED BY <1>5, <2>1, <2>3 DEF InHand
<1>8. CASE ThreadHandles(t)
  <2>1. tpc[t] = "handle" /\ tpc'[t] # "handle" /\ UNCHANGED <<pipe, written>>
    BY <1>8 DEF ThreadHandles, ThreadGoes, procVars, TypeInv, TypeOK
  <2>2. handled'[t] = handled[t] \o InHand(t)
    BY <1>1, <1>8, <2>1 DEF ThreadHandles, HandleMessage, InHand, TypeInv, TypeOK
  <2>3. InHand(t)' = << >>
    BY <2>1 DEF InHand
  <2>4. handled[t] \o InHand(t) \o << >> \o pipe[t] = handled[t] \o InHand(t) \o pipe[t]
    BY <1>3, <1>4, <2>1, Moved
  <2> QED BY <1>2, <2>1, <2>2, <2>3, <2>4
<1>9. CASE ChildPrints(t)
  <2> DEFINE e == <<t, written[t] + 1>>
  <2>1. pipe' = [pipe EXCEPT ![t] = Append(pipe[t], e)] /\ written' = [written EXCEPT ![t] = @ + 1]
        /\ UNCHANGED <<handled, tpc, buf, got>>
    BY <1>9 DEF ChildPrints, threadVars
  <2>2. pipe'[t] = Append(pipe[t], e) /\ written'[t] = written[t] + 1
    BY <2>1 DEF TypeInv, TypeOK
  <2>3. e \in Chunk
    BY <1>9, ConstantsAssumption DEF ChildPrints, Chunk, TypeInv, TypeOK
  <2>4. Append([i \in 1..written[t] |-> <<t, i>>], e) = [i \in 1..(written[t] + 1) |-> <<t, i>>]
    BY <1>3, OneMore
  <2> HIDE DEF e
  <2>5. (handled[t] \o InHand(t)) \o Append(pipe[t], e) = Append((handled[t] \o InHand(t)) \o pipe[t], e)
    <3>1. \A h, m, p \in Seq(Chunk), x \in Chunk :
            (h \o m) \o Append(p, x) = Append((h \o m) \o p, x)
      BY Moved
    <3> QED BY <1>3, <1>4, <2>3, <3>1
  <2> QED BY <1>2, <2>1, <2>2, <2>4, <2>5 DEF InHand
<1>10. CASE UNCHANGED vars
  BY <1>5, <1>10 DEF vars, InHand
<1>11. ASSUME NEW u \in Trackers, u # t, ThreadReads(u) \/ DestructorReads(u)
       PROVE  handled'[t] \o InHand(t)' \o pipe'[t] = [i \in 1..written'[t] |-> <<t, i>>]
  <2>1. UNCHANGED <<handled, written>> /\ tpc'[t] = tpc[t]
    BY <1>11 DEF ThreadReads, DestructorReads, ThreadGoes, procVars, TypeInv, TypeOK
  <2>2. \/ \E r \in Readers : reading[r][u] \in Trackers /\ ReadReturns(r, u)
        \/ UNCHANGED <<buf, got, pipe>>
    BY <1>11 DEF ThreadReads, DestructorReads, ReadSeesEnd, Readers, TypeInv, TypeOK
  <2>3. pipe'[t] = pipe[t] /\ buf'[t] = buf[t] /\ got'["thread"][t] = got["thread"][t]
    BY <1>11, <2>2, ReadsOwn DEF TypeInv, TypeOK
  <2> QED BY <1>5, <2>1, <2>3 DEF InHand
<1>12. ASSUME NEW u \in Trackers, u # t, ThreadHandles(u) \/ DestructorHandles(u) \/ ChildPrints(u)
       PROVE  handled'[t] \o InHand(t)' \o pipe'[t] = [i \in 1..written'[t] |-> <<t, i>>]
  BY <1>5, <1>12 DEF ThreadHandles, DestructorHandles, ChildPrints, HandleMessage, ThreadGoes,
                     InHand, procVars, threadVars, TypeInv, TypeOK
<1>13. ASSUME NEW u \in Trackers,
              \/ Launch(u) \/ Destroy(u) \/ ChildGivesUp(u) \/ ChildObeys(u)
              \/ MakePipe(u) \/ PipeFails(u) \/ Fork(u) \/ ForkFails(u) \/ NotePid(u)
              \/ CloseWriteEnd(u) \/ TestExiting(u)
              \/ Interrupt(u) \/ Drain(u) \/ CloseReadEnd(u) \/ Kill(u) \/ Wait(u)
              \/ SetExiting(u) \/ Join(u)
       PROVE  handled'[t] \o InHand(t)' \o pipe'[t] = [i \in 1..written'[t] |-> <<t, i>>]
  <2>1. UNCHANGED <<handled, pipe, buf, got, written>>
    BY <1>13 DEF Launch, Destroy, ChildGivesUp, ChildObeys, Ends, MakePipe, PipeFails, Fork, ForkFails,
                 NotePid, CloseWriteEnd, TestExiting, Interrupt, Drain, CloseReadEnd, Kill, Wait,
                 SetExiting, Join, procVars, threadVars
  <2>2. tpc'[t] = "handle" <=> tpc[t] = "handle"
    BY <1>13 DEF Launch, Destroy, ChildGivesUp, ChildObeys, Ends, MakePipe, PipeFails, Fork, ForkFails,
                 NotePid, CloseWriteEnd, TestExiting, Interrupt, Drain, CloseReadEnd, Kill, Wait,
                 SetExiting, Join, threadVars, ThreadGoes, TypeInv, TypeOK
  <2> QED BY <1>5, <2>1, <2>2 DEF InHand
<1>14. ASSUME DestructorReads(t) \/ DestructorHandles(t) PROVE FALSE
  BY <1>1, <1>14 DEF DestructorReads, DestructorHandles
<1> QED BY <1>6, <1>7, <1>8, <1>9, <1>10, <1>11, <1>12, <1>13, <1>14
        DEF Next, Thread, Destructor, ThreadReads

-----------------------------------------------------------------------------
(* TypeOK holds always, whatever happens. *)
THEOREM TrackersTypeCorrect == Spec => []TypeOK
<1>1. TypeInv => TypeOK
  BY DEF TypeInv
<1> QED BY InitType, NextType, <1>1, PTL DEF Spec

(* A destroyed tracker leaves no thread, no child and no open end of its pipe
   behind, whatever fails on the way, and even where threads fork at once or
   a closed number is given again.                                           *)
THEOREM DestroyedIsClean ==
  ASSUME NoEarlyStop
  PROVE  Spec => []FreedIsClean
<1>1. TypeInv /\ CleanInv => FreedIsClean
  BY DEF CleanInv, ForkedIsKnown, EndsAreClosed, ChildIsEnded, FreedIsClean, BeforeClose
<1> QED BY InitType, NextType, InitClean, NextClean, <1>1, PTL DEF Spec

(* The destructor's two kills and its waitpid name the tracker's own child,
   and nobody has reaped it.                                                 *)
THEOREM OwnChildOnly ==
  ASSUME NoEarlyStop, NoGarbagePid
  PROVE  Spec => []SignalsOnlyItsChild
<1>1. TypeInv /\ CleanInv /\ PidsInv => SignalsOnlyItsChild
  BY DEF CleanInv, ForkedIsKnown, PidsInv, SignalsOnlyItsChild
<1> QED BY InitType, NextType, InitClean, NextClean, InitPids, NextPids, <1>1, PTL DEF Spec

(* A tracker's handler gets the messages of the tracker's own child only. *)
THEOREM OwnMessagesOnly ==
  ASSUME NoEarlyStop, NoForeignFD
  PROVE  Spec => []OwnMessages
<1>1. OwnInv => OwnMessages
  BY DEF OwnInv, Own, OwnMessages
<1> QED BY InitType, NextType, InitClean, NextClean, InitNumbers, NextNumbers, InitOwn, NextOwn,
           <1>1, PTL DEF Spec

(* Until a tracker is destroyed, no message of its child is lost, repeated or
   reordered on the way to the handler.                                      *)
THEOREM EveryMessageArrives ==
  ASSUME NoEarlyStop, NoForeignFD
  PROVE  Spec => []NothingLost
BY InitType, NextType, InitClean, NextClean, InitNumbers, NextNumbers, InitNothingLost,
   NextNothingLost, PTL DEF Spec
=============================================================================
