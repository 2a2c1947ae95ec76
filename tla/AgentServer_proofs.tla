------------------------- MODULE AgentServer_proofs -------------------------
(***************************************************************************)
(* Theorems about AgentServer, for any number of clients, trackers, names, *)
(* requests and configured trackers.                                       *)
(***************************************************************************)
EXTENDS AgentServer, TLAPS

(* An idle caller's request is a request record like any other. *)
LEMMA NoRequestType == NoRequest \in Request
BY ConfigAssumption DEF NoRequest, Request

(* The strengthened invariant holds when the agent starts. *)
LEMMA InitIInv == Init => IInv
<1> SUFFICES ASSUME Init PROVE IInv
  OBVIOUS
<1> USE DEF Init, ManagerInit, Keys
<1>1. BootList \in Seq(Request)
  <2>1. ProcessEntry \in Request
    BY ConfigAssumption DEF ProcessEntry, Request
  <2> QED
    BY <2>1, ConfigAssumption DEF BootList
<1>2. TypeOK
  BY <1>1, MaxIdAssumption, ConfigAssumption DEF TypeOK, ManagerTypeOK, ThreadState, Running, Label,
     Request, NoRequest, Callers
<1>3. MutexInv /\ BootInv
  BY CallersAssumption DEF MutexInv, BootInv, Critical, Callers
<1>4. HoldingInv /\ KeysBelowCount /\ OwnedExactlyOnce /\ ListedIsNotExiting
  BY CallersAssumption DEF HoldingInv, KeysBelowCount, OwnedExactlyOnce, NotDangling,
     NotShared, NotLeaked, ListedIsNotExiting, Callers
<1> QED BY <1>2, <1>3, <1>4 DEF IInv

-----------------------------------------------------------------------------
(* Every step of every thread preserves the strengthened invariant. *)
LEMMA NextIInv == IInv /\ [Next]_vars => IInv'
<1> SUFFICES ASSUME IInv, [Next]_vars PROVE IInv'
  OBVIOUS
<1> USE CallersAssumption, RequestsAssumption
    DEF IInv, TypeOK, ManagerTypeOK, MutexInv, BootInv, HoldingInv, KeysBelowCount,
        OwnedExactlyOnce, NotDangling, NotShared, NotLeaked, ListedIsNotExiting,
        Keys, Entry, ThreadState, Running, Label, Critical, Callers,
        Goto, Finish, managerVars, serverVars
<1>1. CASE UNCHANGED vars
  BY <1>1 DEF vars
<1>2. CASE BootNext
  <2> USE <1>2 DEF BootNext
  <2>1. TypeOK'
    <3>1. CASE boot = << >>
      BY <3>1, NoRequestType
    <3>2. CASE boot # << >>
      <4>1. Head(boot) \in Request /\ Tail(boot) \in Seq(Request)
        BY <3>2
      <4>2. req' = [req EXCEPT ![Main] = Head(boot)] /\ boot' = Tail(boot)
            /\ pc' = [pc EXCEPT ![Main] = "start"]
        BY <3>2
      <4>3. req' \in [Callers -> Request] /\ boot' \in Seq(Request)
        BY <4>1, <4>2
      <4>4. pc' \in [Callers -> Label]
        BY <4>2
      <4> QED BY <4>3, <4>4
    <3> QED BY <3>1, <3>2
  <2>2. MutexInv' /\ BootInv'
    OBVIOUS
  <2>3. HoldingInv' /\ KeysBelowCount'
    OBVIOUS
  <2>4. OwnedExactlyOnce' /\ ListedIsNotExiting'
    OBVIOUS
  <2> QED BY <2>1, <2>2, <2>3, <2>4
<1>22. CASE BootFails
  BY <1>22, NoRequestType DEF BootFails
<1>3. ASSUME NEW c \in Clients, Lock(c) PROVE IInv'
  <2> USE <1>3 DEF Lock, MutexFree
  <2>1. req[c].op \in {"start", "stop", "list", "bad"}
    BY DEF Request
  <2>2. TypeOK'
    BY <2>1
  <2>3. MutexInv' /\ BootInv'
    BY <2>1
  <2>4. HoldingInv' /\ KeysBelowCount'
    BY <2>1
  <2>5. OwnedExactlyOnce' /\ ListedIsNotExiting'
    OBVIOUS
  <2> QED BY <2>2, <2>3, <2>4, <2>5
<1>4. ASSUME NEW c \in Clients, NEW r \in Requests, Accept(c, r) PROVE IInv'
  BY <1>4 DEF Accept
<1>5. ASSUME NEW c \in Callers, BadBody(c) PROVE IInv'
  BY <1>5 DEF BadBody
<1>6. ASSUME NEW c \in Callers, UnknownName(c) PROVE IInv'
  <2> USE <1>6 DEF UnknownName
  <2>1. TypeOK'
    OBVIOUS
  <2>2. MutexInv' /\ BootInv'
    OBVIOUS
  <2>3. HoldingInv' /\ KeysBelowCount'
    OBVIOUS
  <2>4. NotDangling' /\ NotShared'
    OBVIOUS
  <2>5. NotLeaked'
    OBVIOUS
  <2>6. ListedIsNotExiting'
    OBVIOUS
  <2> QED BY <2>1, <2>2, <2>3, <2>4, <2>5, <2>6
<1>7. ASSUME NEW c \in Callers, NoHandler(c) PROVE IInv'
  BY <1>7 DEF NoHandler
<1>8. ASSUME NEW c \in Callers, CreateTracker(c) PROVE IInv'
  <2> USE <1>8 DEF CreateTracker, Construct
  <2>1. TypeOK'
    OBVIOUS
  <2>2. MutexInv' /\ BootInv'
    OBVIOUS
  <2>3. HoldingInv' /\ KeysBelowCount'
    OBVIOUS
  <2>4. NotDangling' /\ NotShared'
    OBVIOUS
  <2>5. NotLeaked'
    OBVIOUS
  <2>6. ListedIsNotExiting'
    OBVIOUS
  <2> QED BY <2>1, <2>2, <2>3, <2>4, <2>5, <2>6
<1>9. ASSUME NEW c \in Callers, CreateThrows(c) PROVE IInv'
  <2> USE <1>9 DEF CreateThrows
  <2>1. TypeOK'
    OBVIOUS
  <2>2. MutexInv' /\ BootInv'
    OBVIOUS
  <2>3. HoldingInv' /\ KeysBelowCount'
    OBVIOUS
  <2>4. NotDangling' /\ NotShared'
    OBVIOUS
  <2>5. NotLeaked'
    OBVIOUS
  <2>6. ListedIsNotExiting'
    OBVIOUS
  <2> QED BY <2>1, <2>2, <2>3, <2>4, <2>5, <2>6
<1>10. ASSUME NEW c \in Callers, LaunchThread(c) PROVE IInv'
  <2> USE <1>10 DEF LaunchThread, Launch
  <2>1. TypeOK'
    OBVIOUS
  <2>2. MutexInv' /\ BootInv'
    OBVIOUS
  <2>3. HoldingInv' /\ KeysBelowCount'
    OBVIOUS
  <2>4. NotDangling' /\ NotShared'
    OBVIOUS
  <2>5. NotLeaked'
    OBVIOUS
  <2>6. ListedIsNotExiting'
    OBVIOUS
  <2> QED BY <2>1, <2>2, <2>3, <2>4, <2>5, <2>6
<1>11. ASSUME NEW c \in Callers, LaunchThrows(c) PROVE IInv'
  <2> USE <1>11 DEF LaunchThrows
  <2>1. TypeOK'
    OBVIOUS
  <2>2. MutexInv' /\ BootInv'
    OBVIOUS
  <2>3. HoldingInv' /\ KeysBelowCount'
    OBVIOUS
  <2>4. NotDangling' /\ NotShared'
    OBVIOUS
  <2>5. NotLeaked'
    OBVIOUS
  <2>6. ListedIsNotExiting'
    OBVIOUS
  <2> QED BY <2>1, <2>2, <2>3, <2>4, <2>5, <2>6
<1>12. ASSUME NEW c \in Callers, EmplaceTracker(c) PROVE IInv'
  <2> USE <1>12 DEF EmplaceTracker, Emplace, NewKey
  <2>1. TypeOK'
    <3>1. id_count' \in 1..MaxId
      <4>1. id_count < MaxId /\ id_count \in 1..MaxId
        BY DEF Callers
      <4> QED BY <4>1, MaxIdAssumption
    <3>2. trackers' \in [Keys' -> Entry] /\ Keys' \subseteq Nat
      BY DEF Request
    <3> QED BY <3>1, <3>2
  <2>2. MutexInv' /\ BootInv'
    OBVIOUS
  <2>3. HoldingInv' /\ KeysBelowCount'
    OBVIOUS
  <2>4. NotDangling' /\ NotShared'
    OBVIOUS
  <2>5. NotLeaked'
    OBVIOUS
  <2>6. ListedIsNotExiting'
    OBVIOUS
  <2> QED BY <2>1, <2>2, <2>3, <2>4, <2>5, <2>6
<1>13. ASSUME NEW c \in Callers, EraseNothing(c) PROVE IInv'
  <2> USE <1>13 DEF EraseNothing
  <2>1. TypeOK'
    OBVIOUS
  <2>2. MutexInv' /\ BootInv'
    OBVIOUS
  <2>3. HoldingInv' /\ KeysBelowCount'
    OBVIOUS
  <2>4. NotDangling' /\ NotShared'
    OBVIOUS
  <2>5. NotLeaked'
    OBVIOUS
  <2>6. ListedIsNotExiting'
    OBVIOUS
  <2> QED BY <2>1, <2>2, <2>3, <2>4, <2>5, <2>6
<1>14. ASSUME NEW c \in Callers, EraseTracker(c) PROVE IInv'
  <2> USE <1>14 DEF EraseTracker, Unlink
  <2>1. TypeOK'
    OBVIOUS
  <2>2. MutexInv' /\ BootInv'
    OBVIOUS
  <2>3. HoldingInv' /\ KeysBelowCount'
    OBVIOUS
  <2>4. NotDangling' /\ NotShared'
    OBVIOUS
  <2>5. NotLeaked'
    <3> SUFFICES ASSUME NEW o \in Trackers, thread'[o] # "free"
                 PROVE  \/ \E d \in Callers : owned'[d] = o
                        \/ \E k \in Keys' : trackers'[k].tracker = o
      OBVIOUS
    <3>1. CASE o = trackers[AsInt(req[c].id)].tracker
      BY <3>1
    <3>2. CASE \E d \in Callers : owned[d] = o
      BY <3>2
    <3>3. CASE o # trackers[AsInt(req[c].id)].tracker /\ \E k \in Keys : trackers[k].tracker = o
      BY <3>3
    <3> QED BY <3>1, <3>2, <3>3
  <2>6. ListedIsNotExiting'
    OBVIOUS
  <2> QED BY <2>1, <2>2, <2>3, <2>4, <2>5, <2>6
<1>23. ASSUME NEW c \in Callers, RaiseExiting(c) PROVE IInv'
  <2> USE <1>23 DEF RaiseExiting, StopTracker
  <2>1. TypeOK'
    OBVIOUS
  <2>2. MutexInv' /\ BootInv'
    OBVIOUS
  <2>3. HoldingInv' /\ KeysBelowCount'
    OBVIOUS
  <2>4. NotDangling' /\ NotShared'
    OBVIOUS
  <2>5. NotLeaked'
    OBVIOUS
  <2>6. ListedIsNotExiting'
    OBVIOUS
  <2> QED BY <2>1, <2>2, <2>3, <2>4, <2>5, <2>6
<1>24. ASSUME NEW c \in Callers, DiscardTracker(c) PROVE IInv'
  <2> USE <1>24 DEF DiscardTracker, Discard
  <2>1. TypeOK'
    OBVIOUS
  <2>2. MutexInv' /\ BootInv'
    OBVIOUS
  <2>3. HoldingInv' /\ KeysBelowCount'
    OBVIOUS
  <2>4. NotDangling' /\ NotShared'
    OBVIOUS
  <2>5. NotLeaked'
    OBVIOUS
  <2>6. ListedIsNotExiting'
    OBVIOUS
  <2> QED BY <2>1, <2>2, <2>3, <2>4, <2>5, <2>6
<1>15. ASSUME NEW c \in Callers, JoinThread(c) PROVE IInv'
  BY <1>15 DEF JoinThread, Join
<1>16. ASSUME NEW c \in Callers, ListNext(c) PROVE IInv'
  BY <1>16 DEF ListNext
<1>17. ASSUME NEW c \in Callers, ListEnd(c) PROVE IInv'
  <2> USE <1>17 DEF ListEnd
  <2>1. TypeOK'
    OBVIOUS
  <2>2. MutexInv' /\ BootInv'
    OBVIOUS
  <2>3. HoldingInv' /\ KeysBelowCount'
    OBVIOUS
  <2>4. NotDangling' /\ NotShared'
    OBVIOUS
  <2>5. NotLeaked'
    OBVIOUS
  <2>6. ListedIsNotExiting'
    OBVIOUS
  <2> QED BY <2>1, <2>2, <2>3, <2>4, <2>5, <2>6
<1>18. ASSUME NEW c \in Callers, Return(c) PROVE IInv'
  <2> USE <1>18 DEF Return
  <2>1. TypeOK'
    BY NoRequestType
  <2>2. MutexInv' /\ BootInv'
    OBVIOUS
  <2>3. HoldingInv' /\ KeysBelowCount'
    OBVIOUS
  <2>4. NotDangling' /\ NotShared'
    OBVIOUS
  <2>5. NotLeaked'
    OBVIOUS
  <2>6. ListedIsNotExiting'
    OBVIOUS
  <2> QED BY <2>1, <2>2, <2>3, <2>4, <2>5, <2>6
<1>19. ASSUME NEW o \in Trackers, Setup(o), UNCHANGED serverVars PROVE IInv'
  BY <1>19 DEF Setup
<1>20. ASSUME NEW o \in Trackers, TestExiting(o), UNCHANGED serverVars PROVE IInv'
  BY <1>20 DEF TestExiting
<1>21. ASSUME NEW o \in Trackers, Poll(o), UNCHANGED serverVars PROVE IInv'
  BY <1>21 DEF Poll
<1> QED
  BY <1>1, <1>2, <1>3, <1>4, <1>5, <1>6, <1>7, <1>8, <1>9, <1>10, <1>11,
     <1>12, <1>13, <1>14, <1>15, <1>16, <1>17, <1>18, <1>19, <1>20, <1>21, <1>22,
     <1>23, <1>24
     DEF Next, Work, TrackerThread, ThreadStep

(* Every state the server reaches satisfies the inductive invariant. *)
LEMMA SpecIInv == Spec => []IInv
BY InitIInv, NextIInv, PTL DEF Spec

-----------------------------------------------------------------------------
(* The type invariant holds in every reachable state. *)
THEOREM TypeCorrect == Spec => []TypeOK
BY SpecIInv, PTL DEF IInv

(* Every tracker object that exists has exactly one owner. *)
THEOREM TrackersOwnedOnce == Spec => []OwnedExactlyOnce
BY SpecIInv, PTL DEF IInv

(* No tracker in the map has been told to exit. *)
THEOREM ListedNeverExiting == Spec => []ListedIsNotExiting
BY SpecIInv, PTL DEF IInv

(* A key is handed out at most once. *)
THEOREM KeysFresh == Spec => KeysNeverReused
<1>1. IInv /\ [Next]_vars => [\A k \in Keys' \ Keys : k >= id_count /\ k < id_count']_vars
  <2> SUFFICES ASSUME IInv, Next
               PROVE  \A k \in Keys' \ Keys : k >= id_count /\ k < id_count'
    OBVIOUS
  <2> USE DEF Keys
  <2>1. trackers' = trackers \/ (\E c \in Callers : EmplaceTracker(c) \/ EraseTracker(c))
    BY DEF Next, BootNext, BootFails, Lock, Accept, Work, TrackerThread, ThreadStep, Setup, TestExiting, Poll,
           managerVars, BadBody, UnknownName, NoHandler, CreateTracker, Construct, CreateThrows,
           LaunchThread, Launch, LaunchThrows, EraseNothing, RaiseExiting, StopTracker, DiscardTracker,
           Discard, JoinThread, Join, ListNext,
           ListEnd, Return
  <2>2. ASSUME NEW c \in Callers, EmplaceTracker(c)
        PROVE  \A k \in Keys' \ Keys : k >= id_count /\ k < id_count'
    BY <2>2 DEF EmplaceTracker, Emplace, NewKey, IInv, TypeOK, ManagerTypeOK
  <2>3. ASSUME NEW c \in Callers, EraseTracker(c)
        PROVE  \A k \in Keys' \ Keys : k >= id_count /\ k < id_count'
    BY <2>3 DEF EraseTracker, Unlink
  <2> QED BY <2>1, <2>2, <2>3
<1> QED BY <1>1, SpecIInv, PTL DEF Spec, KeysNeverReused

-----------------------------------------------------------------------------
(* The invariant the refinement needs, on top of IInv. *)
LEMMA InitRInv == Init => RInv
BY InitIInv, CallersAssumption DEF RInv, Init, ManagerInit, RequestInv, ListInv, ReplyInv, Callers, Keys,
   NoRequest, NoReply, Empty

(* Every step of the server keeps the invariant that has the history of the requests. *)
LEMMA NextRInv == RInv /\ [Next]_vars => RInv'
<1> SUFFICES ASSUME RInv, [Next]_vars PROVE RequestInv' /\ ListInv' /\ ReplyInv'
  BY NextIInv DEF RInv
<1> USE CallersAssumption
    DEF RInv, IInv, TypeOK, ManagerTypeOK, MutexInv, BootInv, KeysBelowCount,
        RequestInv, ListInv, ReplyInv, Keys, Critical, Callers,
        Goto, Finish, managerVars, serverVars
<1>1. CASE UNCHANGED vars
  BY <1>1 DEF vars
<1>2. CASE BootNext
  BY <1>2 DEF BootNext
<1>22. CASE BootFails
  BY <1>22 DEF BootFails
<1>3. ASSUME NEW c \in Clients, Lock(c) PROVE RequestInv' /\ ListInv' /\ ReplyInv'
  <2> USE <1>3 DEF Lock, MutexFree
  <2>1. req[c].op \in {"start", "stop", "list", "bad"}
    BY DEF Request
  <2>2. RequestInv'
    BY <2>1
  <2>3. ListInv' /\ ReplyInv'
    BY <2>1
  <2> QED BY <2>2, <2>3
<1>4. ASSUME NEW c \in Clients, NEW r \in Requests, Accept(c, r)
      PROVE  RequestInv' /\ ListInv' /\ ReplyInv'
  BY <1>4 DEF Accept
<1>5. ASSUME NEW c \in Callers, BadBody(c) PROVE RequestInv' /\ ListInv' /\ ReplyInv'
  <2> USE <1>5 DEF BadBody
  <2>1. RequestInv'
    OBVIOUS
  <2>2. ListInv'
    OBVIOUS
  <2>3. ReplyInv'
    OBVIOUS
  <2> QED BY <2>1, <2>2, <2>3
<1>6. ASSUME NEW c \in Callers, UnknownName(c) PROVE RequestInv' /\ ListInv' /\ ReplyInv'
  <2> USE <1>6 DEF UnknownName
  <2>1. RequestInv'
    OBVIOUS
  <2>2. ListInv'
    OBVIOUS
  <2>3. ReplyInv'
    OBVIOUS
  <2> QED BY <2>1, <2>2, <2>3
<1>7. ASSUME NEW c \in Callers, NoHandler(c) PROVE RequestInv' /\ ListInv' /\ ReplyInv'
  <2> USE <1>7 DEF NoHandler
  <2>1. RequestInv'
    OBVIOUS
  <2>2. ListInv'
    OBVIOUS
  <2>3. ReplyInv'
    OBVIOUS
  <2> QED BY <2>1, <2>2, <2>3
<1>8. ASSUME NEW c \in Callers, CreateTracker(c) PROVE RequestInv' /\ ListInv' /\ ReplyInv'
  <2> USE <1>8 DEF CreateTracker, Construct
  <2>1. RequestInv'
    OBVIOUS
  <2>2. ListInv'
    OBVIOUS
  <2>3. ReplyInv'
    OBVIOUS
  <2> QED BY <2>1, <2>2, <2>3
<1>9. ASSUME NEW c \in Callers, CreateThrows(c) PROVE RequestInv' /\ ListInv' /\ ReplyInv'
  <2> USE <1>9 DEF CreateThrows
  <2>1. RequestInv'
    OBVIOUS
  <2>2. ListInv'
    OBVIOUS
  <2>3. ReplyInv'
    OBVIOUS
  <2> QED BY <2>1, <2>2, <2>3
<1>10. ASSUME NEW c \in Callers, LaunchThread(c) PROVE RequestInv' /\ ListInv' /\ ReplyInv'
  <2> USE <1>10 DEF LaunchThread, Launch
  <2>1. RequestInv'
    OBVIOUS
  <2>2. ListInv'
    OBVIOUS
  <2>3. ReplyInv'
    OBVIOUS
  <2> QED BY <2>1, <2>2, <2>3
<1>11. ASSUME NEW c \in Callers, LaunchThrows(c) PROVE RequestInv' /\ ListInv' /\ ReplyInv'
  <2> USE <1>11 DEF LaunchThrows
  <2>1. RequestInv'
    OBVIOUS
  <2>2. ListInv'
    OBVIOUS
  <2>3. ReplyInv'
    OBVIOUS
  <2> QED BY <2>1, <2>2, <2>3
<1>12. ASSUME NEW c \in Callers, EmplaceTracker(c) PROVE RequestInv' /\ ListInv' /\ ReplyInv'
  <2> USE <1>12 DEF EmplaceTracker, Emplace, NewKey
  <2>1. RequestInv'
    OBVIOUS
  <2>2. ListInv'
    OBVIOUS
  <2>3. ReplyInv'
    OBVIOUS
  <2> QED BY <2>1, <2>2, <2>3
<1>13. ASSUME NEW c \in Callers, EraseNothing(c) PROVE RequestInv' /\ ListInv' /\ ReplyInv'
  <2> USE <1>13 DEF EraseNothing
  <2>1. RequestInv'
    OBVIOUS
  <2>2. ListInv'
    OBVIOUS
  <2>3. ReplyInv'
    OBVIOUS
  <2> QED BY <2>1, <2>2, <2>3
<1>14. ASSUME NEW c \in Callers, EraseTracker(c) PROVE RequestInv' /\ ListInv' /\ ReplyInv'
  <2> USE <1>14 DEF EraseTracker, Unlink
  <2>1. RequestInv'
    OBVIOUS
  <2>2. ListInv'
    <3>1. c \in Clients /\ \A d \in Clients : pc[d] # "list" /\ pc'[d] # "list"
      OBVIOUS
    <3>2. \A d \in Clients : acc'[d] = Empty
      BY <3>1
    <3> QED BY <3>2 DEF Empty
  <2>3. ReplyInv'
    OBVIOUS
  <2> QED BY <2>1, <2>2, <2>3
<1>23. ASSUME NEW c \in Callers, RaiseExiting(c) PROVE RequestInv' /\ ListInv' /\ ReplyInv'
  <2> USE <1>23 DEF RaiseExiting, StopTracker
  <2>1. RequestInv'
    OBVIOUS
  <2>2. ListInv'
    OBVIOUS
  <2>3. ReplyInv'
    OBVIOUS
  <2> QED BY <2>1, <2>2, <2>3
<1>24. ASSUME NEW c \in Callers, DiscardTracker(c) PROVE RequestInv' /\ ListInv' /\ ReplyInv'
  <2> USE <1>24 DEF DiscardTracker, Discard
  <2>1. RequestInv'
    OBVIOUS
  <2>2. ListInv'
    OBVIOUS
  <2>3. ReplyInv'
    OBVIOUS
  <2> QED BY <2>1, <2>2, <2>3
<1>15. ASSUME NEW c \in Callers, JoinThread(c) PROVE RequestInv' /\ ListInv' /\ ReplyInv'
  <2> USE <1>15 DEF JoinThread, Join
  <2>1. RequestInv'
    OBVIOUS
  <2>2. ListInv'
    OBVIOUS
  <2>3. ReplyInv'
    OBVIOUS
  <2> QED BY <2>1, <2>2, <2>3
<1>16. ASSUME NEW c \in Callers, ListNext(c) PROVE RequestInv' /\ ListInv' /\ ReplyInv'
  <2> USE <1>16 DEF ListNext, Ahead
  <2>1. RequestInv'
    OBVIOUS
  <2>2. ListInv'
    <3>1. c \in Clients /\ \A d \in Clients : d # c => pc[d] # "list" /\ acc'[d] = Empty
      OBVIOUS
    <3>2. PICK k \in Ahead(c) :
            /\ \A j \in Ahead(c) : k <= j
            /\ acc'[c] = [j \in DOMAIN acc[c] \union {k} |->
                            IF j = k THEN trackers[k].name ELSE acc[c][j]]
      OBVIOUS
    <3>3. acc'[c] = [j \in DOMAIN acc'[c] |-> trackers[j].name]
      BY <3>1, <3>2
    <3>4. DOMAIN acc'[c] \subseteq Keys
      BY <3>1, <3>2
    <3>5. \A j \in DOMAIN acc'[c], i \in Keys : i <= j => i \in DOMAIN acc'[c]
      <4> SUFFICES ASSUME NEW j \in DOMAIN acc'[c], NEW i \in Keys, i <= j, i \notin DOMAIN acc[c]
                   PROVE  i = k
        BY <3>2
      <4>1. j = k
        BY <3>1, <3>2
      <4>2. i \in Int /\ k \in Int /\ \A m \in DOMAIN acc[c] : m \in Int
        BY <3>1, <3>2
      <4>3. \A m \in DOMAIN acc[c] : m < i
        BY <3>1, <4>2
      <4>4. i \in Ahead(c)
        BY <4>3
      <4>5. k <= i
        BY <3>2, <4>4
      <4> QED BY <4>1, <4>2, <4>5
    <3>6. trackers' = trackers /\ pc' = pc
      OBVIOUS
    <3>7. ASSUME NEW d \in Clients, d # c
          PROVE  /\ DOMAIN acc'[d] = {}
                 /\ acc'[d] = Empty
      BY <3>1, <3>7 DEF Empty
    <3>8. ASSUME NEW d \in Clients
          PROVE  /\ pc'[d] # "list" => acc'[d] = Empty
                 /\ acc'[d] = [m \in DOMAIN acc'[d] |-> trackers'[m].name]
                 /\ DOMAIN acc'[d] \subseteq Keys'
                 /\ \A j \in DOMAIN acc'[d], m \in Keys' : m <= j => m \in DOMAIN acc'[d]
      <4>1. CASE d = c
        BY <3>3, <3>4, <3>5, <3>6, <4>1
      <4>2. CASE d # c
        BY <3>7, <4>2 DEF Empty
      <4> QED BY <4>1, <4>2
    <3> QED BY <3>8
  <2>3. ReplyInv'
    OBVIOUS
  <2> QED BY <2>1, <2>2, <2>3
<1>17. ASSUME NEW c \in Callers, ListEnd(c) PROVE RequestInv' /\ ListInv' /\ ReplyInv'
  <2> USE <1>17 DEF ListEnd, Ahead
  <2>1. RequestInv'
    OBVIOUS
  <2>2. ListInv'
    <3>1. \A d \in Clients : d # c => acc'[d] = acc[d] /\ pc'[d] = pc[d]
      OBVIOUS
    <3>2. c \in Clients /\ acc'[c] = Empty
      OBVIOUS
    <3>3. \A d \in Clients : d # c => pc[d] # "list" /\ acc'[d] = Empty
      BY <3>1, <3>2
    <3> QED BY <3>2, <3>3 DEF Empty
  <2>3. ReplyInv'
    OBVIOUS
  <2> QED BY <2>1, <2>2, <2>3
<1>18. ASSUME NEW c \in Callers, Return(c) PROVE RequestInv' /\ ListInv' /\ ReplyInv'
  <2> USE <1>18 DEF Return
  <2>1. RequestInv'
    OBVIOUS
  <2>2. ListInv'
    OBVIOUS
  <2>3. ReplyInv'
    OBVIOUS
  <2> QED BY <2>1, <2>2, <2>3
<1>19. ASSUME NEW o \in Trackers, Setup(o), UNCHANGED serverVars
      PROVE  RequestInv' /\ ListInv' /\ ReplyInv'
  BY <1>19 DEF Setup
<1>20. ASSUME NEW o \in Trackers, TestExiting(o), UNCHANGED serverVars
      PROVE  RequestInv' /\ ListInv' /\ ReplyInv'
  BY <1>20 DEF TestExiting
<1>21. ASSUME NEW o \in Trackers, Poll(o), UNCHANGED serverVars
      PROVE  RequestInv' /\ ListInv' /\ ReplyInv'
  BY <1>21 DEF Poll
<1> QED
  BY <1>1, <1>2, <1>3, <1>4, <1>5, <1>6, <1>7, <1>8, <1>9, <1>10, <1>11,
     <1>12, <1>13, <1>14, <1>15, <1>16, <1>17, <1>18, <1>19, <1>20, <1>21, <1>22,
     <1>23, <1>24
     DEF Next, Work, TrackerThread, ThreadStep

(* Every state the server reaches satisfies the invariant that has the history of the requests. *)
LEMMA SpecRInv == Spec => []RInv
BY InitRInv, NextRInv, PTL DEF Spec

(* An ok answer to /stop means the tracker and its thread are gone. *)
THEOREM StopJoins == Spec => StopLeavesNoThread
<1>1. RInv /\ [Next]_vars =>
        [\A c \in Clients :
           (req[c].op = "stop" /\ pc[c] = "reply" /\ pc'[c] = "idle") =>
             /\ AsInt(req[c].id) \notin Keys
             /\ \A o \in Trackers : exiting[o] => thread[o] \in {"free", "ended"}]_vars
  <2> SUFFICES ASSUME RInv, NEW c \in Clients, req[c].op = "stop", pc[c] = "reply"
               PROVE  /\ AsInt(req[c].id) \notin Keys
                      /\ \A o \in Trackers : exiting[o] => thread[o] \in {"free", "ended"}
    OBVIOUS
  <2> USE DEF RInv, IInv
  <2>1. AsInt(req[c].id) \notin Keys
    BY DEF RequestInv
  <2>2. ASSUME NEW o \in Trackers, exiting[o], thread[o] # "free" PROVE FALSE
    <3>1. \A k \in Keys : trackers[k].tracker # o
      BY <2>2 DEF ListedIsNotExiting
    <3>2. PICK d \in Callers : owned[d] = o
      BY <2>2, <3>1 DEF OwnedExactlyOnce, NotLeaked
    <3>3. pc[d] = "join"
      BY <2>2, <3>2, CallersAssumption DEF HoldingInv
    <3>4. d \in Clients
      BY <3>3 DEF BootInv, Callers
    <3>5. seq_mutex = c /\ seq_mutex = d
      BY <3>3, <3>4 DEF MutexInv, Critical
    <3> QED BY <3>3, <3>5
  <2> QED BY <2>1, <2>2
<1> QED BY <1>1, SpecRInv, PTL DEF Spec, StopLeavesNoThread

-----------------------------------------------------------------------------
(***************************************************************************)
(* The refinement: every step of the server is a step of the registry.     *)
(***************************************************************************)
IdsFitInt == \A r \in Requests : AsInt(r.id) = r.id

(* The server starts as the registry does. *)
LEMMA InitRefines == Init => Registry!Init
BY CallersAssumption DEF Init, ManagerInit, Registry!Init, AbstractAnswer, CallState, NoReply, Done, Callers, Registry!Ok, Keys

(* A step of a client's thread, of main or of a tracker thread changes the
   registry as one abstract action does, or not at all. Only here do the ids
   of the requests have to fit an int.                                       *)
LEMMA NextRefines ==
  ASSUME IdsFitInt
  PROVE  RInv /\ RInv' /\ [Next]_vars => [Registry!Next]_(Registry!vars)
<1> SUFFICES ASSUME RInv, RInv', [Next]_vars PROVE [Registry!Next]_(Registry!vars)
  OBVIOUS
<1> USE CallersAssumption
    DEF RInv, IInv, TypeOK, ManagerTypeOK, BootInv, MutexInv, KeysBelowCount, RequestInv, ReplyInv,
        Keys, Critical, Callers, Goto, Finish, Done, managerVars, serverVars, AbstractAnswer,
        CallState, Registry!vars
<1>1. CASE UNCHANGED vars
  BY <1>1 DEF vars
<1>2. CASE BootNext
  BY <1>2 DEF BootNext
<1>22. CASE BootFails
  BY <1>22 DEF BootFails
<1>3. ASSUME NEW c \in Clients, Lock(c) PROVE UNCHANGED Registry!vars
  BY <1>3 DEF Lock, MutexFree, Request
<1>4. ASSUME NEW c \in Clients, NEW r \in Requests, Accept(c, r) PROVE Registry!Call(c, r)
  BY <1>4 DEF Accept, Registry!Call
<1>5. ASSUME NEW c \in Clients, BadBody(c) PROVE Registry!Fail(c)
  BY <1>5 DEF BadBody, Registry!Fail, Registry!Answer, Registry!Failed
<1>6. ASSUME NEW c \in Clients, UnknownName(c) PROVE Registry!Fail(c)
  BY <1>6 DEF UnknownName, Registry!Fail, Registry!Answer, Registry!Failed
<1>7. ASSUME NEW c \in Clients, NoHandler(c) PROVE Registry!StartNothing(c)
  BY <1>7 DEF NoHandler, Registry!StartNothing, Registry!Answer, Registry!Ok
<1>8. ASSUME NEW c \in Clients, CreateTracker(c) PROVE UNCHANGED Registry!vars
  BY <1>8 DEF CreateTracker, Construct
<1>9. ASSUME NEW c \in Clients, CreateThrows(c) PROVE Registry!Fail(c)
  BY <1>9 DEF CreateThrows, Registry!Fail, Registry!Answer, Registry!Failed
<1>10. ASSUME NEW c \in Clients, LaunchThread(c) PROVE UNCHANGED Registry!vars
  BY <1>10 DEF LaunchThread, Launch
<1>11. ASSUME NEW c \in Clients, LaunchThrows(c) PROVE UNCHANGED Registry!vars
  BY <1>11 DEF LaunchThrows
<1>23. ASSUME NEW c \in Clients, RaiseExiting(c) PROVE UNCHANGED Registry!vars
  BY <1>23 DEF RaiseExiting, StopTracker
<1>24. ASSUME NEW c \in Clients, DiscardTracker(c) PROVE Registry!Fail(c)
  BY <1>24 DEF DiscardTracker, Discard, Registry!Fail, Registry!Answer, Registry!Failed
<1>12. ASSUME NEW c \in Clients, EmplaceTracker(c) PROVE Registry!Start(c)
  BY <1>12 DEF EmplaceTracker, Emplace, NewKey, Registry!Start, Registry!Answer, Registry!Ok, Registry!With
<1>13. ASSUME NEW c \in Clients, EraseNothing(c) PROVE Registry!Stop(c)
  <2>1. AsInt(req[c].id) = req[c].id
    BY <1>13, IdsFitInt DEF EraseNothing, IdsFitInt
  <2>2. Keys \ {req[c].id} = Keys
    <3>1. req[c].id \notin Keys
      BY <1>13, <2>1 DEF EraseNothing
    <3> HIDE DEF Keys
    <3> QED BY <3>1
  <2>3. [k \in Keys' |-> trackers'[k].name]
          = [k \in Keys \ {req[c].id} |-> [j \in Keys |-> trackers[j].name][k]]
    BY <1>13, <2>2 DEF EraseNothing
  <2> QED BY <1>13, <2>3 DEF EraseNothing, Registry!Stop, Registry!Answer, Registry!Ok, Registry!Without
<1>14. ASSUME NEW c \in Clients, EraseTracker(c) PROVE Registry!Stop(c)
  <2>1. AsInt(req[c].id) = req[c].id
    BY <1>14, IdsFitInt DEF EraseTracker, IdsFitInt
  <2>2. /\ pc[c] = "stop" /\ req[c].op = "stop" /\ reply[c] = NoReply
        /\ pc' = [pc EXCEPT ![c] = "destroy"]
        /\ req' = req /\ reply' = reply /\ id_count' = id_count
    BY <1>14 DEF EraseTracker, Unlink
  <2>3. [k \in Keys' |-> trackers'[k].name]
          = [k \in Keys \ {req[c].id} |-> [j \in Keys |-> trackers[j].name][k]]
    BY <1>14, <2>1 DEF EraseTracker, Unlink
  <2>4. [d \in Clients |-> AbstractAnswer(reply'[d])]
          = [[d \in Clients |-> AbstractAnswer(reply[d])] EXCEPT ![c] = Registry!Ok]
    <3>1. reply' = reply /\ reply[c].status = "ok"
      BY <2>2 DEF NoReply
    <3>2. AbstractAnswer(reply[c]) = Registry!Ok
      BY <3>1 DEF Registry!Ok
    <3> HIDE DEF AbstractAnswer
    <3> QED BY <3>1, <3>2
  <2>5. /\ [d \in Clients |-> CallState(d)][c] = "called"
        /\ [d \in Clients |-> CallState(d)]' = [[d \in Clients |-> CallState(d)] EXCEPT ![c] = "done"]
    BY <2>2
  <2>6. [d \in Clients |-> req'[d]] = [d \in Clients |-> req[d]]
    BY <2>2
  <2>7. [d \in Clients |-> AbstractAnswer(reply[d])]' = [d \in Clients |-> AbstractAnswer(reply'[d])]
    OBVIOUS
  <2> HIDE DEF AbstractAnswer, CallState
  <2> QED BY <2>2, <2>3, <2>4, <2>5, <2>6, <2>7 DEF Registry!Stop, Registry!Answer, Registry!Without
<1>15. ASSUME NEW c \in Clients, JoinThread(c) PROVE UNCHANGED Registry!vars
  <2>1. /\ pc[c] = "join" /\ reply[c] = NoReply
        /\ pc' = [pc EXCEPT ![c] = "reply"] /\ reply' = [reply EXCEPT ![c] = NoReply]
        /\ req' = req /\ id_count' = id_count /\ trackers' = trackers
    BY <1>15 DEF JoinThread, Join, NoReply
  <2> QED BY <2>1 DEF NoReply
<1>16. ASSUME NEW c \in Clients, ListNext(c) PROVE UNCHANGED Registry!vars
  BY <1>16 DEF ListNext
<1>17. ASSUME NEW c \in Clients, ListEnd(c) PROVE Registry!List(c)
  <2>1. ASSUME NEW k \in Keys PROVE k \in DOMAIN acc[c]
    <3>1. PICK j \in DOMAIN acc[c] : ~(j < k)
      BY <1>17 DEF ListEnd, Ahead
    <3>2. j \in Int /\ k \in Int /\ j \in Keys
      BY <3>1 DEF ListInv
    <3> QED BY <3>1, <3>2 DEF ListInv
  <2>2. acc[c] = [k \in Keys |-> trackers[k].name]
    BY <2>1 DEF ListInv
  <2> QED BY <1>17, <2>2 DEF ListEnd, Registry!List, Registry!Answer, Registry!Listing
<1>18. ASSUME NEW c \in Clients, Return(c) PROVE Registry!Return(c)
  BY <1>18 DEF Return, NoReply, Registry!Return, Registry!Ok
<1>19. ASSUME Work(Main) PROVE UNCHANGED Registry!vars \/ \E name \in Names : Registry!Boot(name)
  <2>1. \/ UnknownName(Main) \/ NoHandler(Main) \/ CreateTracker(Main) \/ CreateThrows(Main)
        \/ LaunchThread(Main) \/ LaunchThrows(Main) \/ DiscardTracker(Main) \/ EmplaceTracker(Main)
    BY <1>19 DEF Work, BadBody, EraseNothing, EraseTracker, RaiseExiting, JoinThread, ListNext, ListEnd,
       Return
  <2>2. CASE EmplaceTracker(Main)
    <3>1. PICK name \in Names : name = req[Main].name
      BY DEF Request
    <3>2. \A c \in Clients : pc[c] = "idle" /\ pc'[c] = "idle"
      BY <2>2 DEF EmplaceTracker
    <3>3. [k \in Keys' |-> trackers'[k].name]
            = [k \in Keys \union {id_count} |->
                 IF k = id_count THEN name ELSE [j \in Keys |-> trackers[j].name][k]]
      BY <2>2, <3>1 DEF EmplaceTracker, Emplace, NewKey
    <3>4. /\ id_count' = id_count + 1
          /\ req' = req /\ reply' = reply
      BY <2>2, CallersAssumption DEF EmplaceTracker, Emplace
    <3>5. Registry!Boot(name)
      <4>1. \A c \in Clients : CallState(c) = "none" /\ CallState(c)' = "none"
        BY <3>2
      <4>2. /\ UNCHANGED [c \in Clients |-> CallState(c)]
            /\ UNCHANGED [c \in Clients |-> req[c]]
            /\ UNCHANGED [c \in Clients |-> AbstractAnswer(reply[c])]
        BY <3>4, <4>1
      <4>3. \A c \in Clients : [d \in Clients |-> CallState(d)][c] = "none"
        BY <4>1
      <4> HIDE DEF AbstractAnswer, CallState
      <4> QED BY <3>3, <3>4, <4>2, <4>3 DEF Registry!Boot, Registry!With
    <3> QED BY <3>1, <3>5
  <2>3. CASE \/ UnknownName(Main) \/ NoHandler(Main) \/ CreateTracker(Main) \/ CreateThrows(Main)
             \/ LaunchThread(Main) \/ LaunchThrows(Main) \/ DiscardTracker(Main)
    BY <2>3 DEF UnknownName, NoHandler, CreateTracker, Construct, CreateThrows, LaunchThread, Launch,
       LaunchThrows, DiscardTracker, Discard
  <2> QED BY <2>1, <2>2, <2>3
<1>20. ASSUME NEW o \in Trackers, TrackerThread(o) PROVE UNCHANGED Registry!vars
  BY <1>20 DEF TrackerThread, ThreadStep, Setup, TestExiting, Poll
<1>21. ASSUME NEW c \in Clients, Work(c) PROVE [Registry!Next]_(Registry!vars)
  <2>1. \/ UNCHANGED Registry!vars
        \/ Registry!Start(c) \/ Registry!StartNothing(c) \/ Registry!Fail(c)
        \/ Registry!Stop(c) \/ Registry!List(c) \/ Registry!Return(c)
    BY <1>21, <1>5, <1>6, <1>7, <1>8, <1>9, <1>10, <1>11, <1>12, <1>13, <1>14, <1>15, <1>16, <1>17, <1>18,
       <1>23, <1>24
       DEF Work
  <2> QED BY <2>1 DEF Registry!Next
<1> QED
  <2>1. \/ UNCHANGED vars \/ BootNext \/ BootFails \/ Work(Main)
        \/ \E c \in Clients : Lock(c) \/ (\E r \in Requests : Accept(c, r)) \/ Work(c)
        \/ \E o \in Trackers : TrackerThread(o)
    BY DEF Next
  <2>2. CASE UNCHANGED vars
    BY <1>1, <2>2
  <2>3. CASE BootNext \/ BootFails
    BY <1>2, <1>22, <2>3
  <2>4. CASE Work(Main)
    BY <1>19, <2>4 DEF Registry!Next
  <2>5. CASE \E c \in Clients : Lock(c) \/ (\E r \in Requests : Accept(c, r)) \/ Work(c)
    BY <1>3, <1>4, <1>21, <2>5 DEF Registry!Next
  <2>6. CASE \E o \in Trackers : TrackerThread(o)
    BY <1>20, <2>6
  <2> QED BY <2>1, <2>2, <2>3, <2>4, <2>5, <2>6

(* The HTTP API over the tracker manager implements the atomic registry. *)
THEOREM Refinement ==
  ASSUME IdsFitInt
  PROVE  Spec => ImplementsRegistry
<1>1. RInv /\ RInv' /\ [Next]_vars => [Registry!Next]_(Registry!vars)
  BY NextRefines
<1> QED BY InitRefines, <1>1, SpecRInv, PTL DEF Spec, ImplementsRegistry, Registry!Spec
=============================================================================
