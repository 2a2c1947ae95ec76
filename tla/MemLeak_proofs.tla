--------------------------- MODULE MemLeak_proofs ---------------------------
(***************************************************************************)
(* Theorems about MemLeak, for any threads, addresses, sizes and stacks,   *)
(* any minimal size and any room in the map of allocations.                *)
(***************************************************************************)
EXTENDS MemLeak, SumTheorems

(***************************************************************************)
(* The inductive invariants.                                               *)
(***************************************************************************)

(* Shapes. A thread is idle, in a call of the allocator (about to correct the
   statistics, or to run the function), or telling the statistics of what it
   was given.                                                                *)
Fns == {"malloc", "realloc", "posix_memalign", "free"}
Stats == [size : Nat, n : Nat]
IsMap(m, keys, values) ==
  /\ DOMAIN m \subseteq keys
  /\ m = [k \in DOMAIN m |-> m[k]]
  /\ \A k \in DOMAIN m : m[k] \in values

InCall(c) ==
  /\ c \in [at : {"run", "del_read", "del_write"}, fn : Fns, ptr : Addrs \union {Null}, size : Nat,
            traced : BOOLEAN, armed : BOOLEAN,
            info : Records \union {Null}, seen : Stats \union {Null}, ret : {Null}]
  /\ c.fn # "free" => c.size \in Sizes
  /\ c.fn \in {"realloc", "free"} <=> c.ptr # Null
  /\ c.armed => c.traced /\ c.fn # "free"
Telling(c) ==
  c \in [at : {"add_read", "add_write"}, ptr : {Null}, ret : Addrs \union {Null},
         info : Records, seen : Stats \union {Null}]
IsCall(c) ==
  /\ c = Idle \/ InCall(c) \/ Telling(c)
  /\ c.at \in {"del_read", "del_write"} => c.info \in Records
  /\ c.at \in {"del_write", "add_write"} => c.seen \in Stats

IsReport ==
  /\ report = [at |-> report.at, key |-> report.key, slots |-> report.slots,
               zero |-> report.zero, steady |-> report.steady, freed |-> report.freed]
  /\ report.key \in Addrs \union {Null}
  /\ report.steady \subseteq DOMAIN allocs
  /\ report.at = "none" => report.steady = {}

AllocTypes(m) ==
  /\ IsMap(m, Addrs, Records)
  /\ IsFiniteSet(DOMAIN m) /\ Cardinality(DOMAIN m) <= MaxEntries
CallTypes == call = [t \in Threads |-> call[t]] /\ \A t \in Threads : IsCall(call[t])
HeapTypes == DOMAIN heap \subseteq Addrs /\ heap = [a \in DOMAIN heap |-> heap[a]]
TypeInv ==
  /\ probes \in 0..Len(Order)
  /\ IsMap(sizes, Threads, Sizes) /\ AllocTypes(allocs) /\ IsMap(combined, Stacks, Stats)
  /\ HeapTypes /\ CallTypes /\ IsReport
  /\ doubtful \subseteq Addrs /\ inexact \subseteq Stacks

(* The program owns what it frees or moves, and gives it to one thread only. *)
OwnerInv ==
  \A t \in Threads :
    call[t].ptr # Null =>
      /\ call[t].ptr \in DOMAIN heap
      /\ \A u \in Threads : call[u].ptr = call[t].ptr => u = t

(* The size a call was entered with is noted till the call returns. *)
NoteInv ==
  \A t \in Threads :
    InCall(call[t]) /\ call[t].armed /\ call[t].size >= MinSize =>
      t \in DOMAIN sizes /\ sizes[t] = call[t].size

(***************************************************************************)
(* Lemmas about the operators.                                             *)
(***************************************************************************)

(* The greater of a number and 0. *)
LEMMA NotNegative == \A i \in Int : Max({i, 0}) \in Nat
<1> TAKE i \in Int
<1>1. \E x \in {i, 0} : \A y \in {i, 0} : x >= y
  OBVIOUS
<1>2. Max({i, 0}) \in {i, 0} /\ \A y \in {i, 0} : Max({i, 0}) >= y
  BY <1>1 DEF Max
<1> QED BY <1>2

(* Maps stay maps. *)
LEMMA Maps1 ==
  ASSUME NEW keys, NEW values, NEW m, IsMap(m, keys, values), NEW k \in keys
  PROVE  /\ \A v \in values : IsMap(Put(m, k, v), keys, values)
         /\ IsMap(Without(m, k), keys, values)
<1>1. ASSUME NEW v \in values PROVE IsMap(Put(m, k, v), keys, values)
  <2>1. DOMAIN Put(m, k, v) = DOMAIN m \union {k}
    BY DEF Put
  <2>2. Put(m, k, v) = [j \in DOMAIN Put(m, k, v) |-> Put(m, k, v)[j]]
    BY DEF Put
  <2>3. \A j \in DOMAIN Put(m, k, v) : Put(m, k, v)[j] = IF j = k THEN v ELSE m[j]
    BY DEF Put
  <2> QED BY <1>1, <2>1, <2>2, <2>3 DEF IsMap
<1>2. IsMap(Without(m, k), keys, values)
  BY DEF IsMap, Without
<1> QED BY <1>1, <1>2

(* The map of allocations keeps its bound: a record is put where there is
   room, or taken away.                                                      *)
LEMMA AllocMaps ==
  ASSUME MemLeakAssumption, AllocTypes(allocs), NEW a
  PROVE  /\ a \in Addrs /\ Room(a) => \A info \in Records : AllocTypes(Put(allocs, a, info))
         /\ AllocTypes(Without(allocs, a))
<1> DEFINE D == DOMAIN allocs
<1>1. IsFiniteSet(D) /\ Cardinality(D) \in Nat /\ Cardinality(D) <= MaxEntries /\ MaxEntries \in Nat
  BY FS_CardinalityType DEF AllocTypes, MemLeakAssumption
<1>2. ASSUME a \in Addrs, Room(a), NEW info \in Records PROVE AllocTypes(Put(allocs, a, info))
  <2>1. DOMAIN Put(allocs, a, info) = D \union {a}
    BY DEF Put
  <2>2. IsFiniteSet(D \union {a}) /\ Cardinality(D \union {a}) <= MaxEntries
    <3>1. CASE a \in D
      <4>1. D \union {a} = D
        BY <3>1
      <4> QED BY <1>1, <4>1
    <3>2. CASE a \notin D
      <4>1. Cardinality(D \union {a}) = Cardinality(D) + 1 /\ IsFiniteSet(D \union {a})
        BY <1>1, <3>2, FS_AddElement
      <4> QED BY <1>1, <1>2, <3>2, <4>1 DEF Room
    <3> QED BY <3>1, <3>2
  <2> QED BY <1>2, <2>1, <2>2, Maps1 DEF AllocTypes
<1>3. AllocTypes(Without(allocs, a))
  <2>1. DOMAIN Without(allocs, a) = D \ {a}
    BY DEF Without
  <2>2. IsFiniteSet(D \ {a}) /\ Cardinality(D \ {a}) <= Cardinality(D)
    BY <1>1, FS_Subset
  <2>3. Cardinality(D \ {a}) <= MaxEntries
    BY <1>1, <2>2, FS_CardinalityType
  <2> QED BY <2>1, <2>2, <2>3 DEF AllocTypes, IsMap, Without
<1> QED BY <1>2, <1>3

(* A thread goes to a state of a call. *)
LEMMA CallSteps ==
  ASSUME CallTypes, NEW t \in Threads, NEW c, IsCall(c), Goes(t, c)
  PROVE  CallTypes' /\ call'[t] = c /\ \A u \in Threads : u # t => call'[u] = call[u]
BY DEF CallTypes, Goes

(* What is of a call before it runs. *)
LEMMA NewCalls ==
  ASSUME probes \in 0..Len(Order), NEW fn \in Fns, NEW a \in Addrs \union {Null}, NEW n,
         n \in Nat, fn # "free" => n \in Sizes, fn \in {"realloc", "free"} <=> a # Null
  PROVE  LET c == NewCall(fn, a, n)
         IN  /\ InCall(c) /\ c.at = "run" /\ c.ptr = a /\ c.fn = fn /\ c.size = n
             /\ IsCall(c)
<1> DEFINE c == NewCall(fn, a, n)
<1>1. Len(Order) = 7 /\ \A i \in 1..7 : Order[i] # "none"
  BY DEF Order
<1>2. Returns[fn] \in Attached => fn \in Attached /\ fn # "free"
  <2> SUFFICES ASSUME Returns[fn] \in Attached PROVE fn \in Attached /\ fn # "free"
    OBVIOUS
  <2>1. PICK i \in 1..probes : Order[i] = Returns[fn]
    BY DEF Attached
  <2>2. i \in 1..7 /\ probes \in 0..7
    BY <1>1
  <2>3. fn # "free"
    BY <1>1, <2>1, <2>2 DEF Returns
  <2>4. \/ fn = "malloc" /\ i = 2
        \/ fn = "realloc" /\ i = 4
        \/ fn = "posix_memalign" /\ i = 6
    BY <2>1, <2>2, <2>3 DEF Fns, Returns, Order
  <2>5. i - 1 \in 1..probes /\ Order[i - 1] = fn
    BY <2>2, <2>4 DEF Order
  <2> QED BY <2>3, <2>5 DEF Attached
<1> DEFINE traced == fn \in Attached
           armed == Returns[fn] \in Attached
<1>3. c = [at |-> "run", fn |-> fn, ptr |-> a, size |-> n, traced |-> traced, armed |-> armed,
           info |-> Null, seen |-> Null, ret |-> Null]
  BY Zenon DEF NewCall
<1>4. traced \in BOOLEAN /\ armed \in BOOLEAN /\ (armed => traced /\ fn # "free")
  BY <1>2
<1>5. InCall(c) /\ c.at = "run" /\ c.ptr = a /\ c.fn = fn /\ c.size = n
  <2> HIDE DEF c, traced, armed
  <2> QED BY <1>3, <1>4 DEF InCall
<1> QED BY <1>5 DEF IsCall

(* What is counted on stays in the map, whichever record is removed or replaced. *)
LEMMA Undisturbed ==
  ASSUME IsReport, report' = report, DOMAIN allocs \subseteq DOMAIN allocs'
  PROVE  IsReport'
BY DEF IsReport

(* A step that does change the records of a stack leaves those of the other stacks alone. *)
LEMMA Disturbs ==
  ASSUME IsReport, NEW a, report' = Disturbed(a), DOMAIN allocs \ {a} \subseteq DOMAIN allocs'
  PROVE  IsReport'
<1>1. CASE report.at = "none"
  BY <1>1 DEF IsReport, Disturbed
<1>2. CASE report.at # "none"
  <2> DEFINE freed == report.freed \/ a \in DOMAIN allocs
  <2>1. report' = [report EXCEPT !.steady = report.steady \ {a}, !.freed = freed]
    BY <1>2 DEF Disturbed
  <2> HIDE DEF freed
  <2>2. report' = [at |-> report.at, key |-> report.key, slots |-> report.slots,
                   zero |-> report.zero, steady |-> report.steady \ {a}, freed |-> freed]
    BY <2>1 DEF IsReport
  <2>3. report'.at = report.at /\ report'.key = report.key /\ report'.steady = report.steady \ {a}
    BY <2>2
  <2>4. report' = [at |-> report'.at, key |-> report'.key, slots |-> report'.slots,
                   zero |-> report'.zero, steady |-> report'.steady, freed |-> report'.freed]
    BY <2>2
  <2> QED BY <1>2, <2>3, <2>4 DEF IsReport
<1> QED BY <1>1, <1>2

(* Taking the record of what is freed or moved: the call goes on with it. *)
LEMMA TakesRecord ==
  ASSUME NEW c, InCall(c), NEW info \in Records
  PROVE  LET d == [c EXCEPT !.at = "del_read", !.info = info]
         IN  /\ InCall(d) /\ IsCall(d) /\ d.at = "del_read" /\ d.info = info
             /\ d.ptr = c.ptr /\ d.size = c.size /\ d.armed = c.armed /\ d.fn = c.fn
<1> DEFINE d == [c EXCEPT !.at = "del_read", !.info = info]
<1>1. d \in [at : {"del_read"}, fn : {c.fn}, ptr : {c.ptr}, size : {c.size}, traced : {c.traced},
            armed : {c.armed}, info : {info}, seen : Stats \union {Null}, ret : {Null}]
  BY DEF InCall
<1>2. /\ d.at = "del_read" /\ d.info = info /\ d.ptr = c.ptr /\ d.size = c.size
      /\ d.armed = c.armed /\ d.fn = c.fn /\ d.traced = c.traced
  <2> HIDE DEF d
  <2> QED BY <1>1
<1>3. InCall(d)
  <2> HIDE DEF d
  <2> QED BY <1>1, <1>2 DEF InCall
<1>4. IsCall(d)
  <2> HIDE DEF d
  <2> QED BY <1>2, <1>3 DEF IsCall
<1> QED BY <1>2, <1>3, <1>4

(* The tracer starts with every variable in its type. *)
LEMMA InitTypes == MemLeakAssumption /\ Init => TypeInv
<1> SUFFICES ASSUME MemLeakAssumption, Init PROVE TypeInv
  OBVIOUS
<1>1. sizes = Nothing /\ allocs = Nothing /\ combined = Nothing /\ heap = Nothing /\ DOMAIN Nothing = {}
      /\ Nothing = [k \in {} |-> Nothing[k]]
  BY DEF Init, Nothing
<1> HIDE DEF Nothing
<1>2. AllocTypes(allocs)
  <2>1. IsFiniteSet({}) /\ Cardinality({}) = 0 /\ MaxEntries \in Nat
    BY FS_EmptySet DEF MemLeakAssumption
  <2> QED BY <1>1, <2>1 DEF AllocTypes, IsMap
<1>3. CallTypes
  BY DEF Init, CallTypes, IsCall, Idle
<1>4. IsReport
  BY DEF Init, NoReport, IsReport
<1>5. probes \in 0..Len(Order)
  BY DEF Init, Order
<1> QED BY <1>1, <1>2, <1>3, <1>4, <1>5 DEF Init, TypeInv, HeapTypes, IsMap

(* The entry of a function keeps the shapes. *)
LEMMA EnterTypes ==
  ASSUME MemLeakAssumption, TypeInv, NEW t \in Threads,
         NEW fn \in Fns, NEW a \in Addrs \union {Null}, NEW n,
         n \in Nat, fn # "free" => n \in Sizes, fn \in {"realloc", "free"} <=> a # Null,
         Enter(t, NewCall(fn, a, n))
  PROVE  TypeInv'
<1> DEFINE c == NewCall(fn, a, n)
<1>1. /\ InCall(c) /\ IsCall(c) /\ c.at = "run" /\ c.ptr = a /\ c.fn = fn /\ c.size = n
      /\ probes' = probes /\ combined' = combined /\ heap' = heap /\ inexact' = inexact
      /\ sizes' = Note(t, c)
      /\ doubtful' = IF c.traced THEN doubtful \ {c.ptr}
                     ELSE IF c.ptr \in DOMAIN allocs THEN doubtful \union {c.ptr} ELSE doubtful
  BY NewCalls DEF Enter, TypeInv
<1>2. \/ /\ a \in DOMAIN allocs /\ allocs' = Without(allocs, a)
         /\ Goes(t, [c EXCEPT !.at = "del_read", !.info = allocs[a]])
         /\ report' = Disturbed(a)
      \/ allocs' = allocs /\ report' = report /\ Goes(t, c)
  BY <1>1 DEF Enter
<1> HIDE DEF c
<1>3. IsMap(sizes', Threads, Sizes)
  BY <1>1, Maps1 DEF Note, Key, TypeInv
<1>4. AllocTypes(allocs') /\ IsReport'
  <2>1. DOMAIN Without(allocs, a) = DOMAIN allocs \ {a}
    BY DEF Without
  <2>2. AllocTypes(allocs')
    BY <1>2, AllocMaps DEF TypeInv
  <2>3. IsReport
    BY DEF TypeInv
  <2>4. CASE allocs' = Without(allocs, a) /\ report' = Disturbed(a)
    BY <2>1, <2>2, <2>3, <2>4, Disturbs
  <2>5. CASE allocs' = allocs /\ report' = report
    BY <2>2, <2>3, <2>5, Undisturbed
  <2> QED BY <1>2, <2>2, <2>4, <2>5
<1>5. CallTypes'
  <2>1. CASE Goes(t, c)
    BY <1>1, <2>1, CallSteps DEF TypeInv
  <2>2. CASE a \in DOMAIN allocs /\ Goes(t, [c EXCEPT !.at = "del_read", !.info = allocs[a]])
    <3>1. allocs[a] \in Records
      BY <2>2 DEF TypeInv, AllocTypes, IsMap
    <3>2. IsCall([c EXCEPT !.at = "del_read", !.info = allocs[a]])
      BY <1>1, <3>1, TakesRecord
    <3> QED BY <2>2, <3>2, CallSteps DEF TypeInv
  <2> QED BY <1>2, <2>1, <2>2
<1>6. doubtful' \subseteq Addrs
  <2>1. a \in DOMAIN allocs => a \in Addrs
    BY DEF TypeInv, AllocTypes, IsMap
  <2> QED BY <1>1, <2>1 DEF TypeInv
<1> QED BY <1>1, <1>3, <1>4, <1>5, <1>6 DEF TypeInv, HeapTypes

(* Who enters a function: the program asks for memory, moves or frees its own. *)
LEMMA EntersAre ==
  ASSUME MemLeakAssumption, NEW t \in Threads, Alloc(t) \/ Realloc(t) \/ Free(t)
  PROVE  \E fn \in Fns, a \in Addrs \union {Null}, n \in Nat :
           /\ fn # "free" => n \in Sizes
           /\ fn \in {"realloc", "free"} <=> a # Null
           /\ a # Null => Owned(a)
           /\ Enter(t, NewCall(fn, a, n))
<1>1. Sizes \subseteq Nat /\ Null \notin Addrs /\ 0 \in Nat
  BY DEF MemLeakAssumption
<1>2. CASE Alloc(t)
  <2>1. PICK fn \in {"malloc", "posix_memalign"}, n \in Sizes : Enter(t, NewCall(fn, Null, n))
    BY <1>2 DEF Alloc
  <2>2. fn \in Fns /\ fn \notin {"realloc", "free"} /\ n \in Nat
    BY <1>1 DEF Fns
  <2> QED BY <2>1, <2>2
<1>3. CASE Realloc(t)
  <2>1. PICK a \in Addrs, n \in Sizes : Owned(a) /\ Enter(t, NewCall("realloc", a, n))
    BY <1>3 DEF Realloc
  <2>2. "realloc" \in Fns /\ "realloc" # "free" /\ n \in Nat /\ a # Null
    BY <1>1 DEF Fns
  <2> QED BY <2>1, <2>2
<1>4. CASE Free(t)
  <2>1. PICK a \in Addrs : Owned(a) /\ Enter(t, NewCall("free", a, 0))
    BY <1>4 DEF Free
  <2>2. "free" \in Fns /\ a # Null
    BY <1>1 DEF Fns
  <2> QED BY <1>1, <2>1, <2>2
<1> QED BY <1>2, <1>3, <1>4

(* What a call returns: an address or none, and the function had one if it
   was to be freed or moved.                                                 *)
LEMMA Returned ==
  ASSUME MemLeakAssumption, TypeInv, NEW t \in Threads, call[t].at = "run",
         NEW s \in StackIds(call[t]), NEW res \in Results(call[t]), NEW a \in Told(call[t], res)
  PROVE  /\ InCall(call[t]) /\ s \in Stacks \union {NoStack}
         /\ res \in Addrs \union {Null} /\ a \in Addrs \union {Null, Unread}
         /\ call[t].fn = "realloc" => call[t].ptr \in Addrs
         /\ res # Null => a \in {res, Unread} /\ call[t].fn # "free" /\ (res \notin DOMAIN heap \/ res = call[t].ptr)
<1> DEFINE c == call[t]
<1>1. IsCall(c)
  BY DEF TypeInv, CallTypes
<1>2. InCall(c)
  BY <1>1 DEF IsCall, Telling, Idle
<1>3. c.fn \in Fns /\ c.ptr \in Addrs \union {Null} /\ (c.fn = "realloc" => c.ptr # Null)
  BY <1>2 DEF InCall
<1>4. res \in Addrs \union {Null}
  BY <1>3 DEF Results
<1>5. res # Null => a \in {res, Unread} /\ c.fn # "free" /\ (res \notin DOMAIN heap \/ res = c.ptr)
  BY <1>3 DEF Results, Told
<1>6. a \in Addrs \union {Null, Unread}
  BY <1>4 DEF Told
<1>7. s \in Stacks \union {NoStack}
  BY DEF StackIds
<1> QED BY <1>2, <1>3, <1>4, <1>5, <1>6, <1>7

(* The return of a function keeps the shapes. *)
LEMMA ReturnTypes ==
  ASSUME MemLeakAssumption, TypeInv, NEW t \in Threads, Return(t)
  PROVE  TypeInv'
<1> DEFINE c == call[t]
<1>0. PICK s \in StackIds(c), res \in Results(c) :
        \E a \in Told(c, res) : /\ heap' = HeapAfter(c, res, s)
                                /\ Exit(t, c, s, res, a)
                                /\ doubtful' = Doubts(c, s, res, a)
  BY DEF Return
<1>1. PICK a \in Told(c, res) : /\ heap' = HeapAfter(c, res, s)
                                /\ Exit(t, c, s, res, a)
                                /\ doubtful' = Doubts(c, s, res, a)
  BY <1>0
<1>2. c.at = "run" /\ probes' = probes /\ combined' = combined
  BY DEF Return
<1>3. /\ InCall(c) /\ s \in Stacks \union {NoStack}
      /\ res \in Addrs \union {Null} /\ a \in Addrs \union {Null, Unread}
      /\ c.fn = "realloc" => c.ptr \in Addrs
  BY <1>2, Returned
<1> DEFINE noted == c.armed /\ a # Unread /\ t \in DOMAIN sizes
           put == noted /\ a # Null /\ s # NoStack
           info == [size |-> sizes[t], stack |-> s]
           told == [Idle EXCEPT !.at = "add_read", !.ret = res, !.info = info]
<1>4. /\ sizes' = IF noted THEN Without(sizes, t) ELSE sizes
      /\ \/ /\ put /\ Goes(t, told)
            /\ \/ Room(a) /\ allocs' = Put(allocs, a, info) /\ report' = Disturbed(a)
               \/ allocs' = allocs /\ report' = report
            /\ inexact' = inexact
                   \union (IF a \in DOMAIN allocs THEN {allocs[a].stack} ELSE {})
                   \union (IF Room(a) /\ a = res THEN {} ELSE {s})
         \/ /\ ~put /\ Goes(t, Idle)
            /\ allocs' = allocs /\ report' = report /\ inexact' = inexact
  BY <1>1 DEF Exit, Key
<1>5. put => info \in Records
  BY <1>3 DEF TypeInv, IsMap, Records
<1>6. put => IsCall(told)
  <2> SUFFICES ASSUME put PROVE IsCall(told)
    OBVIOUS
  <2>1. told \in [at : {"add_read"}, ptr : {Null}, ret : {res}, info : {info}, seen : {Null}]
    <3> HIDE DEF info
    <3> QED BY DEF Idle
  <2> HIDE DEF told, info, put
  <2> QED BY <1>3, <1>5, <2>1 DEF IsCall, Telling
<1>7. IsCall(Idle)
  BY DEF IsCall, Idle
<1>15. put => a \in Addrs
  BY <1>3
<1> HIDE DEF c, noted, info, told
<1>8. IsMap(sizes', Threads, Sizes)
  BY <1>4, Maps1 DEF TypeInv
<1>9. AllocTypes(allocs')
  BY <1>4, <1>5, <1>15, AllocMaps DEF TypeInv
<1>10. IsReport'
  <2>1. IsReport /\ DOMAIN allocs \subseteq DOMAIN Put(allocs, a, info)
    BY DEF TypeInv, Put
  <2>2. CASE allocs' = Put(allocs, a, info) /\ report' = Disturbed(a)
    BY <2>1, <2>2, Disturbs
  <2>3. CASE allocs' = allocs /\ report' = report
    BY <2>1, <2>3, Undisturbed
  <2> QED BY <1>4, <2>2, <2>3
<1>11. CallTypes'
  BY <1>4, <1>6, <1>7, CallSteps DEF TypeInv
<1>12. inexact' \subseteq Stacks
  <2>1. a \in DOMAIN allocs => allocs[a].stack \in Stacks
    BY DEF TypeInv, AllocTypes, IsMap, Records
  <2> QED BY <1>3, <1>4, <2>1 DEF TypeInv
<1>13. HeapTypes'
  BY <1>1, <1>3 DEF HeapAfter, Put, Without, TypeInv, HeapTypes
<1>14. doubtful' \subseteq Addrs
  BY <1>1, <1>3 DEF Doubts, TypeInv
<1> QED BY <1>2, <1>8, <1>9, <1>10, <1>11, <1>12, <1>13, <1>14 DEF TypeInv

(* The statistics keep the shapes. *)
LEMMA StatTypes ==
  ASSUME MemLeakAssumption, TypeInv, NEW t \in Threads, ReadStat(t) \/ WriteStat(t)
  PROVE  /\ TypeInv'
         /\ \A u \in Threads : call'[u].ptr = call[u].ptr
         /\ \A u \in Threads : InCall(call'[u]) => /\ InCall(call[u])
                                                   /\ call'[u].armed = call[u].armed
                                                   /\ call'[u].size = call[u].size
<1> DEFINE c == call[t]
<1>1. IsCall(c) /\ CallTypes /\ IsReport
  BY DEF TypeInv, CallTypes
<1>2. /\ probes' = probes /\ sizes' = sizes /\ allocs' = allocs /\ heap' = heap
      /\ report' = report /\ doubtful' = doubtful
  BY DEF ReadStat, WriteStat, mapVars, ghostVars
<1>3. IsReport'
  BY <1>1, <1>2, Undisturbed
<1>4. CASE ReadStat(t)
  <2> DEFINE at == IF c.at = "del_read" THEN "del_write" ELSE "add_write"
             d == [c EXCEPT !.at = at, !.seen = Stat(c.info.stack)]
             next == [del_read |-> "del_write", add_read |-> "add_write"]
  <2>1. /\ c.at \in {"del_read", "add_read"} /\ Goes(t, d) /\ combined' = combined
        /\ inexact' \subseteq inexact \union {c.info.stack}
    <3>1. /\ c.at \in DOMAIN next /\ combined' = combined
          /\ Goes(t, [c EXCEPT !.at = next[c.at], !.seen = Stat(c.info.stack)])
      BY <1>4 DEF ReadStat, mapVars
    <3>2. c.at \in {"del_read", "add_read"} /\ next[c.at] = at
      BY <3>1
    <3>3. inexact' \subseteq inexact \union {c.info.stack}
      BY <1>4 DEF ReadStat
    <3> HIDE DEF next, at
    <3> QED BY <3>1, <3>2, <3>3
  <2>2. c.info \in Records /\ c.info.stack \in Stacks
    BY <1>1, <2>1 DEF IsCall, InCall, Telling, Idle, Records
  <2>3. Stat(c.info.stack) \in Stats
    BY DEF TypeInv, IsMap, Stat, None, Stats
  <2>4. CASE InCall(c)
    <3>1. c.at = "del_read"
      BY <2>1, <2>4 DEF InCall
    <3>2. d \in [at : {"del_write"}, fn : {c.fn}, ptr : {c.ptr}, size : {c.size}, traced : {c.traced},
                 armed : {c.armed}, info : {c.info}, seen : {Stat(c.info.stack)}, ret : {Null}]
      BY <2>4, <3>1 DEF InCall
    <3> HIDE DEF d
    <3>3. InCall(d) /\ d.ptr = c.ptr /\ d.size = c.size /\ d.armed = c.armed
      BY <2>2, <2>3, <2>4, <3>2 DEF InCall
    <3>4. IsCall(d)
      BY <2>2, <2>3, <3>2, <3>3 DEF IsCall
    <3>5. /\ CallTypes' /\ call'[t] = d /\ \A u \in Threads : u # t => call'[u] = call[u]
      BY <1>1, <2>1, <3>4, CallSteps
    <3> QED BY <1>2, <1>3, <2>1, <2>2, <2>4, <3>3, <3>5 DEF TypeInv, HeapTypes
  <2>5. CASE Telling(c)
    <3>1. c.at = "add_read"
      BY <2>1, <2>5 DEF Telling
    <3>2. d \in [at : {"add_write"}, ptr : {Null}, ret : {c.ret}, info : {c.info},
                 seen : {Stat(c.info.stack)}]
      BY <2>5, <3>1 DEF Telling
    <3> HIDE DEF d
    <3>3. Telling(d) /\ d.ptr = c.ptr /\ ~InCall(d)
      BY <2>2, <2>3, <2>5, <3>2 DEF Telling, InCall
    <3>4. IsCall(d)
      BY <2>2, <2>3, <3>2, <3>3 DEF IsCall
    <3>5. /\ CallTypes' /\ call'[t] = d /\ \A u \in Threads : u # t => call'[u] = call[u]
      BY <1>1, <2>1, <3>4, CallSteps
    <3> QED BY <1>2, <1>3, <2>1, <2>2, <3>3, <3>5 DEF TypeInv, HeapTypes
  <2> QED BY <1>1, <2>1, <2>4, <2>5 DEF IsCall, Idle
<1>5. CASE WriteStat(t)
  <2>1. c.at \in {"del_write", "add_write"} /\ inexact' = inexact
    BY <1>5 DEF WriteStat, Writing, ghostVars
  <2>2. c.info \in Records /\ c.info.stack \in Stacks /\ c.info.size \in Sizes /\ c.seen \in Stats
    BY <1>1, <2>1 DEF IsCall, InCall, Telling, Idle, Records
  <2>3. c.info.size \in Nat /\ c.seen.size \in Nat /\ c.seen.n \in Nat
    BY <2>2 DEF MemLeakAssumption, Stats
  <2>4. Added(c.seen, c.info.size) \in Stats
    BY <2>3 DEF Added, Stats
  <2>5. Deleted(c.seen, c.info.size) \in Stats
    <3>1. Max({c.seen.size - c.info.size, 0}) \in Nat /\ Max({c.seen.n - 1, 0}) \in Nat
      BY <2>3, NotNegative
    <3> QED BY <3>1 DEF Deleted, Stats
  <2>6. CASE c.at = "add_write"
    <3>1. combined' = Put(combined, c.info.stack, Added(c.seen, c.info.size)) /\ Goes(t, Idle)
      BY <1>5, <2>6 DEF WriteStat
    <3>2. IsCall(Idle) /\ ~InCall(Idle) /\ Idle.ptr = Null
      BY DEF IsCall, InCall, Idle
    <3>3. c.ptr = Null
      BY <1>1, <2>6 DEF IsCall, InCall, Telling, Idle
    <3>4. IsMap(combined', Stacks, Stats)
      BY <2>2, <2>4, <3>1, Maps1 DEF TypeInv
    <3>5. CallTypes' /\ call'[t] = Idle /\ \A u \in Threads : u # t => call'[u] = call[u]
      BY <1>1, <3>1, <3>2, CallSteps
    <3> QED BY <1>2, <1>3, <2>1, <3>2, <3>3, <3>4, <3>5 DEF TypeInv, HeapTypes
  <2>7. CASE c.at = "del_write"
    <3> DEFINE d == [c EXCEPT !.at = "run", !.info = Null, !.seen = Null]
    <3>1. combined' = Put(combined, c.info.stack, Deleted(c.seen, c.info.size)) /\ Goes(t, d)
      BY <1>5, <2>7 DEF WriteStat
    <3>2. InCall(c)
      BY <1>1, <2>7 DEF IsCall, Telling, Idle
    <3>3. d \in [at : {"run"}, fn : {c.fn}, ptr : {c.ptr}, size : {c.size}, traced : {c.traced},
                 armed : {c.armed}, info : {Null}, seen : {Null}, ret : {Null}]
      BY <3>2 DEF InCall
    <3> HIDE DEF d
    <3>4. InCall(d) /\ d.at = "run" /\ d.ptr = c.ptr /\ d.size = c.size /\ d.armed = c.armed
      BY <3>2, <3>3 DEF InCall
    <3>5. IsCall(d)
      BY <3>4 DEF IsCall
    <3>6. IsMap(combined', Stacks, Stats)
      BY <2>2, <2>5, <3>1, Maps1 DEF TypeInv
    <3>7. CallTypes' /\ call'[t] = d /\ \A u \in Threads : u # t => call'[u] = call[u]
      BY <1>1, <3>1, <3>5, CallSteps
    <3> QED BY <1>2, <1>3, <2>1, <3>2, <3>4, <3>6, <3>7 DEF TypeInv, HeapTypes
  <2> QED BY <2>1, <2>6, <2>7
<1> QED BY <1>4, <1>5

(* The report keeps the shapes, and touches nothing else. *)
LEMMA ReportTypes ==
  ASSUME MemLeakAssumption, TypeInv, Report \/ NextKey \/ Lookup
  PROVE  TypeInv'
<1>1. /\ probes' = probes /\ sizes' = sizes /\ allocs' = allocs /\ combined' = combined
      /\ heap' = heap /\ call' = call /\ doubtful' = doubtful /\ inexact' = inexact
  BY DEF Report, NextKey, Lookup, mapVars, ghostVars
<1>2. IsReport /\ DOMAIN allocs \subseteq Addrs /\ DOMAIN allocs \subseteq Nat
  BY DEF TypeInv, AllocTypes, IsMap, MemLeakAssumption
<1> DEFINE Made(r) == r = [at |-> r.at, key |-> r.key, slots |-> r.slots,
                           zero |-> r.zero, steady |-> r.steady, freed |-> r.freed]
<1>3. Made(NoReport) /\ NoReport.at = "none" /\ NoReport.key = Null /\ NoReport.steady = {}
  BY DEF NoReport
<1>4. CASE Report
  <2>1. report' = [NoReport EXCEPT !.at = "next", !.steady = DOMAIN allocs]
    BY <1>4 DEF Report
  <2>2. Made(report') /\ report'.at = "next" /\ report'.key = Null /\ report'.steady = DOMAIN allocs
    BY <2>1 DEF NoReport
  <2> QED BY <1>1, <2>2 DEF TypeInv, HeapTypes, CallTypes, IsReport
<1>5. CASE NextKey
  <2> DEFINE later == IF report.key \in DOMAIN allocs
                      THEN {a \in DOMAIN allocs : a > report.key} ELSE DOMAIN allocs
  <2>1. report' = IF later = {} THEN [report EXCEPT !.at = "done"]
                  ELSE [report EXCEPT !.at = "lookup", !.key = Min(later)]
    BY <1>5 DEF NextKey
  <2>2. later # {} => Min(later) \in Addrs
    BY <1>2, Least
  <2> HIDE DEF later
  <2>3. report'.at \in {"done", "lookup"} /\ report'.steady = report.steady
        /\ report'.key \in Addrs \union {Null} /\ Made(report')
    BY <1>2, <2>1, <2>2 DEF IsReport
  <2> QED BY <1>1, <1>2, <2>3 DEF TypeInv, HeapTypes, CallTypes, IsReport
<1>6. CASE Lookup
  <2>1. \/ report' = NoReport
        \/ report' = [report EXCEPT !.at = "next",
                                    !.slots = AddTo(report.slots, allocs[report.key]),
                                    !.zero = report.zero \/ allocs[report.key].stack = 0]
    BY <1>6 DEF Lookup
  <2>2. \/ report' = NoReport
        \/ /\ report'.at = "next" /\ report'.steady = report.steady /\ report'.key = report.key
           /\ Made(report')
    <3> DEFINE zero == report.zero \/ allocs[report.key].stack = 0
               slots == AddTo(report.slots, allocs[report.key])
    <3>1. \/ report' = NoReport
          \/ report' = [report EXCEPT !.at = "next", !.slots = slots, !.zero = zero]
      BY <2>1
    <3> HIDE DEF zero, slots
    <3> QED BY <1>2, <3>1 DEF IsReport
  <2> QED BY <1>1, <1>2, <1>3, <2>2 DEF TypeInv, HeapTypes, CallTypes, IsReport
<1> QED BY <1>4, <1>5, <1>6

(* Every step keeps the shapes. *)
LEMMA NextTypes == MemLeakAssumption /\ TypeInv /\ [Next]_vars => TypeInv'
<1> SUFFICES ASSUME MemLeakAssumption, TypeInv, [Next]_vars PROVE TypeInv'
  OBVIOUS
<1>1. ASSUME probes' \in 0..Len(Order),
             UNCHANGED <<mapVars, heap, call, calls, report, ghostVars>>
      PROVE  TypeInv'
  <2>1. /\ sizes' = sizes /\ allocs' = allocs /\ combined' = combined /\ heap' = heap
        /\ call' = call /\ report' = report /\ doubtful' = doubtful /\ inexact' = inexact
    BY <1>1 DEF mapVars, ghostVars
  <2> QED BY <1>1, <2>1 DEF TypeInv, HeapTypes, CallTypes, IsReport
<1>2. CASE Attach
  <2>1. Len(Order) = 7
    BY DEF Order
  <2> QED BY <1>1, <1>2, <2>1 DEF Attach, TypeInv
<1>3. ASSUME NEW t \in Threads, Thread(t) PROVE TypeInv'
  <2>1. CASE Alloc(t) \/ Realloc(t) \/ Free(t)
    BY <2>1, EntersAre, EnterTypes
  <2> QED BY <1>3, <2>1, ReturnTypes, StatTypes DEF Thread
<1>4. CASE Report \/ NextKey \/ Lookup
  BY <1>4, ReportTypes
<1>5. CASE UNCHANGED vars
  BY <1>1, <1>5 DEF vars, TypeInv
<1> QED BY <1>2, <1>3, <1>4, <1>5 DEF Next

(* The record of types that the runs check is part of it. *)
LEMMA TypesAreChecked == MemLeakAssumption /\ TypeInv => TypeOK
<1> SUFFICES ASSUME MemLeakAssumption, TypeInv PROVE TypeOK
  OBVIOUS
<1>1. \A m, keys, values : IsMap(m, keys, values) => m \in Maps(keys, values)
  BY DEF IsMap, Maps
<1>2. sizes \in Maps(Threads, Sizes) /\ allocs \in Maps(Addrs, Records)
  BY <1>1 DEF TypeInv, AllocTypes
<1>3. \A t \in Threads : {call[t].ptr, call[t].ret} \subseteq Addrs \union {Null}
  <2> TAKE t \in Threads
  <2>1. IsCall(call[t])
    BY DEF TypeInv, CallTypes
  <2> QED BY <2>1 DEF IsCall, InCall, Telling, Idle
<1>4. \A s \in DOMAIN combined : combined[s].size \in Nat /\ combined[s].n \in Nat
  BY DEF TypeInv, IsMap, Stats
<1> QED
  BY <1>2, <1>3, <1>4 DEF TypeOK, TypeInv, AllocTypes, IsMap, HeapTypes, IsReport

(* The state has its shape, the map of allocations never has more records
   than it has room for, and no statistic is ever negative, whatever order
   the threads read and write them in.                                       *)
THEOREM LeakTypeCorrect == Spec => []TypeOK
<1>1. Init => TypeInv
  BY InitTypes, MemLeakAssumption
<1>2. TypeInv /\ [Next]_vars => TypeInv'
  BY NextTypes, MemLeakAssumption
<1>3. TypeInv => TypeOK
  BY TypesAreChecked, MemLeakAssumption
<1> QED BY <1>1, <1>2, <1>3, PTL DEF Spec

(***************************************************************************)
(* The records are true.                                                   *)
(***************************************************************************)
(* The records are true, given who owns what and what is noted. *)
TrueInv == OwnerInv /\ NoteInv /\ RecordsAreTrue

(* The map of allocations is empty at the start, so that it is true. *)
LEMMA InitTrue == MemLeakAssumption /\ Init => TrueInv
<1> SUFFICES ASSUME MemLeakAssumption, Init PROVE TrueInv
  OBVIOUS
<1>1. DOMAIN heap = {} /\ DOMAIN allocs = {} /\ \A t \in Threads : call[t] = Idle
  BY DEF Init, Nothing
<1>2. Idle.ptr = Null /\ ~InCall(Idle)
  BY DEF Idle, InCall
<1> QED BY <1>1, <1>2 DEF TrueInv, OwnerInv, NoteInv, RecordsAreTrue

(* What the entry of a function does: the address is the call's from now on,
   its record is taken away if the probe is there, the size is noted.        *)
LEMMA EnterSteps ==
  ASSUME MemLeakAssumption, TypeInv, NEW t \in Threads,
         NEW fn \in Fns, NEW a \in Addrs \union {Null}, NEW n \in Nat,
         fn # "free" => n \in Sizes, fn \in {"realloc", "free"} <=> a # Null,
         Enter(t, NewCall(fn, a, n))
  PROVE  /\ heap' = heap /\ call[t].ptr = Null
         /\ InCall(call'[t]) /\ call'[t].ptr = a
         /\ \A u \in Threads : u # t => call'[u] = call[u]
         /\ \A u \in Threads : u # t /\ u \in DOMAIN sizes =>
              u \in DOMAIN sizes' /\ sizes'[u] = sizes[u]
         /\ call'[t].armed /\ call'[t].size >= MinSize =>
              t \in DOMAIN sizes' /\ sizes'[t] = call'[t].size
         /\ \/ a \in DOMAIN allocs /\ allocs' = Without(allocs, a) /\ doubtful' = doubtful \ {a}
            \/ a \notin DOMAIN allocs /\ allocs' = allocs /\ doubtful \ {a} \subseteq doubtful'
            \/ a \in DOMAIN allocs /\ allocs' = allocs /\ doubtful' = doubtful \union {a}
<1> DEFINE c == NewCall(fn, a, n)
<1>1. /\ InCall(c) /\ IsCall(c) /\ c.at = "run" /\ c.ptr = a /\ c.fn = fn /\ c.size = n
  BY NewCalls DEF TypeInv
<1>2. /\ heap' = heap /\ call[t] = Idle /\ sizes' = Note(t, c)
      /\ doubtful' = IF c.traced THEN doubtful \ {c.ptr}
                     ELSE IF c.ptr \in DOMAIN allocs THEN doubtful \union {c.ptr} ELSE doubtful
  BY DEF Enter
<1>3. IF c.traced /\ a \in DOMAIN allocs
      THEN allocs' = Without(allocs, a) /\ Goes(t, [c EXCEPT !.at = "del_read", !.info = allocs[a]])
      ELSE allocs' = allocs /\ Goes(t, c)
  BY <1>1 DEF Enter
<1>4. CallTypes /\ call[t].ptr = Null
  BY <1>2 DEF TypeInv, Idle
<1> HIDE DEF c
<1>5. /\ InCall(call'[t]) /\ call'[t].ptr = a /\ call'[t].size = n /\ call'[t].armed = c.armed
      /\ \A u \in Threads : u # t => call'[u] = call[u]
  <2>1. CASE c.traced /\ a \in DOMAIN allocs
    <3> DEFINE d == [c EXCEPT !.at = "del_read", !.info = allocs[a]]
    <3>1. allocs[a] \in Records
      BY <2>1 DEF TypeInv, AllocTypes, IsMap
    <3>2. InCall(d) /\ IsCall(d) /\ d.ptr = c.ptr /\ d.size = c.size /\ d.armed = c.armed
      BY <1>1, <3>1, TakesRecord
    <3>3. Goes(t, d)
      BY <1>3, <2>1
    <3> HIDE DEF d
    <3> QED BY <1>1, <1>4, <3>2, <3>3, CallSteps
  <2>2. CASE ~(c.traced /\ a \in DOMAIN allocs)
    BY <1>1, <1>3, <1>4, <2>2, CallSteps
  <2> QED BY <2>1, <2>2
<1>6. \A u \in Threads : u # t /\ u \in DOMAIN sizes => u \in DOMAIN sizes' /\ sizes'[u] = sizes[u]
  BY <1>2 DEF Note, Key, Put
<1>7. c.armed /\ n >= MinSize => t \in DOMAIN sizes' /\ sizes'[t] = n
  <2>1. c.armed => c.traced /\ c.fn # "free"
    BY <1>1 DEF InCall
  <2> QED BY <1>1, <1>2, <2>1 DEF Note, Key, Put
<1>8. \/ a \in DOMAIN allocs /\ allocs' = Without(allocs, a) /\ doubtful' = doubtful \ {a}
      \/ a \notin DOMAIN allocs /\ allocs' = allocs /\ doubtful \ {a} \subseteq doubtful'
      \/ a \in DOMAIN allocs /\ allocs' = allocs /\ doubtful' = doubtful \union {a}
  BY <1>1, <1>2, <1>3
<1> QED BY <1>2, <1>4, <1>5, <1>6, <1>7, <1>8

(* The entry of a function keeps it. *)
LEMMA EnterTrue ==
  ASSUME MemLeakAssumption, TypeInv, TrueInv, NEW t \in Threads,
         NEW fn \in Fns, NEW a \in Addrs \union {Null}, NEW n \in Nat,
         fn # "free" => n \in Sizes, fn \in {"realloc", "free"} <=> a # Null,
         a # Null => Owned(a),
         Enter(t, NewCall(fn, a, n))
  PROVE  TrueInv'
<1>1. /\ heap' = heap /\ call[t].ptr = Null
      /\ InCall(call'[t]) /\ call'[t].ptr = a
      /\ \A u \in Threads : u # t => call'[u] = call[u]
      /\ \A u \in Threads : u # t /\ u \in DOMAIN sizes =>
           u \in DOMAIN sizes' /\ sizes'[u] = sizes[u]
      /\ call'[t].armed /\ call'[t].size >= MinSize =>
           t \in DOMAIN sizes' /\ sizes'[t] = call'[t].size
      /\ \/ a \in DOMAIN allocs /\ allocs' = Without(allocs, a) /\ doubtful' = doubtful \ {a}
         \/ a \notin DOMAIN allocs /\ allocs' = allocs /\ doubtful \ {a} \subseteq doubtful'
         \/ a \in DOMAIN allocs /\ allocs' = allocs /\ doubtful' = doubtful \union {a}
  BY EnterSteps
<1>2. a # Null => a \in DOMAIN heap /\ \A u \in Threads : call[u].ptr # a
  BY DEF Owned
<1>3. OwnerInv'
  BY <1>1, <1>2 DEF TrueInv, OwnerInv
<1>4. NoteInv'
  BY <1>1 DEF TrueInv, NoteInv
<1>5. ASSUME NEW b \in Addrs, b \notin doubtful'
      PROVE  IF b \in DOMAIN heap' /\ ~Busy(b)'
             THEN b \in DOMAIN allocs' /\ allocs'[b] = heap'[b]
             ELSE b \notin DOMAIN allocs'
  <2>1. Null \notin Addrs
    BY DEF MemLeakAssumption
  <2>2. CASE b = a
    <3>1. Busy(b)' /\ b \notin DOMAIN allocs'
      BY <1>1, <1>5, <2>2 DEF Busy, Without
    <3> QED BY <3>1
  <2>3. CASE b # a
    <3>1. Busy(b)' <=> Busy(b)
      BY <1>1, <2>1, <2>3 DEF Busy
    <3>2. b \notin doubtful
      BY <1>1, <1>5, <2>3
    <3>3. (b \in DOMAIN allocs' <=> b \in DOMAIN allocs)
          /\ (b \in DOMAIN allocs' => allocs'[b] = allocs[b])
      BY <1>1, <2>3 DEF Without
    <3> QED BY <1>1, <3>1, <3>2, <3>3 DEF TrueInv, RecordsAreTrue
  <2> QED BY <2>2, <2>3
<1>6. RecordsAreTrue'
  BY <1>5 DEF RecordsAreTrue
<1> QED BY <1>3, <1>4, <1>6 DEF TrueInv

(* The return of a function keeps it. *)
LEMMA ReturnTrue ==
  ASSUME MemLeakAssumption, TypeInv, TrueInv, NEW t \in Threads, Return(t)
  PROVE  TrueInv'
<1> DEFINE c == call[t]
<1>1. PICK s \in StackIds(c), res \in Results(c) :
        \E a \in Told(c, res) : /\ heap' = HeapAfter(c, res, s)
                                /\ Exit(t, c, s, res, a)
                                /\ doubtful' = Doubts(c, s, res, a)
  BY DEF Return
<1>2. PICK a \in Told(c, res) : /\ heap' = HeapAfter(c, res, s)
                                /\ Exit(t, c, s, res, a)
                                /\ doubtful' = Doubts(c, s, res, a)
  BY <1>1
<1>3. c.at = "run"
  BY DEF Return
<1>4. /\ InCall(c) /\ s \in Stacks \union {NoStack}
      /\ res \in Addrs \union {Null} /\ a \in Addrs \union {Null, Unread}
      /\ res # Null => a \in {res, Unread} /\ c.fn # "free" /\ (res \notin DOMAIN heap \/ res = c.ptr)
  BY <1>3, Returned
<1> DEFINE noted == c.armed /\ a # Unread /\ t \in DOMAIN sizes
           put == noted /\ a # Null /\ s # NoStack
           info == [size |-> sizes[t], stack |-> s]
           told == [Idle EXCEPT !.at = "add_read", !.ret = res, !.info = info]
           left == IF c.fn = "free" \/ res # Null THEN Without(heap, c.ptr) ELSE heap
           given == [size |-> c.size, stack |-> s]
<1>5. /\ sizes' = IF noted THEN Without(sizes, t) ELSE sizes
      /\ \/ put /\ Goes(t, told) /\ allocs' = IF Room(a) THEN Put(allocs, a, info) ELSE allocs
         \/ ~put /\ Goes(t, Idle) /\ allocs' = allocs
  BY <1>2 DEF Exit, Key
<1>6. heap' = IF res = Null THEN left ELSE Put(left, res, given)
  BY <1>2 DEF HeapAfter
<1>7. told.ptr = Null /\ ~InCall(told) /\ Idle.ptr = Null /\ ~InCall(Idle)
  <2>1. told \in [at : {"add_read"}, ptr : {Null}, ret : {res}, info : {info}, seen : {Null}]
    <3> HIDE DEF info
    <3> QED BY DEF Idle
  <2> HIDE DEF told
  <2> QED BY <2>1 DEF InCall, Idle
<1> HIDE DEF c, noted, told
<1>8. /\ call'[t].ptr = Null /\ ~InCall(call'[t])
      /\ \A u \in Threads : u # t => call'[u] = call[u]
  BY <1>5, <1>7 DEF Goes, TypeInv, CallTypes
<1>9. Null \notin Addrs /\ call[t] = c
  BY DEF MemLeakAssumption, c
<1>10. \A u \in Threads : call[u].ptr = c.ptr /\ c.ptr # Null => u = t
  BY <1>9 DEF TrueInv, OwnerInv
<1>11. /\ DOMAIN heap \ {c.ptr} \subseteq DOMAIN heap'
       /\ \A b : b \notin {c.ptr, res} => /\ b \in DOMAIN heap' <=> b \in DOMAIN heap
                                          /\ b \in DOMAIN heap => heap'[b] = heap[b]
  <2> HIDE DEF given
  <2> QED BY <1>6 DEF Put, Without
<1>12. OwnerInv'
  BY <1>8, <1>10, <1>11 DEF TrueInv, OwnerInv
<1>13. NoteInv'
  BY <1>5, <1>8 DEF TrueInv, NoteInv, Without
<1>14. ASSUME NEW b \in Addrs, b \notin doubtful'
       PROVE  IF b \in DOMAIN heap' /\ ~Busy(b)'
              THEN b \in DOMAIN allocs' /\ allocs'[b] = heap'[b]
              ELSE b \notin DOMAIN allocs'
  <2>1. \A u \in Threads : u # t => (call'[u].ptr = b <=> call[u].ptr = b)
    BY <1>8
  <2>2. Busy(b)' <=> \E u \in Threads : u # t /\ call[u].ptr = b
    BY <1>8, <1>9, <2>1 DEF Busy
  <2>3. c.ptr = b => Busy(b) /\ ~Busy(b)'
    BY <1>9, <1>10, <2>2 DEF Busy
  <2>4. c.ptr # b => (Busy(b)' <=> Busy(b))
    BY <1>9, <2>2 DEF Busy
  (* the address that is returned *)
  <2>5. CASE b = res
    <3>1. b \notin DOMAIN heap \/ b = c.ptr
      BY <1>4, <1>9, <2>5
    <3>2. ~Busy(b)'
      BY <1>10, <2>2, <2>3, <3>1 DEF TrueInv, OwnerInv
    <3>3. c.armed /\ a # Unread /\ c.size >= MinSize /\ s # NoStack /\ Room(res)
      BY <1>2, <1>9, <1>14, <2>5 DEF Doubts
    <3>4. t \in DOMAIN sizes /\ sizes[t] = c.size
      BY <1>4, <1>9, <3>3 DEF TrueInv, NoteInv
    <3>5. put /\ info = given /\ a = b
      BY <1>4, <1>9, <2>5, <3>3, <3>4 DEF noted
    <3> HIDE DEF info, given
    <3>6. allocs' = Put(allocs, b, given)
      BY <1>5, <2>5, <3>3, <3>5
    <3>7. b \in DOMAIN heap' /\ heap'[b] = given
      BY <1>6, <1>9, <2>5 DEF Put
    <3> QED BY <3>2, <3>6, <3>7 DEF Put
  (* the address that the function was called with, and that is no more *)
  <2>6. CASE b # res /\ b = c.ptr
    <3>1. ~(c.fn = "realloc" /\ res = Null)
      BY <1>2, <1>9, <1>14, <2>6 DEF Doubts
    <3>2. c.fn \in {"realloc", "free"} \/ res # Null
      BY <1>4, <1>9, <2>6 DEF InCall, Fns
    <3>3. b \notin DOMAIN heap'
      BY <1>6, <2>6, <3>1, <3>2 DEF Put, Without
    <3>4. b \notin doubtful
      BY <1>2, <1>9, <1>14, <2>6 DEF Doubts
    <3>5. b \notin DOMAIN allocs
      BY <2>3, <2>6, <3>4 DEF TrueInv, RecordsAreTrue
    <3>6. put => a # b
      BY <1>4, <2>6, <3>1, <3>2 DEF Told, noted
    <3>7. b \notin DOMAIN allocs'
      BY <1>5, <3>5, <3>6 DEF Put
    <3> QED BY <3>3, <3>7
  (* any other *)
  <2>7. CASE b # res /\ b # c.ptr
    <3>1. b \notin doubtful
      BY <1>2, <1>9, <1>14, <2>7 DEF Doubts
    <3>2. put => a # b
      <4>1. put => c.armed /\ a # Null /\ a # Unread
        BY DEF noted
      <4>2. ASSUME put, a = b PROVE res = Null /\ c.fn = "posix_memalign"
        BY <1>4, <1>9, <2>7, <4>1, <4>2 DEF Told
      <4>3. ASSUME put, a = b PROVE b \in doubtful'
        <5>1. c.armed /\ a \in Addrs /\ res = Null /\ c.fn # "realloc"
          BY <4>1, <4>2, <4>3
        <5>2. doubtful' = doubtful \union {a}
          BY <1>2, <1>9, <5>1 DEF Doubts
        <5> QED BY <4>3, <5>2
      <4> QED BY <1>14, <4>3
    <3>3. /\ b \in DOMAIN heap' <=> b \in DOMAIN heap
          /\ b \in DOMAIN heap => heap'[b] = heap[b]
      BY <1>11, <2>7
    <3>4. /\ b \in DOMAIN allocs' <=> b \in DOMAIN allocs
          /\ b \in DOMAIN allocs => allocs'[b] = allocs[b]
      <4> HIDE DEF info
      <4> QED BY <1>5, <3>2 DEF Put
    <3> QED BY <2>4, <2>7, <3>1, <3>3, <3>4 DEF TrueInv, RecordsAreTrue
  <2> QED BY <2>5, <2>6, <2>7
<1>15. RecordsAreTrue'
  BY <1>14 DEF RecordsAreTrue
<1> QED BY <1>12, <1>13, <1>15 DEF TrueInv

(* Every step keeps it. *)
LEMMA NextTrue == MemLeakAssumption /\ TypeInv /\ TrueInv /\ [Next]_vars => TrueInv'
<1> SUFFICES ASSUME MemLeakAssumption, TypeInv, TrueInv, [Next]_vars PROVE TrueInv'
  OBVIOUS
<1>1. ASSUME UNCHANGED <<sizes, allocs, heap, doubtful>>,
             \A t \in Threads : call'[t].ptr = call[t].ptr,
             \A t \in Threads : InCall(call'[t]) => /\ InCall(call[t])
                                                    /\ call'[t].armed = call[t].armed
                                                    /\ call'[t].size = call[t].size
      PROVE  TrueInv'
  <2>1. OwnerInv'
    BY <1>1 DEF TrueInv, OwnerInv
  <2>2. NoteInv'
    BY <1>1 DEF TrueInv, NoteInv
  <2>3. \A b : Busy(b)' <=> Busy(b)
    BY <1>1 DEF Busy
  <2>4. RecordsAreTrue'
    BY <1>1, <2>3 DEF TrueInv, RecordsAreTrue
  <2> QED BY <2>1, <2>2, <2>4 DEF TrueInv
<1>2. ASSUME NEW t \in Threads, Alloc(t) \/ Realloc(t) \/ Free(t) PROVE TrueInv'
  BY <1>2, EntersAre, EnterTrue
<1>3. ASSUME NEW t \in Threads, ReadStat(t) \/ WriteStat(t) PROVE TrueInv'
  <2>1. UNCHANGED <<sizes, allocs, heap, doubtful>>
    BY <1>3 DEF ReadStat, WriteStat, mapVars, ghostVars
  <2> QED BY <1>1, <1>3, <2>1, StatTypes
<1>4. CASE Attach \/ Report \/ NextKey \/ Lookup \/ UNCHANGED vars
  <2>1. UNCHANGED <<sizes, allocs, heap, doubtful, call>>
    BY <1>4 DEF Attach, Report, NextKey, Lookup, vars, mapVars, ghostVars
  <2> QED BY <1>1, <2>1
<1> QED BY <1>2, <1>3, <1>4, ReturnTrue DEF Next, Thread

(* Of every address but the doubtful ones the map says what the allocator
   holds there: no thread's size ends up with another's allocation, and memory
   that is freed, or being freed, has no record any more.                    *)
THEOREM LeaksAreTrue == Spec => []RecordsAreTrue
<1> DEFINE IInv == TypeInv /\ TrueInv
<1>1. Init => IInv
  BY InitTypes, InitTrue, MemLeakAssumption
<1>2. IInv /\ [Next]_vars => IInv'
  BY NextTypes, NextTrue, MemLeakAssumption
<1>3. IInv => RecordsAreTrue
  BY DEF TrueInv
<1> QED BY <1>1, <1>2, <1>3, PTL DEF Spec

(***************************************************************************)
(* The statistics are exact.                                               *)
(***************************************************************************)
Adding(t) == call[t].at \in {"add_read", "add_write"}
Deleting(t) == call[t].at \in {"del_read", "del_write"}

(* The records of a stack that the statistics have been told of, and the
   threads that have taken a record away and have yet to tell them.          *)
Settled(s) ==
  {a \in DOMAIN allocs : /\ allocs[a].stack = s
                         /\ \A t \in Threads : Adding(t) => call[t].ret # a}
Leaving(s) == {t \in Threads : Deleting(t) /\ call[t].info.stack = s}
SettledSizes == [a \in DOMAIN allocs |-> allocs[a].size]
LeavingSizes == [t \in Threads |-> IF Deleting(t) THEN call[t].info.size ELSE 0]

(* What a thread was given is its own until its call has returned. *)
RetInv ==
  \A t \in Threads :
    call[t].ret # Null =>
      /\ call[t].ret \in DOMAIN heap
      /\ \A u \in Threads : call[u].ptr # call[t].ret
      /\ \A u \in Threads : call[u].ret = call[t].ret => u = t

(* What a thread is telling the statistics of is in the map. *)
ToldInv ==
  \A t \in Threads :
    Adding(t) =>
      /\ call[t].ret \in DOMAIN allocs =>
           allocs[call[t].ret] = call[t].info \/ allocs[call[t].ret].stack \in inexact
      /\ call[t].info.stack \notin inexact =>
           call[t].ret \in DOMAIN allocs /\ allocs[call[t].ret] = call[t].info

(* What a thread has read of the statistics is still so. *)
SeenInv ==
  \A t \in Threads :
    Writing(t) /\ call[t].info.stack \notin inexact =>
      /\ call[t].seen = Stat(call[t].info.stack)
      /\ \A u \in Threads : Writing(u) /\ call[u].info.stack = call[t].info.stack => u = t

(* The statistics have what is settled and what is leaving. *)
CountsOK(s) ==
  /\ IsFiniteSet(Leaving(s))
  /\ Stat(s).n = Cardinality(Settled(s)) + Cardinality(Leaving(s))
  /\ Stat(s).size = SumFunctionOnSet(SettledSizes, Settled(s))
                    + SumFunctionOnSet(LeavingSizes, Leaving(s))
StatInv == RetInv /\ ToldInv /\ SeenInv /\ \A s \in Stacks \ inexact : CountsOK(s)

(* A thread's call tells whether it is adding or deleting, and what. *)
LEMMA CallIs ==
  ASSUME MemLeakAssumption, TypeInv, NEW t \in Threads
  PROVE  /\ Adding(t) => Telling(call[t]) /\ call[t].info \in Records
                         /\ call[t].ret \in Addrs \union {Null}
         /\ Deleting(t) => InCall(call[t]) /\ call[t].info \in Records /\ call[t].info.size \in Nat
         /\ InCall(call[t]) => call[t].ret = Null /\ ~Adding(t)
         /\ Writing(t) => call[t].seen \in Stats
         /\ call[t] = Idle => ~Adding(t) /\ ~Deleting(t) /\ call[t].ret = Null
         /\ ~Adding(t) => call[t].ret = Null
<1>1. IsCall(call[t])
  BY DEF TypeInv, CallTypes
<1>2. Records \subseteq [size : Nat, stack : Stacks]
  BY DEF Records, MemLeakAssumption
<1> QED BY <1>1, <1>2 DEF IsCall, InCall, Telling, Idle, Adding, Deleting, Writing

(* Sizes are numbers, and what is settled is a finite set. *)
LEMMA SizesAre ==
  ASSUME MemLeakAssumption, TypeInv
  PROVE  /\ \A s : IsFiniteSet(Settled(s)) /\ Cardinality(Settled(s)) \in Nat
         /\ \A a \in DOMAIN allocs : SettledSizes[a] = allocs[a].size /\ SettledSizes[a] \in Nat
         /\ \A t \in Threads : LeavingSizes[t] \in Nat
         /\ \A s : \A a \in Settled(s) : a \in DOMAIN allocs
         /\ \A s : \A t \in Leaving(s) : t \in Threads
         /\ \A s : Stat(s).n \in Nat /\ Stat(s).size \in Nat
<1>1. IsFiniteSet(DOMAIN allocs) /\ \A a \in DOMAIN allocs : allocs[a] \in Records
  BY DEF TypeInv, AllocTypes, IsMap
<1>2. \A r \in Records : r.size \in Nat
  BY DEF Records, MemLeakAssumption
<1>3. \A s : Settled(s) \in SUBSET DOMAIN allocs
  BY DEF Settled
<1>4. \A s : IsFiniteSet(Settled(s)) /\ Cardinality(Settled(s)) \in Nat
  BY <1>1, <1>3, FS_Subset, FS_CardinalityType
<1>5. \A t \in Threads : LeavingSizes[t] \in Nat
  BY CallIs DEF LeavingSizes
<1>6. \A s : Stat(s).n \in Nat /\ Stat(s).size \in Nat
  BY DEF TypeInv, IsMap, Stats, Stat, None
<1> QED BY <1>1, <1>2, <1>3, <1>4, <1>5, <1>6 DEF SettledSizes, Leaving

(* Nothing is told and nothing has been told at the start. *)
LEMMA InitStat == MemLeakAssumption /\ Init => StatInv
<1> SUFFICES ASSUME MemLeakAssumption, Init PROVE StatInv
  OBVIOUS
<1>1. DOMAIN allocs = {} /\ DOMAIN combined = {} /\ \A t \in Threads : call[t] = Idle
  BY DEF Init, Nothing
<1>2. \A t \in Threads : ~Adding(t) /\ ~Deleting(t) /\ ~Writing(t) /\ call[t].ret = Null
  BY <1>1 DEF Idle, Adding, Deleting, Writing
<1>3. RetInv /\ ToldInv /\ SeenInv
  BY <1>2 DEF RetInv, ToldInv, SeenInv
<1>4. ASSUME NEW s \in Stacks PROVE CountsOK(s)
  <2>1. Settled(s) = {} /\ Leaving(s) = {}
    BY <1>1, <1>2 DEF Settled, Leaving
  <2>2. Stat(s).n = 0 /\ Stat(s).size = 0
    BY <1>1 DEF Stat, None
  <2>3. \A f : SumFunctionOnSet(f, {}) = 0
    BY SumEmpty
  <2> HIDE DEF Init
  <2>4. IsFiniteSet({}) /\ Cardinality({}) = 0
    BY FS_EmptySet
  <2> QED BY <2>1, <2>2, <2>3, <2>4 DEF CountsOK
<1> QED BY <1>3, <1>4 DEF StatInv

(* Where nothing is settled, taken or told, the statistics stay right. *)
LEMMA CountsSame ==
  ASSUME MemLeakAssumption, TypeInv, TypeInv', NEW s, CountsOK(s), Stat(s)' = Stat(s),
         Settled(s)' = Settled(s), Leaving(s)' = Leaving(s),
         \A a \in Settled(s) : a \in DOMAIN allocs' /\ allocs'[a] = allocs[a],
         \A t \in Leaving(s) : call'[t].info = call[t].info
  PROVE  CountsOK(s)'
<1> DEFINE A == Settled(s)
           L == Leaving(s)
           f == SettledSizes
           g == LeavingSizes
<1>1. \A a \in A : f[a] = f'[a]
  <2>1. \A a \in A : a \in DOMAIN allocs
    BY DEF Settled
  <2> QED BY <2>1 DEF SettledSizes
<1>2. \A t \in L : g[t] = g'[t]
  <2>1. \A t \in L : t \in Threads /\ Deleting(t)
    BY DEF Leaving
  <2>2. \A t \in L : Deleting(t)'
    BY DEF Leaving
  <2> QED BY <2>1, <2>2 DEF LeavingSizes
<1>3. IsFiniteSet(A) /\ IsFiniteSet(L)
  BY SizesAre DEF CountsOK
<1>4. SumFunctionOnSet(f, A) = SumFunctionOnSet(f', A) /\ SumFunctionOnSet(g, L) = SumFunctionOnSet(g', L)
  <2> HIDE DEF A, L, f, g
  <2> QED BY <1>1, <1>2, <1>3, SumSame
<1> QED BY <1>3, <1>4 DEF CountsOK

(* A record is taken away: what was settled is leaving. *)
LEMMA CountsTaken ==
  ASSUME MemLeakAssumption, TypeInv, TypeInv', NEW s, CountsOK(s), Stat(s)' = Stat(s),
         NEW a \in Settled(s), NEW t \in Threads, ~Deleting(t),
         Settled(s)' = Settled(s) \ {a}, Leaving(s)' = Leaving(s) \union {t},
         call'[t].info.size = allocs[a].size,
         \A b \in Settled(s) \ {a} : b \in DOMAIN allocs' /\ allocs'[b] = allocs[b],
         \A u \in Leaving(s) : call'[u].info = call[u].info
  PROVE  CountsOK(s)'
<1> DEFINE A == Settled(s)
           L == Leaving(s)
           f == SettledSizes
           g == LeavingSizes
           n == allocs[a].size
<1>1. /\ IsFiniteSet(A) /\ IsFiniteSet(L) /\ IsFiniteSet(A \ {a}) /\ IsFiniteSet(L \union {t})
      /\ t \notin L /\ a \in A /\ a \in DOMAIN allocs
  <2>1. IsFiniteSet(A) /\ IsFiniteSet(L) /\ t \notin L /\ a \in A /\ a \in DOMAIN allocs
    BY SizesAre DEF CountsOK, Leaving
  <2> HIDE DEF A, L
  <2> QED BY <2>1, FS_RemoveElement, FS_AddElement
<1>2. \A b \in A \ {a} : f[b] = f'[b]
  BY SizesAre DEF SettledSizes
<1>3. /\ \A u \in L : g[u] = g'[u]
      /\ t \notin L => g'[t] = n
  <2>1. \A u \in L \union {t} : u \in Threads /\ Deleting(u)'
    BY DEF Leaving
  <2>2. \A u \in L : Deleting(u) /\ u \in Threads
    BY DEF Leaving
  <2> QED BY <2>1, <2>2 DEF LeavingSizes
<1>4. /\ \A b \in A : f[b] \in Nat
      /\ f[a] = n /\ n \in Nat
      /\ \A u \in Threads : g[u] \in Nat
  BY <1>1, SizesAre
<1>5. L \subseteq Threads
  BY DEF Leaving
<1>6. Stat(s).n = Cardinality(A) + Cardinality(L)
      /\ Stat(s).size = SumFunctionOnSet(f, A) + SumFunctionOnSet(g, L)
  BY DEF CountsOK
<1> HIDE DEF A, L, f, g, n
<1>7. Cardinality(A \ {a}) = Cardinality(A) - 1 /\ Cardinality(L \union {t}) = Cardinality(L) + 1
      /\ Cardinality(A) \in Nat /\ Cardinality(L) \in Nat
  BY <1>1, FS_RemoveElement, FS_AddElement, FS_CardinalityType
<1>8. SumFunctionOnSet(f, A) = n + SumFunctionOnSet(f', A \ {a})
      /\ SumFunctionOnSet(f', A \ {a}) \in Nat
  <2>1. SumFunctionOnSet(f, A) = f[a] + SumFunctionOnSet(f, A \ {a})
    BY <1>1, <1>4, SumWithout
  <2>2. SumFunctionOnSet(f, A \ {a}) = SumFunctionOnSet(f', A \ {a})
    BY <1>1, <1>2, SumSame
  <2>3. SumFunctionOnSet(f, A \ {a}) \in Nat
    BY <1>1, <1>4, SumNat
  <2> QED BY <1>4, <2>1, <2>2, <2>3
<1>9. SumFunctionOnSet(g', L \union {t}) = n + SumFunctionOnSet(g, L)
      /\ SumFunctionOnSet(g, L) \in Nat
  <2>1. SumFunctionOnSet(g', L \union {t}) = g'[t] + SumFunctionOnSet(g', L)
    BY <1>1, <1>3, <1>4, <1>5, SumWith
  <2>2. SumFunctionOnSet(g, L) = SumFunctionOnSet(g', L)
    BY <1>1, <1>3, SumSame
  <2>3. SumFunctionOnSet(g, L) \in Nat
    BY <1>1, <1>4, <1>5, SumNat
  <2> QED BY <1>1, <1>3, <2>1, <2>2, <2>3
<1>10. /\ Stat(s)'.n = Cardinality(A \ {a}) + Cardinality(L \union {t})
       /\ Stat(s)'.size = SumFunctionOnSet(f', A \ {a}) + SumFunctionOnSet(g', L \union {t})
  BY <1>4, <1>6, <1>7, <1>8, <1>9
<1>11. Settled(s)' = A \ {a} /\ Leaving(s)' = L \union {t} /\ f' = SettledSizes' /\ g' = LeavingSizes'
  BY DEF A, L, f, g
<1> QED BY <1>1, <1>10, <1>11 DEF CountsOK

(* The statistics are told of a record: it is settled. *)
LEMMA CountsTold ==
  ASSUME MemLeakAssumption, TypeInv, TypeInv', NEW s, CountsOK(s), NEW a \in DOMAIN allocs,
         a \notin Settled(s), UNCHANGED allocs, Stat(s)' = Added(Stat(s), allocs[a].size),
         Settled(s)' = Settled(s) \union {a}, Leaving(s)' = Leaving(s),
         \A u \in Leaving(s) : call'[u] = call[u]
  PROVE  CountsOK(s)'
<1> DEFINE A == Settled(s)
           L == Leaving(s)
           f == SettledSizes
           g == LeavingSizes
           n == allocs[a].size
<1>1. IsFiniteSet(A) /\ IsFiniteSet(L) /\ a \notin A
  BY SizesAre DEF CountsOK
<1>2. f' = f /\ \A b \in A : f[b] \in Nat
  BY SizesAre DEF SettledSizes
<1>3. f[a] = n /\ n \in Nat
  BY SizesAre
<1>4. \A u \in L : g[u] = g'[u] /\ g[u] \in Nat
  <2>1. \A u \in L : u \in Threads /\ Deleting(u) /\ Deleting(u)'
    BY DEF Leaving, Deleting
  <2> QED BY <2>1, SizesAre DEF LeavingSizes
<1>5. Stat(s).n = Cardinality(A) + Cardinality(L)
      /\ Stat(s).size = SumFunctionOnSet(f, A) + SumFunctionOnSet(g, L)
  BY DEF CountsOK
<1>6. Stat(s)'.n = Stat(s).n + 1 /\ Stat(s)'.size = Stat(s).size + n
  BY DEF Added
<1> HIDE DEF A, L, f, g, n
<1>7. Cardinality(A \union {a}) = Cardinality(A) + 1 /\ IsFiniteSet(A \union {a})
      /\ Cardinality(A) \in Nat /\ Cardinality(L) \in Nat
  BY <1>1, FS_AddElement, FS_CardinalityType
<1>8. SumFunctionOnSet(f, A \union {a}) = n + SumFunctionOnSet(f, A)
      /\ SumFunctionOnSet(f, A) \in Nat
  BY <1>1, <1>2, <1>3, SumWith, SumNat
<1>9. SumFunctionOnSet(g, L) = SumFunctionOnSet(g', L) /\ SumFunctionOnSet(g, L) \in Nat
  BY <1>1, <1>4, SumSame, SumNat
<1>10. /\ Stat(s)'.n = Cardinality(A \union {a}) + Cardinality(L)
       /\ Stat(s)'.size = SumFunctionOnSet(f', A \union {a}) + SumFunctionOnSet(g', L)
  BY <1>2, <1>3, <1>5, <1>6, <1>7, <1>8, <1>9
<1>11. Settled(s)' = A \union {a} /\ Leaving(s)' = L /\ f' = SettledSizes' /\ g' = LeavingSizes'
  BY DEF A, L, f, g
<1> QED BY <1>1, <1>7, <1>10, <1>11 DEF CountsOK

(* The greater of a natural number and 0 is the number. *)
LEMMA NotBelow == \A n \in Nat : Max({n, 0}) = n
<1> TAKE n \in Nat
<1>1. \E x \in {n, 0} : \A y \in {n, 0} : x >= y
  OBVIOUS
<1>2. Max({n, 0}) \in {n, 0} /\ \A y \in {n, 0} : Max({n, 0}) >= y
  BY <1>1 DEF Max
<1> QED BY <1>2

(* The statistics are told of a record that was taken away: it has left, and
   nothing stops at 0.                                                       *)
LEMMA CountsLeft ==
  ASSUME MemLeakAssumption, TypeInv, TypeInv', NEW s, CountsOK(s), NEW t \in Leaving(s),
         UNCHANGED allocs, Stat(s)' = Deleted(Stat(s), call[t].info.size),
         Settled(s)' = Settled(s), Leaving(s)' = Leaving(s) \ {t},
         \A u \in Leaving(s) \ {t} : call'[u] = call[u]
  PROVE  CountsOK(s)'
<1> DEFINE A == Settled(s)
           L == Leaving(s)
           f == SettledSizes
           g == LeavingSizes
           n == call[t].info.size
<1>1. IsFiniteSet(A) /\ IsFiniteSet(L) /\ t \in L
  BY SizesAre DEF CountsOK
<1>2. f' = f /\ \A b \in A : f[b] \in Nat
  BY SizesAre DEF SettledSizes
<1>3. \A u \in L \ {t} : g[u] = g'[u]
  <2>1. \A u \in L \ {t} : u \in Threads /\ Deleting(u) /\ Deleting(u)'
    BY DEF Leaving, Deleting
  <2> QED BY <2>1 DEF LeavingSizes
<1>4. \A u \in L : g[u] \in Nat
  BY SizesAre
<1>5. g[t] = n /\ n \in Nat
  <2>1. t \in Threads /\ Deleting(t)
    BY DEF Leaving
  <2> QED BY <1>4, <2>1 DEF LeavingSizes
<1>6. Stat(s).n = Cardinality(A) + Cardinality(L)
      /\ Stat(s).size = SumFunctionOnSet(f, A) + SumFunctionOnSet(g, L)
  BY DEF CountsOK
<1>7. Stat(s)'.n = Max({Stat(s).n - 1, 0}) /\ Stat(s)'.size = Max({Stat(s).size - n, 0})
  BY DEF Deleted
<1> HIDE DEF A, L, f, g, n
<1>8. Cardinality(L \ {t}) = Cardinality(L) - 1 /\ IsFiniteSet(L \ {t})
      /\ Cardinality(A) \in Nat /\ Cardinality(L) \in Nat /\ Cardinality(L \ {t}) \in Nat
  BY <1>1, FS_RemoveElement, FS_CardinalityType
<1>9. SumFunctionOnSet(f, A) \in Nat
  BY <1>1, <1>2, SumNat
<1>10. SumFunctionOnSet(g, L) = n + SumFunctionOnSet(g', L \ {t})
       /\ SumFunctionOnSet(g', L \ {t}) \in Nat
  <2>1. SumFunctionOnSet(g, L) = g[t] + SumFunctionOnSet(g, L \ {t})
    BY <1>1, <1>4, SumWithout
  <2>2. SumFunctionOnSet(g, L \ {t}) = SumFunctionOnSet(g', L \ {t})
    BY <1>3, <1>8, SumSame
  <2>3. SumFunctionOnSet(g, L \ {t}) \in Nat
    BY <1>4, <1>8, SumNat
  <2> QED BY <1>5, <2>1, <2>2, <2>3
<1>11. /\ Stat(s).n - 1 = Cardinality(A) + Cardinality(L \ {t})
       /\ Stat(s).size - n = SumFunctionOnSet(f, A) + SumFunctionOnSet(g', L \ {t})
  BY <1>5, <1>6, <1>8, <1>9, <1>10
<1>12. Stat(s).n - 1 \in Nat /\ Stat(s).size - n \in Nat
  BY <1>8, <1>9, <1>10, <1>11
<1>13. /\ Stat(s)'.n = Cardinality(A) + Cardinality(L \ {t})
       /\ Stat(s)'.size = SumFunctionOnSet(f', A) + SumFunctionOnSet(g', L \ {t})
  BY <1>2, <1>7, <1>11, <1>12, NotBelow
<1>14. Settled(s)' = A /\ Leaving(s)' = L \ {t} /\ f' = SettledSizes' /\ g' = LeavingSizes'
  BY DEF A, L, f, g
<1> QED BY <1>8, <1>13, <1>14 DEF CountsOK

(* The entry of a function, to the statistics: the record is taken away, or
   nothing is.                                                               *)
LEMMA EnterCalls ==
  ASSUME MemLeakAssumption, TypeInv, NEW t \in Threads,
         NEW fn \in Fns, NEW a \in Addrs \union {Null}, NEW n \in Nat,
         fn # "free" => n \in Sizes, fn \in {"realloc", "free"} <=> a # Null,
         Enter(t, NewCall(fn, a, n))
  PROVE  /\ UNCHANGED <<heap, combined, inexact>> /\ call[t] = Idle
         /\ \A u \in Threads : u # t => call'[u] = call[u]
         /\ call'[t].ptr = a /\ call'[t].ret = Null /\ call'[t].at \in {"run", "del_read"}
         /\ \/ /\ a \in DOMAIN allocs /\ allocs' = Without(allocs, a)
               /\ call'[t].at = "del_read" /\ call'[t].info = allocs[a]
            \/ allocs' = allocs /\ call'[t].at = "run"
<1> DEFINE c == NewCall(fn, a, n)
           d == [c EXCEPT !.at = "del_read", !.info = allocs[a]]
<1>1. InCall(c) /\ IsCall(c) /\ c.at = "run" /\ c.ptr = a
  BY NewCalls DEF TypeInv
<1>2. UNCHANGED <<heap, combined, inexact>> /\ call[t] = Idle
  BY DEF Enter
<1>3. IF c.traced /\ a \in DOMAIN allocs
      THEN allocs' = Without(allocs, a) /\ Goes(t, d)
      ELSE allocs' = allocs /\ Goes(t, c)
  BY <1>1 DEF Enter
<1>4. CallTypes
  BY DEF TypeInv
<1>5. c.ret = Null
  BY <1>1 DEF InCall
<1>6. a \in DOMAIN allocs => /\ IsCall(d) /\ d.at = "del_read" /\ d.info = allocs[a]
                             /\ d.ptr = a /\ d.ret = Null
  <2> SUFFICES ASSUME a \in DOMAIN allocs
               PROVE  IsCall(d) /\ d.at = "del_read" /\ d.info = allocs[a] /\ d.ptr = a /\ d.ret = Null
    OBVIOUS
  <2>1. allocs[a] \in Records
    BY DEF TypeInv, AllocTypes, IsMap
  <2> HIDE DEF c
  <2>2. InCall(d) /\ IsCall(d) /\ d.at = "del_read" /\ d.info = allocs[a] /\ d.ptr = a
    BY <1>1, <2>1, TakesRecord
  <2>3. d.ret = Null
    <3> HIDE DEF d
    <3> QED BY <2>2 DEF InCall
  <2> QED BY <2>2, <2>3
<1> HIDE DEF c, d
<1>7. CASE c.traced /\ a \in DOMAIN allocs
  <2>1. Goes(t, d) /\ IsCall(d)
    BY <1>3, <1>6, <1>7
  <2>2. call'[t] = d /\ \A u \in Threads : u # t => call'[u] = call[u]
    BY <1>4, <2>1, CallSteps
  <2> QED BY <1>2, <1>3, <1>6, <1>7, <2>2
<1>8. CASE ~(c.traced /\ a \in DOMAIN allocs)
  <2>1. call'[t] = c /\ \A u \in Threads : u # t => call'[u] = call[u]
    BY <1>1, <1>3, <1>4, <1>8, CallSteps
  <2> QED BY <1>1, <1>2, <1>3, <1>5, <1>8, <2>1
<1> QED BY <1>7, <1>8

(* The entry of a function keeps the statistics right. *)
LEMMA EnterStat ==
  ASSUME MemLeakAssumption, TypeInv, TypeInv', StatInv, NEW t \in Threads,
         NEW fn \in Fns, NEW a \in Addrs \union {Null}, NEW n \in Nat,
         fn # "free" => n \in Sizes, fn \in {"realloc", "free"} <=> a # Null,
         a # Null => Owned(a),
         Enter(t, NewCall(fn, a, n))
  PROVE  StatInv'
<1>1. /\ UNCHANGED <<heap, combined, inexact>> /\ call[t] = Idle
      /\ \A u \in Threads : u # t => call'[u] = call[u]
      /\ call'[t].ptr = a /\ call'[t].ret = Null /\ call'[t].at \in {"run", "del_read"}
      /\ \/ /\ a \in DOMAIN allocs /\ allocs' = Without(allocs, a)
            /\ call'[t].at = "del_read" /\ call'[t].info = allocs[a]
         \/ allocs' = allocs /\ call'[t].at = "run"
  BY EnterCalls
<1>2. a # Null => \A u \in Threads : call[u].ret # a
  BY DEF Owned
<1>3. ~Adding(t) /\ ~Adding(t)' /\ ~Deleting(t) /\ ~Writing(t) /\ ~Writing(t)'
  BY <1>1 DEF Adding, Deleting, Writing, Idle
<1>4. \A u \in Threads : u # t => /\ Adding(u)' <=> Adding(u)
                                  /\ Deleting(u)' <=> Deleting(u)
                                  /\ Writing(u)' <=> Writing(u)
  BY <1>1 DEF Adding, Deleting, Writing
<1>5. RetInv'
  BY <1>1, <1>2 DEF StatInv, RetInv
<1>6. /\ \A b : b # a => (b \in DOMAIN allocs' <=> b \in DOMAIN allocs)
      /\ \A b \in DOMAIN allocs : b # a => allocs'[b] = allocs[b]
      /\ \A b \in DOMAIN allocs' : b \in DOMAIN allocs /\ allocs'[b] = allocs[b]
  BY <1>1 DEF Without
<1>7. ToldInv'
  <2> SUFFICES ASSUME NEW u \in Threads, Adding(u)'
      PROVE /\ call'[u].ret \in DOMAIN allocs' =>
                 allocs'[call'[u].ret] = call'[u].info \/ allocs'[call'[u].ret].stack \in inexact'
            /\ call'[u].info.stack \notin inexact' =>
                 call'[u].ret \in DOMAIN allocs' /\ allocs'[call'[u].ret] = call'[u].info
    BY DEF ToldInv
  <2>1. u # t /\ Adding(u) /\ call'[u] = call[u]
    BY <1>1, <1>3, <1>4
  <2>2. Null \notin DOMAIN allocs
    BY DEF TypeInv, AllocTypes, IsMap, MemLeakAssumption
  <2>3. call[u].ret \in DOMAIN allocs => call[u].ret # a
    BY <1>2, <2>2
  <2> QED BY <1>1, <1>6, <2>1, <2>3 DEF StatInv, ToldInv
<1>8. SeenInv'
  <2>1. \A s : Stat(s)' = Stat(s)
    BY <1>1 DEF Stat
  <2> QED BY <1>1, <1>3, <1>4, <2>1 DEF StatInv, SeenInv
<1>9. ASSUME NEW s \in Stacks \ inexact' PROVE CountsOK(s)'
  <2>1. CountsOK(s) /\ Stat(s)' = Stat(s)
    BY <1>1 DEF StatInv, Stat
  <2>2. CASE /\ a \in DOMAIN allocs /\ allocs' = Without(allocs, a)
             /\ call'[t].at = "del_read" /\ call'[t].info = allocs[a]
    <3>1. Deleting(t)' /\ DOMAIN allocs' = DOMAIN allocs \ {a} /\ a \in Addrs /\ a # Null
      BY <2>2 DEF Deleting, Without, TypeInv, AllocTypes, IsMap, MemLeakAssumption
    <3>2. Settled(s)' = Settled(s) \ {a}
      BY <1>1, <1>3, <1>4, <1>6, <3>1 DEF Settled
    <3>3. CASE allocs[a].stack = s
      <4>1. a \in Settled(s)
        BY <1>2, <2>2, <3>1, <3>3 DEF Settled
      <4>2. Leaving(s)' = Leaving(s) \union {t}
        BY <1>1, <1>3, <1>4, <2>2, <3>1, <3>3 DEF Leaving
      <4>3. \A u \in Leaving(s) : call'[u].info = call[u].info
        BY <1>1, <1>3 DEF Leaving
      <4>4. \A b \in Settled(s) \ {a} : b \in DOMAIN allocs' /\ allocs'[b] = allocs[b]
        BY <1>6, <3>1 DEF Settled
      <4> QED BY <1>3, <2>1, <2>2, <3>2, <4>1, <4>2, <4>3, <4>4, CountsTaken
    <3>4. CASE allocs[a].stack # s
      <4>1. a \notin Settled(s) /\ Settled(s)' = Settled(s)
        BY <3>2, <3>4 DEF Settled
      <4>2. Leaving(s)' = Leaving(s)
        BY <1>1, <1>3, <1>4, <2>2, <3>4 DEF Leaving
      <4>3. \A u \in Leaving(s) : call'[u].info = call[u].info
        BY <1>1, <1>3 DEF Leaving
      <4>4. \A b \in Settled(s) : b \in DOMAIN allocs' /\ allocs'[b] = allocs[b]
        BY <1>6, <3>1, <4>1 DEF Settled
      <4> QED BY <2>1, <4>1, <4>2, <4>3, <4>4, CountsSame
    <3> QED BY <3>3, <3>4
  <2>3. CASE allocs' = allocs /\ call'[t].at = "run"
    <3>1. ~Deleting(t)'
      BY <2>3 DEF Deleting
    <3>2. Settled(s)' = Settled(s) /\ Leaving(s)' = Leaving(s)
      BY <1>1, <1>3, <1>4, <2>3, <3>1 DEF Settled, Leaving
    <3>3. \A u \in Leaving(s) : call'[u].info = call[u].info
      BY <1>1, <1>3 DEF Leaving
    <3>4. \A b \in Settled(s) : b \in DOMAIN allocs' /\ allocs'[b] = allocs[b]
      BY <2>3 DEF Settled
    <3> QED BY <2>1, <3>2, <3>3, <3>4, CountsSame
  <2> QED BY <1>1, <2>2, <2>3
<1> QED BY <1>5, <1>7, <1>8, <1>9 DEF StatInv

(* The return of a function, to the statistics: a record is put where there
   is room and its thread goes on to tell, or nothing is.                    *)
LEMMA ReturnCalls ==
  ASSUME MemLeakAssumption, TypeInv, NEW t \in Threads, Return(t)
  PROVE  \E a, res \in Addrs \union {Null} : \E info :
           /\ combined' = combined
           /\ \A u \in Threads : u # t => call'[u] = call[u]
           /\ call[t].at = "run" /\ InCall(call[t])
           /\ call'[t].ptr = Null
           /\ res # Null => a = res /\ (res \notin DOMAIN heap \/ res = call[t].ptr)
           /\ DOMAIN heap \ {call[t].ptr} \subseteq DOMAIN heap'
           /\ res # Null => res \in DOMAIN heap'
           /\ \/ /\ call'[t] = Idle /\ allocs' = allocs /\ inexact' = inexact
              \/ /\ call'[t].at = "add_read" /\ call'[t].ret = res /\ call'[t].info = info
                 /\ a # Null
                 /\ \/ Room(a) /\ allocs' = Put(allocs, a, info)
                    \/ ~Room(a) /\ allocs' = allocs
                 /\ inexact \subseteq inexact'
                 /\ a \in DOMAIN allocs => allocs[a].stack \in inexact'
                 /\ ~(Room(a) /\ a = res) => info.stack \in inexact'
<1> DEFINE c == call[t]
<1>1. PICK s \in StackIds(c), res \in Results(c) :
        \E a \in Told(c, res) : /\ heap' = HeapAfter(c, res, s)
                                /\ Exit(t, c, s, res, a)
                                /\ doubtful' = Doubts(c, s, res, a)
  BY DEF Return
<1>2. PICK a \in Told(c, res) : heap' = HeapAfter(c, res, s) /\ Exit(t, c, s, res, a)
  BY <1>1
<1>3. c.at = "run" /\ combined' = combined
  BY DEF Return
<1>4. /\ InCall(c) /\ s \in Stacks \union {NoStack}
      /\ res \in Addrs \union {Null} /\ a \in Addrs \union {Null, Unread}
      /\ res # Null => a \in {res, Unread} /\ c.fn # "free" /\ (res \notin DOMAIN heap \/ res = c.ptr)
  BY <1>3, Returned
<1> DEFINE noted == c.armed /\ a # Unread /\ t \in DOMAIN sizes
           put == noted /\ a # Null /\ s # NoStack
           info == [size |-> sizes[t], stack |-> s]
           told == [Idle EXCEPT !.at = "add_read", !.ret = res, !.info = info]
<1>5. \/ /\ put /\ Goes(t, told)
         /\ allocs' = IF Room(a) THEN Put(allocs, a, info) ELSE allocs
         /\ inexact' = inexact
                \union (IF a \in DOMAIN allocs THEN {allocs[a].stack} ELSE {})
                \union (IF Room(a) /\ a = res THEN {} ELSE {s})
      \/ ~put /\ Goes(t, Idle) /\ allocs' = allocs /\ inexact' = inexact
  BY <1>2 DEF Exit, Key
<1>7. told.ptr = Null /\ told.at = "add_read" /\ told.ret = res /\ told.info = info
  <2>1. told \in [at : {"add_read"}, ptr : {Null}, ret : {res}, info : {info}, seen : {Null}]
    <3> HIDE DEF info
    <3> QED BY DEF Idle
  <2> HIDE DEF told, info
  <2> QED BY <2>1
<1>8. DOMAIN heap \ {c.ptr} \subseteq DOMAIN heap' /\ (res # Null => res \in DOMAIN heap')
  BY <1>2 DEF HeapAfter, Put, Without
<1>9. CallTypes /\ Idle.ptr = Null
  BY DEF TypeInv, Idle
<1>10. info.stack = s
  OBVIOUS
<1> HIDE DEF noted, info, told
<1>11. CASE put
  <2>1. call'[t] = told /\ \A u \in Threads : u # t => call'[u] = call[u]
    BY <1>5, <1>9, <1>11 DEF CallTypes, Goes
  <2>2. inexact \subseteq inexact' /\ (a \in DOMAIN allocs => allocs[a].stack \in inexact')
        /\ (~(Room(a) /\ a = res) => info.stack \in inexact')
    BY <1>5, <1>10, <1>11
  <2>3. (Room(a) /\ allocs' = Put(allocs, a, info)) \/ (~Room(a) /\ allocs' = allocs)
    BY <1>5, <1>11
  <2>4. a \in Addrs \union {Null} /\ (res # Null => a = res)
    BY <1>4, <1>11 DEF noted
  <2> QED BY <1>3, <1>4, <1>7, <1>8, <1>11, <2>1, <2>2, <2>3, <2>4
<1>12. CASE ~put
  <2>1. call'[t] = Idle /\ \A u \in Threads : u # t => call'[u] = call[u]
    BY <1>5, <1>9, <1>12 DEF CallTypes, Goes
  <2>2. allocs' = allocs /\ inexact' = inexact
    BY <1>5, <1>12
  <2>3. res \in Addrs \union {Null}
    BY <1>4
  <2> WITNESS res \in Addrs \union {Null}, res \in Addrs \union {Null}
  <2> QED BY <1>3, <1>4, <1>8, <1>9, <2>1, <2>2
<1> QED BY <1>11, <1>12

(* The return of a function keeps the statistics right. *)
LEMMA ReturnStat ==
  ASSUME MemLeakAssumption, TypeInv, TypeInv', OwnerInv, StatInv, NEW t \in Threads, Return(t)
  PROVE  StatInv'
<1>0. PICK a, res \in Addrs \union {Null} : \E info :
        /\ combined' = combined
        /\ \A u \in Threads : u # t => call'[u] = call[u]
        /\ call[t].at = "run" /\ InCall(call[t])
        /\ call'[t].ptr = Null
        /\ res # Null => a = res /\ (res \notin DOMAIN heap \/ res = call[t].ptr)
        /\ DOMAIN heap \ {call[t].ptr} \subseteq DOMAIN heap'
        /\ res # Null => res \in DOMAIN heap'
        /\ \/ /\ call'[t] = Idle /\ allocs' = allocs /\ inexact' = inexact
           \/ /\ call'[t].at = "add_read" /\ call'[t].ret = res /\ call'[t].info = info
              /\ a # Null
              /\ \/ Room(a) /\ allocs' = Put(allocs, a, info)
                 \/ ~Room(a) /\ allocs' = allocs
              /\ inexact \subseteq inexact'
              /\ a \in DOMAIN allocs => allocs[a].stack \in inexact'
              /\ ~(Room(a) /\ a = res) => info.stack \in inexact'
  BY ReturnCalls
<1>1. PICK info :
        /\ combined' = combined
        /\ \A u \in Threads : u # t => call'[u] = call[u]
        /\ call[t].at = "run" /\ InCall(call[t])
        /\ call'[t].ptr = Null
        /\ res # Null => a = res /\ (res \notin DOMAIN heap \/ res = call[t].ptr)
        /\ DOMAIN heap \ {call[t].ptr} \subseteq DOMAIN heap'
        /\ res # Null => res \in DOMAIN heap'
        /\ \/ /\ call'[t] = Idle /\ allocs' = allocs /\ inexact' = inexact
           \/ /\ call'[t].at = "add_read" /\ call'[t].ret = res /\ call'[t].info = info
              /\ a # Null
              /\ \/ Room(a) /\ allocs' = Put(allocs, a, info)
                 \/ ~Room(a) /\ allocs' = allocs
              /\ inexact \subseteq inexact'
              /\ a \in DOMAIN allocs => allocs[a].stack \in inexact'
              /\ ~(Room(a) /\ a = res) => info.stack \in inexact'
  BY <1>0
<1>2. ~Adding(t) /\ ~Deleting(t) /\ ~Deleting(t)' /\ ~Writing(t) /\ ~Writing(t)'
      /\ call[t].ret = Null /\ Idle.ret = Null /\ Idle.at = "idle"
  BY <1>1 DEF Adding, Deleting, Writing, Idle, InCall
<1>3. \A u \in Threads : u # t => /\ Adding(u)' <=> Adding(u)
                                  /\ Deleting(u)' <=> Deleting(u)
                                  /\ Writing(u)' <=> Writing(u)
  BY <1>1 DEF Adding, Deleting, Writing
<1>4. Adding(t)' <=> call'[t].at = "add_read"
  BY <1>1, <1>2 DEF Adding
<1>5. call'[t].ret \in {Null, res}
  BY <1>1, <1>2
<1>6. res # Null => /\ \A u \in Threads : u # t => call[u].ptr # res
                    /\ \A u \in Threads : call[u].ret # res
  <2> SUFFICES ASSUME res # Null
               PROVE  /\ \A u \in Threads : u # t => call[u].ptr # res
                      /\ \A u \in Threads : call[u].ret # res
    OBVIOUS
  <2>1. CASE res \notin DOMAIN heap
    BY <2>1 DEF OwnerInv, StatInv, RetInv
  <2>2. CASE res = call[t].ptr
    BY <2>2 DEF OwnerInv, StatInv, RetInv
  <2> QED BY <1>1, <2>1, <2>2
<1>7. RetInv'
  <2> SUFFICES ASSUME NEW u \in Threads, call'[u].ret # Null
               PROVE  /\ call'[u].ret \in DOMAIN heap'
                      /\ \A v \in Threads : call'[v].ptr # call'[u].ret
                      /\ \A v \in Threads : call'[v].ret = call'[u].ret => v = u
    BY DEF RetInv
  <2>1. CASE u = t
    <3>1. call'[u].ret = res /\ res # Null
      BY <1>5, <2>1
    <3>2. \A v \in Threads : v # t => call'[v].ptr # res /\ call'[v].ret # res
      BY <1>1, <1>6, <3>1
    <3> QED BY <1>1, <2>1, <3>1, <3>2
  <2>2. CASE u # t
    <3>1. /\ call'[u].ret = call[u].ret /\ call[u].ret \in DOMAIN heap
          /\ \A v \in Threads : call[v].ptr # call[u].ret
          /\ \A v \in Threads : call[v].ret = call[u].ret => v = u
      BY <1>1, <2>2 DEF StatInv, RetInv
    <3>2. call[u].ret # res
      BY <1>6, <2>2, <3>1
    <3>3. call[u].ret \in DOMAIN heap'
      BY <1>1, <3>1
    <3> QED BY <1>1, <1>5, <2>2, <3>1, <3>2, <3>3
  <2> QED BY <2>1, <2>2
<1>8. /\ \A b \in DOMAIN allocs : b \in DOMAIN allocs'
      /\ \A b \in DOMAIN allocs : b = a \/ allocs'[b] = allocs[b]
      /\ \A b \in DOMAIN allocs' : b = a \/ b \in DOMAIN allocs
      /\ inexact \subseteq inexact'
  BY <1>1 DEF Put
<1>9. ToldInv'
  <2> SUFFICES ASSUME NEW u \in Threads, Adding(u)'
      PROVE /\ call'[u].ret \in DOMAIN allocs' =>
                 allocs'[call'[u].ret] = call'[u].info \/ allocs'[call'[u].ret].stack \in inexact'
            /\ call'[u].info.stack \notin inexact' =>
                 call'[u].ret \in DOMAIN allocs' /\ allocs'[call'[u].ret] = call'[u].info
    BY DEF ToldInv
  <2>1. Null \notin DOMAIN allocs' /\ Null \notin DOMAIN allocs
    BY DEF TypeInv, AllocTypes, IsMap, MemLeakAssumption
  <2>2. CASE u = t
    <3>1. /\ call'[u].ret = res /\ call'[u].info = info
          /\ \/ Room(a) /\ allocs' = Put(allocs, a, info)
             \/ ~Room(a) /\ allocs' = allocs
          /\ ~(Room(a) /\ a = res) => info.stack \in inexact'
      BY <1>1, <1>2, <1>4, <2>2
    <3>2. CASE Room(a) /\ a = res
      BY <3>1, <3>2 DEF Put
    <3>3. CASE ~(Room(a) /\ a = res)
      <4>1. res \notin DOMAIN allocs'
        <5>1. CASE res = Null
          BY <2>1, <5>1
        <5>2. CASE res # Null
          <6>1. a = res /\ ~Room(a) /\ allocs' = allocs
            BY <1>1, <3>1, <3>3, <5>2
          <6> QED BY <6>1 DEF Room
        <5> QED BY <5>1, <5>2
      <4> QED BY <3>1, <3>3, <4>1
    <3> QED BY <3>2, <3>3
  <2>3. CASE u # t
    <3>1. /\ call'[u] = call[u]
          /\ call[u].ret \in DOMAIN allocs =>
                 allocs[call[u].ret] = call[u].info \/ allocs[call[u].ret].stack \in inexact
          /\ call[u].info.stack \notin inexact =>
                 call[u].ret \in DOMAIN allocs /\ allocs[call[u].ret] = call[u].info
      BY <1>1, <1>3, <2>3 DEF StatInv, ToldInv
    <3>2. CASE call[u].ret # a
      BY <1>8, <3>1, <3>2
    <3>3. CASE call[u].ret = a
      <4>1. CASE call'[t].at = "add_read"
        <5>1. /\ a # Null
              /\ \/ Room(a) /\ allocs' = Put(allocs, a, info)
                 \/ ~Room(a) /\ allocs' = allocs
              /\ a \in DOMAIN allocs => allocs[a].stack \in inexact'
              /\ ~(Room(a) /\ a = res) => info.stack \in inexact'
          BY <1>1, <1>2, <4>1
        <5>2. info.stack \in inexact'
          BY <1>6, <3>3, <5>1
        <5>3. a \in DOMAIN allocs' => allocs'[a].stack \in inexact'
          BY <5>1, <5>2 DEF Put
        <5>4. call[u].info.stack \in inexact'
          BY <1>8, <3>1, <3>3, <5>1
        <5> QED BY <3>1, <3>3, <5>3, <5>4
      <4>2. CASE call'[t].at # "add_read"
        BY <1>1, <3>1, <4>2
      <4> QED BY <4>1, <4>2
    <3> QED BY <3>2, <3>3
  <2> QED BY <2>2, <2>3
<1>10. \A s : Stat(s)' = Stat(s)
  BY <1>1 DEF Stat
<1>11. SeenInv'
  BY <1>1, <1>2, <1>3, <1>8, <1>10 DEF StatInv, SeenInv
<1>12. ASSUME NEW s \in Stacks \ inexact' PROVE CountsOK(s)'
  <2>1. CountsOK(s)
    BY <1>8 DEF StatInv
  <2>2. Leaving(s)' = Leaving(s)
    BY <1>1, <1>2, <1>3 DEF Leaving
  <2>3. \A u \in Leaving(s) : call'[u].info = call[u].info
    BY <1>1, <1>2 DEF Leaving
  <2>4. CASE call'[t].at = "add_read"
    <3>1. /\ call'[t].ret = res /\ call'[t].info = info /\ a # Null
          /\ \/ Room(a) /\ allocs' = Put(allocs, a, info)
             \/ ~Room(a) /\ allocs' = allocs
          /\ a \in DOMAIN allocs => allocs[a].stack \in inexact'
          /\ ~(Room(a) /\ a = res) => info.stack \in inexact'
      BY <1>1, <1>2, <2>4
    <3>2. a \notin Settled(s)
      BY <1>12, <3>1 DEF Settled
    <3>3. a \notin Settled(s)'
      <4>1. CASE Room(a) /\ a = res
        BY <1>4, <2>4, <3>1, <4>1 DEF Settled
      <4>2. CASE ~(Room(a) /\ a = res)
        BY <1>12, <3>1, <4>2 DEF Settled, Put, Room
      <4> QED BY <4>1, <4>2
    <3>4. \A b : b # a => (b \in Settled(s)' <=> b \in Settled(s))
      <4> SUFFICES ASSUME NEW b, b # a PROVE b \in Settled(s)' <=> b \in Settled(s)
        OBVIOUS
      <4>1. /\ b \in DOMAIN allocs' <=> b \in DOMAIN allocs
            /\ b \in DOMAIN allocs => allocs'[b] = allocs[b]
        BY <1>8
      <4>2. b \in DOMAIN allocs => b # res
        <5>1. Null \notin DOMAIN allocs
          BY DEF TypeInv, AllocTypes, IsMap, MemLeakAssumption
        <5> QED BY <1>1, <5>1
      <4>3. b \in DOMAIN allocs =>
              ((\A u \in Threads : Adding(u)' => call'[u].ret # b)
               <=> (\A u \in Threads : Adding(u) => call[u].ret # b))
        BY <1>1, <1>2, <1>3, <3>1, <4>2
      <4> QED BY <4>1, <4>3 DEF Settled
    <3>5. Settled(s)' = Settled(s)
      BY <3>2, <3>3, <3>4
    <3>6. \A b \in Settled(s) : b \in DOMAIN allocs' /\ allocs'[b] = allocs[b]
      BY <1>8, <3>2 DEF Settled
    <3> QED BY <1>10, <2>1, <2>2, <2>3, <3>5, <3>6, CountsSame
  <2>5. CASE call'[t].at # "add_read"
    <3>1. allocs' = allocs
      BY <1>1, <2>5
    <3>2. Settled(s)' = Settled(s)
      BY <1>1, <1>2, <1>3, <1>4, <2>5, <3>1 DEF Settled
    <3>3. \A b \in Settled(s) : b \in DOMAIN allocs' /\ allocs'[b] = allocs[b]
      BY <3>1 DEF Settled
    <3> QED BY <1>10, <2>1, <2>2, <2>3, <3>2, <3>3, CountsSame
  <2> QED BY <2>4, <2>5
<1> QED BY <1>7, <1>9, <1>11, <1>12 DEF StatInv

(* A thread reads the statistics: what it has seen is so. *)
LEMMA ReadStat1 ==
  ASSUME MemLeakAssumption, TypeInv, TypeInv', StatInv, NEW t \in Threads, ReadStat(t)
  PROVE  StatInv'
<1> DEFINE c == call[t]
           s1 == c.info.stack
<1>1. /\ UNCHANGED <<allocs, combined, heap>> /\ inexact \subseteq inexact'
      /\ c.at \in {"del_read", "add_read"}
      /\ \A u \in Threads : Writing(u) /\ call[u].info.stack = s1 => s1 \in inexact'
  BY DEF ReadStat, mapVars
<1>2. /\ call'[t].at = IF c.at = "del_read" THEN "del_write" ELSE "add_write"
      /\ call'[t].info = c.info /\ call'[t].ret = c.ret /\ call'[t].ptr = c.ptr
      /\ call'[t].seen = Stat(s1)
      /\ \A u \in Threads : u # t => call'[u] = call[u]
  <2> DEFINE at == IF c.at = "del_read" THEN "del_write" ELSE "add_write"
             next == [del_read |-> "del_write", add_read |-> "add_write"]
             d == [c EXCEPT !.at = at, !.seen = Stat(s1)]
  <2>1. next[c.at] = at
    BY <1>1
  <2>2. Goes(t, d)
    <3>1. Goes(t, [c EXCEPT !.at = next[c.at], !.seen = Stat(c.info.stack)])
      BY DEF ReadStat
    <3> HIDE DEF next, at
    <3> QED BY <2>1, <3>1
  <2>3. IsCall(c) /\ CallTypes
    BY DEF TypeInv, CallTypes
  <2>4. d.at = at /\ d.seen = Stat(s1) /\ d.info = c.info /\ d.ret = c.ret /\ d.ptr = c.ptr
    <3> HIDE DEF at, s1
    <3>1. CASE InCall(c)
      <4>1. DOMAIN c = {"at", "fn", "ptr", "size", "traced", "armed", "info", "seen", "ret"}
        BY <3>1 DEF InCall
      <4> HIDE DEF c
      <4> QED BY <4>1
    <3>2. CASE Telling(c)
      <4>1. DOMAIN c = {"at", "ptr", "ret", "info", "seen"}
        BY <3>2 DEF Telling
      <4> HIDE DEF c
      <4> QED BY <4>1
    <3>3. c # Idle
      BY <1>1 DEF Idle
    <3> QED BY <2>3, <3>1, <3>2, <3>3 DEF IsCall
  <2>5. call'[t] = d /\ \A u \in Threads : u # t => call'[u] = call[u]
    BY <2>2, <2>3 DEF CallTypes, Goes
  <2> HIDE DEF d
  <2> QED BY <2>4, <2>5
<1>3. /\ \A u \in Threads : Adding(u)' <=> Adding(u)
      /\ \A u \in Threads : Deleting(u)' <=> Deleting(u)
      /\ \A u \in Threads : call'[u].info = call[u].info /\ call'[u].ret = call[u].ret
                            /\ call'[u].ptr = call[u].ptr
      /\ \A u \in Threads : u # t => (Writing(u)' <=> Writing(u))
  BY <1>1, <1>2 DEF Adding, Deleting, Writing
<1>4. RetInv' /\ ToldInv'
  BY <1>1, <1>3 DEF StatInv, RetInv, ToldInv
<1>5. \A s : Stat(s)' = Stat(s)
  BY <1>1 DEF Stat
<1>6. SeenInv'
  <2> SUFFICES ASSUME NEW u \in Threads, Writing(u)', call'[u].info.stack \notin inexact'
      PROVE /\ call'[u].seen = Stat(call[u].info.stack)'
            /\ \A v \in Threads : Writing(v)' /\ call'[v].info.stack = call'[u].info.stack => v = u
    BY DEF SeenInv
  <2>1. CASE u = t
    <3>1. \A v \in Threads : v # t => ~(Writing(v)' /\ call'[v].info.stack = s1)
      BY <1>1, <1>2, <1>3, <2>1
    <3>2. PICK s : s = s1
      OBVIOUS
    <3>3. Stat(call[u].info.stack)' = Stat(s)' /\ Stat(s1) = Stat(s)
      BY <1>2, <2>1, <3>2 DEF Stat
    <3> QED BY <1>2, <1>5, <2>1, <3>1, <3>3
  <2>2. CASE u # t
    <3>1. Writing(u) /\ call[u].info.stack \notin inexact /\ call[u].info.stack # s1
      BY <1>1, <1>2, <1>3, <2>2
    <3>2. /\ call[u].seen = Stat(call[u].info.stack)
          /\ \A v \in Threads : Writing(v) /\ call[v].info.stack = call[u].info.stack => v = u
      BY <3>1 DEF StatInv, SeenInv
    <3>3. PICK s : s = call[u].info.stack
      OBVIOUS
    <3>4. Stat(call[u].info.stack)' = Stat(s)' /\ Stat(call[u].info.stack) = Stat(s)
      BY <1>2, <2>2, <3>3 DEF Stat
    <3> QED BY <1>2, <1>3, <1>5, <2>2, <3>1, <3>2, <3>4
  <2> QED BY <2>1, <2>2
<1>7. ASSUME NEW s \in Stacks \ inexact' PROVE CountsOK(s)'
  <2>1. CountsOK(s) /\ Settled(s)' = Settled(s) /\ Leaving(s)' = Leaving(s)
    BY <1>1, <1>3 DEF StatInv, Settled, Leaving
  <2>2. \A u \in Leaving(s) : call'[u].info = call[u].info
    BY <1>3 DEF Leaving
  <2>3. \A b \in Settled(s) : b \in DOMAIN allocs' /\ allocs'[b] = allocs[b]
    BY <1>1 DEF Settled
  <2> QED BY <1>5, <2>1, <2>2, <2>3, CountsSame
<1> QED BY <1>4, <1>6, <1>7 DEF StatInv

(* A thread writes the statistics: what it told of is settled, or has left. *)
LEMMA WriteStat1 ==
  ASSUME MemLeakAssumption, TypeInv, TypeInv', StatInv, NEW t \in Threads, WriteStat(t)
  PROVE  StatInv'
<1> DEFINE c == call[t]
           s1 == c.info.stack
<1>1. /\ UNCHANGED <<allocs, heap, inexact>> /\ c.at \in {"del_write", "add_write"}
      /\ combined' = Put(combined, s1, IF c.at = "add_write" THEN Added(c.seen, c.info.size)
                                       ELSE Deleted(c.seen, c.info.size))
  BY DEF WriteStat, Writing, ghostVars
<1>2. /\ call'[t].at \in {"idle", "run"} /\ call'[t].ret = Null
      /\ call'[t].ptr = c.ptr
      /\ \A u \in Threads : u # t => call'[u] = call[u]
  <2>1. IsCall(c) /\ CallTypes
    BY DEF TypeInv, CallTypes
  <2>2. CASE c.at = "add_write"
    <3>1. Goes(t, Idle)
      BY <2>2 DEF WriteStat
    <3>2. call'[t] = Idle /\ \A u \in Threads : u # t => call'[u] = call[u]
      BY <2>1, <3>1 DEF CallTypes, Goes
    <3>3. c.ptr = Null
      BY <2>1, <2>2 DEF IsCall, InCall, Telling, Idle
    <3> QED BY <3>2, <3>3 DEF Idle
  <2>3. CASE c.at = "del_write"
    <3> DEFINE d == [c EXCEPT !.at = "run", !.info = Null, !.seen = Null]
    <3>1. Goes(t, d)
      BY <2>3 DEF WriteStat
    <3>2. InCall(c)
      BY <2>1, <2>3 DEF IsCall, Telling, Idle
    <3>3. d.at = "run" /\ d.ret = Null /\ d.ptr = c.ptr
      <4>1. DOMAIN c = {"at", "fn", "ptr", "size", "traced", "armed", "info", "seen", "ret"}
            /\ c.ret = Null
        BY <3>2 DEF InCall
      <4> HIDE DEF c
      <4> QED BY <4>1
    <3>4. call'[t] = d /\ \A u \in Threads : u # t => call'[u] = call[u]
      BY <2>1, <3>1 DEF CallTypes, Goes
    <3> HIDE DEF d
    <3> QED BY <3>3, <3>4
  <2> QED BY <1>1, <2>2, <2>3
<1>3. /\ ~Adding(t)' /\ ~Deleting(t)' /\ ~Writing(t)' /\ Writing(t)
      /\ Adding(t) <=> c.at = "add_write"
      /\ Deleting(t) <=> c.at = "del_write"
      /\ \A u \in Threads : u # t => /\ Adding(u)' <=> Adding(u)
                                     /\ Deleting(u)' <=> Deleting(u)
                                     /\ Writing(u)' <=> Writing(u)
  BY <1>1, <1>2 DEF Adding, Deleting, Writing
<1>4. RetInv'
  BY <1>1, <1>2, <1>3 DEF StatInv, RetInv
<1>5. ToldInv'
  BY <1>1, <1>2, <1>3 DEF StatInv, ToldInv
<1>6. /\ \A s : s # s1 => Stat(s)' = Stat(s)
      /\ \A s : s = s1 => Stat(s)' =
                     IF c.at = "add_write" THEN Added(c.seen, c.info.size)
                     ELSE Deleted(c.seen, c.info.size)
  BY <1>1 DEF Stat, Put
<1>7. SeenInv'
  <2> SUFFICES ASSUME NEW u \in Threads, Writing(u)', call'[u].info.stack \notin inexact'
      PROVE /\ call'[u].seen = Stat(call[u].info.stack)'
            /\ \A v \in Threads : Writing(v)' /\ call'[v].info.stack = call'[u].info.stack => v = u
    BY DEF SeenInv
  <2>1. u # t /\ call'[u] = call[u] /\ Writing(u) /\ call[u].info.stack \notin inexact
    BY <1>1, <1>2, <1>3
  <2>2. /\ call[u].seen = Stat(call[u].info.stack)
        /\ \A v \in Threads : Writing(v) /\ call[v].info.stack = call[u].info.stack => v = u
    BY <2>1 DEF StatInv, SeenInv
  <2>3. call[u].info.stack # s1
    BY <1>3, <2>1, <2>2
  <2>4. PICK s : s = call[u].info.stack
    OBVIOUS
  <2>5. Stat(s)' = Stat(s)
    BY <1>6, <2>3, <2>4
  <2>6. Stat(call[u].info.stack)' = Stat(s)' /\ Stat(call[u].info.stack) = Stat(s)
    BY <2>1, <2>4 DEF Stat
  <2> QED BY <1>2, <1>3, <2>1, <2>2, <2>5, <2>6
<1>8. ASSUME NEW s \in Stacks \ inexact' PROVE CountsOK(s)'
  <2>1. CountsOK(s) /\ s \notin inexact
    BY <1>1 DEF StatInv
  <2>2. s = s1 => c.seen = Stat(s)
    BY <1>3, <2>1 DEF StatInv, SeenInv
  <2>3. CASE c.at = "add_write"
    <3>1. Adding(t) /\ ~Deleting(t)
      BY <1>3, <2>3
    <3>2. Leaving(s)' = Leaving(s) /\ \A u \in Leaving(s) : call'[u] = call[u]
      BY <1>2, <1>3, <3>1 DEF Leaving
    <3>3. /\ c.ret \in DOMAIN allocs => allocs[c.ret] = c.info \/ allocs[c.ret].stack \in inexact
          /\ s1 \notin inexact => c.ret \in DOMAIN allocs /\ allocs[c.ret] = c.info
      BY <3>1 DEF StatInv, ToldInv
    <3>4. \A b : b # c.ret => (b \in Settled(s)' <=> b \in Settled(s))
      BY <1>1, <1>2, <1>3 DEF Settled
    <3>5. c.ret \notin Settled(s)
      BY <3>1 DEF Settled
    <3>6. CASE s = s1
      <4>1. c.ret \in DOMAIN allocs /\ allocs[c.ret] = c.info /\ c.ret # Null
        BY <2>1, <3>3, <3>6 DEF TypeInv, AllocTypes, IsMap, MemLeakAssumption
      <4>2. c.ret \in Settled(s)'
        <5>1. \A u \in Threads : u # t => call[u].ret # c.ret
          BY <4>1 DEF StatInv, RetInv
        <5> QED BY <1>1, <1>2, <1>3, <3>6, <4>1, <5>1 DEF Settled
      <4>3. Settled(s)' = Settled(s) \union {c.ret}
        BY <3>4, <4>2
      <4>4. Stat(s)' = Added(Stat(s), allocs[c.ret].size)
        BY <1>6, <2>2, <2>3, <3>6, <4>1
      <4> QED BY <1>1, <2>1, <3>2, <3>5, <4>1, <4>3, <4>4, CountsTold
    <3>7. CASE s # s1
      <4>1. c.ret \notin Settled(s)'
        BY <1>1, <2>1, <3>3, <3>7 DEF Settled
      <4>2. Settled(s)' = Settled(s)
        BY <3>4, <3>5, <4>1
      <4>3. \A b \in Settled(s) : b \in DOMAIN allocs' /\ allocs'[b] = allocs[b]
        BY <1>1 DEF Settled
      <4> QED BY <1>6, <2>1, <3>2, <3>7, <4>2, <4>3, CountsSame
    <3> QED BY <3>6, <3>7
  <2>4. CASE c.at = "del_write"
    <3>1. ~Adding(t) /\ Deleting(t)
      BY <1>3, <2>4
    <3>2. Settled(s)' = Settled(s)
      BY <1>1, <1>2, <1>3, <3>1 DEF Settled
    <3>3. \A b \in Settled(s) : b \in DOMAIN allocs' /\ allocs'[b] = allocs[b]
      BY <1>1 DEF Settled
    <3>4. CASE s = s1
      <4>1. t \in Leaving(s) /\ Leaving(s)' = Leaving(s) \ {t}
        BY <1>2, <1>3, <3>1, <3>4 DEF Leaving
      <4>2. \A u \in Leaving(s) \ {t} : call'[u] = call[u]
        BY <1>2 DEF Leaving
      <4>3. Stat(s)' = Deleted(Stat(s), call[t].info.size)
        BY <1>6, <2>2, <2>4, <3>4
      <4> QED BY <1>1, <2>1, <3>2, <4>1, <4>2, <4>3, CountsLeft
    <3>5. CASE s # s1
      <4>1. Leaving(s)' = Leaving(s) /\ \A u \in Leaving(s) : call'[u].info = call[u].info
        BY <1>2, <1>3, <3>1, <3>5 DEF Leaving
      <4> QED BY <1>6, <2>1, <3>2, <3>3, <3>5, <4>1, CountsSame
    <3> QED BY <3>4, <3>5
  <2> QED BY <1>1, <2>3, <2>4
<1> QED BY <1>4, <1>5, <1>7, <1>8 DEF StatInv

(* Every step keeps the statistics right. *)
LEMMA NextStat ==
  ASSUME MemLeakAssumption, TypeInv, TypeInv', OwnerInv, StatInv, [Next]_vars
  PROVE  StatInv'
<1>1. ASSUME NEW t \in Threads, Alloc(t) \/ Realloc(t) \/ Free(t) PROVE StatInv'
  BY <1>1, EntersAre, EnterStat
<1>2. CASE Attach \/ Report \/ NextKey \/ Lookup \/ UNCHANGED vars
  <2>1. UNCHANGED <<allocs, combined, heap, call, inexact>>
    BY <1>2 DEF Attach, Report, NextKey, Lookup, vars, mapVars, ghostVars
  <2>2. RetInv' /\ ToldInv'
    BY <2>1 DEF StatInv, RetInv, ToldInv, Adding
  <2>3. \A s : Stat(s)' = Stat(s)
    BY <2>1 DEF Stat
  <2>4. SeenInv'
    BY <2>1, <2>3 DEF StatInv, SeenInv, Writing
  <2>5. ASSUME NEW s \in Stacks \ inexact' PROVE CountsOK(s)'
    <3>1. CountsOK(s) /\ Settled(s)' = Settled(s) /\ Leaving(s)' = Leaving(s)
      BY <2>1 DEF StatInv, Settled, Leaving, Adding, Deleting
    <3>2. \A b \in Settled(s) : b \in DOMAIN allocs' /\ allocs'[b] = allocs[b]
      BY <2>1 DEF Settled
    <3> QED BY <2>1, <2>3, <3>1, <3>2, CountsSame
  <2> QED BY <2>2, <2>4, <2>5 DEF StatInv
<1> QED BY <1>1, <1>2, ReturnStat, ReadStat1, WriteStat1 DEF Next, Thread

(* When no thread is at the statistics, those of a stack are the number and
   the sizes of its records in the map, however many threads allocate and
   free: unless two were at them at once, a record was overwritten, or the
   map was full.                                                             *)
THEOREM StatisticsExact == Spec => []StatsExact
<1> DEFINE IInv == TypeInv /\ TrueInv /\ StatInv
<1>1. Init => IInv
  BY InitTypes, InitTrue, InitStat, MemLeakAssumption
<1>2. IInv /\ [Next]_vars => IInv'
  <2>1. TrueInv => OwnerInv
    BY DEF TrueInv
  <2> QED BY <2>1, NextTypes, NextTrue, NextStat, MemLeakAssumption
<1>3. IInv => StatsExact
  <2> SUFFICES ASSUME TypeInv, StatInv, \A t \in Threads : ~Counting(t), NEW s \in Stacks \ inexact
               PROVE  /\ Stat(s).size = SizeOver(DOMAIN allocs, s)
                      /\ Stat(s).n = Cardinality({a \in DOMAIN allocs : allocs[a].stack = s})
    BY DEF StatsExact
  <2> DEFINE A == {a \in DOMAIN allocs : allocs[a].stack = s}
  <2>1. Settled(s) = A /\ Leaving(s) = {}
    BY DEF Counting, Adding, Deleting, Settled, Leaving
  <2>2. /\ Stat(s).n = Cardinality(A) + Cardinality({})
        /\ Stat(s).size = SumFunctionOnSet(SettledSizes, A) + SumFunctionOnSet(LeavingSizes, {})
    BY <2>1 DEF StatInv, CountsOK
  <2>3. Cardinality({}) = 0 /\ SumFunctionOnSet(LeavingSizes, {}) = 0
    BY FS_EmptySet, SumEmpty
  <2>4. /\ IsFiniteSet(A) /\ Cardinality(A) \in Nat
        /\ \A a \in A : SettledSizes[a] \in Nat
    BY <2>1, SizesAre, MemLeakAssumption
  <2>5. SumFunctionOnSet(SettledSizes, A) \in Nat
    <3> HIDE DEF A
    <3> QED BY <2>4, SumNat
  <2>6. SizeOver(DOMAIN allocs, s) = SumFunctionOnSet(SettledSizes, A)
    BY DEF SizeOver, SettledSizes
  <2> QED BY <2>2, <2>3, <2>4, <2>5, <2>6
<1> QED BY <1>1, <1>2, <1>3, PTL DEF Spec

(***************************************************************************)
(* The report covers what is there.                                        *)
(***************************************************************************)
SlotType == [stack : Stacks, size : Nat, n : Nat]
RecordSizes == [a \in DOMAIN allocs |-> allocs[a].size]

(* The addresses of A the walk has been to, since it began or began again. *)
Passed(A) == {a \in A : a < report.key \/ (a = report.key /\ report.at # "lookup")}

(* Each stack has one slot, and none is taken for a free one. *)
Apart(slots) ==
  /\ slots \in Seq(SlotType)
  /\ \A i \in 1..Len(slots) : slots[i].stack # 0
  /\ \A i, j \in 1..Len(slots) : slots[i].stack = slots[j].stack => i = j

(* The slot of a stack has at least "low" and, if "bounded", at most "high";
   without a slot there is nothing to miss.                                  *)
Between(slots, s, low, high, bounded) ==
  /\ \A i \in 1..Len(slots) :
       slots[i].stack = s => low <= slots[i].size /\ (bounded => slots[i].size <= high)
  /\ (\A i \in 1..Len(slots) : slots[i].stack # s) => low = 0

(* A stack's slot has at least what the walk has passed of the records that
   were there throughout and, if none was removed, no more than what it has
   passed of those that are there.                                           *)
Covered(s) ==
  Between(report.slots, s, SizeOver(Passed(report.steady), s),
          SizeOver(Passed(DOMAIN allocs), s), ~report.freed)

ReportInv ==
  /\ report.zero \in BOOLEAN /\ report.freed \in BOOLEAN
  /\ report.at \in {"none", "next", "lookup", "done"}
  /\ report.at # "none" /\ ~report.freed /\ report.key # Null => report.key \in DOMAIN allocs
  /\ report.at = "done" => \A a \in report.steady : a <= report.key
  /\ report.at # "none" /\ ~report.zero =>
       Apart(report.slots) /\ \A s \in Stacks \ {0} : Covered(s)

(* What the sums are over. *)
LEMMA OverAre ==
  ASSUME MemLeakAssumption, TypeInv, NEW A \in SUBSET DOMAIN allocs, NEW s
  PROVE  LET S == {a \in A : allocs[a].stack = s}
         IN  /\ SizeOver(A, s) = SumFunctionOnSet(RecordSizes, S) /\ SizeOver(A, s) \in Nat
             /\ IsFiniteSet(S) /\ \A a \in S : RecordSizes[a] \in Nat
<1> DEFINE S == {a \in A : allocs[a].stack = s}
<1>1. IsFiniteSet(DOMAIN allocs) /\ \A a \in DOMAIN allocs : allocs[a].size \in Nat
  BY DEF TypeInv, AllocTypes, IsMap, Records, MemLeakAssumption
<1>2. IsFiniteSet(S) /\ \A a \in S : RecordSizes[a] \in Nat
  <2>1. S \in SUBSET DOMAIN allocs
    OBVIOUS
  <2>2. IsFiniteSet(S)
    <3> HIDE DEF S
    <3> QED BY <1>1, <2>1, FS_Subset
  <2> QED BY <1>1, <2>1, <2>2 DEF RecordSizes
<1>3. SizeOver(A, s) = SumFunctionOnSet(RecordSizes, S)
  BY DEF SizeOver, RecordSizes
<1>4. SumFunctionOnSet(RecordSizes, S) \in Nat
  <2> HIDE DEF S
  <2> QED BY <1>2, SumNat
<1> QED BY <1>2, <1>3, <1>4

(* Fewer records have no greater sum. *)
LEMMA OverSubset ==
  ASSUME MemLeakAssumption, TypeInv, NEW A \in SUBSET DOMAIN allocs, NEW B \in SUBSET A, NEW s
  PROVE  SizeOver(B, s) <= SizeOver(A, s)
<1> DEFINE S == {a \in A : allocs[a].stack = s}
           R == {a \in B : allocs[a].stack = s}
<1>1. /\ SizeOver(A, s) = SumFunctionOnSet(RecordSizes, S) /\ IsFiniteSet(S)
      /\ \A a \in S : RecordSizes[a] \in Nat
      /\ SizeOver(B, s) = SumFunctionOnSet(RecordSizes, R)
  BY OverAre
<1>2. R \in SUBSET S
  OBVIOUS
<1> HIDE DEF R, S
<1> QED BY <1>1, <1>2, SumSubset

(* A record with the stack adds its size, another one nothing. *)
LEMMA OverAdd ==
  ASSUME MemLeakAssumption, TypeInv, NEW A \in SUBSET DOMAIN allocs,
         NEW a \in DOMAIN allocs, a \notin A, NEW s
  PROVE  SizeOver(A \union {a}, s) =
           SizeOver(A, s) + (IF allocs[a].stack = s THEN allocs[a].size ELSE 0)
<1> DEFINE S == {b \in A : allocs[b].stack = s}
           R == {b \in A \union {a} : allocs[b].stack = s}
<1>1. /\ SizeOver(A, s) = SumFunctionOnSet(RecordSizes, S) /\ IsFiniteSet(S)
      /\ \A b \in S : RecordSizes[b] \in Nat
      /\ SizeOver(A \union {a}, s) = SumFunctionOnSet(RecordSizes, R)
      /\ \A b \in R : RecordSizes[b] \in Nat
      /\ SizeOver(A, s) \in Nat
  BY OverAre
<1>2. CASE allocs[a].stack = s
  <2>1. R = S \union {a} /\ a \notin S /\ a \in R
    BY <1>2
  <2>2. RecordSizes[a] = allocs[a].size
    BY DEF RecordSizes
  <2> HIDE DEF R, S
  <2>3. SumFunctionOnSet(RecordSizes, S \union {a}) = RecordSizes[a] + SumFunctionOnSet(RecordSizes, S)
    BY <1>1, <2>1, SumWith
  <2> QED BY <1>1, <1>2, <2>1, <2>2, <2>3
<1>3. CASE allocs[a].stack # s
  <2>1. R = S
    BY <1>3
  <2> HIDE DEF R, S
  <2> QED BY <1>1, <1>3, <2>1
<1> QED BY <1>2, <1>3

(* Records that do not change have the same sum. *)
LEMMA OverSame ==
  ASSUME MemLeakAssumption, TypeInv, NEW A \in SUBSET DOMAIN allocs, A \subseteq DOMAIN allocs',
         \A a \in A : allocs'[a] = allocs[a], NEW s
  PROVE  {a \in A : allocs'[a].stack = s} = {a \in A : allocs[a].stack = s}
         /\ SumFunctionOnSet([a \in DOMAIN allocs' |-> allocs'[a].size], {a \in A : allocs'[a].stack = s})
            = SizeOver(A, s)
<1> DEFINE S == {a \in A : allocs[a].stack = s}
           f == [a \in DOMAIN allocs' |-> allocs'[a].size]
<1>1. {a \in A : allocs'[a].stack = s} = S
  OBVIOUS
<1>2. SizeOver(A, s) = SumFunctionOnSet(RecordSizes, S) /\ IsFiniteSet(S)
  BY OverAre
<1>3. \A a \in S : f[a] = RecordSizes[a]
  BY DEF RecordSizes
<1> HIDE DEF S, f
<1>4. SumFunctionOnSet(f, S) = SumFunctionOnSet(RecordSizes, S)
  BY <1>2, <1>3, SumSame
<1> QED BY <1>1, <1>2, <1>4 DEF f

(* The greater of two numbers. *)
LEMMA MaxOfTwo == \A i, j \in Nat : Max({i, j}) = IF i >= j THEN i ELSE j
<1> TAKE i \in Nat, j \in Nat
<1>1. \E x \in {i, j} : \A y \in {i, j} : x >= y
  OBVIOUS
<1>2. Max({i, j}) \in {i, j} /\ \A y \in {i, j} : Max({i, j}) >= y
  BY <1>1 DEF Max
<1> QED BY <1>2

(* A record is added to the slot of its stack, or to a new one. *)
LEMMA AddToIs ==
  ASSUME MemLeakAssumption, NEW slots, Apart(slots), NEW info \in Records, info.stack # 0
  PROVE  /\ Apart(AddTo(slots, info))
         /\ \/ \E i \in 1..Len(slots) :
                 /\ slots[i].stack = info.stack
                 /\ Len(AddTo(slots, info)) = Len(slots)
                 /\ AddTo(slots, info)[i].stack = info.stack
                 /\ AddTo(slots, info)[i].size = slots[i].size + info.size
                 /\ \A j \in 1..Len(slots) : j # i => AddTo(slots, info)[j] = slots[j]
            \/ /\ \A i \in 1..Len(slots) : slots[i].stack # info.stack
               /\ Len(AddTo(slots, info)) = Len(slots) + 1
               /\ AddTo(slots, info)[Len(slots) + 1].stack = info.stack
               /\ AddTo(slots, info)[Len(slots) + 1].size = info.size
               /\ \A j \in 1..Len(slots) : AddTo(slots, info)[j] = slots[j]
<1> DEFINE l == Len(slots)
           S == {i \in 1..l : slots[i].stack \in {info.stack, 0}} \union {l + 1}
           i == Slot(slots, info.stack)
           old == IF i \in DOMAIN slots THEN slots[i] ELSE None
           new == [stack |-> info.stack, size |-> old.size + info.size, n |-> old.n + 1]
           m == Max({i, l})
           r == [j \in 1..m |-> IF j = i THEN new ELSE slots[j]]
<1>1. l \in Nat /\ DOMAIN slots = 1..l /\ slots \in Seq(SlotType)
      /\ \A j \in 1..l : slots[j] \in SlotType /\ slots[j].stack # 0
  BY DEF Apart
<1>2. S \in SUBSET Nat /\ S # {}
  BY <1>1
<1>3. i \in S /\ \A j \in S : i <= j
  <2>1. i = Min(S)
    BY DEF Slot
  <2> HIDE DEF S, i
  <2> QED BY <1>2, <2>1, Least
<1>4. \/ i \in 1..l /\ slots[i].stack = info.stack
      \/ i = l + 1 /\ \A j \in 1..l : slots[j].stack # info.stack
  <2> HIDE DEF i
  <2> QED BY <1>1, <1>3
<1>5. i \in 1..(l + 1) /\ m = IF i = l + 1 THEN l + 1 ELSE l
  <2>1. i \in 1..(l + 1)
    <3> HIDE DEF i
    <3> QED BY <1>1, <1>4
  <2> HIDE DEF i, l
  <2> QED BY <1>1, <2>1, MaxOfTwo
<1>6. info.stack \in Stacks /\ info.size \in Nat
  BY DEF Records, MemLeakAssumption
<1>7. old.size \in Nat /\ old.n \in Nat /\ (i = l + 1 => old.size = 0)
  <2>1. CASE i \in 1..l
    <3>1. old = slots[i] /\ slots[i] \in SlotType
      BY <1>1, <2>1
    <3> HIDE DEF i, old
    <3> QED BY <1>1, <2>1, <3>1 DEF SlotType
  <2>2. CASE i = l + 1
    <3>1. old = None
      BY <1>1, <2>2
    <3> HIDE DEF i, old
    <3> QED BY <3>1 DEF None
  <2> QED BY <1>4, <2>1, <2>2
<1>8. AddTo(slots, info) = r
  BY DEF AddTo
<1> HIDE DEF i, old, m, S, l
<1>9. new \in SlotType /\ new.stack = info.stack /\ new.size = old.size + info.size
  BY <1>6, <1>7 DEF SlotType
<1> HIDE DEF new
<1>10. m \in Nat /\ \A j \in 1..m : (IF j = i THEN new ELSE slots[j]) \in SlotType
  <2>1. m \in Nat
    BY <1>1, <1>5
  <2>2. ASSUME NEW j \in 1..m, j # i PROVE slots[j] \in SlotType
    <3>1. j \in 1..l
      <4> HIDE DEF l
      <4> QED BY <1>1, <1>5, <2>2
    <3> QED BY <1>1, <3>1
  <2> QED BY <1>9, <2>1, <2>2
<1>11. r \in Seq(SlotType) /\ Len(r) = m /\ \A j \in 1..m : r[j] = IF j = i THEN new ELSE slots[j]
  BY <1>10
<1> HIDE DEF r
<1>12. Apart(r)
  <2>1. \A j \in 1..m : r[j].stack # 0 /\ (j # i => j \in 1..l /\ r[j] = slots[j])
    <3> TAKE j \in 1..m
    <3>1. j # i => j \in 1..l
      BY <1>1, <1>5
    <3> QED BY <1>1, <1>9, <1>11, <3>1
  <2>2. \A j \in 1..l : j # i => slots[j].stack # info.stack
    BY <1>1, <1>4 DEF Apart, l
  <2>3. ASSUME NEW j \in 1..m, NEW k \in 1..m, r[j].stack = r[k].stack PROVE j = k
    <3>1. j # i /\ k # i => j = k
      BY <2>1, <2>3 DEF Apart, l
    <3>2. j # i => r[j].stack # info.stack
      BY <2>1, <2>2
    <3>3. k # i => r[k].stack # info.stack
      BY <2>1, <2>2
    <3> QED BY <1>9, <1>11, <2>3, <3>1, <3>2, <3>3
  <2> QED BY <1>11, <2>1, <2>3 DEF Apart
<1>13. CASE i \in 1..l /\ slots[i].stack = info.stack
  <2>0. m = l
    BY <1>1, <1>5, <1>13
  <2>1. old = slots[i]
    BY <1>1, <1>13 DEF old
  <2>2. r[i].stack = info.stack /\ r[i].size = slots[i].size + info.size
    BY <1>9, <1>11, <1>13, <2>0, <2>1
  <2>3. \A j \in 1..l : j # i => r[j] = slots[j]
    BY <1>11, <2>0
  <2>4. Len(r) = l
    BY <1>11, <2>0
  <2>5. \E k \in 1..l : /\ slots[k].stack = info.stack
                         /\ Len(r) = l
                         /\ r[k].stack = info.stack
                         /\ r[k].size = slots[k].size + info.size
                         /\ \A j \in 1..l : j # k => r[j] = slots[j]
    BY <1>13, <2>2, <2>3, <2>4
  <2> QED BY <1>8, <1>12, <2>5 DEF l
<1>14. CASE i = l + 1 /\ \A j \in 1..l : slots[j].stack # info.stack
  <2>1. m = l + 1 /\ old.size = 0
    BY <1>5, <1>7, <1>14
  <2>2. new.size = info.size
    BY <1>6, <1>9, <2>1
  <2>3. Len(r) = l + 1 /\ r[l + 1].stack = info.stack /\ r[l + 1].size = info.size
    <3>1. l + 1 \in 1..m
      BY <1>1, <2>1
    <3> QED BY <1>9, <1>11, <1>14, <2>1, <2>2, <3>1
  <2>4. \A j \in 1..l : r[j] = slots[j]
    <3> TAKE j \in 1..l
    <3>1. j \in 1..m /\ j # i
      BY <1>1, <1>14, <2>1
    <3> QED BY <1>11, <3>1
  <2> QED BY <1>8, <1>12, <1>14, <2>3, <2>4 DEF l
<1> QED BY <1>4, <1>13, <1>14

(* The report begins with nothing. *)
LEMMA InitReport == Init => ReportInv
BY DEF Init, NoReport, ReportInv

(* What the steps of the program's threads do to the report. *)
LEMMA HeapReport ==
  ASSUME MemLeakAssumption, TypeInv, NEW t \in Threads, Thread(t)
  PROVE  \/ report' = report /\ allocs' = allocs
         \/ \E a : /\ report' = Disturbed(a)
                   /\ DOMAIN allocs \ {a} \subseteq DOMAIN allocs'
                   /\ \A b \in DOMAIN allocs \ {a} : allocs'[b] = allocs[b]
<1>1. CASE Alloc(t) \/ Realloc(t) \/ Free(t)
  <2>1. PICK fn \in Fns, a \in Addrs \union {Null}, n \in Nat :
          /\ fn # "free" => n \in Sizes
          /\ fn \in {"realloc", "free"} <=> a # Null
          /\ Enter(t, NewCall(fn, a, n))
    BY <1>1, EntersAre
  <2> DEFINE c == NewCall(fn, a, n)
  <2>2. c.ptr = a
    BY DEF NewCall
  <2>3. \/ allocs' = Without(allocs, a) /\ report' = Disturbed(a)
        \/ allocs' = allocs /\ report' = report
    BY <2>1, <2>2 DEF Enter
  <2> QED BY <2>3 DEF Without
<1>2. CASE Return(t)
  <2>1. PICK s \in StackIds(call[t]), res \in Results(call[t]) :
          \E a \in Told(call[t], res) : Exit(t, call[t], s, res, a)
    BY <1>2 DEF Return
  <2>2. PICK a \in Told(call[t], res) : Exit(t, call[t], s, res, a)
    BY <2>1
  <2> DEFINE info == [size |-> sizes[Key(t)], stack |-> s]
  <2>3. \/ allocs' = Put(allocs, a, info) /\ report' = Disturbed(a)
        \/ allocs' = allocs /\ report' = report
    BY <2>2 DEF Exit
  <2> HIDE DEF info
  <2> QED BY <2>3 DEF Put
<1>3. CASE ReadStat(t) \/ WriteStat(t)
  BY <1>3 DEF ReadStat, WriteStat, mapVars
<1> QED BY <1>1, <1>2, <1>3 DEF Thread

(* A report under way loses what is taken away from those that were there
   throughout, and knows of it.                                              *)
LEMMA DisturbedIs ==
  ASSUME TypeInv, ReportInv, NEW a, report' = Disturbed(a)
  PROVE  /\ report'.at = report.at /\ report'.key = report.key
         /\ report'.slots = report.slots /\ report'.zero = report.zero
         /\ report'.freed \in BOOLEAN
         /\ report.at # "none" =>
              /\ report'.steady = report.steady \ {a}
              /\ ~report'.freed => ~report.freed /\ a \notin DOMAIN allocs
<1>1. CASE report.at = "none"
  BY <1>1 DEF Disturbed, ReportInv
<1>2. CASE report.at # "none"
  <2> DEFINE freed == report.freed \/ a \in DOMAIN allocs
  <2>1. report' = [report EXCEPT !.steady = report.steady \ {a}, !.freed = freed]
    BY <1>2 DEF Disturbed
  <2>2. freed \in BOOLEAN /\ (~freed => ~report.freed /\ a \notin DOMAIN allocs)
    BY DEF ReportInv
  <2> HIDE DEF freed
  <2>3. report' = [at |-> report.at, key |-> report.key, slots |-> report.slots,
                   zero |-> report.zero, steady |-> report.steady \ {a}, freed |-> freed]
    BY <2>1 DEF TypeInv, IsReport
  <2> QED BY <2>2, <2>3
<1> QED BY <1>1, <1>2

(* More records have no smaller sum, in the next state. *)
LEMMA OverLater ==
  ASSUME MemLeakAssumption, TypeInv, TypeInv', NEW A \in SUBSET DOMAIN allocs,
         NEW B \in SUBSET DOMAIN allocs', A \subseteq B, NEW s,
         \A a \in A : allocs'[a] = allocs[a]
  PROVE  /\ SumFunctionOnSet([a \in DOMAIN allocs' |-> allocs'[a].size],
                              {a \in B : allocs'[a].stack = s}) \in Nat
         /\ SizeOver(A, s) <= SumFunctionOnSet([a \in DOMAIN allocs' |-> allocs'[a].size],
                                               {a \in B : allocs'[a].stack = s})
<1> DEFINE f == [a \in DOMAIN allocs' |-> allocs'[a].size]
           S == {a \in B : allocs'[a].stack = s}
           R == {a \in A : allocs'[a].stack = s}
<1>1. SizeOver(A, s) = SumFunctionOnSet(f, R)
  BY OverSame
<1>2. IsFiniteSet(DOMAIN allocs') /\ \A a \in DOMAIN allocs' : allocs'[a].size \in Nat
  BY DEF TypeInv, AllocTypes, IsMap, Records, MemLeakAssumption
<1>3. S \in SUBSET DOMAIN allocs' /\ R \in SUBSET S
  OBVIOUS
<1>4. \A a \in DOMAIN allocs' : f[a] = allocs'[a].size
  OBVIOUS
<1> HIDE DEF S, R, f
<1>5. IsFiniteSet(S) /\ \A a \in S : f[a] \in Nat
  BY <1>2, <1>3, <1>4, FS_Subset
<1>6. SumFunctionOnSet(f, R) <= SumFunctionOnSet(f, S)
  BY <1>3, <1>5, SumSubset
<1>7. SumFunctionOnSet(f, S) \in Nat
  BY <1>5, SumNat
<1> QED BY <1>1, <1>6, <1>7 DEF f, S

(* A record that is removed, replaced or added leaves the report right. *)
LEMMA DisturbedReport ==
  ASSUME MemLeakAssumption, TypeInv, TypeInv', ReportInv, NEW a, report' = Disturbed(a),
         DOMAIN allocs \ {a} \subseteq DOMAIN allocs',
         \A b \in DOMAIN allocs \ {a} : allocs'[b] = allocs[b]
  PROVE  ReportInv'
<1>1. /\ report'.at = report.at /\ report'.key = report.key
      /\ report'.slots = report.slots /\ report'.zero = report.zero
      /\ report'.freed \in BOOLEAN
      /\ report.at # "none" =>
           /\ report'.steady = report.steady \ {a}
           /\ ~report'.freed => ~report.freed /\ a \notin DOMAIN allocs
  BY DisturbedIs
<1>2. report.at # "none" /\ ~report'.freed =>
        ~report.freed /\ \A b \in DOMAIN allocs : b \in DOMAIN allocs' /\ allocs'[b] = allocs[b]
  BY <1>1
<1>3. report.at # "none" =>
        /\ report'.steady \subseteq report.steady
        /\ \A b \in report'.steady : b \in DOMAIN allocs /\ b \in DOMAIN allocs' /\ allocs'[b] = allocs[b]
  BY <1>1 DEF TypeInv, IsReport
<1>4. ASSUME report.at # "none", ~report.zero, NEW s \in Stacks \ {0} PROVE Covered(s)'
  <2> DEFINE There(A) == {b \in A : b < report.key \/ (b = report.key /\ report.at # "lookup")}
             Sum(A) == SumFunctionOnSet([b \in DOMAIN allocs' |-> allocs'[b].size],
                                        {b \in A : allocs'[b].stack = s})
  <2>1. Covered(s)
    BY <1>4 DEF ReportInv
  <2>2. /\ SizeOver(Passed(report.steady), s)' = Sum(There(report'.steady))
        /\ SizeOver(Passed(DOMAIN allocs), s)' = Sum(There(DOMAIN allocs'))
    BY <1>1 DEF SizeOver, Passed
  <2>3. report.steady \in SUBSET DOMAIN allocs /\ report'.steady \in SUBSET report.steady
        /\ report'.steady \subseteq DOMAIN allocs'
    BY <1>3, <1>4 DEF TypeInv, IsReport
  <2>4. Passed(report.steady) = There(report.steady) /\ Passed(DOMAIN allocs) = There(DOMAIN allocs)
    BY DEF Passed
  <2>5. /\ There(report.steady) \in SUBSET DOMAIN allocs
        /\ There(report'.steady) \in SUBSET There(report.steady)
        /\ There(report'.steady) \in SUBSET DOMAIN allocs
        /\ There(report'.steady) \subseteq DOMAIN allocs'
        /\ \A b \in There(report'.steady) : allocs'[b] = allocs[b]
    BY <1>3, <1>4, <2>3
  <2>6. /\ There(DOMAIN allocs) \subseteq DOMAIN allocs
        /\ There(DOMAIN allocs') \subseteq DOMAIN allocs'
        /\ DOMAIN allocs \subseteq DOMAIN allocs' => There(DOMAIN allocs) \subseteq There(DOMAIN allocs')
    OBVIOUS
  <2>7. \A A \in SUBSET DOMAIN allocs : SizeOver(A, s) \in Nat
    BY OverAre
  <2> HIDE DEF There
  <2>8. SizeOver(There(report'.steady), s) <= SizeOver(There(report.steady), s)
    BY <2>5, OverSubset
  <2>9. Sum(There(report'.steady)) = SizeOver(There(report'.steady), s)
    BY <2>5, OverSame
  <2>10. ~report'.freed => /\ Sum(There(DOMAIN allocs')) \in Nat
                           /\ SizeOver(There(DOMAIN allocs), s) <= Sum(There(DOMAIN allocs'))
    <3> SUFFICES ASSUME ~report'.freed
                 PROVE  /\ Sum(There(DOMAIN allocs')) \in Nat
                        /\ SizeOver(There(DOMAIN allocs), s) <= Sum(There(DOMAIN allocs'))
      OBVIOUS
    <3>1. There(DOMAIN allocs) \subseteq There(DOMAIN allocs')
          /\ \A b \in There(DOMAIN allocs) : allocs'[b] = allocs[b]
      BY <1>2, <1>4, <2>6
    <3>2. /\ There(DOMAIN allocs) \in SUBSET DOMAIN allocs
          /\ There(DOMAIN allocs') \in SUBSET DOMAIN allocs'
      BY <2>6
    <3> QED BY <3>1, <3>2, OverLater
  <2> HIDE DEF Sum
  <2>11. /\ SizeOver(There(report.steady), s) \in Nat
         /\ SizeOver(There(report'.steady), s) \in Nat
         /\ SizeOver(There(DOMAIN allocs), s) \in Nat
    BY <2>5, <2>6, <2>7
  <2>12. \A i \in 1..Len(report.slots) : report.slots[i].size \in Nat
    <3>1. report.slots \in Seq(SlotType)
      BY <1>4 DEF ReportInv, Apart
    <3>2. \A i \in 1..Len(report.slots) : report.slots[i] \in SlotType
      BY <3>1
    <3> QED BY <3>2 DEF SlotType
  <2>13. ASSUME NEW i \in 1..Len(report.slots), report.slots[i].stack = s
         PROVE  /\ Sum(There(report'.steady)) <= report.slots[i].size
                /\ ~report'.freed => report.slots[i].size <= Sum(There(DOMAIN allocs'))
    <3>1. /\ SizeOver(There(report.steady), s) <= report.slots[i].size
          /\ ~report.freed => report.slots[i].size <= SizeOver(There(DOMAIN allocs), s)
      BY <2>1, <2>4, <2>13 DEF Covered, Between
    <3>2. report.slots[i].size \in Nat
      BY <2>12
    <3> QED BY <1>1, <1>4, <2>8, <2>9, <2>10, <2>11, <3>1, <3>2
  <2>14. ASSUME \A i \in 1..Len(report.slots) : report.slots[i].stack # s
         PROVE  Sum(There(report'.steady)) = 0
    <3>1. SizeOver(There(report.steady), s) = 0
      BY <2>1, <2>4, <2>14 DEF Covered, Between
    <3> QED BY <2>8, <2>9, <2>11, <3>1
  <2> QED BY <1>1, <2>2, <2>13, <2>14 DEF Covered, Between
<1>5. report.at # "none" /\ ~report'.freed /\ report.key # Null => report.key \in DOMAIN allocs'
  BY <1>1, <1>2 DEF ReportInv
<1>6. report.at = "done" => \A b \in report'.steady : b <= report.key
  BY <1>1, <1>3 DEF ReportInv
<1>7. report.at # "none" /\ ~report.zero => Apart(report.slots) /\ \A s \in Stacks \ {0} : Covered(s)'
  BY <1>4 DEF ReportInv
<1>8. report.zero \in BOOLEAN /\ report.at \in {"none", "next", "lookup", "done"}
  BY DEF ReportInv
<1> QED BY <1>1, <1>5, <1>6, <1>7, <1>8 DEF ReportInv, Apart

(* A step of the walk that adds nothing to the slots: it goes on with what it
   has passed, or begins again with less.                                    *)
LEMMA WalksOn ==
  ASSUME MemLeakAssumption, TypeInv, ReportInv, NEW s \in Stacks \ {0},
         report.at # "none", ~report.zero,
         allocs' = allocs, report'.slots = report.slots, report'.freed = report.freed,
         Passed(report.steady)' \in {Passed(report.steady), {}},
         ~report.freed => Passed(DOMAIN allocs)' = Passed(DOMAIN allocs)
  PROVE  Covered(s)'
<1>1. Covered(s) /\ report.slots \in Seq(SlotType)
  BY DEF ReportInv, Apart
<1>2. \A i \in 1..Len(report.slots) : report.slots[i].size \in Nat
  <2>1. \A i \in 1..Len(report.slots) : report.slots[i] \in SlotType
    BY <1>1
  <2> QED BY <2>1 DEF SlotType
<1>3. Passed(report.steady) \in SUBSET DOMAIN allocs
  BY DEF Passed, TypeInv, IsReport
<1>4. SizeOver(Passed(report.steady), s) \in Nat /\ SizeOver({}, s) = 0
  <2>1. {a \in {} : allocs[a].stack = s} = {}
    OBVIOUS
  <2>2. SizeOver({}, s) = 0
    BY <2>1, SumEmpty DEF SizeOver
  <2> QED BY <1>3, <2>2, OverAre
<1> DEFINE low == SizeOver(Passed(report.steady), s)
           high == SizeOver(Passed(DOMAIN allocs), s)
<1>5. SizeOver(Passed(report.steady), s)' = SizeOver(Passed(report.steady)', s)
      /\ SizeOver(Passed(DOMAIN allocs), s)' = SizeOver(Passed(DOMAIN allocs)', s)
  BY DEF SizeOver
<1>6. low' \in {low, 0} /\ (~report.freed => high' = high)
  BY <1>4, <1>5
<1>7. Between(report.slots, s, low, high, ~report.freed) /\ low \in Nat
  BY <1>1, <1>4 DEF Covered
<1>8. Between(report.slots, s, low', high', ~report.freed)
  <2> HIDE DEF low, high
  <2> QED BY <1>2, <1>6, <1>7 DEF Between
<1> QED BY <1>8 DEF Covered

(* The report begins with the records there are. *)
LEMMA ReportBegins ==
  ASSUME MemLeakAssumption, TypeInv, Report
  PROVE  ReportInv'
<1>1. /\ allocs' = allocs /\ report'.at = "next" /\ report'.key = Null /\ report'.slots = <<>>
      /\ report'.zero = FALSE /\ report'.freed = FALSE /\ report'.steady = DOMAIN allocs
  BY DEF Report, NoReport, mapVars
<1>2. Apart(<<>>)
  BY DEF Apart
<1>3. ASSUME NEW s \in Stacks \ {0} PROVE Covered(s)'
  <2>1. Passed(report.steady)' = {}
    BY <1>1 DEF Passed, TypeInv, AllocTypes, IsMap, MemLeakAssumption, Null
  <2>2. SizeOver(Passed(report.steady), s)' = 0
    <3>1. {a \in {} : allocs'[a].stack = s} = {}
      OBVIOUS
    <3> QED BY <2>1, <3>1, SumEmpty DEF SizeOver
  <2> QED BY <1>1, <2>2 DEF Covered, Between
<1>4. Apart(report.slots)'
  BY <1>1, <1>2 DEF Apart
<1>5. report'.at = "next" /\ report'.key = Null /\ report'.zero \in BOOLEAN /\ report'.freed \in BOOLEAN
  BY <1>1
<1> QED BY <1>3, <1>4, <1>5 DEF ReportInv

(* The walk goes on to the next key; when the last one is gone it begins
   again, and when there is no other it has passed all that was there.       *)
LEMMA NextKeyReport ==
  ASSUME MemLeakAssumption, TypeInv, ReportInv, NextKey
  PROVE  ReportInv'
<1> DEFINE keys == DOMAIN allocs
           k == report.key
           later == IF k \in keys THEN {a \in keys : a > k} ELSE keys
           m == Min(later)
<1>1. allocs' = allocs /\ report.at = "next"
  BY DEF NextKey, mapVars
<1>2. report' = IF later = {} THEN [report EXCEPT !.at = "done"]
                ELSE [report EXCEPT !.at = "lookup", !.key = m]
  BY DEF NextKey
<1>3. keys \in SUBSET Nat /\ Null \notin keys /\ k \in Nat /\ report.steady \subseteq keys
      /\ (~report.freed /\ k # Null => k \in keys)
  BY <1>1 DEF TypeInv, AllocTypes, IsMap, IsReport, MemLeakAssumption, ReportInv, Null
<1>4. later # {} => m \in later /\ \A a \in later : m <= a
  <2>1. later \in SUBSET Nat
    BY <1>3
  <2> HIDE DEF later
  <2> QED BY <2>1, Least
<1>5. report' \in [at : {IF later = {} THEN "done" ELSE "lookup"},
                   key : {IF later = {} THEN k ELSE m}, slots : {report.slots},
                   zero : {report.zero}, steady : {report.steady}, freed : {report.freed}]
  <2> HIDE DEF later, m
  <2> QED BY <1>2 DEF TypeInv, IsReport
<1>6. /\ report'.at = IF later = {} THEN "done" ELSE "lookup"
      /\ report'.key = IF later = {} THEN k ELSE m
      /\ report'.slots = report.slots /\ report'.zero = report.zero
      /\ report'.steady = report.steady /\ report'.freed = report.freed
  <2> HIDE DEF later, m
  <2> QED BY <1>5
<1>7. ASSUME NEW A \in SUBSET keys
      PROVE  LET now == {a \in A : a < report'.key \/ (a = report'.key /\ report'.at # "lookup")}
             IN  now \in {Passed(A), {}} /\ (~report.freed => now = Passed(A))
  <2> DEFINE now == {a \in A : a < report'.key \/ (a = report'.key /\ report'.at # "lookup")}
  <2>1. Passed(A) = {a \in A : a <= k}
    BY <1>1, <1>3 DEF Passed
  <2>2. CASE later = {}
    <3>1. now = {a \in A : a <= k}
      <4> HIDE DEF later
      <4> QED BY <1>3, <1>6, <2>2
    <3> QED BY <2>1, <3>1
  <2>3. CASE later # {} /\ k \in keys
    <3>1. m \in keys /\ m > k /\ \A a \in keys : a > k => m <= a
      BY <1>4, <2>3
    <3>2. now = {a \in A : a < m}
      <4> HIDE DEF later, m
      <4> QED BY <1>6, <2>3
    <3> HIDE DEF now, m
    <3>3. \A a \in A : a < m <=> a <= k
      BY <1>3, <3>1
    <3>4. now = Passed(A)
      BY <2>1, <3>2, <3>3
    <3> QED BY <3>4 DEF now
  <2>4. CASE later # {} /\ k \notin keys
    <3>1. m \in keys /\ \A a \in keys : m <= a
      BY <1>4, <2>4
    <3>2. now = {a \in A : a < m}
      <4> HIDE DEF later, m
      <4> QED BY <1>6, <2>4
    <3> HIDE DEF now, m
    <3>3. now = {}
      BY <1>3, <3>1, <3>2
    <3>4. ~report.freed => Passed(A) = {}
      <4>1. ~report.freed => k = 0
        BY <1>3, <2>4 DEF Null
      <4> QED BY <1>3, <2>1, <4>1 DEF Null
    <3> QED BY <3>3, <3>4 DEF now
  <2> QED BY <2>2, <2>3, <2>4
<1>8. /\ Passed(report.steady)' \in {Passed(report.steady), {}}
      /\ ~report.freed => Passed(DOMAIN allocs)' = Passed(DOMAIN allocs)
  <2>1. Passed(report.steady)' =
          {a \in report.steady : a < report'.key \/ (a = report'.key /\ report'.at # "lookup")}
    BY <1>6 DEF Passed
  <2>2. Passed(DOMAIN allocs)' =
          {a \in keys : a < report'.key \/ (a = report'.key /\ report'.at # "lookup")}
    BY <1>1 DEF Passed
  <2> QED BY <1>3, <1>7, <2>1, <2>2
<1>9. report'.at = "done" => \A a \in report'.steady : a <= report'.key
  <2> SUFFICES ASSUME report'.at = "done", NEW a \in report.steady PROVE a <= k
    BY <1>6
  <2>1. later = {}
    BY <1>6
  <2>2. k \in keys /\ ~(a > k)
    BY <1>3, <2>1
  <2> QED BY <1>3, <2>2
<1>10. ~report'.freed /\ report'.key # Null => report'.key \in DOMAIN allocs'
  BY <1>1, <1>3, <1>4, <1>6
<1>11. ASSUME ~report.zero PROVE Apart(report.slots) /\ \A s \in Stacks \ {0} : Covered(s)'
  BY <1>1, <1>6, <1>8, <1>11, WalksOn DEF ReportInv
<1>12. report.zero \in BOOLEAN /\ report.freed \in BOOLEAN
  BY DEF ReportInv
<1> HIDE DEF later
<1> QED BY <1>6, <1>9, <1>10, <1>11, <1>12 DEF ReportInv, Apart

(* Adding a record to its slot keeps the slot of every stack between its
   bounds, which grow by the record's size if it is the stack's.             *)
LEMMA AddToBetween ==
  ASSUME MemLeakAssumption, NEW slots, Apart(slots), NEW info \in Records, info.stack # 0,
         NEW s, NEW low \in Nat, NEW high \in Nat, NEW low1 \in Nat, NEW bounded,
         Between(slots, s, low, high, bounded),
         low1 <= low + (IF info.stack = s THEN info.size ELSE 0)
  PROVE  Between(AddTo(slots, info), s, low1,
                 high + (IF info.stack = s THEN info.size ELSE 0), bounded)
<1> DEFINE r == AddTo(slots, info)
           l == Len(slots)
           more == IF info.stack = s THEN info.size ELSE 0
<1>1. /\ l \in Nat
      /\ \/ \E i \in 1..l :
              /\ slots[i].stack = info.stack
              /\ Len(r) = l
              /\ r[i].stack = info.stack
              /\ r[i].size = slots[i].size + info.size
              /\ \A j \in 1..l : j # i => r[j] = slots[j]
         \/ /\ \A i \in 1..l : slots[i].stack # info.stack
            /\ Len(r) = l + 1
            /\ r[l + 1].stack = info.stack
            /\ r[l + 1].size = info.size
            /\ \A j \in 1..l : r[j] = slots[j]
  <2>1. l \in Nat
    BY DEF Apart
  <2> QED BY ONLY <2>1, AddToIs, MemLeakAssumption, Apart(slots), info \in Records, info.stack # 0
<1>2. \A j \in 1..l : slots[j].size \in Nat
  <2>1. \A j \in 1..l : slots[j] \in SlotType
    BY DEF Apart
  <2> QED BY <2>1 DEF SlotType
<1>3. info.size \in Nat /\ more \in Nat /\ low1 <= low + more
  BY DEF Records, MemLeakAssumption
<1>4. /\ \A j \in 1..l : slots[j].stack = s =>
           low <= slots[j].size /\ (bounded => slots[j].size <= high)
      /\ (\A j \in 1..l : slots[j].stack # s) => low = 0
  BY DEF Between
<1>5. \A i, j \in 1..l : slots[i].stack = slots[j].stack => i = j
  BY DEF Apart
<1>6. (info.stack = s => more = info.size) /\ (info.stack # s => more = 0)
  OBVIOUS
<1> SUFFICES Between(r, s, low1, high + more, bounded)
  OBVIOUS
<1> HIDE DEF r, l, more
<1>7. CASE \E i \in 1..l :
             /\ slots[i].stack = info.stack
             /\ Len(r) = l
             /\ r[i].stack = info.stack
             /\ r[i].size = slots[i].size + info.size
             /\ \A j \in 1..l : j # i => r[j] = slots[j]
  <2>1. PICK i \in 1..l :
          /\ slots[i].stack = info.stack
          /\ Len(r) = l
          /\ r[i].stack = info.stack
          /\ r[i].size = slots[i].size + info.size
          /\ \A j \in 1..l : j # i => r[j] = slots[j]
    BY <1>7
  <2>2. ASSUME NEW j \in 1..l, r[j].stack = s
        PROVE  low1 <= r[j].size /\ (bounded => r[j].size <= high + more)
    <3>1. CASE j = i
      <4>1. low <= slots[i].size /\ (bounded => slots[i].size <= high)
        BY <1>4, <2>1, <2>2, <3>1
      <4>2. slots[i].size \in Nat /\ r[j].size = slots[i].size + info.size /\ more = info.size
        BY <1>2, <1>6, <2>1, <2>2, <3>1
      <4> QED BY <1>3, <4>1, <4>2
    <3>2. CASE j # i
      <4>1. slots[j].stack = s /\ r[j].size = slots[j].size
        BY <2>1, <2>2, <3>2
      <4>2. more = 0
        BY <1>5, <1>6, <2>1, <3>2, <4>1
      <4>3. low <= slots[j].size /\ (bounded => slots[j].size <= high) /\ slots[j].size \in Nat
        BY <1>2, <1>4, <4>1
      <4> QED BY <1>3, <4>1, <4>2, <4>3
    <3> QED BY <3>1, <3>2
  <2>3. ASSUME \A j \in 1..l : r[j].stack # s PROVE low1 = 0
    <3>1. \A j \in 1..l : slots[j].stack # s
      BY <2>1, <2>3
    <3>2. low = 0 /\ more = 0
      BY <1>4, <1>6, <2>1, <3>1
    <3> QED BY <1>3, <3>2
  <2> QED BY <2>1, <2>2, <2>3 DEF Between
<1>8. CASE /\ \A i \in 1..l : slots[i].stack # info.stack
           /\ Len(r) = l + 1
           /\ r[l + 1].stack = info.stack
           /\ r[l + 1].size = info.size
           /\ \A j \in 1..l : r[j] = slots[j]
  <2>1. l + 1 \in 1..(l + 1) /\ \A j \in 1..l : j \in 1..(l + 1)
    BY <1>1
  <2>2. ASSUME NEW j \in 1..(l + 1), r[j].stack = s
        PROVE  low1 <= r[j].size /\ (bounded => r[j].size <= high + more)
    <3>1. CASE j = l + 1
      <4>1. more = info.size /\ low = 0 /\ r[j].size = info.size
        BY <1>4, <1>6, <1>8, <2>2, <3>1
      <4> QED BY <1>3, <4>1
    <3>2. CASE j # l + 1
      <4>1. j \in 1..l
        BY <1>1, <3>2
      <4>2. slots[j].stack = s /\ r[j].size = slots[j].size /\ more = 0
        BY <1>6, <1>8, <2>2, <4>1
      <4>3. low <= slots[j].size /\ (bounded => slots[j].size <= high) /\ slots[j].size \in Nat
        BY <1>2, <1>4, <4>1, <4>2
      <4> QED BY <1>3, <4>2, <4>3
    <3> QED BY <3>1, <3>2
  <2>3. ASSUME \A j \in 1..(l + 1) : r[j].stack # s PROVE low1 = 0
    <3>1. info.stack # s /\ \A j \in 1..l : slots[j].stack # s
      BY <1>8, <2>1, <2>3
    <3>2. low = 0 /\ more = 0
      BY <1>4, <1>6, <3>1
    <3> QED BY <1>3, <3>2
  <2> QED BY <1>8, <2>2, <2>3 DEF Between
<1> QED BY <1>1, <1>7, <1>8

(* The record that is looked up is added; without it there is no report. *)
LEMMA LookupReport ==
  ASSUME MemLeakAssumption, TypeInv, ReportInv, Lookup
  PROVE  ReportInv'
<1> DEFINE k == report.key
           info == allocs[k]
           zero == report.zero \/ info.stack = 0
           slots == AddTo(report.slots, info)
<1>1. allocs' = allocs /\ report.at = "lookup"
  BY DEF Lookup, mapVars
<1>2. CASE k \notin DOMAIN allocs
  <2>1. report' = NoReport
    BY <1>2 DEF Lookup
  <2> QED BY <2>1 DEF ReportInv, NoReport
<1>3. CASE k \in DOMAIN allocs
  <2>1. report' = [report EXCEPT !.at = "next", !.slots = slots, !.zero = zero]
    BY <1>3 DEF Lookup
  <2>2. zero \in BOOLEAN /\ (~zero => ~report.zero /\ info.stack # 0)
    BY DEF ReportInv
  <2>3. /\ report'.at = "next" /\ report'.key = k /\ report'.slots = slots /\ report'.zero = zero
        /\ report'.steady = report.steady /\ report'.freed = report.freed
    <3> HIDE DEF slots, zero, k, info
    <3>1. report' = [at |-> "next", key |-> report.key, slots |-> slots,
                     zero |-> zero, steady |-> report.steady, freed |-> report.freed]
      BY <2>1 DEF TypeInv, IsReport
    <3> QED BY <3>1 DEF k
  <2>4. info \in Records /\ k \in Nat
    BY <1>3 DEF TypeInv, AllocTypes, IsMap, MemLeakAssumption
  <2>5. DOMAIN allocs \subseteq Nat /\ report.steady \in SUBSET DOMAIN allocs
    BY DEF TypeInv, AllocTypes, IsMap, IsReport, MemLeakAssumption
  <2>6. /\ k \notin Passed(report.steady) /\ k \notin Passed(DOMAIN allocs)
        /\ Passed(report.steady) \in SUBSET DOMAIN allocs
        /\ Passed(DOMAIN allocs) \in SUBSET DOMAIN allocs
        /\ Passed(DOMAIN allocs)' = Passed(DOMAIN allocs) \union {k}
        /\ Passed(report.steady)' \in SUBSET (Passed(report.steady) \union {k})
    BY <1>1, <1>3, <2>3, <2>4, <2>5 DEF Passed
  <2>7. ASSUME ~zero PROVE Apart(slots) /\ \A s \in Stacks \ {0} : Covered(s)'
    <3>1. Apart(report.slots) /\ info.stack # 0 /\ \A s \in Stacks \ {0} : Covered(s)
      BY <1>1, <2>2, <2>7 DEF ReportInv
    <3>2. Apart(slots)
      <4> HIDE DEF info
      <4> QED BY <2>4, <3>1, AddToIs
    <3>3. ASSUME NEW s \in Stacks \ {0} PROVE Covered(s)'
      <4> DEFINE low == SizeOver(Passed(report.steady), s)
                 high == SizeOver(Passed(DOMAIN allocs), s)
                 low1 == SizeOver(Passed(report.steady)', s)
                 most == SizeOver(Passed(report.steady) \union {k}, s)
                 more == IF info.stack = s THEN info.size ELSE 0
      <4>1. Passed(report.steady) \union {k} \in SUBSET DOMAIN allocs
            /\ Passed(report.steady)' \in SUBSET DOMAIN allocs
        BY <1>3, <2>6
      <4>2. low \in Nat /\ high \in Nat /\ low1 \in Nat /\ most \in Nat
        BY <2>6, <4>1, OverAre
      <4>3. most = low + more /\ SizeOver(Passed(DOMAIN allocs) \union {k}, s) = high + more
        BY <1>3, <2>6, OverAdd
      <4>4. low1 <= most
        BY <2>6, <4>1, OverSubset
      <4>5. low' = low1 /\ high' = SizeOver(Passed(DOMAIN allocs) \union {k}, s)
        BY <1>1, <2>6 DEF SizeOver
      <4>6. Between(report.slots, s, low, high, ~report.freed)
        BY <3>1 DEF Covered
      <4>7. Between(slots, s, low1, high + more, ~report.freed)
        <5> HIDE DEF low, high, low1, most, info
        <5> QED BY <2>4, <3>1, <4>2, <4>3, <4>4, <4>6, AddToBetween
      <4>8. Between(report'.slots, s, low', high', ~report'.freed)
        <5> HIDE DEF low, high, low1, most, more, slots
        <5> QED BY <2>3, <4>3, <4>5, <4>7
      <4> QED BY <4>8 DEF Covered
    <3> QED BY <3>2, <3>3
  <2>8. Apart(report.slots)' <=> Apart(slots)
    BY <2>3 DEF Apart
  <2>9. report.freed \in BOOLEAN
    BY DEF ReportInv
  <2> HIDE DEF zero, slots
  <2> QED BY <1>1, <1>3, <2>2, <2>3, <2>7, <2>8, <2>9 DEF ReportInv
<1> QED BY <1>2, <1>3

(* Every step keeps the report right. *)
LEMMA NextReport ==
  ASSUME MemLeakAssumption, TypeInv, TypeInv', ReportInv, [Next]_vars
  PROVE  ReportInv'
<1>1. ASSUME report' = report, allocs' = allocs PROVE ReportInv'
  BY <1>1 DEF ReportInv, Covered, Passed, SizeOver, Apart
<1>2. ASSUME NEW t \in Threads, Thread(t) PROVE ReportInv'
  BY <1>1, <1>2, HeapReport, DisturbedReport
<1>3. CASE Attach \/ UNCHANGED vars
  BY <1>1, <1>3 DEF Attach, vars, mapVars
<1> QED BY <1>2, <1>3, ReportBegins, NextKeyReport, LookupReport DEF Next

(* The lesser of two numbers. *)
LEMMA Lesser == \A i, j \in Nat : Min({i, j}) = IF i <= j THEN i ELSE j
<1> TAKE i, j \in Nat
<1>1. Min({i, j}) \in {i, j} /\ \A y \in {i, j} : Min({i, j}) <= y
  BY Least
<1> QED BY <1>1

(* A slot that is not among the first is behind env.top others. *)
LEMMA FirstsAre ==
  ASSUME MemLeakAssumption, NEW slots, Apart(slots), NEW F \in Firsts(slots),
         NEW k \in DOMAIN slots, k \notin F
  PROVE  Cardinality(F) = Top /\ \A i \in F : slots[k].size <= slots[i].size
<1> DEFINE D == DOMAIN slots
           withId == {i \in D : slots[i].stack # 0}
<1>1. D = 1..Len(slots) /\ Len(slots) \in Nat
  BY DEF Apart
<1>2. withId = D
  BY <1>1 DEF Apart
<1>3. F \in SUBSET D /\ Cardinality(F) = Min({Top, Cardinality(withId)})
  BY DEF Firsts
<1>4. IsFiniteSet(D) /\ Cardinality(D) \in Nat
  <2> HIDE DEF D
  <2> QED BY <1>1, FS_Interval, FS_CardinalityType
<1>5. Cardinality(F) # Cardinality(D)
  <2> HIDE DEF D
  <2> QED BY <1>3, <1>4, FS_Subset DEF D
<1>6. Cardinality(F) = Top
  <2>1. Cardinality(F) = IF Top <= Cardinality(D) THEN Top ELSE Cardinality(D)
    <3> HIDE DEF D, withId
    <3> QED BY <1>2, <1>3, <1>4, Lesser DEF MemLeakAssumption
  <2> QED BY <1>5, <2>1
<1> QED BY <1>6 DEF Firsts

(* A report at its end has each stack once, with no less than what was there
   throughout and, if nothing was freed, no more than what is there; and what
   it does not go through is behind what it does.                            *)
LEMMA ReportIs == MemLeakAssumption /\ TypeInv /\ ReportInv => ReportCovers
<1> SUFFICES ASSUME MemLeakAssumption, TypeInv, ReportInv,
                    report.at = "done", ~report.zero, NEW s \in Stacks \ {0}
             PROVE  LET slots == report.slots
                        mine == {i \in DOMAIN slots : slots[i].stack = s}
                        size == SumFunctionOnSet([i \in DOMAIN slots |-> slots[i].size], mine)
                        steady == SizeOver(report.steady, s)
                    IN  /\ Cardinality(mine) <= 1
                        /\ steady <= size
                        /\ ~report.freed => size <= SizeOver(DOMAIN allocs, s)
                        /\ \A F \in Firsts(slots) : steady > 0 /\ mine \intersect F = {} =>
                             Cardinality(F) = Top /\ \A i \in F : steady <= slots[i].size
  BY DEF ReportCovers
<1> DEFINE slots == report.slots
           f == [i \in DOMAIN slots |-> slots[i].size]
           mine == {i \in DOMAIN slots : slots[i].stack = s}
           high == SizeOver(Passed(DOMAIN allocs), s)
<1>1. Apart(slots) /\ Covered(s) /\ \A a \in report.steady : a <= report.key
  BY DEF ReportInv
<1>2. /\ DOMAIN slots = 1..Len(slots)
      /\ \A i \in 1..Len(slots) : slots[i].stack # 0 /\ slots[i].size \in Nat
      /\ \A i, j \in 1..Len(slots) : slots[i].stack = slots[j].stack => i = j
  <2>1. slots \in Seq(SlotType)
    BY <1>1 DEF Apart
  <2>2. DOMAIN slots = 1..Len(slots) /\ \A i \in 1..Len(slots) : slots[i] \in SlotType
    BY <2>1
  <2>3. \A i \in 1..Len(slots) : slots[i].size \in Nat
    BY <2>2 DEF SlotType
  <2> QED BY <1>1, <2>2, <2>3 DEF Apart
<1>3. Passed(report.steady) = report.steady /\ Passed(DOMAIN allocs) \in SUBSET DOMAIN allocs
  <2>1. report.steady \subseteq Nat /\ report.key \in Nat
    BY DEF TypeInv, IsReport, AllocTypes, IsMap, MemLeakAssumption, Null
  <2> QED BY <1>1, <2>1 DEF Passed
<1>4. /\ \A i \in 1..Len(slots) :
           slots[i].stack = s => /\ SizeOver(report.steady, s) <= slots[i].size
                                 /\ ~report.freed => slots[i].size <= high
      /\ (\A i \in 1..Len(slots) : slots[i].stack # s) => SizeOver(report.steady, s) = 0
  BY <1>1, <1>3 DEF Covered, Between
<1>5. high \in Nat /\ SizeOver(DOMAIN allocs, s) \in Nat /\ high <= SizeOver(DOMAIN allocs, s)
  BY <1>3, OverAre, OverSubset
<1>6. mine = {i \in 1..Len(slots) : slots[i].stack = s}
  BY <1>2
<1>10. ASSUME NEW F \in Firsts(slots), SizeOver(report.steady, s) > 0, mine \intersect F = {}
       PROVE  Cardinality(F) = Top /\ \A i \in F : SizeOver(report.steady, s) <= slots[i].size
  <2>1. PICK k \in 1..Len(slots) : slots[k].stack = s
    BY <1>4, <1>10
  <2>2. k \in DOMAIN slots /\ k \notin F /\ SizeOver(report.steady, s) <= slots[k].size
    BY <1>2, <1>4, <1>6, <1>10, <2>1
  <2>3. Cardinality(F) = Top /\ \A i \in F : slots[k].size <= slots[i].size
    BY <1>1, <2>2, FirstsAre
  <2>4. F \subseteq 1..Len(slots) /\ \A i \in F : slots[i].size \in Nat
    BY <1>2 DEF Firsts
  <2>5. SizeOver(report.steady, s) \in Nat
    BY OverAre DEF TypeInv, IsReport
  <2> HIDE DEF mine, slots
  <2> QED BY <1>2, <2>1, <2>2, <2>3, <2>4, <2>5
<1> SUFFICES /\ Cardinality(mine) <= 1
             /\ SizeOver(report.steady, s) <= SumFunctionOnSet(f, mine)
             /\ ~report.freed => SumFunctionOnSet(f, mine) <= SizeOver(DOMAIN allocs, s)
  BY <1>10
<1>7. \A i \in 1..Len(slots) : f[i] = slots[i].size
  BY <1>2
<1>8. CASE \A i \in 1..Len(slots) : slots[i].stack # s
  <2>1. mine = {}
    BY <1>6, <1>8
  <2> HIDE DEF mine, f, high
  <2>2. Cardinality(mine) = 0 /\ SumFunctionOnSet(f, mine) = 0
    BY <2>1, FS_EmptySet, SumEmpty
  <2> QED BY <1>4, <1>5, <1>8, <2>2
<1>9. CASE \E i \in 1..Len(slots) : slots[i].stack = s
  <2>1. PICK i \in 1..Len(slots) : slots[i].stack = s
    BY <1>9
  <2>2. mine = {i}
    BY <1>2, <1>6, <2>1
  <2>3. f[i] = slots[i].size /\ slots[i].size \in Nat
    BY <1>2, <1>7
  <2> HIDE DEF mine, f, high
  <2>4. Cardinality(mine) = 1
    BY <2>2, FS_Singleton
  <2>5. SumFunctionOnSet(f, {} \union {i}) = f[i] + SumFunctionOnSet(f, {})
    BY <2>3, FS_EmptySet, SumWith
  <2>6. SumFunctionOnSet(f, mine) = slots[i].size
    <3>1. {} \union {i} = {i}
      OBVIOUS
    <3> QED BY <2>2, <2>3, <2>5, <3>1, SumEmpty
  <2> QED BY <1>4, <1>5, <2>1, <2>3, <2>4, <2>6
<1> QED BY <1>8, <1>9

(* What a report gathers misses no record that was there from its beginning
   to its end and takes none twice, however the threads allocate and free
   while it walks through the map, whichever keys the walk loses, and env.top
   cuts off no stack that has more than one it lets through: as long as no
   stack has the id 0, which marks a free slot.                              *)
THEOREM ReportsCover == Spec => []ReportCovers
<1> DEFINE IInv == TypeInv /\ ReportInv
<1>1. Init => IInv
  BY InitTypes, InitReport, MemLeakAssumption
<1>2. IInv /\ [Next]_vars => IInv'
  BY NextTypes, NextReport, MemLeakAssumption
<1>3. IInv => ReportCovers
  BY ReportIs, MemLeakAssumption
<1> QED BY <1>1, <1>2, <1>3, PTL DEF Spec
=============================================================================
