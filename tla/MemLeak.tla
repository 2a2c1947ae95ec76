------------------------------- MODULE MemLeak -------------------------------
(***************************************************************************)
(* The memory leak tracer on a user process (bpftools/memleak): the probes *)
(* around the allocator's functions, which keep in BPF maps what is        *)
(* allocated and statistics per call stack, and the report that reads the  *)
(* map of allocations. sample_rate is 1, no allocation is too young to be  *)
(* reported; the kernel's tracepoints, which use the same maps, are left   *)
(* out.                                                                    *)
(***************************************************************************)
EXTENDS Integers, Sequences, FiniteSetsExt

CONSTANTS
  Threads,
  Addrs,          (* where the allocator can put something                  *)
  Sizes,
  Stacks,         (* stack ids; NoStack: bpf_get_stackid failed             *)
  MinSize,        (* min_size                                               *)
  MaxEntries,     (* MAX_HASH_ENTRY_NUM                                     *)
  Top,            (* env.top                                                *)
  MaxCalls        (* bound on the calls of the allocator                    *)

Null == 0
Unread == -1    (* bpf_probe_read_user failed                             *)
NoStack == -1

ASSUME MemLeakAssumption ==
  /\ Addrs \subseteq Nat \ {Null}
  /\ Sizes \subseteq Nat \ {0}
  /\ Stacks \subseteq Nat
  /\ {MinSize, MaxEntries, Top, MaxCalls} \subseteq Nat

VARIABLES
  probes,         (* how many of the probes are attached                    *)
  sizes,          (* thread |-> size, from the entry of a call to its exit  *)
  allocs,         (* address |-> [size, stack]                              *)
  combined,       (* combined_allocs: stack |-> [size, n]                   *)
  heap,           (* the allocator itself: address |-> [size, stack]        *)
  call,           (* the call each thread is in                             *)
  calls,          (* how many calls there were                              *)
  report,         (* the report under way                                   *)
  doubtful,       (* ghost: addresses the probes cannot be right about      *)
  inexact         (* ghost: stacks whose statistics cannot be exact         *)

mapVars == <<sizes, allocs, combined>>
ghostVars == <<doubtful, inexact>>
vars == <<probes, mapVars, heap, call, calls, report, ghostVars>>

Put(m, k, v) == [j \in DOMAIN m \union {k} |-> IF j = k THEN v ELSE m[j]]
Without(m, k) == [j \in DOMAIN m \ {k} |-> m[j]]
Nothing == [k \in {} |-> 0]

(***************************************************************************)
(* Attaching: a function's uprobe, its uretprobe, the next function's; the *)
(* probe of free is the last. malloc stands for calloc, memalign, valloc,  *)
(* pvalloc and aligned_alloc, too.                                         *)
(***************************************************************************)
Order == <<"malloc", "malloc_ret", "realloc", "realloc_ret",
           "posix_memalign", "posix_memalign_ret", "free">>
Returns == [malloc |-> "malloc_ret", realloc |-> "realloc_ret",
            posix_memalign |-> "posix_memalign_ret", free |-> "none"]
Attached == {Order[i] : i \in 1..probes}

Attach ==
  /\ probes < Len(Order)
  /\ probes' = probes + 1
  /\ UNCHANGED <<mapVars, heap, call, calls, report, ghostVars>>

(***************************************************************************)
(* A call: [at, fn, ptr, size, ...]. A return probe fires if it was        *)
(* there (armed) when the function was entered; "info" is the record the   *)
(* statistics are told of, "seen" what was read of them.                   *)
(***************************************************************************)
Idle == [at |-> "idle", ptr |-> Null, ret |-> Null, info |-> Null, seen |-> Null]
NewCall(fn, ptr, size) ==
  [at |-> "run", fn |-> fn, ptr |-> ptr, size |-> size,
   traced |-> fn \in Attached, armed |-> Returns[fn] \in Attached,
   info |-> Null, seen |-> Null, ret |-> Null]

Goes(t, c) == call' = [call EXCEPT ![t] = c]
Busy(a) == \E u \in Threads : call[u].ptr = a

(* An address belongs to the program from the return to the next free. *)
Owned(a) == a \in DOMAIN heap /\ \A u \in Threads : a \notin {call[u].ptr, call[u].ret}

(* Mutant: bpf_get_current_pid_tgid() >> 32, one size for all threads. *)
ByProcess(t) == CHOOSE u \in Threads : TRUE

(* sizes is by thread: bpf_get_current_pid_tgid(). *)
Key(t) == t

(* gen_alloc_enter *)
Note(t, c) ==
  IF c.traced /\ c.fn # "free" /\ c.size >= MinSize
  THEN Put(sizes, Key(t), c.size) ELSE sizes

(* What removing or replacing the record of "a" means for the report. *)
Disturbed(a) ==
  IF report.at = "none" THEN report
  ELSE [report EXCEPT !.steady = @ \ {a}, !.freed = @ \/ a \in DOMAIN allocs]

(* The uprobes. gen_free_enter takes the record away, then corrects the
   statistics; in realloc gen_alloc_enter follows. Only the statistics are
   shared by threads, so that the size is noted here.                        *)
Enter(t, c) ==
  LET known == c.ptr \in DOMAIN allocs
  IN  /\ call[t] = Idle /\ calls < MaxCalls
      /\ calls' = calls + 1
      /\ sizes' = Note(t, c)
      /\ IF c.traced /\ known
         THEN /\ allocs' = Without(allocs, c.ptr)
              /\ Goes(t, [c EXCEPT !.at = "del_read", !.info = allocs[c.ptr]])
              /\ report' = Disturbed(c.ptr)
         ELSE Goes(t, c) /\ UNCHANGED <<allocs, report>>
      /\ doubtful' = IF c.traced THEN doubtful \ {c.ptr}
                     ELSE IF known THEN doubtful \union {c.ptr} ELSE doubtful
      /\ UNCHANGED <<probes, combined, heap, inexact>>

Alloc(t) ==
  \E fn \in {"malloc", "posix_memalign"}, n \in Sizes : Enter(t, NewCall(fn, Null, n))

Realloc(t) ==
  \E a \in Addrs, n \in Sizes : Owned(a) /\ Enter(t, NewCall("realloc", a, n))

Free(t) ==
  \E a \in Addrs : Owned(a) /\ Enter(t, NewCall("free", a, 0))

(***************************************************************************)
(* The function runs and its uretprobe fires: nobody else knows the        *)
(* address before. posix_memalign's probe reads the caller's variable,     *)
(* which a call that failed has not set; the read itself may fail.         *)
(***************************************************************************)
Results(c) ==
  IF c.fn = "free" THEN {Null}
  ELSE (Addrs \ DOMAIN heap) \union {Null} \union (IF c.fn = "realloc" THEN {c.ptr} ELSE {})

Told(c, res) ==
  IF c.fn # "posix_memalign" THEN {res}
  ELSE {Unread} \union (IF res = Null THEN Addrs \union {Null} ELSE {res})

(* bpf_get_stackid; without a probe nobody asks. *)
StackIds(c) == IF c.armed THEN Stacks \union {NoStack} ELSE {NoStack}

HeapAfter(c, res, s) ==
  LET left == IF c.fn = "free" \/ res # Null THEN Without(heap, c.ptr) ELSE heap
  IN  IF res = Null THEN left ELSE Put(left, res, [size |-> c.size, stack |-> s])

Room(a) == a \in DOMAIN allocs \/ Cardinality(DOMAIN allocs) < MaxEntries

(* gen_alloc_exit: no size noted (or no probe, or nothing it could read, and
   then the size stays), no memory, no stack, or a record and the statistics. *)
Exit(t, c, s, res, a) ==
  LET noted == c.armed /\ a # Unread /\ Key(t) \in DOMAIN sizes
      put == noted /\ a # Null /\ s # NoStack
      info == [size |-> sizes[Key(t)], stack |-> s]
  IN  /\ sizes' = IF noted THEN Without(sizes, Key(t)) ELSE sizes
      /\ IF put
         THEN /\ Goes(t, [Idle EXCEPT !.at = "add_read", !.ret = res, !.info = info])
              /\ allocs' = IF Room(a) THEN Put(allocs, a, info) ELSE allocs
              /\ report' = IF Room(a) THEN Disturbed(a) ELSE report
              /\ inexact' = inexact
                   \union (IF a \in DOMAIN allocs THEN {allocs[a].stack} ELSE {})
                   \union (IF Room(a) /\ a = res THEN {} ELSE {s})
         ELSE Goes(t, Idle) /\ UNCHANGED <<allocs, report, inexact>>

(* The ghost: an allocation the probes are to miss, a realloc that failed
   after its entry had taken the record away, a variable stale or unread.    *)
Doubts(c, s, res, a) ==
  LET fine == c.armed /\ a # Unread /\ c.size >= MinSize /\ s # NoStack /\ Room(res)
  IN  IF res # Null THEN IF fine THEN doubtful \ {res} ELSE doubtful \union {res}
      ELSE IF c.fn = "realloc" THEN doubtful \union {c.ptr}
      ELSE IF a \in Addrs /\ c.armed THEN doubtful \union {a}
      ELSE doubtful

Return(t) ==
  LET c == call[t]
  IN  /\ c.at = "run"
      /\ \E s \in StackIds(c), res \in Results(c) : \E a \in Told(c, res) :
           /\ heap' = HeapAfter(c, res, s)
           /\ Exit(t, c, s, res, a)
           /\ doubtful' = Doubts(c, s, res, a)
      /\ UNCHANGED <<probes, combined, calls>>

(***************************************************************************)
(* update_statistics_add and _del: a lookup, then an update with the copy. *)
(***************************************************************************)
None == [size |-> 0, n |-> 0]
Stat(s) == IF s \in DOMAIN combined THEN combined[s] ELSE None
Counting(t) == call[t].at \in {"del_read", "del_write", "add_read", "add_write"}
Writing(t) == call[t].at \in {"del_write", "add_write"}

ReadStat(t) ==
  LET c == call[t]
      next == [del_read |-> "del_write", add_read |-> "add_write"]
  IN  /\ c.at \in DOMAIN next
      /\ Goes(t, [c EXCEPT !.at = next[c.at], !.seen = Stat(c.info.stack)])
      /\ inexact' = IF \E u \in Threads : Writing(u) /\ call[u].info.stack = c.info.stack
                    THEN inexact \union {c.info.stack} ELSE inexact
      /\ UNCHANGED <<probes, mapVars, heap, calls, report, doubtful>>

Added(st, n) == [size |-> st.size + n, n |-> st.n + 1]

(* Mutant: the number of allocations is never reduced. *)
DeletedSizeOnly(st, n) == [size |-> Max({st.size - n, 0}), n |-> st.n]

(* Mutant: nothing stops at 0. *)
DeletedPastZero(st, n) == [size |-> st.size - n, n |-> st.n - 1]

Deleted(st, n) == [size |-> Max({st.size - n, 0}), n |-> Max({st.n - 1, 0})]

(* At the exit of an allocation this is the end; after gen_free_enter the
   function itself comes next.                                               *)
WriteStat(t) ==
  LET c == call[t]
  IN  /\ Writing(t)
      /\ \/ /\ c.at = "add_write"
            /\ combined' = Put(combined, c.info.stack, Added(c.seen, c.info.size))
            /\ Goes(t, Idle)
         \/ /\ c.at = "del_write"
            /\ combined' = Put(combined, c.info.stack, Deleted(c.seen, c.info.size))
            /\ Goes(t, [c EXCEPT !.at = "run", !.info = Null, !.seen = Null])
      /\ UNCHANGED <<probes, sizes, allocs, heap, calls, report, ghostVars>>

(***************************************************************************)
(* The report: print_outstanding_allocations walks the map of allocations  *)
(* by bpf_map_get_next_key, which begins again when the key it is given is *)
(* gone, and adds each record to its stack's slot. A key that is gone when *)
(* it is looked up ends the report with nothing printed. Addresses stand   *)
(* for the order of the map's buckets.                                     *)
(***************************************************************************)
NoReport == [at |-> "none", key |-> Null, slots |-> <<>>, zero |-> FALSE,
             steady |-> {}, freed |-> FALSE]

Report ==
  /\ report.at \in {"none", "done"} /\ probes = Len(Order)
  /\ report' = [NoReport EXCEPT !.at = "next", !.steady = DOMAIN allocs]
  /\ UNCHANGED <<probes, mapVars, heap, call, calls, ghostVars>>

NextKey ==
  LET keys == DOMAIN allocs
      later == IF report.key \in keys THEN {a \in keys : a > report.key} ELSE keys
  IN  /\ report.at = "next"
      /\ report' = IF later = {} THEN [report EXCEPT !.at = "done"]
                   ELSE [report EXCEPT !.at = "lookup", !.key = Min(later)]
      /\ UNCHANGED <<probes, mapVars, heap, call, calls, ghostVars>>

(* Mutant: a slot is taken for each record. *)
SlotAlways(slots, s) == Len(slots) + 1

(* The first slot that has the id or that is free: whose id is 0. *)
Slot(slots, s) == Min({i \in 1..Len(slots) : slots[i].stack \in {s, 0}} \union {Len(slots) + 1})

AddTo(slots, info) ==
  LET i == Slot(slots, info.stack)
      old == IF i \in DOMAIN slots THEN slots[i] ELSE None
      new == [stack |-> info.stack, size |-> old.size + info.size, n |-> old.n + 1]
  IN  [j \in 1..Max({i, Len(slots)}) |-> IF j = i THEN new ELSE slots[j]]

Lookup ==
  /\ report.at = "lookup"
  /\ report' = IF report.key \notin DOMAIN allocs THEN NoReport
               ELSE [report EXCEPT !.at = "next",
                                   !.slots = AddTo(@, allocs[report.key]),
                                   !.zero = @ \/ allocs[report.key].stack = 0]
  /\ UNCHANGED <<probes, mapVars, heap, call, calls, ghostVars>>

(* What quick_sort may put first, as many as max_prints leaves: for each of
   these the code prints its slot or says that the stack is missed.          *)
Firsts(slots) ==
  LET cnt == Cardinality({i \in DOMAIN slots : slots[i].stack # 0})
  IN  {F \in SUBSET DOMAIN slots :
         /\ Cardinality(F) = Min({Top, cnt})
         /\ \A i \in F, j \in DOMAIN slots \ F : slots[j].size <= slots[i].size}

-----------------------------------------------------------------------------
Init ==
  /\ probes = 0 /\ sizes = Nothing /\ allocs = Nothing /\ combined = Nothing
  /\ heap = Nothing /\ call = [t \in Threads |-> Idle] /\ calls = 0
  /\ report = NoReport /\ doubtful = {} /\ inexact = {}

Thread(t) == Alloc(t) \/ Realloc(t) \/ Free(t) \/ Return(t) \/ ReadStat(t) \/ WriteStat(t)

Next ==
  \/ Attach
  \/ \E t \in Threads : Thread(t)
  \/ Report \/ NextKey \/ Lookup

Spec == Init /\ [][Next]_vars

-----------------------------------------------------------------------------
Records == [size : Sizes, stack : Stacks]
Maps(keys, values) == UNION {[K -> values] : K \in SUBSET keys}

(* The state has its shape, and the maps their bounds. *)
TypeOK ==
  /\ probes \in 0..Len(Order)
  /\ sizes \in Maps(Threads, Sizes)
  /\ allocs \in Maps(Addrs, Records) /\ Cardinality(DOMAIN allocs) <= MaxEntries
  /\ DOMAIN combined \subseteq Stacks
  /\ \A s \in DOMAIN combined : combined[s].size \in Nat /\ combined[s].n \in Nat
  /\ DOMAIN heap \subseteq Addrs
  /\ \A t \in Threads : {call[t].ptr, call[t].ret} \subseteq Addrs \union {Null}
  /\ report.key \in Addrs \union {Null} /\ report.steady \subseteq DOMAIN allocs
  /\ doubtful \subseteq Addrs /\ inexact \subseteq Stacks

(* Of every address but the doubtful ones the map says what the allocator  *)
(* holds there, its size and the stack that asked for it; an address that  *)
(* is being freed or moved has no record any more. So a thread's size never *)
(* ends up with another's allocation, and memory that was freed is never   *)
(* reported as leaked.                                                     *)
RecordsAreTrue ==
  \A a \in Addrs \ doubtful :
    IF a \in DOMAIN heap /\ ~Busy(a)
    THEN a \in DOMAIN allocs /\ allocs[a] = heap[a]
    ELSE a \notin DOMAIN allocs

SizeOver(A, s) == SumFunctionOnSet([a \in DOMAIN allocs |-> allocs[a].size],
                                   {a \in A : allocs[a].stack = s})

(* When no thread is at the statistics, those of a stack are what the map  *)
(* of allocations adds up to, unless two threads were at them at once, a   *)
(* record was overwritten or the map was full.                             *)
StatsExact ==
  (\A t \in Threads : ~Counting(t)) =>
    \A s \in Stacks \ inexact :
      /\ Stat(s).size = SizeOver(DOMAIN allocs, s)
      /\ Stat(s).n = Cardinality({a \in DOMAIN allocs : allocs[a].stack = s})

(* What a report has gathered at its end, whatever was allocated and freed *)
(* meanwhile: a stack has one slot, with at least the memory that was in   *)
(* the map from its beginning to its end and, if nothing was freed, no more *)
(* than is there now; and a stack with such memory is not among the stacks *)
(* the report goes through only if they are env.top others that have as    *)
(* much. It is so as long as no stack has the id 0, which marks a free     *)
(* slot (memleak_tracker.h, print_outstanding_allocations).                *)
ReportCovers ==
  report.at = "done" /\ ~report.zero =>
    \A s \in Stacks \ {0} :
      LET slots == report.slots
          mine == {i \in DOMAIN slots : slots[i].stack = s}
          size == SumFunctionOnSet([i \in DOMAIN slots |-> slots[i].size], mine)
          steady == SizeOver(report.steady, s)
      IN  /\ Cardinality(mine) <= 1
          /\ steady <= size
          /\ ~report.freed => size <= SizeOver(DOMAIN allocs, s)
          /\ \A F \in Firsts(slots) : steady > 0 /\ mine \intersect F = {} =>
               Cardinality(F) = Top /\ \A i \in F : steady <= slots[i].size
=============================================================================
