-------------------------- MODULE XdpControl_proofs --------------------------
(***************************************************************************)
(* Theorems about the XDP firewall program and its controller, for any     *)
(* sources, packets, limits and edits. What holds on several CPUs is       *)
(* stated for any number of them; what the program promises on one CPU     *)
(* only, its lookups and updates being separate steps, is stated for one.  *)
(***************************************************************************)
EXTENDS XdpControl, FiniteSetTheorems, SequenceTheorems, TLAPS

(***************************************************************************)
(* What the theorems on one CPU assume.                                    *)
(***************************************************************************)
OneCPU == \A c, d \in Cpus : c = d

(* A limit of no packets at all does not hold: when a block ends, the packet
   that ends it passes.                                                      *)
SomePps == Config["pps"] # 0

(***************************************************************************)
(* The inductive invariants.                                               *)
(***************************************************************************)
Counter == [pps : Nat \ {0}, bps : Nat, next_update : Nat \ {0}]
PortCounter == [n : Nat \ {0}, next_update : Nat \ {0}]

(* m maps some of the keys to values. *)
IsMap(m, keys, values) == DOMAIN m \subseteq keys /\ \A k \in DOMAIN m : m[k] \in values

AtPort == {"lookup_port", "count_port", "limit_port"}
Admitted == {"header"} \union AtPort
Counting == {"limit", "block"} \union Admitted
Seeing == {"blocked", "reset", "count"}
IpSteps == Seeing \union Counting
ArpSteps == {"arp", "admit"}

(* What a CPU has in hand: nothing, an ARP packet, an IPv4 packet. *)
IdleOK(c) == cpu[c] = Idle
ArpOK(c) ==
  /\ cpu[c].at \in ArpSteps /\ DOMAIN cpu[c] = {"at", "pkt"}
  /\ Pkt(c) \in ArpPackets
IpOK(c) ==
  /\ cpu[c].at \in IpSteps /\ DOMAIN cpu[c] = {"at", "pkt", "now", "seen"}
  /\ Pkt(c) \in Packets /\ cpu[c].now \in 0..now
  /\ cpu[c].at \in Seeing => IsMap(cpu[c].seen, {Src(c)}, Counter)
  /\ cpu[c].at \in AtPort => Pkt(c).kind \in Limited
  /\ At(c, "count_port") => IsMap(cpu[c].seen, {Port(c)}, PortCounter)

HandOK(c) == IdleOK(c) \/ ArpOK(c) \/ IpOK(c)

TypeInv ==
  /\ ControlTypeOK
  /\ DOMAIN cpu = Cpus /\ \A c \in Cpus : HandOK(c)
  /\ IsMap(ip_counter, Sources, Counter)
  /\ IsMap(port_counter, Ports, PortCounter)
  /\ passed \in [Sources -> Seq(Nat)]
  /\ blocked \in [Sources -> [by : {"nobody", "packet"}, at : Nat]]

(* A ban is on the list unless another entry has put it out. *)
BansInv == banned \subseteq ip_blacklist_p \union displaced

(* The table has what was entered, and the flag is on while it always was. *)
ArpInv ==
  /\ \A s \in DOMAIN arp_table : [src |-> s, mac |-> arp_table[s]] \in entered
  /\ loosest["arp_flag"] # 0 => "arp_flag" \in DOMAIN config /\ config["arp_flag"] # 0

(* No limit is looser than the loosest, no block shorter than the shortest. *)
LimitsInv ==
  /\ LimitOf("pps") <= loosest["pps"]
  /\ "unblock_time" \in DOMAIN config => loosest["unblock_time"] <= config["unblock_time"]
  /\ Config["pps"] <= loosest["pps"]

(* The block of a source for its packets is over, if there was one. *)
Over(s) == blocked[s].by = "packet" => now >= blocked[s].at + loosest["unblock_time"] * Second

(* On one CPU a source is on the temporary list until its block is over; the
   window its entry is in had not ended when the block began.                *)
BlockedOK(s) ==
  /\ s \in ip_blacklist_t \/ Over(s)
  /\ blocked[s].by = "packet" =>
       /\ blocked[s].at <= now
       /\ s \in DOMAIN ip_counter /\ ip_counter[s].next_update >= blocked[s].at
BlockedInv == \A s \in Sources : BlockedOK(s)

(* What the CPU saw is still so, and it only goes on where the block is over. *)
GoesOnOK(c) ==
  /\ cpu[c].at \in Seeing =>
       /\ DOMAIN cpu[c].seen = DOMAIN ip_counter \intersect {Src(c)}
       /\ Found(c) => cpu[c].seen[Src(c)] = ip_counter[Src(c)]
  /\ At(c, "reset") => Found(c) /\ cpu[c].now >= ip_counter[Src(c)].next_update
  /\ ~At(c, "blocked") => Over(Src(c))
  /\ cpu[c].at \in Counting =>
       Src(c) \in DOMAIN ip_counter /\ ip_counter[Src(c)].next_update >= cpu[c].now
  /\ blocked[Src(c)].by = "packet" => blocked[Src(c)].at <= cpu[c].now
HandInv == \A c \in Cpus : cpu[c].at \in IpSteps => GoesOnOK(c)

(* The times are those of the last second, in order, and before the CPU got
   what it has in hand.                                                      *)
InOrder(q) == \A i, j \in 1..Len(q) : i <= j => q[i] <= q[j]
TimesOK(s) ==
  /\ InOrder(passed[s])
  /\ \A i \in 1..Len(passed[s]) : passed[s][i] <= now /\ now < passed[s][i] + Second
EarlierOK(c) == \A i \in 1..Len(passed[Src(c)]) : passed[Src(c)][i] <= cpu[c].now
TimesInv ==
  /\ \A s \in Sources : TimesOK(s)
  /\ \A c \in Cpus : cpu[c].at \in IpSteps => EarlierOK(c)

(* The first k packets passed before the window of the source began, no more
   than a window allows; the others are counted in it.                       *)
Split(s, k) ==
  /\ k <= loosest["pps"] /\ Len(passed[s]) - k <= loosest["pps"]
  /\ s \in DOMAIN ip_counter =>
       /\ \A i \in 1..k : passed[s][i] + Second <= ip_counter[s].next_update
       /\ Len(passed[s]) - k <= ip_counter[s].pps
       /\ \A c \in Cpus : cpu[c].at \in Counting /\ Src(c) = s =>
            Len(passed[s]) - k < ip_counter[s].pps
WindowOK(s) ==
  /\ s \notin DOMAIN ip_counter => Len(passed[s]) = 0
  /\ \E k \in 0..Len(passed[s]) : Split(s, k)
WindowInv ==
  /\ \A s \in Sources : WindowOK(s)
  /\ \A c \in Cpus : cpu[c].at \in Admitted => ip_counter[Src(c)].pps <= loosest["pps"]

(* The same for the packets counted for a port. *)
PortLimitsInv == \A k \in Limited : LimitOf(k) <= loosest[k]

PortTimesOK(p) ==
  /\ InOrder(opened[p])
  /\ \A i \in 1..Len(opened[p]) : opened[p][i] <= now /\ now < opened[p][i] + Second
PortsEarlierOK(c) ==
  \A p \in Ports : \A i \in 1..Len(opened[p]) : opened[p][i] <= cpu[c].now
PortTimesInv ==
  /\ opened \in [Ports -> Seq(Nat)]
  /\ \A p \in Ports : PortTimesOK(p)
  /\ \A c \in Cpus : cpu[c].at \in IpSteps => PortsEarlierOK(c)

(* What the CPU saw of its port is still so, and its packet is counted. *)
PortSeenOK(c) ==
  /\ At(c, "count_port") =>
       /\ DOMAIN cpu[c].seen = DOMAIN port_counter \intersect {Port(c)}
       /\ Found(c) => cpu[c].seen[Port(c)] = port_counter[Port(c)]
  /\ At(c, "limit_port") => Port(c) \in DOMAIN port_counter
PortSplit(p, k) ==
  /\ k <= loosest[p[1]] /\ Len(opened[p]) - k <= loosest[p[1]]
  /\ p \in DOMAIN port_counter =>
       /\ \A i \in 1..k : opened[p][i] + Second <= port_counter[p].next_update
       /\ Len(opened[p]) - k <= port_counter[p].n
       /\ \A c \in Cpus : At(c, "limit_port") /\ Port(c) = p =>
            Len(opened[p]) - k < port_counter[p].n
PortWindowOK(p) ==
  /\ p \notin DOMAIN port_counter => Len(opened[p]) = 0
  /\ \E k \in 0..Len(opened[p]) : PortSplit(p, k)
PortWindowInv ==
  /\ \A p \in Ports : PortWindowOK(p)
  /\ \A c \in Cpus : PortSeenOK(c)

-----------------------------------------------------------------------------
(***************************************************************************)
(* The maps and the hands.                                                 *)
(***************************************************************************)

(* An entry is put where its key says, and no other entry changes. *)
LEMMA PutEntry ==
  ASSUME NEW m, NEW k, NEW v
  PROVE  /\ DOMAIN Put(m, k, v) = DOMAIN m \union {k}
         /\ Put(m, k, v)[k] = v
         /\ \A j \in DOMAIN m : j # k => Put(m, k, v)[j] = m[j]
BY DEF Put

(* A map stays a map when a value is put under a key. *)
LEMMA PutMap ==
  ASSUME NEW m, NEW keys, NEW values, NEW k \in keys, NEW v \in values,
         IsMap(m, keys, values)
  PROVE  IsMap(Put(m, k, v), keys, values)
BY PutEntry DEF IsMap, Put

(* What is looked up is the entry of the key, if there is one. *)
LEMMA LookupMap ==
  ASSUME NEW m, NEW keys, NEW values, NEW k \in keys, IsMap(m, keys, values)
  PROVE  /\ IsMap(Lookup(m, k), {k}, values)
         /\ DOMAIN Lookup(m, k) = DOMAIN m \intersect {k}
         /\ k \in DOMAIN m => Lookup(m, k)[k] = m[k]
BY DEF IsMap, Lookup

(* The source of a packet is a source, its port a port if it is limited. *)
LEMMA PacketOK ==
  ASSUME NEW c \in Cpus, IpOK(c)
  PROVE  Src(c) \in Sources /\ (Pkt(c).kind \in Limited => Port(c) \in Ports) /\ Pkt(c).len \in Nat
BY FirewallAssumption DEF IpOK, Src, Port, Pkt, Ports

(* A CPU with an IPv4 packet in hand goes on with it. *)
LEMMA GoOn ==
  ASSUME DOMAIN cpu = Cpus, NEW c \in Cpus, IpOK(c), NEW l, Goes(c, l)
  PROVE  /\ DOMAIN cpu' = Cpus
         /\ \A d \in Cpus : d # c => cpu'[d] = cpu[d]
         /\ cpu'[c].at = l /\ DOMAIN cpu'[c] = DOMAIN cpu[c]
         /\ cpu'[c].pkt = cpu[c].pkt /\ cpu'[c].now = cpu[c].now
         /\ cpu'[c].seen = cpu[c].seen
<1>1. cpu' = [cpu EXCEPT ![c] = [cpu[c] EXCEPT !.at = l]]
  BY DEF Goes
<1>2. {"at", "pkt", "now", "seen"} = DOMAIN cpu[c]
  BY DEF IpOK
<1> QED BY <1>1, <1>2

(* ... which it keeps as it is. *)
LEMMA GoOnOK ==
  ASSUME DOMAIN cpu = Cpus, NEW c \in Cpus, IpOK(c), NEW l \in IpSteps, Goes(c, l), now' = now,
         l \in Seeing => cpu[c].at \in Seeing, l \in AtPort => Pkt(c).kind \in Limited,
         l # "count_port"
  PROVE  IpOK(c)'
<1>1. cpu'[c].at = l /\ DOMAIN cpu'[c] = DOMAIN cpu[c]
      /\ cpu'[c].pkt = cpu[c].pkt /\ cpu'[c].now = cpu[c].now /\ cpu'[c].seen = cpu[c].seen
  BY GoOn
<1> HIDE DEF Goes
<1>2. Pkt(c)' = Pkt(c) /\ Src(c)' = Src(c)
  BY <1>1 DEF Pkt, Src
<1> QED BY <1>1, <1>2 DEF IpOK, At

(* A CPU is done with what it had in hand. *)
LEMMA LetGo ==
  ASSUME DOMAIN cpu = Cpus, NEW c \in Cpus, Verdict(c)
  PROVE  /\ DOMAIN cpu' = Cpus
         /\ \A d \in Cpus : d # c => cpu'[d] = cpu[d]
         /\ cpu'[c] = Idle /\ IdleOK(c)'
BY DEF Verdict, IdleOK

(* What is not touched stays as it is, while time goes by. *)
LEMMA HandStays ==
  ASSUME NEW c \in Cpus, HandOK(c), cpu'[c] = cpu[c], now \in Nat, now' \in Nat, now <= now'
  PROVE  HandOK(c)'
BY DEF HandOK, IdleOK, ArpOK, IpOK, Pkt, Src, Port, At

(* What a CPU has in hand, told by where it is. *)
LEMMA WhereIs ==
  ASSUME NEW c \in Cpus, HandOK(c)
  PROVE  /\ cpu[c].at \in IpSteps => IpOK(c)
         /\ cpu[c].at \in ArpSteps => ArpOK(c)
         /\ cpu[c].at = "idle" => IdleOK(c)
         /\ cpu[c].at \in {"idle"} \union ArpSteps \union IpSteps
BY DEF HandOK, IdleOK, ArpOK, IpOK, Idle, IpSteps, ArpSteps, Seeing, Counting, Admitted, AtPort

(* What passes is noted at the time it passes. *)
LEMMA PassNotes ==
  ASSUME now \in Nat, passed \in [Sources -> Seq(Nat)], NEW c \in Cpus, Src(c) \in Sources, Pass(c)
  PROVE  /\ passed' \in [Sources -> Seq(Nat)]
         /\ passed'[Src(c)] = Append(passed[Src(c)], now)
         /\ \A s \in Sources : s # Src(c) => passed'[s] = passed[s]
         /\ Verdict(c)
<1>1. passed' = [passed EXCEPT ![Src(c)] = Append(passed[Src(c)], now)]
  BY DEF Pass
<1>2. Append(passed[Src(c)], now) \in Seq(Nat)
  OBVIOUS
<1> HIDE DEF Src
<1> QED BY <1>1, <1>2 DEF Pass

(* The new counts are counts, and in the window that was seen they go up by
   the packet; otherwise they begin anew.                                    *)
LEMMA CountedOK ==
  ASSUME NEW c \in Cpus, IpOK(c), At(c, "count"), now \in Nat
  PROVE  /\ Counted(c) \in Counter
         /\ InWindow(c, Src(c)) =>
              /\ Src(c) \in DOMAIN cpu[c].seen /\ cpu[c].seen[Src(c)] \in Counter
              /\ cpu[c].now <= cpu[c].seen[Src(c)].next_update
              /\ Counted(c).pps = cpu[c].seen[Src(c)].pps + 1
              /\ Counted(c).next_update = cpu[c].seen[Src(c)].next_update
         /\ ~InWindow(c, Src(c)) =>
              /\ Src(c) \in DOMAIN cpu[c].seen => cpu[c].seen[Src(c)].next_update < cpu[c].now
              /\ Counted(c).pps = 1 /\ Counted(c).next_update = cpu[c].now + Second
<1>1. IsMap(cpu[c].seen, {Src(c)}, Counter)
  BY DEF IpOK, At, Seeing
<1>2. Pkt(c).len \in Nat
  BY PacketOK
<1>3. cpu[c].now \in Nat
  BY DEF IpOK
<1>4. Found(c) <=> Src(c) \in DOMAIN cpu[c].seen
  BY <1>1 DEF Found, IsMap
<1> DEFINE old == cpu[c].seen[Src(c)]
<1>5. Found(c) => old \in Counter
  BY <1>1, <1>4 DEF IsMap
<1>6. CASE InWindow(c, Src(c))
  <2>1. Counted(c) = [old EXCEPT !.pps = old.pps + 1, !.bps = old.bps + Pkt(c).len]
    BY <1>6 DEF Counted
  <2>2. Found(c) /\ cpu[c].now <= old.next_update
    BY <1>6 DEF InWindow
  <2> HIDE DEF Src, Pkt, old
  <2>3. old \in Counter
    BY <1>5, <2>2
  <2>4. old = [pps |-> old.pps, bps |-> old.bps, next_update |-> old.next_update]
        /\ old.pps + 1 \in Nat \ {0} /\ old.bps \in Nat /\ old.next_update \in Nat \ {0}
    BY <2>3 DEF Counter
  <2>5. Counted(c) = [pps |-> old.pps + 1, bps |-> old.bps + Pkt(c).len,
                      next_update |-> old.next_update]
    BY <2>1, <2>4
  <2>6. old.bps + Pkt(c).len \in Nat
    BY <1>2, <2>4
  <2>7. Counted(c) \in Counter /\ Counted(c).pps = old.pps + 1
        /\ Counted(c).next_update = old.next_update
    BY <2>4, <2>5, <2>6 DEF Counter
  <2> QED BY <1>4, <1>6, <2>2, <2>3, <2>7 DEF old
<1>7. CASE ~InWindow(c, Src(c))
  <2>1. Counted(c) = Fresh(cpu[c].now, Pkt(c).len)
    BY <1>7 DEF Counted
  <2>2. Found(c) => ~(cpu[c].now <= old.next_update)
    BY <1>7 DEF InWindow
  <2>3. Found(c) => old.next_update < cpu[c].now
    BY <1>3, <1>5, <2>2 DEF Counter
  <2>4. Fresh(cpu[c].now, Pkt(c).len) \in Counter
    BY <1>2, <1>3, FirewallAssumption DEF Fresh, Counter
  <2> QED BY <1>4, <1>7, <2>1, <2>3, <2>4 DEF Fresh
<1> QED BY <1>6, <1>7

(* A fresh window is a count. *)
LEMMA FreshOK ==
  ASSUME NEW t \in Nat, NEW len \in Nat
  PROVE  Fresh(t, len) \in Counter /\ Fresh(t, len).next_update = t + Second /\ Fresh(t, len).pps = 1
BY FirewallAssumption DEF Fresh, Counter

-----------------------------------------------------------------------------
(***************************************************************************)
(* Type correctness, on any number of CPUs.                                *)
(***************************************************************************)

(* Everything has its shape when the program is attached. *)
LEMMA InitType == ControlInit => TypeInv
<1> SUFFICES ASSUME ControlInit PROVE TypeInv
  OBVIOUS
<1> USE FirewallAssumption, ControlAssumption DEF ControlInit, Init
<1>1. DOMAIN ip_counter = {} /\ DOMAIN port_counter = {}
  BY DEF Nothing
<1>2. TypeOK
  BY <1>1 DEF TypeOK
<1>3. ControlTypeOK
  <2>1. ctl = Menu /\ edits = 0 /\ entered = Pairs(ArpTable) /\ banned \subseteq Sources
        /\ displaced = {}
    OBVIOUS
  <2>2. edits \in 0..MaxEdits
    BY <2>1
  <2>3. arp_list \in [ArpEntries -> Nat]
    OBVIOUS
  <2>4. entered \subseteq ArpEntries
    BY <2>1 DEF ArpEntries
  <2> QED BY ONLY <1>2, <2>1, <2>2, <2>3, <2>4 DEF ControlTypeOK
<1>4. DOMAIN cpu = Cpus /\ \A c \in Cpus : HandOK(c)
  BY DEF HandOK, IdleOK
<1>5. IsMap(ip_counter, Sources, Counter) /\ IsMap(port_counter, Ports, PortCounter)
  BY <1>1 DEF IsMap
<1>6. passed \in [Sources -> Seq(Nat)] /\ blocked \in [Sources -> [by : {"nobody", "packet"}, at : Nat]]
  OBVIOUS
<1> QED BY <1>3, <1>4, <1>5, <1>6 DEF TypeInv

(* What a step of the program has to keep. *)
LEMMA ProgramKeepsType ==
  ASSUME TypeInv, Kept, UNCHANGED ctlVars, NEW c \in Cpus,
         DOMAIN cpu' = Cpus, \A d \in Cpus : d # c => cpu'[d] = cpu[d], HandOK(c)',
         ip_blacklist_p' \subseteq Sources, ip_blacklist_t' \subseteq Sources,
         IsMap(ip_counter', Sources, Counter), IsMap(port_counter', Ports, PortCounter),
         passed' \in [Sources -> Seq(Nat)],
         blocked' \in [Sources -> [by : {"nobody", "packet"}, at : Nat]]
  PROVE  TypeInv'
<1>1. TypeOK /\ now \in Nat
  BY FirewallAssumption DEF TypeInv, ControlTypeOK, TypeOK
<1>2. now' = now /\ UNCHANGED <<attached, config, arp_table, loosest>>
  BY DEF Kept, setVars
<1>3. ASSUME NEW d \in Cpus PROVE HandOK(d)'
  BY <1>1, <1>2, <1>3, HandStays DEF TypeInv
<1>4. TypeOK'
  <2>1. \A s \in DOMAIN ip_counter' : ip_counter'[s].pps > 0 /\ ip_counter'[s].next_update > 0
    BY DEF IsMap, Counter
  <2>2. \A p \in DOMAIN port_counter' : port_counter'[p].n > 0
    BY DEF IsMap, PortCounter
  <2>3. DOMAIN ip_counter' \subseteq Sources /\ DOMAIN port_counter' \subseteq Ports
    BY DEF IsMap
  <2> QED BY <1>1, <1>2, <2>1, <2>2, <2>3 DEF TypeOK
<1>5. ControlTypeOK'
  BY <1>4 DEF ControlTypeOK, TypeInv, ctlVars
<1> QED BY <1>3, <1>5 DEF TypeInv

(* Every step of the program keeps the shapes. *)
LEMMA ProgramType ==
  ASSUME TypeInv, NEW c \in Cpus, Program(c), UNCHANGED ctlVars
  PROVE  TypeInv'
<1>1. TypeOK /\ now \in 0..MaxTime /\ DOMAIN cpu = Cpus /\ HandOK(c)
      /\ ip_blacklist_p \subseteq Sources /\ ip_blacklist_t \subseteq Sources
      /\ IsMap(ip_counter, Sources, Counter) /\ IsMap(port_counter, Ports, PortCounter)
      /\ passed \in [Sources -> Seq(Nat)]
      /\ blocked \in [Sources -> [by : {"nobody", "packet"}, at : Nat]]
  BY DEF TypeInv, ControlTypeOK, TypeOK
<1>2. now \in Nat
  BY <1>1, FirewallAssumption
<1>3. ASSUME NEW p \in Packets, Receive(c, p) PROVE TypeInv'
  <2>1. CASE p.src \in ip_blacklist_p
    BY <1>1, <1>2, <1>3, <2>1, ProgramKeepsType, HandStays DEF Receive, NoCount, mapVars, ghostVars, Kept
  <2>2. CASE p.src \notin ip_blacklist_p
    <3> DEFINE new == [at |-> IF p.src \in ip_blacklist_t THEN "blocked" ELSE "count",
                       pkt |-> p, now |-> now, seen |-> Lookup(ip_counter, p.src)]
    <3>1. cpu' = [cpu EXCEPT ![c] = new]
      BY <1>3, <2>2 DEF Receive
    <3>2. p.src \in Sources
      BY FirewallAssumption
    <3>3. new.pkt = p /\ new.now = now /\ new.seen = Lookup(ip_counter, p.src)
          /\ DOMAIN new = {"at", "pkt", "now", "seen"} /\ new.at \in {"blocked", "count"}
      OBVIOUS
    <3> HIDE DEF new
    <3>4. cpu'[c] = new /\ DOMAIN cpu' = Cpus /\ \A d \in Cpus : d # c => cpu'[d] = cpu[d]
      BY <1>1, <3>1
    <3>5. IsMap(new.seen, {p.src}, Counter)
      <4>1. IsMap(Lookup(ip_counter, p.src), {p.src}, Counter)
        BY <1>1, <3>2, LookupMap
      <4> QED BY <3>3, <4>1
    <3>6. IpOK(c)'
      BY <1>2, <1>3, <3>3, <3>4, <3>5
         DEF IpOK, Pkt, Src, At, AtPort, Seeing, IpSteps, Receive, Kept
    <3> QED BY <1>1, <1>3, <3>4, <3>6, ProgramKeepsType DEF HandOK, Receive, NoCount, mapVars, ghostVars
  <2> QED BY <2>1, <2>2
<1>4. ASSUME NEW p \in ArpPackets, ReceiveArp(c, p) PROVE TypeInv'
  <2> DEFINE new == [pkt |-> p, at |-> IF "arp_flag" \in DOMAIN config /\ config["arp_flag"] # 0
                                       THEN "arp" ELSE "admit"]
  <2>1. cpu' = [cpu EXCEPT ![c] = new]
    BY <1>4 DEF ReceiveArp
  <2>2. new.pkt = p /\ DOMAIN new = {"at", "pkt"} /\ new.at \in ArpSteps
    BY DEF ArpSteps
  <2> HIDE DEF new
  <2>3. cpu'[c] = new /\ DOMAIN cpu' = Cpus /\ \A d \in Cpus : d # c => cpu'[d] = cpu[d]
    BY <1>1, <2>1
  <2>4. ArpOK(c)'
    BY <2>2, <2>3 DEF ArpOK, Pkt
  <2> QED BY <1>1, <1>4, <2>3, <2>4, ProgramKeepsType DEF HandOK, ReceiveArp, NoCount, mapVars, ghostVars
<1>5. CASE CheckArp(c)
  <2>1. ArpOK(c)
    BY <1>1, <1>5, WhereIs DEF CheckArp, At, ArpSteps
  <2>2. CASE Known(Pkt(c))
    <3>1. cpu' = [cpu EXCEPT ![c] = [cpu[c] EXCEPT !.at = "admit"]]
      BY <1>5, <2>2 DEF CheckArp, Goes
    <3>2. cpu'[c].at = "admit" /\ DOMAIN cpu'[c] = DOMAIN cpu[c] /\ cpu'[c].pkt = cpu[c].pkt
          /\ DOMAIN cpu' = Cpus /\ \A d \in Cpus : d # c => cpu'[d] = cpu[d]
      BY <1>1, <2>1, <3>1 DEF ArpOK
    <3>3. ArpOK(c)'
      BY <2>1, <3>2 DEF ArpOK, Pkt, ArpSteps
    <3> QED BY <1>1, <1>5, <3>2, <3>3, ProgramKeepsType DEF HandOK, CheckArp, NoCount, mapVars, ghostVars
  <2>3. CASE ~Known(Pkt(c))
    BY <1>1, <1>5, <2>3, LetGo, ProgramKeepsType DEF HandOK, CheckArp, NoCount, mapVars, ghostVars
  <2> QED BY <2>2, <2>3
<1>6. CASE Admit(c)
  BY <1>1, <1>6, LetGo, ProgramKeepsType DEF HandOK, Admit, NoCount, mapVars, ghostVars
<1>7. cpu[c].at \in IpSteps => IpOK(c) /\ Src(c) \in Sources /\ Pkt(c).len \in Nat /\ cpu[c].now \in Nat
  <2>1. IpOK(c) => cpu[c].now \in Nat
    BY <1>2 DEF IpOK
  <2> QED BY <1>1, <2>1, WhereIs, PacketOK
<1>8. CASE DropBlocked(c)
  <2>1. IpOK(c) /\ Src(c) \in Sources /\ Pkt(c).len \in Nat /\ cpu[c].now \in Nat
    BY <1>7, <1>8 DEF DropBlocked, At, IpSteps, Seeing
  <2>2. IsMap(ip_counter', Sources, Counter)
    <3>1. CASE Temporarily /\ ~Found(c)
      BY <1>1, <1>8, <2>1, <3>1, FreshOK, PutMap DEF DropBlocked
    <3>2. CASE ~(Temporarily /\ ~Found(c))
      BY <1>1, <1>8, <3>2 DEF DropBlocked
    <3> QED BY <3>1, <3>2
  <2> QED BY <1>1, <1>8, <2>2, LetGo, ProgramKeepsType DEF HandOK, DropBlocked, Drop
<1>9. CASE Unblock(c)
  <2>1. IpOK(c)
    BY <1>7, <1>9 DEF Unblock, At, IpSteps, Seeing
  <2>2. IpOK(c)'
    BY <1>2, <1>9, <2>1, <1>1, GoOnOK
       DEF Unblock, At, IpSteps, Seeing, Counting, Admitted, AtPort, Kept
  <2> QED BY <1>1, <1>9, <2>1, <2>2, GoOn, ProgramKeepsType DEF HandOK, Unblock, ghostVars
<1>10. CASE PassUnblocked(c)
  <2>1. IpOK(c) /\ Src(c) \in Sources /\ Pkt(c).len \in Nat /\ cpu[c].now \in Nat
    BY <1>7, <1>10 DEF PassUnblocked, At, IpSteps, Seeing
  <2>2. IsMap(ip_counter', Sources, Counter)
    BY <1>1, <1>10, <2>1, FreshOK, PutMap DEF PassUnblocked
  <2>3. passed' \in [Sources -> Seq(Nat)] /\ Verdict(c)
    BY <1>1, <1>2, <1>10, <2>1, PassNotes DEF PassUnblocked
  <2> QED BY <1>1, <1>10, <2>2, <2>3, LetGo, ProgramKeepsType DEF HandOK, PassUnblocked
<1>11. CASE Count(c)
  <2>1. IpOK(c) /\ Src(c) \in Sources
    BY <1>7, <1>11 DEF Count, At, IpSteps, Seeing
  <2>2. IsMap(ip_counter', Sources, Counter)
    BY <1>1, <1>2, <1>11, <2>1, CountedOK, PutMap DEF Count
  <2>3. IpOK(c)'
    BY <1>1, <1>2, <1>11, <2>1, GoOnOK
       DEF Count, At, IpSteps, Seeing, Counting, Admitted, AtPort, Kept
  <2> QED BY <1>1, <1>11, <2>1, <2>2, <2>3, GoOn, ProgramKeepsType DEF HandOK, Count, ghostVars
<1>12. CASE Limit(c)
  <2>1. IpOK(c)
    BY <1>7, <1>12 DEF Limit, At, IpSteps, Counting
  <2>2. PICK l \in {"block", "header"} : Goes(c, l)
    BY <1>12 DEF Limit
  <2>3. IpOK(c)'
    BY <1>1, <1>2, <1>12, <2>1, <2>2, GoOnOK
       DEF Limit, At, IpSteps, Seeing, Counting, Admitted, AtPort, Kept
  <2> QED BY <1>1, <1>12, <2>1, <2>2, <2>3, GoOn, ProgramKeepsType DEF HandOK, Limit, NoCount, mapVars, ghostVars
<1>13. CASE Block(c)
  <2>1. IpOK(c) /\ Src(c) \in Sources /\ cpu[c].now \in Nat
    BY <1>7, <1>13 DEF Block, At, IpSteps, Counting
  <2>2. blocked' \in [Sources -> [by : {"nobody", "packet"}, at : Nat]]
    BY <1>1, <1>13, <2>1 DEF Block
  <2>3. ip_blacklist_t' \subseteq Sources
    BY <1>1, <1>13, <2>1 DEF Block
  <2> QED BY <1>1, <1>13, <2>2, <2>3, LetGo, ProgramKeepsType DEF HandOK, Block, Drop
<1>14. CASE Header(c)
  <2>1. IpOK(c) /\ Src(c) \in Sources
    BY <1>7, <1>14 DEF Header, At, IpSteps, Counting, Admitted
  <2>2. CASE Pkt(c).kind = "short" /\ Drop(c)
    BY <1>1, <1>14, <2>2, LetGo, ProgramKeepsType DEF HandOK, Header, Drop, mapVars
  <2>3. CASE Pkt(c).kind = "other" /\ Pass(c)
    BY <1>1, <1>2, <1>14, <2>1, <2>3, PassNotes, LetGo, ProgramKeepsType DEF HandOK, Header, mapVars
  <2>4. CASE Pkt(c).kind \in Limited /\ Goes(c, "lookup_port") /\ UNCHANGED <<passed, opened>>
    <3>1. IpOK(c)'
      BY <1>1, <1>2, <1>14, <2>1, <2>4, GoOnOK
       DEF Header, At, IpSteps, Seeing, Counting, Admitted, AtPort, Kept
    <3> QED BY <1>1, <1>14, <2>1, <2>4, <3>1, GoOn, ProgramKeepsType DEF HandOK, Header, mapVars
  <2> QED BY <1>14, <2>2, <2>3, <2>4 DEF Header
<1>15. CASE LookupPort(c)
  <2>1. IpOK(c) /\ Pkt(c).kind \in Limited /\ Port(c) \in Ports
    BY <1>7, <1>15, PacketOK DEF LookupPort, At, IpSteps, Counting, Admitted, AtPort, IpOK
  <2>2. IsMap(Lookup(port_counter, Port(c)), {Port(c)}, PortCounter)
    BY <1>1, <2>1, LookupMap
  <2>3. /\ cpu'[c].at = "count_port" /\ cpu'[c].seen = Lookup(port_counter, Port(c))
        /\ cpu'[c].pkt = cpu[c].pkt /\ cpu'[c].now = cpu[c].now
        /\ DOMAIN cpu'[c] = DOMAIN cpu[c]
        /\ DOMAIN cpu' = Cpus /\ \A d \in Cpus : d # c => cpu'[d] = cpu[d]
    BY <1>1, <1>15, <2>1 DEF LookupPort, IpOK
  <2>4. IpOK(c)'
    BY <1>2, <1>15, <2>1, <2>2, <2>3
       DEF IpOK, LookupPort, At, Pkt, Src, Port, IpSteps, Seeing, Counting, Admitted, AtPort, Kept
  <2> QED BY <1>1, <1>15, <2>3, <2>4, ProgramKeepsType DEF HandOK, LookupPort, NoCount, mapVars, ghostVars
<1>16. CASE CountPort(c)
  <2>1. IpOK(c) /\ Pkt(c).kind \in Limited /\ Port(c) \in Ports /\ cpu[c].now \in Nat
        /\ IsMap(cpu[c].seen, {Port(c)}, PortCounter)
    BY <1>7, <1>16, PacketOK DEF CountPort, At, IpSteps, Counting, Admitted, AtPort, IpOK
  <2> DEFINE old == cpu[c].seen[Port(c)]
             new == IF InWindow(c, Port(c)) THEN [old EXCEPT !.n = @ + 1]
                    ELSE [n |-> 1, next_update |-> cpu[c].now + Second]
  <2>2. new \in PortCounter
    <3>1. CASE InWindow(c, Port(c))
      <4>1. old \in PortCounter
        BY <2>1, <3>1 DEF InWindow, Found, IsMap
      <4> HIDE DEF old
      <4> QED BY <3>1, <4>1 DEF PortCounter
    <3>2. CASE ~InWindow(c, Port(c))
      BY <2>1, <3>2, FirewallAssumption DEF PortCounter
    <3> QED BY <3>1, <3>2
  <2>3. IsMap(port_counter', Ports, PortCounter)
    <3>1. port_counter' = Put(port_counter, Port(c), new)
      BY <1>16 DEF CountPort
    <3> HIDE DEF new
    <3> QED BY <1>1, <2>1, <2>2, <3>1, PutMap
  <2>4. Goes(c, "limit_port")
    BY <1>16 DEF CountPort
  <2>5. IpOK(c)'
    BY <1>1, <1>2, <1>16, <2>1, <2>4, GoOn
       DEF IpOK, CountPort, At, Pkt, Src, Port, IpSteps, Seeing, Counting, Admitted, AtPort, Kept
  <2> QED BY <1>1, <1>16, <2>1, <2>3, <2>4, <2>5, GoOn, ProgramKeepsType DEF HandOK, CountPort, ghostVars
<1>17. CASE LimitPort(c)
  <2>1. IpOK(c) /\ Src(c) \in Sources
    BY <1>7, <1>17 DEF LimitPort, At, IpSteps, Counting, Admitted, AtPort
  <2>2. CASE OverPortLimit(c) /\ Goes(c, "block") /\ UNCHANGED <<passed, opened>>
    <3>1. IpOK(c)'
      BY <1>1, <1>2, <1>17, <2>1, <2>2, GoOnOK
       DEF LimitPort, At, IpSteps, Seeing, Counting, Admitted, AtPort, Kept
    <3> QED BY <1>1, <1>17, <2>1, <2>2, <3>1, GoOn, ProgramKeepsType DEF HandOK, LimitPort, mapVars
  <2>3. CASE ~OverPortLimit(c) /\ Pass(c)
    BY <1>1, <1>2, <1>17, <2>1, <2>3, PassNotes, LetGo, ProgramKeepsType DEF HandOK, LimitPort, mapVars
  <2> QED BY <1>17, <2>2, <2>3 DEF LimitPort
<1> QED
  BY <1>3, <1>4, <1>5, <1>6, <1>8, <1>9, <1>10, <1>11, <1>12, <1>13, <1>14, <1>15, <1>16, <1>17
     DEF Program

(* What is old has a size, and goes when time goes by; nothing is added. *)
LEMMA RecentOK ==
  ASSUME NEW q \in Seq(Nat), now \in Nat
  PROVE  \E m \in 0..Len(q) :
           /\ Recent(q) = SubSeq(q, m + 1, Len(q)) /\ Recent(q) \in Seq(Nat)
           /\ Len(Recent(q)) = Len(q) - m
           /\ \A i \in 1..(Len(q) - m) : Recent(q)[i] = q[m + i]
           /\ InOrder(q) => \A i \in 1..Len(q) : i <= m <=> q[i] + Second <= now + 1
<1> DEFINE old == {i \in DOMAIN q : q[i] + Second <= now + 1}
           m == Cardinality(old)
           n == Len(q)
<1>1. n \in Nat /\ DOMAIN q = 1..n /\ \A i \in 1..n : q[i] \in Nat
  OBVIOUS
<1>2. Recent(q) = SubSeq(q, m + 1, n)
  BY DEF Recent
<1>3. old \subseteq 1..n
  BY <1>1
<1>4. \A i \in 1..n : i \in old <=> q[i] + Second <= now + 1
  BY <1>1
<1> HIDE DEF old, m, n
<1>5. IsFiniteSet(old) /\ m \in 0..n
  <2>1. IsFiniteSet(1..n) /\ Cardinality(1..n) = n
    BY <1>1, FS_Interval
  <2>2. IsFiniteSet(old) /\ m <= n
    BY <1>3, <2>1, FS_Subset DEF m
  <2>3. m \in Nat
    BY <2>2, FS_CardinalityType DEF m
  <2> QED BY <1>1, <2>2, <2>3
<1>6. /\ Recent(q) \in Seq(Nat) /\ Len(Recent(q)) = n - m
      /\ \A i \in 1..(n - m) : Recent(q)[i] = q[m + i]
  <2>1. \A i \in (m + 1)..n : q[i] \in Nat
    BY <1>1, <1>5
  <2>2. m + 1 \in Int /\ n \in Int
    BY <1>1, <1>5
  <2>3. /\ SubSeq(q, m + 1, n) \in Seq(Nat)
        /\ Len(SubSeq(q, m + 1, n)) = IF m + 1 <= n THEN n - (m + 1) + 1 ELSE 0
        /\ \A i \in 1..(n - (m + 1) + 1) : SubSeq(q, m + 1, n)[i] = q[m + 1 + i - 1]
    BY <2>1, <2>2, SubSeqProperties
  <2>4. n - (m + 1) + 1 = n - m /\ (~(m + 1 <= n) => n - m = 0)
    BY <1>1, <1>5
  <2>5. Len(Recent(q)) = n - m
    BY <1>2, <2>3, <2>4
  <2>6. ASSUME NEW i \in 1..(n - m) PROVE Recent(q)[i] = q[m + i]
    <3>1. m + 1 + i - 1 = m + i
      BY <1>5
    <3> QED BY <1>2, <2>3, <2>4, <3>1
  <2> QED BY <1>2, <2>3, <2>5, <2>6
<1>7. ASSUME InOrder(q) PROVE old = 1..m
  <2>1. ASSUME NEW i \in 1..m, i \notin old PROVE FALSE
    <3>1. \A j \in old : j \in 1..(i - 1)
      <4> SUFFICES ASSUME NEW j \in old, j \notin 1..(i - 1) PROVE FALSE
        OBVIOUS
      <4>1. i \in 1..n /\ j \in 1..n /\ i <= j
        BY <1>1, <1>3, <1>5
      <4>2. q[i] <= q[j] /\ q[i] \in Nat /\ q[j] \in Nat /\ q[j] + Second <= now + 1
        BY <1>1, <1>4, <1>7, <4>1 DEF InOrder, n
      <4>3. q[i] + Second <= now + 1
        BY <4>2, FirewallAssumption
      <4> QED BY <1>4, <2>1, <4>1, <4>3
    <3>2. IsFiniteSet(1..(i - 1)) /\ Cardinality(1..(i - 1)) = i - 1
      BY <1>5, FS_Interval
    <3>3. m <= i - 1
      BY <3>1, <3>2, FS_Subset DEF m
    <3> QED BY <1>5, <3>3
  <2>2. 1..m \subseteq old
    BY <2>1
  <2>3. Cardinality(1..m) = m
    BY <1>5, FS_Interval
  <2> QED BY <1>5, <2>2, <2>3, FS_Subset DEF m
<1>8. InOrder(q) => \A i \in 1..n : i <= m <=> q[i] + Second <= now + 1
  BY <1>1, <1>4, <1>5, <1>7
<1> QED BY <1>2, <1>5, <1>6, <1>8 DEF n

(* A tick later, what is left is the end of what there was, and is recent. *)
LEMMA Forgotten ==
  ASSUME now \in Nat, NEW q \in Seq(Nat), InOrder(q), \A i \in 1..Len(q) : q[i] <= now
  PROVE  \E m \in 0..Len(q) :
           /\ Recent(q) \in Seq(Nat) /\ Len(Recent(q)) = Len(q) - m
           /\ InOrder(Recent(q))
           /\ \A i \in 1..(Len(q) - m) :
                /\ m + i \in 1..Len(q) /\ Recent(q)[i] = q[m + i]
                /\ q[m + i] <= now + 1 /\ now + 1 < q[m + i] + Second
<1> DEFINE n == Len(q)
           r == Recent(q)
<1>1. n \in Nat /\ \A i \in 1..n : q[i] \in Nat
  OBVIOUS
<1>2. \A i, j \in 1..n : i <= j => q[i] <= q[j]
  BY DEF InOrder
<1>3. PICK m \in 0..n :
        /\ r \in Seq(Nat) /\ Len(r) = n - m
        /\ \A i \in 1..(n - m) : r[i] = q[m + i]
        /\ \A i \in 1..n : i <= m <=> q[i] + Second <= now + 1
  BY RecentOK
<1>4. \A i \in 1..n : q[i] <= now
  OBVIOUS
<1> HIDE DEF n, r
<1>5. ASSUME NEW i \in 1..(n - m)
      PROVE  m + i \in 1..n /\ q[m + i] <= now + 1 /\ now + 1 < q[m + i] + Second
  <2>1. m + i \in 1..n /\ ~(m + i <= m)
    BY <1>1, <1>3
  <2>2. q[m + i] \in Nat /\ q[m + i] <= now /\ ~(q[m + i] + Second <= now + 1)
    BY <1>1, <1>3, <1>4, <2>1
  <2> QED BY <2>1, <2>2, FirewallAssumption
<1>6. InOrder(r)
  <2> SUFFICES ASSUME NEW i \in 1..(n - m), NEW j \in 1..(n - m), i <= j
               PROVE  r[i] <= r[j]
    BY <1>3 DEF InOrder
  <2>1. m + i <= m + j /\ m + i \in 1..n /\ m + j \in 1..n
    BY <1>3, <1>5
  <2> QED BY <1>2, <1>3, <2>1
<1> QED BY <1>3, <1>5, <1>6 DEF n, r

(* A split of n packets after the first k is one of those that are left when
   m of them are forgotten.                                                  *)
LEMMA StillSplit ==
  ASSUME NEW n \in Nat, NEW m \in 0..n, NEW k \in 0..n
  PROVE  \E l \in 0..(n - m) : l <= k /\ n - m - l <= n - k /\ (l # 0 => m + l = k)
<1>1. CASE m <= k
  <2>1. k - m \in 0..(n - m) /\ k - m <= k /\ n - m - (k - m) <= n - k /\ m + (k - m) = k
    BY <1>1
  <2> QED BY <2>1
<1>2. CASE k < m
  <2>1. 0 \in 0..(n - m) /\ 0 <= k /\ n - m - 0 <= n - k
    BY <1>2
  <2> QED BY <2>1
<1> QED BY <1>1, <1>2

(* As time goes by, and as the operator works, the shapes stay. *)
LEMMA TickType ==
  ASSUME TypeInv, Tick, UNCHANGED ctlVars
  PROVE  TypeInv'
<1>1. TypeOK /\ now \in Nat /\ now < MaxTime /\ now' = now + 1 /\ MaxTime \in Nat
      /\ UNCHANGED <<attached, config, arp_table, loosest, ip_blacklist_p, ip_blacklist_t>>
      /\ UNCHANGED <<ip_counter, port_counter, cpu, blocked>>
  BY FirewallAssumption DEF TypeInv, ControlTypeOK, TypeOK, Tick, setVars, mapVars
<1>2. TypeOK'
  BY <1>1 DEF TypeOK
<1>3. ControlTypeOK'
  BY <1>2 DEF ControlTypeOK, TypeInv, ctlVars
<1>4. \A c \in Cpus : HandOK(c)'
  <2>1. now' \in Nat /\ now <= now' /\ \A c \in Cpus : cpu'[c] = cpu[c]
    BY <1>1
  <2> QED BY <1>1, <2>1, HandStays DEF TypeInv
<1>5. passed' \in [Sources -> Seq(Nat)]
  BY <1>1, RecentOK DEF Tick, TypeInv
<1> QED BY <1>1, <1>3, <1>4, <1>5 DEF TypeInv, IsMap

(* Every command of the operator keeps the shapes. *)
LEMMA ControllerType ==
  ASSUME TypeInv, Controller
  PROVE  TypeInv'
<1> USE FirewallAssumption, ControlAssumption
<1>1. TypeOK /\ ControlTypeOK /\ now \in Nat
  BY DEF TypeInv, ControlTypeOK, TypeOK
<1>2. UNCHANGED <<now, cpu, ip_counter, port_counter, passed>>
  BY DEF Controller, Edit, Upsert, LookUp, Delete, InsertTemp, InsertPerm, DeleteArp, AddArp, Quit, KeepProgram
<1>3. /\ \A c \in Cpus : HandOK(c)'
      /\ DOMAIN cpu' = Cpus
      /\ IsMap(ip_counter', Sources, Counter) /\ IsMap(port_counter', Ports, PortCounter)
      /\ passed' \in [Sources -> Seq(Nat)]
  <2>1. \A c \in Cpus : HandOK(c)'
    BY <1>1, <1>2, HandStays DEF TypeInv
  <2> QED BY <1>2, <2>1 DEF TypeInv, IsMap
<1>4. SUFFICES ControlTypeOK' /\ blocked' \in [Sources -> [by : {"nobody", "packet"}, at : Nat]]
  BY <1>3 DEF TypeInv
<1>5. SUFFICES ASSUME Edit \/ Upsert \/ LookUp \/ Delete \/ InsertTemp \/ InsertPerm \/ DeleteArp \/ AddArp \/ Quit
               PROVE  ControlTypeOK' /\ blocked' \in [Sources -> [by : {"nobody", "packet"}, at : Nat]]
  BY DEF Controller
<1>6. blocked \in [Sources -> [by : {"nobody", "packet"}, at : Nat]]
  BY DEF TypeInv
<1>7. edits \in 0..MaxEdits /\ (Command => edits' \in 0..MaxEdits)
  BY <1>1 DEF ControlTypeOK, Command
<1>8. \A k \in ConfigKeys, v \in Nat : Loosen(k, v) => loosest' \in [ConfigKeys -> Nat]
  BY <1>1 DEF TypeOK, Loosen
<1>9. /\ DOMAIN config \subseteq ConfigKeys /\ \A k \in DOMAIN config : config[k] \in Nat
      /\ loosest \in [ConfigKeys -> Nat]
  BY <1>1 DEF TypeOK
<1>10. \A k \in ConfigKeys : Missing(k) \in Nat
  BY <1>9 DEF Missing, Limits, ConfigKeys
<1>11. CASE Edit
  <2>1. PICK e \in Edits :
          /\ ctl' = [at |-> "upsert", key |-> e[1], value |-> e[2]]
          /\ config' = [k \in DOMAIN config \ {e[1]} |-> config[k]]
          /\ Loosen(e[1], Missing(e[1]))
    BY <1>11 DEF Edit
  <2>2. e[1] \in ConfigKeys /\ e[2] \in Nat
    OBVIOUS
  <2>3. loosest' \in [ConfigKeys -> Nat] /\ DOMAIN config' \subseteq ConfigKeys
        /\ \A k \in DOMAIN config' : config'[k] \in Nat
    BY <1>8, <1>9, <1>10, <2>1, <2>2
  <2>4. TypeOK'
    BY <1>1, <1>2, <1>11, <2>3 DEF TypeOK, Edit, KeepMaps
  <2> QED BY <1>1, <1>6, <1>7, <1>11, <2>1, <2>2, <2>4 DEF ControlTypeOK, Edit, KeepMaps
<1>12. CASE Upsert
  <2>1. ctl.key \in ConfigKeys /\ ctl.value \in Nat
    BY <1>1, <1>12 DEF ControlTypeOK, Upsert, Menu
  <2>2. config' = Put(config, ctl.key, ctl.value) /\ Loosen(ctl.key, ctl.value)
    BY <1>12 DEF Upsert
  <2>3. DOMAIN config' \subseteq ConfigKeys /\ \A k \in DOMAIN config' : config'[k] \in Nat
    BY <1>9, <2>1, <2>2 DEF Put
  <2>4. loosest' \in [ConfigKeys -> Nat]
    BY <1>8, <2>1, <2>2
  <2>5. TypeOK'
    BY <1>1, <1>2, <1>12, <2>3, <2>4 DEF TypeOK, Upsert, KeepMaps
  <2> QED BY <1>1, <1>6, <1>7, <1>12, <2>5 DEF ControlTypeOK, Upsert, KeepMaps
<1>13. CASE LookUp
  <2>1. TypeOK'
    BY <1>1, <1>2, <1>13 DEF TypeOK, LookUp, KeepMaps, KeepSettings, setVars
  <2> QED BY <1>1, <1>6, <1>7, <1>13, <2>1 DEF ControlTypeOK, LookUp, KeepMaps, KeepSettings
<1>14. CASE Delete
  <2>1. ctl.src \in Sources
    BY <1>1, <1>14 DEF ControlTypeOK, Delete, Menu
  <2>2. /\ ip_blacklist_t' \subseteq Sources /\ ip_blacklist_p' \subseteq Sources
        /\ banned' \subseteq Sources
        /\ blocked' \in [Sources -> [by : {"nobody", "packet"}, at : Nat]]
    BY <1>1, <1>6, <1>14, <2>1 DEF ControlTypeOK, TypeOK, Delete
  <2>3. TypeOK'
    BY <1>1, <1>2, <1>14, <2>2 DEF TypeOK, Delete, KeepSettings, setVars
  <2> QED BY <1>1, <1>7, <1>14, <2>2, <2>3 DEF ControlTypeOK, Delete, KeepSettings
<1>15. CASE InsertTemp
  <2>1. ctl.src \in Sources
    BY <1>1, <1>15 DEF ControlTypeOK, InsertTemp, Menu
  <2>2. TypeOK'
    BY <1>1, <1>2, <1>15, <2>1 DEF TypeOK, InsertTemp, KeepSettings, setVars
  <2> QED BY <1>1, <1>6, <1>7, <1>15, <2>2 DEF ControlTypeOK, InsertTemp, KeepSettings
<1>16. CASE InsertPerm
  <2>1. ctl.src \in Sources
    BY <1>1, <1>16 DEF ControlTypeOK, InsertPerm, Menu
  <2>2. ip_blacklist_p' \subseteq Sources /\ banned' \subseteq Sources /\ displaced' \subseteq Sources
    BY <1>1, <1>16, <2>1 DEF ControlTypeOK, TypeOK, InsertPerm
  <2>3. TypeOK'
    BY <1>1, <1>2, <1>16, <2>2 DEF TypeOK, InsertPerm, KeepSettings, setVars
  <2> QED BY <1>1, <1>6, <1>7, <1>16, <2>2, <2>3 DEF ControlTypeOK, InsertPerm, KeepSettings
<1>17. CASE AddArp
  <2>1. PICK p \in ArpPackets :
          arp_table' = Put(arp_table, p.src, p.mac) /\ entered' = entered \union {p}
    BY <1>17 DEF AddArp
  <2>5. arp_list' \in [ArpEntries -> Nat] /\ entered' \subseteq ArpEntries
    BY <1>1, <1>17 DEF ControlTypeOK, AddArp, ArpEntries
  <2>2. p.src \in Sources
    OBVIOUS
  <2>3. DOMAIN arp_table' \subseteq Sources
    BY <1>1, <2>1, <2>2 DEF Put, TypeOK
  <2>4. TypeOK'
    BY <1>1, <1>2, <1>17, <2>3 DEF TypeOK, AddArp, KeepMaps
  <2> QED BY <1>1, <1>6, <1>7, <1>17, <2>1, <2>4, <2>5 DEF ControlTypeOK, AddArp, KeepMaps
<1>18. CASE DeleteArp
  <2>1. TypeOK'
    BY <1>1, <1>2, <1>18 DEF TypeOK, DeleteArp, KeepMaps, setVars
  <2>2. arp_list' \in [ArpEntries -> Nat]
    BY <1>1, <1>18 DEF ControlTypeOK, DeleteArp
  <2> QED BY <1>1, <1>6, <1>7, <1>18, <2>1, <2>2 DEF ControlTypeOK, DeleteArp, KeepMaps
<1>19. CASE Quit
  <2>1. TypeOK'
    BY <1>1, <1>2, <1>19 DEF TypeOK, Quit, KeepMaps, setVars
  <2> QED BY <1>1, <1>6, <1>7, <1>19, <2>1 DEF ControlTypeOK, Quit, KeepMaps
<1> QED BY <1>5, <1>11, <1>12, <1>13, <1>14, <1>15, <1>16, <1>17, <1>18, <1>19

(* Every step keeps the shapes. *)
LEMMA StepType ==
  ASSUME TypeInv, [ControlNext]_allVars
  PROVE  TypeInv'
<1>1. CASE Tick /\ UNCHANGED ctlVars
  BY <1>1, TickType
<1>2. ASSUME NEW c \in Cpus, Program(c), UNCHANGED ctlVars PROVE TypeInv'
  BY <1>2, ProgramType
<1>3. CASE Controller
  BY <1>3, ControllerType
<1>4. CASE UNCHANGED allVars
  BY <1>4 DEF allVars, vars, setVars, mapVars, ghostVars, ctlVars, TypeInv, ControlTypeOK, TypeOK,
              HandOK, IdleOK, ArpOK, IpOK, Pkt, Src, Port, At, IsMap
<1> QED BY <1>1, <1>2, <1>3, <1>4 DEF ControlNext, Next

(* The maps, the CPUs, the settings and the controller keep their shapes, and
   no counter ever counts less than one packet.                              *)
THEOREM ControlTypeCorrect == ControlSpec => []ControlTypeOK
<1>1. TypeInv => ControlTypeOK
  BY DEF TypeInv
<1> QED BY <1>1, InitType, StepType, PTL DEF ControlSpec

-----------------------------------------------------------------------------
(***************************************************************************)
(* The settings, on any number of CPUs.                                    *)
(***************************************************************************)

(* The loosest limit only grows, the shortest block and the flag only shrink,
   and no other setting changes.                                             *)
LEMMA LoosenOK ==
  ASSUME loosest \in [ConfigKeys -> Nat], NEW k \in ConfigKeys, NEW v \in Nat, Loosen(k, v)
  PROVE  /\ \A j \in ConfigKeys : j # k => loosest'[j] = loosest[j]
         /\ loosest'[k] \in {v, loosest[k]}
         /\ k \in Limits => v <= loosest'[k] /\ loosest[k] <= loosest'[k]
         /\ k \notin Limits => loosest'[k] <= v /\ loosest'[k] <= loosest[k]
<1> DEFINE new == IF k \in Limits <=> v > loosest[k] THEN v ELSE loosest[k]
<1>1. loosest' = [loosest EXCEPT ![k] = new]
  BY DEF Loosen
<1>2. new \in {v, loosest[k]}
      /\ (k \in Limits => v <= new /\ loosest[k] <= new)
      /\ (k \notin Limits => new <= v /\ new <= loosest[k])
  OBVIOUS
<1> HIDE DEF new
<1> QED BY <1>1, <1>2

(* Only a command of the operator changes a setting. *)
LEMMA ProgramKeepsSettings ==
  ASSUME Next
  PROVE  UNCHANGED <<attached, config, arp_table, loosest, ip_blacklist_p>>
BY DEF Next, Tick, Program, Receive, ReceiveArp, CheckArp, Admit, DropBlocked, Unblock,
       PassUnblocked, Count, Limit, Block, Header, LookupPort, CountPort, LimitPort,
       Kept, NoCount, setVars, mapVars

(* The bans are on the list from the first. *)
LEMMA InitBans == ControlInit => BansInv
BY DEF ControlInit, Init, BansInv

(* A ban stays on the list, but for a list that has no room for it. *)
LEMMA StepBans ==
  ASSUME BansInv, [ControlNext]_allVars
  PROVE  BansInv'
<1>1. CASE Next /\ UNCHANGED ctlVars
  BY <1>1, ProgramKeepsSettings DEF ctlVars, BansInv
<1>2. CASE Controller
  <2>1. CASE Delete
    BY <2>1 DEF Delete, BansInv
  <2>2. CASE InsertPerm
    <3>1. PICK out \in SUBSET ip_blacklist_p :
            /\ ip_blacklist_p' = (ip_blacklist_p \ out) \union {ctl.src}
            /\ displaced' = (displaced \union out) \ {ctl.src}
      BY <2>2 DEF InsertPerm
    <3>2. banned' = banned \union {ctl.src}
      BY <2>2 DEF InsertPerm
    <3> QED BY <3>1, <3>2 DEF BansInv
  <2>3. CASE Edit \/ Upsert \/ LookUp \/ InsertTemp \/ DeleteArp \/ AddArp \/ Quit
    BY <2>3 DEF Edit, Upsert, LookUp, InsertTemp, DeleteArp, AddArp, Quit, KeepMaps, BansInv
  <2> QED BY <1>2, <2>1, <2>2, <2>3 DEF Controller
<1>3. CASE UNCHANGED allVars
  BY <1>3 DEF allVars, vars, mapVars, ctlVars, BansInv
<1> QED BY <1>1, <1>2, <1>3 DEF ControlNext

(* A packet of a source that the operator wants out is dropped at the first
   lookup, whatever the temporary list says, unless another entry has put the
   source out of the full list.                                              *)
THEOREM BansHold == ControlSpec => BansArePermanent
<1>1. ASSUME TypeInv, BansInv, [ControlNext]_allVars, NEW c \in Cpus,
             cpu[c] = Idle, cpu'[c] # Idle, cpu'[c].at \in {"blocked", "count"}
      PROVE  cpu'[c].pkt.src \notin banned \ displaced
  <2>1. DOMAIN cpu = Cpus
    BY <1>1 DEF TypeInv
  <2>2. cpu'[c] # cpu[c]
    BY <1>1
  <2>3. PICK d \in Cpus : Program(d)
    <3>1. UNCHANGED cpu \/ \E d \in Cpus : Program(d)
      BY <1>1 DEF ControlNext, Next, Tick, Controller, Edit, Upsert, LookUp, Delete, InsertTemp,
                  InsertPerm, DeleteArp, AddArp, Quit, KeepProgram, allVars, vars
    <3> QED BY <2>2, <3>1
  <2>4. ASSUME d # c PROVE FALSE
    BY <2>1, <2>2, <2>3, <2>4
       DEF Program, Receive, ReceiveArp, CheckArp, Admit, DropBlocked, Unblock, PassUnblocked,
           Count, Limit, Block, Header, LookupPort, CountPort, LimitPort, Goes, Verdict, Drop, Pass
  <2>5. At(c, "idle")
    BY <1>1 DEF At, Idle
  <2>6. \/ \E p \in Packets : Receive(c, p)
        \/ \E p \in ArpPackets : ReceiveArp(c, p)
    BY <2>3, <2>4, <2>5
       DEF Program, At, CheckArp, Admit, DropBlocked, Unblock, PassUnblocked,
           Count, Limit, Block, Header, LookupPort, CountPort, LimitPort
  <2>7. ASSUME NEW p \in ArpPackets, ReceiveArp(c, p) PROVE FALSE
    <3>1. cpu'[c].at \in {"arp", "admit"}
      BY <2>1, <2>7 DEF ReceiveArp
    <3> QED BY <1>1, <3>1
  <2>8. ASSUME NEW p \in Packets, Receive(c, p)
                 PROVE cpu'[c].pkt.src \notin banned \ displaced
    <3>1. p.src \notin ip_blacklist_p
      BY <2>2, <2>8 DEF Receive
    <3>2. cpu'[c].pkt = p
      BY <2>1, <2>8, <3>1 DEF Receive
    <3> QED BY <1>1, <3>1, <3>2 DEF BansInv
  <2> QED BY <2>6, <2>7, <2>8
<1>2. TypeInv /\ BansInv /\ [ControlNext]_allVars =>
        [\A c \in Cpus :
           (cpu[c] = Idle /\ cpu'[c] # Idle /\ cpu'[c].at \in {"blocked", "count"}) =>
             cpu'[c].pkt.src \notin banned \ displaced]_allVars
  BY <1>1
<1> QED BY <1>2, InitType, StepType, InitBans, StepBans, PTL DEF ControlSpec, BansArePermanent

(* The table has what was entered when the program is attached. *)
LEMMA InitArp == ControlInit => ArpInv
BY FirewallAssumption DEF ControlInit, Init, ArpInv, Pairs, ConfigKeys

(* The table only gets what is entered, and when the flag goes off, or is
   edited, the loosest flag is off.                                          *)
LEMMA StepArp ==
  ASSUME TypeInv, ArpInv, [ControlNext]_allVars
  PROVE  ArpInv'
<1>1. loosest \in [ConfigKeys -> Nat]
  BY DEF TypeInv, ControlTypeOK, TypeOK
<1>2. "arp_flag" \in ConfigKeys \ Limits /\ loosest["arp_flag"] \in Nat
  BY <1>1 DEF ConfigKeys, Limits
<1>3. CASE Next /\ UNCHANGED ctlVars
  BY <1>3, ProgramKeepsSettings DEF ctlVars, ArpInv
<1>4. CASE Edit
  <2>1. PICK e \in Edits :
          /\ config' = [k \in DOMAIN config \ {e[1]} |-> config[k]]
          /\ Loosen(e[1], Missing(e[1]))
    BY <1>4 DEF Edit
  <2>2. UNCHANGED <<arp_table, entered>> /\ e[1] \in ConfigKeys
    BY <1>4, ControlAssumption DEF Edit
  <2>3. Missing(e[1]) \in Nat
    BY <1>1, <2>2, FirewallAssumption DEF Missing, Limits
  <2>4. CASE e[1] = "arp_flag"
    <3>1. Missing(e[1]) = 0
      BY <1>2, <2>4 DEF Missing
    <3>2. loosest'["arp_flag"] = 0
      BY <1>1, <1>2, <2>1, <2>2, <2>3, <2>4, <3>1, LoosenOK
    <3> QED BY <2>2, <3>2 DEF ArpInv
  <2>5. CASE e[1] # "arp_flag"
    <3>1. loosest'["arp_flag"] = loosest["arp_flag"]
      BY <1>1, <1>2, <2>1, <2>2, <2>3, <2>5, LoosenOK
    <3> QED BY <2>1, <2>2, <2>5, <3>1 DEF ArpInv
  <2> QED BY <2>4, <2>5
<1>5. CASE Upsert
  <2>1. ctl.key \in ConfigKeys /\ ctl.value \in Nat
    BY <1>5 DEF TypeInv, ControlTypeOK, Upsert, Menu
  <2>2. config' = Put(config, ctl.key, ctl.value) /\ Loosen(ctl.key, ctl.value)
        /\ UNCHANGED <<arp_table, entered>>
    BY <1>5 DEF Upsert
  <2>3. CASE ctl.key = "arp_flag"
    <3>1. loosest'["arp_flag"] \in {ctl.value, loosest["arp_flag"]}
          /\ loosest'["arp_flag"] <= ctl.value
      BY <1>1, <1>2, <2>1, <2>2, <2>3, LoosenOK
    <3>2. loosest'["arp_flag"] # 0 => ctl.value # 0
      BY <1>2, <2>1, <3>1
    <3> QED BY <2>2, <2>3, <3>2 DEF Put, ArpInv
  <2>4. CASE ctl.key # "arp_flag"
    <3>1. loosest'["arp_flag"] = loosest["arp_flag"]
      BY <1>1, <1>2, <2>1, <2>2, <2>4, LoosenOK
    <3> QED BY <2>2, <2>4, <3>1 DEF Put, ArpInv
  <2> QED BY <2>3, <2>4
<1>6. CASE AddArp
  <2>1. PICK p \in ArpPackets :
          arp_table' = Put(arp_table, p.src, p.mac) /\ entered' = entered \union {p}
    BY <1>6 DEF AddArp
  <2>2. p = [src |-> p.src, mac |-> p.mac]
    BY FirewallAssumption
  <2>3. ASSUME NEW s \in DOMAIN arp_table'
        PROVE  [src |-> s, mac |-> arp_table'[s]] \in entered'
    <3>1. CASE s = p.src
      <4>1. arp_table'[s] = p.mac
        BY <2>1, <3>1 DEF Put
      <4> QED BY <2>1, <2>2, <3>1, <4>1
    <3>2. CASE s # p.src
      <4>1. s \in DOMAIN arp_table /\ arp_table'[s] = arp_table[s]
        BY <2>1, <2>3, <3>2 DEF Put
      <4> QED BY <2>1, <4>1 DEF ArpInv
    <3> QED BY <3>1, <3>2
  <2> QED BY <1>6, <2>3 DEF ArpInv, AddArp
<1>7. CASE LookUp \/ Delete \/ InsertTemp \/ InsertPerm \/ DeleteArp \/ Quit
  BY <1>7 DEF LookUp, Delete, InsertTemp, InsertPerm, DeleteArp, Quit, KeepSettings, setVars, ArpInv
<1>8. CASE UNCHANGED allVars
  BY <1>8 DEF allVars, vars, setVars, ctlVars, ArpInv
<1> QED BY <1>3, <1>4, <1>5, <1>6, <1>7, <1>8 DEF ControlNext, Controller

(* With the ARP flag on from the first, no ARP packet gets through whose
   sender was never entered with that address.                               *)
THEOREM OnlyEnteredArp == ControlSpec => ArpOnlyEntered
<1>1. ASSUME TypeInv, ArpInv, [ControlNext]_allVars, NEW c \in Cpus,
             cpu[c].at # "admit", cpu'[c].at = "admit"
      PROVE  cpu'[c].pkt \in entered \/ loosest["arp_flag"] = 0
  <2>1. DOMAIN cpu = Cpus
    BY <1>1 DEF TypeInv
  <2>2. cpu'[c] # cpu[c]
    BY <1>1
  <2>3. PICK d \in Cpus : Program(d)
    <3>1. UNCHANGED cpu \/ \E d \in Cpus : Program(d)
      BY <1>1 DEF ControlNext, Next, Tick, Controller, Edit, Upsert, LookUp, Delete, InsertTemp,
                  InsertPerm, DeleteArp, AddArp, Quit, KeepProgram, allVars, vars
    <3> QED BY <2>2, <3>1
  <2>4. ASSUME d # c PROVE FALSE
    BY <2>1, <2>2, <2>3, <2>4
       DEF Program, Receive, ReceiveArp, CheckArp, Admit, DropBlocked, Unblock, PassUnblocked,
           Count, Limit, Block, Header, LookupPort, CountPort, LimitPort, Goes, Verdict, Drop, Pass
  <2>5. HandOK(c)
    BY <1>1 DEF TypeInv
  <2>6. ASSUME NEW p \in Packets, Receive(c, p) PROVE FALSE
    BY <1>1, <2>1, <2>2, <2>6 DEF Receive
  <2>7. ASSUME NEW p \in ArpPackets, ReceiveArp(c, p) PROVE loosest["arp_flag"] = 0
    <3>1. ~("arp_flag" \in DOMAIN config /\ config["arp_flag"] # 0)
      BY <1>1, <2>1, <2>7 DEF ReceiveArp
    <3> QED BY <1>1, <3>1 DEF ArpInv
  <2>8. ASSUME CheckArp(c) PROVE cpu'[c].pkt \in entered
    <3>1. ArpOK(c)
      BY <2>5, <2>8, WhereIs DEF CheckArp, At, ArpSteps
    <3>2. Known(Pkt(c))
      <4>1. Verdict(c) => cpu'[c].at = "idle"
        BY <2>1 DEF Verdict, Idle
      <4> QED BY <1>1, <2>8, <4>1 DEF CheckArp
    <3>3. Goes(c, "admit")
      BY <2>8, <3>2 DEF CheckArp
    <3>4. cpu'[c].pkt = Pkt(c)
      BY <2>1, <3>1, <3>3 DEF Goes, ArpOK, Pkt
    <3>5. Pkt(c) = [src |-> Pkt(c).src, mac |-> Pkt(c).mac]
      BY <3>1, FirewallAssumption DEF ArpOK
    <3> QED BY <1>1, <3>2, <3>4, <3>5 DEF Known, ArpInv
  <2>9. ASSUME Admit(c) PROVE FALSE
    BY <1>1, <2>9 DEF Admit, At
  <2>10. ASSUME cpu[c].at \in IpSteps, Program(c) PROVE FALSE
    <3>1. IpOK(c)
      BY <2>5, <2>10, WhereIs
    <3>2. Verdict(c) => cpu'[c].at = "idle"
      BY <2>1 DEF Verdict, Idle
    <3>3. \A l : Goes(c, l) => cpu'[c].at = l
      BY <2>1, <3>1, GoOn
    <3>4. LookupPort(c) => cpu'[c].at = "count_port"
      BY <2>1, <3>1 DEF LookupPort, IpOK
    <3>5. cpu[c].at \notin {"idle", "arp", "admit"}
      BY <2>10 DEF IpSteps, Seeing, Counting, Admitted, AtPort
    <3> HIDE DEF Verdict, Goes
    <3> QED
      BY <1>1, <2>10, <3>2, <3>3, <3>4, <3>5
         DEF Program, At, Receive, ReceiveArp, CheckArp, Admit, DropBlocked, Unblock,
             PassUnblocked, Count, Limit, Block, Header, CountPort, LimitPort, Drop, Pass
  <2>11. CASE cpu[c].at \in IpSteps
    BY <2>3, <2>4, <2>10, <2>11
  <2>12. CASE cpu[c].at \notin IpSteps
    <3>1. \/ \E p \in Packets : Receive(c, p)
          \/ \E p \in ArpPackets : ReceiveArp(c, p)
          \/ CheckArp(c) \/ Admit(c)
      BY <2>3, <2>4, <2>12
         DEF Program, At, DropBlocked, Unblock, PassUnblocked, Count, Limit, Block, Header,
             LookupPort, CountPort, LimitPort, IpSteps, Seeing, Counting, Admitted, AtPort
    <3> QED BY <2>6, <2>7, <2>8, <2>9, <3>1
  <2> QED BY <2>11, <2>12
<1>2. TypeInv /\ ArpInv /\ [ControlNext]_allVars =>
        [\A c \in Cpus :
           (cpu[c].at # "admit" /\ cpu'[c].at = "admit") =>
             cpu'[c].pkt \in entered \/ loosest["arp_flag"] = 0]_allVars
  BY <1>1
<1> QED BY <1>2, InitType, StepType, InitArp, StepArp, PTL DEF ControlSpec, ArpOnlyEntered

-----------------------------------------------------------------------------
(***************************************************************************)
(* The limits in force, on any number of CPUs.                             *)
(***************************************************************************)

(* At first the limits are their own loosest. *)
LEMMA InitLimits == ControlInit => LimitsInv
<1> SUFFICES ASSUME ControlInit PROVE LimitsInv
  OBVIOUS
<1>1. config = Config /\ loosest = Config /\ Config \in [ConfigKeys -> Nat]
  BY FirewallAssumption DEF ControlInit, Init
<1>2. {"pps", "unblock_time"} \subseteq ConfigKeys
  BY DEF ConfigKeys, Limits
<1> QED BY <1>1, <1>2 DEF LimitsInv, LimitOf

(* Each command notes the limit or the block it puts in force, and what goes
   in its place while the entry is replaced. The loosest limit only grows,
   the shortest block only shrinks.                                          *)
LEMMA StepLimits ==
  ASSUME TypeInv, LimitsInv, [ControlNext]_allVars
  PROVE  /\ LimitsInv'
         /\ loosest["pps"] <= loosest'["pps"]
         /\ loosest'["unblock_time"] <= loosest["unblock_time"]
<1>1. loosest \in [ConfigKeys -> Nat] /\ DOMAIN config \subseteq ConfigKeys
      /\ \A k \in DOMAIN config : config[k] \in Nat
  BY DEF TypeInv, ControlTypeOK, TypeOK
<1>2. /\ "pps" \in ConfigKeys /\ "pps" \in Limits /\ loosest["pps"] \in Nat
      /\ "unblock_time" \in ConfigKeys /\ "unblock_time" \notin Limits
      /\ loosest["unblock_time"] \in Nat
      /\ Config["pps"] \in Nat /\ Defaults["pps"] \in Nat
  BY <1>1, FirewallAssumption DEF ConfigKeys, Limits
<1>3. CASE Next /\ UNCHANGED ctlVars
  BY <1>2, <1>3, ProgramKeepsSettings DEF LimitsInv, LimitOf
<1>4. CASE Edit
  <2>1. PICK e \in Edits :
          /\ config' = [k \in DOMAIN config \ {e[1]} |-> config[k]]
          /\ Loosen(e[1], Missing(e[1]))
    BY <1>4 DEF Edit
  <2>2. e[1] \in ConfigKeys
    BY ControlAssumption
  <2>3. Missing(e[1]) \in Nat
    BY <1>1, <2>2, FirewallAssumption DEF Missing
  <2>4. \A j \in ConfigKeys : j # e[1] =>
          (j \in DOMAIN config' <=> j \in DOMAIN config)
    BY <2>1
  <2>5. e[1] \notin DOMAIN config'
    BY <2>1
  <2>6. e[1] = "pps" => LimitOf("pps")' = Missing(e[1])
    BY <1>2, <2>5 DEF LimitOf, Missing
  <2>7. CASE e[1] = "pps"
    <3>1. LimitOf("pps")' <= loosest'["pps"] /\ loosest["pps"] <= loosest'["pps"]
          /\ loosest'["unblock_time"] = loosest["unblock_time"] /\ loosest'["pps"] \in Nat
      BY <1>1, <1>2, <2>1, <2>2, <2>3, <2>6, <2>7, LoosenOK
    <3>2. Config["pps"] <= loosest'["pps"]
      BY <1>2, <3>1 DEF LimitsInv
    <3>3. "unblock_time" \in DOMAIN config' =>
            "unblock_time" \in DOMAIN config /\ config'["unblock_time"] = config["unblock_time"]
      BY <2>1
    <3> QED BY <1>2, <3>1, <3>2, <3>3 DEF LimitsInv
  <2>8. CASE e[1] # "pps"
    <3>1. loosest'["pps"] = loosest["pps"] /\ loosest'["unblock_time"] <= loosest["unblock_time"]
          /\ loosest'["unblock_time"] \in Nat
      BY <1>1, <1>2, <2>1, <2>2, <2>3, <2>8, LoosenOK
    <3>2. LimitOf("pps")' = LimitOf("pps")
      BY <2>1, <2>8 DEF LimitOf
    <3>3. "unblock_time" \in DOMAIN config' =>
            "unblock_time" \in DOMAIN config /\ config'["unblock_time"] = config["unblock_time"]
      BY <2>1
    <3> QED BY <1>1, <1>2, <3>1, <3>2, <3>3 DEF LimitsInv
  <2> QED BY <2>7, <2>8
<1>5. CASE Upsert
  <2>1. ctl.key \in ConfigKeys /\ ctl.value \in Nat
    BY <1>5 DEF TypeInv, ControlTypeOK, Upsert, Menu
  <2>2. config' = Put(config, ctl.key, ctl.value) /\ Loosen(ctl.key, ctl.value)
    BY <1>5 DEF Upsert
  <2>3. CASE ctl.key = "pps"
    <3>1. LimitOf("pps")' = ctl.value
      BY <2>2, <2>3 DEF LimitOf, Put
    <3>2. LimitOf("pps")' <= loosest'["pps"] /\ loosest["pps"] <= loosest'["pps"]
          /\ loosest'["unblock_time"] = loosest["unblock_time"] /\ loosest'["pps"] \in Nat
      BY <1>1, <1>2, <2>1, <2>2, <2>3, <3>1, LoosenOK
    <3>3. Config["pps"] <= loosest'["pps"]
      BY <1>2, <3>2 DEF LimitsInv
    <3>4. "unblock_time" \in DOMAIN config' =>
            "unblock_time" \in DOMAIN config /\ config'["unblock_time"] = config["unblock_time"]
      BY <2>2, <2>3 DEF Put
    <3> QED BY <1>2, <3>2, <3>3, <3>4 DEF LimitsInv
  <2>4. CASE ctl.key = "unblock_time"
    <3>1. loosest'["pps"] = loosest["pps"] /\ loosest'["unblock_time"] <= loosest["unblock_time"]
          /\ loosest'["unblock_time"] <= ctl.value
      BY <1>1, <1>2, <2>1, <2>2, <2>4, LoosenOK
    <3>2. LimitOf("pps")' = LimitOf("pps") /\ config'["unblock_time"] = ctl.value
      BY <2>2, <2>4 DEF LimitOf, Put
    <3> QED BY <1>1, <1>2, <3>1, <3>2 DEF LimitsInv
  <2>5. CASE ctl.key \notin {"pps", "unblock_time"}
    <3>1. loosest'["pps"] = loosest["pps"] /\ loosest'["unblock_time"] = loosest["unblock_time"]
      BY <1>1, <1>2, <2>1, <2>2, <2>5, LoosenOK
    <3>2. LimitOf("pps")' = LimitOf("pps")
      BY <2>2, <2>5 DEF LimitOf, Put
    <3>3. "unblock_time" \in DOMAIN config' =>
            "unblock_time" \in DOMAIN config /\ config'["unblock_time"] = config["unblock_time"]
      BY <2>2, <2>5 DEF Put
    <3> QED BY <1>1, <1>2, <3>1, <3>2, <3>3 DEF LimitsInv
  <2> QED BY <2>3, <2>4, <2>5
<1>6. CASE LookUp \/ Delete \/ InsertTemp \/ InsertPerm \/ DeleteArp \/ AddArp \/ Quit \/ UNCHANGED allVars
  <2>1. config' = config /\ loosest' = loosest
    BY <1>6 DEF LookUp, Delete, InsertTemp, InsertPerm, DeleteArp, AddArp, Quit, KeepSettings, setVars,
                allVars, vars
  <2> QED BY <1>2, <2>1 DEF LimitsInv, LimitOf
<1> QED BY <1>3, <1>4, <1>5, <1>6 DEF ControlNext, Controller

-----------------------------------------------------------------------------
(***************************************************************************)
(* Blocks, on one CPU.                                                     *)
(***************************************************************************)

(* A longer block ends later. *)
LEMMA TimesMonotone ==
  ASSUME NEW i \in Nat, NEW j \in Nat, NEW k \in Nat, i <= j
  PROVE  i * k <= j * k /\ i * k \in Nat /\ j * k \in Nat
<1>1. PICK d \in Nat : j = i + d
  <2>1. j - i \in Nat /\ j = i + (j - i)
    OBVIOUS
  <2> QED BY <2>1
<1>2. (i + d) * k = i * k + d * k
  OBVIOUS
<1>3. i * k \in Nat /\ d * k \in Nat
  OBVIOUS
<1> QED BY <1>1, <1>2, <1>3

(* What is over stays over while time goes by and the shortest block shrinks. *)
LEMMA OverStays ==
  ASSUME TypeInv, NEW s \in Sources, Over(s), blocked'[s] = blocked[s],
         now' \in Nat, now <= now',
         loosest'["unblock_time"] \in Nat, loosest'["unblock_time"] <= loosest["unblock_time"]
  PROVE  Over(s)'
<1>1. now \in Nat /\ loosest["unblock_time"] \in Nat /\ Second \in Nat /\ blocked[s].at \in Nat
  BY FirewallAssumption DEF TypeInv, ControlTypeOK, TypeOK, ConfigKeys
<1> DEFINE i == loosest'["unblock_time"] * Second
           j == loosest["unblock_time"] * Second
<1>2. i <= j /\ i \in Nat /\ j \in Nat
  BY <1>1, TimesMonotone
<1>3. blocked[s].by = "packet" => now >= blocked[s].at + j
  BY DEF Over
<1> HIDE DEF i, j
<1>4. blocked[s].by = "packet" => now' >= blocked[s].at + i
  BY <1>1, <1>2, <1>3
<1> QED BY <1>4 DEF Over, i

(* A packet goes on where nothing else has changed. *)
LEMMA CountingGoesOn ==
  ASSUME TypeInv, NEW c \in Cpus, IpOK(c), GoesOnOK(c),
         cpu[c].at \in Counting, cpu'[c].at \in Counting,
         cpu'[c].pkt = cpu[c].pkt, cpu'[c].now = cpu[c].now,
         UNCHANGED <<now, loosest, ip_counter, blocked>>
  PROVE  GoesOnOK(c)'
<1>1. Src(c)' = Src(c)
  BY DEF Src
<1>2. cpu'[c].at \notin Seeing /\ cpu'[c].at # "reset" /\ cpu[c].at # "blocked"
  BY DEF Seeing, Counting, Admitted, AtPort
<1>3. Over(Src(c))'
  BY <1>1, <1>2 DEF GoesOnOK, Over, At
<1> QED BY <1>1, <1>2, <1>3 DEF GoesOnOK, At

(* No source is blocked for its packets when the program is attached. *)
LEMMA InitBlocked == ControlInit => BlockedInv /\ HandInv
BY DEF ControlInit, Init, Idle, BlockedInv, BlockedOK, Over, HandInv, IpSteps, Seeing, Counting,
       Admitted, AtPort

(* On one CPU, every step of the program on a packet keeps a source listed
   until its block is over.                                                  *)
LEMMA ProgramBlocked ==
  ASSUME OneCPU, TypeInv, LimitsInv, BlockedInv, HandInv, NEW c \in Cpus, Program(c)
  PROVE  BlockedInv' /\ HandInv'
<1>1. /\ now \in Nat /\ DOMAIN cpu = Cpus /\ HandOK(c)
      /\ IsMap(ip_counter, Sources, Counter)
      /\ blocked \in [Sources -> [by : {"nobody", "packet"}, at : Nat]]
      /\ \A d \in Cpus : d = c
  BY FirewallAssumption DEF TypeInv, ControlTypeOK, TypeOK, OneCPU
<1>2. UNCHANGED <<now, config, loosest>>
  BY DEF Program, Receive, ReceiveArp, CheckArp, Admit, DropBlocked, Unblock, PassUnblocked,
         Count, Limit, Block, Header, LookupPort, CountPort, LimitPort, Kept, setVars
<1>3. cpu[c].at \in IpSteps =>
        /\ IpOK(c) /\ GoesOnOK(c) /\ Src(c) \in Sources /\ BlockedOK(Src(c))
        /\ cpu[c].now \in Nat /\ cpu[c].now <= now /\ Pkt(c).len \in Nat
        /\ blocked[Src(c)].at \in Nat
  <2>1. IpOK(c) => cpu[c].now \in Nat /\ cpu[c].now <= now
    BY <1>1 DEF IpOK
  <2> QED BY <1>1, <2>1, WhereIs, PacketOK DEF HandInv, BlockedInv
<1>4. ASSUME UNCHANGED <<ip_blacklist_t, ip_counter, blocked>> PROVE BlockedInv'
  BY <1>2, <1>4 DEF BlockedInv, BlockedOK, Over
<1>5. ASSUME NEW s \in Sources, BlockedOK(s)', UNCHANGED <<blocked, loosest, now>>,
             \A t \in Sources : t # s =>
               /\ t \in ip_blacklist_t' <=> t \in ip_blacklist_t
               /\ t \in DOMAIN ip_counter => t \in DOMAIN ip_counter' /\ ip_counter'[t] = ip_counter[t]
      PROVE  BlockedInv'
  BY <1>2, <1>5 DEF BlockedInv, BlockedOK, Over
<1>6. ASSUME cpu'[c] = Idle PROVE HandInv'
  BY <1>1, <1>6 DEF HandInv, Idle, IpSteps, Seeing, Counting, Admitted, AtPort
<1>7. Verdict(c) => cpu'[c] = Idle
  BY <1>1 DEF Verdict
<1>8. GoesOnOK(c)' => HandInv'
  BY <1>1 DEF HandInv
<1>9. \A k, v : ip_counter' = Put(ip_counter, k, v) =>
         /\ k \in DOMAIN ip_counter' /\ ip_counter'[k] = v
         /\ \A t \in DOMAIN ip_counter :
              t \in DOMAIN ip_counter' /\ (t # k => ip_counter'[t] = ip_counter[t])
  BY DEF Put
<1>10. ASSUME NEW p \in Packets, Receive(c, p) PROVE BlockedInv' /\ HandInv'
  <2>1. BlockedInv'
    BY <1>4, <1>10 DEF Receive, NoCount, mapVars, ghostVars
  <2>2. CASE p.src \in ip_blacklist_p
    <3>1. UNCHANGED <<cpu, ip_counter, blocked>>
      BY <1>10, <2>2 DEF Receive, NoCount, mapVars, ghostVars
    <3> QED BY <1>2, <2>1, <3>1 DEF HandInv, GoesOnOK, At, Src, Pkt, Found, Over
  <2>3. CASE p.src \notin ip_blacklist_p
    <3> DEFINE new == [at |-> IF p.src \in ip_blacklist_t THEN "blocked" ELSE "count",
                       pkt |-> p, now |-> now, seen |-> Lookup(ip_counter, p.src)]
    <3>1. cpu' = [cpu EXCEPT ![c] = new]
      BY <1>10, <2>3 DEF Receive
    <3>2. p.src \in Sources
      BY FirewallAssumption
    <3>3. new.pkt = p /\ new.now = now /\ new.seen = Lookup(ip_counter, p.src)
          /\ new.at \in {"blocked", "count"}
          /\ (new.at = "count" => p.src \notin ip_blacklist_t)
      OBVIOUS
    <3> HIDE DEF new
    <3>4. cpu'[c].pkt = p /\ cpu'[c].now = now /\ cpu'[c].seen = Lookup(ip_counter, p.src)
          /\ cpu'[c].at \in {"blocked", "count"}
          /\ (cpu'[c].at = "count" => p.src \notin ip_blacklist_t)
          /\ Src(c)' = p.src
      BY <1>1, <3>1, <3>3 DEF Src
    <3>5. UNCHANGED <<ip_counter, blocked>>
      BY <1>10 DEF Receive, NoCount, mapVars, ghostVars
    <3>6. DOMAIN Lookup(ip_counter, p.src) = DOMAIN ip_counter \intersect {p.src}
          /\ \A s \in DOMAIN Lookup(ip_counter, p.src) : Lookup(ip_counter, p.src)[s] = ip_counter[s]
      BY DEF Lookup
    <3>7. Found(c)' => Lookup(ip_counter, p.src)[p.src] = ip_counter[p.src]
      BY <3>4, <3>6 DEF Found
    <3>8. BlockedOK(p.src)
      BY <3>2 DEF BlockedInv
    <3>9. (cpu'[c].at = "count" => Over(p.src)')
          /\ (blocked'[p.src].by = "packet" => blocked'[p.src].at <= now)
      BY <1>2, <3>4, <3>5, <3>8 DEF BlockedOK, Over
    <3>10. GoesOnOK(c)'
      <4>1. cpu'[c].at # "reset" /\ cpu'[c].at \notin Counting
        BY <3>4 DEF Counting, Admitted, AtPort
      <4> QED BY <3>4, <3>5, <3>6, <3>7, <3>9, <4>1 DEF GoesOnOK, At
    <3> QED BY <1>8, <2>1, <3>10
  <2> QED BY <2>2, <2>3
<1>11. ASSUME NEW p \in ArpPackets, ReceiveArp(c, p) PROVE BlockedInv' /\ HandInv'
  <2>1. cpu'[c].at \in {"arp", "admit"}
    BY <1>1, <1>11 DEF ReceiveArp
  <2> QED BY <1>1, <1>4, <1>11, <2>1
          DEF ReceiveArp, NoCount, mapVars, ghostVars, HandInv, IpSteps, Seeing, Counting, Admitted, AtPort
<1>12. CASE CheckArp(c)
  <2>1. ArpOK(c)
    BY <1>1, <1>12, WhereIs DEF CheckArp, At, ArpSteps
  <2>2. cpu'[c].at \in {"admit", "idle"}
    BY <1>1, <1>12, <2>1 DEF CheckArp, Goes, Verdict, Idle, ArpOK
  <2> QED BY <1>1, <1>4, <1>12, <2>2
          DEF CheckArp, NoCount, mapVars, ghostVars, HandInv, IpSteps, Seeing, Counting, Admitted, AtPort
<1>13. CASE Admit(c)
  BY <1>4, <1>6, <1>7, <1>13 DEF Admit, NoCount, mapVars, ghostVars
<1>14. CASE DropBlocked(c)
  <2>1. cpu[c].at \in IpSteps /\ cpu[c].at \in Seeing /\ Verdict(c)
        /\ UNCHANGED <<ip_blacklist_t, blocked>>
    BY <1>14 DEF DropBlocked, At, IpSteps, Seeing, Drop
  <2>2. CASE Temporarily /\ ~Found(c)
    <3>1. PICK s \in Sources : s = Src(c)
      BY <1>3, <2>1
    <3>2. ip_counter' = Put(ip_counter, s, Fresh(cpu[c].now, Pkt(c).len))
      BY <1>14, <2>2, <3>1 DEF DropBlocked
    <3>3. s \notin DOMAIN ip_counter
      BY <1>3, <2>1, <2>2, <3>1 DEF GoesOnOK, Found
    <3>4. BlockedOK(s)'
      BY <1>2, <1>3, <2>1, <3>1, <3>3 DEF BlockedOK, Over
    <3> QED BY <1>2, <1>5, <1>6, <1>7, <1>9, <2>1, <3>2, <3>4
  <2>3. CASE ~(Temporarily /\ ~Found(c))
    <3>1. ip_counter' = ip_counter
      BY <1>14, <2>3 DEF DropBlocked
    <3> QED BY <1>4, <1>6, <1>7, <2>1, <3>1
  <2> QED BY <2>2, <2>3
<1>15. CASE Unblock(c)
  <2>1. cpu[c].at = "blocked" /\ cpu[c].at \in IpSteps /\ cpu[c].at \in Seeing /\ Goes(c, "reset")
        /\ ip_blacklist_t' = ip_blacklist_t \ {Src(c)}
        /\ Expired(c) /\ UNCHANGED <<ip_counter, blocked>>
    BY <1>15 DEF Unblock, At, IpSteps, Seeing, ghostVars
  <2>2. /\ cpu'[c].at = "reset" /\ cpu'[c].pkt = cpu[c].pkt /\ cpu'[c].now = cpu[c].now
        /\ cpu'[c].seen = cpu[c].seen
    BY <1>1, <1>3, <2>1, GoOn
  <2>3. Found(c) /\ cpu[c].seen[Src(c)] = ip_counter[Src(c)] /\ Src(c) \in DOMAIN ip_counter
        /\ DOMAIN cpu[c].seen = DOMAIN ip_counter \intersect {Src(c)}
    BY <1>3, <2>1 DEF GoesOnOK, Expired, Found
  <2> DEFINE end == ip_counter[Src(c)].next_update
             least == loosest["unblock_time"] * Second
             block == config["unblock_time"] * Second
  <2>4. end \in Nat
    BY <1>1, <2>3 DEF IsMap, Counter
  <2>5. loosest["unblock_time"] \in Nat /\ config["unblock_time"] \in Nat /\ Second \in Nat
        /\ loosest["unblock_time"] <= config["unblock_time"]
    BY <2>1, FirewallAssumption
       DEF TypeInv, ControlTypeOK, TypeOK, ConfigKeys, Expired, Temporarily, LimitsInv
  <2>6. least \in Nat /\ block \in Nat /\ least <= block
    BY <2>5, TimesMonotone
  <2>7. cpu[c].now >= end + block
    BY <2>1, <2>3 DEF Expired
  <2>8. blocked[Src(c)].by = "packet" => end >= blocked[Src(c)].at
    BY <1>3, <2>1 DEF BlockedOK
  <2>9. blocked[Src(c)].at \in Nat /\ cpu[c].now \in Nat /\ cpu[c].now <= now
    BY <1>3, <2>1
  <2> HIDE DEF end, least, block
  <2>10. cpu[c].now >= end
    BY <2>4, <2>6, <2>7, <2>9
  <2>11. blocked[Src(c)].by = "packet" => now >= blocked[Src(c)].at + least
    BY <1>1, <2>4, <2>6, <2>7, <2>8, <2>9
  <2>12. Over(Src(c)) /\ Over(Src(c))'
    <3>1. Over(Src(c))
      BY <2>11 DEF Over, least
    <3>2. Src(c)' = Src(c)
      BY <2>2 DEF Src
    <3> QED BY <1>2, <2>1, <3>1, <3>2 DEF Over
  <2>13. GoesOnOK(c)'
    <3>1. Src(c)' = Src(c)
      BY <2>2 DEF Src
    <3>2. cpu'[c].at \notin Counting
      BY <2>2 DEF Counting, Admitted, AtPort
    <3> QED BY <1>3, <2>1, <2>2, <2>3, <2>10, <2>12, <3>1, <3>2 DEF GoesOnOK, At, Found, end
  <2>14. BlockedInv'
    <3>1. \A s \in Sources : s # Src(c) => BlockedOK(s)'
      BY <1>2, <2>1 DEF BlockedInv, BlockedOK, Over
    <3>2. \A s \in Sources : s = Src(c) => BlockedOK(s)'
      BY <1>2, <1>3, <2>1, <2>12 DEF BlockedOK, Over
    <3> QED BY <3>1, <3>2 DEF BlockedInv
  <2> QED BY <1>8, <2>13, <2>14
<1>16. CASE PassUnblocked(c)
  <2>1. PICK s \in Sources : s = Src(c)
    BY <1>3, <1>16 DEF PassUnblocked, At, IpSteps, Seeing
  <2>2. cpu[c].at \in IpSteps /\ Verdict(c) /\ UNCHANGED <<ip_blacklist_t, blocked>>
        /\ ip_counter' = Put(ip_counter, s, Fresh(cpu[c].now, Pkt(c).len))
    BY <1>16, <2>1 DEF PassUnblocked, At, IpSteps, Seeing, Pass
  <2>3. ip_counter'[s].next_update = cpu[c].now + Second /\ s \in DOMAIN ip_counter'
    BY <1>9, <2>2 DEF Fresh
  <2>4. blocked[s].by = "packet" => cpu[c].now + Second >= blocked[s].at
    BY <1>3, <2>1, <2>2, FirewallAssumption DEF GoesOnOK
  <2>5. BlockedOK(s)'
    BY <1>2, <1>3, <2>1, <2>2, <2>3, <2>4 DEF BlockedOK, Over
  <2> QED BY <1>2, <1>5, <1>6, <1>7, <1>9, <2>2, <2>5
<1>17. CASE Count(c)
  <2>1. PICK s \in Sources : s = Src(c)
    BY <1>3, <1>17 DEF Count, At, IpSteps, Seeing
  <2>2. cpu[c].at = "count" /\ cpu[c].at \in IpSteps /\ cpu[c].at \in Seeing /\ Goes(c, "limit")
        /\ UNCHANGED <<ip_blacklist_t, blocked>> /\ ip_counter' = Put(ip_counter, s, Counted(c))
    BY <1>17, <2>1 DEF Count, At, IpSteps, Seeing, ghostVars
  <2>3. cpu'[c].at = "limit" /\ cpu'[c].pkt = cpu[c].pkt /\ cpu'[c].now = cpu[c].now
    BY <1>1, <1>3, <2>2, GoOn
  <2>4. s \in DOMAIN ip_counter' /\ ip_counter'[s] = Counted(c)
    BY <1>9, <2>2
  <2>5. Counted(c).next_update \in Nat /\ Counted(c).next_update >= cpu[c].now
    <3>1. IpOK(c) /\ At(c, "count") /\ cpu[c].now \in Nat
      BY <1>3, <2>2 DEF At
    <3>2. Counted(c).next_update \in Nat
      BY <1>1, <3>1, CountedOK DEF Counter
    <3>3. CASE InWindow(c, Src(c))
      BY <1>1, <3>1, <3>2, <3>3, CountedOK
    <3>4. CASE ~InWindow(c, Src(c))
      BY <1>1, <3>1, <3>2, <3>4, CountedOK, FirewallAssumption
    <3> QED BY <3>2, <3>3, <3>4
  <2>6. blocked[s].by = "packet" => blocked[s].at <= cpu[c].now
    BY <1>3, <2>1, <2>2 DEF GoesOnOK
  <2>7. BlockedOK(s)'
    BY <1>2, <1>3, <2>1, <2>2, <2>4, <2>5, <2>6 DEF BlockedOK, Over
  <2>8. Over(s)
    BY <1>3, <2>1, <2>2 DEF GoesOnOK, At
  <2>9. GoesOnOK(c)'
    <3>1. Src(c)' = s
      BY <2>1, <2>3 DEF Src
    <3>2. cpu'[c].at \notin Seeing
      BY <2>3 DEF Seeing
    <3>3. Over(s)'
      BY <1>2, <2>2, <2>8 DEF Over
    <3> QED BY <2>2, <2>3, <2>4, <2>5, <2>6, <3>1, <3>2, <3>3 DEF GoesOnOK, At
  <2> QED BY <1>2, <1>5, <1>8, <1>9, <2>2, <2>7, <2>9
<1>18. CASE Block(c)
  <2>1. PICK s \in Sources : s = Src(c)
    BY <1>3, <1>18 DEF Block, At, IpSteps, Counting
  <2>2. cpu[c].at \in IpSteps /\ cpu[c].at \in Counting /\ Verdict(c) /\ ip_counter' = ip_counter
        /\ ip_blacklist_t' = ip_blacklist_t \union {s}
        /\ blocked' = [blocked EXCEPT ![s] = [by |-> "packet", at |-> cpu[c].now]]
    BY <1>18, <2>1 DEF Block, At, IpSteps, Counting, Drop
  <2>3. blocked'[s].by = "packet" /\ blocked'[s].at = cpu[c].now
        /\ \A t \in Sources : t # s => blocked'[t] = blocked[t]
    BY <1>1, <2>2
  <2>4. s \in DOMAIN ip_counter /\ ip_counter[s].next_update >= cpu[c].now /\ cpu[c].now <= now
    BY <1>3, <2>1, <2>2 DEF GoesOnOK
  <2>5. ASSUME NEW t \in Sources PROVE BlockedOK(t)'
    <3>1. CASE t = s
      BY <1>2, <2>2, <2>3, <2>4, <3>1 DEF BlockedOK
    <3>2. CASE t # s
      BY <1>2, <2>2, <2>3, <3>2 DEF BlockedInv, BlockedOK, Over
    <3> QED BY <3>1, <3>2
  <2> QED BY <1>6, <1>7, <2>2, <2>5 DEF BlockedInv
<1>19. ASSUME cpu[c].at \in Counting, NEW l \in Counting, cpu'[c].at = l,
              cpu'[c].pkt = cpu[c].pkt, cpu'[c].now = cpu[c].now, UNCHANGED <<mapVars, blocked>>
       PROVE  BlockedInv' /\ HandInv'
  <2>1. cpu[c].at \in IpSteps
    BY <1>19 DEF IpSteps
  <2>2. GoesOnOK(c)'
    BY <1>2, <1>3, <1>19, <2>1, CountingGoesOn DEF mapVars
  <2> QED BY <1>4, <1>8, <1>19, <2>2 DEF mapVars
<1>20. ASSUME cpu[c].at \in Counting, NEW l \in Counting, Goes(c, l), UNCHANGED <<mapVars, blocked>>
       PROVE  BlockedInv' /\ HandInv'
  <2>1. cpu[c].at \in IpSteps
    BY <1>20 DEF IpSteps
  <2> QED BY <1>1, <1>3, <1>19, <1>20, <2>1, GoOn
<1>21. CASE Limit(c)
  <2>1. PICK l \in {"block", "header"} : Goes(c, l)
    BY <1>21 DEF Limit
  <2> QED BY <1>20, <1>21, <2>1 DEF Limit, NoCount, ghostVars, At, Counting, Admitted
<1>22. CASE Header(c)
  <2>1. UNCHANGED <<mapVars, blocked>> /\ cpu[c].at \in Counting
    BY <1>22 DEF Header, At, Counting, Admitted
  <2>2. Verdict(c) \/ Goes(c, "lookup_port")
    BY <1>22 DEF Header, Drop, Pass
  <2> QED BY <1>4, <1>6, <1>7, <1>20, <2>1, <2>2 DEF mapVars, Counting, Admitted, AtPort
<1>23. CASE LookupPort(c)
  <2>1. cpu[c].at \in Counting /\ cpu[c].at \in IpSteps
    BY <1>23 DEF LookupPort, At, IpSteps, Counting, Admitted, AtPort
  <2>2. cpu'[c].at = "count_port" /\ cpu'[c].pkt = cpu[c].pkt /\ cpu'[c].now = cpu[c].now
    BY <1>1, <1>3, <1>23, <2>1 DEF LookupPort, IpOK
  <2> QED BY <1>19, <1>23, <2>1, <2>2 DEF LookupPort, NoCount, ghostVars, Counting, Admitted, AtPort
<1>24. CASE CountPort(c)
  <2>1. cpu[c].at \in Counting /\ cpu[c].at \in IpSteps /\ Goes(c, "limit_port")
        /\ UNCHANGED <<ip_blacklist_t, ip_counter, blocked>>
    BY <1>24 DEF CountPort, At, IpSteps, Counting, Admitted, AtPort, ghostVars
  <2>2. cpu'[c].at = "limit_port" /\ cpu'[c].pkt = cpu[c].pkt /\ cpu'[c].now = cpu[c].now
    BY <1>1, <1>3, <2>1, GoOn
  <2>3. GoesOnOK(c)'
    BY <1>2, <1>3, <2>1, <2>2, CountingGoesOn DEF Counting, Admitted, AtPort
  <2> QED BY <1>4, <1>8, <2>1, <2>3
<1>25. CASE LimitPort(c)
  <2>1. UNCHANGED <<mapVars, blocked>> /\ cpu[c].at \in Counting
    BY <1>25 DEF LimitPort, At, Counting, Admitted, AtPort
  <2>2. Verdict(c) \/ Goes(c, "block")
    BY <1>25 DEF LimitPort, Pass
  <2> QED BY <1>4, <1>6, <1>7, <1>20, <2>1, <2>2 DEF mapVars, Counting
<1> QED
  BY <1>10, <1>11, <1>12, <1>13, <1>14, <1>15, <1>16, <1>17, <1>18, <1>21, <1>22, <1>23, <1>24, <1>25
     DEF Program

(* Time and the operator keep the blocks too: what the operator takes off the
   list is no longer blocked for its packets.                                *)
LEMMA OtherBlocked ==
  ASSUME TypeInv, LimitsInv, BlockedInv, HandInv,
         (Tick /\ UNCHANGED ctlVars) \/ Controller \/ UNCHANGED allVars
  PROVE  BlockedInv' /\ HandInv'
<1>1. UNCHANGED <<ip_counter, cpu>>
  BY DEF Tick, Controller, Edit, Upsert, LookUp, Delete, InsertTemp, InsertPerm, DeleteArp, AddArp, Quit,
         KeepProgram, allVars, vars, mapVars
<1>2. now \in Nat /\ now' \in Nat /\ now <= now'
  <2>1. now \in Nat
    BY FirewallAssumption DEF TypeInv, ControlTypeOK, TypeOK
  <2>2. now' = now \/ now' = now + 1
    BY DEF Tick, Controller, Edit, Upsert, LookUp, Delete, InsertTemp, InsertPerm, DeleteArp, AddArp, Quit,
           KeepProgram, allVars, vars
  <2> QED BY <2>1, <2>2
<1>3. loosest'["unblock_time"] \in Nat /\ loosest'["unblock_time"] <= loosest["unblock_time"]
  <2>1. [ControlNext]_allVars
    BY DEF ControlNext, Next
  <2>2. TypeInv' /\ loosest'["unblock_time"] <= loosest["unblock_time"]
    BY <2>1, StepType, StepLimits
  <2> QED BY <2>2 DEF TypeInv, ControlTypeOK, TypeOK, ConfigKeys
<1>4. ASSUME NEW s \in Sources
      PROVE  \/ blocked'[s].by = "nobody"
             \/ blocked'[s] = blocked[s] /\ (s \in ip_blacklist_t => s \in ip_blacklist_t')
  <2>1. CASE Delete
    <3>1. blocked \in [Sources -> [by : {"nobody", "packet"}, at : Nat]]
      BY DEF TypeInv
    <3>2. CASE ctl.list = "t"
      <4>1. ip_blacklist_t' = ip_blacklist_t \ {ctl.src}
            /\ blocked' = [blocked EXCEPT ![ctl.src] = [by |-> "nobody", at |-> now]]
        BY <2>1, <3>2 DEF Delete
      <4>2. CASE s = ctl.src
        <5>1. blocked'[s] = [by |-> "nobody", at |-> now]
          BY <3>1, <4>1, <4>2
        <5> QED BY <5>1
      <4>3. CASE s # ctl.src
        BY <3>1, <4>1, <4>3
      <4> QED BY <4>2, <4>3
    <3>3. CASE ctl.list # "t"
      BY <2>1, <3>3 DEF Delete
    <3> QED BY <3>2, <3>3
  <2>2. CASE ~Delete
    <3>1. blocked' = blocked /\ ip_blacklist_t \subseteq ip_blacklist_t'
      BY <2>2 DEF Tick, Controller, Edit, Upsert, LookUp, InsertTemp, InsertPerm, DeleteArp, AddArp, Quit,
                  KeepMaps, mapVars, allVars, vars, ghostVars
    <3> QED BY <3>1
  <2> QED BY <2>1, <2>2
<1>5. ASSUME NEW s \in Sources, Over(s) PROVE Over(s)'
  <2>1. CASE blocked'[s].by = "nobody"
    BY <2>1 DEF Over
  <2>2. CASE blocked'[s] = blocked[s]
    BY <1>2, <1>3, <1>5, <2>2, OverStays
  <2> QED BY <1>4, <2>1, <2>2
<1>6. ASSUME NEW s \in Sources PROVE BlockedOK(s)'
  <2>1. BlockedOK(s)
    BY DEF BlockedInv
  <2>2. CASE blocked'[s].by = "nobody"
    BY <2>2 DEF BlockedOK, Over
  <2>3. CASE blocked'[s] = blocked[s] /\ (s \in ip_blacklist_t => s \in ip_blacklist_t')
    <3>1. s \in ip_blacklist_t' \/ Over(s)'
      BY <1>5, <2>1, <2>3 DEF BlockedOK
    <3>2. blocked[s].at \in Nat
      BY DEF TypeInv
    <3>3. blocked'[s].by = "packet" => blocked'[s].at <= now'
      BY <1>2, <2>1, <2>3, <3>2 DEF BlockedOK
    <3> QED BY <1>1, <2>1, <2>3, <3>1, <3>3 DEF BlockedOK
  <2> QED BY <1>4, <2>2, <2>3
<1>7. ASSUME NEW c \in Cpus, cpu[c].at \in IpSteps PROVE GoesOnOK(c)'
  <2>1. PICK s \in Sources : s = Src(c)
    BY <1>7, WhereIs, PacketOK DEF TypeInv
  <2>2. GoesOnOK(c)
    BY <1>7 DEF HandInv
  <2>3. Src(c)' = s
    BY <1>1, <2>1 DEF Src
  <2>4. ~At(c, "blocked") => Over(s)'
    BY <1>5, <2>1, <2>2 DEF GoesOnOK
  <2>5. blocked'[s].by = "packet" => blocked'[s].at <= cpu[c].now
    BY <1>4, <2>1, <2>2 DEF GoesOnOK
  <2> QED BY <1>1, <2>1, <2>2, <2>3, <2>4, <2>5 DEF GoesOnOK, At, Found
<1> QED BY <1>1, <1>6, <1>7 DEF BlockedInv, HandInv

(* On one CPU, every step keeps a source listed until its block is over. *)
LEMMA StepBlocked ==
  ASSUME OneCPU, TypeInv, LimitsInv, BlockedInv, HandInv, [ControlNext]_allVars
  PROVE  BlockedInv' /\ HandInv'
BY ProgramBlocked, OtherBlocked DEF ControlNext, Next

(* Packets only pass in a step of the program on the CPU that has one of the
   source in hand, past both blacklists.                                     *)
LEMMA WhoPasses ==
  ASSUME TypeInv, [ControlNext]_allVars, NEW s \in Sources, Len(passed'[s]) > Len(passed[s])
  PROVE  \E c \in Cpus : /\ cpu[c].at \in {"reset", "header", "limit_port"}
                         /\ Src(c) = s
<1>1. passed \in [Sources -> Seq(Nat)] /\ now \in Nat
  BY FirewallAssumption DEF TypeInv, ControlTypeOK, TypeOK
<1>2. Len(passed[s]) \in Nat
  BY <1>1
<1>3. ASSUME passed' = passed PROVE FALSE
  BY <1>2, <1>3
<1>4. ASSUME Tick PROVE FALSE
  <2>1. passed'[s] = Recent(passed[s])
    BY <1>4 DEF Tick
  <2>2. passed[s] \in Seq(Nat)
    BY <1>1
  <2>3. PICK m \in 0..Len(passed[s]) : Len(Recent(passed[s])) = Len(passed[s]) - m
    BY <1>1, <2>2, RecentOK
  <2> QED BY <1>2, <2>1, <2>3
<1>5. ASSUME NEW c \in Cpus, cpu[c].at \in {"reset", "header", "limit_port"}, Pass(c)
      PROVE  Src(c) = s
  <2>1. HandOK(c)
    BY DEF TypeInv
  <2>2. Src(c) \in Sources
    BY <1>5, <2>1, WhereIs, PacketOK DEF IpSteps, Seeing, Counting, Admitted, AtPort
  <2> QED BY <1>1, <1>2, <1>5, <2>2, PassNotes
<1>6. ASSUME NEW c \in Cpus, Program(c)
      PROVE  cpu[c].at \in {"reset", "header", "limit_port"} /\ Pass(c)
  <2>1. \/ passed' = passed
        \/ PassUnblocked(c) \/ (Header(c) /\ Pass(c)) \/ (LimitPort(c) /\ Pass(c))
    BY <1>6 DEF Program, Receive, ReceiveArp, CheckArp, Admit, DropBlocked, Unblock, Count, Limit,
                Block, Header, LookupPort, CountPort, LimitPort, NoCount, ghostVars, Drop
  <2> QED BY <1>3, <2>1 DEF PassUnblocked, Header, LimitPort, At
<1>7. ASSUME Controller \/ UNCHANGED allVars PROVE FALSE
  BY <1>3, <1>7 DEF Controller, Edit, Upsert, LookUp, Delete, InsertTemp, InsertPerm, DeleteArp, AddArp, Quit,
                    KeepProgram, allVars, vars, ghostVars
<1> QED BY <1>4, <1>5, <1>6, <1>7 DEF ControlNext, Next

(* On one CPU, a source that was blocked for its packets gets none through
   until unblock_time seconds have gone by, however the limits are edited,
   unless the operator takes it off the list.                                *)
THEOREM BlocksLast == ASSUME OneCPU PROVE ControlSpec => BlockLasts
<1>1. ASSUME TypeInv, HandInv, [ControlNext]_allVars, NEW s \in Sources,
             Len(passed'[s]) > Len(passed[s]), blocked[s].by = "packet"
      PROVE  now >= blocked[s].at + loosest["unblock_time"] * Second
  <2>1. PICK c \in Cpus : cpu[c].at \in {"reset", "header", "limit_port"} /\ Src(c) = s
    BY <1>1, WhoPasses
  <2>2. cpu[c].at \in IpSteps /\ ~At(c, "blocked")
    BY <2>1 DEF IpSteps, Seeing, Counting, Admitted, AtPort, At
  <2>3. Over(s)
    BY <1>1, <2>1, <2>2 DEF HandInv, GoesOnOK
  <2> QED BY <1>1, <2>3 DEF Over
<1>2. TypeInv /\ HandInv /\ [ControlNext]_allVars =>
        [\A s \in Sources :
           (Len(passed'[s]) > Len(passed[s]) /\ blocked[s].by = "packet") =>
             now >= blocked[s].at + loosest["unblock_time"] * Second]_vars
  BY <1>1
<1> DEFINE Inv == TypeInv /\ LimitsInv /\ BlockedInv /\ HandInv
<1>3. ControlInit => Inv
  BY InitType, InitLimits, InitBlocked
<1>4. Inv /\ [ControlNext]_allVars => Inv'
  BY StepType, StepLimits, StepBlocked
<1>5. Inv => TypeInv /\ HandInv
  OBVIOUS
<1> HIDE DEF Inv
<1> QED BY <1>2, <1>3, <1>4, <1>5, PTL DEF ControlSpec, BlockLasts

-----------------------------------------------------------------------------
(***************************************************************************)
(* Rates, on one CPU.                                                      *)
(***************************************************************************)

(* What a step of the program does to the windows: nothing, or it begins one
   for a source that is blocked and unknown, passes the packet that ends a
   block, counts a packet, or passes one that was counted.                   *)
LEMMA ProgramMoves ==
  ASSUME TypeInv, NEW c \in Cpus, Program(c)
  PROVE  \/ /\ UNCHANGED <<passed, ip_counter>>
            /\ cpu'[c].at \in IpSteps =>
                 \/ cpu'[c].at \in {"blocked", "count"} /\ cpu'[c].now = now
                 \/ /\ cpu[c].at \in IpSteps
                    /\ cpu'[c].pkt = cpu[c].pkt /\ cpu'[c].now = cpu[c].now
                    /\ cpu'[c].at \in Counting => cpu[c].at \in Counting
                    /\ cpu'[c].at \in Admitted =>
                         cpu[c].at \in Admitted \/ (cpu[c].at = "limit" /\ ~OverLimit(c))
         \/ DropBlocked(c) /\ ~Found(c)
         \/ PassUnblocked(c)
         \/ Count(c)
         \/ cpu[c].at \in {"header", "limit_port"} /\ Pass(c) /\ UNCHANGED ip_counter
<1>1. DOMAIN cpu = Cpus /\ HandOK(c)
  BY DEF TypeInv
<1>2. cpu[c].at \in IpSteps => IpOK(c)
  BY <1>1, WhereIs
<1>3. ASSUME cpu'[c] = Idle PROVE cpu'[c].at \notin IpSteps
  BY <1>3 DEF Idle, IpSteps, Seeing, Counting, Admitted, AtPort
<1>4. Verdict(c) => cpu'[c] = Idle
  BY <1>1 DEF Verdict
<1>5. ASSUME NEW p \in Packets, Receive(c, p)
      PROVE  /\ UNCHANGED <<passed, ip_counter>>
             /\ \/ cpu' = cpu
                \/ cpu'[c].at \in {"blocked", "count"} /\ cpu'[c].now = now
  BY <1>1, <1>5 DEF Receive, NoCount, mapVars, ghostVars
<1>6. ASSUME NEW p \in ArpPackets, ReceiveArp(c, p)
      PROVE  UNCHANGED <<passed, ip_counter>> /\ cpu'[c].at \notin IpSteps
  BY <1>1, <1>6 DEF ReceiveArp, NoCount, mapVars, ghostVars, IpSteps, Seeing, Counting, Admitted, AtPort
<1>7. ASSUME CheckArp(c) \/ Admit(c)
      PROVE  UNCHANGED <<passed, ip_counter>> /\ cpu'[c].at \notin IpSteps
  <2>1. ArpOK(c)
    BY <1>1, <1>7, WhereIs DEF CheckArp, Admit, At, ArpSteps
  <2>2. cpu'[c].at \in {"admit", "idle"}
    BY <1>1, <1>7, <2>1 DEF CheckArp, Admit, Goes, Verdict, Idle, ArpOK
  <2> QED BY <1>7, <2>2 DEF CheckArp, Admit, NoCount, mapVars, ghostVars, IpSteps, Seeing, Counting,
                            Admitted, AtPort
<1>8. ASSUME DropBlocked(c)
      PROVE  \/ UNCHANGED <<passed, ip_counter>> /\ cpu'[c].at \notin IpSteps
             \/ ~Found(c)
  BY <1>3, <1>4, <1>8 DEF DropBlocked, Drop
<1>9. ASSUME Block(c)
      PROVE  UNCHANGED <<passed, ip_counter>> /\ cpu'[c].at \notin IpSteps
  BY <1>3, <1>4, <1>9 DEF Block, Drop
<1>10. ASSUME cpu[c].at \in IpSteps, NEW l, Goes(c, l)
       PROVE  cpu'[c].at = l /\ cpu'[c].pkt = cpu[c].pkt /\ cpu'[c].now = cpu[c].now
  BY <1>1, <1>2, <1>10, GoOn
<1>11. ASSUME Unblock(c)
       PROVE  /\ UNCHANGED <<passed, ip_counter>> /\ cpu[c].at \in IpSteps
              /\ cpu'[c].at \notin Counting
              /\ cpu'[c].pkt = cpu[c].pkt /\ cpu'[c].now = cpu[c].now
  BY <1>10, <1>11 DEF Unblock, At, ghostVars, IpSteps, Seeing, Counting, Admitted, AtPort
<1>12. ASSUME Limit(c)
       PROVE  /\ UNCHANGED <<passed, ip_counter>> /\ cpu[c].at \in IpSteps /\ cpu[c].at = "limit"
              /\ cpu'[c].at \in Admitted => ~OverLimit(c)
              /\ cpu'[c].pkt = cpu[c].pkt /\ cpu'[c].now = cpu[c].now
  <2>1. cpu[c].at = "limit" /\ cpu[c].at \in IpSteps /\ UNCHANGED <<passed, ip_counter>>
    BY <1>12 DEF Limit, At, NoCount, mapVars, ghostVars, IpSteps, Counting
  <2>2. CASE OverLimit(c)
    BY <1>10, <1>12, <2>1, <2>2 DEF Limit, Admitted, AtPort
  <2>3. CASE ~OverLimit(c)
    BY <1>10, <1>12, <2>1, <2>3 DEF Limit, Admitted, AtPort
  <2> QED BY <2>2, <2>3
<1>13. ASSUME Header(c)
       PROVE  \/ /\ UNCHANGED <<passed, ip_counter>> /\ cpu'[c].at \notin IpSteps
              \/ /\ UNCHANGED <<passed, ip_counter>> /\ cpu[c].at \in IpSteps
                 /\ cpu[c].at \in Admitted /\ cpu'[c].pkt = cpu[c].pkt /\ cpu'[c].now = cpu[c].now
              \/ cpu[c].at \in {"header", "limit_port"} /\ Pass(c) /\ UNCHANGED ip_counter
  BY <1>3, <1>4, <1>10, <1>13 DEF Header, At, Drop, mapVars, IpSteps, Counting, Admitted
<1>14. ASSUME LookupPort(c)
       PROVE  /\ UNCHANGED <<passed, ip_counter>> /\ cpu[c].at \in IpSteps
              /\ cpu[c].at \in Admitted /\ cpu'[c].pkt = cpu[c].pkt /\ cpu'[c].now = cpu[c].now
  <2>1. cpu[c].at \in IpSteps /\ cpu[c].at \in Admitted
    BY <1>14 DEF LookupPort, At, IpSteps, Counting, Admitted, AtPort
  <2> QED BY <1>1, <1>2, <1>14, <2>1 DEF LookupPort, IpOK, NoCount, mapVars, ghostVars
<1>15. ASSUME CountPort(c)
       PROVE  /\ UNCHANGED <<passed, ip_counter>> /\ cpu[c].at \in IpSteps
              /\ cpu[c].at \in Admitted /\ cpu'[c].pkt = cpu[c].pkt /\ cpu'[c].now = cpu[c].now
  BY <1>10, <1>15 DEF CountPort, At, ghostVars, IpSteps, Counting, Admitted, AtPort
<1>16. ASSUME LimitPort(c)
       PROVE  \/ /\ UNCHANGED <<passed, ip_counter>> /\ cpu[c].at \in IpSteps
                 /\ cpu[c].at \in Admitted /\ cpu'[c].pkt = cpu[c].pkt /\ cpu'[c].now = cpu[c].now
              \/ cpu[c].at \in {"header", "limit_port"} /\ Pass(c) /\ UNCHANGED ip_counter
  BY <1>10, <1>16 DEF LimitPort, At, mapVars, IpSteps, Counting, Admitted, AtPort
<1>17. Admitted \subseteq Counting
  BY DEF Counting
<1>18. cpu'[c] = cpu[c] => cpu'[c].pkt = cpu[c].pkt /\ cpu'[c].now = cpu[c].now
  OBVIOUS
<1>19. ASSUME NEW p \in Packets, Receive(c, p) PROVE cpu[c].at = "idle" /\ "idle" \notin IpSteps
  BY <1>19 DEF Receive, At, IpSteps, Seeing, Counting, Admitted, AtPort
<1>20. CASE \E p \in Packets : Receive(c, p)
  BY <1>5, <1>19, <1>20
<1>21. CASE (\E p \in ArpPackets : ReceiveArp(c, p)) \/ CheckArp(c) \/ Admit(c) \/ Block(c) \/ DropBlocked(c)
  BY <1>6, <1>7, <1>8, <1>9, <1>21
<1>22. CASE Unblock(c) \/ LookupPort(c) \/ CountPort(c)
  BY <1>11, <1>14, <1>15, <1>17, <1>22
<1>23. CASE Limit(c)
  <2>1. cpu[c].at \in Counting
    BY <1>12, <1>23 DEF Counting
  <2> QED BY <1>12, <1>17, <1>23, <2>1
<1>24. CASE Header(c) \/ LimitPort(c)
  BY <1>13, <1>16, <1>17, <1>24
<1> QED BY <1>20, <1>21, <1>22, <1>23, <1>24 DEF Program

(* A limit cut to 32 bits is no looser. *)
LEMMA ModAtMost ==
  ASSUME NEW n \in Nat, NEW m \in Nat \ {0}
  PROVE  n % m <= n /\ n % m \in Nat
OBVIOUS

(* Adding the present to times in order keeps them in order. *)
LEMMA AppendNow ==
  ASSUME NEW q \in Seq(Nat), NEW t \in Nat
  PROVE  /\ Append(q, t) \in Seq(Nat) /\ Len(Append(q, t)) = Len(q) + 1 /\ Len(q) \in Nat
         /\ \A i \in 1..Len(q) : Append(q, t)[i] = q[i]
         /\ Append(q, t)[Len(q) + 1] = t
         /\ InOrder(q) /\ (\A i \in 1..Len(q) : q[i] <= t) => InOrder(Append(q, t))
<1> DEFINE n == Len(q)
           r == Append(q, t)
<1>1. n \in Nat /\ Len(r) = n + 1 /\ r \in Seq(Nat) /\ r[n + 1] = t /\ \A i \in 1..n : r[i] = q[i]
  OBVIOUS
<1> HIDE DEF r, n
<1>2. ASSUME \A i, j \in 1..n : i <= j => q[i] <= q[j], \A i \in 1..n : q[i] <= t,
             NEW i \in 1..(n + 1), NEW j \in 1..(n + 1), i <= j
      PROVE  r[i] <= r[j]
  <2>1. CASE j \in 1..n
    <3>1. i \in 1..n
      BY <1>1, <1>2, <2>1
    <3> QED BY <1>1, <1>2, <2>1, <3>1
  <2>2. CASE j = n + 1 /\ i \in 1..n
    BY <1>1, <1>2, <2>2
  <2>3. CASE i = n + 1 /\ j = n + 1
    BY <1>1, <2>3
  <2> QED BY <1>1, <1>2, <2>1, <2>2, <2>3
<1> QED BY <1>1, <1>2 DEF InOrder, r, n

(* No packet has passed when the program is attached. *)
LEMMA InitTimes == ControlInit => TimesInv /\ WindowInv
<1> SUFFICES ASSUME ControlInit PROVE TimesInv /\ WindowInv
  OBVIOUS
<1>1. /\ \A s \in Sources : passed[s] = << >>
      /\ \A c \in Cpus : cpu[c].at \notin IpSteps /\ cpu[c].at \notin Admitted
      /\ DOMAIN ip_counter = {} /\ loosest["pps"] \in Nat
  BY FirewallAssumption DEF ControlInit, Init, Idle, IpSteps, Seeing, Counting, Admitted, AtPort,
                            Nothing, ConfigKeys, Limits
<1>2. \A s \in Sources : Split(s, 0) /\ 0 \in 0..Len(passed[s])
  BY <1>1 DEF Split
<1> QED BY <1>1, <1>2 DEF TimesInv, TimesOK, InOrder, WindowInv, WindowOK

(* Every step of the program keeps the times in order. *)
LEMMA ProgramTimes ==
  ASSUME OneCPU, TypeInv, TypeInv', TimesInv, NEW c \in Cpus, Program(c)
  PROVE  TimesInv'
<1>1. /\ now \in Nat /\ DOMAIN cpu = Cpus /\ HandOK(c) /\ passed \in [Sources -> Seq(Nat)]
      /\ \A d \in Cpus : d = c
  BY FirewallAssumption DEF TypeInv, ControlTypeOK, TypeOK, OneCPU
<1>2. now' = now
  BY DEF Program, Receive, ReceiveArp, CheckArp, Admit, DropBlocked, Unblock, PassUnblocked,
         Count, Limit, Block, Header, LookupPort, CountPort, LimitPort, Kept
<1>3. cpu'[c].at \in IpSteps => Src(c)' \in Sources
  <2>1. HandOK(c)'
    BY DEF TypeInv
  <2> QED BY <2>1, FirewallAssumption
          DEF HandOK, IdleOK, ArpOK, IpOK, Idle, Src, Pkt, ArpSteps, IpSteps, Seeing, Counting, Admitted, AtPort
<1>4. ASSUME passed' = passed,
             cpu'[c].at \in IpSteps =>
               \/ cpu'[c].now = now
               \/ cpu[c].at \in IpSteps /\ cpu'[c].pkt = cpu[c].pkt /\ cpu'[c].now = cpu[c].now
      PROVE  TimesInv'
  <2>1. \A s \in Sources : TimesOK(s)'
    BY <1>2, <1>4 DEF TimesInv, TimesOK
  <2>2. ASSUME cpu'[c].at \in IpSteps PROVE EarlierOK(c)'
    <3>1. CASE cpu'[c].now = now
      BY <1>3, <1>4, <2>2, <3>1 DEF TimesInv, TimesOK, EarlierOK
    <3>2. CASE cpu[c].at \in IpSteps /\ cpu'[c].pkt = cpu[c].pkt /\ cpu'[c].now = cpu[c].now
      BY <1>4, <3>2 DEF TimesInv, EarlierOK, Src
    <3> QED BY <1>4, <2>2, <3>1, <3>2
  <2> QED BY <1>1, <2>1, <2>2 DEF TimesInv
<1>5. ASSUME Pass(c), cpu[c].at \in IpSteps PROVE TimesInv'
  <2>1. PICK s \in Sources : s = Src(c)
    BY <1>1, <1>5, WhereIs, PacketOK
  <2>2. /\ passed'[s] = Append(passed[s], now) /\ cpu'[c] = Idle
        /\ \A t \in Sources : t # s => passed'[t] = passed[t]
    BY <1>1, <1>5, <2>1, PassNotes DEF Verdict
  <2>3. passed[s] \in Seq(Nat) /\ TimesOK(s)
    BY <1>1 DEF TimesInv
  <2>4. TimesOK(s)'
    <3>1. InOrder(passed'[s])
      BY <1>1, <2>2, <2>3, AppendNow DEF TimesOK
    <3>2. ASSUME NEW i \in 1..Len(passed'[s])
          PROVE  passed'[s][i] <= now' /\ now' < passed'[s][i] + Second
      <4>1. Len(passed[s]) \in Nat /\ Len(passed'[s]) = Len(passed[s]) + 1
            /\ passed'[s][Len(passed[s]) + 1] = now
            /\ \A j \in 1..Len(passed[s]) : passed'[s][j] = passed[s][j]
        BY <1>1, <2>2, <2>3, AppendNow
      <4>2. CASE i \in 1..Len(passed[s])
        BY <1>2, <2>3, <4>1, <4>2 DEF TimesOK
      <4>3. CASE i = Len(passed[s]) + 1
        BY <1>1, <1>2, <4>1, <4>3, FirewallAssumption
      <4> QED BY <4>1, <4>2, <4>3
    <3> QED BY <3>1, <3>2 DEF TimesOK
  <2>5. \A t \in Sources : t # s => TimesOK(t)'
    BY <1>2, <2>2 DEF TimesInv, TimesOK
  <2>6. cpu'[c].at \notin IpSteps
    BY <2>2 DEF Idle, IpSteps, Seeing, Counting, Admitted, AtPort
  <2> QED BY <1>1, <2>4, <2>5, <2>6 DEF TimesInv
<1>6. CASE DropBlocked(c)
  <2>1. cpu'[c] = Idle /\ passed' = passed
    BY <1>1, <1>6 DEF DropBlocked, Drop, Verdict
  <2> QED BY <1>4, <2>1 DEF Idle, IpSteps, Seeing, Counting, Admitted, AtPort
<1>7. CASE Count(c)
  <2>1. cpu[c].at \in IpSteps /\ Goes(c, "limit") /\ passed' = passed
    BY <1>7 DEF Count, At, ghostVars, IpSteps, Seeing
  <2>2. cpu'[c].pkt = cpu[c].pkt /\ cpu'[c].now = cpu[c].now
    BY <1>1, <2>1, WhereIs, GoOn
  <2> QED BY <1>4, <2>1, <2>2
<1>8. CASE PassUnblocked(c)
  BY <1>5, <1>8 DEF PassUnblocked, At, IpSteps, Seeing
<1>9. {"header", "limit_port"} \subseteq IpSteps
  BY DEF IpSteps, Counting, Admitted, AtPort
<1> QED BY <1>4, <1>5, <1>6, <1>7, <1>8, <1>9, ProgramMoves

(* Every step of the program keeps the windows: no more than two share the
   last second, and none lets more packets through than the loosest limit.   *)
LEMMA ProgramWindow ==
  ASSUME OneCPU, SomePps, TypeInv, LimitsInv, BlockedInv, HandInv, TimesInv, WindowInv,
         NEW c \in Cpus, Program(c)
  PROVE  WindowInv'
<1> DEFINE L == loosest["pps"]
<1>1. /\ now \in Nat /\ DOMAIN cpu = Cpus /\ HandOK(c) /\ passed \in [Sources -> Seq(Nat)]
      /\ IsMap(ip_counter, Sources, Counter)
      /\ \A d \in Cpus : d = c
  BY FirewallAssumption DEF TypeInv, ControlTypeOK, TypeOK, OneCPU
<1>2. now' = now /\ loosest' = loosest
  BY DEF Program, Receive, ReceiveArp, CheckArp, Admit, DropBlocked, Unblock, PassUnblocked,
         Count, Limit, Block, Header, LookupPort, CountPort, LimitPort, Kept, setVars
<1>3. L \in Nat /\ L >= 1
  <2>1. "pps" \in ConfigKeys
    BY DEF ConfigKeys, Limits
  <2>2. L \in Nat /\ Config["pps"] \in Nat
    BY <2>1, FirewallAssumption DEF TypeInv, ControlTypeOK, TypeOK
  <2>3. Config["pps"] <= L /\ Config["pps"] # 0
    BY DEF LimitsInv, SomePps
  <2> QED BY <2>2, <2>3
<1>4. cpu[c].at \in IpSteps =>
        /\ IpOK(c) /\ GoesOnOK(c) /\ EarlierOK(c)
        /\ Src(c) \in Sources /\ cpu[c].now \in Nat /\ cpu[c].now <= now
  <2>1. IpOK(c) => cpu[c].now \in Nat /\ cpu[c].now <= now
    BY <1>1 DEF IpOK
  <2> QED BY <1>1, <2>1, WhereIs, PacketOK DEF HandInv, TimesInv
<1>5. \A s \in Sources : passed[s] \in Seq(Nat) /\ Len(passed[s]) \in Nat
  BY <1>1
<1>6. cpu'[c] = Idle => cpu'[c].at \notin Counting /\ cpu'[c].at \notin Admitted
  BY DEF Idle, Counting, Admitted, AtPort
<1>7. Verdict(c) => cpu'[c] = Idle
  BY <1>1 DEF Verdict
<1>8. ASSUME NEW s \in Sources, WindowOK(s), passed'[s] = passed[s],
             s \in DOMAIN ip_counter' <=> s \in DOMAIN ip_counter,
             s \in DOMAIN ip_counter => ip_counter'[s] = ip_counter[s],
             (cpu'[c].at \in Counting /\ Src(c)' = s) => (cpu[c].at \in Counting /\ Src(c) = s)
      PROVE  WindowOK(s)'
  <2>1. PICK k \in 0..Len(passed[s]) : Split(s, k)
    BY <1>8 DEF WindowOK
  <2>2. Split(s, k)'
    BY <1>1, <1>2, <1>8, <2>1 DEF Split
  <2> QED BY <1>8, <2>2 DEF WindowOK
<1>9. ASSUME NEW s \in Sources, s \in DOMAIN ip_counter, ip_counter[s].next_update <= cpu[c].now,
             s = Src(c), cpu[c].at \in IpSteps
      PROVE  Len(passed[s]) <= L
  <2>1. PICK k \in 0..Len(passed[s]) : Split(s, k)
    BY DEF WindowInv, WindowOK
  <2>2. ASSUME k # 0 PROVE FALSE
    <3>1. passed[s][1] + Second <= ip_counter[s].next_update /\ 1 \in 1..Len(passed[s])
      BY <1>5, <1>9, <2>1, <2>2 DEF Split
    <3>2. now < passed[s][1] + Second /\ passed[s][1] \in Nat
      BY <1>5, <3>1 DEF TimesInv, TimesOK
    <3>3. ip_counter[s].next_update \in Nat
      BY <1>1, <1>9 DEF IsMap, Counter
    <3> QED BY <1>1, <1>4, <1>9, <3>1, <3>2, <3>3, FirewallAssumption
  <2> QED BY <1>5, <2>1, <2>2 DEF Split
<1>10. ASSUME NEW s \in Sources, ip_counter[s].pps <= L, s \in DOMAIN ip_counter, s = Src(c),
              cpu[c].at \in Counting, ip_counter' = ip_counter,
              passed'[s] = Append(passed[s], now), cpu'[c] = Idle
       PROVE  WindowOK(s)'
  <2>1. PICK k \in 0..Len(passed[s]) : Split(s, k)
    BY DEF WindowInv, WindowOK
  <2>2. ip_counter[s].pps \in Nat /\ ip_counter[s].next_update \in Nat
    BY <1>1, <1>10 DEF IsMap, Counter
  <2>3. Len(passed'[s]) = Len(passed[s]) + 1 /\ \A i \in 1..k : passed'[s][i] = passed[s][i]
    BY <1>1, <1>5, <1>10, AppendNow
  <2>4. Len(passed[s]) - k < ip_counter[s].pps
    BY <1>10, <2>1 DEF Split
  <2>5. k \in 0..Len(passed'[s])
    BY <1>5, <2>3
  <2>6. Split(s, k)'
    <3>1. /\ k \in Nat /\ k <= L /\ Len(passed[s]) \in Nat
          /\ \A i \in 1..k : passed[s][i] + Second <= ip_counter[s].next_update
      BY <1>5, <1>10, <2>1 DEF Split
    <3>2. Len(passed'[s]) - k <= ip_counter[s].pps /\ Len(passed'[s]) - k <= L
      BY <1>3, <1>10, <2>2, <2>3, <2>4, <3>1
    <3>3. \A i \in 1..k : passed'[s][i] + Second <= ip_counter'[s].next_update
      BY <1>10, <2>3, <3>1
    <3>4. \A d \in Cpus : cpu'[d].at \notin Counting
      BY <1>1, <1>6, <1>10
    <3> QED BY <1>2, <1>10, <3>1, <3>2, <3>3, <3>4 DEF Split
  <2> QED BY <1>10, <2>5, <2>6 DEF WindowOK
<1> HIDE DEF L
<1>11. CASE /\ UNCHANGED <<passed, ip_counter>>
            /\ cpu'[c].at \in IpSteps =>
                 \/ cpu'[c].at \in {"blocked", "count"} /\ cpu'[c].now = now
                 \/ /\ cpu[c].at \in IpSteps
                    /\ cpu'[c].pkt = cpu[c].pkt /\ cpu'[c].now = cpu[c].now
                    /\ cpu'[c].at \in Counting => cpu[c].at \in Counting
                    /\ cpu'[c].at \in Admitted =>
                         cpu[c].at \in Admitted \/ (cpu[c].at = "limit" /\ ~OverLimit(c))
  <2>1. cpu'[c].at \in Counting => cpu[c].at \in Counting /\ cpu'[c].pkt = cpu[c].pkt
    BY <1>11 DEF IpSteps, Counting, Admitted, AtPort
  <2>2. \A s \in Sources : WindowOK(s)'
    BY <1>8, <1>11, <2>1 DEF WindowInv, Src
  <2>3. ASSUME cpu'[c].at \in Admitted PROVE (ip_counter[Src(c)].pps <= L)'
    <3>1. cpu'[c].pkt = cpu[c].pkt /\ cpu[c].at \in IpSteps
          /\ (cpu[c].at \in Admitted \/ (cpu[c].at = "limit" /\ ~OverLimit(c)))
      BY <1>11, <2>3 DEF IpSteps, Counting, Admitted, AtPort
    <3>2. CASE cpu[c].at \in Admitted
      BY <1>2, <1>11, <3>1, <3>2 DEF WindowInv, Src, L
    <3>3. CASE cpu[c].at = "limit" /\ ~OverLimit(c)
      <4> DEFINE lim == LimitOf("pps")
      <4>1. lim \in Nat /\ lim <= L
        BY FirewallAssumption
           DEF TypeInv, ControlTypeOK, TypeOK, LimitsInv, LimitOf, ConfigKeys, Limits, L
      <4>2. Src(c) \in DOMAIN ip_counter /\ ip_counter[Src(c)].pps \in Nat
        BY <1>1, <1>4, <3>1, <3>3 DEF GoesOnOK, Counting, IsMap, Counter
      <4>3. ~(ip_counter[Src(c)].pps > lim % U32)
        BY <3>3 DEF OverLimit
      <4> HIDE DEF lim
      <4>4. lim % U32 <= lim /\ lim % U32 \in Nat
        BY <4>1, FirewallAssumption, ModAtMost
      <4>5. ip_counter[Src(c)].pps <= L
        BY <1>3, <4>1, <4>2, <4>3, <4>4
      <4> QED BY <1>2, <1>11, <3>1, <4>5 DEF Src, L
    <3> QED BY <3>1, <3>2, <3>3
  <2> QED BY <1>1, <2>2, <2>3 DEF WindowInv, L
<1>12. CASE DropBlocked(c) /\ ~Found(c)
  <2>1. PICK s \in Sources : s = Src(c) /\ cpu[c].at \in IpSteps /\ cpu[c].at \in Seeing
    BY <1>4, <1>12 DEF DropBlocked, At, IpSteps, Seeing
  <2>2. s \notin DOMAIN ip_counter
    BY <1>4, <1>12, <2>1 DEF GoesOnOK, Found
  <2>3. cpu'[c] = Idle /\ passed' = passed
        /\ (ip_counter' = ip_counter \/ ip_counter' = Put(ip_counter, s, Fresh(cpu[c].now, Pkt(c).len)))
    BY <1>7, <1>12, <2>1 DEF DropBlocked, Drop
  <2>4. Len(passed[s]) = 0
    BY <2>2 DEF WindowInv, WindowOK
  <2>5. WindowOK(s)'
    <3>1. s \in DOMAIN ip_counter' => ip_counter'[s].pps = 1
      BY <2>2, <2>3 DEF Put, Fresh
    <3>2. Split(s, 0)'
      BY <1>1, <1>2, <1>3, <1>6, <2>3, <2>4, <3>1 DEF Split, L
    <3> QED BY <2>3, <2>4, <3>2 DEF WindowOK
  <2>6. \A t \in Sources : t # s => WindowOK(t)'
    <3>1. \A t \in Sources : t # s =>
            /\ t \in DOMAIN ip_counter' <=> t \in DOMAIN ip_counter
            /\ t \in DOMAIN ip_counter => ip_counter'[t] = ip_counter[t]
      BY <2>3 DEF Put
    <3> QED BY <1>6, <1>8, <2>3, <3>1 DEF WindowInv
  <2> QED BY <1>1, <1>6, <2>3, <2>5, <2>6 DEF WindowInv
<1>13. CASE PassUnblocked(c)
  <2>1. PICK s \in Sources : s = Src(c) /\ cpu[c].at \in IpSteps /\ cpu[c].at \in Seeing
    BY <1>4, <1>13 DEF PassUnblocked, At, IpSteps, Seeing
  <2>2. /\ passed'[s] = Append(passed[s], now) /\ cpu'[c] = Idle
        /\ \A t \in Sources : t # s => passed'[t] = passed[t]
        /\ ip_counter' = Put(ip_counter, s, Fresh(cpu[c].now, Pkt(c).len))
    BY <1>1, <1>7, <1>13, <2>1, PassNotes DEF PassUnblocked
  <2>3. s \in DOMAIN ip_counter /\ ip_counter[s].next_update <= cpu[c].now
    <3>1. Found(c) /\ cpu[c].now >= ip_counter[s].next_update
      BY <1>4, <1>13, <2>1 DEF PassUnblocked, GoesOnOK
    <3>2. s \in DOMAIN ip_counter
      BY <1>4, <2>1, <3>1 DEF GoesOnOK, Found
    <3>3. ip_counter[s].next_update \in Nat
      BY <1>1, <3>2 DEF IsMap, Counter
    <3> QED BY <1>4, <2>1, <3>1, <3>2, <3>3
  <2>4. Len(passed[s]) <= L
    BY <1>9, <2>1, <2>3
  <2>5. WindowOK(s)'
    <3>1. s \in DOMAIN ip_counter' /\ ip_counter'[s].pps = 1
          /\ ip_counter'[s].next_update = cpu[c].now + Second
      BY <2>2 DEF Put, Fresh
    <3>2. Len(passed'[s]) = Len(passed[s]) + 1
          /\ \A i \in 1..Len(passed[s]) : passed'[s][i] = passed[s][i]
      BY <1>1, <1>5, <2>2, AppendNow
    <3>3. ASSUME NEW i \in 1..Len(passed[s]) PROVE passed'[s][i] + Second <= ip_counter'[s].next_update
      <4>1. passed[s][i] <= cpu[c].now /\ passed[s][i] \in Nat
        BY <1>4, <1>5, <2>1 DEF EarlierOK
      <4>2. cpu[c].now \in Nat /\ Second \in Nat
        BY <1>4, <2>1, FirewallAssumption
      <4>3. passed[s][i] + Second <= cpu[c].now + Second
        BY <4>1, <4>2
      <4> QED BY <3>1, <3>2, <4>3
    <3>4. Len(passed[s]) \in 0..Len(passed'[s])
      BY <1>5, <3>2
    <3>5. PICK n \in Nat : n = Len(passed[s])
      BY <1>5
    <3>6. Split(s, n)'
      <4>1. \A d \in Cpus : cpu'[d].at \notin Counting
        BY <1>1, <1>6, <2>2
      <4>2. n <= L /\ Len(passed'[s]) - n = 1 /\ 1 <= L
        BY <1>3, <2>4, <3>2, <3>5
      <4>3. n <= loosest'["pps"] /\ Len(passed'[s]) - n <= loosest'["pps"]
        BY <1>2, <4>2 DEF L
      <4>4. \A i \in 1..n : passed'[s][i] + Second <= ip_counter'[s].next_update
        BY <3>3, <3>5
      <4>5. Len(passed'[s]) - n <= ip_counter'[s].pps
        BY <3>1, <4>2
      <4> QED BY <4>1, <4>3, <4>4, <4>5 DEF Split
    <3>7. n \in 0..Len(passed'[s])
      BY <3>4, <3>5
    <3> QED BY <3>1, <3>6, <3>7 DEF WindowOK
  <2>6. \A t \in Sources : t # s => WindowOK(t)'
    <3>1. \A t \in Sources : t # s =>
            /\ t \in DOMAIN ip_counter' <=> t \in DOMAIN ip_counter
            /\ t \in DOMAIN ip_counter => ip_counter'[t] = ip_counter[t]
      BY <2>2 DEF Put
    <3> QED BY <1>6, <1>8, <2>2, <3>1 DEF WindowInv
  <2> QED BY <1>1, <1>6, <2>2, <2>5, <2>6 DEF WindowInv
<1>14. CASE Count(c)
  <2>1. PICK s \in Sources : s = Src(c) /\ cpu[c].at \in IpSteps /\ cpu[c].at = "count"
                               /\ cpu[c].at \in Seeing
    BY <1>4, <1>14 DEF Count, At, IpSteps, Seeing
  <2>2. Goes(c, "limit") /\ passed' = passed /\ ip_counter' = Put(ip_counter, s, Counted(c))
    BY <1>14, <2>1 DEF Count, ghostVars
  <2>3. cpu'[c].at = "limit" /\ cpu'[c].pkt = cpu[c].pkt
    BY <1>1, <1>4, <2>1, <2>2, GoOn
  <2>4. s \in DOMAIN ip_counter' /\ ip_counter'[s] = Counted(c)
    BY <2>2 DEF Put
  <2>5. IpOK(c) /\ At(c, "count") /\ GoesOnOK(c) /\ cpu[c].now \in Nat
    BY <1>4, <2>1 DEF At
  <2>6. Counted(c).pps \in Nat \ {0} /\ Counted(c).next_update \in Nat
    BY <1>1, <2>5, CountedOK DEF Counter
  <2>7. WindowOK(s)'
    <3>1. CASE InWindow(c, Src(c))
      <4>1. s \in DOMAIN ip_counter /\ cpu[c].seen[s] = ip_counter[s]
        BY <1>1, <2>1, <2>5, <3>1, CountedOK DEF GoesOnOK, Found
      <4>2. Counted(c).pps = ip_counter[s].pps + 1 /\ Counted(c).next_update = ip_counter[s].next_update
        BY <1>1, <2>1, <2>5, <3>1, <4>1, CountedOK
      <4>3. ip_counter[s].pps \in Nat
        BY <1>1, <4>1 DEF IsMap, Counter
      <4>4. PICK k \in 0..Len(passed[s]) : Split(s, k)
        BY DEF WindowInv, WindowOK
      <4>5. Len(passed[s]) - k <= ip_counter[s].pps
        BY <4>1, <4>4 DEF Split
      <4>6. Len(passed[s]) - k < Counted(c).pps /\ Len(passed[s]) - k <= Counted(c).pps
        BY <1>5, <4>2, <4>3, <4>5
      <4>7. Split(s, k)'
        BY <1>2, <2>2, <2>4, <4>1, <4>2, <4>4, <4>6 DEF Split
      <4> QED BY <2>2, <2>4, <4>7 DEF WindowOK
    <3>2. CASE ~InWindow(c, Src(c))
      <4>1. Counted(c).pps = 1 /\ Counted(c).next_update = cpu[c].now + Second
        BY <1>1, <2>5, <3>2, CountedOK
      <4>2. Len(passed[s]) <= L
        <5>1. CASE s \in DOMAIN ip_counter
          <6>1. s \in DOMAIN cpu[c].seen /\ cpu[c].seen[s] = ip_counter[s]
            BY <2>1, <2>5, <5>1 DEF GoesOnOK, Found
          <6>2. ip_counter[s].next_update < cpu[c].now
            BY <1>1, <2>1, <2>5, <3>2, <6>1, CountedOK
          <6>3. ip_counter[s].next_update \in Nat
            BY <1>1, <5>1 DEF IsMap, Counter
          <6>4. ip_counter[s].next_update <= cpu[c].now
            BY <2>5, <6>2, <6>3
          <6> QED BY <1>9, <2>1, <5>1, <6>4
        <5>2. CASE s \notin DOMAIN ip_counter
          BY <1>3, <5>2 DEF WindowInv, WindowOK
        <5> QED BY <5>1, <5>2
      <4>3. \A i \in 1..Len(passed[s]) : passed[s][i] + Second <= cpu[c].now + Second
        <5>1. \A i \in 1..Len(passed[s]) : passed[s][i] <= cpu[c].now /\ passed[s][i] \in Nat
          BY <1>4, <1>5, <2>1 DEF EarlierOK
        <5> QED BY <2>5, <5>1, FirewallAssumption
      <4>4. PICK n \in Nat : n = Len(passed[s])
        BY <1>5
      <4>5. Split(s, n)'
        BY <1>2, <1>3, <2>2, <2>4, <4>1, <4>2, <4>3, <4>4 DEF Split, L
      <4>6. n \in 0..Len(passed'[s])
        BY <2>2, <4>4
      <4> QED BY <2>4, <4>5, <4>6 DEF WindowOK
    <3> QED BY <3>1, <3>2
  <2>8. \A t \in Sources : t # s => WindowOK(t)'
    <3>1. \A t \in Sources : t # s =>
            /\ t \in DOMAIN ip_counter' <=> t \in DOMAIN ip_counter
            /\ t \in DOMAIN ip_counter => ip_counter'[t] = ip_counter[t]
      BY <2>2 DEF Put
    <3>2. Src(c)' = s
      BY <2>1, <2>3 DEF Src
    <3> QED BY <1>8, <2>2, <3>1, <3>2 DEF WindowInv
  <2>9. cpu'[c].at \notin Admitted
    BY <2>3 DEF Admitted, AtPort
  <2> QED BY <1>1, <2>7, <2>8, <2>9 DEF WindowInv
<1>15. CASE cpu[c].at \in {"header", "limit_port"} /\ Pass(c) /\ UNCHANGED ip_counter
  <2>1. cpu[c].at \in IpSteps /\ cpu[c].at \in Counting /\ cpu[c].at \in Admitted
    BY <1>15 DEF IpSteps, Counting, Admitted, AtPort
  <2>2. PICK s \in Sources : s = Src(c)
    BY <1>4, <2>1
  <2>3. /\ passed'[s] = Append(passed[s], now) /\ cpu'[c] = Idle
        /\ \A t \in Sources : t # s => passed'[t] = passed[t]
    BY <1>1, <1>7, <1>15, <2>2, PassNotes
  <2>4. s \in DOMAIN ip_counter /\ ip_counter[s].pps <= L
    BY <1>4, <2>1, <2>2 DEF GoesOnOK, WindowInv, L
  <2>5. WindowOK(s)'
    BY <1>10, <1>15, <2>1, <2>2, <2>3, <2>4
  <2>6. \A t \in Sources : t # s => WindowOK(t)'
    BY <1>6, <1>8, <1>15, <2>3 DEF WindowInv
  <2> QED BY <1>1, <1>6, <2>3, <2>5, <2>6 DEF WindowInv
<1> QED BY <1>11, <1>12, <1>13, <1>14, <1>15, ProgramMoves

(* As time goes by, the oldest packets are forgotten first; the operator only
   loosens the loosest limit.                                                *)
LEMMA OtherTimes ==
  ASSUME TypeInv, LimitsInv, HandInv, TimesInv, WindowInv,
         (Tick /\ UNCHANGED ctlVars) \/ Controller \/ UNCHANGED allVars
  PROVE  TimesInv' /\ WindowInv'
<1>1. UNCHANGED <<ip_counter, cpu>>
  BY DEF Tick, Controller, Edit, Upsert, LookUp, Delete, InsertTemp, InsertPerm, DeleteArp, AddArp, Quit,
         KeepProgram, allVars, vars, mapVars
<1>2. now \in Nat /\ passed \in [Sources -> Seq(Nat)]
  BY FirewallAssumption DEF TypeInv, ControlTypeOK, TypeOK
<1>3. loosest["pps"] \in Nat /\ loosest'["pps"] \in Nat /\ loosest["pps"] <= loosest'["pps"]
  <2>1. [ControlNext]_allVars
    BY DEF ControlNext, Next
  <2>2. TypeInv' /\ loosest["pps"] <= loosest'["pps"]
    BY <2>1, StepType, StepLimits
  <2> QED BY <2>2 DEF TypeInv, ControlTypeOK, TypeOK, ConfigKeys, Limits
<1>4. ASSUME NEW s \in Sources
      PROVE  \E m \in 0..Len(passed[s]) :
               /\ passed'[s] \in Seq(Nat) /\ Len(passed'[s]) = Len(passed[s]) - m
               /\ InOrder(passed'[s])
               /\ \A i \in 1..(Len(passed[s]) - m) :
                    /\ m + i \in 1..Len(passed[s]) /\ passed'[s][i] = passed[s][m + i]
                    /\ passed[s][m + i] <= now' /\ now' < passed[s][m + i] + Second
  <2>1. passed[s] \in Seq(Nat) /\ TimesOK(s)
    BY <1>2 DEF TimesInv
  <2>2. \/ passed'[s] = Recent(passed[s]) /\ now' = now + 1
        \/ passed'[s] = passed[s] /\ now' = now
    BY DEF Tick, Controller, Edit, Upsert, LookUp, Delete, InsertTemp, InsertPerm, DeleteArp, AddArp, Quit,
           KeepProgram, allVars, vars, ghostVars
  <2>3. /\ InOrder(passed[s]) /\ Len(passed[s]) \in Nat
        /\ \A i \in 1..Len(passed[s]) :
             passed[s][i] <= now /\ now < passed[s][i] + Second
    BY <2>1 DEF TimesOK
  <2>4. CASE passed'[s] = Recent(passed[s]) /\ now' = now + 1
    <3>1. PICK q \in Seq(Nat) : q = passed[s]
      BY <2>1
    <3>2. InOrder(q) /\ \A i \in 1..Len(q) : q[i] <= now
      BY <2>3, <3>1
    <3>3. \E m \in 0..Len(q) :
            /\ Recent(q) \in Seq(Nat) /\ Len(Recent(q)) = Len(q) - m
            /\ InOrder(Recent(q))
            /\ \A i \in 1..(Len(q) - m) :
                 /\ m + i \in 1..Len(q) /\ Recent(q)[i] = q[m + i]
                 /\ q[m + i] <= now + 1 /\ now + 1 < q[m + i] + Second
      BY <1>2, <3>2, Forgotten
    <3>4. Recent(q) = passed'[s]
      BY <2>4, <3>1
    <3> QED BY <2>4, <3>1, <3>3, <3>4
  <2>5. CASE passed'[s] = passed[s] /\ now' = now
    <3>1. 0 \in 0..Len(passed[s]) /\ Len(passed[s]) - 0 = Len(passed[s])
          /\ \A i \in 1..Len(passed[s]) : 0 + i = i
      BY <2>3
    <3> QED BY <2>1, <2>3, <2>5, <3>1
  <2> QED BY <2>2, <2>4, <2>5
<1>5. ASSUME NEW s \in Sources
      PROVE  /\ TimesOK(s)'
             /\ \A t \in Nat : (\A i \in 1..Len(passed[s]) : passed[s][i] <= t) =>
                               (\A i \in 1..Len(passed'[s]) : passed'[s][i] <= t)
             /\ WindowOK(s)'
  <2> DEFINE n == Len(passed[s])
  <2>1. passed[s] \in Seq(Nat) /\ n \in Nat /\ TimesOK(s)
    BY <1>2 DEF TimesInv
  <2>2. PICK m \in 0..n :
               /\ passed'[s] \in Seq(Nat) /\ Len(passed'[s]) = n - m
               /\ InOrder(passed'[s])
               /\ \A i \in 1..(n - m) :
                    /\ m + i \in 1..n /\ passed'[s][i] = passed[s][m + i]
                    /\ passed[s][m + i] <= now' /\ now' < passed[s][m + i] + Second
    BY <1>4
  <2>3. \A i \in 1..n : passed[s][i] \in Nat
    BY <2>1
  <2>5. \E k \in 0..n : Split(s, k)
    BY DEF WindowInv, WindowOK
  <2>6. s \notin DOMAIN ip_counter => n = 0
    BY DEF WindowInv, WindowOK
  <2> HIDE DEF n
  <2>9. TimesOK(s)'
    BY <2>2 DEF TimesOK
  <2>10. ASSUME NEW t \in Nat, \A i \in 1..n : passed[s][i] <= t, NEW i \in 1..(n - m)
         PROVE  passed'[s][i] <= t
    BY <2>2, <2>10
  <2>11. WindowOK(s)'
    <3>1. PICK k \in 0..n : Split(s, k)
      BY <2>5
    <3>2. PICK l \in 0..(n - m) : l <= k /\ n - m - l <= n - k /\ (l # 0 => m + l = k)
      BY <2>1, <2>2, <3>1, StillSplit
    <3>3. l <= loosest'["pps"] /\ n - m - l <= loosest'["pps"]
      <4>1. k <= loosest["pps"] /\ n - k <= loosest["pps"]
        BY <3>1 DEF Split, n
      <4> QED BY <1>3, <2>1, <2>2, <3>1, <3>2, <4>1
    <3>4. ASSUME s \in DOMAIN ip_counter, NEW i \in 1..l
          PROVE  passed'[s][i] + Second <= ip_counter[s].next_update
      <4>1. i \in 1..(n - m) /\ m + i \in 1..k
        BY <2>1, <2>2, <3>1, <3>2
      <4> QED BY <2>2, <3>1, <3>4, <4>1 DEF Split
    <3>5. ASSUME s \in DOMAIN ip_counter
          PROVE  /\ n - m - l <= ip_counter[s].pps
                 /\ \A c \in Cpus : cpu[c].at \in Counting /\ Src(c) = s => n - m - l < ip_counter[s].pps
      <4>1. ip_counter[s].pps \in Nat
        BY <3>5 DEF TypeInv, IsMap, Counter
      <4>2. n - k <= ip_counter[s].pps
            /\ \A c \in Cpus : cpu[c].at \in Counting /\ Src(c) = s => n - k < ip_counter[s].pps
        BY <3>1, <3>5 DEF Split, n
      <4> QED BY <2>1, <2>2, <3>1, <3>2, <4>1, <4>2
    <3>6. Split(s, l)'
      BY <1>1, <2>2, <3>3, <3>4, <3>5 DEF Split, Src
    <3>7. s \notin DOMAIN ip_counter' => Len(passed'[s]) = 0
      BY <1>1, <2>2, <2>6
    <3> QED BY <2>2, <3>2, <3>6, <3>7 DEF WindowOK
  <2> QED BY <2>2, <2>9, <2>10, <2>11 DEF n
<1>6. ASSUME NEW c \in Cpus, cpu[c].at \in IpSteps PROVE EarlierOK(c)'
  <2>1. PICK s \in Sources : s = Src(c)
    BY <1>6, WhereIs, PacketOK DEF TypeInv
  <2>2. Src(c)' = s /\ cpu'[c].now = cpu[c].now /\ cpu[c].now \in Nat
    <3>1. IpOK(c)
      BY <1>6, WhereIs DEF TypeInv
    <3>2. cpu[c].now \in Nat
      BY <1>2, <3>1 DEF IpOK
    <3> QED BY <1>1, <2>1, <3>2 DEF Src
  <2>3. EarlierOK(c)
    BY <1>6 DEF TimesInv
  <2> QED BY <1>5, <2>1, <2>2, <2>3 DEF EarlierOK
<1>7. ASSUME NEW c \in Cpus, cpu[c].at \in Admitted
      PROVE  (ip_counter[Src(c)].pps <= loosest["pps"])'
  <2>1. cpu[c].at \in IpSteps /\ cpu[c].at \in Admitted
    BY <1>7 DEF IpSteps, Counting
  <2>2. ip_counter[Src(c)].pps <= loosest["pps"]
    BY <1>7 DEF WindowInv
  <2>3. Src(c)' = Src(c)
    BY <1>1 DEF Src
  <2>4. Src(c) \in DOMAIN ip_counter
    BY <1>7, <2>1 DEF HandInv, GoesOnOK, Counting
  <2>5. ip_counter[Src(c)].pps \in Nat
    BY <2>4 DEF TypeInv, IsMap, Counter
  <2> QED BY <1>1, <1>3, <2>2, <2>3, <2>5
<1> QED BY <1>1, <1>5, <1>6, <1>7 DEF TimesInv, WindowInv

(* On one CPU, within any second, a source gets at most the packets of two
   windows through, however often its block ends and its limits are edited.  *)
THEOREM RateIsBounded == ASSUME OneCPU, SomePps PROVE ControlSpec => []RateBound
<1> DEFINE Inv == TypeInv /\ LimitsInv /\ BlockedInv /\ HandInv /\ TimesInv /\ WindowInv
<1>1. ControlInit => Inv
  BY InitType, InitLimits, InitBlocked, InitTimes
<1>2. Inv /\ [ControlNext]_allVars => Inv'
  <2> SUFFICES ASSUME Inv, [ControlNext]_allVars PROVE Inv'
    OBVIOUS
  <2>1. TypeInv' /\ LimitsInv' /\ BlockedInv' /\ HandInv'
    BY StepType, StepLimits, StepBlocked
  <2>2. ASSUME NEW c \in Cpus, Program(c) PROVE TimesInv' /\ WindowInv'
    BY <2>1, <2>2, ProgramTimes, ProgramWindow
  <2> QED BY <2>1, <2>2, OtherTimes DEF ControlNext, Next
<1>3. Inv => RateBound
  <2> SUFFICES ASSUME Inv, NEW s \in Sources PROVE Len(passed[s]) <= 2 * loosest["pps"]
    BY DEF RateBound
  <2>1. PICK k \in 0..Len(passed[s]) : k <= loosest["pps"] /\ Len(passed[s]) - k <= loosest["pps"]
    BY DEF WindowInv, WindowOK, Split
  <2>2. Len(passed[s]) \in Nat /\ loosest["pps"] \in Nat
    BY DEF TypeInv, ControlTypeOK, TypeOK, ConfigKeys, Limits
  <2> QED BY <2>1, <2>2
<1> HIDE DEF Inv
<1> QED BY <1>1, <1>2, <1>3, PTL DEF ControlSpec

-----------------------------------------------------------------------------
(***************************************************************************)
(* Limits of ports, on one CPU.                                            *)
(***************************************************************************)

(* At first the limits of the ports are their own loosest, and nothing has
   passed.                                                                   *)
LEMMA InitPorts == ControlInit => PortLimitsInv /\ PortTimesInv /\ PortWindowInv
<1> SUFFICES ASSUME ControlInit PROVE PortLimitsInv /\ PortTimesInv /\ PortWindowInv
  OBVIOUS
<1>1. /\ opened = [p \in Ports |-> << >>]
      /\ \A c \in Cpus : cpu[c].at \notin IpSteps /\ ~At(c, "count_port") /\ ~At(c, "limit_port")
      /\ DOMAIN port_counter = {} /\ config = Config /\ loosest = Config
  BY DEF ControlInit, Init, Idle, At, IpSteps, Seeing, Counting, Admitted, AtPort, Nothing
<1>2. Config \in [ConfigKeys -> Nat] /\ Limited \subseteq ConfigKeys
  BY FirewallAssumption DEF ConfigKeys, Limits, Limited
<1>3. PortLimitsInv
  BY <1>1, <1>2 DEF PortLimitsInv, LimitOf
<1>4. PortTimesInv
  BY <1>1 DEF PortTimesInv, PortTimesOK, InOrder
<1>5. ASSUME NEW p \in Ports PROVE PortWindowOK(p)
  <2>1. p[1] \in Limited
    BY DEF Ports
  <2>2. loosest[p[1]] \in Nat /\ Len(opened[p]) = 0
    BY <1>1, <1>2, <2>1
  <2>3. PortSplit(p, 0) /\ 0 \in 0..Len(opened[p])
    BY <1>1, <2>2 DEF PortSplit
  <2> QED BY <2>2, <2>3 DEF PortWindowOK
<1>6. PortWindowInv
  BY <1>1, <1>5 DEF PortWindowInv, PortSeenOK
<1> QED BY <1>3, <1>4, <1>6

(* A command notes the limit of a port it puts in force, and what goes in its
   place while the entry is replaced. The loosest limit only grows.          *)
LEMMA StepPortLimits ==
  ASSUME TypeInv, PortLimitsInv, [ControlNext]_allVars
  PROVE  PortLimitsInv' /\ \A k \in Limited : loosest[k] <= loosest'[k]
<1>1. loosest \in [ConfigKeys -> Nat] /\ DOMAIN config \subseteq ConfigKeys
  BY DEF TypeInv, ControlTypeOK, TypeOK
<1>2. \A k \in Limited : k \in ConfigKeys /\ k \in Limits /\ loosest[k] \in Nat
  BY <1>1 DEF ConfigKeys, Limits, Limited
<1>3. CASE Next /\ UNCHANGED ctlVars
  BY <1>2, <1>3, ProgramKeepsSettings DEF PortLimitsInv, LimitOf
<1>4. CASE Edit
  <2>1. PICK e \in Edits :
          /\ config' = [k \in DOMAIN config \ {e[1]} |-> config[k]]
          /\ Loosen(e[1], Missing(e[1]))
    BY <1>4 DEF Edit
  <2>2. e[1] \in ConfigKeys
    BY ControlAssumption
  <2>3. Missing(e[1]) \in Nat
    BY <1>1, <2>2, FirewallAssumption DEF Missing
  <2> SUFFICES ASSUME NEW k \in Limited
               PROVE  LimitOf(k)' <= loosest'[k] /\ loosest[k] <= loosest'[k]
    BY DEF PortLimitsInv
  <2>4. CASE k = e[1]
    <3>1. LimitOf(k)' = Missing(e[1])
      BY <1>2, <2>1, <2>4 DEF LimitOf, Missing
    <3> QED BY <1>1, <1>2, <2>1, <2>2, <2>3, <2>4, <3>1, LoosenOK
  <2>5. CASE k # e[1]
    <3>1. loosest'[k] = loosest[k]
      BY <1>1, <1>2, <2>1, <2>2, <2>3, <2>5, LoosenOK
    <3>2. LimitOf(k)' = LimitOf(k)
      BY <2>1, <2>5 DEF LimitOf
    <3> QED BY <1>2, <3>1, <3>2 DEF PortLimitsInv
  <2> QED BY <2>4, <2>5
<1>5. CASE Upsert
  <2>1. ctl.key \in ConfigKeys /\ ctl.value \in Nat
    BY <1>5 DEF TypeInv, ControlTypeOK, Upsert, Menu
  <2>2. config' = Put(config, ctl.key, ctl.value) /\ Loosen(ctl.key, ctl.value)
    BY <1>5 DEF Upsert
  <2> SUFFICES ASSUME NEW k \in Limited
               PROVE  LimitOf(k)' <= loosest'[k] /\ loosest[k] <= loosest'[k]
    BY DEF PortLimitsInv
  <2>3. CASE k = ctl.key
    <3>1. LimitOf(k)' = ctl.value
      BY <2>2, <2>3 DEF LimitOf, Put
    <3> QED BY <1>1, <1>2, <2>1, <2>2, <2>3, <3>1, LoosenOK
  <2>4. CASE k # ctl.key
    <3>1. loosest'[k] = loosest[k]
      BY <1>1, <1>2, <2>1, <2>2, <2>4, LoosenOK
    <3>2. LimitOf(k)' = LimitOf(k)
      BY <2>2, <2>4 DEF LimitOf, Put
    <3> QED BY <1>2, <3>1, <3>2 DEF PortLimitsInv
  <2> QED BY <2>3, <2>4
<1>6. CASE LookUp \/ Delete \/ InsertTemp \/ InsertPerm \/ DeleteArp \/ AddArp \/ Quit \/ UNCHANGED allVars
  <2>1. config' = config /\ loosest' = loosest
    BY <1>6 DEF LookUp, Delete, InsertTemp, InsertPerm, DeleteArp, AddArp, Quit, KeepSettings, setVars,
                allVars, vars
  <2> QED BY <1>2, <2>1 DEF PortLimitsInv, LimitOf
<1> QED BY <1>3, <1>4, <1>5, <1>6 DEF ControlNext, Controller

(* What a CPU has in hand after a step it has just received, or had before. *)
LEMMA ProgramCarries ==
  ASSUME TypeInv, NEW c \in Cpus, Program(c), cpu'[c].at \in IpSteps
  PROVE  \/ cpu'[c].now = now
         \/ cpu[c].at \in IpSteps /\ cpu'[c].pkt = cpu[c].pkt /\ cpu'[c].now = cpu[c].now
<1>1. DOMAIN cpu = Cpus /\ HandOK(c)
  BY DEF TypeInv
<1>2. cpu'[c] # Idle
  BY DEF Idle, IpSteps, Seeing, Counting, Admitted, AtPort
<1>3. ~Verdict(c)
  BY <1>1, <1>2 DEF Verdict
<1>4. ~DropBlocked(c) /\ ~PassUnblocked(c) /\ ~Pass(c)
  BY <1>3 DEF DropBlocked, Drop, PassUnblocked, Pass
<1>5. CASE Count(c)
  <2>1. cpu[c].at \in IpSteps /\ Goes(c, "limit")
    BY <1>5 DEF Count, At, IpSteps, Seeing
  <2> QED BY <1>1, <2>1, WhereIs, GoOn
<1> QED BY <1>4, <1>5, ProgramMoves

(* Three steps look at the ports, and one of them passes a packet. *)
LEMMA ProgramPorts ==
  ASSUME TypeInv, NEW c \in Cpus, Program(c)
  PROVE  \/ /\ UNCHANGED <<opened, port_counter>>
            /\ cpu'[c].at \notin {"count_port", "limit_port"}
         \/ LookupPort(c) \/ CountPort(c) \/ LimitPort(c)
<1>1. DOMAIN cpu = Cpus /\ HandOK(c)
  BY DEF TypeInv
<1>2. cpu[c].at \in IpSteps => IpOK(c)
  BY <1>1, WhereIs
<1>3. Verdict(c) => cpu'[c].at \notin {"count_port", "limit_port"}
  BY <1>1 DEF Verdict, Idle
<1>4. ASSUME cpu[c].at \in IpSteps, NEW l, Goes(c, l) PROVE cpu'[c].at = l
  BY <1>1, <1>2, <1>4, GoOn
<1>5. CASE \E p \in Packets : Receive(c, p)
  <2>1. cpu[c].at = "idle" /\ UNCHANGED <<opened, port_counter>>
    BY <1>5 DEF Receive, At, NoCount, mapVars, ghostVars
  <2>2. cpu' = cpu \/ cpu'[c].at \in {"blocked", "count"}
    BY <1>1, <1>5 DEF Receive
  <2> QED BY <2>1, <2>2
<1>6. CASE \E p \in ArpPackets : ReceiveArp(c, p)
  BY <1>1, <1>6 DEF ReceiveArp, NoCount, mapVars, ghostVars
<1>7. CASE CheckArp(c) \/ Admit(c)
  <2>1. ArpOK(c)
    BY <1>1, <1>7, WhereIs DEF CheckArp, Admit, At, ArpSteps
  <2>2. cpu'[c].at \in {"admit", "idle"}
    BY <1>1, <1>7, <2>1 DEF CheckArp, Admit, Goes, Verdict, Idle, ArpOK
  <2> QED BY <1>7, <2>2 DEF CheckArp, Admit, NoCount, mapVars, ghostVars
<1>8. CASE DropBlocked(c) \/ PassUnblocked(c) \/ Block(c)
  BY <1>3, <1>8 DEF DropBlocked, PassUnblocked, Block, Drop, Pass
<1>9. CASE Unblock(c)
  BY <1>4, <1>9 DEF Unblock, At, ghostVars, IpSteps, Seeing
<1>10. CASE Count(c)
  BY <1>4, <1>10 DEF Count, At, ghostVars, IpSteps, Seeing
<1>11. CASE Limit(c)
  <2>1. cpu[c].at \in IpSteps /\ UNCHANGED <<opened, port_counter>>
    BY <1>11 DEF Limit, At, NoCount, mapVars, ghostVars, IpSteps, Counting
  <2>2. Goes(c, "block") \/ Goes(c, "header")
    BY <1>11 DEF Limit
  <2>3. cpu'[c].at \in {"block", "header"}
    BY <1>4, <2>1, <2>2
  <2> QED BY <2>1, <2>3
<1>12. CASE Header(c)
  <2>1. cpu[c].at \in IpSteps /\ port_counter' = port_counter
    BY <1>12 DEF Header, At, mapVars, IpSteps, Counting, Admitted
  <2>2. opened' = opened /\ (Verdict(c) \/ Goes(c, "lookup_port"))
    BY <1>12 DEF Header, Drop, Pass
  <2> QED BY <1>3, <1>4, <2>1, <2>2
<1> QED BY <1>5, <1>6, <1>7, <1>8, <1>9, <1>10, <1>11, <1>12 DEF Program

(* The new count of a port goes up by one in the window that was seen;
   otherwise it begins anew.                                                 *)
LEMMA CountPortOK ==
  ASSUME NEW c \in Cpus, IpOK(c), now \in Nat, CountPort(c)
  PROVE  \E e \in PortCounter :
           /\ port_counter' = Put(port_counter, Port(c), e)
           /\ \/ /\ Port(c) \in DOMAIN cpu[c].seen
                 /\ cpu[c].seen[Port(c)] \in PortCounter
                 /\ e.n = cpu[c].seen[Port(c)].n + 1
                 /\ e.next_update = cpu[c].seen[Port(c)].next_update
              \/ /\ Port(c) \in DOMAIN cpu[c].seen =>
                      cpu[c].seen[Port(c)].next_update < cpu[c].now
                 /\ e.n = 1 /\ e.next_update = cpu[c].now + Second
<1>1. IsMap(cpu[c].seen, {Port(c)}, PortCounter) /\ cpu[c].now \in Nat
  BY DEF IpOK, CountPort
<1>2. Found(c) <=> Port(c) \in DOMAIN cpu[c].seen
  BY <1>1 DEF Found, IsMap
<1> DEFINE old == cpu[c].seen[Port(c)]
           fresh == [n |-> 1, next_update |-> cpu[c].now + Second]
<1>3. Found(c) => old \in PortCounter
  BY <1>1, <1>2 DEF IsMap
<1>4. port_counter' = Put(port_counter, Port(c),
        IF InWindow(c, Port(c)) THEN [old EXCEPT !.n = old.n + 1] ELSE fresh)
  BY DEF CountPort
<1>5. CASE InWindow(c, Port(c))
  <2>1. Found(c)
    BY <1>5 DEF InWindow
  <2>2. [old EXCEPT !.n = old.n + 1] \in PortCounter
        /\ [old EXCEPT !.n = old.n + 1].n = old.n + 1
        /\ [old EXCEPT !.n = old.n + 1].next_update = old.next_update
    <3> HIDE DEF old
    <3> QED BY <1>3, <2>1 DEF PortCounter
  <2> QED BY <1>2, <1>3, <1>4, <1>5, <2>1, <2>2
<1>6. CASE ~InWindow(c, Port(c))
  <2>1. Found(c) => ~(cpu[c].now <= old.next_update)
    BY <1>6 DEF InWindow
  <2>2. Found(c) => old.next_update < cpu[c].now
    BY <1>1, <1>3, <2>1 DEF PortCounter
  <2>3. fresh \in PortCounter /\ fresh.n = 1 /\ fresh.next_update = cpu[c].now + Second
    BY <1>1, FirewallAssumption DEF PortCounter
  <2> QED BY <1>2, <1>4, <1>6, <2>2, <2>3
<1> QED BY <1>5, <1>6

(* Every step of the program keeps the times of the ports in order. *)
LEMMA ProgramPortTimes ==
  ASSUME OneCPU, TypeInv, PortTimesInv, NEW c \in Cpus, Program(c)
  PROVE  PortTimesInv'
<1>1. /\ now \in Nat /\ DOMAIN cpu = Cpus /\ HandOK(c) /\ opened \in [Ports -> Seq(Nat)]
      /\ \A d \in Cpus : d = c
  BY FirewallAssumption DEF TypeInv, ControlTypeOK, TypeOK, OneCPU, PortTimesInv
<1>2. now' = now
  BY DEF Program, Receive, ReceiveArp, CheckArp, Admit, DropBlocked, Unblock, PassUnblocked,
         Count, Limit, Block, Header, LookupPort, CountPort, LimitPort, Kept
<1>3. CASE opened' = opened
  <2>1. \A p \in Ports : PortTimesOK(p)'
    BY <1>2, <1>3 DEF PortTimesInv, PortTimesOK
  <2>2. ASSUME cpu'[c].at \in IpSteps PROVE PortsEarlierOK(c)'
    <3>1. CASE cpu'[c].now = now
      BY <1>3, <3>1 DEF PortTimesInv, PortTimesOK, PortsEarlierOK
    <3>2. CASE cpu[c].at \in IpSteps /\ cpu'[c].now = cpu[c].now
      BY <1>3, <3>2 DEF PortTimesInv, PortsEarlierOK
    <3> QED BY <2>2, <3>1, <3>2, ProgramCarries
  <2> QED BY <1>1, <1>3, <2>1, <2>2 DEF PortTimesInv
<1>4. CASE LimitPort(c) /\ opened' # opened
  <2>1. IpOK(c) /\ Pkt(c).kind \in Limited
    BY <1>1, <1>4, WhereIs DEF LimitPort, At, IpOK, AtPort, IpSteps, Counting, Admitted
  <2>2. PICK p \in Ports : p = Port(c)
    BY <2>1, PacketOK
  <2>3. Verdict(c) /\ opened' = [opened EXCEPT ![p] = Append(opened[p], now)]
    BY <1>4, <2>2 DEF LimitPort, Pass
  <2>4. cpu'[c].at \notin IpSteps
    BY <1>1, <2>3 DEF Verdict, Idle, IpSteps, Seeing, Counting, Admitted, AtPort
  <2> DEFINE q == opened[p]
             r == Append(q, now)
  <2>5. q \in Seq(Nat) /\ PortTimesOK(p)
    BY <1>1 DEF PortTimesInv
  <2>6. /\ r \in Seq(Nat) /\ Len(r) = Len(q) + 1 /\ Len(q) \in Nat
        /\ \A i \in 1..Len(q) : r[i] = q[i]
        /\ r[Len(q) + 1] = now /\ InOrder(r)
    BY <1>1, <2>5, AppendNow DEF PortTimesOK
  <2>7. opened'[p] = r /\ opened' \in [Ports -> Seq(Nat)]
        /\ \A t \in Ports : t # p => opened'[t] = opened[t]
    <3> HIDE DEF r
    <3> QED BY <1>1, <2>3, <2>6 DEF r
  <2>8. \A i \in 1..Len(q) : q[i] <= now /\ now < q[i] + Second
    BY <2>5 DEF PortTimesOK
  <2>9. \A i \in 1..Len(r) : r[i] <= now /\ now < r[i] + Second
    <3> HIDE DEF r, q
    <3>1. SUFFICES ASSUME NEW i \in 1..Len(r) PROVE r[i] <= now /\ now < r[i] + Second
      OBVIOUS
    <3>2. CASE i \in 1..Len(q)
      BY <2>6, <2>8, <3>2
    <3>3. CASE i = Len(q) + 1
      BY <1>1, <2>6, <3>3, FirewallAssumption
    <3> QED BY <2>6, <3>1, <3>2, <3>3
  <2>10. PortTimesOK(p)'
    <3> HIDE DEF r, q
    <3> QED BY <1>2, <2>6, <2>7, <2>9 DEF PortTimesOK
  <2>11. \A t \in Ports : t # p => PortTimesOK(t)'
    BY <1>2, <2>7 DEF PortTimesInv, PortTimesOK
  <2> QED BY <1>1, <2>4, <2>7, <2>10, <2>11 DEF PortTimesInv
<1>5. LookupPort(c) \/ CountPort(c) => opened' = opened
  BY DEF LookupPort, CountPort, NoCount, ghostVars
<1> QED BY <1>3, <1>4, <1>5, ProgramPorts

(* Every step of the program keeps the windows of the ports: no more than two
   share the last second, and none lets more packets through than its limit. *)
LEMMA ProgramPortWindow ==
  ASSUME OneCPU, TypeInv, PortLimitsInv, PortTimesInv, PortWindowInv, NEW c \in Cpus, Program(c)
  PROVE  PortWindowInv'
<1>1. /\ now \in Nat /\ DOMAIN cpu = Cpus /\ HandOK(c) /\ opened \in [Ports -> Seq(Nat)]
      /\ IsMap(port_counter, Ports, PortCounter)
      /\ \A d \in Cpus : d = c
  BY FirewallAssumption DEF TypeInv, ControlTypeOK, TypeOK, OneCPU, PortTimesInv
<1>2. now' = now /\ loosest' = loosest /\ config' = config
  BY DEF Program, Receive, ReceiveArp, CheckArp, Admit, DropBlocked, Unblock, PassUnblocked,
         Count, Limit, Block, Header, LookupPort, CountPort, LimitPort, Kept, setVars
<1>3. \A p \in Ports : loosest[p[1]] \in Nat
  BY DEF TypeInv, ControlTypeOK, TypeOK, Ports, Limited, ConfigKeys, Limits
<1>4. \A p \in Ports : opened[p] \in Seq(Nat) /\ Len(opened[p]) \in Nat
  BY <1>1
<1>5. ASSUME cpu[c].at \in AtPort
      PROVE  /\ IpOK(c) /\ Port(c) \in Ports /\ cpu[c].at \in IpSteps
             /\ cpu[c].now \in Nat /\ cpu[c].now <= now
  <2>1. IpOK(c) /\ cpu[c].at \in IpSteps
    BY <1>1, <1>5, WhereIs DEF IpSteps, Counting, Admitted
  <2>2. Pkt(c).kind \in Limited /\ cpu[c].now \in 0..now
    BY <1>5, <2>1 DEF IpOK
  <2> QED BY <1>1, <2>1, <2>2, PacketOK
<1>6. ASSUME NEW p \in Ports, opened'[p] = opened[p],
             p \in DOMAIN port_counter' <=> p \in DOMAIN port_counter,
             p \in DOMAIN port_counter => port_counter'[p] = port_counter[p],
             cpu'[c].at # "limit_port" \/ Port(c)' # p
      PROVE  PortWindowOK(p)'
  <2>1. PICK k \in 0..Len(opened[p]) : PortSplit(p, k)
    BY DEF PortWindowInv, PortWindowOK
  <2>2. PortSplit(p, k)'
    BY <1>1, <1>2, <1>6, <2>1 DEF PortSplit, At
  <2> QED BY <1>6, <2>2 DEF PortWindowInv, PortWindowOK
<1>7. CASE UNCHANGED <<opened, port_counter>> /\ cpu'[c].at \notin {"count_port", "limit_port"}
  BY <1>1, <1>6, <1>7 DEF PortWindowInv, PortSeenOK, At
<1>8. CASE LookupPort(c)
  <2>1. cpu[c].at \in AtPort /\ UNCHANGED <<opened, port_counter>>
    BY <1>8 DEF LookupPort, At, AtPort, NoCount, mapVars, ghostVars
  <2>2. PICK p \in Ports : p = Port(c)
    BY <1>5, <2>1
  <2>3. DOMAIN cpu[c] = {"at", "pkt", "now", "seen"}
    BY <1>5, <2>1 DEF IpOK
  <2>4. cpu'[c].at = "count_port" /\ cpu'[c].pkt = cpu[c].pkt
        /\ cpu'[c].seen = Lookup(port_counter, p)
    BY <1>1, <1>8, <2>2, <2>3 DEF LookupPort
  <2>5. Port(c)' = p
    BY <2>2, <2>4 DEF Port
  <2>6. PortSeenOK(c)'
    BY <2>1, <2>4, <2>5 DEF PortSeenOK, At, Found, Lookup
  <2>7. \A t \in Ports : PortWindowOK(t)'
    BY <1>6, <2>1, <2>4
  <2> QED BY <1>1, <2>6, <2>7 DEF PortWindowInv
<1>9. CASE CountPort(c)
  <2>1. cpu[c].at \in AtPort /\ At(c, "count_port") /\ opened' = opened /\ Goes(c, "limit_port")
    BY <1>9 DEF CountPort, At, AtPort, ghostVars
  <2>2. PICK p \in Ports : p = Port(c)
    BY <1>5, <2>1
  <2>3. IpOK(c) /\ cpu[c].now \in Nat /\ cpu[c].now <= now /\ PortsEarlierOK(c) /\ PortSeenOK(c)
    BY <1>5, <2>1 DEF PortTimesInv, PortWindowInv
  <2>4. PICK e \in PortCounter :
           /\ port_counter' = Put(port_counter, p, e)
           /\ \/ /\ p \in DOMAIN cpu[c].seen /\ cpu[c].seen[p] \in PortCounter
                 /\ e.n = cpu[c].seen[p].n + 1 /\ e.next_update = cpu[c].seen[p].next_update
              \/ /\ p \in DOMAIN cpu[c].seen => cpu[c].seen[p].next_update < cpu[c].now
                 /\ e.n = 1 /\ e.next_update = cpu[c].now + Second
    BY <1>1, <1>9, <2>2, <2>3, CountPortOK
  <2>5. cpu'[c].at = "limit_port" /\ Port(c)' = p
    <3>1. cpu'[c].at = "limit_port" /\ cpu'[c].pkt = cpu[c].pkt
      BY <1>1, <2>1, <2>3, GoOn
    <3> QED BY <2>2, <3>1 DEF Port
  <2>6. p \in DOMAIN port_counter' /\ port_counter'[p] = e
    BY <2>4 DEF Put
  <2>7. PortSeenOK(c)'
    BY <2>5, <2>6 DEF PortSeenOK, At
  <2>8. p \in DOMAIN port_counter <=> p \in DOMAIN cpu[c].seen
    BY <2>1, <2>2, <2>3 DEF PortSeenOK
  <2>9. p \in DOMAIN port_counter =>
          cpu[c].seen[p] = port_counter[p] /\ port_counter[p] \in PortCounter
    BY <1>1, <2>1, <2>2, <2>3, <2>8 DEF PortSeenOK, Found, IsMap
  <2>10. PICK k \in 0..Len(opened[p]) : PortSplit(p, k)
    BY DEF PortWindowInv, PortWindowOK
  <2>11. PortWindowOK(p)'
    <3>1. CASE p \in DOMAIN port_counter /\ e.n = port_counter[p].n + 1
                /\ e.next_update = port_counter[p].next_update
      <4>1. Len(opened[p]) - k <= port_counter[p].n /\ port_counter[p].n \in Nat
        BY <2>9, <2>10, <3>1 DEF PortSplit, PortCounter
      <4>2. Len(opened[p]) - k < e.n /\ Len(opened[p]) - k <= e.n
        BY <1>4, <2>10, <3>1, <4>1
      <4>3. PortSplit(p, k)'
        BY <1>2, <2>1, <2>6, <2>10, <3>1, <4>2 DEF PortSplit
      <4> QED BY <2>1, <2>6, <2>10, <4>3 DEF PortWindowOK
    <3>2. CASE /\ p \in DOMAIN port_counter => port_counter[p].next_update < cpu[c].now
               /\ e.n = 1 /\ e.next_update = cpu[c].now + Second
      <4>1. ASSUME p \in DOMAIN port_counter PROVE k = 0
        <5>1. SUFFICES ASSUME k # 0 PROVE FALSE
          OBVIOUS
        <5>2. 1 \in 1..k /\ 1 \in 1..Len(opened[p]) /\ opened[p][1] \in Nat
          BY <1>4, <2>10, <5>1
        <5>3. opened[p][1] + Second <= port_counter[p].next_update
              /\ now < opened[p][1] + Second
          BY <2>10, <4>1, <5>2 DEF PortSplit, PortTimesInv, PortTimesOK
        <5>4. port_counter[p].next_update \in Nat
          BY <2>9, <4>1 DEF PortCounter
        <5> QED BY <1>1, <2>3, <3>2, <4>1, <5>2, <5>3, <5>4, FirewallAssumption
      <4>2. Len(opened[p]) <= loosest[p[1]]
        <5>1. CASE p \in DOMAIN port_counter
          BY <1>4, <2>10, <4>1, <5>1 DEF PortSplit
        <5>2. CASE p \notin DOMAIN port_counter
          BY <1>3, <5>2 DEF PortWindowInv, PortWindowOK
        <5> QED BY <5>1, <5>2
      <4>3. ASSUME NEW i \in 1..Len(opened[p])
            PROVE  opened[p][i] + Second <= e.next_update
        <5>1. opened[p][i] <= cpu[c].now /\ opened[p][i] \in Nat
          BY <1>4, <2>3 DEF PortsEarlierOK
        <5> QED BY <2>3, <3>2, <5>1, FirewallAssumption
      <4>4. PICK n \in Nat : n = Len(opened[p])
        BY <1>4
      <4>5. n <= loosest[p[1]] /\ n - n <= loosest[p[1]] /\ n - n <= e.n /\ n - n < e.n
        BY <1>3, <3>2, <4>2, <4>4
      <4>6. PortSplit(p, n)'
        BY <1>2, <2>1, <2>6, <4>3, <4>4, <4>5 DEF PortSplit
      <4>7. n \in 0..Len(opened'[p])
        BY <2>1, <4>4
      <4> QED BY <2>6, <4>6, <4>7 DEF PortWindowOK
    <3> QED BY <2>4, <2>8, <2>9, <3>1, <3>2
  <2>12. \A t \in Ports : t # p => PortWindowOK(t)'
    <3>1. \A t \in Ports : t # p =>
            /\ t \in DOMAIN port_counter' <=> t \in DOMAIN port_counter
            /\ t \in DOMAIN port_counter => port_counter'[t] = port_counter[t]
      BY <2>4 DEF Put
    <3> QED BY <1>6, <2>1, <2>5, <3>1
  <2> QED BY <1>1, <2>7, <2>11, <2>12 DEF PortWindowInv
<1>10. CASE LimitPort(c)
  <2>1. cpu[c].at \in AtPort /\ At(c, "limit_port") /\ port_counter' = port_counter
    BY <1>10 DEF LimitPort, At, AtPort, mapVars
  <2>2. PICK p \in Ports : p = Port(c)
    BY <1>5, <2>1
  <2>3. IpOK(c) /\ PortSeenOK(c)
    BY <1>5, <2>1 DEF PortWindowInv
  <2>4. p \in DOMAIN port_counter /\ port_counter[p] \in PortCounter
    BY <1>1, <2>1, <2>2, <2>3 DEF PortSeenOK, IsMap
  <2>5. cpu'[c].at \in {"block", "idle"}
    <3>1. Goes(c, "block") => cpu'[c].at = "block"
      BY <1>1, <2>3, GoOn
    <3>2. Verdict(c) => cpu'[c].at = "idle"
      BY <1>1 DEF Verdict, Idle
    <3> QED BY <1>10, <3>1, <3>2 DEF LimitPort, Pass
  <2>6. PortSeenOK(c)'
    BY <2>5 DEF PortSeenOK, At
  <2>7. CASE opened' = opened
    BY <1>1, <1>6, <2>1, <2>5, <2>6, <2>7 DEF PortWindowInv
  <2>8. CASE ~OverPortLimit(c) /\ opened' = [opened EXCEPT ![p] = Append(opened[p], now)]
    <3>1. PICK k \in 0..Len(opened[p]) : PortSplit(p, k)
      BY DEF PortWindowInv, PortWindowOK
    <3>2. /\ Len(opened'[p]) = Len(opened[p]) + 1 /\ Len(opened[p]) \in Nat
          /\ \A i \in 1..Len(opened[p]) : opened'[p][i] = opened[p][i]
          /\ \A t \in Ports : t # p => opened'[t] = opened[t]
      BY <1>1, <1>4, <2>8, AppendNow
    <3>3. port_counter[p].n <= loosest[p[1]]
      <4>1. p[1] = Pkt(c).kind /\ p[1] \in Limited
        BY <2>2 DEF Port, Pkt, Ports
      <4>2. LimitOf(p[1]) <= loosest[p[1]] /\ ~(port_counter[p].n > LimitOf(p[1]))
        BY <2>2, <2>8, <4>1 DEF PortLimitsInv, OverPortLimit
      <4>3. LimitOf(p[1]) \in Nat
        BY <4>1, FirewallAssumption DEF LimitOf, TypeInv, ControlTypeOK, TypeOK, Limited, Limits
      <4> QED BY <1>3, <2>4, <4>2, <4>3 DEF PortCounter
    <3>4. Len(opened[p]) - k < port_counter[p].n
      BY <2>1, <2>2, <2>4, <3>1 DEF PortSplit
    <3>5. /\ Len(opened'[p]) - k <= port_counter[p].n
          /\ Len(opened'[p]) - k <= loosest[p[1]]
          /\ k \in 0..Len(opened'[p])
      BY <1>3, <2>4, <3>1, <3>2, <3>3, <3>4 DEF PortCounter
    <3>6. \A i \in 1..k : opened'[p][i] + Second <= port_counter[p].next_update
      <4>1. \A i \in 1..k : i \in 1..Len(opened[p])
        BY <3>1, <3>2
      <4> QED BY <2>4, <3>1, <3>2, <4>1 DEF PortSplit
    <3>7. \A d \in Cpus : ~At(d, "limit_port")'
      BY <1>1, <2>5 DEF At
    <3>8. PortSplit(p, k)'
      BY <1>2, <2>1, <3>1, <3>5, <3>6, <3>7 DEF PortSplit
    <3>9. PortWindowOK(p)'
      BY <2>1, <2>4, <3>5, <3>8 DEF PortWindowOK
    <3>10. \A t \in Ports : t # p => PortWindowOK(t)'
      BY <1>6, <2>1, <2>5, <3>2
    <3> QED BY <1>1, <2>6, <3>9, <3>10 DEF PortWindowInv
  <2> QED BY <1>10, <2>2, <2>7, <2>8 DEF LimitPort
<1> QED BY <1>7, <1>8, <1>9, <1>10, ProgramPorts

(* As time goes by, the oldest packets are forgotten first; the operator only
   loosens the loosest limits.                                               *)
LEMMA OtherPorts ==
  ASSUME TypeInv, PortLimitsInv, PortTimesInv, PortWindowInv,
         (Tick /\ UNCHANGED ctlVars) \/ Controller \/ UNCHANGED allVars
  PROVE  PortTimesInv' /\ PortWindowInv'
<1>1. UNCHANGED <<port_counter, cpu>>
  BY DEF Tick, Controller, Edit, Upsert, LookUp, Delete, InsertTemp, InsertPerm, DeleteArp, AddArp, Quit,
         KeepProgram, allVars, vars, mapVars
<1>2. now \in Nat /\ opened \in [Ports -> Seq(Nat)]
  BY FirewallAssumption DEF TypeInv, ControlTypeOK, TypeOK, PortTimesInv
<1>3. ASSUME NEW p \in Ports
      PROVE  loosest[p[1]] \in Nat /\ loosest'[p[1]] \in Nat /\ loosest[p[1]] <= loosest'[p[1]]
  <2>1. [ControlNext]_allVars
    BY DEF ControlNext, Next
  <2>2. p[1] \in Limited /\ p[1] \in ConfigKeys
    BY DEF Ports, Limited, ConfigKeys, Limits
  <2>3. TypeInv' /\ loosest[p[1]] <= loosest'[p[1]]
    BY <2>1, <2>2, StepType, StepPortLimits
  <2> QED BY <2>2, <2>3 DEF TypeInv, ControlTypeOK, TypeOK
<1>4. \/ now' = now + 1 /\ opened' = [p \in Ports |-> Recent(opened[p])]
      \/ now' = now /\ opened' = opened
  BY DEF Tick, Controller, Edit, Upsert, LookUp, Delete, InsertTemp, InsertPerm, DeleteArp, AddArp, Quit,
         KeepProgram, allVars, vars, ghostVars
<1>5. ASSUME NEW p \in Ports
      PROVE  \E m \in 0..Len(opened[p]) :
               /\ opened'[p] \in Seq(Nat) /\ Len(opened'[p]) = Len(opened[p]) - m
               /\ InOrder(opened'[p])
               /\ \A i \in 1..(Len(opened[p]) - m) :
                    /\ m + i \in 1..Len(opened[p]) /\ opened'[p][i] = opened[p][m + i]
                    /\ opened[p][m + i] <= now' /\ now' < opened[p][m + i] + Second
  <2>1. opened[p] \in Seq(Nat) /\ PortTimesOK(p)
    BY <1>2 DEF PortTimesInv
  <2>2. \/ opened'[p] = Recent(opened[p]) /\ now' = now + 1
        \/ opened'[p] = opened[p] /\ now' = now
    BY <1>4
  <2>3. /\ InOrder(opened[p]) /\ Len(opened[p]) \in Nat
        /\ \A i \in 1..Len(opened[p]) :
             opened[p][i] <= now /\ now < opened[p][i] + Second
    BY <2>1 DEF PortTimesOK
  <2>4. CASE opened'[p] = Recent(opened[p]) /\ now' = now + 1
    <3>1. PICK q \in Seq(Nat) : q = opened[p]
      BY <2>1
    <3>2. InOrder(q) /\ \A i \in 1..Len(q) : q[i] <= now
      BY <2>3, <3>1
    <3>3. \E m \in 0..Len(q) :
            /\ Recent(q) \in Seq(Nat) /\ Len(Recent(q)) = Len(q) - m
            /\ InOrder(Recent(q))
            /\ \A i \in 1..(Len(q) - m) :
                 /\ m + i \in 1..Len(q) /\ Recent(q)[i] = q[m + i]
                 /\ q[m + i] <= now + 1 /\ now + 1 < q[m + i] + Second
      BY <1>2, <3>2, Forgotten
    <3>4. Recent(q) = opened'[p]
      BY <2>4, <3>1
    <3> QED BY <2>4, <3>1, <3>3, <3>4
  <2>5. CASE opened'[p] = opened[p] /\ now' = now
    <3>1. 0 \in 0..Len(opened[p]) /\ Len(opened[p]) - 0 = Len(opened[p])
          /\ \A i \in 1..Len(opened[p]) : 0 + i = i
      BY <2>3
    <3> QED BY <2>1, <2>3, <2>5, <3>1
  <2> QED BY <2>2, <2>4, <2>5
<1>6. opened' \in [Ports -> Seq(Nat)]
  BY <1>2, <1>4, <1>5
<1>7. ASSUME NEW p \in Ports PROVE PortTimesOK(p)' /\ PortWindowOK(p)'
  <2> DEFINE n == Len(opened[p])
  <2>1. n \in Nat
    BY <1>2
  <2>2. PICK m \in 0..n :
               /\ opened'[p] \in Seq(Nat) /\ Len(opened'[p]) = n - m
               /\ InOrder(opened'[p])
               /\ \A i \in 1..(n - m) :
                    /\ m + i \in 1..n /\ opened'[p][i] = opened[p][m + i]
                    /\ opened[p][m + i] <= now' /\ now' < opened[p][m + i] + Second
    BY <1>5
  <2>3. PICK k \in 0..n : PortSplit(p, k)
    BY DEF PortWindowInv, PortWindowOK
  <2>4. p \notin DOMAIN port_counter => n = 0
    BY DEF PortWindowInv, PortWindowOK
  <2>5. k <= loosest[p[1]] /\ n - k <= loosest[p[1]]
    BY <2>3 DEF PortSplit
  <2>6. p \in DOMAIN port_counter =>
          /\ \A i \in 1..k : opened[p][i] + Second <= port_counter[p].next_update
          /\ n - k <= port_counter[p].n
          /\ \A c \in Cpus : At(c, "limit_port") /\ Port(c) = p => n - k < port_counter[p].n
    BY <2>3 DEF PortSplit
  <2> HIDE DEF n
  <2>7. PICK l \in 0..(n - m) : l <= k /\ n - m - l <= n - k /\ (l # 0 => m + l = k)
    BY <2>1, <2>2, <2>3, StillSplit
  <2>8. l <= loosest'[p[1]] /\ n - m - l <= loosest'[p[1]]
    BY <1>3, <2>1, <2>2, <2>3, <2>5, <2>7
  <2>9. ASSUME p \in DOMAIN port_counter, NEW i \in 1..l
        PROVE  opened'[p][i] + Second <= port_counter[p].next_update
    <3>1. i \in 1..(n - m) /\ m + i \in 1..k
      BY <2>1, <2>2, <2>3, <2>7
    <3> QED BY <2>2, <2>6, <2>9, <3>1
  <2>10. ASSUME p \in DOMAIN port_counter
         PROVE  /\ n - m - l <= port_counter[p].n
                /\ \A c \in Cpus : At(c, "limit_port") /\ Port(c) = p =>
                     n - m - l < port_counter[p].n
    <3>1. port_counter[p].n \in Nat
      BY <2>10 DEF TypeInv, IsMap, PortCounter
    <3> QED BY <2>1, <2>2, <2>3, <2>6, <2>7, <2>10, <3>1
  <2>11. PortSplit(p, l)'
    BY <1>1, <2>2, <2>8, <2>9, <2>10 DEF PortSplit, Port, Pkt, At
  <2>12. PortWindowOK(p)'
    BY <1>1, <2>1, <2>2, <2>4, <2>7, <2>11 DEF PortWindowOK
  <2> QED BY <2>2, <2>12 DEF PortTimesOK
<1>8. ASSUME NEW c \in Cpus, cpu[c].at \in IpSteps PROVE PortsEarlierOK(c)'
  <2>1. cpu[c].now \in Nat /\ PortsEarlierOK(c) /\ cpu'[c].now = cpu[c].now
    <3>1. IpOK(c)
      BY <1>8, WhereIs DEF TypeInv
    <3> QED BY <1>1, <1>2, <1>8, <3>1 DEF IpOK, PortTimesInv
  <2>2. SUFFICES ASSUME NEW p \in Ports, NEW i \in 1..Len(opened'[p])
                 PROVE  opened'[p][i] <= cpu[c].now
    BY <2>1 DEF PortsEarlierOK
  <2>3. PICK j \in 1..Len(opened[p]) : opened'[p][i] = opened[p][j]
    BY <1>5, <2>2
  <2> QED BY <2>1, <2>3 DEF PortsEarlierOK
<1>9. \A c \in Cpus : PortSeenOK(c)'
  BY <1>1 DEF PortWindowInv, PortSeenOK, At, Found, Port, Pkt
<1> QED BY <1>1, <1>6, <1>7, <1>8, <1>9 DEF PortTimesInv, PortWindowInv

(* On one CPU, within any second, no more SYN and no more UDP packets that
   were counted for a port pass than two windows allow, whoever sends them and
   however the limits are edited.                                            *)
THEOREM PortsAreBounded == ASSUME OneCPU PROVE ControlSpec => []PortBound
<1> DEFINE Inv == TypeInv /\ PortLimitsInv /\ PortTimesInv /\ PortWindowInv
<1>1. ControlInit => Inv
  BY InitType, InitPorts
<1>2. Inv /\ [ControlNext]_allVars => Inv'
  <2> SUFFICES ASSUME Inv, [ControlNext]_allVars PROVE Inv'
    OBVIOUS
  <2>1. TypeInv' /\ PortLimitsInv'
    BY StepType, StepPortLimits
  <2>2. ASSUME NEW c \in Cpus, Program(c) PROVE PortTimesInv' /\ PortWindowInv'
    BY <2>2, ProgramPortTimes, ProgramPortWindow
  <2> QED BY <2>1, <2>2, OtherPorts DEF ControlNext, Next
<1>3. Inv => PortBound
  <2> SUFFICES ASSUME Inv, NEW p \in Ports PROVE Len(opened[p]) <= 2 * loosest[p[1]]
    BY DEF PortBound
  <2>1. PICK k \in 0..Len(opened[p]) : k <= loosest[p[1]] /\ Len(opened[p]) - k <= loosest[p[1]]
    BY DEF PortWindowInv, PortWindowOK, PortSplit
  <2>2. Len(opened[p]) \in Nat
    BY DEF PortTimesInv
  <2>3. p[1] \in ConfigKeys
    BY DEF Ports, Limited, ConfigKeys, Limits
  <2>4. loosest[p[1]] \in Nat
    BY <2>3 DEF TypeInv, ControlTypeOK, TypeOK
  <2> QED BY <2>1, <2>2, <2>4
<1> HIDE DEF Inv
<1> QED BY <1>1, <1>2, <1>3, PTL DEF ControlSpec
=============================================================================
