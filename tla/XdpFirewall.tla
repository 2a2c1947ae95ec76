---------------------------- MODULE XdpFirewall ----------------------------
(***************************************************************************)
(* The XDP firewall (goebpf/ebpf_prog/xdp_fw.c): what the program does to  *)
(* IPv4 and ARP packets on each CPU, one map operation at a time, with the *)
(* maps that the CPUs and the controller share. Time is in ticks. The      *)
(* counters drop_cnt and pass_cnt are left out.                            *)
(***************************************************************************)
EXTENDS Integers, Sequences, FiniteSets

CONSTANTS
  Cpus,
  Sources,        (* source addresses                                       *)
  Packets,        (* IPv4: [src, kind, port, len]                           *)
  ArpPackets,     (* [src, mac]: what the sender says of itself             *)
  Second,         (* NANO_TO_SEC: how many ticks a second has               *)
  MaxTime,        (* bound on the clock                                     *)
  Config,         (* what the controller wrote to the one-entry maps        *)
  Defaults,       (* default_pps, default_bps, default_syn_count, ...       *)
  ArpTable,       (* ... to the ARP table: source |-> mac                   *)
  Permanent,      (* ... to the permanent blacklist                         *)
  Temporary,      (* ... and to the temporary one                           *)
  U32,            (* 2^32                                                   *)
  MapEntries      (* MAX_RULES: the entries of an LRU map                   *)

(* "syn": a TCP segment with SYN and no ACK. "short": the TCP or UDP header
   is cut off. "other": any other protocol, or TCP segment.                  *)
Limited == {"syn", "udp"}
Ports == {<<p.kind, p.port>> : p \in {q \in Packets : q.kind \in Limited}}
Limits == {"pps", "bps", "syn", "udp"}
ConfigKeys == Limits \union {"block_flag", "unblock_time", "arp_flag"}

ASSUME FirewallAssumption ==
  /\ \A p \in Packets : /\ p.src \in Sources
                        /\ p.kind \in Limited \union {"short", "other"}
                        /\ p.len \in Nat
  /\ Second \in Nat \ {0} /\ MaxTime \in Nat /\ U32 \in Nat \ {0}
  /\ \A p \in ArpPackets : p.src \in Sources /\ p = [src |-> p.src, mac |-> p.mac]
  /\ Config \in [ConfigKeys -> Nat] /\ Defaults \in [Limits -> Nat]
  /\ DOMAIN ArpTable \subseteq Sources
  /\ Permanent \subseteq Sources /\ Temporary \subseteq Sources

(* The counters, the temporary blacklist and the ARP table never have to give
   an entry up for a new one: there are no more addresses and ports than they
   have entries. What holds of counters and blocks holds for so many only.   *)
ASSUME MapsHaveRoom ==
  /\ IsFiniteSet(Sources) /\ Cardinality(Sources) <= MapEntries
  /\ IsFiniteSet(Ports) /\ Cardinality(Ports) <= MapEntries

VARIABLES
  now,            (* bpf_ktime_get_ns                                       *)
  attached,       (* is the program attached to the interface?              *)
  config,         (* config_pps, config_bps, ..., arp_flag; none while the  *)
                  (* one entry of such a map is being replaced              *)
  arp_table,      (* source |-> mac                                         *)
  ip_blacklist_p, (* permanent blacklist                                    *)
  ip_blacklist_t, (* temporary blacklist                                    *)
  ip_counter,     (* source |-> [pps, bps, next_update]                     *)
  port_counter,   (* syn_counter and udp_counter: port |-> [n, next_update] *)
  cpu,            (* per CPU: [at, pkt, now, seen]                          *)
  loosest,        (* ghost: the loosest setting of each kind so far         *)
  passed,         (* ghost: when the packets of each source passed          *)
  opened,         (* ghost: when the packets counted for a port passed      *)
  blocked         (* ghost: who blocked a source last, and when             *)

setVars == <<config, arp_table, loosest>>
mapVars == <<ip_blacklist_p, ip_blacklist_t, ip_counter, port_counter>>
ghostVars == <<passed, opened, blocked>>
vars == <<now, attached, setVars, mapVars, cpu, ghostVars>>

Put(m, k, v) == [j \in DOMAIN m \union {k} |-> IF j = k THEN v ELSE m[j]]
Nothing == [k \in {} |-> 0]
(* Mutant: a window starts with no packet counted. *)
FreshUncounted(t, len) == [pps |-> 0, bps |-> 0, next_update |-> t + Second]

Fresh(t, len) == [pps |-> 1, bps |-> len, next_update |-> t + Second]
Idle == [at |-> "idle"]

Init ==
  /\ now = 0
  /\ attached = TRUE
  /\ config = Config /\ loosest = Config /\ arp_table = ArpTable
  /\ ip_blacklist_p = Permanent /\ ip_blacklist_t = Temporary
  /\ ip_counter = Nothing /\ port_counter = Nothing
  /\ cpu = [c \in Cpus |-> Idle]
  /\ passed = [s \in Sources |-> << >>]
  /\ opened = [p \in Ports |-> << >>]
  /\ blocked = [s \in Sources |-> [by |-> "nobody", at |-> 0]]

(***************************************************************************)
(* What every step of the program shares.                                  *)
(***************************************************************************)
At(c, l) == cpu[c].at = l
Pkt(c) == cpu[c].pkt
Src(c) == cpu[c].pkt.src
Port(c) == <<cpu[c].pkt.kind, cpu[c].pkt.port>>
Goes(c, l) == cpu' = [cpu EXCEPT ![c].at = l]
Verdict(c) == cpu' = [cpu EXCEPT ![c] = Idle]

Drop(c) == Verdict(c) /\ UNCHANGED <<passed, opened>>

Pass(c) ==
  /\ Verdict(c)
  /\ passed' = [passed EXCEPT ![Src(c)] = Append(@, now)]

Kept == UNCHANGED <<now, attached, setVars>>
NoCount == UNCHANGED <<mapVars, ghostVars>>

(* An entry of a map is replaced, never changed in place: what was looked up
   keeps its value. No entry is the empty function.                          *)
Lookup(m, k) == [j \in DOMAIN m \intersect {k} |-> m[j]]
Found(c) == DOMAIN cpu[c].seen # {}

(* A window is over after next_update, not at it. *)
InWindow(c, k) == Found(c) /\ cpu[c].now <= cpu[c].seen[k].next_update

(***************************************************************************)
(* The program.                                                            *)
(***************************************************************************)
LimitOf(k) == IF k \in DOMAIN config THEN config[k] ELSE Defaults[k]

(* ARP: the flag, and with it the table. A packet cut off is dropped at once. *)
ReceiveArp(c, p) ==
  /\ attached /\ At(c, "idle")
  /\ cpu' = [cpu EXCEPT ![c] =
       [pkt |-> p, at |-> IF "arp_flag" \in DOMAIN config /\ config["arp_flag"] # 0
                         THEN "arp" ELSE "admit"]]
  /\ Kept /\ NoCount

(* Mutant: any mac will do. *)
KnownSource(p) == p.src \in DOMAIN arp_table

Known(p) == p.src \in DOMAIN arp_table /\ arp_table[p.src] = p.mac

CheckArp(c) ==
  /\ At(c, "arp")
  /\ IF Known(Pkt(c)) THEN Goes(c, "admit") ELSE Verdict(c)
  /\ Kept /\ NoCount

Admit(c) == At(c, "admit") /\ Verdict(c) /\ Kept /\ NoCount

(* The lookups of the two blacklists and of the counter, and the clock. *)
Receive(c, p) ==
  /\ attached
  /\ At(c, "idle")
  /\ IF p.src \in ip_blacklist_p
     THEN UNCHANGED cpu
     ELSE cpu' = [cpu EXCEPT ![c] =
            [at |-> IF p.src \in ip_blacklist_t THEN "blocked" ELSE "count",
             pkt |-> p, now |-> now, seen |-> Lookup(ip_counter, p.src)]]
  /\ Kept /\ NoCount

(* Both are looked up; without them a blocked packet is just dropped. *)
Temporarily == {"block_flag", "unblock_time"} \subseteq DOMAIN config /\ config["block_flag"] = 0

(* Mutant: the time of the block does not count. *)
ExpiredWithWindow(c) ==
  /\ Temporarily /\ Found(c)
  /\ cpu[c].now >= cpu[c].seen[Src(c)].next_update

Expired(c) ==
  /\ Temporarily /\ Found(c)
  /\ cpu[c].now >= cpu[c].seen[Src(c)].next_update + config["unblock_time"] * Second

DropBlocked(c) ==
  /\ At(c, "blocked") /\ ~Expired(c)
  /\ Drop(c)
  /\ ip_counter' = IF Temporarily /\ ~Found(c)
                   THEN Put(ip_counter, Src(c), Fresh(cpu[c].now, Pkt(c).len)) ELSE ip_counter
  /\ Kept /\ UNCHANGED <<ip_blacklist_p, ip_blacklist_t, port_counter, blocked>>

Unblock(c) ==
  /\ At(c, "blocked") /\ Expired(c)
  /\ ip_blacklist_t' = ip_blacklist_t \ {Src(c)}
  /\ Goes(c, "reset")
  /\ Kept /\ UNCHANGED <<ip_blacklist_p, ip_counter, port_counter, ghostVars>>

PassUnblocked(c) ==
  /\ At(c, "reset")
  /\ ip_counter' = Put(ip_counter, Src(c), Fresh(cpu[c].now, Pkt(c).len))
  /\ Pass(c)
  /\ Kept /\ UNCHANGED <<ip_blacklist_p, ip_blacklist_t, port_counter, opened, blocked>>

(* The new counts come from the entry seen on receipt; another CPU may have
   replaced it since.                                                        *)
Counted(c) ==
  LET old == cpu[c].seen[Src(c)]
  IN  IF InWindow(c, Src(c))
      THEN [old EXCEPT !.pps = @ + 1, !.bps = @ + Pkt(c).len]
      ELSE Fresh(cpu[c].now, Pkt(c).len)

Count(c) ==
  /\ At(c, "count")
  /\ ip_counter' = Put(ip_counter, Src(c), Counted(c))
  /\ Goes(c, "limit")
  /\ Kept /\ UNCHANGED <<ip_blacklist_p, ip_blacklist_t, port_counter, ghostVars>>

(* Mutant: only the bytes are limited. *)
OverBytes(c) == ip_counter[Src(c)].bps > LimitOf("bps") % U32

(* The counts are looked up again. limit_pps and limit_bps are 32 bits wide. *)
OverLimit(c) ==
  \/ ip_counter[Src(c)].pps > LimitOf("pps") % U32
  \/ ip_counter[Src(c)].bps > LimitOf("bps") % U32

Limit(c) ==
  /\ At(c, "limit")
  /\ Goes(c, IF OverLimit(c) THEN "block" ELSE "header")
  /\ Kept /\ NoCount

(* The source goes to the temporary blacklist, the packet is dropped. *)
Block(c) ==
  /\ At(c, "block")
  /\ ip_blacklist_t' = ip_blacklist_t \union {Src(c)}
  /\ blocked' = [blocked EXCEPT ![Src(c)] = [by |-> "packet", at |-> cpu[c].now]]
  /\ Drop(c)
  /\ Kept /\ UNCHANGED <<ip_blacklist_p, ip_counter, port_counter>>

(* The transport header. *)
Header(c) ==
  /\ At(c, "header")
  /\ \/ Pkt(c).kind = "short" /\ Drop(c)
     \/ Pkt(c).kind = "other" /\ Pass(c) /\ UNCHANGED opened
     \/ Pkt(c).kind \in Limited /\ Goes(c, "lookup_port") /\ UNCHANGED <<passed, opened>>
  /\ Kept /\ UNCHANGED <<mapVars, blocked>>

LookupPort(c) ==
  /\ At(c, "lookup_port")
  /\ cpu' = [cpu EXCEPT ![c].at = "count_port", ![c].seen = Lookup(port_counter, Port(c))]
  /\ Kept /\ NoCount

CountPort(c) ==
  LET old == cpu[c].seen[Port(c)]
  IN  /\ At(c, "count_port")
      /\ port_counter' = Put(port_counter, Port(c),
           IF InWindow(c, Port(c)) THEN [old EXCEPT !.n = @ + 1]
           ELSE [n |-> 1, next_update |-> cpu[c].now + Second])
      /\ Goes(c, "limit_port")
      /\ Kept /\ UNCHANGED <<ip_blacklist_p, ip_blacklist_t, ip_counter, ghostVars>>

(* Mutant: SYN and UDP packets are counted and never refused. *)
NoPortLimit(c) == FALSE

OverPortLimit(c) == port_counter[Port(c)].n > LimitOf(Pkt(c).kind)

LimitPort(c) ==
  /\ At(c, "limit_port")
  /\ \/ OverPortLimit(c) /\ Goes(c, "block") /\ UNCHANGED <<passed, opened>>
     \/ /\ ~OverPortLimit(c) /\ Pass(c)
        /\ opened' = [opened EXCEPT ![Port(c)] = Append(@, now)]
  /\ Kept /\ UNCHANGED <<mapVars, blocked>>

Program(c) ==
  \/ \E p \in Packets : Receive(c, p)
  \/ \E p \in ArpPackets : ReceiveArp(c, p)
  \/ CheckArp(c) \/ Admit(c)
  \/ DropBlocked(c) \/ Unblock(c) \/ PassUnblocked(c)
  \/ Count(c) \/ Limit(c) \/ Block(c)
  \/ Header(c) \/ LookupPort(c) \/ CountPort(c) \/ LimitPort(c)

(* The ghosts keep what happened within the last second; times are in order. *)
Recent(q) ==
  LET old == {i \in DOMAIN q : q[i] + Second <= now + 1}
  IN  SubSeq(q, Cardinality(old) + 1, Len(q))

Tick ==
  /\ now < MaxTime
  /\ now' = now + 1
  /\ passed' = [s \in Sources |-> Recent(passed[s])]
  /\ opened' = [p \in Ports |-> Recent(opened[p])]
  /\ UNCHANGED <<attached, setVars, mapVars, cpu, blocked>>

Next == Tick \/ \E c \in Cpus : Program(c)

Spec == Init /\ [][Next]_vars

-----------------------------------------------------------------------------
(***************************************************************************)
(* Properties.                                                             *)
(***************************************************************************)

(* Every variable keeps its shape, and counters count at least one packet. *)
TypeOK ==
  /\ now \in 0..MaxTime
  /\ attached \in BOOLEAN
  /\ DOMAIN config \subseteq ConfigKeys
  /\ \A k \in DOMAIN config : config[k] \in Nat
  /\ DOMAIN arp_table \subseteq Sources
  /\ loosest \in [ConfigKeys -> Nat]
  /\ ip_blacklist_p \subseteq Sources /\ ip_blacklist_t \subseteq Sources
  /\ DOMAIN ip_counter \subseteq Sources /\ DOMAIN port_counter \subseteq Ports
  /\ \A s \in DOMAIN ip_counter : ip_counter[s].pps > 0 /\ ip_counter[s].next_update > 0
  /\ \A p \in DOMAIN port_counter : port_counter[p].n > 0

(* Within any second a source gets at most the packets of two windows
   through, PPS each (main.go: PPS, packets of an IP per second). While a
   limit is being edited, none or the default may be in force.               *)
RateBound == \A s \in Sources : Len(passed[s]) <= 2 * loosest["pps"]

(* The same for the SYN and the UDP packets to a port, whoever sends them
   (main.go: SYNPS and UDPPS), but for the packets that end a block, which
   pass before the ports are looked at and count for the source only.        *)
PortBound == \A p \in Ports : Len(opened[p]) <= 2 * loosest[p[1]]

(* A source that was blocked for its packets gets none through until
   unblock_time seconds have gone by (main.go: UnBlockTime), unless the
   operator takes it off the list.                                           *)
BlockLasts ==
  [][\A s \in Sources :
       (Len(passed'[s]) > Len(passed[s]) /\ blocked[s].by = "packet") =>
         now >= blocked[s].at + loosest["unblock_time"] * Second]_vars
=============================================================================
