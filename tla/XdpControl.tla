----------------------------- MODULE XdpControl -----------------------------
(***************************************************************************)
(* The controller of the XDP firewall (goebpf/main.go) beside the program: *)
(* once the maps are filled and the program is attached, the operator      *)
(* edits limits, blacklists and the ARP table from a menu, one system call *)
(* at a time, while packets arrive. The items that only print are left out.*)
(***************************************************************************)
EXTENDS XdpFirewall

CONSTANTS
  Edits,          (* <<key, value>>: what the operator may enter            *)
  MaxEdits,       (* bound on the number of commands                        *)
  MaxRules        (* MAX_RULES of the permanent blacklist, the one map that *)
                  (* may be full here                                       *)

ASSUME ControlAssumption ==
  /\ \A e \in Edits : e[1] \in ConfigKeys /\ e[2] \in Nat
  /\ MaxEdits \in Nat /\ MaxRules \in Nat \ {0}

(* What the list file bans fits the map: with more, the controller's own
   inserts would already have displaced some before the program is attached. *)
ASSUME PermanentFits == IsFiniteSet(Permanent) /\ Cardinality(Permanent) <= MaxRules

VARIABLES
  ctl,            (* the command under way                                  *)
  edits,          (* how many commands were given                           *)
  arp_list,       (* config.ArpTable, the controller's own list: how often  *)
                  (* each pair is on it                                     *)
  entered,        (* ghost: the ARP pairs that were ever entered            *)
  banned,         (* ghost: the sources the operator wants out for good     *)
  displaced       (* ghost: the sources another permanent entry has put out *)

ctlVars == <<ctl, edits, arp_list, entered, banned, displaced>>
allVars == <<vars, ctlVars>>

Menu == [at |-> "menu"]
Pairs(t) == {[src |-> s, mac |-> t[s]] : s \in DOMAIN t}
ArpEntries == Pairs(ArpTable) \union ArpPackets

ControlInit ==
  /\ Init
  /\ ctl = Menu /\ edits = 0
  /\ arp_list = [p \in ArpEntries |-> IF p \in Pairs(ArpTable) THEN 1 ELSE 0]
  /\ entered = Pairs(ArpTable) /\ banned = Permanent /\ displaced = {}

KeepProgram == UNCHANGED <<now, cpu, ip_counter, port_counter, passed, opened>>
KeepMaps == UNCHANGED <<ip_blacklist_p, ip_blacklist_t, blocked, banned, displaced>>
KeepSettings == UNCHANGED <<attached, setVars, arp_list, entered>>

Command == ctl = Menu /\ edits < MaxEdits /\ edits' = edits + 1

(* Loosest of what was and what is in force: the longest limit, the shortest
   block, the flag that is off.                                              *)
Loosen(k, v) ==
  loosest' = [loosest EXCEPT ![k] = IF k \in Limits <=> v > @ THEN v ELSE @]

(* What the program goes by while the entry is missing. *)
Missing(k) == IF k \in Limits THEN Defaults[k] ELSE IF k = "arp_flag" THEN 0 ELSE loosest[k]

(***************************************************************************)
(* 1, 2, 5, 6, 8, 9 and 10: Upsert. The map has room for one entry, and to *)
(* make room for the new one the kernel takes the old one out first.       *)
(***************************************************************************)
Edit ==
  /\ Command
  /\ \E e \in Edits :
       /\ ctl' = [at |-> "upsert", key |-> e[1], value |-> e[2]]
       /\ config' = [k \in DOMAIN config \ {e[1]} |-> config[k]]
       /\ Loosen(e[1], Missing(e[1]))
  /\ KeepProgram /\ KeepMaps /\ UNCHANGED <<attached, arp_table, arp_list, entered>>

Upsert ==
  /\ ctl.at = "upsert"
  /\ config' = Put(config, ctl.key, ctl.value)
  /\ Loosen(ctl.key, ctl.value)
  /\ ctl' = Menu
  /\ KeepProgram /\ KeepMaps /\ UNCHANGED <<attached, arp_table, arp_list, entered, edits>>

(***************************************************************************)
(* 3 and 4: the blacklists, one address of the lists entered: Lookup, then *)
(* Delete if it is there, Insert if it is not; otherwise nothing is done.  *)
(***************************************************************************)
Listed(l, s) == s \in IF l = "t" THEN ip_blacklist_t ELSE ip_blacklist_p

LookUp ==
  /\ Command
  /\ \E l \in {"t", "p"}, s \in Sources :
       ctl' = [at |-> IF Listed(l, s) THEN "delete" ELSE "insert", list |-> l, src |-> s]
  /\ KeepProgram /\ KeepMaps /\ KeepSettings

(* If the program has just unblocked the address, the controller exits, and
   the program stays attached.                                               *)
Delete ==
  /\ ctl.at = "delete"
  /\ ctl' = IF Listed(ctl.list, ctl.src) THEN Menu ELSE [at |-> "fatal"]
  /\ IF ctl.list = "t"
     THEN /\ ip_blacklist_t' = ip_blacklist_t \ {ctl.src}
          /\ blocked' = [blocked EXCEPT ![ctl.src] = [by |-> "nobody", at |-> now]]
          /\ UNCHANGED <<ip_blacklist_p, banned>>
     ELSE /\ ip_blacklist_p' = ip_blacklist_p \ {ctl.src}
          /\ banned' = banned \ {ctl.src}
          /\ UNCHANGED <<ip_blacklist_t, blocked>>
  /\ KeepProgram /\ KeepSettings /\ UNCHANGED <<displaced, edits>>

InsertTemp ==
  /\ ctl.at = "insert" /\ ctl.list = "t"
  /\ ip_blacklist_t' = ip_blacklist_t \union {ctl.src}
  /\ ctl' = Menu
  /\ KeepProgram /\ KeepSettings
  /\ UNCHANGED <<ip_blacklist_p, blocked, banned, displaced, edits>>

(* Mutant: option 4 inserts where option 3 does. *)
InsertPermInTemp ==
  /\ ctl.at = "insert" /\ ctl.list = "p"
  /\ ip_blacklist_t' = ip_blacklist_t \union {ctl.src}
  /\ banned' = banned \union {ctl.src}
  /\ ctl' = Menu
  /\ KeepProgram /\ KeepSettings
  /\ UNCHANGED <<ip_blacklist_p, blocked, displaced, edits>>

(* A full LRU map makes room: any one of its entries may go. *)
InsertPerm ==
  /\ ctl.at = "insert" /\ ctl.list = "p"
  /\ \E out \in SUBSET ip_blacklist_p :
       /\ Cardinality(out) = IF Cardinality(ip_blacklist_p) < MaxRules THEN 0 ELSE 1
       /\ ip_blacklist_p' = (ip_blacklist_p \ out) \union {ctl.src}
       /\ displaced' = (displaced \union out) \ {ctl.src}
  /\ banned' = banned \union {ctl.src}
  /\ ctl' = Menu
  /\ KeepProgram /\ KeepSettings /\ UNCHANGED <<ip_blacklist_t, blocked, edits>>

(***************************************************************************)
(* 11: an entry that is deleted only goes from the controller's own list,  *)
(* one that is added also goes to the map. The operator may leave either   *)
(* out; here each is a command of its own.                                 *)
(***************************************************************************)
DeleteArp ==
  /\ Command
  /\ \E p \in ArpEntries :
       arp_list[p] > 0 /\ arp_list' = [arp_list EXCEPT ![p] = @ - 1]
  /\ KeepProgram /\ KeepMaps /\ UNCHANGED <<attached, setVars, entered, ctl>>

AddArp ==
  /\ Command
  /\ \E p \in ArpPackets :
       /\ arp_table' = Put(arp_table, p.src, p.mac)
       /\ arp_list' = [arp_list EXCEPT ![p] = @ + 1]
       /\ entered' = entered \union {p}
  /\ KeepProgram /\ KeepMaps /\ UNCHANGED <<attached, config, loosest, ctl>>

(* q *)
Quit ==
  /\ ctl = Menu
  /\ attached' = FALSE /\ ctl' = [at |-> "quit"]
  /\ KeepProgram /\ KeepMaps /\ UNCHANGED <<setVars, arp_list, entered, edits>>

Controller ==
  \/ Edit \/ Upsert \/ LookUp \/ Delete \/ InsertTemp \/ InsertPerm
  \/ DeleteArp \/ AddArp \/ Quit

ControlNext == (Next /\ UNCHANGED ctlVars) \/ Controller

ControlSpec == ControlInit /\ [][ControlNext]_allVars

-----------------------------------------------------------------------------

(* The program and the controller keep their shapes. *)
ControlTypeOK ==
  /\ TypeOK
  /\ ctl \in {Menu, [at |-> "quit"], [at |-> "fatal"]}
       \union [at : {"upsert"}, key : ConfigKeys, value : Nat]
       \union [at : {"insert", "delete"}, list : {"t", "p"}, src : Sources]
  /\ edits \in 0..MaxEdits
  /\ arp_list \in [ArpEntries -> Nat]
  /\ entered \subseteq ArpEntries
  /\ banned \subseteq Sources /\ displaced \subseteq Sources

(* A packet of a source on the permanent list goes no further than the first
   lookup, whatever happens on the temporary list (main.go:
   Ipv4BlacklistPerm), but for the one source that an insert into the full
   list has put out; every other ban, the new one too, goes on.              *)
BansArePermanent ==
  [][\A c \in Cpus :
       (cpu[c] = Idle /\ cpu'[c] # Idle /\ cpu'[c].at \in {"blocked", "count"}) =>
         cpu'[c].pkt.src \notin banned \ displaced]_allVars

(* With the ARP table on, a sender that was never entered gets nothing
   through, but while the flag itself is being edited (main.go: ArpFlag).    *)
ArpOnlyEntered ==
  [][\A c \in Cpus :
       (cpu[c].at # "admit" /\ cpu'[c].at = "admit") =>
         cpu'[c].pkt \in entered \/ loosest["arp_flag"] = 0]_allVars
=============================================================================
