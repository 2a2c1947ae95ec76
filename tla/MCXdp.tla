------------------------------- MODULE MCXdp -------------------------------
(***************************************************************************)
(* Instances of XdpControl and XdpFirewall: a sends packets of all kinds,  *)
(* p is blocked for good until the operator deletes it from the list, and  *)
(* then sends to the port that a sends to.                                 *)
(***************************************************************************)
EXTENDS XdpControl, TLC

CONSTANTS a, p, m1, m2

Packet(s, k, l) == [src |-> s, kind |-> k, port |-> 80, len |-> l]
Arp(s, m) == [src |-> s, mac |-> m]
OneCpu == {1}
TwoCpus == {1, 2}
OnlyA == {a}
BothSources == {a, p}
OnlyP == {p}
PlainPackets == {Packet(a, "other", 1), Packet(a, "short", 1), Packet(a, "other", 2)}
MixedPackets ==
  {Packet(a, "other", 1), Packet(a, "syn", 1), Packet(a, "short", 2),
   Packet(p, "syn", 1), Packet(p, "udp", 1)}
SomeArp == {Arp(a, m1), Arp(a, m2)}
KnownArp == a :> m1
NoArp == Nothing
SmallConfig ==
  [pps |-> 2, bps |-> 3, syn |-> 1, udp |-> 1, block_flag |-> 0, unblock_time |-> 1,
   arp_flag |-> 1]
OnePps == [SmallConfig EXCEPT !.pps = 1]
SmallDefaults == [pps |-> 3, bps |-> 3, syn |-> 2, udp |-> 2]
SomeEdits ==
  {<<"pps", 1>>, <<"bps", 17>>, <<"syn", 2>>, <<"block_flag", 1>>, <<"unblock_time", 0>>,
   <<"arp_flag", 0>>}
=============================================================================
