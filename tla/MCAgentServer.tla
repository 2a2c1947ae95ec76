--------------------------- MODULE MCAgentServer ---------------------------
(***************************************************************************)
(* A small instance of AgentServer: two clients, addresses for two trackers *)
(* in the agent and for a standalone one, and the requests that tell the   *)
(* answers apart.                                                          *)
(***************************************************************************)
EXTENDS AgentServer

CONSTANTS c1, c2, o1, o2, o3, main, none

MCClients == {c1, c2}
MCTrackers == {o1, o2, o3}
MCStandalone == {o3}
MCNames == {"files", "process", "opensnoop", "nosuch"}

StartReq(n, h) == [op |-> "start", name |-> n, handlers |-> h, id |-> 0]
StopReq(i) == [op |-> "stop", name |-> "files", handlers |-> FALSE, id |-> i]
ListReq == [op |-> "list", name |-> "files", handlers |-> FALSE, id |-> 0]
BadReq == [op |-> "bad", name |-> "files", handlers |-> FALSE, id |-> 0]

(* Ids within the range of an int: the atomic registry promises nothing for
   the others, which remove_tracker narrows.                                 *)
MCRequests ==
  {StartReq("files", TRUE), StartReq("opensnoop", TRUE), StartReq("files", FALSE),
   StartReq("nosuch", TRUE),
   StopReq(1), StopReq(2), ListReq, BadReq}

(* Every start of this set starts a tracker. *)
PlainRequests == {StartReq("files", TRUE), StopReq(1), ListReq}

MCEnabled == <<StartReq("files", TRUE)>>
NoneEnabled == << >>
=============================================================================
