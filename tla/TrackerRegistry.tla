-------------------------- MODULE TrackerRegistry --------------------------
(***************************************************************************)
(* What the agent's control API promises to its clients: a registry of     *)
(* trackers that every request reads or changes in one instant between its *)
(* call and its answer, whatever the other clients do meanwhile.           *)
(*                                                                         *)
(* This is the abstract specification; AgentServer, which models the code  *)
(* of http_server.cpp and tracker_manager.h step by step, implements it.   *)
(***************************************************************************)
EXTENDS Integers

CONSTANTS
  Clients,     (* the callers of the API                                   *)
  Names,       (* the names of trackers                                    *)
  Requests,    (* the requests: [op, name, id]                             *)
  NoRequest    (* the request of a client that has none                    *)

VARIABLES
  registry,    (* the trackers that are registered: id |-> name            *)
  nextId,      (* the id the next tracker gets                             *)
  call,        (* per client: "none", "called" or "done"                   *)
  request,     (* per client: its request                                  *)
  answer       (* per client: the answer, once there is one              *)

vars == <<registry, nextId, call, request, answer>>

(* Answers. An ok answer to a list request carries the whole registry.      *)
Failed == [status |-> "error"]
Ok     == [status |-> "ok"]
Listing(r) == [status |-> "list", list |-> r]

Without(r, id) == [k \in DOMAIN r \ {id} |-> r[k]]
With(r, id, name) == [k \in DOMAIN r \union {id} |-> IF k = id THEN name ELSE r[k]]

Init ==
  /\ registry = [k \in {} |-> 0]
  /\ nextId = 1
  /\ call = [c \in Clients |-> "none"]
  /\ request = [c \in Clients |-> NoRequest]
  /\ answer = [c \in Clients |-> Ok]

(* A client sends a request. *)
Call(c, r) ==
  /\ call[c] = "none"
  /\ call' = [call EXCEPT ![c] = "called"]
  /\ request' = [request EXCEPT ![c] = r]
  /\ UNCHANGED <<registry, nextId, answer>>

Answer(c, a) ==
  /\ call[c] = "called"
  /\ call' = [call EXCEPT ![c] = "done"]
  /\ answer' = [answer EXCEPT ![c] = a]
  /\ UNCHANGED request

(* A tracker is registered under an id no tracker ever had. *)
Start(c) ==
  /\ request[c].op = "start"
  /\ registry' = With(registry, nextId, request[c].name)
  /\ nextId' = nextId + 1
  /\ Answer(c, Ok)

(* A start that the code accepts without starting anything. *)
StartNothing(c) ==
  /\ request[c].op = "start"
  /\ Answer(c, Ok)
  /\ UNCHANGED <<registry, nextId>>

(* Any request may be refused, and a refused request changes nothing. *)
Fail(c) ==
  /\ Answer(c, Failed)
  /\ UNCHANGED <<registry, nextId>>

(* Exactly the tracker asked for is gone, if it was there. *)
Stop(c) ==
  /\ request[c].op = "stop"
  /\ registry' = Without(registry, request[c].id)
  /\ Answer(c, Ok)
  /\ UNCHANGED nextId

(* The list is the registry of one instant. *)
List(c) ==
  /\ request[c].op = "list"
  /\ Answer(c, Listing(registry))
  /\ UNCHANGED <<registry, nextId>>

Return(c) ==
  /\ call[c] = "done"
  /\ call' = [call EXCEPT ![c] = "none"]
  /\ request' = [request EXCEPT ![c] = NoRequest]
  /\ answer' = [answer EXCEPT ![c] = Ok]
  /\ UNCHANGED <<registry, nextId>>

(* A tracker of the configuration, started before any client is served. *)
Boot(name) ==
  /\ \A c \in Clients : call[c] = "none"
  /\ registry' = With(registry, nextId, name)
  /\ nextId' = nextId + 1
  /\ UNCHANGED <<call, request, answer>>

Next ==
  \/ \E c \in Clients :
       \/ \E r \in Requests : Call(c, r)
       \/ Start(c) \/ StartNothing(c) \/ Fail(c) \/ Stop(c) \/ List(c) \/ Return(c)
  \/ \E name \in Names : Boot(name)

Spec == Init /\ [][Next]_vars
=============================================================================
