----------------------------- MODULE AccelContract -----------------------------
(***************************************************************************)
(* The accelerator under an arbitrary bus master, which may put any        *)
(* request on the bus at any edge, and an asynchronous reset at any time.  *)
(*                                                                         *)
(* HostRequests is what the master puts on the bus: a few requests in a    *)
(* finite run, any set of requests in the proofs.                          *)
(***************************************************************************)
EXTENDS AccelHistory

CONSTANT HostRequests

ASSUME HostAssumption == HostRequests \subseteq Request

ContractNext == HostReset \/ \E req \in HostRequests : HostEdge(req)

ContractSpec == HostInit /\ [][ContractNext]_hostVars
=============================================================================
