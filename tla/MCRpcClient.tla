---------------------------- MODULE MCRpcClient ----------------------------
(* An instance of RpcClient: a registration and another request. *)
EXTENDS RpcClient
CONSTANTS r1, r2
MCMethod == (r1 :> "notify") @@ (r2 :> "rescan")
=============================================================================
