---------------------------- MODULE MCWsClient ----------------------------
(* An instance of WsClient. *)
EXTENDS WsClient
One(m) == [batch |-> FALSE, msgs |-> <<m>>]
Batch(ms) == [batch |-> TRUE, msgs |-> ms]
MCMessages == {One(m) : m \in {"limitedlogin", "admin", "notifyblocks", "rescan"}}
              \cup {Batch(<<"limitedlogin", "admin", "rescan">>), Batch(<<"admin", "notifyblocks">>)}
=============================================================================
