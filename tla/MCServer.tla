------------------------------ MODULE MCServer ------------------------------
(* An instance of Server: two callers, one request, two health checks.     *)
EXTENDS Server

MCSequenced == <<"rules", "cache">>
MCScripts == <<[async |-> TRUE], [async |-> FALSE]>>
=============================================================================
