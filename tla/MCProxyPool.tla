------------------------------ MODULE MCProxyPool ------------------------------
(* Two proxies of different kinds, three solves; two failures in a row rest a *)
(* proxy, and two samples make a ratio.                                       *)
EXTENDS ProxyPool

mcKindOf == [p \in Proxies |-> IF p = "p1" THEN "residential" ELSE "datacenter"]
=============================================================================
