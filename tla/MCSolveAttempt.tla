---------------------------- MODULE MCSolveAttempt ----------------------------
(* Two solves, two attempts each, over a shared warm session and a proxy:    *)
(* one that injects its page, and one that injects or opens the real page    *)
(* and meets each other way out to the network.                              *)
EXTENDS SolveAttempt

Asked(family, egress) == [family |-> family, egress |-> egress]

MCPlans ==
    [s1 |-> {Asked("injected", "proxyless")},
     s2 |-> {Asked("injected", "auto"), Asked("real", "pool"), Asked("real", "task")}]

\* A real page that may follow an injected one on its session, or go through a proxy.
FindPlans ==
    [s1 |-> {Asked("injected", "proxyless")},
     s2 |-> {Asked("real", "proxyless"), Asked("real", "pool")}]
=============================================================================
