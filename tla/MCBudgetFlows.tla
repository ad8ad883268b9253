----------------------------- MODULE MCBudgetFlows -----------------------------
(* Three flows of two clients; one flow fills the cap of its client, two the *)
(* global cap.  The ring holds two attempts of up to four.                   *)
EXTENDS BudgetFlows, TLC

symFlows == Permutations(Requests)
=============================================================================
