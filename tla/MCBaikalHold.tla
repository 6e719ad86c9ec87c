---------------------------- MODULE MCBaikalHold ----------------------------
(* Both Baikal ports: BS1000 with its secondary cores in reset or already  *)
(* in the holding pen at boot, and BM1000 with PLLs that start or may not. *)
EXTENDS BaikalHold

MCBoards == {[soc |-> "BS1000", released |-> r, pll_fails |-> FALSE] : r \in BOOLEAN}
       \cup {[soc |-> "BM1000", released |-> FALSE, pll_fails |-> f] : f \in BOOLEAN}
=============================================================================
