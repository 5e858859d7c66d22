----------------------------- MODULE MCPTPSlave ------------------------------
(* Two masters whose announced qualities any other order of the three       *)
(* comparisons would rank differently.                                      *)
EXTENDS PTPSlave

CONSTANTS m1, m2
MCQualities == {<<1, 6, 9>>, <<1, 7, 8>>, <<2, 5, 7>>}
=============================================================================
