------------------------------ MODULE MCBridge ------------------------------
(* Small instances of Bridge: one task submitting, then two of them, one   *)
(* being the loop task itself, as in examples/esp32-arduino where the      *)
(* console submits from the AsyncTCP task and the portal from loop().      *)
EXTENDS Bridge

CONSTANTS loop, net

MCLoop == loop
MCOne  == {net}
MCTwo  == {net, loop}
=============================================================================
