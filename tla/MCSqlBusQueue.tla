--------------------------- MODULE MCSqlBusQueue ----------------------------
(* SqlBusQueue with two listeners for TLC.                                 *)
EXTENDS SqlBusQueue

CONSTANTS w1, w2
=============================================================================
