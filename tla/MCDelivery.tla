----------------------------- MODULE MCDelivery -----------------------------
(* Three documents; a bulk request takes two of them, so one waits its turn; *)
(* the dead-letter store holds one, so a second rejection overflows it.      *)
EXTENDS DeliveryLedger

MCDoc == 1..3
=============================================================================
