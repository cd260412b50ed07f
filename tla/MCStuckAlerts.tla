--------------------------- MODULE MCStuckAlerts ----------------------------
(* Three documents, two rejection types, room for two dead letters.         *)
EXTENDS StuckAlerts

CONSTANT a1

MCLetter == 1..3
MCReason == {"mapping", "size"}
=============================================================================
