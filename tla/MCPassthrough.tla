--------------------------- MODULE MCPassthrough ----------------------------
EXTENDS Passthrough

\* Three reloadable configurations: a roomy buffer, a smaller one with a
\* smaller batch, and pass-through disabled.
MCSettings ==
    {[enabled |-> TRUE,  size |-> 3, batch |-> 2],
     [enabled |-> TRUE,  size |-> 2, batch |-> 1],
     [enabled |-> FALSE, size |-> 1, batch |-> 1]}
=============================================================================
