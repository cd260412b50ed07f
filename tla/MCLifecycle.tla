---------------------------- MODULE MCLifecycle ----------------------------
(* Instances of Lifecycle for TLC.                                         *)
EXTENDS Lifecycle
CONSTANTS f1, f2, bad, r1, r2
MCFile == {f1, f2, bad}
MCValid == {f1, f2}
MCRequest == {r1, r2}
MCOneRequest == {r1}
MCOneFile == {f1}
=============================================================================
