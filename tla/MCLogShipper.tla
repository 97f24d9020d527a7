---------------------------- MODULE MCLogShipper ----------------------------
EXTENDS LogShipper, TLC

CONSTANTS e1, e2, e3

\* An event whose line has two parts, one that nothing accepts, and one whose line
\* has three parts, which is too long.
MCEvent == {e1, e2, e3}
MCSize == (e1 :> 2) @@ (e2 :> 1) @@ (e3 :> 3)
MCPoison == {e2}
MCSlots == {1, 2}
=============================================================================
