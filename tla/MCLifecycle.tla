---------------------------- MODULE MCLifecycle ----------------------------
(***************************************************************************)
(* Model-checking instances of Lifecycle with two shells.                  *)
(***************************************************************************)
EXTENDS Lifecycle

CONSTANTS s1, s2

Give(r1, r2) == [s \in Sessions |-> IF s = s1 THEN r1 ELSE r2]

\* Only one shell starts daemons, by the script or in the foreground.
OneRunner == {Give("script", "none"), Give("foreground", "observe")}

\* A shell alone, whose user gives any command at any time.
OneFree == {Give("free", "none")}

BothScript == {Give("script", "script")}
=============================================================================
