-------------------------- MODULE MCIncludeApplier --------------------------
EXTENDS IncludeApplier
\* The loops as wired by setupBirdMaterializers and setupCanary.
Wiring == [bird |-> <<"anchors", "flowspec">>, canary |-> <<"canary">>]
\* The two renders of the canary are fixed; the others may be refused, or fail to render.
MayBreak == [f \in Files |-> IF f = "canary" THEN {Empty, "y"} ELSE Contents \cup {None}]
=============================================================================
