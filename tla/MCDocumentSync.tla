--------------------------- MODULE MCDocumentSync ---------------------------
(* Instances of DocumentSync for TLC. *)
EXTENDS DocumentSync

CONSTANTS k1, k2

OneFolder == {0}
TwoFolders == {0, 1}
AllInPrimary == [k \in Keys |-> 0]
SecondInExtra == [k \in Keys |-> IF k = k2 THEN 1 ELSE 0]

Standalone == [k \in Keys |-> {}]
DependsOnK2 == [k \in Keys |-> IF k = k1 THEN {k2} ELSE {}]

\* 0 and 1 discover everything and differ in the registry they build; 2 and 3
\* discover less; 4 does not parse.
LayoutOf == [c \in Configs |-> CASE c \in {0, 1} -> Keys [] c = 2 -> {k1} [] OTHER -> {}]
Registry0 == [c \in Configs |-> IF c = 1 THEN 1 ELSE 0]

EditKinds == {"open", "change", "close", "settings"}
HeldKinds == {"open", "change", "rename"}
ScanKinds == {"scan", "open", "settings"}
WatchKinds == {"open", "change", "close", "save", "write", "delete", "hints", "rename"}
ReloadKinds == {"open", "change", "config"}

\* Scenarios in which the code and what is written about it part ways.
ScanEditKinds == {"scan", "open", "change"}
=============================================================================
