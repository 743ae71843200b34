---------------------------- MODULE MCConfigSync ----------------------------
(* Instances of ConfigSync for TLC. *)
EXTENDS ConfigSync, TLC

CONSTANTS a, b

TwoFolders == {0, 1}

\* Two folders side by side
Beside == (0 :> <<a>>) @@ (1 :> <<b>>)
WithinBeside == (0 :> {a}) @@ (1 :> {b})

Default0 == [k \in Fields |-> 0]
Set(k, v) == [Default0 EXCEPT ![k] = v]
\* 9 is a value that validation rejects.
Rejected == {<<"extras", 9>>, <<"select", 9>>, <<"ignore", 9>>}
Files == {Set("extensions", 1), Set("hints", 1), Set("extras", 9), Set("select", 1)}
Sent(o) == [sets |-> o, lint |-> FALSE]
Editor == {Sent("extras" :> 1), Sent("hints" :> 1), Sent("select" :> 2), Sent("ignore" :> 9),
           [sets |-> NoSettings, lint |-> TRUE], [sets |-> NoSettings, lint |-> FALSE]}
RootLengths == (0 :> 1) @@ (1 :> 2)
=============================================================================
