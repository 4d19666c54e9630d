-------------------------- MODULE MCGroupsConsole --------------------------
(* A console and other administrators.                                     *)
EXTENDS GroupsConsole, TLC

CONSTANTS USER, g1, g2, u1, u2, u3

MCFirstMembers == (USER :> {u1, u3}) @@ (g1 :> {u1}) @@ (g2 :> {})
MCFirstNumber == (USER :> 1) @@ (g1 :> -1) @@ (g2 :> -1)
MCNoNumber == -1
MCBatches == {[users |-> {u1, u2}, put |-> {g1}, del |-> {}],
              [users |-> {u1}, put |-> {g2}, del |-> {g1}]}
MCSelections == {{u1}, {u1, u2}}
=============================================================================
