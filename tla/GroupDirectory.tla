--------------------------- MODULE GroupDirectory ---------------------------
(***************************************************************************)
(* What GroupDaoImpl promises of the names and the numbers of the groups,  *)
(* though a rename takes a group out of the directory before it binds it   *)
(* again: a group is added under a free name with a number of its own, is  *)
(* renamed at once to a free name and keeps its number, and is removed;    *)
(* a protected group is neither renamed nor removed.  A group whose bind   *)
(* fails is removed.                                                       *)
(***************************************************************************)
EXTENDS Integers

CONSTANTS Groups, Protected, NoNumber

VARIABLES
    names,    \* the groups there are
    number    \* number[g]

groups == <<names, number>>

Init ==
    /\ names \subseteq Groups
    /\ number \in [Groups -> Nat \cup {NoNumber}]
    /\ \A g, h \in names : number[g] = number[h] => g = h \/ number[g] = NoNumber

\* Group g gets the number `kept`, or one that no group has.
Given(g, kept) ==
    /\ number' = [number EXCEPT ![g] = number'[g]]
    /\ IF kept # NoNumber THEN number'[g] = kept
       ELSE number'[g] \in Nat /\ \A h \in names : number[h] # number'[g]

Add(g) ==
    /\ g \notin names
    /\ names' = names \cup {g}
    /\ Given(g, NoNumber)

Rename(g, h) ==
    /\ g \in names \ Protected
    /\ h = g \/ h \notin names
    /\ names' = (names \ {g}) \cup {h}
    /\ Given(h, number[g])

Remove(g) ==
    /\ g \in names \ Protected
    /\ names' = names \ {g}
    /\ UNCHANGED number

Next ==
    \/ \E g \in Groups : Add(g) \/ Remove(g)
    \/ \E g, h \in Groups : Rename(g, h)

Spec == Init /\ [][Next]_groups
=============================================================================
