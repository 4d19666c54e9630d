-------------------------- MODULE AccountDirectory --------------------------
(***************************************************************************)
(* What AccountDaoImpl promises of the accounts, though it checks and      *)
(* writes in several operations on the directory: an account is created    *)
(* under a free uid with a mail that nobody has, moves to a free uid, is   *)
(* written whole with a mail that nobody else has, and is removed.         *)
(***************************************************************************)
CONSTANTS
    Uids,
    Entry,   \* what an account holds, its mail among it
    None     \* no account

VARIABLE accounts

Exists(u) == accounts[u] # None

Init ==
    /\ accounts \in [Uids -> Entry \cup {None}]
    /\ \A u, v \in Uids : (Exists(u) /\ Exists(v) /\ accounts[u].mail = accounts[v].mail) => u = v

\* Nobody but the users of S has the mail of entry e.
FreeFor(S, e) == \A u \in Uids \ S : Exists(u) => accounts[u].mail # e.mail

Create(u, e) ==
    /\ ~Exists(u) /\ FreeFor({}, e)
    /\ accounts' = [accounts EXCEPT ![u] = e]

Move(u, v) ==
    /\ Exists(u) /\ ~Exists(v)
    /\ accounts' = [accounts EXCEPT ![v] = accounts[u], ![u] = None]

Write(u, e) ==
    /\ Exists(u) /\ FreeFor({u}, e)
    /\ accounts' = [accounts EXCEPT ![u] = e]

Remove(u) ==
    /\ Exists(u)
    /\ accounts' = [accounts EXCEPT ![u] = None]

Next ==
    \/ \E u \in Uids, e \in Entry : Create(u, e) \/ Write(u, e)
    \/ \E u, v \in Uids : Move(u, v)
    \/ \E u \in Uids : Remove(u)

Spec == Init /\ [][Next]_accounts
=============================================================================
