--------------------------- MODULE MCLdapAccounts ---------------------------
(* Small instances of LdapAccounts for TLC. *)
EXTENDS LdapAccounts, TLC

CONSTANTS u1, u2, u3, m1, m2, p1, p2, o1, o2

Nothing == [uid |-> Absent, mail |-> Absent, phone |-> Absent, org |-> Absent]

\* A change of mail, a change of the phone, a rename, a rename with a mail, a
\* change of organization, a rename with an organization.
MCBodies ==
    {[Nothing EXCEPT !.mail = m1], [Nothing EXCEPT !.phone = p2], [Nothing EXCEPT !.uid = u3],
     [Nothing EXCEPT !.uid = u3, !.mail = m1], [Nothing EXCEPT !.org = o1],
     [Nothing EXCEPT !.uid = u3, !.org = o1]}

MCSeeds == {[mail |-> m, phone |-> p1] : m \in Mails}

Symmetry == Permutations(Requests)
=============================================================================
