---------------------------- MODULE LdapAccounts ----------------------------
(***************************************************************************)
(* The accounts of ldapadmin: requests of administrators (and of users     *)
(* about themselves) that create, update and delete accounts in the LDAP   *)
(* directory and set their organization.                                   *)
(*                                                                         *)
(* AccountDaoImpl.insert, update and delete are synchronized on the one    *)
(* DAO: "lock" is the request inside it.  The directory has no             *)
(* transactions, so each operation on it is a step, and everything a       *)
(* controller reads before, or does after, the lock interleaves.           *)
(***************************************************************************)
EXTENDS Naturals, FiniteSets

CONSTANTS
    Requests,   \* HTTP requests
    Uids,       \* user identifiers
    Mails,      \* e-mail addresses
    Phones,     \* values of a field of the account that requests may leave out
    Orgs,       \* organizations
    Bodies,     \* the JSON bodies of the updates
    Seeds,      \* the entries the directory may start with
    None,       \* no value
    Absent      \* a field that is not present in a body

Body == [uid : Uids \cup {Absent}, mail : Mails \cup {Absent}, phone : Phones \cup {Absent},
         org : Orgs \cup {None, Absent}]

Entry == [mail : Mails, phone : Phones]

ASSUME AccountsAssumption ==
    /\ IsFiniteSet(Uids)
    /\ None \notin Requests \cup Uids \cup Mails \cup Orgs
    /\ None \notin Entry
    /\ Absent \notin Uids \cup Mails \cup Phones \cup Orgs \cup {None}
    /\ "USER" \notin Orgs
    /\ Bodies \subseteq Body
    /\ Seeds \subseteq Entry

Groups == {"USER"} \cup Orgs

VARIABLES
    entry,      \* the entries under ou=users, None where there is none
    member,     \* member attribute of a group or organization
    memberOf,   \* memberOf attribute of an account
    lock,       \* the request that holds the lock of AccountDaoImpl, or None
    req,        \* local state of the requests
    failed      \* history: the directory has not answered some operation

directory == <<entry, member, memberOf>>
vars == <<directory, lock, req, failed>>

Steps == {"new", "insert", "bind", "role", "org", "update", "check", "modify",
          "removeOld", "addNew", "delete", "unrole", "unbind", "done"}
Results == {"none", "ok", "duplicatedEmail", "duplicatedUid", "notFound", "error"}

NewRequest == [step |-> "new", uid |-> None, to |-> None, data |-> None,
               org0 |-> None, org |-> None, result |-> "none"]

TypeOK ==
    /\ entry \in [Uids -> Entry \cup {None}]
    /\ member \in [Groups -> SUBSET Uids]
    /\ memberOf \in [Uids -> SUBSET Groups]
    /\ lock \in Requests \cup {None}
    /\ req \in [Requests -> [step : Steps, uid : Uids \cup {None}, to : Uids \cup {None},
                             data : Entry \cup {None}, org0 : Orgs \cup {None},
                             org : Orgs \cup {None}, result : Results]]
    /\ failed \in BOOLEAN

Exists(u) == entry[u] # None
HasMail(m) == {u \in Uids : Exists(u) /\ entry[u].mail = m}
OrgsOf(u) == memberOf[u] \ {"USER"}

\* AccountContextMapper throws on an account of several organizations.
Mapped(u) == Cardinality(OrgsOf(u)) <= 1

\* Every account is in USER and in at most one organization; mails are unique.
Init ==
    /\ entry \in [Uids -> Seeds \cup {None}]
    /\ \A m \in Mails : Cardinality(HasMail(m)) <= 1
    /\ memberOf \in [Uids -> {{}} \cup {{"USER"}} \cup {{"USER", o} : o \in Orgs}]
    /\ \A u \in Uids : Exists(u) <=> memberOf[u] # {}
    /\ member = [g \in Groups |-> {u \in Uids : g \in memberOf[u]}]
    /\ lock = None
    /\ req = [r \in Requests |-> NewRequest]
    /\ failed = FALSE

-----------------------------------------------------------------------------
(* Operations on the directory, with its memberof overlay *)

\* addAttributeValue leaves a value that is there already as it is.  An
\* organization may list a user that does not exist.
AddMember(g, u) ==
    /\ member' = [member EXCEPT ![g] = @ \cup {u}]
    /\ memberOf' = IF Exists(u) /\ u \notin member[g]
                   THEN [memberOf EXCEPT ![u] = @ \cup {g}] ELSE memberOf
    /\ UNCHANGED entry

RemoveMember(g, u) ==
    /\ member' = [member EXCEPT ![g] = @ \ {u}]
    /\ memberOf' = IF u \in member[g] THEN [memberOf EXCEPT ![u] = @ \ {g}] ELSE memberOf
    /\ UNCHANGED entry

\* Mutant of RenameEntry: the groups keep the old uid.
RenameEntryOnly(u, v) ==
    /\ entry' = [entry EXCEPT ![v] = entry[u], ![u] = None]
    /\ memberOf' = [memberOf EXCEPT ![v] = memberOf[u], ![u] = {}]
    /\ UNCHANGED member

\* The overlay renames a member in the groups of its memberOf.
RenameEntry(u, v) ==
    /\ entry' = [entry EXCEPT ![v] = entry[u], ![u] = None]
    /\ memberOf' = [memberOf EXCEPT ![v] = memberOf[u], ![u] = {}]
    /\ member' = [g \in Groups |-> IF g \in memberOf[u]
                                   THEN (member[g] \ {u}) \cup {v} ELSE member[g]]

UnbindEntry(u) ==
    /\ entry' = [entry EXCEPT ![u] = None]
    /\ memberOf' = [memberOf EXCEPT ![u] = {}]
    /\ member' = [g \in Groups |-> IF g \in memberOf[u] THEN member[g] \ {u} ELSE member[g]]

-----------------------------------------------------------------------------
(* Requests *)

Step(r, from, to) == /\ req[r].step = from
                     /\ req' = [req EXCEPT ![r].step = to]

Answer(r, from, result) ==
    /\ req[r].step = from
    /\ req' = [req EXCEPT ![r].step = "done", ![r].result = result]

\* Mutant of Enter: the method is not synchronized.
EnterUnlocked(r) == lock' = r

Enter(r) == lock = None /\ lock' = r
Leave(r) == lock = r /\ lock' = None

\* Mutant of Refuse: the lock is not released.
RefuseHolding(r, from, result) ==
    /\ Enter(r)
    /\ Answer(r, from, result)
    /\ UNCHANGED <<directory, failed>>

\* A synchronized method that refuses as soon as it is entered.
Refuse(r, from, result) ==
    /\ lock = None
    /\ Answer(r, from, result)
    /\ UNCHANGED <<directory, lock, failed>>

-----------------------------------------------------------------------------
(* UsersController.create and AccountDaoImpl.insert *)

\* The uid is the one of the body, or one that was free when it was generated:
\* in both cases any uid, which may be taken when the DAO is entered.
CreateUid(r, u, m, p, o) ==
    /\ req[r].step = "new"
    /\ req' = [req EXCEPT ![r] =
          [NewRequest EXCEPT !.step = "insert", !.uid = u, !.to = u, !.org = o,
               !.data = [mail |-> m, phone |-> p]]]
    /\ UNCHANGED <<directory, lock, failed>>

\* findByUID, then findByEmail: each throws on an account of several orgs.
Insert(r) ==
    /\ Step(r, "insert", "bind")
    /\ Enter(r)
    /\ ~Exists(req[r].uid)
    /\ HasMail(req[r].data.mail) = {}
    /\ UNCHANGED <<directory, failed>>

InsertRefused(r) ==
    /\ req[r].step = "insert"
    /\ IF Exists(req[r].uid)
       THEN Refuse(r, "insert", IF Mapped(req[r].uid) THEN "duplicatedUid" ELSE "error")
       ELSE \E u \in HasMail(req[r].data.mail) :
                Refuse(r, "insert", IF Mapped(u) THEN "duplicatedEmail" ELSE "error")

Bind(r) ==
    /\ Step(r, "bind", "role")
    /\ entry' = [entry EXCEPT ![req[r].uid] = req[r].data]
    /\ UNCHANGED <<member, memberOf, lock, failed>>

AddRole(r) ==
    /\ Step(r, "role", "org")
    /\ AddMember("USER", req[r].uid)
    /\ UNCHANGED <<lock, failed>>

AddOrg(r) ==
    /\ Answer(r, "org", "ok")
    /\ Leave(r)
    /\ IF req[r].org = None THEN UNCHANGED directory ELSE AddMember(req[r].org, req[r].uid)
    /\ UNCHANGED failed

-----------------------------------------------------------------------------
(* UsersController.update, EditUserDetailsFormController.edit (its form has *)
(* neither uid nor organization) and AccountDaoImpl.update                  *)

\* Mutant of OrElse: the default is not taken.
OrNothing(value, default) == value

OrElse(value, default) == IF value = Absent THEN default ELSE value

\* findByUID, then the fields of the body on a copy of the account.
FindAccount(r, u, b) ==
    LET orgs == OrgsOf(u)
        org0 == IF orgs = {} THEN None ELSE CHOOSE o \in orgs : TRUE IN
    /\ Exists(u)
    /\ Mapped(u)
    /\ req[r].step = "new"
    /\ req' = [req EXCEPT ![r] =
          [NewRequest EXCEPT !.step = "update", !.uid = u, !.to = OrElse(b.uid, u),
               !.data = [mail |-> OrElse(b.mail, entry[u].mail),
                         phone |-> OrElse(b.phone, entry[u].phone)],
               !.org0 = org0, !.org = OrElse(b.org, org0)]]
    /\ UNCHANGED <<directory, lock, failed>>

FindAccountFails(r, u) ==
    /\ ~Exists(u) \/ ~Mapped(u)
    /\ Answer(r, "new", IF Exists(u) THEN "error" ELSE "notFound")
    /\ UNCHANGED <<directory, lock, failed>>

Update(r) ==
    /\ Enter(r)
    /\ Step(r, "update", "check")
    /\ \/ req[r].uid = req[r].to /\ UNCHANGED directory
       \/ /\ req[r].uid # req[r].to /\ Exists(req[r].uid) /\ ~Exists(req[r].to)
          /\ RenameEntry(req[r].uid, req[r].to)
    /\ UNCHANGED failed

RenameRefused(r) ==
    /\ req[r].step = "update"
    /\ req[r].uid # req[r].to
    /\ ~Exists(req[r].uid) \/ Exists(req[r].to)
    /\ Refuse(r, "update", "error")

\* The mail may be the one of this account.
CheckMail(r) ==
    /\ req[r].step = "check"
    /\ \/ /\ HasMail(req[r].data.mail) = {}
          /\ Step(r, "check", "modify") /\ UNCHANGED lock
       \/ \E u \in HasMail(req[r].data.mail) :
             \/ /\ Mapped(u) /\ u = req[r].to
                /\ Step(r, "check", "modify") /\ UNCHANGED lock
             \/ /\ ~Mapped(u) \/ u # req[r].to
                /\ Answer(r, "check", IF Mapped(u) THEN "duplicatedEmail" ELSE "error")
                /\ Leave(r)
    /\ UNCHANGED <<directory, failed>>

\* All the fields of the copy are written.
Modify(r) ==
    /\ req[r].step = "modify"
    /\ Leave(r)
    /\ \/ /\ Exists(req[r].to)
          /\ entry' = [entry EXCEPT ![req[r].to] = req[r].data]
          /\ IF req[r].org # req[r].org0 THEN Step(r, "modify", "removeOld")
                                         ELSE Answer(r, "modify", "ok")
       \/ ~Exists(req[r].to) /\ Answer(r, "modify", "notFound") /\ UNCHANGED entry
    /\ UNCHANGED <<member, memberOf, failed>>

\* The change of organization names the user by the uid of the path.
RemoveOld(r) ==
    /\ Step(r, "removeOld", "addNew")
    /\ IF req[r].org0 = None THEN UNCHANGED directory
                             ELSE RemoveMember(req[r].org0, req[r].uid)
    /\ UNCHANGED <<lock, failed>>

AddNew(r) ==
    /\ Answer(r, "addNew", "ok")
    /\ IF req[r].org = None THEN UNCHANGED directory ELSE AddMember(req[r].org, req[r].uid)
    /\ UNCHANGED <<lock, failed>>

-----------------------------------------------------------------------------
(* UsersController.delete and AccountDaoImpl.delete *)

Delete(r, u) ==
    /\ req[r].step = "new"
    /\ req' = [req EXCEPT ![r] = [NewRequest EXCEPT !.step = "delete", !.uid = u]]
    /\ UNCHANGED <<directory, lock, failed>>

DeleteUser(r) ==
    /\ Enter(r)
    /\ Step(r, "delete", "unbind")
    /\ RemoveMember("USER", req[r].uid)
    /\ UNCHANGED failed

Unbind(r) ==
    /\ req[r].step = "unbind"
    /\ Leave(r)
    /\ \/ Exists(req[r].uid) /\ Answer(r, "unbind", "ok") /\ UnbindEntry(req[r].uid)
       \/ ~Exists(req[r].uid) /\ Answer(r, "unbind", "notFound") /\ UNCHANGED directory
    /\ UNCHANGED failed

-----------------------------------------------------------------------------
(* OrgsController *)

\* findForUser looks for the DN of the user without the base DN, which no
\* member attribute holds: no organization is found, and none is left.
AddUserInOrg(r, u, o) ==
    /\ Answer(r, "new", "ok")
    /\ AddMember(o, u)
    /\ UNCHANGED <<lock, failed>>

RemoveUserFromOrg(r, u, o) ==
    /\ Answer(r, "new", "ok")
    /\ RemoveMember(o, u)
    /\ UNCHANGED <<lock, failed>>

\* The directory does not answer the next operation of a request.
DirectoryFails(r) ==
    /\ req[r].step \notin {"new", "done"}
    /\ req[r].step \in {"insert", "update", "delete"} => lock = None
    /\ Answer(r, req[r].step, "error")
    /\ lock' = IF lock = r THEN None ELSE lock
    /\ failed' = TRUE
    /\ UNCHANGED directory

-----------------------------------------------------------------------------
Arrive(r) ==
    \/ \E u \in Uids, m \in Mails, p \in Phones, o \in Orgs \cup {None} :
           CreateUid(r, u, m, p, o)
    \/ \E u \in Uids, b \in Bodies : FindAccount(r, u, b)
    \/ \E u \in Uids : FindAccountFails(r, u) \/ Delete(r, u)
    \/ \E u \in Uids, o \in Orgs : AddUserInOrg(r, u, o) \/ RemoveUserFromOrg(r, u, o)

Proceed(r) ==
    \/ Insert(r) \/ InsertRefused(r) \/ Bind(r) \/ AddRole(r) \/ AddOrg(r)
    \/ Update(r) \/ RenameRefused(r) \/ CheckMail(r) \/ Modify(r)
    \/ RemoveOld(r) \/ AddNew(r)
    \/ DeleteUser(r) \/ Unbind(r)
    \/ DirectoryFails(r)

Next == \E r \in Requests : Arrive(r) \/ Proceed(r)

Spec == Init /\ [][Next]_vars

\* Each request has a thread that goes on as long as it can.
FairSpec == Spec /\ \A r \in Requests : WF_vars(Proceed(r))

-----------------------------------------------------------------------------
(* Properties *)

\* No two accounts have one mail, whatever creations, updates and renames
\* interleave: the check and the write are inside one lock.
EmailUnique == \A m \in Mails : Cardinality(HasMail(m)) <= 1

\* Creations, renames and deletions keep the group USER in step: while no one is
\* in the DAO and the directory has answered, its members are the accounts.
RoleMatchesAccounts ==
    lock = None /\ ~failed =>
        /\ member["USER"] = {u \in Uids : Exists(u)}
        /\ \A u \in Uids : Exists(u) => "USER" \in memberOf[u]

\* Accounts are created, renamed, written and removed as if each were done at
\* once: what was found free when the DAO was entered is free when the entry is
\* written (insert, update and delete of AccountDaoImpl).
Accounts == INSTANCE AccountDirectory WITH accounts <- entry
AccountsAreAtomic == Accounts!Spec

\* Every request is answered: none waits forever for the lock, which every path
\* out of the DAO releases.
RequestsEnd == \A r \in Requests : req[r].step # "new" ~> req[r].step = "done"

\* AccountContextMapper: an account is in one organization at most.
OneOrg == \A u \in Uids : Mapped(u)

-----------------------------------------------------------------------------
(* The inductive invariant                                                 *)

\* What a request has read or been given before a step that uses it.
ReqInv ==
    \A r \in Requests :
        /\ req[r].step \notin {"new", "done"} => req[r].uid \in Uids
        /\ req[r].step \in {"insert", "bind", "check", "modify", "update"} => req[r].data \in Entry
        /\ req[r].step \in {"update", "check", "modify"} => req[r].to \in Uids

\* A request is inside the DAO exactly while it holds the lock.
LockInv == \A r \in Requests :
               req[r].step \in {"bind", "role", "org", "check", "modify", "unbind"} <=> lock = r

MailOfOne == \A u, v \in Uids :
                 Exists(u) /\ Exists(v) /\ entry[u].mail = entry[v].mail => u = v

\* What was checked inside the lock still holds when the entry is written.
CheckedInv ==
    /\ MailOfOne
    /\ \A r \in Requests :
           /\ req[r].step = "bind" => ~Exists(req[r].uid) /\ HasMail(req[r].data.mail) = {}
           /\ req[r].step = "role" => Exists(req[r].uid)
           /\ req[r].step = "modify" => HasMail(req[r].data.mail) \subseteq {req[r].to}

\* The accounts that are not in USER: a creation has still to add its own, a
\* deletion has taken it out.
Away == {u \in Uids : \E r \in Requests : req[r].step \in {"role", "unbind"} /\ req[r].uid = u}

RoleInv ==
    ~failed => /\ member["USER"] = {u \in Uids : Exists(u)} \ Away
               /\ \A u \in Uids \ Away : Exists(u) => "USER" \in memberOf[u]

IInv == TypeOK /\ ReqInv /\ LockInv /\ CheckedInv /\ RoleInv

=============================================================================
