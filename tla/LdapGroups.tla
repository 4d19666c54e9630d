----------------------------- MODULE LdapGroups -----------------------------
(***************************************************************************)
(* The groups of ldapadmin (GroupsController, GroupDaoImpl): requests that *)
(* run on threads of their own over one directory.  insert and update of   *)
(* the DAO are synchronized; delete, and all that concerns the members, is *)
(* not.  A group's name is its DN, so an update unbinds the entry and      *)
(* binds another, with the members that the controller had read before.    *)
(* Members are changed by a lookup and a modification made of the          *)
(* difference with what the lookup saw.                                    *)
(*                                                                         *)
(* Every operation of the directory is atomic.  Abstracted: descriptions,  *)
(* logs of the administration, accounts (a member is a uid).               *)
(***************************************************************************)
EXTENDS Integers, FiniteSets

CONSTANTS
    Groups,        \* names of groups
    Users,         \* uids
    Requests,      \* requests; each is used once
    Batches,       \* bodies of groups_users
    Protected,     \* names that GroupProtected matches
    Default,       \* the group of new users, USER
    Present,       \* groups of the directory at first
    FirstMembers,  \* their members
    FirstNumber,   \* their unique numbers, NoNumber for none
    NoNumber,
    None

ASSUME GroupsAssumption ==
    /\ Batches \subseteq [users : SUBSET Users, put : SUBSET Groups, del : SUBSET Groups]
    /\ Default \in Groups
    /\ Present \subseteq Groups
    /\ IsFiniteSet(Groups)
    /\ FirstMembers \in [Groups -> SUBSET Users]
    /\ NoNumber = -1
    /\ FirstNumber \in [Groups -> Nat \cup {NoNumber}]
    /\ \A g, h \in Groups : FirstNumber[g] = FirstNumber[h] => g = h \/ FirstNumber[g] = NoNumber
    /\ None \notin Requests

VARIABLES
    exists,   \* the groups in the directory
    members,  \* members[g]
    number,   \* number[g]
    counter,  \* uniqueNumberCounter, negative before its first use
    lock,     \* the request in the monitor of GroupDaoImpl
    pc,       \* where each request is
    op,       \* what it was asked
    todo,     \* changes of members it has still to make
    seen,     \* the members it has read
    kept      \* the number of the group it renames

directory == <<exists, members, number>>
vars == <<directory, counter, lock, pc, op, todo, seen, kept>>

\* A change of the members of a group.
Changes == [group : Groups, out : SUBSET Users, in : SUBSET Users]

\* A request: to create, rename or delete group cn, to change members, or, of
\* AccountDaoImpl, to take out of all groups who has been deleted or renamed.
Ops == [kind : {"none", "create", "rename", "delete", "members", "account"},
        cn : Groups \cup {None}, to : Groups \cup {None},
        out : SUBSET Users, in : SUBSET Users]
NoOp == [kind |-> "none", cn |-> None, to |-> None, out |-> {}, in |-> {}]
Running == {"insert", "find", "update", "unbind", "number", "bind", "delete",
            "findAll", "next", "modify"}
Ended == {"ok", "refused", "failed"}

TypeOK ==
    /\ exists \subseteq Groups
    /\ members \in [Groups -> SUBSET Users]
    /\ number \in [Groups -> Nat \cup {NoNumber}]
    /\ counter \in Int
    /\ lock \in Requests \cup {None}
    /\ pc \in [Requests -> {"idle"} \cup Running \cup Ended]
    /\ op \in [Requests -> Ops]
    /\ todo \in [Requests -> SUBSET Changes]
    /\ seen \in [Requests -> SUBSET Users]
    /\ kept \in [Requests -> Nat \cup {NoNumber}]

Init ==
    /\ exists = Present /\ members = FirstMembers /\ number = FirstNumber
    /\ counter = -1 /\ lock = None
    /\ pc = [r \in Requests |-> "idle"]
    /\ op = [r \in Requests |-> NoOp]
    /\ todo = [r \in Requests |-> {}]
    /\ seen = [r \in Requests |-> {}]
    /\ kept = [r \in Requests |-> NoNumber]

-----------------------------------------------------------------------------
(* Requests arrive.                                                        *)

Arrive(r, at, what, changes) ==
    /\ pc[r] = "idle"
    /\ pc' = [pc EXCEPT ![r] = at]
    /\ op' = [op EXCEPT ![r] = what]
    /\ todo' = [todo EXCEPT ![r] = changes]
    /\ UNCHANGED <<directory, counter, lock, seen, kept>>

OfGroup(kind, cn, to) == [kind |-> kind, cn |-> cn, to |-> to, out |-> {}, in |-> {}]
OfUsers(kind, out, in) == [kind |-> kind, cn |-> None, to |-> None, out |-> out, in |-> in]

Create(r, cn) == Arrive(r, "insert", OfGroup("create", cn, cn), {})
Rename(r, cn, to) == Arrive(r, "find", OfGroup("rename", cn, to), {})
Delete(r, cn) == Arrive(r, "delete", OfGroup("delete", cn, cn), {})

Change(G, out, in) == {[group |-> g, out |-> out, in |-> in] : g \in G}

\* groups_users: users are added to the groups of put and removed from del.
UpdateUsers(r, b) ==
    Arrive(r, "next", OfUsers("members", {}, {}),
           UNION {Change(b.put, {}, {u}) \cup Change(b.del, {u}, {}) : u \in b.users})

\* What AccountDaoImpl asks of the groups for its own requests.
CreateUser(r, u) ==
    Arrive(r, "next", OfUsers("account", {}, {u}), Change({Default}, {}, {u}))
DeleteUser(r, u) == Arrive(r, "findAll", OfUsers("account", {u}, {}), {})
RenameUser(r, u, to) == Arrive(r, "findAll", OfUsers("account", {u}, {to}), {})

Arrivals(r) ==
    \/ \E cn \in Groups : Create(r, cn) \/ Delete(r, cn) \/ (\E to \in Groups : Rename(r, cn, to))
    \/ \E b \in Batches : UpdateUsers(r, b)
    \/ \E u \in Users : CreateUser(r, u) \/ DeleteUser(r, u)
    \/ \E u, to \in Users : u # to /\ RenameUser(r, u, to)

-----------------------------------------------------------------------------
(* Steps of a request.                                                     *)

\* Mutant: a request that fails stays in the monitor.
EndInMonitor(r, how) ==
    /\ pc' = [pc EXCEPT ![r] = how]
    /\ op' = [op EXCEPT ![r] = NoOp]
    /\ todo' = [todo EXCEPT ![r] = {}]
    /\ seen' = [seen EXCEPT ![r] = {}]
    /\ kept' = [kept EXCEPT ![r] = NoNumber]
    /\ lock' = IF lock = r /\ how = "ok" THEN None ELSE lock

\* The request is answered; the monitor, if it is in it, is left.
End(r, how) ==
    /\ pc' = [pc EXCEPT ![r] = how]
    /\ op' = [op EXCEPT ![r] = NoOp]
    /\ todo' = [todo EXCEPT ![r] = {}]
    /\ seen' = [seen EXCEPT ![r] = {}]
    /\ kept' = [kept EXCEPT ![r] = NoNumber]
    /\ lock' = IF lock = r THEN None ELSE lock

Go(r, to) == pc' = [pc EXCEPT ![r] = to] /\ UNCHANGED <<op, todo>>

\* Mutant: insert is not synchronized.
InsertUnlocked(r) ==
    /\ pc[r] = "insert"
    /\ IF op[r].cn \in exists
       THEN End(r, "refused")
       ELSE Go(r, "number") /\ UNCHANGED <<seen, kept, lock>>
    /\ UNCHANGED <<directory, counter>>

\* insert: the monitor is entered, the name must be free.
Insert(r) ==
    /\ pc[r] = "insert" /\ lock = None
    /\ IF op[r].cn \in exists
       THEN End(r, "refused")
       ELSE Go(r, "number") /\ lock' = r /\ UNCHANGED <<seen, kept>>
    /\ UNCHANGED <<directory, counter>>

\* update of the controller: the group is read outside the monitor.
Find(r) ==
    /\ pc[r] = "find"
    /\ IF op[r].cn \notin exists
       THEN End(r, "refused")
       ELSE /\ Go(r, "update")
            /\ seen' = [seen EXCEPT ![r] = members[op[r].cn]]
            /\ UNCHANGED <<kept, lock>>
    /\ UNCHANGED <<directory, counter>>

\* update of the DAO: a new name must be free; the number is looked up.
Update(r) ==
    /\ pc[r] = "update" /\ lock = None
    /\ LET free == op[r].to = op[r].cn \/ op[r].to \notin exists
       IN IF free /\ op[r].cn \in exists
          THEN /\ Go(r, "unbind")
               /\ lock' = r
               /\ kept' = [kept EXCEPT ![r] = number[op[r].cn]]
               /\ UNCHANGED seen
          ELSE End(r, "refused")
    /\ UNCHANGED <<directory, counter>>

\* Mutant: the DAO unbinds without asking GroupProtected.
UnbindAny(r) ==
    /\ pc[r] = "unbind"
    /\ IF op[r].cn \in exists
       THEN /\ exists' = exists \ {op[r].cn}
            /\ Go(r, IF kept[r] = NoNumber THEN "number" ELSE "bind")
            /\ UNCHANGED <<lock, seen, kept>>
       ELSE End(r, "refused") /\ UNCHANGED exists
    /\ UNCHANGED <<members, number, counter>>

\* delete(groupName) in update: protected groups, and those gone, raise.
Unbind(r) ==
    /\ pc[r] = "unbind"
    /\ IF op[r].cn \in exists \ Protected
       THEN /\ exists' = exists \ {op[r].cn}
            /\ Go(r, IF kept[r] = NoNumber THEN "number" ELSE "bind")
            /\ UNCHANGED <<lock, seen, kept>>
       ELSE End(r, "refused") /\ UNCHANGED exists
    /\ UNCHANGED <<members, number, counter>>

Numbers == {number[g] : g \in exists}

\* Where the search begins: at its first use the counter is set after the
\* largest number, of 0 and of all groups.
FirstNumbers ==
    IF counter < 0
    THEN {m + 1 : m \in {l \in Numbers \cup {0} : \A k \in Numbers \cup {0} : k <= l}}
    ELSE {counter}

\* Mutant: the counter is not counted up.
FindUniqueNumberStill(r) ==
    /\ pc[r] = "number"
    /\ \E first \in FirstNumbers :
          /\ kept' = [kept EXCEPT ![r] = first]
          /\ counter' = first
    /\ Go(r, "bind")
    /\ UNCHANGED <<directory, lock, seen>>

\* findUniqueNumber: the first number that no group has is looked for; what is
\* given is the number after it.
FindUniqueNumber(r) ==
    /\ pc[r] = "number"
    /\ \E first \in FirstNumbers : \E n \in first .. first + Cardinality(exists) :
          /\ n \notin Numbers
          /\ first .. n - 1 \subseteq Numbers
          /\ kept' = [kept EXCEPT ![r] = n + 1]
          /\ counter' = n + 1
    /\ Go(r, "bind")
    /\ UNCHANGED <<directory, lock, seen>>

(* The entry is bound, with the members read by the controller, none for a *)
(* new group, and with its number.  A name that is taken is refused.       *)
Bind(r) ==
    /\ pc[r] = "bind" /\ op[r].to \notin exists
    /\ exists' = exists \cup {op[r].to}
    /\ members' = [members EXCEPT ![op[r].to] = seen[r]]
    /\ number' = [number EXCEPT ![op[r].to] = kept[r]]
    /\ End(r, "ok")
    /\ UNCHANGED counter

\* The name is taken, or the directory cannot be reached.
DirectoryFails(r) ==
    /\ pc[r] \in {"number", "bind"}
    /\ End(r, "failed")
    /\ UNCHANGED <<directory, counter>>

DeleteGroup(r) ==
    /\ pc[r] = "delete"
    /\ exists' = IF op[r].cn \in Protected THEN exists ELSE exists \ {op[r].cn}
    /\ End(r, IF op[r].cn \in exists \ Protected THEN "ok" ELSE "refused")
    /\ UNCHANGED <<members, number, counter>>

\* deleteUser(uid), and the loop over modifyUser: findAllForUser.
FindAllForUser(r) ==
    /\ pc[r] = "findAll"
    /\ pc' = [pc EXCEPT ![r] = "next"]
    /\ todo' = [todo EXCEPT ![r] =
                    Change({g \in exists : op[r].out \subseteq members[g]}, op[r].out, op[r].in)]
    /\ UNCHANGED <<directory, counter, lock, op, seen, kept>>

(* The next change: lookupContext raises if the group is gone, and what    *)
(* is left of the list is dropped.  Additions come before removals.        *)
Lookup(r, c) ==
    /\ pc[r] = "next" /\ c \in todo[r]
    /\ (\E d \in todo[r] : d.in # {}) => c.in # {}
    /\ IF c.group \in exists
       THEN /\ pc' = [pc EXCEPT ![r] = "modify"]
            /\ todo' = [todo EXCEPT ![r] = @ \ {c}]
            /\ op' = [op EXCEPT ![r] = [@ EXCEPT !.cn = c.group, !.out = c.out, !.in = c.in]]
            /\ seen' = [seen EXCEPT ![r] = members[c.group]]
            /\ UNCHANGED <<lock, kept>>
       ELSE End(r, "failed")
    /\ UNCHANGED <<directory, counter>>

(* What modifyAttributes makes of members `now` when the context looked up *)
(* held `old` and has become `new`: one value is replaced by one, the last *)
(* one is removed with its attribute, else the values of the difference    *)
(* are added and removed.  None if the directory refuses.                  *)
Modified(now, old, new) ==
    IF new = old THEN now
    ELSE IF Cardinality(old) = 1 /\ Cardinality(new) = 1 THEN new
    ELSE IF new = {} THEN (IF now = {} THEN {None} ELSE {})
    ELSE IF old \ new \subseteq now /\ (new \ old) \cap now = {}
         THEN (now \ (old \ new)) \cup (new \ old)
    ELSE {None}

\* addUser, deleteUser and modifyUser: modifyAttributes.
ModifyAttributes(r) ==
    /\ pc[r] = "modify"
    /\ LET g == op[r].cn
           value == Modified(members[g], seen[r], (seen[r] \ op[r].out) \cup op[r].in)
       IN IF g \in exists /\ value # {None}
          THEN /\ members' = [members EXCEPT ![g] = value]
               /\ pc' = [pc EXCEPT ![r] = "next"]
               /\ seen' = [seen EXCEPT ![r] = {}]
               /\ UNCHANGED <<lock, op, todo, kept>>
          ELSE End(r, "failed") /\ UNCHANGED members
    /\ UNCHANGED <<exists, number, counter>>

Finish(r) ==
    /\ pc[r] = "next" /\ todo[r] = {}
    /\ End(r, "ok")
    /\ UNCHANGED <<directory, counter>>

Serve(r) ==
    \/ Insert(r) \/ Find(r) \/ Update(r) \/ Unbind(r) \/ FindUniqueNumber(r) \/ Bind(r)
    \/ DirectoryFails(r) \/ DeleteGroup(r) \/ FindAllForUser(r) \/ Finish(r) \/ ModifyAttributes(r)
    \/ \E c \in todo[r] : Lookup(r, c)

Next == \E r \in Requests : Arrivals(r) \/ Serve(r)

Spec == Init /\ [][Next]_vars

-----------------------------------------------------------------------------
(* Properties.                                                             *)

(* Nobody takes the name of a group between its check, or the unbind of a  *)
(* rename, and its bind: a group that was unbound is lost only when the    *)
(* directory fails (the monitor of insert and update).                     *)
NameStaysFree == \A r \in Requests : pc[r] \in {"number", "bind"} => op[r].to \notin exists

(* Two groups never get the same number, though the number given is not    *)
(* the one that was checked, and a renamed group is away from the          *)
(* directory while its number is kept (findUniqueNumber, update).          *)
NumbersDiffer ==
    \A g, h \in exists : number[g] = number[h] => g = h \/ number[g] = NoNumber

(* Protected groups never leave the directory, not even for the moment of  *)
(* a rename (GroupProtected).                                              *)
ProtectedStay == [][Protected \cap exists \subseteq exists']_vars

(* Every request is answered, so the monitor is always left.               *)
RequestsEnd == \A r \in Requests : (pc[r] \in Running) ~> (pc[r] \in Ended)

(* The inductive invariant of the proofs.                                  *)
InMonitor == {"unbind", "number", "bind"}

\* What a request that is being served was asked.
OfAGroup == {"insert", "find", "update", "unbind", "number", "bind", "delete"}
OpInv ==
    \A r \in Requests :
        /\ pc[r] \in OfAGroup => op[r].cn \in Groups /\ op[r].to \in Groups
        /\ pc[r] = "insert" => op[r].to = op[r].cn
        /\ pc[r] = "modify" => op[r].cn \in Groups

LockInv ==
    /\ \A r \in Requests : pc[r] \in InMonitor => lock = r
    /\ NameStaysFree
    /\ \A r \in Requests : pc[r] = "unbind" => op[r].to = op[r].cn \/ op[r].to \notin exists

\* Numbers are at most the counter; the number of a group that is being
\* renamed is the group's, and nobody else's.
NumberInv ==
    /\ NumbersDiffer
    /\ counter >= 0 => \A g \in exists : number[g] <= counter
    /\ \A r \in Requests : pc[r] = "unbind" =>
          \A g \in exists : number[g] = kept[r] => g = op[r].cn \/ kept[r] = NoNumber
    /\ \A r \in Requests : pc[r] = "bind" =>
          kept[r] # NoNumber /\ \A g \in exists : number[g] # kept[r]
    /\ \A r \in Requests : (pc[r] \in {"unbind", "bind"} /\ counter >= 0) => kept[r] <= counter

IInv == TypeOK /\ OpInv /\ LockInv /\ NumberInv

-----------------------------------------------------------------------------
(* The groups as GroupDirectory has them.                                  *)

\* A group that a rename has unbound, and not bound yet, is still there.
Unbound(r) == pc[r] \in {"number", "bind"} /\ op[r].kind = "rename"
Names == exists \cup {op[r].cn : r \in {r \in Requests : Unbound(r)}}

Directory == INSTANCE GroupDirectory WITH names <- Names

\* Whatever requests interleave, and though delete is not synchronized, groups
\* are added, renamed and removed as if each were done at once: in particular
\* nobody gets a group's name, or its number, while the group is being renamed
\* (insert, update and delete of GroupDaoImpl).
GroupsAreAtomic == Directory!Spec

\* What a rename relies on for that: the number it keeps is the one the group
\* had, and the group it has unbound is not back.
RenameOf(r) ==
    /\ pc[r] = "insert" => op[r].kind = "create"
    /\ pc[r] \in {"find", "update", "unbind"} => op[r].kind = "rename"
    /\ pc[r] \in {"number", "bind"} => op[r].kind \in {"create", "rename"}
    /\ pc[r] = "unbind" => kept[r] = number[op[r].cn]
    /\ Unbound(r) =>
          /\ op[r].cn \notin exists \cup Protected
          /\ number[op[r].cn] \in {NoNumber} \cup (IF pc[r] = "bind" THEN {kept[r]} ELSE {})
RenameInv == \A r \in Requests : RenameOf(r)

-----------------------------------------------------------------------------
(* "The fields that are not present in the parameters will remain          *)
(* untouched in the LDAP store" (update of GroupsController): the members  *)
(* are not a parameter of a rename.                                        *)
UntouchedMembers ==
    [][\A r \in Requests :
          (pc[r] = "unbind" /\ pc'[r] \in {"number", "bind"}) => seen[r] = members[op[r].cn]]_vars
=============================================================================
