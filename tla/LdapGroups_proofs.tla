------------------------- MODULE LdapGroups_proofs -------------------------
(***************************************************************************)
(* Proofs about LdapGroups, for any groups, users and number of concurrent *)
(* requests: the name of a group stays free while it is away, numbers      *)
(* differ, and protected groups stay.                                      *)
(***************************************************************************)
EXTENDS LdapGroups, FiniteSetTheorems, TLAPS

\* The directory at first satisfies the invariant: no request runs.
LEMMA InitInv == Init => IInv
<1> SUFFICES ASSUME Init PROVE IInv
  OBVIOUS
<1>1. TypeOK
  BY GroupsAssumption DEF Init, TypeOK, Ops, NoOp
<1>2. OpInv
  BY DEF Init, OpInv, OfAGroup
<1>3. LockInv
  BY DEF Init, LockInv, InMonitor, NameStaysFree
<1>4. NumberInv
  BY GroupsAssumption DEF Init, NumberInv, NumbersDiffer
<1> QED
  BY <1>1, <1>2, <1>3, <1>4 DEF IInv

-----------------------------------------------------------------------------
(* Requests arrive.                                                        *)

\* A request that arrives keeps the invariant if it is well formed.
LEMMA ArriveInv ==
    ASSUME IInv, NEW r \in Requests, NEW at \in {"insert", "find", "delete", "next", "findAll"},
           NEW what \in Ops, NEW changes \in SUBSET Changes,
           at \in OfAGroup => what.cn \in Groups /\ what.to \in Groups,
           at = "insert" => what.to = what.cn,
           Arrive(r, at, what, changes)
    PROVE  IInv'
<1> USE DEF IInv, Arrive
<1>1. TypeOK'
  BY DEF TypeOK, Running, directory
<1>2. OpInv'
  BY DEF OpInv, TypeOK, OfAGroup
<1>3. LockInv'
  BY DEF LockInv, TypeOK, InMonitor, NameStaysFree, directory
<1>4. NumberInv'
  BY DEF NumberInv, TypeOK, NumbersDiffer, directory
<1> QED
  BY <1>1, <1>2, <1>3, <1>4

\* The changes of members of any body of groups_users are well formed.
LEMMA UpdateUsersInv ==
    ASSUME IInv, NEW r \in Requests,
           NEW b \in [users : SUBSET Users, put : SUBSET Groups, del : SUBSET Groups],
           UpdateUsers(r, b)
    PROVE  IInv'
BY ArriveInv, GroupsAssumption DEF UpdateUsers, OfUsers, Ops, Change, Changes, OfAGroup

LEMMA ArrivalsInv == ASSUME IInv, NEW r \in Requests, Arrivals(r) PROVE IInv'
<1>1. ASSUME NEW cn \in Groups, Create(r, cn) PROVE IInv'
  BY <1>1, ArriveInv DEF Create, OfGroup, Ops
<1>2. ASSUME NEW cn \in Groups, Delete(r, cn) PROVE IInv'
  BY <1>2, ArriveInv DEF Delete, OfGroup, Ops
<1>3. ASSUME NEW cn \in Groups, NEW to \in Groups, Rename(r, cn, to) PROVE IInv'
  BY <1>3, ArriveInv DEF Rename, OfGroup, Ops
<1>4. ASSUME NEW b \in Batches, UpdateUsers(r, b) PROVE IInv'
  BY <1>4, UpdateUsersInv, GroupsAssumption
<1>5. ASSUME NEW u \in Users, CreateUser(r, u) PROVE IInv'
  BY <1>5, ArriveInv, GroupsAssumption DEF CreateUser, OfUsers, Ops, Change, Changes, OfAGroup
<1>6. ASSUME NEW u \in Users, DeleteUser(r, u) PROVE IInv'
  BY <1>6, ArriveInv DEF DeleteUser, OfUsers, Ops, OfAGroup
<1>7. ASSUME NEW u \in Users, NEW to \in Users, RenameUser(r, u, to) PROVE IInv'
  BY <1>7, ArriveInv DEF RenameUser, OfUsers, Ops, OfAGroup
<1> QED
  BY <1>1, <1>2, <1>3, <1>4, <1>5, <1>6, <1>7 DEF Arrivals

-----------------------------------------------------------------------------
(* Steps of a request.                                                     *)

\* A request that ends without a change of the directory keeps the invariant.
LEMMA EndInv ==
    ASSUME IInv, NEW r \in Requests, NEW how \in Ended, End(r, how),
           UNCHANGED <<directory, counter>>
    PROVE  IInv'
<1> USE DEF IInv, End, directory
<1>1. TypeOK'
  BY GroupsAssumption DEF TypeOK, Ops, NoOp
<1>2. OpInv'
  BY DEF OpInv, TypeOK, OfAGroup, Ended
<1>3. LockInv'
  BY DEF LockInv, TypeOK, InMonitor, NameStaysFree, Ended
<1>4. NumberInv'
  BY DEF NumberInv, TypeOK, NumbersDiffer, Ended
<1> QED
  BY <1>1, <1>2, <1>3, <1>4

\* The monitor is entered, or refuses, with the name free or the number known.
LEMMA EnterInv ==
    ASSUME IInv, NEW r \in Requests, Insert(r) \/ Find(r) \/ Update(r)
    PROVE  IInv'
<1>1. ASSUME Insert(r), op[r].cn \notin exists PROVE IInv'
  <2> USE <1>1 DEF IInv, Insert, Go, directory
  <2>1. TypeOK'
    BY DEF TypeOK, Running
  <2>2. OpInv'
    BY DEF OpInv, TypeOK, OfAGroup
  <2>3. LockInv'
    BY GroupsAssumption DEF LockInv, TypeOK, InMonitor, NameStaysFree, OpInv, OfAGroup
  <2>4. NumberInv'
    BY DEF NumberInv, TypeOK, NumbersDiffer
  <2> QED
    BY <2>1, <2>2, <2>3, <2>4
<1>2. ASSUME Find(r), op[r].cn \in exists PROVE IInv'
  <2> USE <1>2 DEF IInv, Find, Go, directory
  <2>1. TypeOK'
    BY DEF TypeOK, Running
  <2>2. OpInv'
    BY DEF OpInv, TypeOK, OfAGroup
  <2>3. LockInv'
    BY DEF LockInv, TypeOK, InMonitor, NameStaysFree
  <2>4. NumberInv'
    BY DEF NumberInv, TypeOK, NumbersDiffer
  <2> QED
    BY <2>1, <2>2, <2>3, <2>4
<1>3. ASSUME Update(r), op[r].to = op[r].cn \/ op[r].to \notin exists, op[r].cn \in exists
      PROVE  IInv'
  <2> USE <1>3 DEF IInv, Update, Go, directory
  <2>1. TypeOK'
    BY DEF TypeOK, Running
  <2>2. OpInv'
    BY DEF OpInv, TypeOK, OfAGroup
  <2>3. LockInv'
    BY GroupsAssumption DEF LockInv, TypeOK, InMonitor, NameStaysFree
  <2>4. NumberInv'
    BY GroupsAssumption DEF NumberInv, TypeOK, NumbersDiffer, OpInv, OfAGroup, LockInv, InMonitor
  <2> QED
    BY <2>1, <2>2, <2>3, <2>4
<1>4. CASE Insert(r) /\ End(r, "refused")
  BY <1>4, EndInv DEF Insert, Ended
<1>5. CASE Find(r) /\ End(r, "refused")
  BY <1>5, EndInv DEF Find, Ended
<1>6. CASE Update(r) /\ End(r, "refused")
  BY <1>6, EndInv DEF Update, Ended
<1> QED
  BY <1>1, <1>2, <1>3, <1>4, <1>5, <1>6 DEF Insert, Find, Update

\* The group leaves the directory, and its name stays free.
LEMMA UnbindInv == ASSUME IInv, NEW r \in Requests, Unbind(r) PROVE IInv'
<1>1. CASE op[r].cn \in exists \ Protected
  <2> USE <1>1 DEF IInv, Unbind, Go
  <2>1. TypeOK'
    BY DEF TypeOK, Running
  <2>2. OpInv'
    BY DEF OpInv, TypeOK, OfAGroup
  <2>3. LockInv'
    BY DEF LockInv, TypeOK, InMonitor, NameStaysFree
  <2>4. NumberInv'
    BY DEF NumberInv, TypeOK, NumbersDiffer, OpInv, OfAGroup, LockInv, InMonitor
  <2> QED
    BY <2>1, <2>2, <2>3, <2>4
<1>2. CASE op[r].cn \notin exists \ Protected
  BY <1>2, EndInv DEF Unbind, Ended, directory
<1> QED
  BY <1>1, <1>2

\* The number that is given is larger than all numbers.
LEMMA NumberFound == 
    ASSUME IInv, NEW r \in Requests, FindUniqueNumber(r)
    PROVE  /\ counter' \in Nat
           /\ kept' = [kept EXCEPT ![r] = counter']
           /\ \A g \in exists : number[g] < counter'
<1>1. PICK first \in FirstNumbers : \E n \in first .. first + Cardinality(exists) :
          /\ n \notin Numbers
          /\ first .. n - 1 \subseteq Numbers
          /\ kept' = [kept EXCEPT ![r] = n + 1]
          /\ counter' = n + 1
  BY DEF FindUniqueNumber
<1>2. PICK n \in first .. first + Cardinality(exists) :
          /\ n \notin Numbers
          /\ first .. n - 1 \subseteq Numbers
          /\ kept' = [kept EXCEPT ![r] = n + 1]
          /\ counter' = n + 1
  BY <1>1
<1>3. \A g \in exists : number[g] \in Nat \cup {-1}
  BY GroupsAssumption DEF IInv, TypeOK
<1>4. first \in Nat /\ \A g \in exists : number[g] <= first
  <2>1. CASE counter < 0
    <3>1. PICK m \in Numbers \cup {0} : first = m + 1 /\ \A k \in Numbers \cup {0} : k <= m
      BY <2>1 DEF FirstNumbers
    <3>2. m \in Nat
      BY <1>3, <3>1 DEF Numbers
    <3>3. \A g \in exists : number[g] <= m
      BY <3>1 DEF Numbers
    <3> QED
      BY <1>3, <3>1, <3>2, <3>3
  <2>2. CASE ~(counter < 0)
    BY <2>2 DEF FirstNumbers, IInv, NumberInv, TypeOK
  <2> QED
    BY <2>1, <2>2
<1>5. n \in Int /\ first <= n
  BY <1>2, <1>4
<1> QED
  BY <1>2, <1>3, <1>4, <1>5

\* A number is given to the group that is not yet in the directory.
LEMMA NumberGivenInv == ASSUME IInv, NEW r \in Requests, FindUniqueNumber(r) PROVE IInv'
<1> USE DEF IInv, Go, directory
<1>1. /\ pc[r] = "number"
      /\ pc' = [pc EXCEPT ![r] = "bind"]
      /\ UNCHANGED <<exists, members, number, op, todo, lock, seen>>
  BY DEF FindUniqueNumber
<1>2. TypeOK'
  BY <1>1, NumberFound DEF TypeOK, Running
<1>3. OpInv'
  BY <1>1 DEF OpInv, TypeOK, OfAGroup
<1>4. LockInv'
  BY <1>1 DEF LockInv, TypeOK, InMonitor, NameStaysFree
<1>5. NumberInv'
  BY <1>1, NumberFound, GroupsAssumption DEF NumberInv, TypeOK, NumbersDiffer, LockInv, InMonitor
<1> QED
  BY <1>2, <1>3, <1>4, <1>5

\* The group comes to the directory under a number nobody has.
LEMMA BindInv == ASSUME IInv, NEW r \in Requests, Bind(r) PROVE IInv'
<1> USE GroupsAssumption DEF IInv, Bind, End
<1>1. op[r].to \in Groups
  BY DEF OpInv, OfAGroup
<1>2. TypeOK'
  BY <1>1 DEF TypeOK, Ops, NoOp, Ended
<1>3. OpInv'
  BY DEF OpInv, TypeOK, OfAGroup
<1>4. LockInv'
  BY DEF LockInv, TypeOK, InMonitor, NameStaysFree
<1>5. NumberInv'
  BY <1>1 DEF NumberInv, TypeOK, NumbersDiffer, LockInv, InMonitor
<1> QED
  BY <1>2, <1>3, <1>4, <1>5

\* A group that is deleted takes nothing from another request but its turn.
LEMMA DeleteInv == ASSUME IInv, NEW r \in Requests, DeleteGroup(r) PROVE IInv'
<1> USE GroupsAssumption DEF IInv, DeleteGroup, End
<1>1. /\ exists' \subseteq exists
      /\ UNCHANGED <<members, number, counter>>
      /\ pc' = [pc EXCEPT ![r] = pc'[r]] /\ pc'[r] \in {"ok", "refused"}
  BY DEF TypeOK
<1>2. TypeOK'
  BY <1>1 DEF TypeOK, Ops, NoOp, Ended
<1>3. OpInv'
  BY <1>1 DEF OpInv, TypeOK, OfAGroup
<1>4. LockInv'
  BY <1>1 DEF LockInv, TypeOK, InMonitor, NameStaysFree
<1>5. NumberInv'
  BY <1>1 DEF NumberInv, TypeOK, NumbersDiffer
<1> QED
  BY <1>2, <1>3, <1>4, <1>5

\* What concerns the members leaves groups, numbers and monitor alone.
LEMMA MembersInv ==
    ASSUME IInv, NEW r \in Requests,
           FindAllForUser(r) \/ (\E c \in todo[r] : Lookup(r, c)) \/ ModifyAttributes(r)
    PROVE  IInv'
<1> USE DEF IInv
<1>1. ASSUME FindAllForUser(r) PROVE IInv'
  <2> USE <1>1 DEF FindAllForUser, directory
  <2>1. TypeOK'
    BY DEF TypeOK, Running, Ops, Change, Changes
  <2>2. OpInv'
    BY DEF OpInv, TypeOK, OfAGroup
  <2>3. LockInv'
    BY DEF LockInv, TypeOK, InMonitor, NameStaysFree
  <2>4. NumberInv'
    BY DEF NumberInv, TypeOK, NumbersDiffer
  <2> QED
    BY <2>1, <2>2, <2>3, <2>4
<1>2. ASSUME NEW c \in todo[r], Lookup(r, c), c.group \in exists PROVE IInv'
  <2> DEFINE what == [op[r] EXCEPT !.cn = c.group, !.out = c.out, !.in = c.in]
  <2>1. c \in Changes /\ op[r] \in Ops
    BY DEF TypeOK
  <2>2. what \in Ops /\ what.cn = c.group /\ c.group \in Groups
    BY <2>1 DEF Changes, Ops
  <2> HIDE DEF what
  <2>3. /\ pc[r] = "next" /\ pc' = [pc EXCEPT ![r] = "modify"]
        /\ todo' = [todo EXCEPT ![r] = @ \ {c}]
        /\ op' = [op EXCEPT ![r] = what]
        /\ seen' = [seen EXCEPT ![r] = members[c.group]]
        /\ UNCHANGED <<exists, members, number, counter, lock, kept>>
    BY <1>2 DEF Lookup, what, directory
  <2>4. TypeOK'
    BY <2>1, <2>2, <2>3 DEF TypeOK, Running
  <2>5. OpInv'
    BY <2>2, <2>3 DEF OpInv, TypeOK, OfAGroup
  <2>6. LockInv'
    BY <2>3 DEF LockInv, TypeOK, InMonitor, NameStaysFree
  <2>7. NumberInv'
    BY <2>2, <2>3 DEF NumberInv, TypeOK, NumbersDiffer
  <2> QED
    BY <2>4, <2>5, <2>6, <2>7
<1>3. ASSUME NEW c \in todo[r], Lookup(r, c), c.group \notin exists PROVE IInv'
  BY <1>3, EndInv DEF Lookup, Ended
<1>4. ASSUME ModifyAttributes(r), ~End(r, "failed") PROVE IInv'
  <2>1. PICK value : /\ members' = [members EXCEPT ![op[r].cn] = value]
                     /\ value = Modified(members[op[r].cn], seen[r],
                                         (seen[r] \ op[r].out) \cup op[r].in)
                     /\ value # {None}
    BY <1>4 DEF ModifyAttributes
  <2>2. /\ pc[r] = "modify" /\ pc' = [pc EXCEPT ![r] = "next"]
        /\ seen' = [seen EXCEPT ![r] = {}]
        /\ UNCHANGED <<exists, number, counter, lock, op, todo, kept>>
    BY <1>4 DEF ModifyAttributes
  <2>3. value \subseteq Users
    BY <2>1, <2>2 DEF Modified, TypeOK, OpInv, Ops
  <2>4. TypeOK'
    BY <2>1, <2>2, <2>3 DEF TypeOK, Running
  <2>5. OpInv'
    BY <2>2 DEF OpInv, TypeOK, OfAGroup
  <2>6. LockInv'
    BY <2>2 DEF LockInv, TypeOK, InMonitor, NameStaysFree
  <2>7. NumberInv'
    BY <2>2 DEF NumberInv, TypeOK, NumbersDiffer
  <2> QED
    BY <2>4, <2>5, <2>6, <2>7
<1>5. ASSUME ModifyAttributes(r), End(r, "failed") PROVE IInv'
  <2>1. UNCHANGED <<directory, counter>>
    BY <1>5 DEF ModifyAttributes, End, directory, TypeOK
  <2> QED
    BY <1>5, <2>1, EndInv DEF Ended
<1> QED
  BY <1>1, <1>2, <1>3, <1>4, <1>5

LEMMA ServeInv == ASSUME IInv, NEW r \in Requests, Serve(r) PROVE IInv'
<1>1. CASE DirectoryFails(r)
  BY <1>1, EndInv DEF DirectoryFails, Ended
<1>2. CASE Finish(r)
  BY <1>2, EndInv DEF Finish, Ended
<1> QED
  BY <1>1, <1>2, EnterInv, UnbindInv, NumberGivenInv, BindInv, DeleteInv, MembersInv DEF Serve

LEMMA NextInv == IInv /\ [Next]_vars => IInv'
<1> SUFFICES ASSUME IInv, [Next]_vars PROVE IInv'
  OBVIOUS
<1>1. CASE Next
  BY <1>1, ArrivalsInv, ServeInv DEF Next
<1>2. CASE UNCHANGED vars
  BY <1>2 DEF vars, directory, IInv, TypeOK, OpInv, LockInv, NumberInv, NameStaysFree, NumbersDiffer
<1> QED
  BY <1>1, <1>2

\* A step of a request leaves the others where they are.
LEMMA ServeOne ==
    ASSUME IInv, NEW r \in Requests, Serve(r)
    PROVE  /\ pc[r] \in Running /\ pc'[r] \in Running \cup Ended
           /\ pc'[r] \in Ended => todo'[r] = {}
           /\ \A s \in Requests \ {r} :
                 /\ pc'[s] = pc[s] /\ op'[s] = op[s] /\ todo'[s] = todo[s]
                 /\ seen'[s] = seen[s] /\ kept'[s] = kept[s]
<1>1. /\ pc \in [Requests -> {"idle"} \cup Running \cup Ended]
      /\ op \in [Requests -> Ops] /\ todo \in [Requests -> SUBSET Changes]
      /\ seen \in [Requests -> SUBSET Users] /\ kept \in [Requests -> Nat \cup {NoNumber}]
  BY DEF IInv, TypeOK
<1>2. CASE Insert(r) \/ Find(r) \/ Update(r)
  BY <1>1, <1>2 DEF Insert, Find, Update, End, Go, Running, Ended
<1>3. CASE Unbind(r) \/ FindUniqueNumber(r)
  BY <1>1, <1>3 DEF Unbind, FindUniqueNumber, End, Go, Running, Ended
<1>4. CASE Bind(r) \/ DirectoryFails(r) \/ DeleteGroup(r) \/ Finish(r)
  BY <1>1, <1>4 DEF Bind, DirectoryFails, DeleteGroup, Finish, End, Running, Ended
<1>5. CASE FindAllForUser(r) \/ ModifyAttributes(r)
  BY <1>1, <1>5 DEF FindAllForUser, ModifyAttributes, End, Running, Ended
<1>6. CASE \E c \in todo[r] : Lookup(r, c)
  BY <1>1, <1>6 DEF Lookup, End, Running, Ended
<1> QED
  BY <1>2, <1>3, <1>4, <1>5, <1>6 DEF Serve

-----------------------------------------------------------------------------
(* The inductive invariant holds.                                          *)
THEOREM Invariant == Spec => []IInv
<1>1. Init => IInv
  BY InitInv
<1>2. IInv /\ [Next]_vars => IInv'
  BY NextInv
<1> QED
  BY <1>1, <1>2, PTL DEF Spec

(* For any number of concurrent requests, the name that a request is about *)
(* to bind is free (the monitor of GroupDaoImpl).                          *)
THEOREM NameIsFree == Spec => []NameStaysFree
<1>1. IInv => NameStaysFree
  BY DEF IInv, LockInv
<1> QED
  BY <1>1, Invariant, PTL

(* No two groups have the same number, however requests interleave         *)
(* (findUniqueNumber and update of GroupDaoImpl).                          *)
THEOREM NumbersAreUnique == Spec => []NumbersDiffer
<1>1. IInv => NumbersDiffer
  BY DEF IInv, NumberInv
<1> QED
  BY <1>1, Invariant, PTL

\* Protected groups are in the way of whoever unbinds them.
LEMMA ServeKeepsProtected ==
    ASSUME NEW r \in Requests, Serve(r)
    PROVE  Protected \cap exists \subseteq exists'
<1>1. CASE Unbind(r)
  BY <1>1 DEF Unbind
<1>2. CASE DeleteGroup(r)
  BY <1>2 DEF DeleteGroup
<1>3. CASE Bind(r)
  BY <1>3 DEF Bind
<1>4. CASE Insert(r) \/ Find(r) \/ Update(r) \/ FindUniqueNumber(r) \/ DirectoryFails(r)
  BY <1>4 DEF Insert, Find, Update, FindUniqueNumber, DirectoryFails, directory
<1>5. CASE FindAllForUser(r) \/ Finish(r) \/ ModifyAttributes(r) \/ \E c \in todo[r] : Lookup(r, c)
  BY <1>5 DEF FindAllForUser, Finish, ModifyAttributes, Lookup, directory
<1> QED
  BY <1>1, <1>2, <1>3, <1>4, <1>5 DEF Serve

LEMMA ArrivalsKeepDirectory ==
    ASSUME NEW r \in Requests, Arrivals(r)
    PROVE  UNCHANGED directory
BY DEF Arrivals, Create, Delete, Rename, UpdateUsers, CreateUser, DeleteUser, RenameUser, Arrive

(* Protected groups stay in the directory (delete, under update too).      *)
THEOREM ProtectedGroupsStay == Spec => ProtectedStay
<1>1. Next => Protected \cap exists \subseteq exists'
  BY ServeKeepsProtected, ArrivalsKeepDirectory DEF Next, directory
<1> QED
  BY <1>1, PTL DEF Spec, ProtectedStay

-----------------------------------------------------------------------------
(* The groups are changed at once.                                         *)

\* What there is, of a request and of the others.
LEMMA NamesOf ==
    ASSUME NEW r \in Requests, NEW others,
           others = {op[s].cn : s \in {s \in Requests \ {r} : Unbound(s)}},
           \A s \in Requests \ {r} : pc'[s] = pc[s] /\ op'[s] = op[s]
    PROVE  /\ Names = exists \cup others \cup (IF Unbound(r) THEN {op[r].cn} ELSE {})
           /\ Names' = exists' \cup others \cup (IF Unbound(r)' THEN {op[r].cn}' ELSE {})
<1>1. \A s \in Requests \ {r} : Unbound(s)' = Unbound(s)
  BY DEF Unbound
<1>2. others = {op'[s].cn : s \in {s \in Requests \ {r} : Unbound(s)'}}
  BY <1>1
<1>3. ASSUME NEW n PROVE n \in Names <=> n \in exists \/ n \in others \/ (Unbound(r) /\ n = op[r].cn)
  BY DEF Names
<1>4. ASSUME NEW n
      PROVE  n \in Names' <=> n \in exists' \/ n \in others \/ (Unbound(r)' /\ n = op'[r].cn)
  BY <1>2 DEF Names
<1> QED
  BY <1>3, <1>4

\* Only the request in the monitor may have unbound a group.
LEMMA OthersBound ==
    ASSUME IInv, NEW r \in Requests, pc[r] \in InMonitor, NEW s \in Requests \ {r}
    PROVE  pc[s] \notin InMonitor /\ ~Unbound(s)
BY DEF IInv, LockInv, Unbound, InMonitor

\* A request that arrives changes no group.
LEMMA ArrivesRename ==
    ASSUME IInv, RenameInv, NEW r \in Requests, NEW at, NEW what, NEW changes,
           Arrive(r, at, what, changes),
           at \in {"insert", "find", "delete", "next", "findAll"},
           at = "insert" => what.kind = "create", at = "find" => what.kind = "rename"
    PROVE  RenameInv' /\ UNCHANGED <<Names, number>>
<1>1. /\ pc[r] = "idle" /\ pc'[r] = at /\ op'[r] = what
      /\ UNCHANGED <<exists, number, kept>>
      /\ \A s \in Requests \ {r} : pc'[s] = pc[s] /\ op'[s] = op[s]
  BY DEF Arrive, directory, IInv, TypeOK
<1>2. ASSUME NEW s \in Requests \ {r} PROVE RenameOf(s)'
  BY <1>1 DEF RenameInv, RenameOf, Unbound
<1>3. RenameOf(r)'
  BY <1>1 DEF RenameOf, Unbound
<1>4. UNCHANGED Names
  <2>1. PICK others : others = {op[s].cn : s \in {s \in Requests \ {r} : Unbound(s)}}
    OBVIOUS
  <2> QED
    BY <1>1, <2>1, NamesOf DEF Unbound
<1> QED
  BY <1>1, <1>2, <1>3, <1>4 DEF RenameInv

LEMMA ArrivalsRename ==
    ASSUME IInv, RenameInv, NEW r \in Requests, Arrivals(r)
    PROVE  RenameInv' /\ UNCHANGED <<Names, number>>
BY ArrivesRename
DEF Arrivals, Create, Delete, Rename, UpdateUsers, CreateUser, DeleteUser, RenameUser, OfGroup

\* What another request relies on is not disturbed: a bind is in the monitor.
LEMMA OthersRename ==
    ASSUME IInv, RenameInv, NEW r \in Requests, Serve(r), NEW s \in Requests \ {r}
    PROVE  RenameOf(s)'
<1>1. pc'[s] = pc[s] /\ op'[s] = op[s] /\ kept'[s] = kept[s]
  BY ServeOne
<1>2. CASE Bind(r)
  <2>1. pc[s] \notin InMonitor
    BY <1>2, OthersBound DEF Bind, InMonitor
  <2> QED
    BY <1>1, <2>1 DEF RenameInv, RenameOf, Unbound, InMonitor
<1>3. CASE ~Bind(r)
  <2>1. exists' \subseteq exists /\ number' = number
    BY <1>3 DEF Serve, Insert, Find, Update, Unbind, FindUniqueNumber, DirectoryFails, DeleteGroup,
                FindAllForUser, Finish, ModifyAttributes, Lookup, directory
  <2> QED
    BY <1>1, <2>1 DEF RenameInv, RenameOf, Unbound
<1> QED
  BY <1>2, <1>3

\* A step of the request itself.
LEMMA OwnRename ==
    ASSUME IInv, RenameInv, NEW r \in Requests, Serve(r)
    PROVE  RenameOf(r)'
<1>1. /\ pc \in [Requests -> {"idle"} \cup Running \cup Ended]
      /\ op \in [Requests -> Ops] /\ kept \in [Requests -> Nat \cup {NoNumber}]
      /\ RenameOf(r)
  BY DEF IInv, TypeOK, RenameInv
<1>2. CASE pc'[r] \notin {"insert", "find", "update", "unbind", "number", "bind"}
  BY <1>2 DEF RenameOf, Unbound
<1>3. CASE Insert(r) /\ pc'[r] = "number"
  <2>1. op' = op /\ pc[r] = "insert"
    BY <1>1, <1>3 DEF Insert, Go, End
  <2> QED
    BY <1>1, <1>3, <2>1 DEF RenameOf, Unbound
<1>4. CASE Find(r) /\ pc'[r] = "update"
  <2>1. op' = op /\ pc[r] = "find"
    BY <1>1, <1>4 DEF Find, Go, End
  <2> QED
    BY <1>1, <1>4, <2>1 DEF RenameOf, Unbound
<1>5. CASE Update(r) /\ pc'[r] = "unbind"
  <2>1. op' = op /\ number' = number /\ pc[r] = "update" /\ kept'[r] = number[op[r].cn]
    BY <1>1, <1>5 DEF Update, Go, End, directory
  <2> QED
    BY <1>1, <1>5, <2>1 DEF RenameOf, Unbound
<1>6. CASE Unbind(r) /\ pc'[r] \in {"number", "bind"}
  <2>1. /\ op' = op /\ UNCHANGED <<number, kept>> /\ pc[r] = "unbind"
        /\ op[r].cn \in exists \ Protected /\ exists' = exists \ {op[r].cn}
        /\ pc'[r] = IF kept[r] = NoNumber THEN "number" ELSE "bind"
    BY <1>1, <1>6 DEF Unbind, Go, End
  <2> QED
    BY <1>1, <1>6, <2>1 DEF RenameOf, Unbound
<1>7. CASE FindUniqueNumber(r)
  <2>1. /\ op' = op /\ UNCHANGED <<exists, number>> /\ pc[r] = "number" /\ pc'[r] = "bind"
    BY <1>1, <1>7 DEF FindUniqueNumber, Go, directory
  <2> QED
    BY <1>1, <2>1 DEF RenameOf, Unbound
<1>8. CASE Insert(r) \/ Find(r) \/ Update(r) \/ Unbind(r)
  BY <1>1, <1>2, <1>3, <1>4, <1>5, <1>6, <1>8 DEF Insert, Find, Update, Unbind, End, Go
<1>9. CASE Bind(r) \/ DirectoryFails(r) \/ DeleteGroup(r) \/ Finish(r)
  BY <1>1, <1>2, <1>9 DEF Bind, DirectoryFails, DeleteGroup, Finish, End
<1>10. CASE FindAllForUser(r) \/ ModifyAttributes(r) \/ \E c \in todo[r] : Lookup(r, c)
  BY <1>1, <1>2, <1>10 DEF FindAllForUser, ModifyAttributes, Lookup, End
<1> QED
  BY <1>7, <1>8, <1>9, <1>10 DEF Serve

\* The bind is where a group is added or renamed.
LEMMA BindAtOnce ==
    ASSUME IInv, RenameInv, NEW r \in Requests, Bind(r)
    PROVE  Directory!Next
<1> DEFINE cn == op[r].cn
           to == op[r].to
<1>1. /\ pc \in [Requests -> {"idle"} \cup Running \cup Ended]
      /\ number \in [Groups -> Nat \cup {NoNumber}] /\ kept[r] \in Nat \cup {NoNumber}
  BY DEF IInv, TypeOK
<1>2. /\ pc[r] = "bind" /\ pc'[r] = "ok" /\ to \notin exists
      /\ exists' = exists \cup {to} /\ number' = [number EXCEPT ![to] = kept[r]]
  BY <1>1 DEF Bind, End
<1>3. cn \in Groups /\ to \in Groups
  BY <1>2 DEF IInv, OpInv, OfAGroup
<1>4. kept[r] \in Nat /\ \A g \in exists : number[g] # kept[r]
  BY <1>1, <1>2 DEF IInv, NumberInv
<1>5. /\ Names = exists \cup (IF op[r].kind = "rename" THEN {cn} ELSE {})
      /\ Names' = exists \cup {to}
  <2>1. PICK others : others = {op[s].cn : s \in {s \in Requests \ {r} : Unbound(s)}}
    OBVIOUS
  <2>5. others = {}
    BY <1>2, <2>1, OthersBound DEF InMonitor
  <2>2. Unbound(r) <=> op[r].kind = "rename"
    BY <1>2 DEF Unbound
  <2>3. ~Unbound(r)'
    BY <1>2 DEF Unbound
  <2>4. \A s \in Requests \ {r} : pc'[s] = pc[s] /\ op'[s] = op[s]
    BY ServeOne DEF Serve
  <2>6. /\ Names = exists \cup others \cup (IF Unbound(r) THEN {op[r].cn} ELSE {})
        /\ Names' = exists' \cup others \cup (IF Unbound(r)' THEN {op[r].cn}' ELSE {})
    BY <2>1, <2>4, NamesOf
  <2> QED
    BY <1>2, <2>2, <2>3, <2>5, <2>6
<1>6. CASE op[r].kind = "create"
  <2>1. Directory!Given(to, NoNumber)
    BY <1>1, <1>2, <1>3, <1>4, <1>5, <1>6 DEF Directory!Given
  <2>2. Directory!Add(to)
    BY <1>2, <1>5, <1>6, <2>1 DEF Directory!Add
  <2> QED
    BY <1>3, <2>2 DEF Directory!Next
<1>7. CASE op[r].kind = "rename"
  <2>1. cn \notin exists \cup Protected /\ number[cn] \in {NoNumber, kept[r]}
    BY <1>2, <1>7 DEF RenameInv, RenameOf, Unbound
  <2>2. Directory!Given(to, number[cn])
    <3>1. CASE number[cn] # NoNumber
      BY <1>1, <1>2, <1>3, <2>1, <3>1 DEF Directory!Given
    <3>2. CASE number[cn] = NoNumber
      <4>1. kept[r] # NoNumber
        BY <1>4, GroupsAssumption
      <4> QED
        BY <1>1, <1>2, <1>3, <1>4, <1>5, <1>7, <3>2, <4>1 DEF Directory!Given
    <3> QED
      BY <3>1, <3>2
  <2>3. Directory!Rename(cn, to)
    BY <1>2, <1>5, <1>7, <2>1, <2>2 DEF Directory!Rename
  <2> QED
    BY <1>3, <2>3 DEF Directory!Next
<1>8. op[r].kind \in {"create", "rename"}
  BY <1>2 DEF RenameInv, RenameOf
<1> QED
  BY <1>6, <1>7, <1>8

\* Every other step removes a group, or changes none.
LEMMA ServeAtOnce ==
    ASSUME IInv, RenameInv, NEW r \in Requests, Serve(r)
    PROVE  Directory!Next \/ UNCHANGED <<Names, number>>
<1>1. /\ pc \in [Requests -> {"idle"} \cup Running \cup Ended]
      /\ op \in [Requests -> Ops]
  BY DEF IInv, TypeOK
<1>2. \A s \in Requests \ {r} : pc'[s] = pc[s] /\ op'[s] = op[s]
  BY ServeOne
<1>3. PICK others : others = {op[s].cn : s \in {s \in Requests \ {r} : Unbound(s)}}
  OBVIOUS
<1>4. /\ Names = exists \cup others \cup (IF Unbound(r) THEN {op[r].cn} ELSE {})
      /\ Names' = exists' \cup others \cup (IF Unbound(r)' THEN {op[r].cn}' ELSE {})
  BY <1>2, <1>3, NamesOf
<1>5. /\ \A s \in Requests : Unbound(s) => op[s].cn \in Groups \ (exists \cup Protected)
      /\ \A n \in others : n \notin exists
  BY <1>3 DEF RenameInv, RenameOf, Unbound, IInv, OpInv, OfAGroup
<1>6. CASE Bind(r)
  BY <1>6, BindAtOnce
<1>7. CASE DirectoryFails(r)
  <2>1. UNCHANGED <<exists, number>> /\ ~Unbound(r)' /\ pc[r] \in InMonitor
    BY <1>1, <1>7 DEF DirectoryFails, End, Unbound, directory, InMonitor
  <2>2. others = {}
    BY <1>3, <2>1, OthersBound
  <2>3. CASE Unbound(r)
    <3>1. Directory!Remove(op[r].cn)
      BY <1>4, <1>5, <2>1, <2>2, <2>3 DEF Directory!Remove
    <3> QED
      BY <1>5, <2>3, <3>1 DEF Directory!Next
  <2> QED
    BY <1>4, <2>1, <2>2, <2>3
<1>8. CASE DeleteGroup(r)
  <2>1. /\ ~Unbound(r) /\ ~Unbound(r)' /\ number' = number /\ op[r].cn \in Groups
        /\ exists' = IF op[r].cn \in Protected THEN exists ELSE exists \ {op[r].cn}
    BY <1>1, <1>8 DEF DeleteGroup, End, Unbound, IInv, OpInv, OfAGroup
  <2>2. CASE op[r].cn \in exists \ Protected
    <3>1. Directory!Remove(op[r].cn)
      BY <1>4, <1>5, <2>1, <2>2 DEF Directory!Remove
    <3> QED
      BY <2>1, <3>1 DEF Directory!Next
  <2> QED
    BY <1>4, <2>1, <2>2
<1>9. CASE Unbind(r)
  <2>1. CASE pc'[r] \in {"number", "bind"}
    <3>1. /\ pc[r] = "unbind" /\ op' = op /\ number' = number
          /\ op[r].cn \in exists /\ exists' = exists \ {op[r].cn}
      BY <1>1, <1>9, <2>1 DEF Unbind, Go, End
    <3>2. ~Unbound(r) /\ Unbound(r)'
      BY <2>1, <3>1 DEF RenameInv, RenameOf, Unbound
    <3>3. others = {}
      BY <1>3, <3>1, OthersBound DEF InMonitor
    <3> QED
      BY <1>4, <3>1, <3>2, <3>3
  <2>2. CASE pc'[r] \notin {"number", "bind"}
    <3>1. UNCHANGED <<exists, number>> /\ ~Unbound(r) /\ ~Unbound(r)'
      BY <1>1, <1>9, <2>2 DEF Unbind, Go, End, Unbound
    <3> QED
      BY <1>4, <3>1
  <2> QED
    BY <2>1, <2>2
<1>10. CASE FindUniqueNumber(r)
  <2>1. UNCHANGED <<exists, number, op>> /\ (Unbound(r)' <=> Unbound(r))
    BY <1>1, <1>10 DEF FindUniqueNumber, Go, Unbound, directory
  <2> QED
    BY <1>4, <2>1
<1>11. CASE Insert(r)
  <2>1. UNCHANGED <<exists, number>> /\ ~Unbound(r)
    BY <1>11 DEF Insert, Unbound, directory
  <2>2. ~Unbound(r)'
    BY <1>1, <1>11 DEF Insert, Unbound, Go, End, RenameInv, RenameOf
  <2> QED
    BY <1>4, <2>1, <2>2
<1>12. CASE Find(r) \/ Update(r) \/ Finish(r) \/ FindAllForUser(r)
  <2>1. UNCHANGED <<exists, number>> /\ ~Unbound(r) /\ ~Unbound(r)'
    BY <1>1, <1>12 DEF Find, Update, Finish, FindAllForUser, Unbound, directory, End, Go
  <2> QED
    BY <1>4, <2>1
<1>13. CASE ModifyAttributes(r) \/ \E c \in todo[r] : Lookup(r, c)
  <2>1. UNCHANGED <<exists, number>> /\ ~Unbound(r) /\ ~Unbound(r)'
    BY <1>1, <1>13 DEF ModifyAttributes, Lookup, Unbound, directory, End
  <2> QED
    BY <1>4, <2>1
<1> QED
  BY <1>6, <1>7, <1>8, <1>9, <1>10, <1>11, <1>12, <1>13 DEF Serve

LEMMA ServeRename ==
    ASSUME IInv, RenameInv, NEW r \in Requests, Serve(r)
    PROVE  RenameInv'
BY OwnRename, OthersRename DEF RenameInv

LEMMA DirectoryInit == Init => RenameInv /\ Directory!Init
<1> SUFFICES ASSUME Init PROVE RenameInv /\ Directory!Init
  OBVIOUS
<1>1. RenameInv /\ Names = exists
  BY DEF Init, RenameInv, RenameOf, Unbound, Names
<1>2. Directory!Init
  BY <1>1, GroupsAssumption DEF Init, Directory!Init
<1> QED
  BY <1>1, <1>2

(* For any number of concurrent requests, groups are added, renamed and    *)
(* removed as if each were done at once, under a free name and with a      *)
(* number of its own: LdapGroups implements GroupDirectory (insert, update *)
(* and delete of GroupDaoImpl).                                            *)
THEOREM GroupsChangeAtOnce == Spec => GroupsAreAtomic
<1>1. RenameInv /\ IInv /\ [Next]_vars => RenameInv'
  <2>1. UNCHANGED vars /\ RenameInv => RenameInv'
    BY DEF vars, directory, RenameInv, RenameOf, Unbound
  <2> QED
    BY <2>1, ArrivalsRename, ServeRename DEF Next
<1>2. RenameInv /\ IInv /\ [Next]_vars => [Directory!Next]_<<Names, number>>
  <2>1. UNCHANGED vars => UNCHANGED <<Names, number>>
    BY DEF vars, directory, Names, Unbound
  <2> QED
    BY <2>1, ArrivalsRename, ServeAtOnce DEF Next
<1>3. Spec => Directory!Init /\ [][Directory!Next]_<<Names, number>>
  BY <1>1, <1>2, Invariant, DirectoryInit, PTL DEF Spec
<1> QED
  BY <1>3 DEF GroupsAreAtomic, Directory!Spec, Directory!groups
=============================================================================
