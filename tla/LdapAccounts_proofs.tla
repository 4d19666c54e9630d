------------------------ MODULE LdapAccounts_proofs ------------------------
(***************************************************************************)
(* Proofs about LdapAccounts, for any accounts, organizations and number   *)
(* of concurrent requests: no two accounts have one mail, and the group    *)
(* USER has the accounts as its members.                                   *)
(***************************************************************************)
EXTENDS LdapAccounts, FiniteSetTheorems, TLAPS

Record == [step : Steps, uid : Uids \cup {None}, to : Uids \cup {None},
           data : Entry \cup {None}, org0 : Orgs \cup {None}, org : Orgs \cup {None},
           result : Results]

InDao == {"bind", "role", "org", "check", "modify", "unbind"}

\* No mail is counted twice if and only if no two accounts have one mail.
LEMMA MailCount ==
    ASSUME entry \in [Uids -> Entry \cup {None}] PROVE EmailUnique <=> MailOfOne
<1>1. ASSUME EmailUnique PROVE MailOfOne
  <2> SUFFICES ASSUME NEW u \in Uids, NEW v \in Uids, Exists(u), Exists(v),
                      entry[u].mail = entry[v].mail, u # v
               PROVE  FALSE
    BY DEF MailOfOne
  <2> DEFINE S == HasMail(entry[u].mail)
  <2>1. entry[u].mail \in Mails
    BY DEF Exists, Entry
  <2>2. IsFiniteSet(S) /\ {u, v} \in SUBSET S
    BY AccountsAssumption, FS_Subset DEF HasMail
  <2>3. Cardinality({u, v}) = 2
    <3>1. IsFiniteSet({u}) /\ Cardinality({u}) = 1
      BY FS_Singleton
    <3>2. Cardinality({u} \cup {v}) = Cardinality({u}) + 1
      BY <3>1, FS_AddElement, v \notin {u}, Zenon
    <3>3. {u} \cup {v} = {u, v}
      OBVIOUS
    <3> QED
      BY <3>1, <3>2, <3>3
  <2>4. Cardinality({u, v}) <= Cardinality(S) /\ Cardinality(S) \in Nat
    BY <2>2, FS_Subset, FS_CardinalityType
  <2>5. Cardinality(S) <= 1
    BY <1>1, <2>1 DEF EmailUnique
  <2> QED
    BY <2>3, <2>4, <2>5
<1>2. ASSUME MailOfOne PROVE EmailUnique
  <2> SUFFICES ASSUME NEW m \in Mails PROVE Cardinality(HasMail(m)) <= 1
    BY DEF EmailUnique
  <2>1. CASE HasMail(m) = {}
    <3>1. Cardinality({}) = 0
      BY FS_EmptySet
    <3>2. Cardinality(HasMail(m)) = 0
      BY <2>1, <3>1, Zenon
    <3> QED
      BY <3>2
  <2>2. CASE \E u \in HasMail(m) : TRUE
    <3>1. PICK u : u \in HasMail(m)
      BY <2>2
    <3>2. HasMail(m) = {u}
      BY <1>2, <3>1 DEF MailOfOne, HasMail
    <3>3. Cardinality(HasMail(m)) = 1
      BY <3>2, FS_Singleton, Zenon
    <3> QED
      BY <3>3
  <2> QED
    BY <2>1, <2>2
<1> QED
  BY <1>1, <1>2

LEMMA InitInv == Init => IInv
<1> SUFFICES ASSUME Init PROVE IInv
  OBVIOUS
<1>1. entry \in [Uids -> Entry \cup {None}]
  BY AccountsAssumption DEF Init
<1>2. TypeOK
  <2>1. member \in [Groups -> SUBSET Uids]
    BY DEF Init
  <2>2. memberOf \in [Uids -> SUBSET Groups]
    BY DEF Init, Groups
  <2>3. NewRequest \in Record
    BY DEF NewRequest, Record, Steps, Results
  <2> QED
    BY <1>1, <2>1, <2>2, <2>3 DEF Init, TypeOK, Record
<1>3. ReqInv /\ LockInv
  BY AccountsAssumption DEF Init, ReqInv, LockInv, NewRequest
<1>4. CheckedInv
  <2>1. MailOfOne
    BY <1>1, MailCount DEF Init, EmailUnique
  <2> QED
    BY <2>1 DEF Init, CheckedInv, NewRequest
<1>5. RoleInv
  <2>1. Away = {}
    BY DEF Init, Away, NewRequest
  <2>2. \A u \in Uids : memberOf[u] # {} <=> "USER" \in memberOf[u]
    BY DEF Init
  <2>3. \A u \in Uids : Exists(u) <=> "USER" \in memberOf[u]
    BY <2>2 DEF Init
  <2>4. member["USER"] = {u \in Uids : "USER" \in memberOf[u]}
    BY DEF Init, Groups
  <2> QED
    BY <2>1, <2>3, <2>4 DEF RoleInv
<1> QED
  BY <1>2, <1>3, <1>4, <1>5 DEF IInv

-----------------------------------------------------------------------------
(* A request goes on.                                                      *)

\* A request has gone on to a step with what it knew.
WentOn(r, to) ==
    /\ req' \in [Requests -> Record]
    /\ req'[r].step = to /\ req'[r].uid = req[r].uid /\ req'[r].to = req[r].to
    /\ req'[r].data = req[r].data
    /\ \A q \in Requests : q # r => req'[q] = req[q]

LEMMA StepOn ==
    ASSUME TypeOK, NEW r \in Requests, NEW from, NEW to \in Steps, Step(r, from, to)
    PROVE  req[r].step = from /\ WentOn(r, to)
BY DEF TypeOK, Record, Step, WentOn

LEMMA AnswerOn ==
    ASSUME TypeOK, NEW r \in Requests, NEW from, NEW result \in Results, Answer(r, from, result)
    PROVE  req[r].step = from /\ WentOn(r, "done")
<1>1. req' = [req EXCEPT ![r] = [req[r] EXCEPT !.step = "done", !.result = result]]
  BY DEF Answer, TypeOK
<1>2. [req[r] EXCEPT !.step = "done", !.result = result] \in Record
  BY DEF TypeOK, Record, Steps
<1> QED
  BY <1>1, <1>2 DEF TypeOK, Record, Answer, WentOn

\* What a request that goes on must know.
LEMMA ReqOn ==
    ASSUME ReqInv, NEW r \in Requests, NEW to \in Steps, WentOn(r, to), req[r].step # "done",
           req[r].step = "new" => to = "done",
           to \in {"insert", "update"} => FALSE,
           to = "bind" => req[r].step = "insert",
           to = "check" => req[r].step = "update",
           to = "modify" => req[r].step = "check"
    PROVE  ReqInv'
BY DEF ReqInv, WentOn

\* A step outside the DAO keeps the invariant: it writes no entry, and leaves
\* the group USER alone.
LEMMA OutsideInv ==
    ASSUME IInv, TypeOK', ReqInv', NEW r \in Requests,
           \A q \in Requests : q # r => req'[q] = req[q],
           req[r].step \notin InDao, req'[r].step \notin InDao,
           UNCHANGED <<entry, lock, failed>>, member'["USER"] = member["USER"],
           \A u \in Uids : "USER" \in memberOf[u] => "USER" \in memberOf'[u]
    PROVE  IInv'
<1> USE DEF IInv, InDao
<1>1. LockInv'
  BY DEF LockInv
<1>2. CheckedInv'
  BY DEF CheckedInv, MailOfOne, Exists, HasMail
<1>3. RoleInv'
  <2>1. Away' = Away
    BY DEF Away
  <2> QED
    BY <2>1 DEF RoleInv, Exists
<1> QED
  BY <1>1, <1>2, <1>3

-----------------------------------------------------------------------------
(* Outside the DAO.                                                        *)

\* The organizations of a user are not USER.
LEMMA OrgMember ==
    ASSUME TypeOK, NEW o \in Orgs, NEW u \in Uids, AddMember(o, u) \/ RemoveMember(o, u)
    PROVE  /\ UNCHANGED entry
           /\ member' \in [Groups -> SUBSET Uids] /\ memberOf' \in [Uids -> SUBSET Groups]
           /\ member'["USER"] = member["USER"]
           /\ \A v \in Uids : "USER" \in memberOf[v] => "USER" \in memberOf'[v]
<1>1. o \in Groups /\ "USER" \in Groups /\ o # "USER"
  BY AccountsAssumption DEF Groups
<1>2. CASE AddMember(o, u)
  BY <1>1, <1>2 DEF AddMember, TypeOK
<1>3. CASE RemoveMember(o, u)
  BY <1>1, <1>3 DEF RemoveMember, TypeOK
<1> QED
  BY <1>2, <1>3

\* A request that arrives with a new record.
LEMMA ArriveInv ==
    ASSUME IInv, NEW r \in Requests, NEW e \in Record, req' = [req EXCEPT ![r] = e],
           req[r].step = "new", e.step \in {"insert", "update", "delete"},
           e.uid \in Uids, e.step # "delete" => e.data \in Entry, e.step = "update" => e.to \in Uids,
           UNCHANGED <<directory, lock, failed>>
    PROVE  IInv'
<1>1. TypeOK'
  BY DEF IInv, TypeOK, Record, directory
<1>2. ReqInv'
  BY DEF IInv, ReqInv, TypeOK
<1>3. req'[r] = e /\ \A q \in Requests : q # r => req'[q] = req[q]
  BY DEF IInv, TypeOK
<1> QED
  BY <1>1, <1>2, <1>3, OutsideInv DEF directory, InDao

LEMMA CreateUidInv ==
    ASSUME IInv, NEW r \in Requests, NEW u \in Uids, NEW m \in Mails, NEW p \in Phones,
           NEW o \in Orgs \cup {None}, CreateUid(r, u, m, p, o)
    PROVE  IInv'
<1> DEFINE e == [NewRequest EXCEPT !.step = "insert", !.uid = u, !.to = u, !.org = o,
                                   !.data = [mail |-> m, phone |-> p]]
<1>1. e \in Record /\ e.step = "insert" /\ e.uid = u /\ e.data \in Entry
  BY DEF NewRequest, Record, Steps, Results, Entry
<1>2. req[r].step = "new" /\ req' = [req EXCEPT ![r] = e] /\ UNCHANGED <<directory, lock, failed>>
  BY DEF CreateUid
<1> HIDE DEF e
<1> QED
  BY <1>1, <1>2, ArriveInv

LEMMA DeleteInv ==
    ASSUME IInv, NEW r \in Requests, NEW u \in Uids, Delete(r, u) PROVE IInv'
<1> DEFINE e == [NewRequest EXCEPT !.step = "delete", !.uid = u]
<1>1. e \in Record /\ e.step = "delete" /\ e.uid = u
  BY DEF NewRequest, Record, Steps, Results
<1>2. req[r].step = "new" /\ req' = [req EXCEPT ![r] = e] /\ UNCHANGED <<directory, lock, failed>>
  BY DEF Delete
<1> HIDE DEF e
<1> QED
  BY <1>1, <1>2, ArriveInv

LEMMA FindAccountInv ==
    ASSUME IInv, NEW r \in Requests, NEW u \in Uids, NEW b \in Bodies, FindAccount(r, u, b)
    PROVE  IInv'
<1> DEFINE org0 == IF OrgsOf(u) = {} THEN None ELSE CHOOSE o \in OrgsOf(u) : TRUE
           e == [NewRequest EXCEPT !.step = "update", !.uid = u, !.to = OrElse(b.uid, u),
                     !.data = [mail |-> OrElse(b.mail, entry[u].mail),
                               phone |-> OrElse(b.phone, entry[u].phone)],
                     !.org0 = org0, !.org = OrElse(b.org, org0)]
<1>1. org0 \in Orgs \cup {None}
  BY DEF IInv, TypeOK, OrgsOf, Groups
<1>2. b \in Body /\ entry[u] \in Entry
  BY AccountsAssumption DEF FindAccount, Exists, IInv, TypeOK
<1>3. /\ OrElse(b.uid, u) \in Uids
      /\ OrElse(b.mail, entry[u].mail) \in Mails
      /\ OrElse(b.phone, entry[u].phone) \in Phones
      /\ OrElse(b.org, org0) \in Orgs \cup {None}
  BY <1>1, <1>2 DEF Body, Entry, OrElse
<1>4. req[r].step = "new" /\ req' = [req EXCEPT ![r] = e] /\ UNCHANGED <<directory, lock, failed>>
  BY DEF FindAccount
<1> HIDE DEF org0
<1>5. e \in Record /\ e.step = "update" /\ e.uid = u /\ e.data \in Entry /\ e.to \in Uids
  BY <1>1, <1>3 DEF NewRequest, Record, Steps, Results, Entry
<1> HIDE DEF e
<1> QED
  BY <1>4, <1>5, ArriveInv

\* A request that ends outside the DAO, with or without a change of an organization.
LEMMA EndOutsideInv ==
    ASSUME IInv, NEW r \in Requests, NEW from, NEW result \in Results, Answer(r, from, result),
           from \in {"new", "insert", "update", "addNew"}, UNCHANGED <<lock, failed>>,
           \/ UNCHANGED directory
           \/ \E u \in Uids, o \in Orgs : AddMember(o, u) \/ RemoveMember(o, u)
    PROVE  IInv'
<1>1. req[r].step = from /\ WentOn(r, "done")
  BY AnswerOn DEF IInv
<1>2. /\ UNCHANGED entry
      /\ member' \in [Groups -> SUBSET Uids] /\ memberOf' \in [Uids -> SUBSET Groups]
      /\ member'["USER"] = member["USER"]
      /\ \A v \in Uids : "USER" \in memberOf[v] => "USER" \in memberOf'[v]
  BY OrgMember DEF IInv, TypeOK, directory
<1>3. TypeOK'
  BY <1>1, <1>2 DEF IInv, TypeOK, Record, WentOn
<1>4. ReqInv'
  BY <1>1, ReqOn DEF IInv, Steps
<1> QED
  BY <1>1, <1>2, <1>3, <1>4, OutsideInv DEF WentOn, InDao

LEMMA RemoveOldInv ==
    ASSUME IInv, NEW r \in Requests, RemoveOld(r) PROVE IInv'
<1>1. req[r].step = "removeOld" /\ WentOn(r, "addNew")
  BY StepOn DEF IInv, RemoveOld, Steps
<1>2. req[r].uid \in Uids /\ req[r].org0 \in Orgs \cup {None}
  BY <1>1 DEF IInv, ReqInv, TypeOK
<1>3. /\ UNCHANGED entry
      /\ member' \in [Groups -> SUBSET Uids] /\ memberOf' \in [Uids -> SUBSET Groups]
      /\ member'["USER"] = member["USER"]
      /\ \A v \in Uids : "USER" \in memberOf[v] => "USER" \in memberOf'[v]
  <2>1. CASE req[r].org0 = None
    BY <2>1 DEF RemoveOld, directory, IInv, TypeOK
  <2>2. CASE req[r].org0 # None
    BY <1>2, <2>2, OrgMember DEF RemoveOld, IInv
  <2> QED
    BY <2>1, <2>2
<1>4. UNCHANGED <<lock, failed>>
  BY DEF RemoveOld
<1>5. TypeOK'
  BY <1>1, <1>3, <1>4 DEF IInv, TypeOK, Record, WentOn
<1>6. ReqInv'
  BY <1>1, ReqOn DEF IInv, Steps
<1> QED
  BY <1>1, <1>3, <1>4, <1>5, <1>6, OutsideInv DEF WentOn, InDao

LEMMA OutsideEnds ==
    ASSUME IInv, NEW r \in Requests,
           \/ InsertRefused(r) \/ RenameRefused(r) \/ AddNew(r)
           \/ \E u \in Uids : FindAccountFails(r, u)
           \/ \E u \in Uids, o \in Orgs : AddUserInOrg(r, u, o) \/ RemoveUserFromOrg(r, u, o)
    PROVE  IInv'
<1>1. CASE InsertRefused(r)
  <2>1. PICK result \in Results : Refuse(r, "insert", result)
    BY <1>1 DEF InsertRefused, Results
  <2> QED
    BY <2>1, EndOutsideInv DEF Refuse
<1>2. CASE RenameRefused(r)
  BY <1>2, EndOutsideInv DEF RenameRefused, Refuse, Results
<1>3. CASE AddNew(r)
  <2>1. req[r].uid \in Uids /\ req[r].org \in Orgs \cup {None}
    BY <1>3 DEF AddNew, Answer, IInv, ReqInv, TypeOK
  <2>2. \/ UNCHANGED directory
        \/ \E u \in Uids, o \in Orgs : AddMember(o, u) \/ RemoveMember(o, u)
    BY <1>3, <2>1 DEF AddNew
  <2>3. Answer(r, "addNew", "ok") /\ UNCHANGED <<lock, failed>>
    BY <1>3 DEF AddNew
  <2> QED
    BY <2>2, <2>3, EndOutsideInv DEF Results
<1>4. ASSUME NEW u \in Uids, FindAccountFails(r, u) PROVE IInv'
  <2>1. PICK result \in Results : Answer(r, "new", result)
    BY <1>4 DEF FindAccountFails, Results
  <2> QED
    BY <1>4, <2>1, EndOutsideInv DEF FindAccountFails
<1>5. ASSUME NEW u \in Uids, NEW o \in Orgs, AddUserInOrg(r, u, o) \/ RemoveUserFromOrg(r, u, o)
      PROVE  IInv'
  <2>1. /\ Answer(r, "new", "ok") /\ UNCHANGED <<lock, failed>>
        /\ AddMember(o, u) \/ RemoveMember(o, u)
    BY <1>5 DEF AddUserInOrg, RemoveUserFromOrg
  <2> QED
    BY <2>1, EndOutsideInv DEF Results
<1> QED
  BY <1>1, <1>2, <1>3, <1>4, <1>5

-----------------------------------------------------------------------------
(* Inside the DAO.                                                         *)

\* Only the request that holds the lock is inside the DAO.
LEMMA Alone ==
    ASSUME LockInv, NEW r \in Requests, lock \in {None, r}
    PROVE  \A q \in Requests : q # r => req[q].step \notin InDao
BY AccountsAssumption DEF LockInv, InDao

\* A request that enters the DAO, goes on in it or leaves it.
LEMMA LockOn ==
    ASSUME LockInv, NEW r \in Requests, NEW to, WentOn(r, to),
           \/ lock \in {None, r} /\ lock' = r /\ to \in InDao
           \/ lock \in {None, r} /\ lock' = None /\ to \notin InDao
    PROVE  LockInv'
<1>1. \A q \in Requests : q # r => req'[q].step \notin InDao
  BY Alone DEF WentOn
<1> QED
  BY <1>1, AccountsAssumption DEF LockInv, WentOn, InDao

\* In the DAO, the accounts away are the one of the request that is in it.
LEMMA AwayIs ==
    ASSUME LockInv, ReqInv, NEW r \in Requests, lock \in {None, r}
    PROVE  /\ req[r].step \in {"role", "unbind"} => Away = {req[r].uid}
           /\ req[r].step \notin {"role", "unbind"} => Away = {}
BY Alone DEF Away, InDao, ReqInv

\* The same after a step of the request that is in it.
LEMMA AwayNext ==
    ASSUME LockInv', ReqInv', NEW r \in Requests, lock' \in {None, r}
    PROVE  /\ req'[r].step \in {"role", "unbind"} => Away' = {req'[r].uid}
           /\ req'[r].step \notin {"role", "unbind"} => Away' = {}
BY AccountsAssumption DEF LockInv, Away, InDao, ReqInv

LEMMA InsertInv == ASSUME IInv, NEW r \in Requests, Insert(r) PROVE IInv'
<1> USE DEF IInv
<1>1. req[r].step = "insert" /\ WentOn(r, "bind")
  BY StepOn DEF Insert, Steps
<1>2. lock = None /\ lock' = r /\ UNCHANGED <<entry, member, memberOf, failed>>
  BY DEF Insert, Enter, directory
<1>3. TypeOK'
  BY <1>1, <1>2 DEF TypeOK, Record, WentOn
<1>4. ReqInv' /\ LockInv'
  BY <1>1, <1>2, ReqOn, LockOn DEF Steps, InDao
<1>5. CheckedInv'
  BY <1>1, <1>2, Alone DEF CheckedInv, MailOfOne, Exists, HasMail, WentOn, Insert, InDao
<1>6. Away = {} /\ Away' = {}
  BY <1>1, <1>2, <1>4, AwayIs, AwayNext DEF WentOn
<1>7. RoleInv'
  BY <1>2, <1>6 DEF RoleInv, Exists
<1> QED
  BY <1>3, <1>4, <1>5, <1>7

LEMMA BindInv == ASSUME IInv, NEW r \in Requests, Bind(r) PROVE IInv'
<1> USE DEF IInv
<1>1. req[r].step = "bind" /\ WentOn(r, "role")
  BY StepOn DEF Bind, Steps
<1>2. lock = r /\ lock' = r /\ UNCHANGED <<member, memberOf, failed>>
  BY <1>1 DEF Bind, LockInv
<1>3. req[r].uid \in Uids /\ req[r].data \in Entry /\ req[r].data # None
  BY <1>1, AccountsAssumption DEF ReqInv
<1>4. entry' = [entry EXCEPT ![req[r].uid] = req[r].data]
  BY DEF Bind
<1>5. TypeOK'
  BY <1>1, <1>2, <1>3, <1>4 DEF TypeOK, Record, WentOn
<1>6. ReqInv' /\ LockInv'
  BY <1>1, <1>2, ReqOn, LockOn DEF Steps, InDao
<1>7. CheckedInv'
  <2>1. MailOfOne'
    BY <1>1, <1>3, <1>4 DEF CheckedInv, MailOfOne, Exists, HasMail, TypeOK
  <2> QED
    BY <2>1, <1>1, <1>2, <1>3, <1>4, Alone DEF CheckedInv, WentOn, InDao, Exists, TypeOK
<1>8. Away = {} /\ Away' = {req[r].uid}
  BY <1>1, <1>2, <1>6, AwayIs, AwayNext DEF WentOn
<1>9. RoleInv'
  <2>1. \A u \in Uids : u # req[r].uid => entry'[u] = entry[u]
    BY <1>4 DEF TypeOK
  <2>2. ~Exists(req[r].uid)
    BY <1>1 DEF CheckedInv
  <2> QED
    BY <1>2, <1>8, <2>1, <2>2 DEF RoleInv, Exists
<1> QED
  BY <1>5, <1>6, <1>7, <1>9

LEMMA AddRoleInv == ASSUME IInv, NEW r \in Requests, AddRole(r) PROVE IInv'
<1> USE DEF IInv
<1>1. req[r].step = "role" /\ WentOn(r, "org")
  BY StepOn DEF AddRole, Steps
<1>2. lock = r /\ lock' = r /\ UNCHANGED <<entry, failed>>
  BY <1>1 DEF AddRole, AddMember, LockInv
<1>3. req[r].uid \in Uids /\ "USER" \in Groups
  BY <1>1 DEF ReqInv, Groups
<1>4. TypeOK'
  BY <1>1, <1>2, <1>3 DEF TypeOK, Record, WentOn, AddRole, AddMember
<1>5. ReqInv' /\ LockInv'
  BY <1>1, <1>2, ReqOn, LockOn DEF Steps, InDao
<1>6. CheckedInv'
  BY <1>1, <1>2, Alone DEF CheckedInv, MailOfOne, Exists, HasMail, WentOn, InDao
<1>7. Away = {req[r].uid} /\ Away' = {}
  BY <1>1, <1>2, <1>5, AwayIs, AwayNext DEF WentOn
<1>8. RoleInv'
  <2> SUFFICES ASSUME ~failed PROVE /\ member'["USER"] = {u \in Uids : Exists(u)'}
                                    /\ \A u \in Uids : Exists(u)' => "USER" \in memberOf'[u]
    BY <1>2, <1>7 DEF RoleInv
  <2>1. Exists(req[r].uid)
    BY <1>1 DEF CheckedInv
  <2> QED
    BY <1>2, <1>3, <1>7, <2>1 DEF RoleInv, Exists, AddRole, AddMember, TypeOK
<1> QED
  BY <1>4, <1>5, <1>6, <1>8

LEMMA AddOrgInv == ASSUME IInv, NEW r \in Requests, AddOrg(r) PROVE IInv'
<1> USE DEF IInv
<1>1. req[r].step = "org" /\ WentOn(r, "done")
  BY AnswerOn DEF AddOrg, Results
<1>2. lock = r /\ lock' = None /\ UNCHANGED failed
  BY DEF AddOrg, Leave
<1>3. req[r].uid \in Uids /\ req[r].org \in Orgs \cup {None}
  BY <1>1 DEF ReqInv, TypeOK
<1>4. /\ UNCHANGED entry
      /\ member' \in [Groups -> SUBSET Uids] /\ memberOf' \in [Uids -> SUBSET Groups]
      /\ member'["USER"] = member["USER"]
      /\ \A v \in Uids : "USER" \in memberOf[v] => "USER" \in memberOf'[v]
  <2>1. CASE req[r].org = None
    BY <2>1 DEF AddOrg, directory, TypeOK
  <2>2. CASE req[r].org # None
    BY <1>3, <2>2, OrgMember DEF AddOrg
  <2> QED
    BY <2>1, <2>2
<1>5. TypeOK'
  BY <1>1, <1>2, <1>4 DEF TypeOK, Record, WentOn
<1>6. ReqInv' /\ LockInv'
  BY <1>1, <1>2, ReqOn, LockOn DEF Steps, InDao
<1>7. CheckedInv'
  BY <1>1, <1>2, <1>4, Alone DEF CheckedInv, MailOfOne, Exists, HasMail, WentOn, InDao
<1>8. Away = {} /\ Away' = {}
  BY <1>1, <1>2, <1>6, AwayIs, AwayNext DEF WentOn
<1>9. RoleInv'
  BY <1>2, <1>4, <1>8 DEF RoleInv, Exists
<1> QED
  BY <1>5, <1>6, <1>7, <1>9

\* A rename moves the entry and its place in USER.
LEMMA RenameInv ==
    ASSUME IInv, NEW u \in Uids, NEW v \in Uids, u # v, Exists(u), ~Exists(v), lock = None,
           RenameEntry(u, v), UNCHANGED failed
    PROVE  /\ entry' \in [Uids -> Entry \cup {None}] /\ member' \in [Groups -> SUBSET Uids]
           /\ memberOf' \in [Uids -> SUBSET Groups]
           /\ MailOfOne'
           /\ ~failed => /\ member'["USER"] = {w \in Uids : Exists(w)'}
                         /\ \A w \in Uids : Exists(w)' => "USER" \in memberOf'[w]
<1> USE DEF IInv, RenameEntry
<1>1. /\ entry' \in [Uids -> Entry \cup {None}] /\ member' \in [Groups -> SUBSET Uids]
      /\ memberOf' \in [Uids -> SUBSET Groups]
  BY DEF TypeOK
<1>2. /\ entry'[v] = entry[u] /\ entry'[u] = None
      /\ \A w \in Uids \ {u, v} : entry'[w] = entry[w]
  BY DEF TypeOK
<1>3. MailOfOne'
  <2> DEFINE from(w) == IF w = v THEN u ELSE w
  <2>1. ASSUME NEW w \in Uids, Exists(w)'
        PROVE  from(w) \in Uids /\ from(w) # v /\ Exists(from(w)) /\ entry[from(w)] = entry'[w]
               /\ w # u
    BY <1>2, <2>1 DEF Exists
  <2>2. \A w, x \in Uids : w # u /\ x # u /\ from(w) = from(x) => w = x
    OBVIOUS
  <2> HIDE DEF from
  <2>3. SUFFICES ASSUME NEW w \in Uids, NEW x \in Uids, Exists(w)', Exists(x)',
                        entry'[w].mail = entry'[x].mail
                 PROVE  w = x
    BY DEF MailOfOne
  <2>4. entry[from(w)].mail = entry[from(x)].mail
    BY <2>1, <2>3
  <2>5. from(w) = from(x)
    BY <2>1, <2>3, <2>4 DEF CheckedInv, MailOfOne
  <2> QED
    BY <2>1, <2>2, <2>3, <2>5
<1>4. ASSUME ~failed
      PROVE  /\ member'["USER"] = {w \in Uids : Exists(w)'}
             /\ \A w \in Uids : Exists(w)' => "USER" \in memberOf'[w]
  <2>1. Away = {}
    BY AccountsAssumption DEF Away, LockInv
  <2>2. /\ member["USER"] = {w \in Uids : Exists(w)}
        /\ \A w \in Uids : Exists(w) => "USER" \in memberOf[w]
    BY <1>4, <2>1 DEF RoleInv
  <2>3. member'["USER"] = (member["USER"] \ {u}) \cup {v}
    BY <2>2 DEF Groups
  <2>4. memberOf'[v] = memberOf[u] /\ \A w \in Uids \ {u, v} : memberOf'[w] = memberOf[w]
    BY DEF TypeOK
  <2>5. \A w \in Uids : Exists(w)' <=> w = v \/ (w # u /\ Exists(w))
    BY <1>2 DEF Exists
  <2>6. member'["USER"] = {w \in Uids : Exists(w)'}
    BY <2>2, <2>3, <2>5
  <2>7. \A w \in Uids : Exists(w)' => "USER" \in memberOf'[w]
    BY <2>2, <2>4, <2>5
  <2> QED
    BY <2>6, <2>7
<1> QED
  BY <1>1, <1>3, <1>4

LEMMA UpdateInv == ASSUME IInv, NEW r \in Requests, Update(r) PROVE IInv'
<1> USE DEF IInv
<1>1. req[r].step = "update" /\ WentOn(r, "check")
  BY StepOn DEF Update, Steps
<1>2. lock = None /\ lock' = r /\ UNCHANGED failed
  BY DEF Update, Enter
<1>3. ReqInv' /\ LockInv'
  BY <1>1, <1>2, ReqOn, LockOn DEF Steps, InDao
<1>4. Away = {} /\ Away' = {}
  BY <1>1, <1>2, <1>3, AwayIs, AwayNext DEF WentOn
<1>5. /\ entry' \in [Uids -> Entry \cup {None}] /\ member' \in [Groups -> SUBSET Uids]
      /\ memberOf' \in [Uids -> SUBSET Groups]
      /\ MailOfOne'
      /\ ~failed => /\ member'["USER"] = {w \in Uids : Exists(w)'}
                    /\ \A w \in Uids : Exists(w)' => "USER" \in memberOf'[w]
  <2>1. CASE UNCHANGED directory
    BY <2>1, <1>4 DEF directory, TypeOK, CheckedInv, MailOfOne, RoleInv, Exists
  <2>2. CASE ~UNCHANGED directory
    BY <1>1, <1>2, <2>2, RenameInv DEF Update, ReqInv
  <2> QED
    BY <2>1, <2>2
<1>6. TypeOK'
  BY <1>1, <1>2, <1>5 DEF TypeOK, Record, WentOn
<1>7. CheckedInv'
  BY <1>1, <1>2, <1>5, Alone DEF CheckedInv, WentOn, InDao
<1>8. RoleInv'
  BY <1>2, <1>4, <1>5 DEF RoleInv
<1> QED
  BY <1>3, <1>6, <1>7, <1>8

LEMMA CheckMailInv == ASSUME IInv, NEW r \in Requests, CheckMail(r) PROVE IInv'
<1> USE DEF IInv
<1>1. PICK to \in {"modify", "done"} :
          /\ req[r].step = "check" /\ WentOn(r, to)
          /\ to = "modify" => lock' = lock /\ HasMail(req[r].data.mail) \subseteq {req[r].to}
          /\ to = "done" => Leave(r)
  <2>1. CASE Step(r, "check", "modify") /\ UNCHANGED lock
             /\ (HasMail(req[r].data.mail) = {} \/ req[r].to \in HasMail(req[r].data.mail))
    <3>1. HasMail(req[r].data.mail) \subseteq {req[r].to}
      BY <2>1 DEF HasMail, CheckedInv, MailOfOne
    <3> QED
      BY <2>1, <3>1, StepOn DEF Steps
  <2>2. ASSUME NEW result \in Results, Answer(r, "check", result), Leave(r)
        PROVE  req[r].step = "check" /\ WentOn(r, "done") /\ Leave(r)
    BY <2>2, AnswerOn
  <2> QED
    BY <2>1, <2>2 DEF CheckMail, Results
<1>2. lock = r /\ UNCHANGED <<entry, member, memberOf, failed>>
  BY <1>1 DEF LockInv, CheckMail, directory
<1>3. ReqInv' /\ LockInv'
  BY <1>1, <1>2, ReqOn, LockOn DEF Steps, InDao, Leave
<1>4. TypeOK'
  BY <1>1, <1>2 DEF TypeOK, Record, WentOn, Leave
<1>5. CheckedInv'
  BY <1>1, <1>2, Alone DEF CheckedInv, MailOfOne, Exists, HasMail, WentOn, InDao
<1>6. Away = {} /\ Away' = {}
  BY <1>1, <1>2, <1>3, AwayIs, AwayNext DEF WentOn, Leave
<1>7. RoleInv'
  BY <1>2, <1>6 DEF RoleInv, Exists
<1> QED
  BY <1>3, <1>4, <1>5, <1>7

LEMMA ModifyInv == ASSUME IInv, NEW r \in Requests, Modify(r) PROVE IInv'
<1> USE DEF IInv
<1>1. PICK to \in {"removeOld", "done"} : req[r].step = "modify" /\ WentOn(r, to)
  <2>1. CASE Step(r, "modify", "removeOld")
    BY <2>1, StepOn DEF Steps
  <2>2. ASSUME NEW result \in Results, Answer(r, "modify", result)
        PROVE  req[r].step = "modify" /\ WentOn(r, "done")
    BY <2>2, AnswerOn
  <2> QED
    BY <2>1, <2>2 DEF Modify, Results
<1>2. lock = r /\ lock' = None /\ UNCHANGED <<member, memberOf, failed>>
  BY DEF Modify, Leave
<1>3. req[r].to \in Uids /\ req[r].data \in Entry /\ req[r].data # None
  BY <1>1, AccountsAssumption DEF ReqInv
<1>4. \/ UNCHANGED entry
      \/ Exists(req[r].to) /\ entry' = [entry EXCEPT ![req[r].to] = req[r].data]
  BY DEF Modify
<1>5. TypeOK'
  BY <1>1, <1>2, <1>3, <1>4 DEF TypeOK, Record, WentOn
<1>6. ReqInv' /\ LockInv'
  BY <1>1, <1>2, ReqOn, LockOn DEF Steps, InDao
<1>7. \A u \in Uids : Exists(u)' <=> Exists(u)
  BY <1>3, <1>4 DEF Exists, TypeOK
<1>8. CheckedInv'
  <2>1. HasMail(req[r].data.mail) \subseteq {req[r].to}
    BY <1>1 DEF CheckedInv
  <2>2. MailOfOne'
    BY <1>3, <1>4, <2>1 DEF CheckedInv, MailOfOne, Exists, HasMail, TypeOK
  <2> QED
    BY <2>2, <1>1, <1>2, Alone DEF CheckedInv, WentOn, InDao
<1>9. Away = {} /\ Away' = {}
  BY <1>1, <1>2, <1>6, AwayIs, AwayNext DEF WentOn
<1>10. RoleInv'
  BY <1>2, <1>7, <1>9 DEF RoleInv
<1> QED
  BY <1>5, <1>6, <1>8, <1>10

LEMMA DeleteUserInv == ASSUME IInv, NEW r \in Requests, DeleteUser(r) PROVE IInv'
<1> USE DEF IInv
<1>1. req[r].step = "delete" /\ WentOn(r, "unbind")
  BY StepOn DEF DeleteUser, Steps
<1>2. lock = None /\ lock' = r /\ UNCHANGED <<entry, failed>>
  BY DEF DeleteUser, Enter, RemoveMember
<1>3. req[r].uid \in Uids /\ "USER" \in Groups
  BY <1>1 DEF ReqInv, Groups
<1>4. TypeOK'
  BY <1>1, <1>2, <1>3 DEF TypeOK, Record, WentOn, DeleteUser, RemoveMember
<1>5. ReqInv' /\ LockInv'
  BY <1>1, <1>2, ReqOn, LockOn DEF Steps, InDao
<1>6. CheckedInv'
  BY <1>1, <1>2, Alone DEF CheckedInv, MailOfOne, Exists, HasMail, WentOn, InDao
<1>7. Away = {} /\ Away' = {req[r].uid}
  BY <1>1, <1>2, <1>5, AwayIs, AwayNext DEF WentOn
<1>8. RoleInv'
  BY <1>2, <1>3, <1>7 DEF RoleInv, Exists, DeleteUser, RemoveMember, TypeOK
<1> QED
  BY <1>4, <1>5, <1>6, <1>8

LEMMA UnbindInv == ASSUME IInv, NEW r \in Requests, Unbind(r) PROVE IInv'
<1> USE DEF IInv
<1>1. req[r].step = "unbind" /\ WentOn(r, "done")
  BY AnswerOn DEF Unbind, Results
<1>2. lock = r /\ lock' = None /\ UNCHANGED failed
  BY DEF Unbind, Leave
<1>3. req[r].uid \in Uids /\ "USER" \in Groups
  BY <1>1 DEF ReqInv, Groups
<1>4. \/ UnbindEntry(req[r].uid)
      \/ ~Exists(req[r].uid) /\ UNCHANGED directory
  BY DEF Unbind
<1>5. TypeOK'
  BY <1>1, <1>2, <1>3, <1>4 DEF TypeOK, Record, WentOn, UnbindEntry, directory
<1>6. ReqInv' /\ LockInv'
  BY <1>1, <1>2, ReqOn, LockOn DEF Steps, InDao
<1>7. /\ entry'[req[r].uid] = None
      /\ \A u \in Uids : u # req[r].uid => entry'[u] = entry[u]
  BY <1>3, <1>4 DEF UnbindEntry, directory, Exists, TypeOK
<1>8. CheckedInv'
  <2>1. MailOfOne'
    BY <1>7 DEF CheckedInv, MailOfOne, Exists
  <2> QED
    BY <2>1, <1>1, <1>2, Alone DEF CheckedInv, WentOn, InDao
<1>9. Away = {req[r].uid} /\ Away' = {}
  BY <1>1, <1>2, <1>6, AwayIs, AwayNext DEF WentOn
<1>10. RoleInv'
  <2>1. member'["USER"] \in {member["USER"], member["USER"] \ {req[r].uid}}
    BY <1>3, <1>4 DEF UnbindEntry, directory
  <2>2. \A u \in Uids : u # req[r].uid => memberOf'[u] = memberOf[u]
    BY <1>4 DEF UnbindEntry, directory, TypeOK
  <2> QED
    BY <1>2, <1>7, <1>9, <2>1, <2>2 DEF RoleInv, Exists
<1> QED
  BY <1>5, <1>6, <1>8, <1>10

LEMMA DirectoryFailsInv == ASSUME IInv, NEW r \in Requests, DirectoryFails(r) PROVE IInv'
<1> USE DEF IInv
<1>1. req[r].step \notin {"new", "done"} /\ WentOn(r, "done")
  BY AnswerOn DEF DirectoryFails, Results
<1>2. UNCHANGED <<entry, member, memberOf>> /\ failed' = TRUE
  BY DEF DirectoryFails, directory
<1>3. lock' = IF lock = r THEN None ELSE lock
  BY DEF DirectoryFails
<1>4. TypeOK'
  BY <1>1, <1>2, <1>3 DEF TypeOK, Record, WentOn
<1>5. ReqInv'
  BY <1>1, ReqOn DEF Steps
<1>6. LockInv'
  BY <1>1, <1>3, AccountsAssumption DEF LockInv, WentOn
<1>7. CheckedInv'
  BY <1>1, <1>2 DEF CheckedInv, MailOfOne, Exists, HasMail, WentOn
<1> QED
  BY <1>2, <1>4, <1>5, <1>6, <1>7 DEF RoleInv

-----------------------------------------------------------------------------
(* Theorems.                                                               *)

\* AccountDaoImpl: whatever the requests do to the directory, inside the lock
\* and outside it, the inductive invariant holds.
THEOREM Invariant == Spec => []IInv
<1>1. IInv /\ [Next]_vars => IInv'
  <2> SUFFICES ASSUME IInv, [Next]_vars PROVE IInv'
    OBVIOUS
  <2>1. ASSUME NEW r \in Requests, Arrive(r) PROVE IInv'
    BY <2>1, CreateUidInv, FindAccountInv, DeleteInv, OutsideEnds DEF Arrive
  <2>2. ASSUME NEW r \in Requests, Proceed(r) PROVE IInv'
    BY <2>2, InsertInv, BindInv, AddRoleInv, AddOrgInv, UpdateInv, CheckMailInv, ModifyInv,
       RemoveOldInv, DeleteUserInv, UnbindInv, DirectoryFailsInv, OutsideEnds DEF Proceed
  <2>3. CASE UNCHANGED vars
    BY <2>3 DEF vars, directory, IInv, TypeOK, ReqInv, LockInv, CheckedInv, MailOfOne, Exists,
                HasMail, RoleInv, Away
  <2> QED
    BY <2>1, <2>2, <2>3 DEF Next
<1> QED
  BY <1>1, InitInv, PTL DEF Spec

\* AccountDaoImpl.insert and update: no two accounts have one mail, whatever
\* creations, updates and renames interleave.
THEOREM MailsAreUnique == Spec => []EmailUnique
<1>1. IInv => EmailUnique
  BY MailCount DEF IInv, TypeOK, CheckedInv
<1> QED
  BY <1>1, Invariant, PTL

\* AccountDaoImpl: the group USER has the accounts as its members whenever no
\* request is in the DAO and the directory has answered.
THEOREM RoleFollowsAccounts == Spec => []RoleMatchesAccounts
<1>1. IInv => RoleMatchesAccounts
  <2> SUFFICES ASSUME IInv, lock = None, ~failed
               PROVE  /\ member["USER"] = {u \in Uids : Exists(u)}
                      /\ \A u \in Uids : Exists(u) => "USER" \in memberOf[u]
    BY DEF RoleMatchesAccounts
  <2>1. Away = {}
    BY AccountsAssumption DEF IInv, LockInv, Away
  <2> QED
    BY <2>1 DEF IInv, RoleInv
<1> QED
  BY <1>1, Invariant, PTL


-----------------------------------------------------------------------------
(* The accounts are changed at once.                                       *)

LEMMA WritesAtOnce ==
    ASSUME IInv, NEW r \in Requests, Bind(r) \/ Update(r) \/ Modify(r) \/ Unbind(r)
    PROVE  Accounts!Next \/ UNCHANGED entry
<1> USE DEF Exists, Accounts!Exists
<1>2. CASE Bind(r)
  <2>1. /\ req[r].step = "bind" /\ req[r].uid \in Uids /\ req[r].data \in Entry
        /\ entry' = [entry EXCEPT ![req[r].uid] = req[r].data]
    BY <1>2 DEF Bind, Step, IInv, ReqInv
  <2>2. ~Exists(req[r].uid) /\ HasMail(req[r].data.mail) = {}
    BY <2>1 DEF IInv, CheckedInv
  <2>3. Accounts!Create(req[r].uid, req[r].data)
    BY <2>1, <2>2 DEF HasMail, Accounts!Create, Accounts!FreeFor
  <2> QED
    BY <2>1, <2>3 DEF Accounts!Next
<1>3. CASE Update(r)
  <2>1. req[r].step = "update" /\ req[r].uid \in Uids /\ req[r].to \in Uids
    BY <1>3 DEF Update, Step, IInv, ReqInv
  <2>2. CASE ~UNCHANGED directory
    <3>1. Accounts!Move(req[r].uid, req[r].to)
      BY <1>3, <2>2 DEF Update, RenameEntry, Accounts!Move
    <3> QED
      BY <2>1, <3>1 DEF Accounts!Next
  <2> QED
    BY <2>2 DEF directory
<1>4. CASE Modify(r)
  <2>1. req[r].step = "modify" /\ req[r].to \in Uids /\ req[r].data \in Entry
    BY <1>4 DEF Modify, IInv, ReqInv
  <2>2. HasMail(req[r].data.mail) \subseteq {req[r].to}
    BY <2>1 DEF IInv, CheckedInv
  <2>3. CASE ~UNCHANGED entry
    <3>1. Exists(req[r].to) /\ entry' = [entry EXCEPT ![req[r].to] = req[r].data]
      BY <1>4, <2>3 DEF Modify
    <3>2. Accounts!Write(req[r].to, req[r].data)
      BY <2>1, <2>2, <3>1 DEF HasMail, Accounts!Write, Accounts!FreeFor
    <3> QED
      BY <2>1, <3>2 DEF Accounts!Next
  <2> QED
    BY <2>3
<1>5. CASE Unbind(r)
  <2>1. req[r].step = "unbind" /\ req[r].uid \in Uids
    BY <1>5 DEF Unbind, IInv, ReqInv
  <2>2. CASE ~UNCHANGED entry
    <3>1. Accounts!Remove(req[r].uid)
      BY <1>5, <2>2 DEF Unbind, UnbindEntry, directory, Accounts!Remove
    <3> QED
      BY <2>1, <3>1 DEF Accounts!Next
  <2> QED
    BY <2>2
<1> QED
  BY <1>2, <1>3, <1>4, <1>5

(* For any number of concurrent requests, accounts are created, renamed,   *)
(* written and removed as if each were done at once, and what was found    *)
(* free when the lock was taken is free when the entry is written:         *)
(* LdapAccounts implements AccountDirectory (AccountDaoImpl).              *)
THEOREM AccountsChangeAtOnce == Spec => AccountsAreAtomic
<1>1. Init => Accounts!Init
  <2>1. Init => entry \in [Uids -> Entry \cup {None}]
    BY AccountsAssumption DEF Init
  <2>2. Init => MailOfOne
    BY InitInv DEF IInv, CheckedInv
  <2> QED
    BY <2>1, <2>2 DEF MailOfOne, Exists, Accounts!Init, Accounts!Exists
<1>2. IInv /\ [Next]_vars => [Accounts!Next]_entry
  <2> SUFFICES ASSUME IInv, Next PROVE Accounts!Next \/ UNCHANGED entry
    BY DEF vars, directory
  <2>1. ASSUME NEW r \in Requests, Arrive(r) PROVE UNCHANGED entry
    BY <2>1 DEF Arrive, CreateUid, FindAccount, FindAccountFails, Delete, AddUserInOrg,
                RemoveUserFromOrg, AddMember, RemoveMember, directory
  <2>2. ASSUME NEW r \in Requests, Proceed(r)
        PROVE  UNCHANGED entry \/ Bind(r) \/ Update(r) \/ Modify(r) \/ Unbind(r)
    BY <2>2 DEF Proceed, Insert, InsertRefused, Refuse, AddRole, AddOrg, RenameRefused, CheckMail,
                RemoveOld, AddNew, DeleteUser, DirectoryFails, AddMember, RemoveMember, directory
  <2> QED
    BY <2>1, <2>2, WritesAtOnce DEF Next
<1> QED
  BY <1>1, <1>2, Invariant, PTL DEF Spec, AccountsAreAtomic, Accounts!Spec
=============================================================================
