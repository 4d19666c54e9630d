---------------------- MODULE PasswordRecovery_proofs ----------------------
(***************************************************************************)
(* Proofs about PasswordRecovery, for any users, requests, sessions and    *)
(* delay: a link is only taken for another one, and no token grows older   *)
(* than twice the delay.                                                   *)
(***************************************************************************)
EXTENDS PasswordRecovery, TLAPS

\* The table is empty at first.
LEMMA InitInv == Init => IInv
<1> SUFFICES ASSUME Init PROVE IInv
  OBVIOUS
<1>1. TypeOK
  <2>1. 0 \in 0..MaxTime /\ 0 \in 0..(MaxTime + Delay)
    BY RecoveryAssumption
  <2> QED
    BY <2>1 DEF Init, TypeOK
<1>2. OwnerInv /\ TableInv /\ SessionInv
  BY DEF Init, OwnerInv, TableInv, SessionInv
<1>3. LinkIsNotLost
  BY DEF Init, LinkIsNotLost, Tokens
<1>4. ClockInv /\ AgeInv
  BY RecoveryAssumption DEF Init, ClockInv, AgeInv
<1> QED
  BY <1>1, <1>2, <1>3, <1>4 DEF IInv

\* The account of a request that has found one is its only account.
LEMMA OwnerIs ==
    ASSUME OwnerInv, NEW r \in Requests, request[r] \notin {"new", "refused"}
    PROVE  Owner(r) \in Users /\ account[r] = {Owner(r)}
<1>1. PICK u \in Users : account[r] = {u}
  BY DEF OwnerInv
<1> QED
  BY <1>1 DEF Owner

\* A user has a link, is about to have one, or has lost it for a reason.
LinkOf(u) ==
    \/ token[u] # NoToken
    \/ \E r \in Tokens(u) : request[r] = "insert" \/ left[r] \in {"used", "expired"}

-----------------------------------------------------------------------------
(* The statements of a request.                                            *)

\* A step that leaves the table alone and inserts nothing keeps what is said of
\* the time and the tokens.
LEMMA SameTable ==
    ASSUME ClockInv, AgeInv, UNCHANGED <<table, cleaner, now>>, failed => failed'
    PROVE  ClockInv' /\ AgeInv'
BY DEF ClockInv, AgeInv, table, cleaner

\* Nor does one that changes no request lose a link.
LEMMA SameLinks ==
    ASSUME LinkIsNotLost, UNCHANGED <<table, requests>>, failed => failed'
    PROVE  LinkIsNotLost'
<1> SUFFICES ASSUME NEW u \in Users, ~failed', NEW q \in Requests, account'[q] = {u},
                    left'[q] = "replaced"
             PROVE  LinkOf(u)'
  BY DEF LinkIsNotLost, Tokens, LinkOf
<1>1. LinkOf(u)
  BY DEF LinkIsNotLost, Tokens, LinkOf, table, requests
<1> QED
  BY <1>1 DEF LinkOf, Tokens, table, requests

LEMMA AskInv ==
    ASSUME IInv, NEW r \in Requests,
           \/ Refuse(r) \/ Exist(r) \/ SendChangePasswordURL(r) \/ RequestFails(r)
           \/ \E u \in Users : Ask(r, u)
    PROVE  IInv'
<1> USE DEF IInv, Ask, Refuse, Exist, SendChangePasswordURL, RequestFails, Goes
<1>1. TypeOK'
  <2>1. request' \in [Requests -> {"new", "exist", "delete", "insert", "mail", "sent",
                                   "refused", "error"}]
    BY DEF TypeOK
  <2>2. account' \in [Requests -> SUBSET Users] /\ mailed' \in SUBSET Requests
    BY DEF TypeOK
  <2>3. failed' \in BOOLEAN
    BY DEF TypeOK
  <2> QED
    BY <2>1, <2>2, <2>3 DEF TypeOK, table, sessions, cleaner
<1>2. OwnerInv'
  BY DEF OwnerInv, TypeOK
<1>3. TableInv'
  BY DEF TableInv, TypeOK, table
<1>4. SessionInv'
  BY DEF SessionInv, TypeOK, sessions
<1>5. LinkIsNotLost'
  <2> SUFFICES ASSUME NEW u \in Users, ~failed', NEW q \in Requests, account'[q] = {u},
                      left'[q] = "replaced"
               PROVE  LinkOf(u)'
    BY DEF LinkIsNotLost, Tokens, LinkOf
  <2>1. account[q] = {u} /\ left[q] = "replaced" /\ ~failed
    BY DEF TableInv, TypeOK, table
  <2>2. LinkOf(u)
    BY <2>1 DEF LinkIsNotLost, Tokens, LinkOf
  <2>3. \A p \in Requests : account[p] = {u} /\ (request[p] = "insert" \/ left[p] # "not") =>
            account'[p] = {u} /\ left'[p] = left[p] /\ (request[p] = "insert" => request'[p] = "insert")
    BY <2>1 DEF TableInv, TypeOK, table
  <2> QED
    BY <2>2, <2>3 DEF LinkOf, Tokens, table
<1>6. ClockInv' /\ AgeInv'
  BY SameTable
<1> QED
  BY <1>1, <1>2, <1>3, <1>4, <1>5, <1>6

LEMMA DeletePreviousInv ==
    ASSUME IInv, NEW r \in Requests, DeletePrevious(r) PROVE IInv'
<1> USE DEF IInv, DeletePrevious, Goes, Delete
<1>0. Owner(r) \in Users /\ account[r] = {Owner(r)}
  BY OwnerIs
<1>1. TypeOK'
  BY <1>0 DEF TypeOK, table, sessions, cleaner
<1>2. OwnerInv'
  BY DEF OwnerInv, TypeOK
<1>3. TableInv'
  BY <1>0 DEF TableInv, TypeOK, table
<1>4. SessionInv'
  BY DEF SessionInv, TypeOK, sessions
<1>5. LinkIsNotLost'
  <2> SUFFICES ASSUME NEW u \in Users, ~failed', NEW q \in Requests, account'[q] = {u},
                      left'[q] = "replaced"
               PROVE  LinkOf(u)'
    BY DEF LinkIsNotLost, Tokens, LinkOf
  <2>1. CASE u = Owner(r) /\ request'[r] = "insert"
    BY <1>0, <2>1 DEF LinkOf, Tokens
  <2>2. CASE u = Owner(r) /\ request'[r] = "error" /\ UNCHANGED table
    <3>1. LinkOf(u)
      BY <2>2 DEF LinkOf, Tokens, LinkIsNotLost, table
    <3>2. \A p \in Requests : request[p] = "insert" => request'[p] = "insert"
      BY DEF TypeOK
    <3> QED
      BY <2>2, <3>1, <3>2 DEF LinkOf, Tokens, table
  <2>3. CASE u # Owner(r)
    <3>1. \A p \in Requests : account[p] = {u} => left'[p] = left[p] /\ request'[p] = request[p]
      BY <1>0, <2>3 DEF TypeOK, TableInv, table
    <3>2. token'[u] = token[u]
      BY <1>0, <2>3 DEF TypeOK, table
    <3> QED
      BY <3>1, <3>2 DEF LinkOf, Tokens, LinkIsNotLost
  <2> QED
    BY <2>1, <2>2, <2>3 DEF TypeOK
<1>6. ClockInv' /\ AgeInv'
  BY <1>0 DEF ClockInv, AgeInv, TypeOK, cleaner, table
<1> QED
  BY <1>1, <1>2, <1>3, <1>4, <1>5, <1>6

LEMMA InsertTokenInv ==
    ASSUME IInv, NEW r \in Requests, InsertToken(r) PROVE IInv'
<1> USE DEF IInv, InsertToken, Goes, Insert
<1>0. Owner(r) \in Users /\ account[r] = {Owner(r)}
  BY OwnerIs
<1>1. TypeOK'
  BY <1>0 DEF TypeOK, table, sessions, cleaner
<1>2. OwnerInv'
  BY DEF OwnerInv, TypeOK
<1>3. TableInv'
  BY <1>0 DEF TableInv, TypeOK, table
<1>4. SessionInv'
  BY DEF SessionInv, TypeOK, sessions
<1>5. LinkIsNotLost'
  <2> SUFFICES ASSUME NEW u \in Users, ~failed', NEW q \in Requests, account'[q] = {u},
                      left'[q] = "replaced"
               PROVE  LinkOf(u)'
    BY DEF LinkIsNotLost, Tokens, LinkOf
  <2>1. CASE u = Owner(r)
    BY <1>0, <2>1, RecoveryAssumption DEF LinkOf, TypeOK, table
  <2>2. CASE u # Owner(r)
    <3>1. \A p \in Requests : account[p] = {u} => left'[p] = left[p] /\ request'[p] = request[p]
      BY <1>0, <2>2 DEF TypeOK, table
    <3>2. token'[u] = token[u]
      BY <1>0, <2>2 DEF TypeOK, table
    <3> QED
      BY <3>1, <3>2 DEF LinkOf, Tokens, LinkIsNotLost
  <2> QED
    BY <2>1, <2>2
<1>6. ClockInv' /\ AgeInv'
  BY <1>0, RecoveryAssumption DEF ClockInv, AgeInv, TypeOK, TableInv, cleaner, table
<1> QED
  BY <1>1, <1>2, <1>3, <1>4, <1>5, <1>6

-----------------------------------------------------------------------------
(* Sessions.                                                               *)

\* A session that opens a link or sets a password leaves the table alone.
LEMMA OpenInv ==
    ASSUME IInv, NEW s \in Sessions, ChangePassword(s) \/ \E r \in Requests : SetupForm(s, r)
    PROVE  IInv'
<1> USE DEF IInv, ChangePassword, SetupForm, Shows
<1>1. UNCHANGED <<table, requests, cleaner, now>> /\ (failed => failed')
  BY DEF TypeOK
<1>2. ASSUME ChangePassword(s) PROVE Owner(bean[s]) \in Users
  BY <1>2, OwnerIs DEF SessionInv, TypeOK
<1>3. TypeOK'
  <2>1. bean' \in [Sessions -> Requests \cup {NoToken}] /\ failed' \in BOOLEAN
    BY DEF TypeOK
  <2>2. view' \in [Sessions -> {"none", "newPasswordForm", "changed", "passwordUpdated",
                                "setupError", "updateError"}]
    BY DEF TypeOK
  <2>3. password' \in [Users -> Sessions \cup {"initial"}]
    BY <1>2 DEF TypeOK
  <2> QED
    BY <1>1, <2>1, <2>2, <2>3 DEF TypeOK, table, requests, cleaner
<1>4. OwnerInv' /\ TableInv'
  BY <1>1 DEF OwnerInv, TableInv, table, requests
<1>5. SessionInv'
  BY RecoveryAssumption DEF SessionInv, TypeOK, requests
<1>6. LinkIsNotLost'
  BY <1>1, SameLinks
<1>7. ClockInv' /\ AgeInv'
  BY <1>1, SameTable
<1> QED
  BY <1>3, <1>4, <1>5, <1>6, <1>7

\* The token that goes from a row is the one of that user.
LEMMA GoneInv ==
    ASSUME IInv, NEW u \in Users, NEW why \in {"used", "expired"}, Delete(u, why),
           UNCHANGED <<requests, failed>>
    PROVE  OwnerInv' /\ TableInv' /\ LinkIsNotLost'
<1> USE DEF IInv, Delete, requests
<1>1. OwnerInv'
  BY DEF OwnerInv
<1>2. TableInv'
  BY DEF TableInv, TypeOK
<1>3. LinkIsNotLost'
  <2> SUFFICES ASSUME NEW v \in Users, ~failed', NEW q \in Requests, account'[q] = {v},
                      left'[q] = "replaced"
               PROVE  LinkOf(v)'
    BY DEF LinkIsNotLost, Tokens, LinkOf
  <2>1. CASE v = u
    <3>1. token[u] \in Tokens(u) /\ left'[token[u]] = why
      BY DEF Tokens, TypeOK, TableInv
    <3> QED
      BY <2>1, <3>1 DEF LinkOf, Tokens
  <2>2. CASE v # u
    <3>1. \A p \in Requests : account[p] = {v} => left'[p] = left[p]
      BY <2>2 DEF TypeOK, TableInv
    <3>2. token'[v] = token[v]
      BY <2>2 DEF TypeOK
    <3> QED
      BY <3>1, <3>2 DEF LinkOf, Tokens, LinkIsNotLost
  <2> QED
    BY <2>1, <2>2
<1> QED
  BY <1>1, <1>2, <1>3

LEMMA DeleteTokenInv ==
    ASSUME IInv, NEW s \in Sessions, DeleteToken(s) PROVE IInv'
<1> USE DEF IInv, DeleteToken, Shows
<1>0. Owner(bean[s]) \in Users
  BY OwnerIs DEF SessionInv, TypeOK
<1>1. TypeOK'
  BY <1>0 DEF TypeOK, Delete, table, requests, cleaner
<1>2. SessionInv'
  BY DEF SessionInv, TypeOK, requests
<1>3. OwnerInv' /\ TableInv' /\ LinkIsNotLost'
  <2>1. CASE Delete(Owner(bean[s]), "used") /\ UNCHANGED failed
    BY <1>0, <2>1, GoneInv
  <2>2. CASE UNCHANGED table /\ (failed => failed')
    BY <2>2, SameLinks DEF OwnerInv, TableInv, table, requests
  <2> QED
    BY <2>1, <2>2
<1>4. ClockInv' /\ AgeInv'
  BY <1>0 DEF ClockInv, AgeInv, TypeOK, Delete, cleaner, table
<1> QED
  BY <1>1, <1>2, <1>3, <1>4

-----------------------------------------------------------------------------
(* The clean task and the time.                                            *)

\* The steps that begin and end a run, and a tick.
LEMMA ScheduleInv ==
    ASSUME IInv, FindBeforeDate \/ CleanEnds \/ Tick PROVE IInv'
<1> USE DEF IInv, FindBeforeDate, CleanEnds, Tick
<1>1. UNCHANGED <<table, requests, sessions>> /\ (failed => failed')
  BY DEF TypeOK
<1>2. TypeOK'
  <2>1. sweep' \in SUBSET Users /\ cleaning' \in BOOLEAN /\ failed' \in BOOLEAN
    BY DEF TypeOK, cleaner
  <2>2. nextRun' \in 0..(MaxTime + Delay) /\ now' \in 0..MaxTime
    BY RecoveryAssumption DEF TypeOK, cleaner
  <2> QED
    BY <1>1, <2>1, <2>2 DEF TypeOK, table, requests, sessions
<1>3. OwnerInv' /\ TableInv' /\ SessionInv' /\ LinkIsNotLost'
  BY <1>1, SameLinks DEF OwnerInv, TableInv, SessionInv, table, requests, sessions
<1>4. ClockInv'
  BY RecoveryAssumption DEF ClockInv, TypeOK, cleaner
<1>5. AgeInv'
  BY RecoveryAssumption DEF AgeInv, ClockInv, TypeOK, Expired, table, cleaner
<1> QED
  BY <1>2, <1>3, <1>4, <1>5

LEMMA CleanTokenInv ==
    ASSUME IInv, NEW u \in Users, CleanToken(u) PROVE IInv'
<1> USE DEF IInv, CleanToken
<1>1. TypeOK'
  BY DEF TypeOK, Delete, table, requests, sessions
<1>2. SessionInv'
  BY DEF SessionInv, requests, sessions
<1>3. OwnerInv' /\ TableInv' /\ LinkIsNotLost'
  <2>1. CASE Delete(u, "expired") /\ UNCHANGED failed
    BY <2>1, GoneInv
  <2>2. CASE UNCHANGED table /\ (failed => failed')
    BY <2>2, SameLinks DEF OwnerInv, TableInv, table, requests
  <2> QED
    BY <2>1, <2>2
<1>4. ClockInv'
  BY DEF ClockInv
<1>5. AgeInv'
  BY DEF AgeInv, TypeOK, Delete, table
<1> QED
  BY <1>1, <1>2, <1>3, <1>4, <1>5

-----------------------------------------------------------------------------
(* Theorems.                                                               *)

\* Whatever the requests, the sessions and the clean task do to the table, the
\* inductive invariant holds.
THEOREM Invariant == Spec => []IInv
<1>1. IInv /\ [Next]_vars => IInv'
  <2> SUFFICES ASSUME IInv, [Next]_vars PROVE IInv'
    OBVIOUS
  <2>1. ASSUME NEW r \in Requests, GenerateToken(r) PROVE IInv'
    BY <2>1, AskInv, DeletePreviousInv, InsertTokenInv DEF GenerateToken
  <2>2. ASSUME NEW s \in Sessions, NewPassword(s) PROVE IInv'
    BY <2>2, OpenInv, DeleteTokenInv DEF NewPassword
  <2>3. CASE CleanTask
    BY <2>3, ScheduleInv, CleanTokenInv DEF CleanTask
  <2>4. CASE Tick
    BY <2>4, ScheduleInv
  <2>5. CASE UNCHANGED vars
    <3>1. ClockInv' /\ AgeInv' /\ LinkIsNotLost'
      BY <2>5, SameTable, SameLinks DEF vars, IInv
    <3>2. OwnerInv' /\ TableInv' /\ SessionInv'
      BY <2>5 DEF vars, table, requests, sessions, IInv, OwnerInv, TableInv, SessionInv
    <3>3. TypeOK'
      BY <2>5 DEF vars, table, requests, sessions, cleaner, IInv, TypeOK
    <3> QED
      BY <3>1, <3>2, <3>3 DEF IInv
  <2> QED
    BY <2>1, <2>2, <2>3, <2>4, <2>5 DEF Next
<1> QED
  BY <1>1, InitInv, PTL DEF Spec

\* generateToken: two requests of a user may both find, delete and insert, and
\* still a link is only taken from the user for another one.
THEOREM LinksAreReplaced == Spec => []LinkIsNotLost
<1>1. IInv => LinkIsNotLost
  BY DEF IInv
<1> QED
  BY <1>1, Invariant, PTL

\* ExpiredTokenCleanTask: while the database answers, no token is in the table
\* for twice the delay.
THEOREM TokensExpire == Spec => []TokenAgeBounded
<1>1. IInv => TokenAgeBounded
  <2> SUFFICES ASSUME IInv, NEW u \in Users, token[u] # NoToken, ~failed
               PROVE  now - born[token[u]] < 2 * Delay
    BY DEF TokenAgeBounded
  <2>1. born[token[u]] > nextRun - 2 * Delay /\ now <= nextRun
    BY DEF IInv, AgeInv, ClockInv
  <2>2. born[token[u]] \in Nat /\ nextRun \in Nat /\ now \in Nat /\ Delay \in Nat
    BY RecoveryAssumption DEF IInv, TypeOK
  <2> QED
    BY <2>1, <2>2
<1> QED
  BY <1>1, Invariant, PTL

=============================================================================
