-------------------------- MODULE PasswordRecovery --------------------------
(***************************************************************************)
(* Lost passwords in ldapadmin: the requests that mail a link, the         *)
(* sessions that open a link and set a new password, and the task that     *)
(* removes expired tokens, over the table user_token (uid is its primary   *)
(* key, the token is unique).  Every statement is a transaction of its     *)
(* own, and a DELETE or INSERT that changes no row is an error.            *)
(*                                                                         *)
(* Each request generates one token, a fresh UUID: a member of Requests    *)
(* names both.                                                             *)
(***************************************************************************)
EXTENDS Integers

CONSTANTS
    Users,      \* accounts
    Requests,   \* posts of the lost password form, and their tokens
    Sessions,   \* HTTP sessions that open mailed links
    NoToken,    \* no token
    Delay,      \* delayInMilliseconds, in ticks
    MaxTime     \* bound: ticks

ASSUME RecoveryAssumption ==
    /\ NoToken \notin Requests
    /\ Delay \in Nat \ {0}
    /\ MaxTime \in Nat

VARIABLES
    token,      \* user_token: the token in the row of a user, or NoToken
    born,       \* creation_date of a token
    left,       \* history: how a token has left the table
    request,    \* next statement of a request
    account,    \* the users a request has found by email
    mailed,     \* the tokens whose link was mailed
    bean,       \* NewPasswordFormBean of a session: its token, or NoToken
    view,       \* what a session shows; "changed" between its two statements
    password,   \* who has set the password of a user last
    sweep,      \* the users whose token the clean task has still to delete
    cleaning,   \* the clean task is running
    nextRun,    \* time of its next run
    now,
    failed      \* history: a statement has failed on a database that is down

table == <<token, born, left>>
requests == <<request, account, mailed>>
sessions == <<bean, view, password>>
cleaner == <<sweep, cleaning, nextRun>>
vars == <<table, requests, sessions, cleaner, now, failed>>

Owner(r) == CHOOSE u \in Users : account[r] = {u}

TypeOK ==
    /\ token \in [Users -> Requests \cup {NoToken}]
    /\ born \in [Requests -> 0..MaxTime]
    /\ left \in [Requests -> {"not", "replaced", "used", "expired"}]
    /\ request \in [Requests -> {"new", "exist", "delete", "insert", "mail", "sent",
                                 "refused", "error"}]
    /\ account \in [Requests -> SUBSET Users]
    /\ mailed \in SUBSET Requests
    /\ bean \in [Sessions -> Requests \cup {NoToken}]
    /\ view \in [Sessions -> {"none", "newPasswordForm", "changed", "passwordUpdated",
                              "setupError", "updateError"}]
    /\ password \in [Users -> Sessions \cup {"initial"}]
    /\ sweep \in SUBSET Users
    /\ cleaning \in BOOLEAN
    /\ nextRun \in 0..(MaxTime + Delay)
    /\ now \in 0..MaxTime
    /\ failed \in BOOLEAN

Init ==
    /\ token = [u \in Users |-> NoToken]
    /\ born = [r \in Requests |-> 0]
    /\ left = [r \in Requests |-> "not"]
    /\ request = [r \in Requests |-> "new"]
    /\ account = [r \in Requests |-> {}]
    /\ mailed = {}
    /\ bean = [s \in Sessions |-> NoToken]
    /\ view = [s \in Sessions |-> "none"]
    /\ password = [u \in Users |-> "initial"]
    /\ sweep = {}
    /\ cleaning = FALSE
    /\ nextRun = 0
    /\ now = 0
    /\ failed = FALSE

-----------------------------------------------------------------------------
(* UserTokenDao *)

\* DELETE by uid, whatever the token of the row is.
Delete(u, why) ==
    /\ token[u] # NoToken
    /\ token' = [token EXCEPT ![u] = NoToken]
    /\ left' = [left EXCEPT ![token[u]] = why]
    /\ UNCHANGED born

Insert(u, r) ==
    /\ token[u] = NoToken
    /\ token' = [token EXCEPT ![u] = r]
    /\ born' = [born EXCEPT ![r] = now]
    /\ UNCHANGED left

Known(r) == \E u \in Users : token[u] = r

-----------------------------------------------------------------------------
(* PasswordRecoveryFormController.generateToken *)

Goes(r, from, to) == /\ request[r] = from
                     /\ request' = [request EXCEPT ![r] = to]

\* The account is found by email.
Ask(r, u) ==
    /\ Goes(r, "new", "exist")
    /\ account' = [account EXCEPT ![r] = {u}]
    /\ UNCHANGED <<table, mailed, sessions, cleaner, now, failed>>

\* A wrong captcha, an unknown email or an account in PENDING.
Refuse(r) ==
    /\ Goes(r, "new", "refused")
    /\ UNCHANGED <<table, account, mailed, sessions, cleaner, now, failed>>

Exist(r) ==
    /\ Goes(r, "exist", IF token[Owner(r)] # NoToken THEN "delete" ELSE "insert")
    /\ UNCHANGED <<table, account, mailed, sessions, cleaner, now, failed>>

\* Mutant of DeletePrevious: the request ends without a new token.
DeletePreviousOnly(r) ==
    /\ \/ Goes(r, "delete", "sent") /\ Delete(Owner(r), "replaced")
       \/ Goes(r, "delete", "error") /\ token[Owner(r)] = NoToken /\ UNCHANGED table
    /\ UNCHANGED <<account, mailed, sessions, cleaner, now, failed>>

DeletePrevious(r) ==
    /\ \/ Goes(r, "delete", "insert") /\ Delete(Owner(r), "replaced")
       \/ Goes(r, "delete", "error") /\ token[Owner(r)] = NoToken /\ UNCHANGED table
    /\ UNCHANGED <<account, mailed, sessions, cleaner, now, failed>>

InsertToken(r) ==
    /\ \/ Goes(r, "insert", "mail") /\ Insert(Owner(r), r)
       \/ Goes(r, "insert", "error") /\ token[Owner(r)] # NoToken /\ UNCHANGED table
    /\ UNCHANGED <<account, mailed, sessions, cleaner, now, failed>>

\* The page says that the mail was sent, sent or not: MailService logs its errors.
SendChangePasswordURL(r) ==
    /\ Goes(r, "mail", "sent")
    /\ mailed' \in {mailed, mailed \cup {r}}
    /\ UNCHANGED <<table, account, sessions, cleaner, now, failed>>

\* The database does not answer one of the three statements.
RequestFails(r) ==
    /\ \E from \in {"exist", "delete", "insert"} : Goes(r, from, "error")
    /\ failed' = TRUE
    /\ UNCHANGED <<table, account, mailed, sessions, cleaner, now>>

-----------------------------------------------------------------------------
(* NewPasswordFormController *)

Shows(s, v) == view' = [view EXCEPT ![s] = v]

\* setupForm: findUserByToken turns its own NameNotFoundException into a
\* DataServiceException, so an unknown token and a database that is down end
\* alike.  The bean of a link opened before in the session is replaced.
SetupForm(s, r) ==
    /\ r \in mailed
    /\ view[s] # "changed"
    /\ \/ /\ Known(r)
          /\ bean' = [bean EXCEPT ![s] = r]
          /\ Shows(s, "newPasswordForm")
          /\ UNCHANGED failed
       \/ /\ ~Known(r)
          /\ Shows(s, "setupError")
          /\ UNCHANGED <<bean, failed>>
       \/ /\ Shows(s, "setupError")
          /\ failed' = TRUE
          /\ UNCHANGED bean
    /\ UNCHANGED <<table, requests, password, cleaner, now>>

\* newPassword: the uid of the bean is trusted, the token is not looked up.
ChangePassword(s) ==
    /\ bean[s] # NoToken
    /\ view[s] # "changed"
    /\ password' = [password EXCEPT ![Owner(bean[s])] = s]
    /\ Shows(s, "changed")
    /\ UNCHANGED <<table, requests, bean, cleaner, now, failed>>

\* The session is completed on success; after an error its bean is still there.
DeleteToken(s) ==
    /\ view[s] = "changed"
    /\ \/ /\ Delete(Owner(bean[s]), "used")
          /\ Shows(s, "passwordUpdated")
          /\ bean' = [bean EXCEPT ![s] = NoToken]
          /\ UNCHANGED failed
       \/ /\ token[Owner(bean[s])] = NoToken
          /\ Shows(s, "updateError")
          /\ UNCHANGED <<table, bean, failed>>
       \/ /\ Shows(s, "updateError")
          /\ failed' = TRUE
          /\ UNCHANGED <<table, bean>>
    /\ UNCHANGED <<requests, password, cleaner, now>>

-----------------------------------------------------------------------------
(* ExpiredTokenCleanTask, scheduled with a fixed delay after each run *)

Expired(r) == born[r] <= now - Delay

FindBeforeDate ==
    /\ ~cleaning
    /\ now >= nextRun
    /\ cleaning' = TRUE
    /\ \/ /\ sweep' = {u \in Users : token[u] # NoToken /\ Expired(token[u])}
          /\ UNCHANGED failed
       \/ /\ sweep' = {}
          /\ failed' = TRUE
    /\ UNCHANGED <<table, requests, sessions, nextRun, now>>

\* The delete is by uid.  Its errors are logged and the next row is taken.
CleanToken(u) ==
    /\ u \in sweep
    /\ sweep' = sweep \ {u}
    /\ \/ Delete(u, "expired") /\ UNCHANGED failed
       \/ token[u] = NoToken /\ UNCHANGED <<table, failed>>
       \/ failed' = TRUE /\ UNCHANGED table
    /\ UNCHANGED <<requests, sessions, cleaning, nextRun, now>>

\* Mutant of CleanEnds: the next run is a delay late.
CleanEndsLate ==
    /\ cleaning
    /\ sweep = {}
    /\ cleaning' = FALSE
    /\ nextRun' = now + 2 * Delay
    /\ UNCHANGED <<table, requests, sessions, sweep, now, failed>>

CleanEnds ==
    /\ cleaning
    /\ sweep = {}
    /\ cleaning' = FALSE
    /\ nextRun' = now + Delay
    /\ UNCHANGED <<table, requests, sessions, sweep, now, failed>>

\* A tick is far longer than a run of the task: time waits for a run that is
\* due or in progress, not for requests and sessions.
Tick ==
    /\ now < MaxTime
    /\ ~cleaning /\ now < nextRun
    /\ now' = now + 1
    /\ UNCHANGED <<table, requests, sessions, cleaner, failed>>

-----------------------------------------------------------------------------
GenerateToken(r) ==
    \/ \E u \in Users : Ask(r, u)
    \/ Refuse(r) \/ Exist(r) \/ DeletePrevious(r) \/ InsertToken(r)
    \/ SendChangePasswordURL(r) \/ RequestFails(r)

NewPassword(s) ==
    \/ \E r \in Requests : SetupForm(s, r)
    \/ ChangePassword(s) \/ DeleteToken(s)

CleanTask == FindBeforeDate \/ (\E u \in Users : CleanToken(u)) \/ CleanEnds

Next ==
    \/ \E r \in Requests : GenerateToken(r)
    \/ \E s \in Sessions : NewPassword(s)
    \/ CleanTask
    \/ Tick

Spec == Init /\ [][Next]_vars

-----------------------------------------------------------------------------
(* Properties *)

Tokens(u) == {r \in Requests : account[r] = {u}}

\* However the requests of a user interleave (two may both find, delete and
\* insert), a link is only taken from the user for another one: while the
\* database answers and no token of the user was used or expired, a replaced
\* token has a successor in the table or about to be inserted.
LinkIsNotLost ==
    \A u \in Users :
        ~failed /\ (\E r \in Tokens(u) : left[r] = "replaced") =>
            \/ token[u] # NoToken
            \/ \E r \in Tokens(u) : request[r] = "insert" \/ left[r] \in {"used", "expired"}

\* A token is never in the table for twice the delay: the task runs once per
\* delay and takes what is as old as the delay.
TokenAgeBounded ==
    \A u \in Users : token[u] # NoToken /\ ~failed => now - born[token[u]] < 2 * Delay

-----------------------------------------------------------------------------
(* The inductive invariant                                                 *)

\* A request that has found its account, an account that it never changes.
OwnerInv == \A r \in Requests : \/ request[r] \in {"new", "refused"}
                                \/ \E u \in Users : account[r] = {u}

\* Where the token of a request can be: in the row of its own user, and only
\* once its request has inserted it.
TableInv ==
    /\ \A u \in Users : token[u] # NoToken =>
           /\ account[token[u]] = {u}
           /\ left[token[u]] = "not"
           /\ request[token[u]] \in {"mail", "sent"}
    /\ \A r \in Requests : left[r] # "not" => request[r] \in {"mail", "sent"}

\* A session knows only tokens that were mailed.
SessionInv ==
    /\ \A r \in mailed : request[r] = "sent"
    /\ \A s \in Sessions : bean[s] # NoToken => bean[s] \in mailed
    /\ \A s \in Sessions : view[s] = "changed" => bean[s] # NoToken

\* Time never passes a run that is due, so the next run is at most a delay away.
ClockInv == /\ now <= nextRun /\ nextRun <= now + Delay
            /\ cleaning => nextRun = now

\* What the last run has left was younger than the delay; what this run has not
\* in its sweep is younger now.
AgeInv ==
    ~failed => \A u \in Users : token[u] # NoToken =>
        /\ born[token[u]] > nextRun - 2 * Delay
        /\ cleaning /\ u \notin sweep => born[token[u]] > now - Delay

IInv == TypeOK /\ OwnerInv /\ TableInv /\ SessionInv /\ LinkIsNotLost /\ ClockInv /\ AgeInv

=============================================================================
