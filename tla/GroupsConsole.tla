--------------------------- MODULE GroupsConsole ---------------------------
(***************************************************************************)
(* A console of ldapadmin (privateui/js/controllers.js) over LdapGroups:   *)
(* it loads the groups once, and then keeps its copy in step with the      *)
(* directory by making on it, when a request is answered, the changes that *)
(* it asked for.  The boxes of the "Roles" menu say of each group whether  *)
(* all, some or none of the selected users are in it; what is sent is the  *)
(* difference with what they said when the menu was opened.  Other         *)
(* administrators use consoles of their own.                               *)
(*                                                                         *)
(* The administrator does not wait for an answer.  The handlers that       *)
(* rename or delete read the route ($routeParams, one object for all       *)
(* pages) and the form when the answer comes: by then it may be the page   *)
(* of any group or user, or of none, and the form may hold another name.   *)
(*                                                                         *)
(* Abstracted: the tree of the groups, and the list of the users, which    *)
(* may or may not hold the user of the page.  Two entries that the copy    *)
(* has under one name are kept as one.  Of the virtual group TEMPORARY     *)
(* there is no trace.                                                      *)
(***************************************************************************)
EXTENDS LdapGroups

CONSTANTS
    Selections,    \* sets of users that get selected
    Ticked,        \* groups whose boxes get ticked
    Hidden,        \* users that UserRule protects: never shown, nor changed
    Shared         \* requests that other administrators may use too

\* What a request of the console was for.
Asked == [kind : {"create", "rename", "delete"}, cn : Groups, to : Groups]
            \cup [kind : {"apply"}, users : SUBSET Users, put : SUBSET Groups, del : SUBSET Groups]
            \cup [kind : {"createUser", "saveUser", "deleteUser", "renameUser"},
                 user : Users, to : Users]

ASSUME ConsoleAssumption ==
    /\ Selections \subseteq SUBSET Users /\ Ticked \subseteq Groups /\ Shared \subseteq Requests
    /\ Default \in Protected   \* protectedGroupList of webmvc-config.xml
    /\ Hidden \subseteq Users
    /\ None \notin Asked \cup Groups \cup Users

VARIABLES
    loaded,    \* $rootScope.groups has come
    known,     \* names of the groups in it
    shown,     \* shown[g]: the users of group g in it
    picked,    \* users the menu was opened for, none if it is closed
    boxes,     \* user_groups: hasUsers of each group
    original,  \* original_groups
    asked,     \* asked[r]: what the success handler of r will do, None if no handler waits
    alone,     \* nobody and nothing has got in the way since the groups were loaded:
               \* no other administrator or request, no refusal, no page left early
    created    \* users created by this console, under all their names

menu == <<picked, boxes, original>>
console == <<loaded, known, shown, menu, asked, alone, created>>
cvars == <<vars, console>>

Boxes == {"all", "some", "none"}
ConsoleTypeOK ==
    /\ loaded \in BOOLEAN /\ alone \in BOOLEAN
    /\ known \subseteq Groups /\ shown \in [Groups -> SUBSET Users]
    /\ picked \subseteq Users /\ created \subseteq Users
    /\ boxes \in [Groups -> Boxes] /\ original \in [Groups -> Boxes]
    /\ asked \in [Requests -> Asked \cup {None}]

Closed == [g \in Groups |-> "none"]

CInit ==
    /\ Init
    /\ loaded = FALSE /\ known = {} /\ shown = [g \in Groups |-> {}]
    /\ picked = {} /\ boxes = Closed /\ original = Closed
    /\ asked = [r \in Requests |-> None]
    /\ alone = FALSE /\ created = {}

Busy == \E r \in Requests : pc[r] \in Running \/ asked[r] # None

-----------------------------------------------------------------------------
\* GroupsCtrl: the groups and their members, as findAll answers, which leaves
\* protected users out.
LoadGroups ==
    /\ ~loaded /\ loaded' = TRUE
    /\ known' = exists
    /\ shown' = [g \in Groups |-> IF g \in exists THEN members[g] \ Hidden ELSE {}]
    /\ alone' = ~Busy
    /\ UNCHANGED <<vars, menu, asked, created>>

\* hasUsers
HasUsers(users, in) ==
    IF users \cap in = {} THEN "none" ELSE IF users \subseteq in THEN "all" ELSE "some"

\* initGroups: the boxes of the selected users.
InitGroups(users) ==
    /\ loaded
    /\ picked' = users
    /\ boxes' = [g \in Groups |-> IF g \in known THEN HasUsers(users, shown[g]) ELSE "none"]
    /\ original' = boxes'
    /\ UNCHANGED <<vars, loaded, known, shown, asked, alone, created>>

\* selectGroup: a box is ticked for all, then for none.
SelectGroup(g) ==
    /\ picked # {} /\ g \in known
    /\ boxes' = [boxes EXCEPT ![g] = IF @ = "all" THEN "none" ELSE "all"]
    /\ UNCHANGED <<vars, loaded, known, shown, picked, original, asked, alone, created>>

\* A request is sent; the console does not wait for the answer.
Send(r, what) ==
    /\ loaded
    /\ asked' = [asked EXCEPT ![r] = what]
    /\ alone' = (alone /\ ~Busy)
    /\ created' = IF \/ what.kind = "createUser"
                     \/ what.kind = "renameUser" /\ what.user \in created
                  THEN created \cup {what.to} ELSE created
    /\ UNCHANGED <<loaded, known, shown>>

Turned(box) == {g \in Groups : boxes[g] # original[g] /\ boxes[g] = box}

\* postGroups: what has changed in the boxes, for the users of the menu.
Apply(r) ==
    /\ picked # {}
    /\ LET b == [users |-> picked, put |-> Turned("all"), del |-> Turned("none")]
       IN /\ UpdateUsers(r, b)
          /\ Send(r, [kind |-> "apply", users |-> b.users, put |-> b.put, del |-> b.del])
    /\ picked' = {} /\ boxes' = Closed /\ original' = Closed

CreateGroup(r, cn) ==
    Create(r, cn) /\ Send(r, [kind |-> "create", cn |-> cn, to |-> cn]) /\ UNCHANGED menu
EditGroup(r, cn, to) ==
    /\ cn \in known
    /\ Rename(r, cn, to) /\ Send(r, [kind |-> "rename", cn |-> cn, to |-> to]) /\ UNCHANGED menu
RemoveGroup(r, cn) ==
    /\ cn \in known
    /\ Delete(r, cn) /\ Send(r, [kind |-> "delete", cn |-> cn, to |-> cn]) /\ UNCHANGED menu

\* Of users: UsersController refuses what is asked of protected ones.
AddUser(r, u) ==
    /\ u \notin Hidden
    /\ CreateUser(r, u) /\ Send(r, [kind |-> "createUser", user |-> u, to |-> u]) /\ UNCHANGED menu
RemoveUser(r, u) ==
    /\ u \notin Hidden
    /\ DeleteUser(r, u) /\ Send(r, [kind |-> "deleteUser", user |-> u, to |-> u]) /\ UNCHANGED menu
EditUser(r, u, to) ==
    /\ u \notin Hidden /\ u # to
    /\ RenameUser(r, u, to) /\ Send(r, [kind |-> "renameUser", user |-> u, to |-> to]) /\ UNCHANGED menu

\* A user is saved with the uid it had: no group is changed.
SaveUser(r, u) ==
    /\ u \notin Hidden
    /\ UpdateUsers(r, [users |-> {}, put |-> {}, del |-> {}])
    /\ Send(r, [kind |-> "saveUser", user |-> u, to |-> u]) /\ UNCHANGED menu

-----------------------------------------------------------------------------
(* Success handlers.                                                       *)

\* Mutant: the users are not taken out of the groups they were removed from.
AppliedUnion(a) ==
    /\ shown' = [g \in Groups |-> IF g \in a.put THEN shown[g] \cup a.users ELSE shown[g]]
    /\ UNCHANGED known

(* postGroups: _.union and _.difference.  A group that is not known any    *)
(* more raises, and the rest is left as it was.                            *)
Applied(a) ==
    /\ \E put \in SUBSET (a.put \cap known), del \in SUBSET (a.del \cap known) :
          /\ a.put \subseteq known => put = a.put
          /\ a.put \cup a.del \subseteq known => del = a.del
          /\ ~(a.put \subseteq known) => del = {}
          /\ shown' = [g \in Groups |->
                         ((IF g \in put THEN shown[g] \cup a.users ELSE shown[g])
                             \ (IF g \in del THEN a.users ELSE {}))]
    /\ UNCHANGED known

\* GroupCreateCtrl
Created(cn) ==
    /\ known' = known \cup {cn}
    /\ shown' = [shown EXCEPT ![cn] = {}]

\* GroupEditCtrl: the group of the page gets the name in the form, and keeps
\* the users of the copy.
Renamed(page, to) ==
    IF page \in known
    THEN /\ known' = (known \ {page}) \cup {to}
         /\ shown' = [g \in Groups |-> IF g = to THEN shown[page]
                                       ELSE IF g = page THEN {} ELSE shown[g]]
    ELSE UNCHANGED <<known, shown>>

\* deleteGroup: splice, of the group of the page.
Deleted(page) ==
    IF page \in known
    THEN known' = known \ {page} /\ shown' = [shown EXCEPT ![page] = {}]
    ELSE UNCHANGED <<known, shown>>

(* UserEditCtrl: the user of the page leaves all groups, or has the uid in *)
(* the form in them.  A list of the users that has not come raises before; *)
(* one that lacks the user of the page keeps the groups from a new uid.    *)
Replaced(page, by, listed) ==
    /\ shown' = [g \in Groups |-> IF listed /\ page \in shown[g]
                                  THEN (shown[g] \ {page}) \cup by ELSE shown[g]]
    /\ UNCHANGED known

Stays(same) == alone' = (alone /\ same)

\* The page and the form are those of the moment of the answer.
Succeeded(r) ==
    LET a == asked[r]
    IN /\ asked[r] # None /\ pc[r] = "ok"
       /\ \/ a.kind = "apply" /\ Applied(a) /\ UNCHANGED alone
          \/ a.kind = "create" /\ Created(a.cn) /\ UNCHANGED alone
          \/ a.kind = "createUser" /\ UNCHANGED <<known, shown, alone>>
          \/ \E page \in Groups \cup {None} :
                \/ /\ a.kind = "rename"
                   /\ \E to \in Groups : Renamed(page, to) /\ Stays(page = a.cn /\ to = a.to)
                \/ a.kind = "delete" /\ Deleted(page) /\ Stays(page = a.cn)
          \/ \E page \in Users \cup {None}, listed \in BOOLEAN :
                \/ /\ a.kind \in {"saveUser", "renameUser"}
                   /\ \E to \in Users :
                         /\ Replaced(page, {to}, listed)
                         /\ Stays(page = a.user /\ to = a.to /\ listed)
                \/ a.kind = "deleteUser" /\ Replaced(page, {}, listed) /\ Stays(page = a.user /\ listed)
       /\ asked' = [asked EXCEPT ![r] = None]
       /\ UNCHANGED <<vars, loaded, menu, created>>

\* Only an error is shown, whatever part of the request was done.
Refused(r) ==
    /\ asked[r] # None /\ pc[r] \in {"refused", "failed"}
    /\ asked' = [asked EXCEPT ![r] = None]
    /\ alone' = FALSE
    /\ UNCHANGED <<vars, loaded, known, shown, menu, created>>

\* Another administrator.
OtherAsks(r) ==
    /\ r \in Shared /\ Arrivals(r)
    /\ alone' = FALSE
    /\ UNCHANGED <<loaded, known, shown, menu, asked, created>>

Clicks ==
    \/ LoadGroups
    \/ \E users \in Selections : InitGroups(users)
    \/ \E g \in Ticked : SelectGroup(g)
    \/ \E r \in Requests :
          \/ Apply(r)
          \/ \E cn \in Groups :
                CreateGroup(r, cn) \/ RemoveGroup(r, cn) \/ (\E to \in Groups : EditGroup(r, cn, to))
          \/ \E u \in Users :
                \/ AddUser(r, u) \/ RemoveUser(r, u) \/ SaveUser(r, u)
                \/ \E to \in Users : EditUser(r, u, to)

CNext ==
    \/ Clicks
    \/ \E r \in Requests :
          \/ Succeeded(r) \/ Refused(r) \/ OtherAsks(r)
          \/ Serve(r) /\ UNCHANGED console

CSpec == CInit /\ [][CNext]_cvars

\* A thread that serves a request goes on.
CFairSpec == CSpec /\ \A r \in Requests : WF_cvars(Serve(r) /\ UNCHANGED console)

-----------------------------------------------------------------------------
(* Properties.                                                             *)

(* An administrator who works alone, makes one request after the other,    *)
(* none of them refused, and stays on the page of each, its form untouched *)
(* and the users loaded, until it is answered, sees the directory as it    *)
(* is, without ever reading it again; but protected users are never shown, *)
(* and users the console has created are in the default group only after a *)
(* reload (the success handlers of controllers.js against the loops of     *)
(* GroupDaoImpl).                                                          *)
ConsoleAgrees ==
    (loaded /\ alone /\ ~Busy) =>
        /\ known = exists
        /\ \A g \in known :
              /\ shown[g] \subseteq members[g]
              /\ members[g] \ shown[g] \subseteq Hidden \cup (IF g = Default THEN created ELSE {})
-----------------------------------------------------------------------------
(* The inductive invariant.  While the console is alone, at most one       *)
(* request is served or has still to be applied to the copy: the copy is   *)
(* behind the directory by what that request has done so far.              *)

\* A copy of group g that the directory has as `now`.
Shows(copy, g, now) == /\ copy \subseteq now
                       /\ now \ copy \subseteq Hidden \cup (IF g = Default THEN created ELSE {})
Same == \A g \in exists : Shows(shown[g], g, members[g])

AskedInv ==
    \A r \in Requests :
        /\ pc[r] = "idle" => asked[r] = None /\ seen[r] = {}
        /\ pc[r] \in Ended => todo[r] = {}
        /\ asked[r] # None =>
              /\ loaded
              /\ asked[r].kind = "apply" => asked[r].users # {} /\ asked[r].put \cap asked[r].del = {}
              /\ asked[r].kind = "renameUser" => asked[r].user # asked[r].to
              /\ asked[r].kind = "saveUser" => asked[r].user = asked[r].to
              /\ asked[r].kind \in {"deleteUser", "renameUser"} => asked[r].user \notin Hidden

AloneInv ==
    alone => /\ loaded
             /\ \A r \in Requests : pc[r] \in Running => asked[r] # None
             /\ \A r, s \in Requests : asked[r] # None /\ asked[s] # None => r = s

\* The statements that serve each kind of request.
Serving(kind) ==
    CASE kind = "create" -> {"insert", "number", "bind"}
      [] kind = "rename" -> {"find", "update", "unbind", "number", "bind"}
      [] kind = "delete" -> {"delete"}
      [] kind \in {"deleteUser", "renameUser"} -> {"findAll", "next", "modify"}
      [] OTHER -> {"next", "modify"}

\* A request on a group: the group is in the directory as in the copy, or away
\* from it, or there as the copy will have it.
GroupProgress(r) ==
    LET a == asked[r]
        away == pc[r] \in {"number", "bind"} /\ a.kind = "rename"
    IN /\ pc[r] \in Running =>
             /\ op[r].cn = a.cn /\ op[r].to = a.to
             /\ exists = IF away THEN known \ {a.cn} ELSE known
             /\ Same
             /\ a.kind = "create" => a.to = a.cn /\ seen[r] = {}
             /\ pc[r] = "update" => a.cn \in known /\ seen[r] = members[a.cn]
             /\ pc[r] = "unbind" => /\ a.cn \in known /\ seen[r] = members[a.cn]
                                    /\ a.to = a.cn \/ a.to \notin known
             /\ away => /\ a.cn \in known \ {Default}
                        /\ shown[a.cn] \subseteq seen[r] /\ seen[r] \ shown[a.cn] \subseteq Hidden
                        /\ a.to = a.cn \/ a.to \notin known
       /\ pc[r] = "ok" =>
             /\ a.kind = "rename" => a.cn \in known
             /\ exists = CASE a.kind = "create" -> known \cup {a.cn}
                           [] a.kind = "rename" -> (known \ {a.cn}) \cup {a.to}
                           [] OTHER -> known \ {a.cn}
             /\ \A g \in exists :
                   Shows(CASE a.kind = "create" /\ g = a.cn -> {}
                           [] a.kind = "rename" /\ g = a.to -> shown[a.cn]
                           [] OTHER -> shown[g],
                         g, members[g])

\* The user who takes the place of another, or nobody.
Successor(a) == IF a.kind = "renameUser" THEN {a.to} ELSE {}

\* What a request on members changes in the copy when it succeeds.
Effect(a) ==
    CASE a.kind = "apply" -> UNION {Change(a.put, {}, {u}) \cup Change(a.del, {u}, {}) : u \in a.users}
      [] a.kind \in {"createUser", "saveUser"} -> {}
      [] OTHER -> Change({g \in known : a.user \in shown[g]}, {a.user}, Successor(a))

\* The changes that a request has still to make, and the one it is making.
LookedUp(r) == [group |-> op[r].cn, out |-> op[r].out, in |-> op[r].in]
Pending(r) == todo[r] \cup (IF pc[r] = "modify" THEN {LookedUp(r)} ELSE {})

\* The copy of group g with the changes that the request has made.
Reached(r, g) ==
    LET made == {c \in Effect(asked[r]) \ Pending(r) : c.group = g}
    IN (shown[g] \ UNION {c.out : c \in made}) \cup UNION {c.in : c \in made}

\* A change that the copy does not get: of a user it does not show, in the
\* default group.
Unshown(c, a) ==
    /\ c.group = Default
    /\ c.in \subseteq created /\ c.out \cap shown[Default] = {}
    /\ \A e \in Effect(a) : e.group # Default

MembersProgress(r) ==
    LET a == asked[r]
    IN /\ pc[r] \in Running \cup {"ok"} => known = exists
       /\ pc[r] = "findAll" =>
             /\ op[r].out = {a.user} /\ op[r].in = Successor(a)
             /\ a.user \in created => Successor(a) \subseteq created
             /\ Same
       /\ pc[r] = "modify" => /\ op[r].cn \in exists /\ seen[r] = members[op[r].cn]
                              /\ LookedUp(r) \notin todo[r]
       /\ pc[r] \in {"next", "modify", "ok"} =>
             /\ \A c \in Pending(r) : c \in Effect(a) \/ Unshown(c, a)
             /\ \A c \in Effect(a) \ Pending(r) : c.group \in exists
             /\ \A g \in exists : Shows(Reached(r, g), g, members[g])

Progress(r) ==
    /\ pc[r] \in Running => pc[r] \in Serving(asked[r].kind)
    /\ IF asked[r].kind \in {"create", "rename", "delete"}
       THEN GroupProgress(r) ELSE MembersProgress(r)
ProgressInv == alone => \A r \in Requests : asked[r] # None => Progress(r)

(* The invariant of the directory holds under a console too, and the copy  *)
(* is behind the directory by what the request in progress has done.       *)
ConsoleInv ==
    IInv /\ ConsoleTypeOK /\ AskedInv /\ AloneInv /\ ProgressInv /\ ConsoleAgrees
=============================================================================
