------------------------ MODULE GroupsConsole_proofs ------------------------
(***************************************************************************)
(* Proofs about GroupsConsole, for any groups, users, selections and       *)
(* number of concurrent requests: what the theorems about LdapGroups say   *)
(* of the directory holds under a console and other administrators, and    *)
(* the copy of a console agrees with the directory while its administrator *)
(* works alone and stays on the page of a request until it is answered.    *)
(*                                                                         *)
(* The second is a statement about states in which nothing is asked.  Its  *)
(* invariant says in every other state how far the request in progress     *)
(* has got: Progress, which each step of a request moves on, and from      *)
(* which the success handler brings the copy up to date.                   *)
(***************************************************************************)
EXTENDS GroupsConsole, LdapGroups_proofs

-----------------------------------------------------------------------------
(* The directory under a console.                                          *)

Batch == [users : SUBSET Users, put : SUBSET Groups, del : SUBSET Groups]

\* A request that the console or another administrator sends.
Sent(r) ==
    \/ \E b \in Batch : UpdateUsers(r, b)
    \/ Arrivals(r)

\* On the directory, a step of CNext is the arrival of a request, a step of
\* one, or none.
LEMMA DirectoryStep ==
    ASSUME ConsoleTypeOK, [CNext]_cvars
    PROVE  \/ \E r \in Requests : Sent(r) \/ Serve(r)
           \/ UNCHANGED vars
<1>1. ASSUME NEW r \in Requests, Apply(r) PROVE Sent(r)
  <2>1. /\ Turned("all") \subseteq Groups /\ Turned("none") \subseteq Groups
        /\ picked \subseteq Users
    BY DEF Turned, ConsoleTypeOK
  <2> QED
    BY <1>1, <2>1 DEF Apply, Sent, Batch
<1>2. ASSUME NEW r \in Requests, NEW cn \in Groups, NEW to \in Groups,
             CreateGroup(r, cn) \/ RemoveGroup(r, cn) \/ EditGroup(r, cn, to)
      PROVE  Sent(r)
  BY <1>2 DEF CreateGroup, RemoveGroup, EditGroup, Sent, Arrivals
<1>3. ASSUME NEW r \in Requests, NEW u \in Users, NEW to \in Users,
             AddUser(r, u) \/ RemoveUser(r, u) \/ SaveUser(r, u) \/ EditUser(r, u, to)
      PROVE  Sent(r)
  <2>1. CASE SaveUser(r, u)
    BY <2>1 DEF SaveUser, Sent, Batch
  <2> QED
    BY <1>3, <2>1 DEF AddUser, RemoveUser, EditUser, Sent, Arrivals
<1>4. CASE LoadGroups \/ (\E users \in Selections : InitGroups(users))
             \/ (\E g \in Ticked : SelectGroup(g))
  BY <1>4 DEF LoadGroups, InitGroups, SelectGroup
<1>5. ASSUME NEW r \in Requests, Succeeded(r) \/ Refused(r) PROVE UNCHANGED vars
  BY <1>5 DEF Succeeded, Refused
<1>6. ASSUME NEW r \in Requests, OtherAsks(r) PROVE Sent(r)
  BY <1>6 DEF OtherAsks, Sent
<1>7. CASE UNCHANGED cvars
  BY <1>7 DEF cvars
<1>8. CASE Clicks
  BY <1>1, <1>2, <1>3, <1>4, <1>8 DEF Clicks
<1> QED
  BY <1>5, <1>6, <1>7, <1>8 DEF CNext

\* The invariant of the directory is kept.
LEMMA DirectoryInv == ASSUME IInv, ConsoleTypeOK, [CNext]_cvars PROVE IInv'
<1>1. ASSUME NEW r \in Requests, Sent(r) PROVE IInv'
  BY <1>1, UpdateUsersInv, ArrivalsInv DEF Sent, Batch
<1>2. CASE UNCHANGED vars
  BY <1>2, NextInv
<1> QED
  BY <1>1, <1>2, DirectoryStep, ServeInv

-----------------------------------------------------------------------------
(* A request is sent.                                                      *)

\* A console that is alone and asks nothing shows the directory.
LEMMA Quiet ==
    ASSUME ConsoleInv, alone, ~Busy
    PROVE  loaded /\ known = exists /\ Same
BY DEF ConsoleInv, AloneInv, ConsoleAgrees, Same, Shows

\* A request of the console: r arrives and is asked `what`.
Sending(r, what) ==
    /\ pc[r] = "idle"
    /\ pc' = [pc EXCEPT ![r] = pc'[r]] /\ pc'[r] \in Running
    /\ todo' = [todo EXCEPT ![r] = todo'[r]]
    /\ UNCHANGED <<directory, counter, lock, seen, kept>>
    /\ Send(r, what)

\* The request may find others at work; if it finds the console alone it is
\* the only one, and the copy is behind the directory by nothing.
LEMMA SendInv ==
    ASSUME ConsoleInv, ConsoleTypeOK', NEW r \in Requests, NEW what \in Asked, Sending(r, what),
           what.kind = "apply" => what.users # {} /\ what.put \cap what.del = {},
           what.kind = "renameUser" => what.user # what.to,
           what.kind = "saveUser" => what.user = what.to,
           what.kind \in {"deleteUser", "renameUser"} => what.user \notin Hidden,
           alone /\ ~Busy => Progress(r)'
    PROVE  AskedInv' /\ AloneInv' /\ ProgressInv' /\ ConsoleAgrees'
<1> USE ConsoleAssumption
<1>1. /\ asked' = [asked EXCEPT ![r] = what] /\ what # None
      /\ asked \in [Requests -> Asked \cup {None}]
      /\ loaded /\ loaded' /\ alone' = (alone /\ ~Busy)
      /\ pc[r] = "idle" /\ pc'[r] \in Running /\ seen' = seen
      /\ \A s \in Requests : s # r => pc'[s] = pc[s] /\ todo'[s] = todo[s]
  <2>1. /\ pc \in [Requests -> {"idle"} \cup Running \cup Ended]
        /\ todo \in [Requests -> SUBSET Changes]
    BY DEF ConsoleInv, IInv, TypeOK
  <2> QED
    BY <2>1 DEF Sending, Send, ConsoleInv, ConsoleTypeOK
<1>2. asked'[r] = what /\ \A s \in Requests : s # r => asked'[s] = asked[s]
  BY <1>1
<1>3. AskedInv'
  BY <1>1, <1>2 DEF AskedInv, ConsoleInv, Running, Ended
<1>4. AloneInv'
  BY <1>1, <1>2 DEF AloneInv, ConsoleInv, Busy
<1>5. ProgressInv'
  BY <1>1, <1>2 DEF ProgressInv, Busy
<1>6. ConsoleAgrees'
  BY <1>1, <1>2 DEF ConsoleAgrees, Busy
<1> QED
  BY <1>3, <1>4, <1>5, <1>6

\* What is shown of a group stays so when more users have been created.
LEMMA ShowsMore ==
    ASSUME UNCHANGED <<exists, members, shown>>, created \subseteq created', Same
    PROVE  Same'
BY DEF Same, Shows

\* A request on a group begins.
LEMMA SendOnGroup ==
    ASSUME ConsoleInv, NEW r \in Requests, NEW cn \in Groups, NEW to \in Groups,
           CreateGroup(r, cn) \/ RemoveGroup(r, cn) \/ EditGroup(r, cn, to)
    PROVE  ConsoleTypeOK' /\ AskedInv' /\ AloneInv' /\ ProgressInv' /\ ConsoleAgrees'
<1> DEFINE kind == asked'[r].kind
           what == [kind |-> kind, cn |-> cn, to |-> IF kind = "rename" THEN to ELSE cn]
<1>1. /\ pc \in [Requests -> {"idle"} \cup Running \cup Ended]
      /\ op \in [Requests -> Ops] /\ asked \in [Requests -> Asked \cup {None}]
  BY DEF ConsoleInv, IInv, TypeOK, ConsoleTypeOK
<1>2. /\ Sending(r, what) /\ UNCHANGED menu
      /\ kind \in {"create", "rename", "delete"}
      /\ pc'[r] = CASE kind = "create" -> "insert" [] kind = "rename" -> "find" [] OTHER -> "delete"
      /\ op'[r].cn = cn /\ op'[r].to = what.to
  <2>1. CASE CreateGroup(r, cn)
    BY <1>1, <2>1 DEF CreateGroup, Create, Arrive, OfGroup, Sending, Send, Running
  <2>2. CASE RemoveGroup(r, cn)
    BY <1>1, <2>2 DEF RemoveGroup, Delete, Arrive, OfGroup, Sending, Send, Running
  <2>3. CASE EditGroup(r, cn, to)
    BY <1>1, <2>3 DEF EditGroup, Rename, Arrive, OfGroup, Sending, Send, Running
  <2> QED
    BY <2>1, <2>2, <2>3
<1> HIDE DEF kind
<1>3. what \in Asked /\ what.kind = kind /\ what.cn = cn
  BY <1>2 DEF Asked
<1>4. asked'[r] = what /\ UNCHANGED <<directory, seen, known, shown, loaded, menu>> /\ created' = created
  BY <1>1, <1>2, <1>3 DEF Sending, Send
<1>5. ConsoleTypeOK'
  BY <1>2, <1>3, <1>4 DEF ConsoleInv, ConsoleTypeOK, Sending, Send, menu
<1>6. ASSUME alone, ~Busy PROVE Progress(r)'
  <2>1. known = exists /\ Same
    BY <1>6, Quiet
  <2>2. Same' /\ known' = exists'
    BY <1>4, <2>1, ShowsMore DEF directory
  <2>3. seen'[r] = {}
    BY <1>2, <1>4 DEF ConsoleInv, AskedInv, Sending
  <2> QED
    BY <1>2, <1>3, <1>4, <2>2, <2>3 DEF Progress, GroupProgress, Serving
<1> QED
  BY <1>2, <1>3, <1>5, <1>6, SendInv

\* A request on members begins: none of its changes has been made.
LEMMA SendOnMembers ==
    ASSUME ConsoleInv, ConsoleTypeOK', NEW r \in Requests, NEW what \in Asked, Sending(r, what),
           what.kind \in {"apply", "createUser", "saveUser", "deleteUser", "renameUser"},
           what.kind = "apply" => what.users # {} /\ what.put \cap what.del = {},
           what.kind = "renameUser" => what.user # what.to,
           what.kind = "saveUser" => what.user = what.to,
           what.kind \in {"deleteUser", "renameUser"} => what.user \notin Hidden,
           pc'[r] = IF what.kind \in {"apply", "createUser", "saveUser"} THEN "next" ELSE "findAll",
           pc'[r] = "findAll" => op'[r].out = {what.user} /\ op'[r].in = Successor(what),
           pc'[r] = "next" => Effect(what) \subseteq todo'[r],
           pc'[r] = "next" => \A c \in todo'[r] : c \in Effect(what) \/ Unshown(c, what)'
    PROVE  AskedInv' /\ AloneInv' /\ ProgressInv' /\ ConsoleAgrees'
<1>1. /\ asked'[r] = what
      /\ UNCHANGED <<exists, members, known, shown>>
      /\ created' = IF \/ what.kind = "createUser"
                       \/ what.kind = "renameUser" /\ what.user \in created
                    THEN created \cup {what.to} ELSE created
  BY DEF Sending, Send, directory, ConsoleInv, ConsoleTypeOK
<1>2. ASSUME alone, ~Busy PROVE Progress(r)'
  <2>1. known = exists /\ Same
    BY <1>2, Quiet
  <2>2. Same' /\ known' = exists'
    BY <1>1, <2>1, ShowsMore
  <2>3. Effect(what)' = Effect(what) /\ Successor(what)' = Successor(what)
    BY <1>1 DEF Effect, Successor
  <2>4. CASE pc'[r] = "next"
    <3>1. Pending(r)' = todo'[r]
      BY <2>4 DEF Pending
    <3>2. \A g \in exists' : Reached(r, g)' = shown'[g]
      <4>1. \A g : {c \in Effect(what)' \ Pending(r)' : c.group = g} = {}
        BY <2>3, <2>4, <3>1
      <4> QED
        BY <1>1, <4>1 DEF Reached
    <3>3. \A g \in exists' : Shows(Reached(r, g), g, members[g])'
      BY <2>2, <3>2 DEF Same, Shows
    <3>4. /\ \A c \in Pending(r)' : c \in Effect(what)' \/ Unshown(c, what)'
          /\ Effect(what)' \ Pending(r)' = {}
      BY <2>3, <2>4, <3>1
    <3> QED
      BY <1>1, <2>2, <2>4, <3>3, <3>4 DEF Progress, MembersProgress, Serving
  <2>5. CASE pc'[r] = "findAll"
    <3>1. what.user \in created' => Successor(what) \subseteq created'
      BY <1>1, <2>5 DEF Successor
    <3> QED
      BY <1>1, <2>2, <2>3, <2>5, <3>1 DEF Progress, MembersProgress, Serving
  <2> QED
    BY <2>4, <2>5
<1> QED
  BY <1>2, SendInv

LEMMA ApplyInv ==
    ASSUME ConsoleInv, NEW r \in Requests, Apply(r)
    PROVE  ConsoleTypeOK' /\ AskedInv' /\ AloneInv' /\ ProgressInv' /\ ConsoleAgrees'
<1> DEFINE put == Turned("all")
           del == Turned("none")
           what == [kind |-> "apply", users |-> picked, put |-> put, del |-> del]
           changes == UNION {Change(put, {}, {u}) \cup Change(del, {u}, {}) : u \in picked}
<1>1. /\ put \subseteq Groups /\ del \subseteq Groups /\ put \cap del = {}
      /\ picked \subseteq Users /\ picked # {}
  BY DEF Turned, ConsoleInv, ConsoleTypeOK, Apply
<1> HIDE DEF put, del
<1>2. /\ pc \in [Requests -> {"idle"} \cup Running \cup Ended]
      /\ todo \in [Requests -> SUBSET Changes] /\ asked \in [Requests -> Asked \cup {None}]
  BY DEF ConsoleInv, IInv, TypeOK, ConsoleTypeOK
<1>3. /\ Sending(r, what) /\ pc'[r] = "next"
      /\ picked' = {} /\ boxes' = Closed /\ original' = Closed
  BY <1>2 DEF Apply, UpdateUsers, Arrive, Sending, put, del, Running
<1>4. todo'[r] = changes
  BY <1>2 DEF Apply, UpdateUsers, Arrive, put, del
<1>5. /\ what \in Asked /\ what.kind = "apply" /\ what.users # {}
      /\ what.put \cap what.del = {}
  BY <1>1 DEF Asked
<1>6. Effect(what) = changes
  BY DEF Effect
<1>7. ConsoleTypeOK'
  BY <1>3, <1>5 DEF ConsoleInv, ConsoleTypeOK, Sending, Send, menu, Closed, Boxes
<1> HIDE DEF what, changes
<1> QED
  BY <1>3, <1>4, <1>5, <1>6, <1>7, SendOnMembers

LEMMA UserInv ==
    ASSUME ConsoleInv, NEW r \in Requests, NEW u \in Users, NEW to \in Users,
           AddUser(r, u) \/ RemoveUser(r, u) \/ SaveUser(r, u) \/ EditUser(r, u, to)
    PROVE  ConsoleTypeOK' /\ AskedInv' /\ AloneInv' /\ ProgressInv' /\ ConsoleAgrees'
<1> DEFINE W(kind) == [kind |-> kind, user |-> u, to |-> IF kind = "renameUser" THEN to ELSE u]
<1>1. /\ pc \in [Requests -> {"idle"} \cup Running \cup Ended]
      /\ op \in [Requests -> Ops] /\ todo \in [Requests -> SUBSET Changes]
      /\ asked \in [Requests -> Asked \cup {None}]
  BY DEF ConsoleInv, IInv, TypeOK, ConsoleTypeOK
<1> DEFINE Begun(kind) ==
      /\ Sending(r, W(kind)) /\ UNCHANGED menu
      /\ pc'[r] = IF kind \in {"createUser", "saveUser"} THEN "next" ELSE "findAll"
      /\ kind = "createUser" => todo'[r] = Change({Default}, {}, {u})
      /\ kind = "saveUser" => todo'[r] = {}
      /\ kind = "renameUser" => u # to
      /\ u \notin Hidden
      /\ pc'[r] = "findAll" => op'[r].out = {u} /\ op'[r].in = Successor(W(kind))
<1>2. PICK kind \in {"createUser", "saveUser", "deleteUser", "renameUser"} : Begun(kind)
  <2>1. ASSUME AddUser(r, u) PROVE Begun("createUser")
    BY <1>1, <2>1 DEF AddUser, CreateUser, Arrive, OfUsers, Sending, Send, Successor, Running
  <2>4. ASSUME SaveUser(r, u) PROVE Begun("saveUser")
    BY <1>1, <2>4 DEF SaveUser, UpdateUsers, Arrive, OfUsers, Sending, Send, Successor, Running
  <2>2. ASSUME RemoveUser(r, u) PROVE Begun("deleteUser")
    BY <1>1, <2>2 DEF RemoveUser, DeleteUser, Arrive, OfUsers, Sending, Send, Successor, Running
  <2>3. ASSUME EditUser(r, u, to) PROVE Begun("renameUser")
    BY <1>1, <2>3 DEF EditUser, RenameUser, Arrive, OfUsers, Sending, Send, Successor, Running
  <2> QED
    BY <2>1, <2>2, <2>3, <2>4
<1> DEFINE what == W(kind)
<1>3. /\ what \in Asked /\ what.kind = kind /\ what.user = u
      /\ kind \in {"createUser", "saveUser"} => what.to = u
  BY <1>2 DEF Asked
<1>4. ConsoleTypeOK'
  BY <1>2, <1>3 DEF ConsoleInv, ConsoleTypeOK, Sending, Send, menu, Asked
<1>5. ASSUME kind = "createUser"
      PROVE  Effect(what) \subseteq todo'[r] /\ \A c \in todo'[r] : Unshown(c, what)'
  <2>1. Effect(what) = {} /\ Effect(what)' = {}
    BY <1>3, <1>5 DEF Effect
  <2>2. u \in created'
    BY <1>2, <1>3, <1>5 DEF Sending, Send
  <2>3. \A c \in todo'[r] : c = [group |-> Default, out |-> {}, in |-> {u}]
    BY <1>2, <1>5 DEF Change
  <2> QED
    BY <2>1, <2>2, <2>3 DEF Unshown
<1>6. ASSUME kind = "saveUser" PROVE Effect(what) = {} /\ todo'[r] = {}
  BY <1>2, <1>3, <1>6 DEF Effect
<1> QED
  BY <1>2, <1>3, <1>4, <1>5, <1>6, SendOnMembers

-----------------------------------------------------------------------------
(* The page is loaded, the menu is used, others are at work.               *)

LEMMA LoadInv ==
    ASSUME ConsoleInv, LoadGroups
    PROVE  ConsoleTypeOK' /\ AskedInv' /\ AloneInv' /\ ProgressInv' /\ ConsoleAgrees'
<1> USE DEF ConsoleInv, LoadGroups, vars, directory
<1>1. ConsoleTypeOK'
  BY DEF ConsoleTypeOK, IInv, TypeOK, menu
<1>2. AskedInv'
  BY DEF AskedInv
<1>3. AloneInv' /\ ProgressInv'
  BY DEF AloneInv, ProgressInv, AskedInv, Busy
<1>4. ConsoleAgrees'
  BY DEF ConsoleAgrees, IInv, TypeOK
<1> QED
  BY <1>1, <1>2, <1>3, <1>4

LEMMA MenuInv ==
    ASSUME ConsoleInv, ConsoleTypeOK',
           UNCHANGED <<vars, loaded, known, shown, asked, alone, created>>
    PROVE  AskedInv' /\ AloneInv' /\ ProgressInv' /\ ConsoleAgrees'
<1> USE DEF ConsoleInv, vars, directory
<1>1. AskedInv' /\ AloneInv'
  BY DEF AskedInv, AloneInv
<1>2. \A r \in Requests : Progress(r)' = Progress(r)
  BY DEF Progress, GroupProgress, MembersProgress, Same, Shows, Pending, LookedUp, Effect, Reached,
     Unshown
<1>3. ProgressInv'
  BY <1>2 DEF ProgressInv
<1>4. ConsoleAgrees'
  BY DEF ConsoleAgrees, Busy
<1> QED
  BY <1>1, <1>3, <1>4

LEMMA PickInv ==
    ASSUME ConsoleInv,
           (\E users \in Selections : InitGroups(users)) \/ (\E g \in Ticked : SelectGroup(g))
    PROVE  ConsoleTypeOK' /\ AskedInv' /\ AloneInv' /\ ProgressInv' /\ ConsoleAgrees'
<1>1. UNCHANGED <<vars, loaded, known, shown, asked, alone, created>>
  BY DEF InitGroups, SelectGroup
<1>2. ConsoleTypeOK'
  BY ConsoleAssumption DEF ConsoleInv, ConsoleTypeOK, InitGroups, SelectGroup, HasUsers, Boxes
<1> QED
  BY <1>1, <1>2, MenuInv

\* Whoever gets in the way ends what can be said of the copy.
LEMMA NotAloneInv ==
    ASSUME ConsoleInv, NEW r \in Requests, Refused(r) \/ OtherAsks(r)
    PROVE  ConsoleTypeOK' /\ AskedInv' /\ AloneInv' /\ ProgressInv' /\ ConsoleAgrees'
<1>1. ConsoleTypeOK' /\ ~alone'
  BY DEF ConsoleInv, ConsoleTypeOK, Refused, OtherAsks, menu
<1>2. AloneInv' /\ ProgressInv' /\ ConsoleAgrees'
  BY <1>1 DEF AloneInv, ProgressInv, ConsoleAgrees
<1>3. AskedInv'
  <2>1. CASE Refused(r)
    BY <2>1 DEF Refused, AskedInv, ConsoleInv, ConsoleTypeOK, vars
  <2>2. CASE OtherAsks(r)
    <3>1. /\ \A s \in Requests : pc'[s] = "idle" => pc[s] = "idle"
          /\ \A s \in Requests : pc'[s] \in Ended => pc[s] \in Ended /\ todo'[s] = todo[s]
          /\ seen' = seen
      <4>1. /\ pc \in [Requests -> {"idle"} \cup Running \cup Ended]
            /\ todo \in [Requests -> SUBSET Changes]
        BY DEF ConsoleInv, IInv, TypeOK
      <4> QED
        BY <2>2, <4>1 DEF OtherAsks, Arrivals, Create, Rename, Delete, UpdateUsers, CreateUser,
                          DeleteUser, RenameUser, Arrive, Ended
    <3> QED
      BY <2>2, <3>1 DEF OtherAsks, AskedInv, ConsoleInv
  <2> QED
    BY <2>1, <2>2
<1> QED
  BY <1>1, <1>2, <1>3

-----------------------------------------------------------------------------
(* Success handlers.                                                       *)

\* On the page of the request, with its form, a handler does what was sent.
LEMMA Stayed ==
    ASSUME NEW r \in Requests, Succeeded(r), alone'
    PROVE  /\ alone
           /\ asked[r].kind = "apply" => Applied(asked[r])
           /\ asked[r].kind = "create" => Created(asked[r].cn)
           /\ asked[r].kind = "rename" => Renamed(asked[r].cn, asked[r].to)
           /\ asked[r].kind = "delete" => Deleted(asked[r].cn)
           /\ asked[r].kind = "createUser" => UNCHANGED <<known, shown>>
           /\ asked[r].kind \in {"saveUser", "renameUser"} =>
                 Replaced(asked[r].user, {asked[r].to}, TRUE)
           /\ asked[r].kind = "deleteUser" => Replaced(asked[r].user, {}, TRUE)
BY DEF Succeeded, Stays

\* When the request in progress has succeeded and its handler has run, the
\* copy shows the directory.
LEMMA GroupSucceeded ==
    ASSUME ConsoleInv, NEW r \in Requests, asked[r] # None, pc[r] = "ok", GroupProgress(r),
           asked[r].kind \in {"create", "rename", "delete"}, Succeeded(r), alone'
    PROVE  known' = exists' /\ Same'
<1>1. PICK a \in Asked : a = asked[r] /\ a.cn \in Groups /\ a.to \in Groups
  BY DEF ConsoleInv, ConsoleTypeOK, Asked
<1>2. /\ UNCHANGED <<exists, members, created>>
      /\ shown \in [Groups -> SUBSET Users] /\ exists \subseteq Groups /\ known \subseteq Groups
  BY DEF Succeeded, vars, directory, ConsoleInv, ConsoleTypeOK, IInv, TypeOK
<1>3. CASE a.kind = "create"
  <2>1. Created(a.cn)
    BY <1>1, <1>3, Stayed
  <2> QED
    BY <1>1, <1>2, <1>3, <2>1 DEF Created, GroupProgress, Same, Shows
<1>4. CASE a.kind = "rename"
  <2>1. Renamed(a.cn, a.to) /\ a.cn \in known
    BY <1>1, <1>4, Stayed DEF GroupProgress
  <2>2. /\ exists = (known \ {a.cn}) \cup {a.to}
        /\ \A g \in exists : Shows(IF g = a.to THEN shown[a.cn] ELSE shown[g], g, members[g])
    BY <1>1, <1>4 DEF GroupProgress
  <2>3. known' = exists
    BY <2>1, <2>2 DEF Renamed
  <2>4. \A g \in exists : shown'[g] = IF g = a.to THEN shown[a.cn] ELSE shown[g]
    BY <1>2, <2>1, <2>2 DEF Renamed
  <2> QED
    BY <1>2, <2>2, <2>3, <2>4 DEF Same, Shows
<1>5. CASE a.kind = "delete"
  <2>1. Deleted(a.cn)
    BY <1>1, <1>5, Stayed
  <2> QED
    BY <1>1, <1>2, <1>5, <2>1 DEF Deleted, GroupProgress, Same, Shows
<1> QED
  BY <1>1, <1>3, <1>4, <1>5

\* Nothing is pending of a request that has been answered.
LEMMA NothingPending ==
    ASSUME ConsoleInv, NEW r \in Requests, pc[r] = "ok"
    PROVE  Pending(r) = {}
BY DEF Pending, ConsoleInv, AskedInv, Ended

\* What the changes asked of group g are, of the menu or of the loops over groups.
LEMMA ApplyEffect ==
    ASSUME NEW a, a.kind = "apply", NEW g, NEW u
    PROVE  /\ (\E c \in Effect(a) : c.group = g /\ u \in c.in) <=> g \in a.put /\ u \in a.users
           /\ (\E c \in Effect(a) : c.group = g /\ u \in c.out) <=> g \in a.del /\ u \in a.users
<1> DEFINE In(h, v) == [group |-> h, out |-> {}, in |-> {v}]
           Out(h, v) == [group |-> h, out |-> {v}, in |-> {}]
<1>1. ASSUME NEW c \in Effect(a)
      PROVE  \E v \in a.users : (\E h \in a.put : c = In(h, v)) \/ (\E h \in a.del : c = Out(h, v))
  BY DEF Effect, Change
<1>2. ASSUME NEW v \in a.users
      PROVE  (\A h \in a.put : In(h, v) \in Effect(a)) /\ (\A h \in a.del : Out(h, v) \in Effect(a))
  <2>1. Change(a.put, {}, {v}) \cup Change(a.del, {v}, {}) \subseteq Effect(a)
    BY DEF Effect
  <2>2. \A h \in a.put : In(h, v) \in Change(a.put, {}, {v})
    BY DEF Change
  <2>3. \A h \in a.del : Out(h, v) \in Change(a.del, {v}, {})
    BY DEF Change
  <2> HIDE DEF In, Out
  <2> QED
    BY <2>1, <2>2, <2>3
<1>3. \A h, v : In(h, v).group = h /\ In(h, v).in = {v} /\ In(h, v).out = {}
  OBVIOUS
<1>4. \A h, v : Out(h, v).group = h /\ Out(h, v).in = {} /\ Out(h, v).out = {v}
  OBVIOUS
<1> HIDE DEF In, Out
<1> QED
  BY <1>1, <1>2, <1>3, <1>4

LEMMA UserEffect ==
    ASSUME NEW a, a.kind \in {"deleteUser", "renameUser"}, NEW g \in known, NEW u
    PROVE  /\ (\E c \in Effect(a) : c.group = g /\ u \in c.in)
                 <=> a.user \in shown[g] /\ u \in Successor(a)
           /\ (\E c \in Effect(a) : c.group = g /\ u \in c.out)
                 <=> a.user \in shown[g] /\ u = a.user
<1> DEFINE C(h) == [group |-> h, out |-> {a.user}, in |-> Successor(a)]
<1>1. Effect(a) = {C(h) : h \in {h \in known : a.user \in shown[h]}}
  BY DEF Effect, Change
<1>2. \A h : C(h).group = h /\ C(h).in = Successor(a) /\ C(h).out = {a.user}
  OBVIOUS
<1> HIDE DEF C
<1> QED
  BY <1>1, <1>2

LEMMA MembersSucceeded ==
    ASSUME ConsoleInv, NEW r \in Requests, asked[r] # None, pc[r] = "ok", MembersProgress(r),
           asked[r].kind \notin {"create", "rename", "delete"}, Succeeded(r), alone'
    PROVE  known' = exists' /\ Same'
<1>1. PICK a \in Asked : /\ a = asked[r]
                         /\ a.kind \in {"apply", "createUser", "saveUser", "deleteUser", "renameUser"}
  BY DEF ConsoleInv, ConsoleTypeOK, Asked
<1>2. /\ UNCHANGED <<exists, members, created>> /\ known = exists
      /\ shown \in [Groups -> SUBSET Users] /\ exists \subseteq Groups
      /\ Pending(r) = {}
  BY NothingPending
  DEF Succeeded, vars, directory, ConsoleInv, ConsoleTypeOK, IInv, TypeOK, MembersProgress
<1>3. /\ \A c \in Effect(a) : c.group \in exists
      /\ \A g \in exists : Shows(Reached(r, g), g, members[g])
  BY <1>1, <1>2 DEF MembersProgress
<1>4. \A g \in exists : \A u : u \in Reached(r, g) <=>
          \/ u \in shown[g] /\ \A c \in Effect(a) : c.group = g => u \notin c.out
          \/ \E c \in Effect(a) : c.group = g /\ u \in c.in
  BY <1>1, <1>2 DEF Reached
<1>5. known' = known /\ \A g \in exists : shown'[g] = Reached(r, g)
  <2>1. CASE a.kind = "apply"
    <3>1. a.users # {} /\ a.put \subseteq Groups /\ a.del \subseteq Groups
      BY <1>1, <2>1 DEF ConsoleInv, AskedInv, Asked
    <3>3. a.put \cup a.del \subseteq known
      <4>1. PICK u : u \in a.users
        BY <3>1
      <4>2. \A g \in a.put : \E c \in Effect(a) : c.group = g
        BY <2>1, <4>1, ApplyEffect
      <4>3. \A g \in a.del : \E c \in Effect(a) : c.group = g
        BY <2>1, <4>1, ApplyEffect
      <4> QED
        BY <1>2, <1>3, <4>2, <4>3
    <3>4. Applied(a)
      BY <1>1, <2>1, Stayed
    <3>5. known' = known /\ \A g \in Groups :
             shown'[g] = (IF g \in a.put THEN shown[g] \cup a.users ELSE shown[g])
                            \ (IF g \in a.del THEN a.users ELSE {})
      BY <3>3, <3>4 DEF Applied
    <3>6. ASSUME NEW g \in exists, NEW u PROVE u \in shown'[g] <=> u \in Reached(r, g)
      <4>1. (\E c \in Effect(a) : c.group = g /\ u \in c.in) <=> g \in a.put /\ u \in a.users
        BY ApplyEffect, <2>1
      <4>2. (\A c \in Effect(a) : c.group = g => u \notin c.out) <=> ~(g \in a.del /\ u \in a.users)
        BY ApplyEffect, <2>1
      <4>3. a.put \cap a.del = {}
        BY <1>1, <2>1 DEF ConsoleInv, AskedInv
      <4>4. u \in shown'[g] <=> /\ u \in shown[g] \/ (g \in a.put /\ u \in a.users)
                                /\ ~(g \in a.del /\ u \in a.users)
        BY <1>2, <3>5
      <4> QED
        BY <1>4, <4>1, <4>2, <4>3, <4>4
    <3> QED
      BY <1>2, <3>5, <3>6
  <2>2. CASE a.kind = "createUser"
    <3>1. Effect(a) = {}
      BY <2>2 DEF Effect
    <3>2. UNCHANGED <<known, shown>>
      BY <1>1, <2>2, Stayed
    <3> QED
      BY <1>1, <3>1, <3>2 DEF Reached
  <2>3. CASE a.kind \in {"deleteUser", "renameUser"}
    <3>1. Replaced(a.user, Successor(a), TRUE)
      BY <1>1, <2>3, Stayed DEF Successor
    <3>3. ASSUME NEW g \in exists, NEW u PROVE u \in shown'[g] <=> u \in Reached(r, g)
      <4>1. (\E c \in Effect(a) : c.group = g /\ u \in c.in)
               <=> a.user \in shown[g] /\ u \in Successor(a)
        BY <1>2, <2>3, UserEffect
      <4>2. (\A c \in Effect(a) : c.group = g => u \notin c.out)
               <=> ~(a.user \in shown[g] /\ u = a.user)
        BY <1>2, <2>3, UserEffect
      <4>3. shown'[g] = IF a.user \in shown[g]
                        THEN (shown[g] \ {a.user}) \cup Successor(a) ELSE shown[g]
        BY <1>2, <3>1 DEF Replaced
      <4> QED
        BY <1>4, <4>1, <4>2, <4>3
    <3> QED
      BY <1>2, <3>1, <3>3 DEF Replaced
  <2>4. CASE a.kind = "saveUser"
    <3>1. Effect(a) = {}
      BY <2>4 DEF Effect
    <3>2. Replaced(a.user, {a.user}, TRUE)
      BY <1>1, <2>4, Stayed DEF ConsoleInv, AskedInv
    <3>3. \A g \in Groups : shown'[g] = shown[g]
      BY <3>2 DEF Replaced
    <3> QED
      BY <1>1, <1>2, <3>1, <3>2, <3>3 DEF Reached, Replaced
  <2> QED
    BY <1>1, <2>1, <2>2, <2>3, <2>4
<1> QED
  BY <1>2, <1>3, <1>5 DEF Same, Shows

LEMMA SucceededInv ==
    ASSUME ConsoleInv, NEW r \in Requests, Succeeded(r)
    PROVE  ConsoleTypeOK' /\ AskedInv' /\ AloneInv' /\ ProgressInv' /\ ConsoleAgrees'
<1>1. /\ asked[r] # None /\ pc[r] = "ok"
      /\ asked' = [asked EXCEPT ![r] = None]
      /\ UNCHANGED <<directory, counter, lock, pc, op, todo, seen, kept, loaded, menu, created>>
  BY DEF Succeeded, vars
<1>0. /\ alone' => alone
      /\ alone' \in BOOLEAN
  <2>1. alone \in BOOLEAN
    BY DEF ConsoleInv, ConsoleTypeOK
  <2>2. alone' = alone \/ \E same \in BOOLEAN : Stays(same)
    BY DEF Succeeded
  <2> QED
    BY <2>1, <2>2 DEF Stays
<1>2. PICK a \in Asked : a = asked[r]
  BY <1>1 DEF ConsoleInv, ConsoleTypeOK
<1>3. known' \subseteq Groups /\ shown' \in [Groups -> SUBSET Users]
  <2>1. known \subseteq Groups /\ shown \in [Groups -> SUBSET Users]
    BY DEF ConsoleInv, ConsoleTypeOK
  <2>2. CASE a.kind = "apply"
    <3>1. Applied(a) /\ a.users \subseteq Users
      BY <1>2, <2>2 DEF Succeeded, Asked
    <3> QED
      BY <2>1, <3>1 DEF Applied
  <2>3. CASE a.kind \in {"create", "rename", "delete"}
    <3>1. a.cn \in Groups
      BY <2>3 DEF Asked
    <3>2. \/ Created(a.cn)
          \/ \E page \in Groups \cup {None} : Deleted(page) \/ (\E to \in Groups : Renamed(page, to))
      BY <1>2, <2>3 DEF Succeeded
    <3> QED
      BY <2>1, <3>1, <3>2 DEF Created, Renamed, Deleted
  <2>4. CASE a.kind \in {"createUser", "saveUser", "deleteUser", "renameUser"}
    <3>1. \/ UNCHANGED <<known, shown>>
          \/ \E page \in Users \cup {None}, by \in SUBSET Users, listed \in BOOLEAN :
                Replaced(page, by, listed)
      BY <1>2, <2>4 DEF Succeeded
    <3> QED
      BY <2>1, <3>1 DEF Replaced
  <2> QED
    BY <2>2, <2>3, <2>4 DEF Asked
<1>4. ConsoleTypeOK'
  BY <1>0, <1>1, <1>3 DEF ConsoleInv, ConsoleTypeOK, menu
<1>5. AskedInv'
  BY <1>1 DEF ConsoleInv, AskedInv, ConsoleTypeOK
<1>6. AloneInv' /\ ProgressInv'
  BY <1>0, <1>1 DEF ConsoleInv, AloneInv, ProgressInv, ConsoleTypeOK, Running
<1>7. ASSUME alone' PROVE known' = exists' /\ Same'
  <2>1. Progress(r)
    BY <1>0, <1>1, <1>7 DEF ConsoleInv, ProgressInv
  <2> QED
    BY <1>1, <1>7, <2>1, GroupSucceeded, MembersSucceeded DEF Progress
<1>8. ConsoleAgrees'
  BY <1>1, <1>7 DEF ConsoleAgrees, Same, Shows
<1> QED
  BY <1>4, <1>5, <1>6, <1>8

-----------------------------------------------------------------------------
(* Steps of a request on the directory.                                    *)

\* It is enough to follow the request in progress.
LEMMA ServeInvOf ==
    ASSUME ConsoleInv, NEW r \in Requests, Serve(r), UNCHANGED console,
           alone /\ asked[r] # None /\ Progress(r) => Progress(r)'
    PROVE  ConsoleTypeOK' /\ AskedInv' /\ AloneInv' /\ ProgressInv' /\ ConsoleAgrees'
<1> USE DEF ConsoleInv
<1>1. UNCHANGED <<loaded, known, shown, picked, boxes, original, asked, alone, created>>
  BY DEF console, menu
<1>2. ConsoleTypeOK'
  BY <1>1 DEF ConsoleTypeOK
<1>3. AskedInv'
  BY <1>1, ServeOne DEF AskedInv, Running, Ended
<1>4. AloneInv'
  BY <1>1, ServeOne DEF AloneInv
<1>5. alone => /\ asked[r] # None
               /\ \A s \in Requests : asked[s] # None => s = r
  BY ServeOne DEF AloneInv
<1>6. ProgressInv'
  BY <1>1, <1>5 DEF ProgressInv
<1>7. ConsoleAgrees'
  BY <1>1, <1>5 DEF ConsoleAgrees, Busy
<1> QED
  BY <1>2, <1>3, <1>4, <1>6, <1>7

\* A request that is refused or fails says nothing of the copy.
LEMMA EndProgress ==
    ASSUME IInv, NEW r \in Requests, pc'[r] \in {"refused", "failed"}
    PROVE  Progress(r)'
BY DEF Progress, GroupProgress, MembersProgress, Running, IInv, TypeOK

\* What a request in progress is about.
LEMMA AskedKind ==
    ASSUME ConsoleInv, NEW r \in Requests, asked[r] # None
    PROVE  /\ asked[r] \in Asked
           /\ asked[r].kind \in {"create", "rename", "delete", "apply",
                                 "createUser", "saveUser", "deleteUser", "renameUser"}
           /\ asked[r].kind \in {"create", "rename", "delete"} =>
                 asked[r].cn \in Groups /\ asked[r].to \in Groups
BY DEF ConsoleInv, ConsoleTypeOK, Asked

\* The statements that lead to the bind or the removal of a group.
LEMMA GroupServe ==
    ASSUME ConsoleInv, NEW r \in Requests, UNCHANGED console, asked[r] # None, Progress(r),
           Insert(r) \/ Find(r) \/ Update(r) \/ Unbind(r) \/ FindUniqueNumber(r)
    PROVE  Progress(r)'
<1> DEFINE a == asked[r]
<1>1. UNCHANGED <<known, shown, asked, created>> /\ members' = members
  BY DEF console, Insert, Find, Update, Unbind, FindUniqueNumber, directory
<1>2. /\ pc \in [Requests -> {"idle"} \cup Running \cup Ended]
      /\ op \in [Requests -> Ops] /\ seen \in [Requests -> SUBSET Users]
  BY DEF ConsoleInv, IInv, TypeOK
<1>3. pc[r] \in {"insert", "find", "update", "unbind", "number"}
  BY DEF Insert, Find, Update, Unbind, FindUniqueNumber
<1>4. a.kind \in {"create", "rename"} /\ GroupProgress(r)
  BY <1>3, AskedKind DEF Progress, Serving, Running
<1>5. CASE pc'[r] \in {"refused", "failed"}
  BY <1>5, EndProgress DEF ConsoleInv
<1>6. CASE Insert(r) /\ pc'[r] = "number"
  <2>1. UNCHANGED <<op, seen, exists>> /\ a.kind = "create"
    BY <1>2, <1>4, <1>6 DEF Insert, End, Go, directory, Progress, Serving, Running
  <2> QED
    BY <1>1, <1>6, <2>1, <1>4 DEF Progress, GroupProgress, Serving, Same, Shows, Running, Insert
<1>7. CASE Find(r) /\ pc'[r] = "update"
  <2>1. /\ UNCHANGED <<op, exists>> /\ seen'[r] = members[a.cn] /\ a.cn \in exists
        /\ a.kind = "rename"
    BY <1>2, <1>4, <1>7
    DEF Find, End, Go, directory, Progress, GroupProgress, Serving, Running
  <2> QED
    BY <1>1, <1>4, <1>7, <2>1 DEF Progress, GroupProgress, Serving, Same, Shows, Running, Find
<1>8. CASE Update(r) /\ pc'[r] = "unbind"
  <2>1. /\ UNCHANGED <<op, exists, seen>> /\ a.kind = "rename" /\ op[r].cn \in exists
        /\ op[r].to = op[r].cn \/ op[r].to \notin exists
    BY <1>2, <1>4, <1>8 DEF Update, End, Go, directory, Progress, Serving, Running
  <2> QED
    BY <1>1, <1>4, <1>8, <2>1 DEF Progress, GroupProgress, Serving, Same, Shows, Running, Update
<1>9. CASE Unbind(r) /\ pc'[r] \in {"number", "bind"}
  <2>1. /\ UNCHANGED <<op, seen>> /\ a.kind = "rename" /\ op[r].cn \in exists \ Protected
        /\ exists' = exists \ {op[r].cn}
    BY <1>2, <1>4, <1>9 DEF Unbind, End, Go, directory, Progress, Serving, Running
  <2>2. op[r].cn = a.cn /\ op[r].to = a.to /\ exists = known /\ Same /\ seen[r] = members[a.cn]
        /\ (a.to = a.cn \/ a.to \notin known)
    BY <1>4, <1>9 DEF GroupProgress, Unbind, Running
  <2>3. /\ a.cn # Default
        /\ shown[a.cn] \subseteq seen[r] /\ seen[r] \ shown[a.cn] \subseteq Hidden
    BY <2>1, <2>2, ConsoleAssumption DEF Same, Shows
  <2> QED
    BY <1>1, <1>9, <2>1, <2>2, <2>3 DEF Progress, GroupProgress, Serving, Same, Shows, Running
<1>10. CASE FindUniqueNumber(r)
  <2>1. UNCHANGED <<op, seen, exists>> /\ pc[r] = "number" /\ pc'[r] = "bind"
    BY <1>2, <1>10 DEF FindUniqueNumber, Go, directory
  <2> QED
    BY <1>1, <1>4, <2>1 DEF Progress, GroupProgress, Serving, Same, Shows, Running
<1>11. pc'[r] \in {"refused", "failed", "number", "update", "unbind", "bind"}
  BY <1>2 DEF Insert, Find, Update, Unbind, FindUniqueNumber, End, Go
<1> QED
  BY <1>2, <1>5, <1>6, <1>7, <1>8, <1>9, <1>10
  DEF Insert, Find, Update, Unbind, FindUniqueNumber, End, Go

\* The bind of a group, new or renamed, and its removal.
LEMMA BindProgress ==
    ASSUME ConsoleInv, NEW r \in Requests, UNCHANGED console, asked[r] # None, Progress(r), Bind(r)
    PROVE  Progress(r)'
<1> DEFINE a == asked[r]
<1>1. /\ UNCHANGED <<known, shown, asked, created>>
      /\ exists \subseteq Groups /\ members \in [Groups -> SUBSET Users]
      /\ pc \in [Requests -> {"idle"} \cup Running \cup Ended]
  BY DEF console, ConsoleInv, IInv, TypeOK
<1>2. /\ pc[r] = "bind" /\ pc'[r] = "ok" /\ op[r].to \notin exists
      /\ exists' = exists \cup {op[r].to}
      /\ members' = [members EXCEPT ![op[r].to] = seen[r]]
  BY <1>1 DEF Bind, End
<1>3. a.kind \in {"create", "rename"} /\ a.cn \in Groups /\ a.to \in Groups
  BY <1>2, AskedKind DEF Progress, Serving, Running
<1>4. /\ op[r].cn = a.cn /\ op[r].to = a.to /\ Same
      /\ exists = IF a.kind = "rename" THEN known \ {a.cn} ELSE known
      /\ a.kind = "create" => a.to = a.cn /\ seen[r] = {}
      /\ a.kind = "rename" => /\ a.cn \in known /\ shown[a.cn] \subseteq seen[r]
                              /\ seen[r] \ shown[a.cn] \subseteq Hidden
  BY <1>2, <1>3 DEF Progress, GroupProgress, Running
<1>5. CASE a.kind = "create"
  BY <1>1, <1>2, <1>3, <1>4, <1>5 DEF Progress, GroupProgress, Same, Shows, Running
<1>6. CASE a.kind = "rename"
  BY <1>1, <1>2, <1>3, <1>4, <1>6 DEF Progress, GroupProgress, Same, Shows, Running
<1> QED
  BY <1>3, <1>5, <1>6

LEMMA DeleteProgress ==
    ASSUME ConsoleInv, NEW r \in Requests, UNCHANGED console, asked[r] # None, Progress(r),
           DeleteGroup(r)
    PROVE  Progress(r)'
<1> DEFINE a == asked[r]
<1>1. /\ UNCHANGED <<known, shown, asked, created, members>>
      /\ pc \in [Requests -> {"idle"} \cup Running \cup Ended]
  BY DEF console, DeleteGroup, ConsoleInv, IInv, TypeOK
<1>2. CASE pc'[r] = "refused"
  BY <1>2, EndProgress DEF ConsoleInv
<1>3. CASE pc'[r] # "refused"
  <2>1. /\ pc[r] = "delete" /\ pc'[r] = "ok"
        /\ exists' = exists \ {op[r].cn}
    BY <1>1, <1>3 DEF DeleteGroup, End
  <2>2. a.kind = "delete"
    BY <2>1, AskedKind DEF Progress, Serving, Running
  <2>3. op[r].cn = a.cn /\ Same /\ exists = known
    BY <2>1, <2>2 DEF Progress, GroupProgress, Running
  <2> QED
    BY <1>1, <2>1, <2>2, <2>3 DEF Progress, GroupProgress, Same, Shows, Running
<1> QED
  BY <1>2, <1>3

-----------------------------------------------------------------------------
(* Requests on members.                                                    *)

LEMMA MembersKind ==
    ASSUME ConsoleInv, NEW r \in Requests, asked[r] # None, Progress(r),
           pc[r] \in {"findAll", "next", "modify"}
    PROVE  /\ asked[r].kind \in {"apply", "createUser", "saveUser", "deleteUser", "renameUser"}
           /\ pc[r] = "findAll" => asked[r].kind \in {"deleteUser", "renameUser"}
           /\ MembersProgress(r)
BY AskedKind DEF Progress, Serving, Running

\* What a request asks for depends on the copy only.
LEMMA EffectStays ==
    ASSUME UNCHANGED console, NEW r
    PROVE  /\ UNCHANGED <<known, shown, asked, created>>
           /\ Effect(asked[r])' = Effect(asked[r])
           /\ Successor(asked[r])' = Successor(asked[r])
           /\ \A c : Unshown(c, asked[r])' = Unshown(c, asked[r])
BY DEF console, Effect, Successor, Unshown

\* Who is in a group but not shown there is found by findAllForUser only.
LEMMA FindAllProgress ==
    ASSUME ConsoleInv, NEW r \in Requests, UNCHANGED console, asked[r] # None, Progress(r),
           FindAllForUser(r)
    PROVE  Progress(r)'
<1> DEFINE a == asked[r]
           C(g) == [group |-> g, out |-> {a.user}, in |-> Successor(a)]
<1>1. /\ UNCHANGED <<exists, members, op, seen>> /\ pc[r] = "findAll" /\ pc'[r] = "next"
      /\ todo'[r] = Change({g \in exists : op[r].out \subseteq members[g]}, op[r].out, op[r].in)
  BY DEF FindAllForUser, directory, ConsoleInv, IInv, TypeOK
<1>2. /\ a.kind \in {"deleteUser", "renameUser"} /\ MembersProgress(r)
      /\ known = exists /\ Same
      /\ op[r].out = {a.user} /\ op[r].in = Successor(a)
      /\ a.user \in created => Successor(a) \subseteq created
  BY <1>1, MembersKind DEF MembersProgress, Running
<1>3. /\ todo'[r] = {C(g) : g \in {g \in exists : a.user \in members[g]}}
      /\ Effect(a) = {C(g) : g \in {g \in exists : a.user \in shown[g]}}
  BY <1>1, <1>2 DEF Change, Effect
<1>4. \A g : C(g).group = g /\ C(g).in = Successor(a) /\ C(g).out = {a.user}
  OBVIOUS
<1> HIDE DEF C
<1>5. Effect(a) \subseteq todo'[r]
  BY <1>2, <1>3 DEF Same, Shows
<1>6. ASSUME NEW c \in todo'[r] PROVE c \in Effect(a) \/ Unshown(c, a)
  <2>1. PICK g \in exists : a.user \in members[g] /\ c = C(g)
    BY <1>3
  <2>2. CASE a.user \notin shown[g]
    <3>1. g = Default /\ a.user \in created
      <4>1. a.user \notin Hidden
        BY <1>2 DEF ConsoleInv, AskedInv
      <4> QED
        BY <1>2, <2>1, <2>2, <4>1 DEF Same, Shows
    <3> QED
      BY <1>2, <1>3, <1>4, <2>1, <2>2, <3>1 DEF Unshown
  <2> QED
    BY <1>3, <2>1, <2>2
<1>7. Pending(r)' = todo'[r]
  BY <1>1 DEF Pending
<1>8. \A g : Reached(r, g)' = shown[g]
  BY <1>5, <1>7, EffectStays DEF Reached
<1>9. asked'[r] = a /\ known' = exists'
  BY <1>1, <1>2, EffectStays
<1>10. \A g \in exists' : Shows(Reached(r, g), g, members[g])'
  BY <1>1, <1>2, <1>8, EffectStays DEF Same, Shows
<1>11. /\ \A c \in Pending(r)' : c \in Effect(asked[r])' \/ Unshown(c, asked[r])'
       /\ Effect(asked[r])' \ Pending(r)' = {}
  BY <1>5, <1>6, <1>7, EffectStays
<1>12. MembersProgress(r)'
  BY <1>1, <1>9, <1>10, <1>11 DEF MembersProgress
<1> QED
  BY <1>1, <1>2, <1>9, <1>12 DEF Progress, Serving

\* The next change is taken from what is left of the list.
LEMMA LookupProgress ==
    ASSUME ConsoleInv, NEW r \in Requests, UNCHANGED console, asked[r] # None, Progress(r),
           NEW c \in todo[r], Lookup(r, c)
    PROVE  Progress(r)'
<1>1. /\ UNCHANGED <<exists, members>> /\ pc[r] = "next"
      /\ pc \in [Requests -> {"idle"} \cup Running \cup Ended] /\ op \in [Requests -> Ops]
      /\ seen \in [Requests -> SUBSET Users] /\ todo \in [Requests -> SUBSET Changes]
  BY DEF Lookup, directory, ConsoleInv, IInv, TypeOK
<1>2. CASE pc'[r] = "failed"
  BY <1>2, EndProgress DEF ConsoleInv
<1>3. CASE pc'[r] # "failed"
  <2>1. /\ c.group \in exists /\ pc'[r] = "modify"
        /\ todo'[r] = todo[r] \ {c}
        /\ op'[r] = [op[r] EXCEPT !.cn = c.group, !.out = c.out, !.in = c.in]
        /\ seen'[r] = members[c.group]
    BY <1>1, <1>3 DEF Lookup, End
  <2>7. op'[r].cn = c.group /\ op'[r].out = c.out /\ op'[r].in = c.in
    BY <1>1, <2>1 DEF Ops
  <2>2. LookedUp(r)' = c
    BY <1>1, <2>7 DEF LookedUp, Changes
  <2>3. Pending(r)' = Pending(r)
    BY <1>1, <2>1, <2>2 DEF Pending
  <2>4. \A g : Reached(r, g)' = Reached(r, g)
    BY <2>3, EffectStays DEF Reached
  <2>5. /\ MembersProgress(r)
        /\ asked[r].kind \in {"apply", "createUser", "saveUser", "deleteUser", "renameUser"}
    BY <1>1, MembersKind
  <2>6. MembersProgress(r)'
    <3>1. known' = exists'
      BY <1>1, <2>5, EffectStays DEF MembersProgress, Running
    <3>2. /\ \A d \in Pending(r)' : d \in Effect(asked[r])' \/ Unshown(d, asked[r])'
          /\ \A d \in Effect(asked[r])' \ Pending(r)' : d.group \in exists'
      BY <1>1, <2>3, <2>5, EffectStays DEF MembersProgress
    <3>3. \A g \in exists' : Shows(Reached(r, g), g, members[g])'
      BY <1>1, <2>4, <2>5, EffectStays DEF MembersProgress, Shows
    <3> QED
      BY <1>1, <2>1, <2>2, <2>7, <3>1, <3>2, <3>3 DEF MembersProgress
  <2> QED
    BY <2>1, <2>5, <2>6, EffectStays DEF Progress, Serving
<1> QED
  BY <1>2, <1>3

\* What is made of the members is what was asked, when nobody has changed them
\* since they were read.
LEMMA ModifiedSame == ASSUME NEW now, NEW new PROVE Modified(now, now, new) = new
BY DEF Modified

\* No change takes out of a group whom another has put in.
LEMMA NoClash ==
    ASSUME ConsoleInv, NEW r \in Requests, asked[r] # None,
           asked[r].kind \in {"apply", "createUser", "saveUser", "deleteUser", "renameUser"},
           NEW c \in Effect(asked[r]), NEW d \in Effect(asked[r]), c.group = d.group
    PROVE  c.in \cap d.out = {}
<1> DEFINE a == asked[r]
<1>1. CASE a.kind = "apply"
  <2>1. a.put \cap a.del = {}
    BY <1>1 DEF ConsoleInv, AskedInv
  <2> QED
    BY <1>1, <2>1, ApplyEffect
<1>2. CASE a.kind \in {"createUser", "saveUser"}
  BY <1>2 DEF Effect
<1>3. CASE a.kind \in {"deleteUser", "renameUser"}
  <2>1. a.kind = "renameUser" => a.user # a.to
    BY DEF ConsoleInv, AskedInv
  <2>2. c.in = Successor(a) /\ d.out = {a.user}
    BY <1>3 DEF Effect, Change
  <2> QED
    BY <2>1, <2>2 DEF Successor
<1> QED
  BY <1>1, <1>2, <1>3

\* A change is made: it has reached the group that was looked up, and no other.
LEMMA ModifyProgress ==
    ASSUME ConsoleInv, NEW r \in Requests, UNCHANGED console, asked[r] # None, Progress(r),
           ModifyAttributes(r)
    PROVE  Progress(r)'
<1> DEFINE a == asked[r]
<1>0. PICK c : c = LookedUp(r)
  OBVIOUS
<1>1. /\ exists' = exists /\ pc[r] = "modify" /\ op[r].cn \in Groups
      /\ pc \in [Requests -> {"idle"} \cup Running \cup Ended]
      /\ todo \in [Requests -> SUBSET Changes] /\ members \in [Groups -> SUBSET Users]
  BY DEF ModifyAttributes, ConsoleInv, IInv, TypeOK, OpInv
<1>2. c.group = op[r].cn /\ c.out = op[r].out /\ c.in = op[r].in
  BY <1>0 DEF LookedUp
<1>3. /\ MembersProgress(r)
      /\ a.kind \in {"apply", "createUser", "saveUser", "deleteUser", "renameUser"}
  BY <1>1, MembersKind
<1>4. /\ c.group \in exists /\ seen[r] = members[c.group] /\ c \notin todo[r]
      /\ known = exists /\ (c \in Effect(a) \/ Unshown(c, a))
      /\ \A d \in todo[r] : d \in Effect(a) \/ Unshown(d, a)
      /\ \A d \in Effect(a) \ Pending(r) : d.group \in exists
      /\ \A g \in exists : Shows(Reached(r, g), g, members[g])
  BY <1>0, <1>1, <1>2, <1>3 DEF MembersProgress, Pending, Running
<1>5. CASE pc'[r] = "failed"
  BY <1>5, EndProgress DEF ConsoleInv
<1>6. CASE pc'[r] # "failed"
  <2>1. /\ pc'[r] = "next" /\ todo'[r] = todo[r]
        /\ members' = [members EXCEPT ![c.group] = (members[c.group] \ c.out) \cup c.in]
    BY <1>1, <1>2, <1>4, <1>6, ModifiedSame DEF ModifyAttributes, End
  <2>2. Pending(r)' = todo[r] /\ Pending(r) = todo[r] \cup {c}
    BY <1>0, <1>1, <2>1 DEF Pending
  <2>3. \A d \in Effect(a) \ todo[r] : d.group \in exists
    BY <1>4, <2>2
  <2>4. \A g \in exists \ {c.group} : Reached(r, g)' = Reached(r, g) /\ members'[g] = members[g]
    <3>1. ASSUME NEW g \in exists \ {c.group}
          PROVE  {d \in Effect(a) \ todo[r] : d.group = g} = {d \in Effect(a) \ Pending(r) : d.group = g}
      BY <2>2
    <3>2. \A g \in exists \ {c.group} : members'[g] = members[g]
      BY <1>1, <2>1 DEF ConsoleInv, IInv, TypeOK
    <3> QED
      BY <2>2, <3>1, <3>2, EffectStays DEF Reached
  <2>5. Shows(Reached(r, c.group)', c.group, members'[c.group])
    <3> DEFINE made == {d \in Effect(a) \ Pending(r) : d.group = c.group}
               out == UNION {d.out : d \in made}
               in == UNION {d.in : d \in made}
               made2 == {d \in Effect(a) \ todo[r] : d.group = c.group}
    <3>1. members'[c.group] = (members[c.group] \ c.out) \cup c.in
      BY <1>1, <1>2, <2>1
    <3>2. /\ Reached(r, c.group) = (shown[c.group] \ out) \cup in
          /\ Reached(r, c.group)' = (shown[c.group] \ UNION {d.out : d \in made2})
                                       \cup UNION {d.in : d \in made2}
      BY <2>2, EffectStays DEF Reached
    <3>3. Shows((shown[c.group] \ out) \cup in, c.group, members[c.group])
      BY <1>4, <3>2
    <3>4. CASE c \in Effect(a)
      <4>1. made2 = made \cup {c}
        BY <1>4, <2>2, <3>4
      <4>2. in \cap c.out = {}
        BY <1>3, <3>4, NoClash
      <4> HIDE DEF made, made2
      <4>3. /\ UNION {d.out : d \in made2} = out \cup c.out
            /\ UNION {d.in : d \in made2} = in \cup c.in
        BY <4>1
      <4> HIDE DEF out, in
      <4> QED
        BY <3>1, <3>2, <3>3, <4>2, <4>3 DEF Shows
    <3>5. CASE Unshown(c, a)
      <4>1. made2 = {} /\ made = {}
        BY <3>5 DEF Unshown
      <4> HIDE DEF made, made2
      <4>2. /\ UNION {d.out : d \in made2} = {} /\ UNION {d.in : d \in made2} = {}
            /\ out = {} /\ in = {}
        BY <4>1
      <4> HIDE DEF out, in
      <4>3. Reached(r, c.group)' = shown[c.group] /\ Shows(shown[c.group], c.group, members[c.group])
        BY <3>2, <3>3, <4>2
      <4> QED
        BY <3>1, <3>5, <4>3 DEF Shows, Unshown
    <3> QED
      BY <1>4, <3>4, <3>5
  <2>6. \A g \in exists' : Shows(Reached(r, g), g, members[g])'
    BY <1>1, <1>4, <2>4, <2>5, EffectStays DEF Shows
  <2>7. MembersProgress(r)'
    BY <1>1, <1>4, <2>1, <2>2, <2>3, <2>6, EffectStays DEF MembersProgress
  <2> QED
    BY <1>3, <2>1, <2>7, EffectStays DEF Progress, Serving
<1> QED
  BY <1>5, <1>6

\* The last change has been made.
LEMMA FinishProgress ==
    ASSUME ConsoleInv, NEW r \in Requests, UNCHANGED console, asked[r] # None, Progress(r), Finish(r)
    PROVE  Progress(r)'
<1>1. /\ UNCHANGED <<exists, members>> /\ pc[r] = "next" /\ pc'[r] = "ok"
      /\ todo[r] = {} /\ todo'[r] = {}
  BY DEF Finish, End, directory, ConsoleInv, IInv, TypeOK
<1>2. /\ MembersProgress(r)
      /\ asked[r].kind \in {"apply", "createUser", "saveUser", "deleteUser", "renameUser"}
  BY <1>1, MembersKind
<1>3. Pending(r)' = {} /\ Pending(r) = {}
  BY <1>1 DEF Pending
<1>4. \A g : Reached(r, g)' = Reached(r, g)
  BY <1>3, EffectStays DEF Reached
<1>5. /\ known' = exists'
      /\ \A d \in Effect(asked[r])' \ Pending(r)' : d.group \in exists'
  BY <1>1, <1>2, <1>3, EffectStays DEF MembersProgress, Running
<1>6. \A g \in exists' : Shows(Reached(r, g), g, members[g])'
  BY <1>1, <1>2, <1>4, EffectStays DEF MembersProgress, Shows
<1>7. MembersProgress(r)'
  BY <1>1, <1>3, <1>5, <1>6 DEF MembersProgress
<1> QED
  BY <1>1, <1>2, <1>7, EffectStays DEF Progress, Running

LEMMA ServeConsoleInv ==
    ASSUME ConsoleInv, NEW r \in Requests, Serve(r), UNCHANGED console
    PROVE  ConsoleTypeOK' /\ AskedInv' /\ AloneInv' /\ ProgressInv' /\ ConsoleAgrees'
<1> SUFFICES ASSUME alone, asked[r] # None, Progress(r) PROVE Progress(r)'
  BY ServeInvOf
<1>1. CASE Insert(r) \/ Find(r) \/ Update(r) \/ Unbind(r) \/ FindUniqueNumber(r)
  BY <1>1, GroupServe
<1>2. CASE Bind(r) \/ DeleteGroup(r)
  BY <1>2, BindProgress, DeleteProgress
<1>3. CASE DirectoryFails(r)
  <2>1. pc'[r] = "failed"
    BY <1>3 DEF DirectoryFails, End, ConsoleInv, IInv, TypeOK
  <2> QED
    BY <2>1, EndProgress DEF ConsoleInv
<1>4. CASE FindAllForUser(r) \/ ModifyAttributes(r) \/ Finish(r)
  BY <1>4, FindAllProgress, ModifyProgress, FinishProgress
<1>5. CASE \E c \in todo[r] : Lookup(r, c)
  BY <1>5, LookupProgress
<1> QED
  BY <1>1, <1>2, <1>3, <1>4, <1>5 DEF Serve

-----------------------------------------------------------------------------
(* The theorems.                                                           *)

LEMMA ConsoleInit == CInit => ConsoleInv
<1> SUFFICES ASSUME CInit PROVE ConsoleInv
  OBVIOUS
<1>1. IInv
  BY InitInv DEF CInit
<1>2. ConsoleTypeOK
  BY DEF CInit, ConsoleTypeOK, Closed, Boxes
<1>3. AskedInv
  BY DEF CInit, AskedInv, Init, Ended
<1>4. AloneInv /\ ProgressInv /\ ConsoleAgrees
  BY DEF CInit, AloneInv, ProgressInv, ConsoleAgrees
<1> QED
  BY <1>1, <1>2, <1>3, <1>4 DEF ConsoleInv

LEMMA ConsoleNextInv == ConsoleInv /\ [CNext]_cvars => ConsoleInv'
<1> SUFFICES ASSUME ConsoleInv, [CNext]_cvars PROVE ConsoleInv'
  OBVIOUS
<1>1. IInv'
  BY DirectoryInv DEF ConsoleInv
<1> SUFFICES ConsoleTypeOK' /\ AskedInv' /\ AloneInv' /\ ProgressInv' /\ ConsoleAgrees'
  BY <1>1 DEF ConsoleInv
<1>2. CASE LoadGroups
  BY <1>2, LoadInv
<1>3. CASE (\E users \in Selections : InitGroups(users)) \/ (\E g \in Ticked : SelectGroup(g))
  BY <1>3, PickInv
<1>4. ASSUME NEW r \in Requests, Apply(r)
      PROVE  ConsoleTypeOK' /\ AskedInv' /\ AloneInv' /\ ProgressInv' /\ ConsoleAgrees'
  BY <1>4, ApplyInv
<1>5. ASSUME NEW r \in Requests, NEW cn \in Groups, NEW to \in Groups,
             CreateGroup(r, cn) \/ RemoveGroup(r, cn) \/ EditGroup(r, cn, to)
      PROVE  ConsoleTypeOK' /\ AskedInv' /\ AloneInv' /\ ProgressInv' /\ ConsoleAgrees'
  BY <1>5, SendOnGroup
<1>6. ASSUME NEW r \in Requests, NEW u \in Users, NEW to \in Users,
             AddUser(r, u) \/ RemoveUser(r, u) \/ SaveUser(r, u) \/ EditUser(r, u, to)
      PROVE  ConsoleTypeOK' /\ AskedInv' /\ AloneInv' /\ ProgressInv' /\ ConsoleAgrees'
  BY <1>6, UserInv
<1>7. CASE Clicks
  BY <1>2, <1>3, <1>4, <1>5, <1>6, <1>7 DEF Clicks
<1>8. ASSUME NEW r \in Requests, Succeeded(r)
      PROVE  ConsoleTypeOK' /\ AskedInv' /\ AloneInv' /\ ProgressInv' /\ ConsoleAgrees'
  BY <1>8, SucceededInv
<1>9. ASSUME NEW r \in Requests, Refused(r) \/ OtherAsks(r)
      PROVE  ConsoleTypeOK' /\ AskedInv' /\ AloneInv' /\ ProgressInv' /\ ConsoleAgrees'
  BY <1>9, NotAloneInv
<1>10. ASSUME NEW r \in Requests, Serve(r), UNCHANGED console
       PROVE  ConsoleTypeOK' /\ AskedInv' /\ AloneInv' /\ ProgressInv' /\ ConsoleAgrees'
  BY <1>10, ServeConsoleInv
<1>11. CASE UNCHANGED cvars
  <2>1. ConsoleTypeOK'
    BY <1>11 DEF cvars, console, menu, ConsoleInv, ConsoleTypeOK
  <2> QED
    BY <1>11, <2>1, MenuInv DEF cvars, console
<1> QED
  BY <1>7, <1>8, <1>9, <1>10, <1>11 DEF CNext

\* The directory's invariant holds under a console, whatever page the answers
\* find; and while its administrator works alone and waits on the page for the
\* answers, the copy is behind the directory by exactly what the request in
\* progress has done (controllers.js over GroupDaoImpl).
THEOREM ConsoleInvariant == CSpec => []ConsoleInv
BY ConsoleInit, ConsoleNextInv, PTL DEF CSpec

\* An administrator who works alone, makes one request after the other, none of
\* them refused, and stays on the page of each until it is answered, has a
\* copy with the groups and members of the directory, but for protected users and
\* for users the console has created in the default group, whatever the directory held and
\* whatever was asked before (the success handlers of controllers.js, which
\* read the page and the form of the moment of the answer).
THEOREM CopyAgrees == CSpec => []ConsoleAgrees
<1>1. ConsoleInv => ConsoleAgrees
  BY DEF ConsoleInv
<1> QED
  BY <1>1, ConsoleInvariant, PTL

\* Next to other administrators, nobody takes the name of a group between its
\* check, or its unbind, and its bind (the monitor of GroupDaoImpl).
THEOREM ConsoleNameIsFree == CSpec => []NameStaysFree
<1>1. ConsoleInv => NameStaysFree
  BY DEF ConsoleInv, IInv, LockInv
<1> QED
  BY <1>1, ConsoleInvariant, PTL

\* Nor do two groups get the same number (findUniqueNumber).
THEOREM ConsoleNumbersDiffer == CSpec => []NumbersDiffer
<1>1. ConsoleInv => NumbersDiffer
  BY DEF ConsoleInv, IInv, NumberInv
<1> QED
  BY <1>1, ConsoleInvariant, PTL

\* And protected groups never leave the directory (GroupProtected).
THEOREM ConsoleProtectedStay == CSpec => ProtectedStay
<1>1. ConsoleInv /\ [CNext]_cvars => [Protected \cap exists \subseteq exists']_vars
  <2> SUFFICES ASSUME ConsoleInv, [CNext]_cvars, ~UNCHANGED vars
               PROVE  Protected \cap exists \subseteq exists'
    OBVIOUS
  <2>1. ASSUME NEW r \in Requests, Sent(r) PROVE UNCHANGED exists
    BY <2>1, ArrivalsKeepDirectory DEF Sent, UpdateUsers, Arrive, directory
  <2> QED
    BY <2>1, DirectoryStep, ServeKeepsProtected DEF ConsoleInv
<1> QED
  BY <1>1, ConsoleInvariant, PTL DEF CSpec, ProtectedStay

\* Next to other administrators, groups are added, renamed and removed as if
\* each were done at once (insert, update and delete of GroupDaoImpl).
THEOREM ConsoleGroupsAtOnce == CSpec => GroupsAreAtomic
<1>1. ASSUME IInv, RenameInv, NEW r \in Requests, Sent(r)
      PROVE  RenameInv' /\ UNCHANGED <<Names, number>>
  BY <1>1, ArrivesRename, ArrivalsRename DEF Sent, UpdateUsers
<1>2. RenameInv /\ ConsoleInv /\ [CNext]_cvars => RenameInv'
  <2>1. UNCHANGED vars /\ RenameInv => RenameInv'
    BY DEF vars, directory, RenameInv, RenameOf, Unbound
  <2> QED
    BY <1>1, <2>1, DirectoryStep, ServeRename DEF ConsoleInv
<1>3. RenameInv /\ ConsoleInv /\ [CNext]_cvars => [Directory!Next]_<<Names, number>>
  <2>1. UNCHANGED vars => UNCHANGED <<Names, number>>
    BY DEF vars, directory, Names, Unbound
  <2> QED
    BY <1>1, <2>1, DirectoryStep, ServeAtOnce DEF ConsoleInv
<1>4. CInit => RenameInv /\ Directory!Init
  BY DirectoryInit DEF CInit
<1>5. CSpec => Directory!Init /\ [][Directory!Next]_<<Names, number>>
  BY <1>2, <1>3, <1>4, ConsoleInvariant, PTL DEF CSpec
<1> QED
  BY <1>5 DEF GroupsAreAtomic, Directory!Spec, Directory!groups
=============================================================================
