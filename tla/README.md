# geOrchestra: a TLA+ model of its stateful parts

geOrchestra is a spatial data infrastructure: a set of Java web applications behind
one security proxy, and pages in JavaScript in front of some of them. Most parts are
stateless front ends or packaging of third-party servers. The program's own concurrent
state is in four places, and this directory models them: **extractorapp**, which queues
and runs extraction jobs; **ldapadmin**, which manages accounts, groups, organizations
and lost passwords over an LDAP directory and a PostgreSQL table; the **page of the
extractor**, which discovers a cart by asynchronous requests while a user edits it; and the
**viewer of mapfishapp**, whose map is filled by requests that answer in any order.

Paths below are relative to the repository; `E/` is
`extractorapp/src/main/java/org/georchestra/extractorapp/ws/extractor/`, `L/` is
`ldapadmin/src/main/java/org/georchestra/ldapadmin/`, `X/` is
`extractorapp/src/main/webapp/app/js/` and `M/` is `mapfishapp/src/main/webapp/app/js/`.

## 1. Inventory

| Part | State | Operations | What is hard |
|---|---|---|---|
| job queue of extractorapp (`E/task/ExtractionManager`, `ExecutionMetadata`, `PriorityThreadPoolExecutor`, `E/ExpiredArchiveDaemon`) | ready queue, paused map, cancelled queue; metadata of each job, shared by a task and its clones; the executor's work queue and threads | submit, updatePriority, updateStatus (cancel, pause, resume), cleanExpiredTasks; setRunning and setCompleted by the threads | the manager's methods are synchronized, the threads take no part in that lock and write the same metadata |
| one extraction (`E/task/ExtractionTask`) | result lists, temporary directories, archive, statistics rows | run: layers with up to three attempts, archive, mail, finally | where each exception is caught and what it skips |
| task administration (`E/ExtractorController`) | none | doExtraction, updateTask, getTaskQueue | three separate calls of the manager in updateTask |
| page of the cart (`X/GEOR_layerstree`, `GEOR_layeroptions`, `GEOR_dlform`, `GEOR`, `GEOR_ows`, `GEOR_waiter`, `GEOR_ajaxglobal`) | tree nodes with their options, counter of requests, mask, two shared panels of widgets, dialogs, button, address | capabilities, descriptions and metadata are answered; select, edit, tick, extract, dialogs, form, answer, timer | answers in any order, a counter decremented on every path, one panel for all nodes, dialogs while earlier requests are out |
| service clients and writers of extractorapp | files | WFS and WCS calls, conversion | external failures |
| lost passwords (`L/ws/passwordrecovery`, `L/ds/UserTokenDao`, `L/bs/Expired*`) | table `user_token`, HTTP sessions, schedule of the clean task | generateToken, setupForm, newPassword, clean run | each statement is its own transaction; clean task and sessions race |
| accounts (`L/ds/AccountDaoImpl`, `L/ws/backoffice/users/UsersController`, `L/ws/edituserdetails`) | entries under ou=users, USER group, organizations | create, update, rename, delete, set organization | reads before the DAO's lock, no transactions |
| groups (`L/ds/GroupDaoImpl`, `L/ws/backoffice/groups`) | group entries, counter of unique numbers | create, rename, delete, bulk membership; changes from accounts | rename is unbind then bind, members are read before the monitor and changed outside it |
| console of groups (`ldapadmin/src/main/webapp/privateui/js/controllers.js`) | copy of the groups, boxes of the roles menu | load, menu, apply, create, rename, delete | the copy is changed by what was asked, not by what the directory holds, and by the page and the form that the answer finds |
| organizations (`L/ds/OrgsDao`, `L/ws/backoffice/orgs`) | two entries per organization | create, rename, delete, membership | identifier generation, two entries kept in step |
| sign-up and moderation | PENDING group | create, accept, refuse | same DAO |
| mails, logs, exports of ldapadmin | none | I/O | — |
| security-proxy | configuration, sessions of the servlet container | proxying | I/O |
| atlas (`atlas/src/main/resources/camel/atlas_app.xml`) | table of print jobs, files | save, poll, print pages, bundle, mail, download | polling and state changes of a job, failures between routes |
| ogc-server-statistics (`OGCServicesAppender`) | buffer of log rows | append, flush, close | a failed insert, rows left in the buffer |
| opening of the viewer (`M/GEOR_mapinit`, `GEOR_map`, `GEOR_wmc`, `GEOR_wmcbrowser`, `GEOR_ajaxglobal`, `GEOR_waiter`) | layers of the map, requests out, waiting icon, silenced errors, windows of services | init, answers of contexts, capabilities, descriptions and file, contexts restored by users | every order of the answers; an icon hidden by hand before the monitoring starts and by it afterwards; a count of descriptions shared by contexts |
| tools of the viewer and document service of mapfishapp | widgets; files | query, edit, print; store, fetch | no state shared between requests |
| analytics, downloadform, catalogapp | files or rows, one at a time | I/O | no state between requests |
| cas, geoserver, geonetwork, geowebcache, epsg-extension | third party | — | — |
| header, commons, console, ldap, postgresql, build, docker, docs | configuration, schemas | — | — |

How the modelled parts interact. `ExtractorController.doExtraction` builds a task and
calls `submit`; administrators reach `updatePriority` and `updateStatus` through
`updateTask`; the pool threads run `ExtractionTask.run`, whose first and last
statements write the metadata that the manager reads; a timer calls the sweep. The
controllers of ldapadmin run one thread per request and share one DAO object, whose
`insert`, `update` and `delete` are synchronized; the directory keeps `memberOf`
in step with `member` by its overlay (`ldap/memberof.ldif`). Groups have a DAO object and
a monitor of their own, which `AccountDaoImpl` calls to take a deleted or renamed user out
of all groups. A console keeps a copy of the groups and changes it in the success handlers
of its requests. The page of the extractor ends in `doExtraction`. Lost passwords share the
accounts only through the uid in a row of `user_token`.

## 2. Modules

| Module | Models | Composes |
|---|---|---|
| `ExtractionManager` | the job queue, the futures and the pool threads | implements `JobTickets` |
| `JobTickets` | abstract: what the manager promises of a job | |
| `ExtractionManager_proofs` | theorems about `ExtractionManager`, that it implements `JobTickets` among them | extends it |
| `ExtractionTask` | one `run()` | the inside of the steps `SetCompleted` and `Crash` of the manager |
| `ExtractionTask_proofs` | theorems about `ExtractionTask` | extends it |
| `PasswordRecovery` | requests, sessions, clean task over `user_token` | |
| `PasswordRecovery_proofs` | theorems about `PasswordRecovery` | extends it |
| `LdapAccounts` | accounts, USER group, organizations of users | implements `AccountDirectory` |
| `AccountDirectory` | abstract: accounts that are created, moved, written and removed at once | |
| `LdapAccounts_proofs` | theorems about `LdapAccounts` | extends it |
| `CartTree` | the tree of the extractor's page and the handlers of its requests | |
| `ExtractorPage` | options, dialogs, form, answers and timers of that page | extends `CartTree`: both interleave on the options, the button and the nodes |
| `ExtractorPage_proofs` | theorems about the page and its tree | extends it |
| `MapInit` | the opening of the viewer, contexts, icon, silenced errors | |
| `MapInit_proofs` | theorems about `MapInit` | extends it |
| `LdapGroups` | requests on groups over the directory | implements `GroupDirectory` |
| `GroupDirectory` | abstract: names and numbers of groups that are added, renamed and removed at once | |
| `LdapGroups_proofs` | theorems about `LdapGroups` | extends it |
| `GroupsConsole` | one console with its copy of the groups | extends `LdapGroups`: its requests are requests of the DAO, next to those of other administrators |
| `GroupsConsole_proofs` | theorems about `GroupsConsole` | extends it and `LdapGroups_proofs` |
| `MCExtractionManager`, `MCPasswordRecovery`, `MCLdapAccounts`, `MCExtractorPage`, `MCMapInit`, `MCGroupsConsole` | instances for TLC | |

### ExtractionManager

A task `<<j, n>>` is the n-th `ExtractionTask` object of job j: the first is made by the
controller, the others by the cloning constructor in `updatePriority` and `pauseTask`.
Metadata (`state`, `priority`, `future`, and `old`, the age of `stateChangeTime`) is
per job, because the clones share it. `ready`, `pausedTasks` and `cancelledQueue` are
the three registries. `place` is where the executor has a task and `outcome` the state
of its `FutureTask`. `call` is the synchronized call in progress: a call is one step when
no thread can tell its statements apart, and several where it reads a state and acts on
it later (`PauseTask`, `SetPaused`, `HoldPaused`; `CancelTask`, `TestCancel`,
`MarkCancelled`, `CancelFuture`; `UpdatePriority`, `Reprioritise`). Between `Start` (the
check in `FutureTask.run`) and `SetRunning` a thread is committed but not yet visible:
that window is behind most of what goes wrong here.

`executor.remove(task)` has no effect, because the work queue holds futures; the
model has no step for it. `updateAllPriorities` and `removeTask` are not called
anywhere in the repository. `maxExtractions` has no effect on a pool with an unbounded
queue, so `MinThreads` is the number of threads.

`JobTickets` says: a job holds at most one ticket; a begin spends it, a pause withholds
it, a cancellation takes it away for good, and only a new submission issues another.
`TicketOf` in `ExtractionManager` is the refinement mapping.

### ExtractionTask

`pc` follows the statements of `run()`. Each service, file, mail or database call may
succeed or throw; the model keeps which handler catches it: outside the `try` block
(`StatSetRunningCrash`, `MakeDirectoriesCrash`) the state stays RUNNING; in the loop but
outside the inner `try` (`LayerDirectoryFails`, `HandlerThrows`) the rest of the layers,
the archive and the mail are skipped; an `IOException` of the archive is swallowed. A
statement of the statistics commits on its own; `dbFailed` is a history variable.
`testing = true` (used by the tests only) and the text of the failure report are left
out. A failure of the mail server itself is caught and logged, so `mailed` means that
`sendDone` was called.

### PasswordRecovery

Every request generates one UUID, hence a request names its token. `exist`, `delete`
and `insert` are separate steps; deleting or inserting zero rows is an error in
`AbstractUpdateCommand`. A session keeps its bean after an error. The clean task queries,
deletes row by row by uid, and its next run is due a delay after its end. `left` and
`failed` are history variables. `SetupForm` is limited to mailed tokens: a made-up token
is the same case as one that is gone.

### LdapAccounts

`entry` is the accounts, with a mail and one field that bodies may leave out (`phone`
stands for all of them). `member` and `memberOf` are kept by the overlay of the directory.
`lock` is the monitor of `AccountDaoImpl`. A request is a small process: what it read
before the lock is in its own record `req[r]`. `AccountContextMapper` throws on an account
in two organizations, so every read of such an account fails (`Mapped`). The form of the
users about themselves is `FindAccount` with a body without uid and organization. Users protected by `UserRule` are not in `Uids`. `OrgsDao.findForUser`
filters on a DN without the base DN, which matches nothing: `AddUserInOrg` removes
nothing.

`AccountDirectory` says what a client may count on while requests interleave: a uid that is created
or moved to is free, and a mail that is written is nobody else's, at the moment of the write.
`entry` is mapped to its `accounts` as it stands; the operations on USER, the memberships and the
reads are stutters.

### CartTree and ExtractorPage

JavaScript runs one handler at a time, so an action is a handler with all it calls, and what
interleaves is answers, timers and the user. `pending` is the requests of the tree: the
capabilities of every item of the cart, then a description for each WMS layer found,
then metadata for a raster. `counter` is the page's own count, which `CheckNullCounter`
decrements; at zero it hides the mask and starts the monitoring (`ready`). A handler
that raises before it has counted is in `raised`. `node[r]` is what stands in the tree
for layer r; an `error` node has no source and makes `getSpec` raise. `resolution[n]` stands
for the export options of a node, `custom` and `combo` for the two panels that all
nodes share: leaving a node saves the panel into it (`Saved`). `wanted` is a history
variable: the resolution last given to a node by a user or by metadata.

A click goes through at most four dialogs (`all`, `oversized`, `prompt`, `form`); what is sent is
computed from the nodes at the moment it is sent. `settled` and `asked` are history variables:
whether the tree was loaded at the click, and what the user agreed to. Several forms
and extractions may be out at once; `JobAnswered` closes the message box that is open,
`FormAccepted` the form window, whichever it is.

### MapInit

`opening` is how the page is opened. `wmc` is the request of `updateStoreFromWMC`, with
its continuation: after the user's context fails, the default one; after a posted context, the
posted layers. `caps`, `file`, `browsed` and `describing` are the other requests out,
`waiter` the counter of the icon, `expected` the variable `describeLayerCount`. An
answer that comes before `GEOR.ajaxglobal.init` is hidden by hand in some handlers and not
in others; `unhidden` counts the latter. A handler that raises, or that calls its own
failure handler after it has begun, is an action of its own (`ContextReadOddLayers`,
`InitLatestRaises`, `ContextFailed(TRUE)`). Two raises are left out: of the zoom to the custom
extent or of the callback itself, which stand in the `try` whose `catch` calls the failure handler
(no input of the page is known that makes them raise), and of `GEOR.wmc.read` when it has
already removed or added layers (`ContextFailed` leaves the map as it was). Extents, projections and how a context
document is written are left out; layers have a name and may have no address, in which case
they are counted and then discarded.

### LdapGroups and GroupsConsole

A request is a process whose `pc` goes from one operation of the directory to the next;
each operation is atomic, nothing else is. `lock` is the monitor of `GroupDaoImpl`:
`insert` and `update` hold it, `delete`, `addUser`, `deleteUser` and `modifyUser` do not. A
rename reads the group (`Find`), enters the monitor (`Update`), unbinds and binds. `todo` is the
changes of members a request has still to make, each a lookup and a modification of the
difference (`Lookup`, `ModifyAttributes`; `Modified` is external: what `modifyAttributes` of
spring-ldap does). `FindUniqueNumber` returns the number after the first free one, as
the code does. What `AccountDaoImpl` asks of the groups is a request too.

`GroupDirectory` knows the names and numbers of the groups, and a rename that is one step. The
refinement mapping `Names` counts a group that has been unbound and not bound yet (`Unbound`) as still
there under its old name: the unbind is a stutter, the bind is the rename. A bind that fails, or
that finds its name taken, is a removal.

`GroupsConsole` adds `known` and `shown`, the console's copy, and `asked`, what the success handler
of each request will do to it. Its requests run in `LdapGroups`; requests of other administrators
share the requests in `Shared`. The handlers that rename or delete read `$routeParams` and the form
when they run, and the administrator may have gone to another page or have typed by then:
`Succeeded` takes any page and any form, so the model has no variable for the route. When the page holds no
group or user that the copy has, the handlers find nothing and change nothing. `Hidden` is the
protected users: `findAll` leaves them out of the groups, and `UsersController` refuses what is asked of them.

`alone` holds as long as nothing was refused, nobody else asked anything, and each answer found
the page and the form of its request; `created` is the users the console has created, and the users it has given their
place to since. Both are history variables of `ConsoleAgrees`, which is therefore a statement about an
administrator who works alone and waits on the page for the answer, and which excepts created users from the
default group, because no handler enters them in its copy.

## 3. Runs

| Run | Bounds | Shows |
|---|---|---|
| `extraction_manager` | 2 jobs, 2 task objects each, 1 thread, symmetric jobs | the inductive invariant and the four safety invariants the theorems generalize |
| `extraction_manager_live` | 1 job, 4 task objects, 2 threads | refinement of `JobTickets`; every queued task leaves; waiting ends |
| `extraction_task` | 3 layers, 3 attempts | every failure at every statement; each layer reported once; statistics agree; the run ends |
| `password_recovery` | 1 user, 3 requests, 1 session, delay 2, 5 ticks | the inductive invariant; `LinkIsNotLost`, `TokenAgeBounded` |
| `ldap_accounts` | 2 requests, 3 uids, 2 mails, 1 organization, 6 bodies | the inductive invariant; `EmailUnique`, `RoleMatchesAccounts`; refinement of `AccountDirectory`; `RequestsEnd` |
| `extractor_page` | a WMS layer and a WFS service of one layer, 2 resolutions, 2 clicks, 1 edit, 2 forms | counter and mask, options of every node, button, what is asked before what is sent, what the form declares |
| `map_init` | all 19 openings, 3 contexts (two layers, two layers of which one is discarded, none), 2 kinds on 2 servers, 1 context of the user | icon, callback, silenced errors (safety and liveness), order of the map |
| `groups_console` | 3 groups and 3 users of which one each is protected, 2 requests, one of them shared; any page and form at an answer | the inductive invariant; names and numbers during a rename, protected groups, refinement of `GroupDirectory`, the console's copy, every request ends |

Why the bounds are enough. Jobs of the manager meet only in the executor: one thread and
two jobs give every race for a thread, and two task objects of each every race of a
task with its clone; the deep run adds a third and a fourth generation, so that pause,
resume and priority change can follow each other on one job. Three layers are a first,
a middle and a last one. Two requests for a token can interleave in every way, a third
follows them; five ticks are more than two delays. Accounts interact through one mail or
one uid, so two requests that share both are the conflict; the third uid is the target
of renames. The handlers of the page tell a WMS item from a WFS item and a layer from a
service: one of each meets all of them, and the service in the cart is what
`CapabilitiesFailed` needs to count; two clicks let the answers of the first flow
meet the dialogs of the second, two forms let one be answered while another is open. One edit is
enough for an option to be saved to the wrong node. Two servers for a kind of layers give a last answer and
one that is not the last; a context of the user is answered before or after each of those
of the opening. Two requests on groups are a rename and what gets in its way; three
groups are its source, its target and a protected one; three users are one the console creates, the
one that it is renamed to, and a protected one who is a member. Requests, clicks and edits are bounded, so
`CHECK_DEADLOCK FALSE` is used where the system may come to rest; `ExtractionTask`
has an explicit end.

Fairness. `ExtractionManager`: a call that holds the lock goes on, some queued task is
taken when a thread is free, a task on a thread goes on (its services answer or time
out). Nothing is assumed of administrators or of the sweep. `WaitingEnds` needs no fairness
between jobs because the run has one job and a bounded number of submissions; with
a constant stream of high priority jobs a low one may starve, which is what a
priority queue means. `ExtractionTask`, `LdapAccounts` and `GroupsConsole`: the
thread of a request goes on, its monitor being left by whoever holds it. `MapInit`: some
answer keeps coming while requests are out, because a browser ends a request by a failure if
by nothing else; nothing is assumed of users. `ExtractorPage` states no liveness.

### Disagreements found while modelling

Each is a run that TLC refutes, with the line that promises otherwise in `PROJECT.json`.

| Run | What happens |
|---|---|
| `em_cancelled_delivered` | a job accepted for cancellation while a thread is between the future's check and `setRunning` is delivered |
| `la_one_org` | setting the organization of a user leaves the former one, and every read of the account then fails |
| `mi_on_top` | a file or layers given in the address and answered before the context are removed by it, though they are to be loaded "on top of the WMC" |
| `lg_untouched` | a group that is renamed while a user is added to it is bound again without that user |

Seen in the code on the way, and outcomes of the models where named, but without a run:

- the window of `em_cancelled_delivered`, during a change of priority, delivers the original and its
  clone (`UpdatePriority`, `Reprioritise`), and the original sets RUNNING on the metadata
  it shares with its queued clone, so `findTask` no longer finds the clone;
- the comparisons of `cleanExpiredTasks` are inverted: it forgets what has not expired and keeps
  what has (`CleanExpiredTasks`);
- `archiveExtraction` swallows an `IOException`, so a link is mailed for an archive that could
  not be written (`ArchiveExtraction`); an exception out of the loop completes the job
  without the second mail (`HandlerThrows`, `ArchiveThrows`); one before the `try` block leaves
  the job RUNNING for ever, without a mail (`MakeDirectoriesCrash`);
- the clean task deletes by uid what it has found by date, and so may delete a fresh token; the
  submission of a new password does not look the token up, so it works with a token
  that has been replaced, used or removed meanwhile;
- an unknown token gives an error instead of the recovery form that the javadoc of `setupForm`
  promises, because `findUserByToken` catches its own exception (`SetupForm`); a password
  changed with a token that is gone shows an error though it is changed (`DeleteToken`);
- `ExpiredTokenManagement.toMilliseconds` multiplies ints and wraps from 25 days on;
- an update of a user writes back the whole account that it read before the lock, so a field that
  its body leaves out may go back to an older value;
- an update of a user removes it from the organization read before the lock: of two concurrent changes
  of organization the second may leave that of the first (`RemoveOld`);
- a body that renames a user and sets the organization enters the old uid in it (`AddNew`);
- a body without manager removes the manager, because `setManager` is called with null;
- two creations may generate the same uid, and the second is refused (`InsertRefused`);
- a user created in a console, also under another uid later, is missing from the console's copy of the
  default group until it is loaded again (`created`);
- an administrator of the console who leaves the page before the answer, or types in its form: a group or
  user that was renamed or deleted stays in the copy as it was, or the group or user of the page gone
  to is renamed or removed there in its stead, though the comments say "Remove from all groups" and
  "Update the groups the user belongs to" (`Renamed`, `Deleted`, `Replaced`; `alone` excludes it from `ConsoleAgrees`);
- the README of ldapadmin says that an unknown mail shows "an email was sent"; the
  controller shows the form again;
- `findUniqueNumber` returns the number after the one it has checked (`FindUniqueNumber`); the
  counter only grows, which is why no number is given twice;
- a directory that fails between unbind and bind loses the group (`DirectoryFails`); the removal of
  who is seen as the last member removes the attribute, with whoever was added meanwhile
  (`Modified`); `groups_users` stops at the first group that is gone and leaves the changes before it done;
- when no service is in the cart, a failure of the capabilities of a layer raises on an
  undefined node before it counts, and the mask stays (`CapabilitiesFailed`); when the last answer
  comes before the mask is made, it stays too (`Stuck`); metadata that is not XML leaves
  its layer out of the tree (`MetadataNotXml`); once an error node has been selected no other
  node can be, and nothing can be extracted (`SelectError`);
- `OK` pressed twice in the download form starts two extractions (`SubmitForm`), and the answer of an
  extraction closes the question the next one was asking (`JobAnswered`);
- an entry of an unknown type in posted layers raises in the success handler: the monitoring never
  starts (`ContextReadOddLayers`); a latest context that cannot be parsed raises out of `init`
  (`InitLatestRaises`);
- a context without layers, or with a layer that is discarded, may leave errors silenced
  (excluded by name in `ErrorsComeBack` and `ErrorsReturn`), and an answer before the monitoring
  may leave the icon on (`unhidden`).

## 4. Proofs

`ExtractionManager_proofs` proves, for any set of jobs, any number of task objects and
any number of threads (`ManagerAssumption`), `Spec => []IInv` and from it
`TypeOK`, `OneRegistryEntry`, `OneStartable`, `WithdrawnCannotBegin` and
`WaitingIsQueued`. None of these is inductive alone: that a waiting job is not lost
needs to know which future the metadata holds (`FutureHeld`), that a resumed task is
fresh (`PausedIsFresh`), that a new clone was used nowhere (`Uncreated`), and what the
call in progress may still assume of the task it found (`CallKnows`). `OneStartable`
follows from `FutureHeld`: every startable task is the one in the metadata. The proof
has one lemma per action; the threads' actions touch the invariant only through
`place`, `outcome` and `state`.

The same module proves the refinement for every value of the constants: `Spec => TicketsSpec`.
The ticket of a job is read off its registries and its startable tasks, the tickets issued and spent are
the cardinalities of sets of its tasks, so each action is shown to leave a set alone or to
add one task to it. That the task which begins is the one with the live ticket, and
that no withdrawn job is given another, is `IInv`. The statements of a call in
progress and of a thread at work are stutters, but for the one that decides.

`ExtractionTask_proofs` proves for any number of layers that `IInv` is invariant and
that `EveryLayerReported` and `LogMatchesReport` follow. `LoopInv` says which layers are
settled at which statement, `LogInv` what the rows hold while the database has answered. The
action property `SettledOnce` follows from `LoopInv`, because the layer at hand is not
settled, and from a bound on the failed attempts (`TriesStep`).

`PasswordRecovery_proofs` proves for any users, requests, sessions and delay `LinkIsNotLost` and
`TokenAgeBounded`. The first is inductive once it is known whose token a row can hold and
that the request of it has been through its insert (`OwnerInv`, `TableInv`, `SessionInv`). The
second is not about ages but about the schedule: at any time the next run is at most a
delay away (`ClockInv`), and what the last run has left is younger than two delays when the
next one is due (`AgeInv`), also for the rows that a run has already passed.

`LdapAccounts_proofs` proves for any number of concurrent requests, any finite set of uids and any
mails and organizations (`AccountsAssumption`) `EmailUnique` and `RoleMatchesAccounts`. The
argument is the monitor of the DAO: only its holder is in the statements that write (`LockInv`), hence
what it has checked still holds when it writes (`CheckedInv`), though what was read before
the monitor may not. `RoleInv` extends `RoleMatchesAccounts` to the states in which a
request holds the monitor: `Away` is the account it has bound and not yet entered in the group, or
taken out of it and not yet unbound. `CheckedInv` also gives the refinement,
`Spec => AccountsAreAtomic`: `WritesAtOnce` maps the bind, the rename, the modification and the
unbind to a creation, a move, a write and a removal, and the mail is free then because it was found free in the monitor.

`LdapGroups_proofs` proves for any groups, users and number of concurrent requests `Spec =>
[]IInv`, and from it `NameStaysFree`, `NumbersDiffer` and `ProtectedStay`. That a name stays
free while a group is unbound is not inductive alone: it needs that only requests in
the monitor make names (`LockInv`), and that what is made has the name that was looked for
(`OpInv`). That numbers differ needs the counter to be above all of them, and the number carried by
a rename to be nobody else's (`NumberInv`). The assumption on the first state,
that its numbers differ, is `GroupsAssumption`.

The refinement of `GroupDirectory`, `Spec => GroupsAreAtomic`, needs one thing more, `RenameInv`: a
group that is away is not protected, no group has taken its name, and the number it comes back with
is the one it had; it is away for one request only, because no two requests are in the monitor. With it `Names` changes at the bind
alone (`BindAtOnce`), and a directory that fails between unbind and bind is a removal (`ServeAtOnce`).

`GroupsConsole_proofs` proves for any selections, protected users and other administrators (`ConsoleAssumption`)
`CSpec => []ConsoleInv`. On the directory a step of the console is the arrival of a
request, a step of one, or none (`DirectoryStep`), so what is proved of `LdapGroups` holds
under it: `NameStaysFree`, `NumbersDiffer`, `ProtectedStay`, `GroupsAreAtomic`. `ConsoleAgrees` speaks only
of the moments when the console has nothing out. A handler that finds the page and the form of its
request does what was sent (`Stayed`); one that does not ends what can be said of the copy. The invariant says at all others how far
the request in progress has come (`Progress`): a request on a group has left the directory as the
copy has it until its last operation, and changes just that; a request on members has made the
changes of `Effect`, what the handler will do to the copy, except those still `Pending`, so
that the directory is `Reached`. The order of the changes does not matter because no change
takes out of a group whom another has put in (`NoClash`): a group of the menu is ticked or unticked. Changes that the copy never gets are `Unshown`: they are all in the
default group, because users are not changed while they are protected. The assumption that the default group is protected is how the application is configured
(`protectedGroupList` in `ldapadmin/src/main/webapp/WEB-INF/spring/webmvc-config.xml`).

`MapInit_proofs` proves for any contexts, layers, kinds and servers (`MapAssumption`: a layer is named
apart by where it comes from) `Spec => []IInv`, and `IconBounded`, `InitOnce`, `ErrorsComeBack` and
the action property `KeptOnTop`. The icon is compared with a sum of cardinalities (`Out`), which
each answer takes one from (`AnsweredIcon`, `IconStep`). `SilenceInv` says why errors come
back: what is expected is at most what is being described, and is still above 0. `ContextInv` says
why posted layers are safe: while the first context is out, nothing else of `mapinit` is.

`ExtractorPage_proofs` proves for any cart `CounterCountsAnswers`, `ReadyWhenAnswered`,
`OptionsFollowNodes`, `GlobalIsShown`, `ButtonComesBack` and the action property
`OversizedIsAsked`. `TreeInv` rests on `RequestsFollow`: a description is asked for once, after
the capabilities of its item and before any node, so the requests that an answer adds are new and
the counter can be a cardinality. `PageInv` says where the last resolution of each node is: in the
node, or in the panel for the selected one. `AskInv` says that nothing the answer to a
dialog depends on changes while it is open, because a loaded tree does not change (`ReadyTree`)
and saving the options twice changes nothing (`SavedAgain`). The action property
`FormDeclaresJob` needs `FormInv`: what a form of the current click has declared in a loaded tree is what
the nodes and panels still say, because a node is ticked or edited only when no dialog is open.
`Invariant` is all of `IInv`, with what an open dialog may take from its click (`FlowInv`);
`ReadyWhenAnswered` and `GlobalIsShown` are parts of it, which TLC checks with the rest.

Only model-checked: liveness and fairness (`EveryTaskLeaves`, `WaitingEnds`, `RunEnds`,
`RequestsEnd`, `ErrorsReturn`), which is out of the prover's reach. Every invariant and every
action property of the passing runs is a theorem.

## 5. Not modelled

See the components of `PROJECT.json`, each with its reason.

- Rendering, parsing, mails, exports and third-party servers have no state of their own.
- Which print job of atlas a consumer locks, updates or deletes is decided by Camel's JPA component,
  which is not in the repository: a model would be about that component.
- Organizations are created, renamed and deleted by sequences of single operations without a lock,
  on entries that no other code changes; their members are in `LdapAccounts`. Sign-up is the
  `insert` of `LdapAccounts` with another group, moderation is `groups_users` of `LdapGroups`.
- The tools of the viewer keep a few widgets in step each and share nothing; the appender of
  statistics is called by log4j one event at a time.
- Of the modelled pages: the map of the extractor, its bounding box and the previews; extents and
  projections of contexts; the trees and lists of the console.

## 6. Plan

1. Done: the job queue, one extraction, lost passwords, accounts, groups with a console, the
   page of the extractor, the opening of the viewer; abstract specifications of the queue, the
   accounts and the groups, and the proofs that they are implemented; theorems about all of them.
2. An abstract specification of `user_token`: at most one link of a user is open, and which
   steps may close it.
3. `ResultsPanel`: the tabs of query results in the viewer, whose requests outlive the tabs.
4. `ExtractorAdmin`: the three calls of `updateTask` composed with `ExtractionManager`.
5. `Organizations`: the two entries of an organization during creation and rename.
