# Verification of the Disaster Orchestration and Rescue Sentinel

TLA+ specifications of the backend of this repository (NestJS, TypeORM,
PostgreSQL, Redis, socket.io), TLC configurations that check them on small
instances, and theorems about them that TLAPS checks for every instance.

## 1. The system

### 1.1 Components, their state and operations

| Component | State | Operations that change it |
|---|---|---|
| SOS request service (`sos-request.service.ts`) | `sos_request` rows: status, assigned team, ETA, history and audit rows | create, updateStatus, assignTeam, cancel; getTimeline reads |
| Dispatch orchestrator (`dispatch-orchestrator.service.ts`) | the same rows, `rescue_team` status and `activeCasesCount`, `dispatch_queue` | dispatchWithRetry, releaseTeamAndResolveQueue, dispatchManual |
| Offer listener (`sos-dispatch.listener.ts`) | events and 30 s timers in memory | handleSosCreatedEvent, the timer's callback |
| Retry worker (`dispatch-retry.service.ts`) | `isProcessing`, the list it goes through | processPendingDispatches, every 15 s |
| Dispatch gateway (`dispatch.gateway.ts`) | rooms; the rows of a claim | handleSosClaim, joins, location relay |
| Candidate strategy (`distance-based-dispatch.strategy.ts`) | travel times in memory | assignTeam: radius steps, routes, traffic, scores, ranking |
| Routing (`dijkstra`, `tomtom`, `ors`, city routing) | remembered routes and the daily count, in memory | calculateRoute with its fallbacks |
| Rescue team service | `rescue_team` rows | update, updateLocation, bulkUpdateStatus, create, delete |
| Rescue team members | `rescue_team_member` rows, `leaderId` of the team, roles | addMember, removeMember, updateMemberRole, leaveTeam |
| Flood requests | `flood_request` rows, Redis rate limit, SOS rows | create, updateStatus, approveMap, dispatch |
| Notification gateway | sockets, presence counters in Redis | connect, disconnect |
| Notification service and its listener | notification and recipient rows, delivery events in memory | send, delivery of a row, markAsRead, deletions |
| Authentication | accounts, refresh tokens, reset codes in Redis | register, login, refresh, logout, forgotPassword, resetPassword |
| Users and roles | `user`, `user_role`, `role`, `role_permission`, `permission` rows | create, update, bulkUpdate, delete, updateProfile, operations of roles |
| Guards and decorators | none | every request: which handler, which permission |
| Seeder and scripts | the same rows, from lists | seed, sync-permissions, scripts of one province |
| Dashboard | none | getCharts, getMapTasks, getStats: several queries each |
| Response cache, settings, devices, locations, equipment, specializations, uploads, mail, health | rows or entries of their own, external services | CRUD and queries |

### 1.2 How they interact

```
client --POST--> SosRequestService.create --event sos.created--> SosDispatchListener
                                                  |  offer to the best three teams, 30 s timer
leader --sos:claim--> DispatchGateway             |  timer: still unassigned?
   (transaction: request, team)                   v
operator --PATCH assign--> SosRequestService --> DispatchOrchestrator.dispatchWithRetry
                                 |                 strategy (no lock: rings, routes, scores)
                                 |                 -> transaction (teams locked)
                                 |                   team free  -> assign
                                 |                   none free  -> dispatch_queue
                                 |                   none found -> PENDING_SPECIALIST
operator --PATCH status / DELETE--> updateStatus, cancel
                                 |--> releaseTeamAndResolveQueue (team locked): next of the queue, or free
                                 '--> sosRepo.update with the object read at the start
DispatchRetryService (15 s) --> dispatchWithRetry for every unassigned request of its list

any service --send--> NotificationService --rows, then one event per row--> listener
                        listener --asks presence (Redis)--> socket room, or push to devices
map, strategy --> routing provider --TomTom within a quota, or Dijkstra over checkpoints
request --> guards (permission of the token's role) --> handler;  sync-permissions writes what they read
```

Everything runs in one Node.js process and shares the database; the seeder and
the scripts are processes of their own. A handler is
interrupted at every `await`; what it read before may be out of date after.
`repo.save` of an object SELECTs the row again and UPDATEs the columns in which the
object differs from what it SELECTed, with no lock between the two: an object read
earlier overwrites what others wrote since, and what they write between SELECT and
UPDATE is mixed with it. A column set to `undefined` is left alone.

### 1.3 What is hard here

* Five writers (REST handlers, claims, timers, the worker, operators) change the
  same request and team, some under `SELECT ... FOR UPDATE`, some from an
  object read before.
* The orders of the locks cross: a claim takes the request and then the team,
  a dispatch takes teams in the order of a ranking and then the request.
* A release and the save that follows it are separate commits; events and
  timers live in memory; the worker alone recovers what they lose.
* A team's case count is sometimes incremented and sometimes counted again.
* Members, accounts and roles are changed by several writes in no transaction;
  scripts and the seeder write the same tables from outside.
* Deliveries of one notification finish in any order while its readers delete
  it; who is online is counted by handlers that interleave command by command.
* Answers made of several queries (dashboard, candidate rings) see the rows at
  several moments; the timeline is told from rows any of which may be missing.

`PROJECT.json` lists each hazard at its line, with the properties that cover it.

### 1.4 What makes the components correct

* **Requests**: a closed request stays closed; a request is not left waiting
  beside free teams; the first claim wins.
* **Teams**: a team that may be given work has none; a team with work says so, but
  for the interleavings that section 6 names;
  no case is lost or counted twice; only free teams are assigned.
* **Queue**: a released team goes to the most severe and oldest request that
  waits for it; a queued request has no team.
* **Locks**: transactions are atomic, and circles of waiting are broken.
* **Candidates**: nobody free and in reach is overlooked; a team better in
  everything comes first.
* **Routes**: keep off the zones; the shortest dry way; "cut off" only if so.
* **Members, accounts**: one leader; one team per account; a live account has a
  role; a deleted one stays away. Nothing in the code orders the calls, so
  each of these has exceptions, which its property names one by one.
* **Notifications**: sent means tried; what is tried is closed; a read row
  stays read. **Presence**: online exactly while a socket is open.
* **Access**: the matrix in the source is the one in force; every endpoint has
  a role that may call it and a path that leads to it.
* **Reports**: counts of one answer fit together; a timeline tells the life.

## 2. Modules

| Module | Models |
|---|---|
| `DispatchRows` | request and team rows, and the ways transactions change them; shared by the modules below |
| `SosDispatch` | the dispatch core: every concurrent writer, the worker, timers, events, restarts |
| `AtomicAssignment` | abstract specification: each transaction in one step |
| `DispatchLocks` | the same transactions row lock by row lock, with rollbacks, deadlocks and plain saves; implements `AtomicAssignment` (`INSTANCE`, property `Atomic`) |
| `Candidates` | the search and the ranking that `Score` of `SosDispatch` takes as a choice |
| `FloodGeometry`, `Routing` | which roads a zone blocks; providers, fallbacks, quota, the search for the shortest dry way |
| `TeamMembership` | members of teams, their roles and the leader a team names, query by query, saves included |
| `FloodRequest` | flood reports, their review and the dispatch that makes an SOS request of one, over the rows of `DispatchRows` |
| `Presence` | connections of users counted in Redis, command by command |
| `Notifications` | extends `Presence`: sending, delivery and the inbox, query by query |
| `Accounts` | accounts and their roles: registering, editing, deleting, query by query |
| `Seeding` | extends `Accounts`: the seeder beside the server, the scripts of one province |
| `Endpoints` | what the controllers declare, the permission matrix, and how a path finds its handler |
| `Access` | extends `Endpoints`: the permission script beside the role service, and the guard |
| `Reports` | extends `SosDispatch`: the dashboard's answers, query by query |
| `Timeline` | the story of a request told from the history rows there are |
| `MC...` | the finite instances TLC checks |
| `SosDispatchProofs` (with `Reports`), `DispatchLocksProofs`, `TeamMembershipProofs`, `FloodRequestProofs`, `RoutingProofs`, `NotificationsProofs` (with `Presence`), `SeedingProofs` (with `Accounts` and `Access`), `CandidatesProofs` | the theorems |

`PROJECT.json` gives the lines of the source each definition models.

## 3. How state and actions correspond to the code

### 3.1 Steps

A step is what the code does between two `await`s that matter. What a handler
has read and uses after an `await` is kept in its context `ctx[p]` (`pc` says
where it is); `Idle` is a handler that has returned. Two conventions carry most
of the faithfulness:

* **Saves.** `repo.update(id, dto)` of the repositories is a read of the whole
  row, `Object.assign`, and `save`, which SELECTs the row again and UPDATEs the
  columns that differ from that (for instance
  `rescue-team.repository.ts:131-138`). These are three steps wherever others can come
  between: the read (`TeamRead`, or the read at the start of a call), the SELECT
  (`TeamSelect`, `SosSelect`, `SaveSelect`, ...) and the UPDATE (`TeamSave`, `SosSave`,
  `SaveUpdate`, ...), which waits for row locks and writes `Written(old, new, now)` of
  each column.
  TypeORM's `save` skips columns that are `undefined`, so
  `assignedTeamId = undefined` (`dispatch-orchestrator.service.ts:218`) and
  `leaderId: undefined` (`rescue-team-member.service.ts:209`) change nothing,
  and the models leave these columns alone.
* **Transactions.** In `SosDispatch` a transaction that holds its team's row
  lock is one step from the lock on; the request it read before, without a
  lock, is in `ctx`. `DispatchLocks` opens these steps up and
  `TransactionsAreAtomic` justifies taking them as one.

### 3.2 `SosDispatch`

| Variable | In the program |
|---|---|
| `sos[s]` | `sos_request`: `status` (`"NONE"` before it is created) and `assignedTeamId` |
| `team[t]` | `rescue_team`: `status` and `activeCasesCount` |
| `queue` | `dispatch_queue` rows; `at` stands for the time they were created |
| `events`, `timers` | `sos.created` events not handled yet, armed 30 s timers: memory of the process |
| `ctx[p]` | handlers and callbacks in flight, and the worker's dispatch |
| `batch` | the rest of the list the retry worker read when its round began |
| `torn` | history, see below |

`Create` ... `HandlerError` follow the order of the code: creation and event,
offer and timer, claim, scoring (`Score`, a choice among all rankings the pool
allows), the dispatch transaction (`CommitAssign`, `CommitQueue`, `Fallback`,
`CommitFails` with its retries), manual assignment, status changes,
cancellation, release and hand-off, edits of a team by an operator, the worker's
rounds. `Restart` empties everything that is not in the database.
`ListenerError`, `HandlerError`, `CommitFails` and `WorkerError` are the failures
the code catches or passes on.

Left out: history and audit rows (see `Timeline`), ETA and coordinates, who may
call what (see `Access`), broadcasts. The distance, score and traffic
computations appear only through the set of rankings they may produce
(see `Candidates`). Radius steps and the provinces' boxes are `Reach`.

One simplification to know about: `ManualCommit` and `Release` count the open
cases of a team in the step that writes the count (`DispatchLocks` counts when
the statement runs, which can be earlier than the commit).

`Refused` is `COUNT(*) ... FOR UPDATE` (`dispatch-orchestrator.service.ts:656-662`),
which PostgreSQL rejects: a dispatch that comes to it, because the team that would go is
no specialist and another candidate is one, is always rolled back. So nothing that
follows the count in `tryStartDualDispatch` is ever executed, and it is not modelled.

`torn` is a history of teams whose two columns somebody set apart: a save whose row
changed between its own SELECT and its UPDATE and which left a mixture of both
(`Tears`), or an operator who asks for such columns (`TeamEdit`: the DTO lets a PATCH set
status and `activeCasesCount` to anything).

### 3.3 `DispatchLocks` and `AtomicAssignment`

Each transaction runs once: `Begin...` reads what the code reads before its
first lock, `...Locks...` takes one row, `WriteSos` is the `UPDATE` of the request,
`Commit...` makes the writes visible and lets go of the locks. `Fails` is a
rollback anywhere, `Victim` the one of a circle that PostgreSQL aborts. `outcome`
says what the last commit did, so that the abstract specification can tell a
claim that won from one that lost. PostgreSQL's row locks are modelled from what
the code relies on and marked external in the map where they are not lines of
the repository.

### 3.4 `TeamMembership`

`rows` are `rescue_team_member` rows, `leader` the two leader columns of a team.
None of the four calls uses a transaction or a lock: each query is a step, an update of
a row three (`RoleRead`, `RoleSelect`, `RoleSave`; `TeamRead`, `TeamSelect`, `TeamSave`;
`OwnRoleRead`, ...), any other calls come between, a call may fail at every step, and
clients name rows of former members as well. Nothing is assumed of clients. What goes
wrong then is remembered in four histories, and the properties hold of everybody else:

| History | Grows when |
|---|---|
| `disturbed` (teams) | a call that appoints or takes away a leader begins while another such call of the team is under way, or takes away a former leader's row (`Overlaps`); a stale save makes a former leader active (`LetsBackIn`); a departure fails with the deputy promoted and the leader still there (`HalfDone`) |
| `doubled` (accounts) | two calls are adding the account at once, or a stale save makes its former row active (`Doubles`) |
| `outrun` (calls) | another call makes a member go after this one has counted them (`Outruns`) |
| `blind` (calls) | this one looks for a deputy on a page that is smaller than the team (`LooksAtPart`), or another call changes who leads or deputises meanwhile (`Confuses`) |

Each clause is needed: without any one of them TLC finds a property violated.

### 3.5 `FloodRequest`

`flood` are `flood_request` rows (status, `linkedSosId`, `isApprovedForMap`),
`origin[s]` the report an SOS request was made from (the code keeps it in the
audit log only), `sos`, `team` and `waits` the rows of dispatching. A review is
three steps: `UpdateStatus` or `ApproveMap` reads and decides, `SaveSelect` is the
SELECT inside TypeORM's `save`, `SaveUpdate` its UPDATE, which writes the columns
that differed and waits for the lock of a dispatch. Reviews and dispatches of one
report overlap freely; `undone` is the history of reports that a save wrote although
they were no longer what the saving call had read (`read` in `ctx`). A dispatch is
`DispatchBegin` (lock and checks), `Score` for an automatic one, and the commit of
everything its transaction wrote; `Fails` rolls it back. `TakenElsewhere`,
`ResolvedElsewhere` and `OffDutyElsewhere` sum up what `SosDispatch` and
`DispatchLocks` model in detail, at its best: counts are right there and a team's save
is one step, so that `CasesCounted` judges the flood dispatch alone. The cooldown per phone number is
left out: nothing else depends on it.

### 3.6 `Candidates`

One search for one request. `Scans` is the query of one ring, with the stop once
a ring gives enough; `ProviderAnswers` and `ProviderFails` are the route to a
candidate, `TomTomAnswers`, `TomTomFails`, `TakesKnownTime`, `NoTraffic` its travel time, `Ranks`
the scores. `TakesCase`, `ComesBack` and the other changes happen to teams in between; `steady`
remembers the teams nothing happened to. `Settings` are ways the rows of
`system_setting` and the environment may read: text where a number is wanted,
falling steps, missing rows, no threshold, a negative weight. Arithmetic is in whole numbers: scores
are multiplied out instead of divided, so a comparison is exact; `NaN` is a number
that no setting has otherwise, and what is compared with it comes out false. The query
of a ring orders by degrees of longitude and latitude, which is not the order by
distance: the new candidates of a ring are put into the pool in any order.
`SortedBy` is a stable sort, said by which element comes before which.

### 3.7 `FloodGeometry` and `Routing`

`isPointInPolygon`, `ccw` and `isSegmentIntersecting` are the code's tests over
whole-number points, with divisions multiplied out. A request (`ask[c]`) asks the
provider that `ROUTING_SERVICE` names; `CallsThenCounts` ... `FallsBack...` follow
TomTom's quota, its remembered routes (`known`, by ends and number of zones), its
failures, and the ways Dijkstra stands in. `Search` is the labels of the code's
priority queue, with the neighbours in the order of the file. `DayEnds` and restarts change the
counter, which lives in memory.

### 3.8 `Presence` and `Notifications`

`up[k]` and `down[k]` are `handleConnection` and `handleDisconnect` of socket `k`,
one step per Redis command; `Overlaps` says whether handlers of one user may
interleave. `Notifications` runs beside it: `send` saves the notification, then
its rows, then tells the listener; `job[r]` is the listener at row `r` (presence,
update, count of what is pending, closing the notification), `"lost"` once it can no
longer count; `call[c]` are
requests about the inbox, which find, then write. A template may name no channel: then
`send` saves no rows and tells nobody (`"mute"`), and the notification stays PROCESSING.
`markAllAsRead` takes rows whose delivery has not been tried (`Untried`). A mishap is a failing query or
Redis command, or a restart, which forgets events and sockets and keeps rows and
counters.

### 3.9 `Accounts` and `Seeding`

`user[p]` is the row of a person, deleted or not, `userRole[p]` the rows of
`user_role` in the order of their ids. TypeORM's `save` of a loaded row is
two steps here, a SELECT and an UPDATE of the columns that differ. `Seeding` adds
the seeder (`Plan` is the order of its tables, each row looked up before it is
written) and, on a quiet system, the scripts that make or remake the people of
one province. Passwords, tokens and addresses are left out: an edit that writes
nothing else is an edit of nothing. `Lists` are the ids of one `bulkUpdate`,
edited one after the other. The body of a profile or account edit may name any column,
`deletedAt` and `id` included: the pipes of `user.controller.ts:71` and `:137` strip
nothing, and the service hands the body on. The copy takes these columns, so its save
looks for the id the body named and writes over that row, or inserts one. An
administrator of the list whose province row is missing is not created, only
warned about, and if the account is there its province is left alone
(`seeder.service.ts:284`).

### 3.10 `Endpoints` and `Access`

`Routes` are all endpoints as the decorators declare them, in the order in which
the modules register them; `Handler` is the first route whose path matches.
`ROLE_PERMISSION_MATRIX` is the source's table. `Access` starts with tables that
have all but the permissions `New`; a run of `sync-permissions` goes entry by
entry and role by role (find, insert, find the role, find the grant, insert it)
while another run and calls of the role service go on. `PermissionGuard` reads
what there is; `steady` are the roles whose names their rows kept throughout. The role
service is `createRole`, `updateRole` and what follows it up to `save`, `deleteRole` and
`drop`.

### 3.11 `Reports` and `Timeline`

`Reports` is `SosDispatch` and one reader of several queries. `moved`, `back` and `joined`
remember what changed while the answer was made: whose status moved, who was reopened or
lost its team, who became one to show on the map. The curve selects by dates in UTC
(`Dated`), every other query by local days (`Shown`). `Timeline` is the life of one
request: `life` are the operations on it so far, `History` the rows each one
writes with their timestamps, `getTimeline` what the code makes of any subset of
them, of any subset of the audit log (`logAction` drops its errors too), or of the
request alone. A closed request refuses the calls of users, but dispatching may open it
again (`Unasked`), and then its row has `resolvedAt` before `assignedAt`. `MCReports` runs one or the
other, since neither reads what the other writes.

## 4. Runs

| Run | Checks | Bounds |
|---|---|---|
| `one_request` | types, `LoadMatchesStatus`, `ClosedAtRestIsFinal`, `NoRequestStarves` with every operation, any status a client may ask for, a failed commit and its retry, a restart | one request that needs equipment, a specialist team and another, one handler beside the worker, 2 calls, 1 retry |
| `locks` | `CopiesCurrent`, `Atomic` (refinement), `EveryTransactionEnds` | three transactions of any kind, one request, two teams, both rankings |
| `members_per_team` | `OneLeader`, `LeaderIsNamed`, `UserInOneTeam`, `RemovalLeavesSomeone`, `DeputyTakesOver` | a team and where else its account may be, two calls in flight, an account and two citizens, three rows ever created, pages of two |
| `flood_requests` | `LinkedBothWays`, `OnMapIsApproved`, `FinalStays`, `NobodyForgotten`, `CasesCounted` | a request for support and a declaration, two SOS requests, two teams, two calls in flight |
| `notifications` | `PresenceExact`, `SentMeansTried`, `NoOrphans`, `SettledWhenQuiet`, `ReadSticks`, `NobodyElseDeletes`, `PushSkippedOnlyIfThere` | two users, two sockets on different devices, a notification of up to two rows on one, two or no channels, two calls, one mishap |
| `routing` | `KeepsOff`, `DijkstraExact`, `RefusedMeansCutOff`, `QuotaKept` | two requests, four checkpoints and five roads, one bent, any two of four zones, a limit of one call, two starts |
| `candidates` | `NoneMeansNone`, `NearestConsidered`, `BetterTeamFirst`, `SmallGapsStaySmall` | three teams of which two are kept, two rings, six settings (NaN and negative weights among them), two changes to teams |
| `accounts` | `EveryAccountHasRole`, `SeedCompletes`, `DeletedStaysAway` | two administrators, the province of one not on the list, and a resident; two calls, two runs of seeder or scripts, one of them dying |
| `access` | `MatrixInForce`, `EveryEndpointHasCaller` | two new permissions, two runs, two calls, all endpoints |
| `reports` | `OutcomesAddUp`, `MissionsAreOnMap`, `TimelineTellsLife` | two requests, one team, one answer; lives of three operations after the creation, two teams |
| `closed_reopened`, `presence_overlap` | one statement of the code or a document each, which the code does not keep (section 6) | the smallest that show it |

Why the bounds are enough. What the dispatch properties are about is one request
against one team, or one team between two requests: `one_request` has the
first, with the worker beside a handler (claims and timers need no context of
their own); `reports` runs the hand-off between two requests of one team, and
`locks` the transactions of three actors.
`MaxRetry` is 1 or 0 instead of the code's 3: a retry differs from the
one before only in the count. `MaxQueue` = 2 lets both requests wait;
`MaxCandidates` = 2 takes every team there is. `MaxCalls` bounds the REST calls
(claims, the timer and the worker are not counted). A circle of lock waits
needs two transactions; three leave one to come in between. A save needs one other
writer to be torn, and `one_request` has the worker and claims beside its handler.

In `members_per_team` two rows and two calls give every overlap of two calls about a
leader and a deputy. The third row (`ThirdAlone`) makes a team larger than its
page; calls follow each other from then on, since overlaps are there already with two
rows. The second team is only a place where the account may be a plain member
(`Elsewhere`): teams share neither rows nor leader columns, only accounts.
`Undisturbed` stops where a team is disturbed or an account doubled, which the invariants
say nothing about any more; of the action properties such states are covered by the
theorems alone. In `flood_requests` two calls are enough for two dispatches of one report,
for a save across a dispatch and for two saves; the second SOS request is another
dispatch of the report, or one that comes from elsewhere.

In `notifications` two rows are what it takes for one listener to finish before
another, two calls for two last deletions at once; two sockets of one user on two
kinds of device, or of two users, are all pairs whose handlers can meet. In `routing` the graph
has a choice of ways, a bent road that a zone cuts between its ends, and zones
that together cut everything; a limit of one call is used up by the other
request. In `candidates` a third team is the one that is cut off when two are
kept, and a second ring is what a team can move to. In `accounts` the
administrators may be there already in another province, one locked and one deleted, and
the two make a next row for the seeder and a next account for an edit of several. In `access`
one new permission belongs to one role and one to two, so that a run has a next
role and a next entry; a role made by hand shifts all ids by one, so that an
id of the source names a different row. `TimelineTellsLife` needs an assignment, something
before and something after it. The theorems do not depend on any of these
bounds.

`CHECK_DEADLOCK FALSE`: the instances stop when the bounded calls, rows or
transactions are used up, and the program itself idles between calls.
Symmetry is used in runs without liveness properties only, where none of the
permuted values (teams, accounts, rows, requests, calls, clients, runs) is told apart by a
definition.

Each property of a passing run has a mutant in `PROJECT.json`: a change a bug
would make, defined beside the original in the module, under which TLC finds the
property violated.

## 5. Fairness

* `SosDispatch!Fairness`: the retry worker only. `setInterval` keeps calling it
  (`WorkerScan`, `WorkerRoundEnds`: weak fairness) and its dispatch runs to the
  end (`Dispatching(Worker)`). `WorkerRetry(s)` and the worker's commits get
  strong fairness: they are tried round after round, and a database that fails
  now and then does not fail every time. Clients, timers, claims and handlers
  owe nothing; a restart may lose all of them.
* `DispatchLocks`: weak fairness of a transaction that can proceed (the server
  hands out free locks) and of `Victim` (PostgreSQL's `deadlock_timeout`).
* The other specifications state none: what must come about there is said of
  states in which nothing is under way (`SettledWhenQuiet`, `SeedCompletes`).

## 6. Where code and documents disagree

| Run | What happens |
|---|---|
| `closed_reopened` | a request cancelled while its dispatch is scored, or while it waits in a team's queue, is dispatched again: neither transaction looks at its status |
| `presence_overlap` | a user who reconnects while the last handler of a closed socket is still at work stays offline with an open socket |

`findings` in `PROJECT.json` quotes the line each one contradicts. More
divergences are visible in the models or were met in the source and have no run
of their own.

Dispatching:

* A manually chosen team is checked before its row is locked and not after
  (`sos-request.service.ts:430`, `dispatch-orchestrator.service.ts:519`): a team
  that takes a case meanwhile is assigned; `docs/PROJECT_RULES.md:1597` wants a
  free one.
* A hand-off counts the request it has just saved and then adds one for it
  (`dispatch-orchestrator.service.ts:439`; the comment at line 429 says the load
  stays what it was).
* `COUNT(*) ... FOR UPDATE` (line 656) is refused by PostgreSQL, so a request that
  needs equipment is rolled back at every attempt that ranks another team before a
  specialist: it may wait for ever beside two free teams.
  `docs/final-dispatch-strategy.md:183` says no request is ever abandoned;
  `NoRequestStarves` leaves exactly this case out (`Mixed`). With a specialist only, or
  with none, the request is served.
* A team may get a free status and a case: an operator's PATCH of the status (or the
  BUSY of an arrival) SELECTs the row, waits for the dispatch that has it locked, and then
  UPDATEs the status alone, since the count did not differ
  (`rescue-team.repository.ts:131-138`). A row of (AVAILABLE, 0) that was to become
  STANDBY ends as (STANDBY, 1): dispatched, and offered to the next request.
  An operator may ask for such a row as well (`rescue-team.service.ts` checks nothing).
  `LoadMatchesStatus` says that nothing else sets the columns apart.
* The release of a team commits before the request is saved as RESOLVED or CANCELLED
  (`sos-request.service.ts:285`): if the save fails, or the process stops, the team is
  free and its request still open and assigned. Nothing repairs this.
* A recount reads other requests without locking them (line 533): one that a
  transaction not yet committed changes is counted as it was.
* A request that already has a team and is queued again keeps the old team in
  its row, PENDING, where the worker's query (`assignedTeamId IS NULL`) never
  finds it (`CommitQueue`; `dispatch-orchestrator.service.ts:218`).
* Automatic dispatch of a request that already has a team gives it a new one
  and leaves the old team's status and count as they were
  (`dispatch-orchestrator.service.ts:257`); BR-DISPATCH-06 of
  `docs/PROJECT_RULES.md:1602` takes the case off the old team.

History, timeline and dashboard:

* `TEAM_REASSIGNED` and `TEAM_RELEASED` (`sos-status-history.entity.ts:20-21`) are
  never recorded: line 571 of the orchestrator asks whether the team changed
  after it has been assigned. A manual assignment records `TEAM_ASSIGNED` twice.
* Rows of the history are written beside the transaction: one may be lost, and
  that of a hand-off may outlive a rollback. The row of the creation is written
  after the event that starts dispatching, so others may come before it. The rows of
  a request made from a flood report share one timestamp, and their order is arbitrary.
* The audit log, from which the timeline of a request without history is told, has no
  automatic assignment.
* The dashboard's total of outcomes leaves out CANCELLED and PENDING_SPECIALIST,
  and its households are counted by a role RESIDENT that does not exist.

Search and routes:

* `TOMTOM_TRAFFIC_ENABLED=false` in `.env` is a text and so true: traffic stays on
  (`docs/final-dispatch-strategy.md:259`). With traffic on, the weights by
  severity are ignored for the four of traffic. The realistic time is TomTom's time of
  a route of its own and not the ideal time with a factor (line 235 there).
* A threshold of zero or text makes scores NaN, as does a weight that is text; the
  validator only logs it. `BetterTeamFirst` and `SmallGapsStaySmall` are about settings that are
  sound (`SoundSettings`: a positive threshold, no negative weight).
* With `TOMTOM_MAX_CANDIDATES` zero as text, negative or no number, `slice` may leave no candidate
  and `ranked[0]` is undefined: the dispatch throws
  (`distance-based-dispatch.strategy.ts:96`, `:168`). `CandidatesAssumption` wants a positive number.
* `isEdgeBlocked` may miss a road with a point exactly on the line of a zone's
  side (`KeepsOff` is about roads in general position).
* A remembered TomTom route is found by its ends and the number of zones
  (`tomtom-routing.provider.ts:63`): when zones move, the old route, through the
  new zone, is answered until it expires. The quota of the traffic service only warns.

Flood requests, members, accounts, roles:

* The cooldown of a phone number is a get and then a set
  (`flood-request.service.ts:85`): two requests sent together both pass, one that
  fails later has used it up.
* The reviews of a flood report save what they read, without a lock, although
  both look at the status (`flood-request.service.ts:232`, `:345`). An
  administrator rejects a report while another one's dispatch commits: the save puts
  status and link back, the SOS request stays, nobody knows it came from the report,
  and the report can be verified and dispatched again. A rejection that overlaps an
  approval leaves a rejected report on the map. The lock that the comment at
  line 329 takes "to prevent race conditions" covers one of the three calls only. Such
  reports are `undone`.
* Members are changed without locks or transactions. Two appointments of one team at once
  leave two leaders; so do the removal of a former leader's row, which promotes a
  deputy beside the leader of now, a departure that fails after the deputy's
  promotion, and a save of a role read before its member left, which makes the member
  active again. An appointment beside a departure may leave a leader whom the team
  row does not name. Two removals at once empty the team
  (`rescue-team-member.service.ts:94` counts long before). An account added to two
  teams at once is in both: no index forbids it. A deputy who is not among the 20
  rows of the unordered page takes nothing over.
* A leader who leaves without a deputy stays named in the team
  (`leaderId: undefined` writes nothing, `rescue-team-member.service.ts:209`), which
  the search for led teams still accepts; `docs/SYSTEM_SPECIFICATION.md:135` says
  the fields are cleared.
* `docs/SYSTEM_SPECIFICATION.md:131` says an account may be in several teams;
  `addMember` refuses it with 409 (`rescue-team-member.service.ts:36-44`), and
  `UserInOneTeam` follows the code.
* A save of a whole row read earlier brings a deleted account back to life; this is
  the exception in `DeletedStaysAway`. So is a body that names `id` or `deletedAt`, which
  the pipes of `user.controller.ts:71` and `:137` let pass: with `id` the copy of one account is
  saved over another one, deleted or not. The seeder finds deleted accounts too: one
  that a late save has unlocked after its deletion, and that is deleted again, is
  unlocked once more by the copy the seeder made in between. An edit of the profile
  may set the volunteer flag without the role.
* `provinces.json` has no ids and `province.id` is generated
  (`province.entity.ts:34`), so a database filled by the seeder has provinces 1 to
  34; `admin-users.json` asks for up to 45. The administrators of six provinces
  (lines 45, 72, 216, 270, 279 and 297) are never created there, and most others are put
  in a province other than the one in their name (Cao Bằng is the second row, its
  administrator asks for 8). `SeedCompletes` speaks of those whose province is there.
* Three scripts make accounts without a role; the reset scripts delete the roles
  first and the accounts then, and a foreign key that refuses the second leaves the
  first done. `update-users-province2.ts` reads a column that does not exist under that
  name and updates nobody.
* Names of roles and permissions are not unique in their tables, so a run of
  `sync-permissions` beside another one may insert a permission twice, and one
  beside a renamed role grants to the first row of that name; `steady` in
  `MatrixInForce` keeps the second out. The seeder's roles cannot be deleted but can be
  renamed. The compiled `sync-permissions.js` is older than its source and grants
  by the ids of the source. `role.isActive` is consulted by no guard.
* The response cache of `global-cache.interceptor.ts` compares paths without the
  prefix `api/v1` that `main.ts:23` sets, and so never caches.

Notifications:

* A template may name no channel (a PUT with `[]` is accepted): `send` saves the
  notification, no rows and no events (`notification.service.ts:103-117`), and it stays
  PROCESSING for ever. So does one of which a restart or a failing query lost a delivery.
* `markAllAsRead` (`notification.service.ts:298`) makes a row READ that nobody has tried to deliver. The
  listener of another row then finds nothing PENDING and closes the notification; the
  delivery of the first goes on afterwards and writes SENT over READ.

## 7. What is proved

| Theorem | Says | Argument |
|---|---|---|
| `TypeCorrect` | `SosDispatch` keeps its types | `TypeInv` = `TypeOK` and, for each `pc`, which fields of the context are set (`Operands`): without it a commit could name no team |
| `LoadAlwaysMatches` | of the teams that are not `torn`, one that may be given work has no case, a DISPATCHED one has some, for any requests, teams, handlers and edits | `LoadInv` adds `HeldRowsOK`: a row about to be saved agrees as well. A save whose SELECT is still the row leaves that row whole; any other leaves the row it holds, the row of now, or a torn one |
| `ClosedStaysAtRest` | a closed request of which nobody holds a copy is never opened again | one step per action; `AtRest` is its own invariant because it names every place a copy can be |
| `LocksTypeCorrect` | `DispatchLocks` keeps its types | with `LocksInv` below |
| `CopiesStayCurrent` | past its `FOR UPDATE` a transaction holds the team's lock and its copy is the committed row | `LocksInv`: for each place of a transaction, the locks it holds and what it has read (`Held`) |
| `TransactionsAreAtomic` | `DispatchLocks` implements `AtomicAssignment` | identity on rows and outcome; a commit is the abstract transaction, by `LocksInv`; every other step stutters |
| `MembershipTypeCorrect` | `TeamMembership` keeps its types, whatever fails and whatever clients name | `Base` adds that active rows have a team and what a call knows of its operands (`Operands`) |
| `NeverTwoLeaders`, `TheLeaderIsNamed` | `OneLeader` and `LeaderIsNamed`: a team that is not `disturbed` has, between successions, one leader at most, whom its row names | `LeadInv`: such a team has one call at a time that appoints or takes away its leader, and that call has it in `Hand`, step by step (`HandsOver`, `TakesOver`); all other calls, their stale saves included, are `Quiet`: they make nobody leader and leave the named one |
| `NeverInTwoTeams` | an account that is not `doubled` is in one team at most, across the check and the INSERT | `UserInv`: an account that is being added is nowhere a member and is added by one call (`Single`) |
| `FloodTypeCorrect` | `FloodRequest` keeps its types | `FloodTypes` adds what a saving or dispatching call knows |
| `OneSosPerReport`, `MapShowsApproved`, `FinalReportsStay` | `LinkedBothWays`, `OnMapIsApproved` and `FinalStays` for any reports, requests, teams and calls, reviews across dispatches included | `FloodInv`: no two dispatches are about one report, since the first has locked its row (`Apart`); a dispatch holds the row of now, a save what it read and what its SELECT found (`CallOK`), which made sense unless the report is `undone`; an SOS request not made yet has no report |
| `QuotaIsKept` | a day's calls to TomTom stay within `DailyLimit` for every start of the process, for any requests in flight, graph and limit | `QuotaInv`: `paid` alone is not inductive, the next call is decided by `used`; so it bounds the calls by a limit for each earlier start and what the count of this start stands for (`Since`, zero if the count is of a day that is over) |
| `DijkstraIsExact`, `RefusedIsCutOff` | a way found is dry, connected and the shortest, and "cut off" is said only if there is none, for any graph, zones and clients | `SearchInv`, round by round: each label is the length of a dry way (`Truthful`), visited checkpoints have their shortest label, a label leads on from every visited one; there are at most `Len(Order)` rounds, and a way no label stands for would have a label no longer than it. `AskInv`: what a client holds is Dijkstra's answer to its question |
| `RoutesKeepOff` | every way of Dijkstra uses open roads only; it keeps off the zones if each road that runs through a zone is found to be blocked | `AskInv`; that the roads are found is geometry, of which see below |
| `NotificationsTypeCorrect` | `Presence` and `Notifications` keep their types | types of the hashes, handlers, rows, listeners and calls, step by step |
| `PresenceIsExact` | `PresenceExact` for any users, sockets, devices and failures, for users never disturbed | `PresenceInv`: such a user has one handler at work at most, what it has read is true (`HandlerOK`), and the hash counts the sockets but for what it has still to write (`Followed`) |
| `SentIsTried`, `NothingOrphaned`, `QuietIsSettled` | `SentMeansTried`, `NoOrphans`, `SettledWhenQuiet` for any rows, channels (none included), listeners, readers and deletions | `DeliveryInv`: an outcome is on a row only after its delivery was tried (`Outcomes`), a SENT notification has nothing PENDING (`NonePending`), and who is at work on each row that is PENDING, on each notification that is not closed and on each without rows (`BeingDelivered`, `BeingClosed`, `BeingDropped`) |
| `ReadStays`, `OnlyOwnDeletions`, `PushSkippedRightly` | the three action properties of the run | one step per action, under the invariants above |
| `CasesAreCounted`, `NobodyIsForgotten` | `CasesCounted` and `NobodyForgotten`, whatever calls overlap | `CasesInv`: a waiting request has no team, so a commit counts none twice |
| `SomeoneStays` | `RemovalLeavesSomeone`: a removal that nobody has outrun since it counted leaves a member | `RemovalInv`: two members are there from the count on, and whom the call promotes is one of them (`Counted`) |
| `ADeputyTakesOver` | `DeputyTakesOver` for any team, page and calls | `SuccessionInv`: a call that is not `blind` promotes one who is a deputy still, or there was none (`Succeeds`); a page that holds the whole team holds its deputies |
| `ChartsAddUp`, `MissionsOnMap` | `OutcomesAddUp` and `MissionsAreOnMap`, for any requests, teams and handlers running beside the queries | `ReportInv`: each query found of a request that has not moved what its status is now (`Fresh`); one that only went on is past what the queries found it to be (`Past`), so no two of them count it; whoever was not a marker and has become a mission since has `joined` |
| `RolesAreKept` | `EveryAccountHasRole` for any accounts, calls, runs and scripts | `RolesComing`: whoever has no role, though nothing died over it, is about to get one from a call, the seeder or a script |
| `DeletedAccountsStay` | `DeletedStaysAway` for any accounts and calls, whatever columns the bodies name | `Shape`: what a call is about to save was alive when it was copied, unless its body says otherwise |
| `SeedRunsComplete` | `SeedCompletes` for any list in the order of `seed()` | `Progress`: rows the run has passed are in place, for accounts no call has held (`Behind`, `Watched`), and what it knows of the administrator in hand (`InHand`); provinces and roles come first, so none appears later |

A proof that failed has changed a property: `DeletedStaysAway` used to say that the
seeder, too, undoes a deletion only with a copy made while the account was alive.
The step of the seeder could not be proved, and TLC found why with three
overlapping calls (an unlocking, two deletions), one more than the run has: the seeder's
copy was made of an account deleted but unlocked. The property now names this case. `SmallGapsStaySmall` used to
allow a weight of distance of exactly twice that of skill: then a gap of half the
threshold weighs as much as the skills, the scores are equal and the sort leaves the farther team where
it was. The instance has no such setting; the proof needed the strict comparison,
which the property now has.

About `Candidates`:

| Theorem | Says | Argument |
|---|---|---|
| `CandidatesInvariant` | types, and what pool and answer hold | below |
| `NobodyOverlooked` | `NoneMeansNone` for any teams, radii in any order and changes | `ScanIsComplete`: all that stayed free within a ring already asked are in the pool; a search ends with nobody after the last ring only |
| `NobodyPassedOver` | `NearestConsidered` for any number of candidates kept | the pool holds nothing from beyond the rings asked, so whoever is nearer than a candidate was within one of them, and was found; the cut to the nearest keeps who is nearer than one who is kept (`NearestIs`) |
| `RankingIsSound` | `BetterTeamFirst` for any candidates, settings and services | a comparison of two scores is a sum of four criteria with factors that are the same on both sides and not negative (`SumIs`, `SumsAreOrdered`); fractions of capacities compare transitively (`Fractions`), so the sort is one (`SortedIs`) |
| `ThresholdWorks` | `SmallGapsStaySmall` | the unit of distance is the threshold at least (`LargerIs`), so the gap's share is half at most |

About `Access`, whose theorem is at the end of `SeedingProofs`: that module extends
`Seeding` and `Access`, which have no variable in common.

| Theorem | States | How |
|---|---|---|
| `ScriptPutsMatrixInForce` | `MatrixInForce` for any rows of roles, any permissions the matrix gained, any number of runs and calls | `MatrixInv`: what a run is through with is in force for the roles still steady (`Covers`); to carry that over a step, a steady name must still find exactly the seeded row (`NamesKept`, which no write of the role service breaks, `WritesKeepNames`), and the permission and the role a run holds must be those of its entry (`HoldsPermission`, `HoldsRole`). Grants are only added, so what another run does takes nothing away (`OthersKeep`) |

Assumptions. `RowsAssumption`, `ConstantsAssumption`, `LocksAssumption`,
`MembershipAssumption`, `FloodAssumption`, `RoutingAssumption`,
`PresenceAssumption`, `NotificationAssumption`, `ReportsAssumption`,
`AccountsAssumption`, `SeedingAssumption`, `CandidatesAssumption` and
`AccessAssumption` say that constants have their types and that the special values are none of the ordinary ones; TLC evaluates them on
every run. Beyond that, `RoutingAssumption` wants a checkpoint in the file of the graph,
`NotificationAssumption` finitely many users, notifications and channels, of which there is one
(a template may still name none), `AccountsAssumption` that an `id` in a body is an id,
`MembershipAssumption` finitely many rows and a page of at least one, and
`SeedingAssumption` the order of `seed()`: provinces and roles before
administrators. The province of an administrator need not be on the list.

No theorem assumes anything about the order of calls, about what clients ask for or
about failures that do not happen: each is `Spec => ...`. What the code does wrong under
interleavings is in the properties, as the histories `torn`, `disturbed`, `doubled`,
`outrun`, `blind` and `undone` (sections 3.2, 3.4 and 3.5), which only grow by the steps named there;
and where a property is about no mishap it says so.

Checked by TLC only:

* The liveness properties `NoRequestStarves` and `EveryTransactionEnds`: liveness
  under fairness and `ENABLED` are out of the prover's reach.
* `KeepsOff` as far as it is geometry: that every road through a zone is among those
  `isEdgeBlocked` blocks. It is false for rings that cross themselves (the
  inside of a pentagram is outside by the rule of the code), so it holds of given zones.
* `TimelineTellsLife`: the timeline is built with operators of the community modules that
  filter, fold and sort sequences, whose definitions are recursive.
* `EveryEndpointHasCaller`: given `MatrixInForce` it is a fact about the endpoints and
  the matrix of the source as they are, which TLC computes, and not about any tables.
* What the violation runs show.

Induction over the natural numbers is done where it is needed (the rounds of the
search) by the least counterexample; the library's induction theorems take an
operator as a parameter, which the provers cannot instantiate, so nothing
is proved about what folds compute for every input. The modules declare no RECURSIVE operator.

## 8. What is not modelled

| Part | Why |
|---|---|
| Sessions: login, refresh tokens, logout, reset codes | planned, see section 9; registration is in `Accounts` |
| Response cache | never reached, see section 6 |
| Locations | read-only tables and geometry queries answered by PostGIS |
| Devices, equipment, specializations, settings | rows of their own, one query per operation; they meet the rest as inputs (`Settings`, `NeedsEquipment`, mismatches). Their endpoints are in `Endpoints` |
| Team creation, deletion, geocoding; other columns of any row | not read by what the models are about. A stale save of a team's row by an update of something else may bring back old leader columns, too; `TeamMembership` has the members' calls only |
| The dashboard's figures (`getStats`) and the counts of teams, regions and alerts; health | queries no property relates to another one |
| `sos:join` rooms, broadcasts, location relay | sent and forgotten |
| Throttling, validation of DTOs | decide on one request alone |
| Uploads, storage, mail | calls of outside services without state here |
| Scripts that import administrative units or set roles by fixed ids; `PermissionSeederService` | data, or never called |

## 9. Plan

Done in this order: `DispatchRows` with `SosDispatch`, `DispatchLocks` with
`AtomicAssignment`, `TeamMembership`, `FloodRequest` and the theorems about each;
then `Presence` and `Notifications`, `Routing`, `Candidates`, `Accounts` with
`Seeding`, `Endpoints` with `Access`, `Reports` and `Timeline`; then the theorems about
these, but for `Timeline`. Next:

1. The safety part of `NoRequestStarves` (an unassigned request is always visible to the
   worker, apart from those of section 6).
2. Sessions: refresh tokens, rotation, logout and devices; reset codes.
3. Small services whose several writes are not one transaction: devices,
   equipment, settings.
