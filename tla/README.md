# Vilzy backend: TLA+ models and proofs

Vilzy is a multi-tenant food-delivery backend: NestJS over PostgreSQL (Prisma),
with a Socket.IO gateway and in-process events (EventEmitter2).  This directory
models four parts of it as TLA+ modules: the life of an order from creation to
delivery, users and their sessions, the connections and rooms of the gateway, and
the catalogue with the checkout.  It checks them on small instances with TLC, and
proves the most important properties for every value of the constants with TLAPS.

Paths such as `src/modules/orders/orders.service.ts` are relative to the root of
the repository; `PROJECT.json` writes them with one more `src/` in front.

Contents: 1 Inventory · 2 Plan · 3 Modules and code · 4 Runs · 5 Bounds and
fairness · 6 Proofs · 7 Findings · 8 What is not modelled

## 1. Inventory

### Components

| Component | Code | State | Operations |
|---|---|---|---|
| Order life cycle | `src/modules/orders/orders.service.ts`, `orders.controller.ts` | `Order` rows: status, idDriver, idTenant | create, changeStatus, assignDriver, completeOrder, acceptOrder; two listings |
| Checkout | `OrdersService.create`, `dto/create-order.dto.ts` | `OrderItem` rows, subtotal, total | create's transaction |
| Dispatch | `src/modules/logistics/logistics.listener.ts` | `OrderOffer` rows; runs of `handleOrderReady` in flight | handleOrderReady, on `order.ready` |
| Drivers | `src/modules/drivers/*.service.ts` | `DriverProfile` (isOnline, position at sign-up) | createDriver, changeStatus, findNearbyDrivers, searches |
| Tracking gateway | `src/modules/logistics/gateways/tracking.gateway.ts`, `src/common/adapters/redis-io.adapter.ts` | Socket.IO rooms, over all processes; `DriverLocation` rows | handleConnection, update_location, join_order; listeners of `order.status_changed` and `order.offered` |
| Sessions | `src/modules/auth/auth.service.ts`, `strategies/jwt.strategy.ts` | `RefreshToken` rows | login, register, refreshToken, logout, logoutAllSessions, validate |
| Guards | `src/modules/auth/guards/*`, `constants/role-hierarchy.ts` | none | JwtAuthGuard, RolesGuard, WsJwtGuard |
| Users | `src/modules/users/users.service.ts` | `User` rows (role, isActive) | create, update, toggleActive, reads |
| Catalogue | `src/modules/products`, `src/modules/categories` | `Product`, `Category` rows | create, update, delete, reads |
| Tenants, restaurants | `src/modules/tenant`, `src/modules/restaurants` | `Tenant`, `Restaurant` rows | create, update, toggleActive, reads |
| Push notifications | `src/modules/notifications` | none | send; called by nobody |
| Plumbing | `src/main.ts`, `src/common`, `src/infrastructure` | none | filters, interceptors |

### How they interact

* **Database.** Everything durable is in PostgreSQL.  A handler sends
  statements one after the other; each statement is atomic, and between two of
  them any other handler may run.  Only the creation of an order and of a driver
  use a transaction, at the default isolation level.
  Updates name the row by id alone; conditions are checked on an earlier read.
* **Events.** `OrdersService` emits `order.ready` and `order.status_changed`
  once an update has returned; the logistics listener emits `order.offered`.
  Every listener is registered with `{async: true}`, so it runs later, from the
  process's `setImmediate` queue: one FIFO.  A listener that awaits lets
  the next event in.  Events are in memory only.
* **Sockets.** The gateway turns `order.status_changed` into a message to the
  room of the order, and `order.offered` into one message per driver's room.  Processes
  share rooms through Redis; `disconnectSockets` is published and not awaited.
* **Accounts.** Every route and every connection reads the user again
  (`JwtStrategy.validate`, `handleConnection`), so a deactivation takes effect
  at once; a refresh does not, it looks at the row of the token only.

### What is hard

The behaviours a unit test hardly reaches, each listed at its line under
`hazards` in `PROJECT.json`:

* *Read, decide, write by id*: two requests, or a request and the dispatch,
  that read the same status and write one after the other.  The second write
  undoes the first, whatever the transition table says.  Users and products are
  edited the same way.
* *The listener never reads back*: it writes `SEARCHING_DRIVER` and
  `OFFERED_TO_DRIVER` over whatever the order has become.
* *Emit after write*: two handlers commit in one order and emit in the other.
* *Half-done handlers*: a statement that throws, an answer that is lost after
  the row was written, one of several concurrent creates that fails, a crash
  that takes handlers in flight and queued events with it.  Nobody retries.
* *Nothing looks again*: an order with no driver near stays
  `SEARCHING_DRIVER`; offers have an `expiresAt` that nothing reads.
* *Refresh tokens* are matched with "some" unrevoked row of their device; that row is revoked,
  and a new one saved, in two statements; answers with new tokens get lost and old tokens are
  presented again; a token that finds no row ends every session of its user.
* *Sockets* look their room up, then have it disconnected, then join it, while
  others do the same and disconnects are on their way between processes.
* *Prices* are read before the items are written.

### What correctness means, per component

* **Orders**: no order skips a milestone of its life, whatever interleaves;
  tenants stay apart; once an order is final and nothing that read it earlier is in
  flight, it never changes.
* **Dispatch**: a ready order is dispatched while nothing fails; each
  `order.ready` gives each driver at most one offer; a driver hears only of
  offers that are recorded, and of all of them while nothing fails.
* **Gateway**: what a room is shown, the order really was, and what a request wrote is shown while nothing fails; a socket that a later
  connection found leaves the room, nobody is disconnected for want of a second
  connection, a handshake ends, and only those the order concerns or concerned
  are in its room.
* **Sessions**: every session begins by signing in with an active account, and one that ended comes
  back only by a refresh that had found it open before; a refresh revokes what it replaces; with devices that send one request at a time no session is
  rotated twice and no device is signed out by what others do.
* **Users**: an edit writes a user of its caller's tenant; nobody's tenant or driver profile ever changes.
* **Checkout**: subtotal and total are those of the items written; every item names a product that
  is there, of the order's restaurant and tenant, at a price it has had.

## 2. Plan

All blocks of the plan are done; each was modelled, then checked, then proved about.

1. **Delivery flow**: `OrderStatus`, `DeliveryStore`, `OrdersService`,
   `DriverDirectory`, `LogisticsListener`, `TrackingGateway`, composed by
   `Delivery`; abstract specification `OrderPromise`; properties in
   `DeliveryProperties`; proofs in `DeliveryProofs`, `DeliverySafety`, `ReadyProofs`, `OfferProofs`.
2. **Accounts**: `Users` and `AuthService`, composed by `Accounts`; abstract
   specification `SessionPromise`; properties in `AccountsProperties`; proofs in
   `AccountsProofs` and `SerialProofs`.
3. **`SocketRooms`**: connections, replacement of older sockets, `join_order`, drops, crashes of one
   process; `SocketProperties`, `SocketProofs`.
4. **`Checkout`**: order creation against concurrent updates and deletions of
   products; `CheckoutProperties`, `CheckoutProofs`.

What a next step would take: a composition of `SocketRooms` with the listeners of `TrackingGateway`,
should the gateway ever read back whether a message arrived.

No module that theorems reach uses a RECURSIVE operator.

## 3. Modules and code

| Module | Models | Notes |
|---|---|---|
| `OrderStatus` | enum `OrderStatus`, `validateTransition`, and the shortcuts of `assignDriver` and `completeOrder` | `Flow` is every pair some handler may write over the status it has *read*; `Needs` is a specification-side table of milestones |
| `DeliveryStore` | the `Order` and `OrderOffer` tables, the event queue | `reached` and `readied` are history variables; `faults` counts failures, for the bound |
| `OrdersService` | the five handlers that change orders | a request in flight is at `"update"` (has read and decided) or `"emit"` (has written) |
| `DriverDirectory` | `DriversService.changeStatus`, `update_location`, `findNearbyDrivers` | distances are a constant function of place; up to `OfferLimit` nearest, ties in any order |
| `LogisticsListener` | `handleOrderReady`, statement by statement | `"search"`, `"query"`, `"offer"`, `"create"` name the statement sent next; `"drain"` is a run that has thrown while creates it had sent are still going |
| `TrackingGateway` | the listeners of `order.status_changed` and `order.offered` | `shown`: last status sent to an order's room; `toTell`: turns of the loop to come; `told`: drivers whose turn has come |
| `Delivery` | the composition, `Crash`, fairness | |
| `OrderPromise` | abstract specification of one order's life | see below |
| `Users` | `UsersService.create`, `update`, `toggleActive`, `DriversService.createDriver`, the insert of `register`; `RolesGuard`, the hierarchy, `JwtStrategy.validate` | an edit in flight holds its caller's tenant and what it is about to write |
| `AuthService` | login, register, refreshToken, logout, logoutAllSessions over `RefreshToken` | a token is the number of its row; `parent`, `session` (of a row) and `everyOut` are history; `Serial` chooses between devices that present any token they ever had and devices that send one request at a time |
| `Accounts` | the composition, `Crash` | |
| `SessionPromise` | abstract specification of sessions, sign-ins and refreshes | see below |
| `SocketRooms` | `handleConnection` statement by statement, `disconnectSockets` over the processes, `join_order`, closing and crashing | `seen` is what the lookup found, `kicks` the disconnects on their way to each process; `kicked`, `hadAccess` are history |
| `Checkout` | `ProductsService.create`, `update`, `delete`; the transaction of `OrdersService.create` with lines, prices and totals | a checkout in flight holds the products it has read; `priced` is history |
| `DeliveryProperties`, `AccountsProperties`, `SocketProperties`, `CheckoutProperties` | the properties, the inductive invariants (`IInv`) and the refinement mappings | |
| `MCDelivery`, `MCAccounts`, `MCSockets`, `MCCheckout` | values of constants for TLC, symmetry | |
| `DeliveryProofs`, `DeliverySafety`, `ReadyProofs`, `OfferProofs`, `AccountsProofs`, `SerialProofs`, `SocketProofs`, `CheckoutProofs` | proofs | |

**Steps.** A handler is cut exactly where it awaits the database (or Redis): the read with
its checks is one action (`ChangeStatusRead`, `RefreshFind`, `FetchSockets`, `CheckoutRead`), each
statement that writes another (`ChangeStatusUpdate`, `RefreshRevoke`, `SaveRefreshToken`), and what
follows the last answer a step of its own when others can see it (`ChangeStatusEmit`).
Reads of rows that nothing in the module writes are joined to the next one: `assignDriver`
reads twice before it writes, and the second read only looks at a user's role and tenant.
`acceptOrder` emits nothing (its emit is commented out), so its update is its last step.
In the delivery flow `create` is one step; `Checkout` cuts the same transaction between
its reads and its writes, which at READ COMMITTED others may separate.

**Who may call.** `OrdersController` uses `JwtAuthGuard` alone; its `@Roles`
are metadata that no guard on it reads.  So any user with a session may call any
handler, and the only restrictions modelled are those in the service.  `UsersController` and
`DriversController.create` do use `RolesGuard`, and `Users` has its checks in their guards.

**The promise of an order.** `OrderPromise` states what survives all interleavings: an
order is created once, in one tenant for ever; every status it takes follows,
along the flow, *some status it has really had* (not necessarily the current
one); only a step to `ASSIGNED` names a driver, a driver profile of the order's
tenant; nothing un-names one.  The stronger reading, that the status moves along the
table from the *current* status, is false of the code: see section 7.  The
refinement mapping splits `orders` into its three columns and keeps `reached`.

**The promise of a session.** `SessionPromise` knows neither rows, tokens nor statements; it has the sessions there have
been, those that are open, and a *ticket* for each sign-in or refresh on its way.  A session begins (`Begin`) only with
the ticket of a sign-in, whose user was enabled when it was given, under a number no session has had, and the ticket is
spent.  A refresh takes a ticket of a session that is open (`Refresh`) and may leave that session open (`Renew`), once.
Otherwise sessions only end.  So one that has ended, with no refresh of it on its way, is over for good, whichever of its
tokens are presented again.  The mapping: a session is what a login's row and all rows rotated from it share
(`SessionAt`, by the history field `session`); it is open while one of its rows is unrevoked and unexpired, and *a refresh in
flight does not count as open*: between `RefreshRevoke` and `SaveRefreshToken` its session is closed, and the request
holds its ticket.  That a ticket may open a session which a logout has ended meanwhile is what the code does; the message
of `logoutAllSessions` says otherwise, and that is finding 5.

**Failures.** In the delivery flow, `RequestFails` is an update that throws (nothing written) or whose
answer is lost (written, never announced).  `DispatchFails` and `OfferFails` are
the same for the dispatch; after one `create` fails, `Promise.all` rejects and
the run ends, yet the other creates complete (`"drain"`).  `TellingFails` is a throw from
`fetchSockets`.  `Crash` empties what lives in the process.  In `AuthService` a
request fails before or after its statement, and the device keeps the token it had.  In
`SocketRooms` a lookup may throw (`Unauthorized`), a client may vanish at any moment and a process end with its
sockets.  In `Checkout` a transaction that fails leaves nothing.

## 4. Runs

| Run | Instance | Question and answer |
|---|---|---|
| `delivery_races` | 1 order, an admin and 2 drivers, 2 requests and 1 dispatch in flight, no failure | Can racing writers make an order skip a milestone, announce what was never written, or change it once it is settled?  No.  Every step is one of `OrderPromise`, and `IInv` is invariant |
| `delivery_faults` | an admin of one tenant and a driver of another, in either of which the order may be; READY written twice by racing requests, two dispatches at once, one failure or crash anywhere | Which guarantees survive a handler that stops half way?  Milestones, tenant isolation, offers per round (with those on their way), recorded offers, true announcements, settled orders.  And while nothing fails, is a READY order ever left with nobody about to dispatch it, or an offer in the table that nobody will tell?  No |
| `delivery_liveness` | 1 driver, 2 requests, `FairSpec` | Does the dispatch come round?  A READY order leaves READY; a recorded offer is told; an order READY while a driver stays near is offered; what a request wrote is shown to the order's room, also when two requests emit in the other order than they wrote |
| `accounts` | an administrator and a newcomer who registers, 2 devices, 2 requests and 1 edit in flight, up to 3 rows, 1 failure or crash | Can racing refreshes of any tokens, deactivations and failures begin a session without a sign-in, bring one back that no refresh in flight had found open, keep a rotated row alive, or let an edit out of its tenant?  No.  Every step is one of `SessionPromise` |
| `sessions_serial` | 2 users with 2 devices each that send one request at a time, up to 4 rows, 1 lost answer or crash | Does a session ever fork, or a device lose its session to what others do?  No |
| `sockets` | 3 connections of one driver over 2 processes, an order that changes hands, `FairSpec` | Who is disconnected by whom, who gets into an order's room, does every handshake end?  As section 1 says |
| `checkout` | a restaurant in each of 2 tenants, 2 products, 2 requests in flight, orders of up to 2 lines | Do totals match items, and do items name products that stand, while products are repriced and deleted?  Yes |
| `terminal_is_final` | races | violated: finding 1 |
| `completed_by_assignee` | races | violated: finding 2 |
| `dispatch_is_broadcast` | an administrator and a driver, 1 request at a time, `FairSpec` | violated: finding 3 |
| `refused_means_expired` | one user's serial devices, no failure | violated: finding 4 |
| `logout_all_ends_all` | one user's serial devices, no failure | violated: finding 5 |

The properties, each with a mutated definition of the code that breaks it under the same
configuration (`mutants` in `PROJECT.json`; the mutated forms stand in the modules beside what they
mutate, each marked `Mutant`):

* `MilestonesInOrder`: an order never *has had* a status without the milestone
  before it.  Not a restatement of the table: handlers write over rows they have not read.
* `AnnouncedWasTrue`, `OfferedMeansRecorded`: queue, rooms and tables agree, across failures.
* `ChangesAreShown` (liveness): the other direction.  While nothing fails, what a request has written is shown after it, even if
  another request writes the order before the emit.  Not that the last status shown is the one the order has: see section 7.
* `ReadyNeverForgotten`: relates a row to the requests, events and dispatches
  in flight.  Only while nothing fails: a lost `order.ready` leaves the order in
  READY for ever unless someone assigns it, which is what the code does.
* `OffersPerRound`: at most one offer per driver for each write of READY.
  Two racing requests give two writes, so two offers; the code has no unique key against it.
  `RoundsAddUp` adds what is on its way: offers made, runs that may still make one, events queued and
  requests about to announce READY are together no more than those writes.
* `OffersNeverForgotten`: the other end of a dispatch.  While nothing fails, the driver of an offer in the table has
  been told, or a run, a queued event or the gateway's loop still has the driver's name.
* `SettledIsFinal` (action property): a final order with nothing in flight is immutable, also by crashes.
* `TenantIsolation`: though updates name the row by id alone.
* `EditsStayInTenant` (of users, and of products): what an earlier query found in the caller's tenant is
  in it still when the edit writes by id.
* `AccountsArePermanent` (action property): tenant and driver profile of a user never change, so that `Delivery` may
  take them as constants.
* `RotationRevokes`: the row a refresh came from is revoked before the new one exists, across races and failures.
* `RotatedOnce`, `KeepsOwnSession`: what the refresh protocol gives a client that behaves (`Serial`).
  Without that discipline both are false, and the code does not ask for it: two refreshes sent at once fork
  a session, and a token presented again after its rotation may end every session of its user.
* `SeenAreKicked`, `NobodyKickedAlone`, `ReplacedLeaves`: the replacement of sockets, with
  disconnects that arrive late, after the join, or in another order in each process.
* `MembersHadAccess`: stale reads of `join_order` never let in somebody whom the order never concerned.
* `HandshakeEnds`: a connection ends in its room or closed.
* `OrdersAddUp`, `ItemsStand`: order, items and catalogue agree.
* `KeepsPromise`, `KeepsSessionPromise`: the refinements of section 3.  The mutant of the second lets a refresh find a row that
  is revoked: a token presented after a logout would bring its session back.
* `DispatchIsBroadcast` (liveness): says of a whole behaviour that an order which gets a driver is shown, at some time, in one
  of the statuses of its dispatch.  Checked with one request at a time, so that no race of two emits comes into it.
* `IInv`, in each component: the inductive invariant of the proofs, checked before it was proved.

## 5. Bounds and fairness

| Bound | Value | Why it is enough |
|---|---|---|
| orders (delivery) | 1 | handlers of different orders share only the event queue and the driver directory; a second order adds no writer to a row.  The theorems hold for any number |
| `Request` slots | 1 or 2 | a lost update needs a reader and a writer; with two slots and the dispatch there are three writers of one row; two refreshes of one device, or a refresh and another device's, race |
| `Dispatch` slots | 1 or 2 | two only when READY is written twice |
| `MaxReady` | 1 or 2 | writes of READY to one order; without it racing requests could ready an order again and again |
| `MaxBacklog` | 0 | no request *arrives* while events wait. Requests already in flight go on, so events still queue up behind one another and overtake writes. A read does not look at the queue and delivering an event writes no order, so a read made while events wait could as well be made just after their delivery |
| `MaxFaults` | 0 or 1 | one failure anywhere, then normal running; liveness, `ReadyNeverForgotten`, `OffersNeverForgotten` and `KeepsOwnSession` are claims about runs without any |
| `Asked`, `Assigned` | statuses a kitchen's and a driver's screens use, and ASSIGNED; the role CUSTOMER, or none | ASSIGNED asked for by hand, in `delivery_faults`, makes an order nobody's; SEARCHING_DRIVER and OFFERED_TO_DRIVER asked for are the writes of a dispatch made by a request. The theorems allow all twelve; which role a user is given decides who may edit next, not what an edit does |
| `Place` | one, within the radius | in reach or not is decided by being online and having reported; the theorems allow any distances |
| `OfferLimit` | 10 | the code's `LIMIT`; never reached with these drivers |
| `MaxRows` | 3 or 4 | rows ever saved: a login, its rotation and a row of another device or of a second rotation |
| `Client`, `Staffed` | one or two users | whose devices send requests; who has a `RestaurantStaff` row |
| `Edit` slots | 0 or 1 | an edit races the sessions and the registration of the user it writes |
| sockets | 3 of one user, each used once | the smallest number in which a replaced socket has replaced another; two on one process, one on the other |
| `Price`, `Line`, `MaxLines`, `MaxOrders` | 2 prices, 3 lines, orders of up to 2 lines, 1 order | a product twice in an order, two products, a price that changes in between; a second order reads no order |

Symmetry (slots, devices, and drivers of one tenant) is used in safety runs only, never
with liveness.  Deadlock is checked in the delivery runs and in `checkout`;
`accounts`, `sessions_serial`, `refused_means_expired`, `logout_all_ends_all` and `sockets` really come
to an end: when the rows of the bound are saved and expired and
nobody has anything to send, or when all sockets, each used once, are closed.

Fairness of `Delivery` (`FairSpec`) is weak fairness of each request in flight, each run of
the dispatch, the start of `handleOrderReady`, the gateway's listeners, and
each turn of the telling loop.  It stands for two facts: PostgreSQL answers every
statement, and Node's event loop comes round to every callback.  There
is none on arrivals (clients need not send anything), on drivers, or on
failures.  Fairness of `SocketRooms` is weak fairness of each socket's `HandlerStep` and of each
`KickArrives`: PostgreSQL and Redis answer, and Redis delivers what is published.  There is none on
connecting, closing, joining orders or crashing.  `Accounts` and `Checkout` state no liveness.

## 6. Proofs

`tlapm` checks every step, with no assumption beyond those named in the modules:
`StoreAssumption`, `RequestAssumption`, `DirectoryAssumption`, `UsersAssumption`, `AuthAssumption`,
`RoomsAssumption`, `CheckoutAssumption` (types of the constants; an absent tenant, driver, user or order
distinct from real ones) and `IdleAssumption`, `DispatchAssumption` (an unused slot is not a record).
TLC evaluates all of them.  The results hold for any number of orders, tenants, users, devices,
sockets, processes, products, slots, failures and crashes.

| Theorem | Module | States |
|---|---|---|
| `TypeCorrect` | `DeliveryProofs` | `Spec => []TypeOK` |
| `InvariantHolds` | `DeliverySafety` | `Spec => []IInv` |
| `MilestonesKept` | `DeliverySafety` | `Spec => []MilestonesInOrder` |
| `AnnouncementsTrue` | `DeliverySafety` | `Spec => []AnnouncedWasTrue` |
| `PromiseKept` | `DeliverySafety` | `Spec => KeepsPromise`, the refinement |
| `PromiseGivesMilestones` | `DeliverySafety` | `KeepsPromise => []MilestonesInOrder` |
| `ReadyAlwaysRemembered` | `ReadyProofs` | `Spec => []ReadyNeverForgotten` |
| `SettledStaysFinal` | `ReadyProofs` | `Spec => SettledIsFinal` |
| `OffersAlwaysRemembered` | `ReadyProofs` | `Spec => []OffersNeverForgotten` |
| `OffersStand` | `OfferProofs` | `Spec => []OInv` |
| `TenantsStayApart` | `OfferProofs` | `Spec => []TenantIsolation` |
| `OfferedIsRecorded` | `OfferProofs` | `Spec => []OfferedMeansRecorded` |
| `RoundsAlwaysAddUp` | `OfferProofs` | `Spec => []RoundsAddUp` |
| `OneOfferPerRound` | `OfferProofs` | `Spec => []OffersPerRound` |
| `QueryAlwaysAnswered` | `OfferProofs` | `Spec => []QueryAnswered` |
| `InvariantHolds` | `AccountsProofs` | `Spec => []IInv` |
| `EditsAlwaysStayInTenant` | `AccountsProofs` | `Spec => []EditsStayInTenant` |
| `RotationAlwaysRevokes` | `AccountsProofs` | `Spec => []RotationRevokes` |
| `AccountsStay` | `AccountsProofs` | `Spec => AccountsArePermanent` |
| `PromiseKept` | `AccountsProofs` | `Spec => KeepsSessionPromise`, the refinement |
| `RotatesOnce` | `SerialProofs` | `Spec => []RotatedOnce` |
| `SessionsAreKept` | `SerialProofs` | `Spec => []KeepsOwnSession` |
| `InvariantHolds` | `SocketProofs` | `Spec => []IInv` |
| `SeenAlwaysKicked` | `SocketProofs` | `Spec => []SeenAreKicked` |
| `NobodyEverKickedAlone` | `SocketProofs` | `Spec => []NobodyKickedAlone` |
| `MembersAlwaysHadAccess` | `SocketProofs` | `Spec => []MembersHadAccess` |
| `InvariantHolds` | `CheckoutProofs` | `Spec => []IInv` |
| `ItemsAlwaysStand` | `CheckoutProofs` | `Spec => []ItemsStand` |
| `OrdersAlwaysAddUp` | `CheckoutProofs` | `Spec => []OrdersAddUp` |
| `EditsAlwaysStayInTenant` | `CheckoutProofs` | `Spec => []EditsStayInTenant` |

Type correctness is a conjunct of every `IInv`.

### Orders: stale writes (`DeliverySafety`)

`MilestonesInOrder` is not inductive: it says nothing of a request that is about to
write.  One might add "what a request will write follows the current status", but that
is false, since another request may have written since.  What is true, and stays true, is
that it follows a status *in the order's history*: `WritesJustified`.

1. *Every write is justified* (`RequestStepKind`, `DispatchStepKind`,
   `StepKinds`): a step creates an order, makes a write that some handler was justified to make, or
   leaves the orders alone.
2. *The table preserves milestones* (`FollowingKeepsMilestones`): add to a
   history a status that follows one already there, and the milestones are
   still in order.  This is the only place where the transition table is opened.
3. *Histories only grow* (`StepGrows`), so *a justification never expires*
   (`RequestStaysJustified`, `DispatchStaysJustified`): it asks for
   nothing but membership in the history.  New ones come from reads, which see the current status.
4. *What is queued or shown is in the history* (`TrueQueue`, `TrueRooms`): a handler emits only
   at `"emit"`, when its status has been written.
5. Together they are `IInv`, and each justified write is an `Advance` or `Assign` of the
   promise (`WriteIsPromised`), whence the refinement.

The promise is strong enough for what it is stated for: whatever keeps it keeps `MilestonesInOrder`
(`PromiseGivesMilestones`, with `Promised` as its inductive invariant), with no word of requests, runs or events.

### Orders: the two ends of a dispatch (`ReadyProofs`)

`ReadyNeverForgotten` is inductive relative to `IInv`: the duty to look for a driver
passes from the request that made the order READY to the event it emits, and from the event to the run that
starts on it; every step keeps the duty with one of the three (`RequestKeepsDuty`,
`DispatchKeepsDuty`, `GatewayKeepsDuty`, `ArrivalKeepsDuty`), and the run that gives it up writes SEARCHING_DRIVER
in the same step.  `SettledIsFinal` says that a settled order is out of reach (`SettledFacts`): no
request or run is of it, no event will start one, and no handler that reads its status goes on.

The way of an offer, from its row to its driver, is a chain of the same kind (`Owed`): the run that creates it has
found the driver and keeps that list until it emits, the event carries the list into the queue, and the gateway's
listener turns it into turns of its loop, each of which tells one driver.  `OffersNeverForgotten` is not
inductive alone.  After a failed create a run stays at `"drain"` and makes offers that no event will name, so
the invariant also says that, while nothing has failed, no run is there (`NoneThrew`).

### Orders: offers (`OfferProofs`)

No step of the chain query → creates → event → telling looks back at the one before.  `OInv` says what a run
carries: all it found are of the order's tenant, and those it has no longer left have an offer
(`RunStands`).  Offers are never taken back (`OffersGrow`) and tenants are for ever, so what an event
or a loop of the gateway says of offers never expires.

*Rounds.*  `OffersPerRound` says nothing of the offers to come, so it is proved from `RoundsAddUp`: every write of
READY makes one token, which the request hands to an event, the event to a run, and the run to at most one offer per driver.
Nothing makes a token but the write (`RequestCounts`, `DispatchCounts`, `QueueCounts`, `ArrivalCounts`); failures only lose them.
Counting asks for finite sets.  There may be infinitely many slots, but only finitely many are ever in use,
and that is proved (`FlightsFinite`), not assumed.

*The query.*  `findNearbyDrivers` is modelled as a choice among the sets `NearbyDrivers` allows, and a choice
from nothing would block the run where the code goes on.  `QueryAnswered` says that this never happens when
`HasProfile` is finite, as a table is: a longest list of nearest drivers exists (`NearestExists`), and
it is an answer (`LongestAnswers`).

### Accounts (`AccountsProofs`, `SerialProofs`)

A refresh saves only over a row it has revoked because it carries that row with it (`RequestsJustified`)
and no statement takes a revocation back (`RowsKept`).  For the refinement every step is shown to take a ticket, by
signing an active user in (`SignsInAsPromised`) or by finding a session open (`RefreshesAsPromised`), to spend one
(`SavedAsPromised`), to end sessions or drop tickets only (`OnlyEnds`), or to change who is enabled (`EditsSwitch`).  That a login's
row begins a session no row was of before needs `SessionsNumbered`: a row's session is never later than the row.  It also
says that only rows that are there expire, without which the row just saved might not be good for a refresh.

With serial devices, a row that a request carries has not been rotated yet (`FoundUnrotated`): when it was
found it was alive, rotated rows are revoked, and only the one request of its device carries it.  A device keeps its session because what
could end it behind its back, a refresh that finds no row and revokes all of the user's, is in flight only
after a logout from all sessions (`NoneRevokesAll`): a device that presents a token finds the row of it
(`RefreshFinds`).

### Rooms and checkout (`SocketProofs`, `CheckoutProofs`)

The invariants add to the properties what is on its way: a published disconnect has a lookup that justifies it
(`KicksJustified`), a join request had access when it read (`AskedWithAccess`); a checkout in
flight has read rows of its restaurant, at prices the products have had, and products that are not deleted
by the commit are still those (`CartStands`).

`OrdersAddUp` compares two folds over the lines of an order: the subtotal, which the transaction adds up from the
products it has read, and `Charge`, which adds up the items written.  Both are the same recursion over the
same sets of lines (`IsSum`), in which each line weighs what the product read then weighs in the item (`SubtotalIsSum`, `ChargeIsSum`,
`OrderWrittenAddsUp`).  That such a sum exists, and is a whole number, would be an induction over the
number of lines; it is proved by a least counterexample instead (`SumsExist`, `SumIsInt`), from the
well-foundedness of the natural numbers.

### Only model-checked

The liveness properties `ReadyIsDispatched`, `OfferIsTold`, `ReadyIsOffered`, `ChangesAreShown`, `HandshakeEnds` and `ReplacedLeaves`: liveness under
fairness is out of the prover's reach.  Every other property of a passing run is stated by a theorem.

## 7. Findings

1. **A delivered or cancelled order changes** (`TerminalIsFinal`).
   `changeStatus` rejects it with "No se puede cambiar el estado de una orden
   entregada o cancelada" (`src/modules/orders/orders.service.ts:196`), on
   a read made before the update at line 202.  Two requests that read CREATED
   write CANCELLED and then PREPARING.
2. **A driver completes another driver's order** (`CompletedByAssignee`).
   `completeOrder` answers "No puedes completar una orden que no te fue
   asignada" (line 302) on its read.  Two `assignDriver` requests both read the READY order without a driver; the first
   assigns it to ana, whose `completeOrder` passes its check; the second overwrites `idDriver` with luis (line 262), and
   ana's update at line 312 delivers the order of luis.  A second `acceptOrder` overwrites it in the same way (line 395).
3. **A dispatch is not broadcast** (`DispatchIsBroadcast`).  The comment at
   lines 222-223 says "Broadcast websocket change" and "everything else goes", all but creation.  The listener writes
   SEARCHING_DRIVER (`src/modules/logistics/logistics.listener.ts:26`) and OFFERED_TO_DRIVER (line 46) and announces neither,
   and the emit of `acceptOrder` is commented out (`orders.service.ts:403`).  An order made READY is offered to ana,
   who accepts and completes it: its room is shown READY, then DELIVERED, and none of the three statuses between.
4. **A good token is refused as expired** (`RefusedMeansExpired`).  `refreshToken` refuses with 'Refresh token
   expired' (`src/modules/auth/auth.service.ts:126`), which the client gets as 'Session expired, please login
   again' (line 156), by whichever unrevoked row of the device `findFirst` returns (line 106).  A device whose session expired
   and that logged in again has two, and the old one may come first.
5. **A logout from all sessions leaves one** (`LogoutAllEndsAll`).  `logoutAllSessions` answers 'Logged out from all sessions
   successfully' (`src/modules/auth/auth.service.ts:238`) and revokes the rows there are.  A refresh that has found its row and is
   yet to save goes on: one device's refresh has revoked its row, another device logs out of all sessions, and the
   refresh saves a new row (line 152), with which its session lives on.

Noticed while reading, with no run:

* The comment at `logistics.listener.ts:31` says 5 km, the call passes 50 and the query takes kilometres.
* `acceptOrder` asks for no offer to the caller, nor for the role DRIVER, and an accept by a user without a driver
  profile ends in a foreign-key error.
* `OrderOffer.expiresAt` and `OrderOffer.status` are never read.
* An ASSIGNED status asked for through `changeStatus` leaves an order assigned to nobody.
* `VALID_TRANSITIONS` of `dto/order.dto.ts` is unused and differs from `validateTransition`; CONFIRMED,
  which `assignDriver` accepts, cannot be reached (`MilestonesInOrder` includes it).
* Two requests that commit in one order may emit in the other (`orders.service.ts:224`): the room is left on the older status,
  though both changes were shown.  Nothing in the repository promises the order; `AnnouncedWasTrue` and `ChangesAreShown` are what holds.
* Two refreshes of one device sent at once both find its row and both save: the session then has two tokens that are good.
* `handleConnection` means to disconnect the older sockets before the new one joins (comment at
  `tracking.gateway.ts:64-65`), but `disconnectSockets` is published and not awaited: when it arrives after the join it closes
  the new socket too.
* `CreateOrderDto` asks of its items only that they are an array, while the unused `order.dto.ts:64` has `@Min(1)`: a quantity of zero or
  below lowers the total.  `OrdersAddUp` holds all the same; the totals are those of the items.
* A restaurant's administrator or cashier logs in only with a `RestaurantStaff` row (`auth.service.ts:62`), and no
  handler creates one.
* The controllers of tenants and restaurants name `JwtStrategy` as a guard, so nothing puts a user on the request and
  `RolesGuard` refuses every route of theirs that asks for a role.

## 8. What is not modelled, and why

* **Tenants and restaurants**: single-row creates and updates; their guarded routes refuse everyone
  (section 7), so the rows are those of the seed, which the models take as constants.
* **Categories**: created and listed, never changed, and no other code reads them.
* **Push notifications, plumbing, seed**: no caller, no
  protocol, or no state of their own; `PROJECT.json` gives the reason for each.
* **Addresses, names, emails, passwords**: no property depends on them.  A user is its email, so an update of the
  email itself is left out.  `bcrypt` compares 72 bytes, which the tokens of one user share; that comparison is
  modelled by what it does: it lets every token of the user pass.
* **Rounding of floats** in totals: amounts are in tenths of the smallest coin, and whole.
* **Time**: a token and its row expire together, the oldest first; access tokens, which live in the client only, are not tracked:
  every guarded handler reads the user again.
* **Changes of role**: `UsersService.update` can make them.  `Users` has them; `Delivery` and `SocketRooms` take
  roles as fixed, while an order is handled and a user is connected (the name of a user's room has the role in it).
  Tenant and driver profile really are fixed (`AccountsArePermanent`).
* **Prices and items in the delivery flow**: no property of it depends on them, and `Checkout` has them.
* **`DriverProfile.isAvailable`**: true by default and written nowhere.  In `Delivery` the drivers of a run exist
  from the start.
* **The room lookup over several processes** is one step: `fetchSockets` collects the answers of all of them.
* **Several Node processes in the delivery flow**: events do not cross processes in the code (only sockets do, through
  Redis), so each order's events belong to the process of its request; a second
  process would add interleavings of *listeners* only.  The model is one process.
* **Whether a message arrives**: the gateway counts the sockets of a driver and emits; nothing reads back. A driver
  who is "told" may have left.
* **`handleDisconnect`** only logs.
