# Lodging: a TLA+ model of the lodging-nest back end

lodging-nest is a NestJS/Prisma service that runs the daily business of lodging
houses: an organization has branches, a branch has rooms, receptionists book the
rooms, guests arrive, prolong and leave, housekeepers clean, managers reconfigure.
This directory specifies the part of it where requests meet on shared rows, checks
it with TLC on small instances and proves the main results with TLAPS for every
size of the tables.

Source paths below are relative to `src/src/modules/` of the repository unless they
begin with `src/`.

## 1. How the program runs, and what makes it hard

There is one kind of process: an HTTP request served by a service method. A method
is a chain of awaited Prisma calls. Every call is atomic in PostgreSQL, and between
two calls of one request any call of any other request may run. Transactions enclose the
writes of an extension, a login's and a rotation's tokens, an owner's verification, a
change of staff and an upload; otherwise the services use none. There are no locks and
no version columns, and only the session code updates a row on condition that it is
still as it was read: elsewhere a row is read, judged, and later written by id. A call
that fails leaves the calls before it done. Nothing is retried and nothing runs in the
background.

So the behaviours worth checking are:

* two requests that read before either of them writes (double booking, lost update);
* a status derived in another table (the room's status, from bookings and tasks) by
  read-modify-write from several services;
* queries started together by `Promise.all`, answered in any order;
* a request that dies half-way;
* long legal sequences of requests that end in a state nobody had in mind;
* date arithmetic at the boundary: half-open stays, turnaround buffers on both sides.

## 2. Inventory

| Component | State it keeps | Operations that change it | Meets | What makes it correct |
|---|---|---|---|---|
| Reservation desk (`bookings`, `booking-extensions`) | `bookings`, `booking_extensions` | create, updateStatus, updatePrice, extension create | rooms (status), tasks (orders a cleaning), audit | no two active stays of a room overlap, turnaround time between them; every added hour is billed; an ended booking stays ended |
| Occupancy arithmetic (`src/src/common/services/occupancy.service.ts`, `src/src/common/utils/availability.util.ts`) | none | pure | desk, extensions, availability screen | the screen, the booking form and the helper agree on the calendar; the screen offers no room that the form refuses; the time offered is the first free one |
| Housekeeping desk and dispatch (`housekeeping`) | `housekeeping_tasks` | create, updateStatus, assign | rooms (set aside, release), bookings (guest present?) | a room set aside has a task that waits; each departure is cleaned exactly once; load is spread |
| Room administration (`rooms`) | `rooms` | create, update, updateStatus, remove | bookings (count of active ones) | OCCUPIED is earned, never set by hand; an archived room has no stays to come |
| Branches (`branches`) | `branches` | create, update, put on the marketplace, remove | plan limits, rooms, managers | limits respected; a branch that is archived is out of business for good |
| Audit log (`audit`) | `audit_logs` | appended to by the others | all | its last entry is the truth |
| Room pricing and rates (`room-pricing`, `room-rates`, `src/src/common/utils/pricing.util.ts`) | `room_pricings`, `room_rates` | create, update, remove of rules; price of a stay | bookings (final price) | no two rules of one scope share a day; a quotation does not depend on the order of rows |
| Sessions (`auth`) | `refresh_tokens`, `users` | login, refresh, logout, forgot, reset and change of password | users, organizations (standing) | a token is exchanged once, one that comes back ends its session, a new password ends all of them |
| Registration (`auth`) | `pending_owner_registrations`, `users`, `organizations`, the messages sent | register, resend, verify | staff (who share the addresses), e-mail | a link opens the account it was mailed for; an owner has one organization; a registration that waits can be completed |
| Organizations and subscriptions (`organizations`, `subscriptions`) | `organizations`, `subscriptions` | upgrade, updateStatus | branches, rooms, listings (limits); sessions and guards (standing) | what comes into being is within the plan of that moment |
| Staff and users (`staff`, `users`) | `staff`, `users` | create, update, toggleActive of both | guards (role, branch, active), branches, registration | the role the guard goes by is the role of the staff record; branch-bound roles have a branch |
| Guests, notifications (`guests`, `notifications`) | `guest_profiles`, `notifications` | create, update, mark as read | bookings | single writes of one row |
| Reviews (`reviews`) | `reviews` | reply, publish or hide (guests write them elsewhere) | branches, managers | managers touch the reviews of their branch only |
| Uploads (`uploads`) | `room_images`, `branch_images`, Cloudinary | upload, update, delete | rooms, branches, managers | a listed picture has its file; one cover |
| Access control (`src/src/common/guards`, `auth/strategies`, `access-context.service.ts`) | none | read only | all | a manager changes nothing outside their branch |
| Provinces, e-mail, request plumbing, seed | reference data | none over time | | |

`PROJECT.json` lists the same components with their files, and the hazards of the
modelled ones at the lines where they bite.

## 3. The modules

```
Occupancy            arithmetic: buffer, effective check-out, conflict test
  Availability       list algorithms and their three callers       (MCAvailability)
    AvailabilityProofs   the time shown is the first free one, how far the three callers agree
  LodgingDb          tables, requests in flight, dispatch, audit
    Bookings         create / updateStatus + cleaning order / extension create
    Housekeeping     create / updateStatus + release / assign
    RoomDesk         updateStatus / remove / reconfiguring of buffers
      Lodging        the three desks together: Next, Spec, properties  (MCLodging)
        LodgingProofs        type correctness, dispatch of tasks
          CalendarProofs     the calendar invariant, time for cleaning, Lodging implements RoomCalendar
          TurnoverProofs     turnover of rooms, archiving, audit trail
RoomCalendar         abstract specification of the reservation desk
Sessions             the refresh tokens of one user                (MCSessions)
  SessionProofs        its inductive invariant and what follows, Sessions implements SessionChain
SessionChain         abstract specification of a session
Pricing              rates, rules and quotations of one room       (MCPricing)
  PricingProofs        rules apart, quotations determined, stays sold as listed
TenantDb             tables of the back office, requests in flight
  Access               JWT strategy, roles guard, access context
    Registration         register / resendVerificationEmail / verifyEmail
    Staffing             staff create / update / toggleActive, users toggleActive
    Workspace            upgrade / updateStatus, branches and rooms under the plan
    Gallery              upload / updateImage / deleteImage
    ReviewDesk           reply / updateVisibility
      BackOffice           the five together: Next, Spec, properties (MCBackOffice)
        BackOfficeProofs          type correctness, what holds whatever overlaps
          BackOfficeTurnProofs      what holds when requests take turns
```

### State and code

`LodgingDb` holds one variable per table column group: `booking` and `billedHours`
(`bookings`, and `booking_extensions` summed per booking), `room` and `branchBuffer`
(`rooms`, `branches.bufferHours`), `task` (`housekeeping_tasks`), `roomTrail` and
`bookingTrail` (the last `audit_logs` entry about a room's and a booking's status).
A row that does not exist is `NoRow`; SQL's null is `Null`.

`req[q]` is the request in slot `q`: the endpoint `op`, the call it awaits next `pc`,
and the local variables of the method that are still needed, e.g. the room status
`seen` at the start of `updateStatus`. Each action is one awaited call with the
code up to the next `await`: `CreateRead`, `CreateCheck`, `CreateInsert`, `CreateLog`
for `create`, and so on. `Fail(q)` ends a request before any of its calls.
`Step(q)` never includes the arrival of a request, which is the client's choice.

Abstractions:

* An instant is a whole hour; the code adds only multiples of an hour to dates.
* Lookups at the start of a method that concern one room and whose rows no modelled
  action changes in between (the task or booking with its room, the staff member,
  the room's branch) are one step with the first read of what may change. The
  lookup of `assign` and of the two buffer updates is one step with the write,
  since it decides on nothing another request can change back.
* The five task types are two, `CHECKOUT_CLEAN` and `OTHER`: no code tells the others
  apart. Priorities, notes, schedules are only stored.
* `create` reads rates and price rules (see `Pricing`) and the guest too, and draws a
  booking code; none of them touches the calendar. A code that is rejected as a duplicate is `Fail`.
* The guard of `updateStatus` in `bookings` keeps what the roles allow
  (`MayAskFor`). Its callers are managers and receptionists with an active staff
  record, so that the early return of `ensureCheckoutCleaningTask` for a missing
  `assignedByStaffId` is never taken.
* PENDING bookings do not arise: `create` enters CONFIRMED. The invariant
  `RowSound` states it and the proofs rely on it.

`RoomCalendar` says what a reservation desk is for: a room is held by one stay at a
time; stays are entered, prolonged, and leave for good. `Lodging` implements it under
the mapping `Stays` (the active bookings) and "past" (the terminal ones).

`Availability` has no requests: its one variable is the list of active bookings of a room
as the database returns it, and the queries on it are operators. The row of the room is
an argument (`RoomRow`: its status, is it deleted), because the three callers look for it in
different ways: the screen leaves out rooms that are deleted, INACTIVE or under MAINTENANCE
(`Listed`, `rooms/rooms.service.ts` 318-319), the booking form only those that are deleted
(`BookingAccepted`, `bookings/bookings.service.ts`), `isRoomAvailable` is asked about the
calendar alone. So the code accepts a booking for a room that its screen does not offer;
`AnswersAgree` says that this is the only difference. `sort` is stable, so
`SortByCheckIn` puts the stay that n others go before (`Earlier`) in place n + 1; the
loop of `getNextAvailableAt` with its `break` is the recursive function `Chain`.

### Sessions

`Sessions` models `auth/auth.service.ts` for one user; no query on `refresh_tokens`
reaches another user's rows. `token` is the table, `user` the columns of `users` that the
service reads and writes, `req` the requests in flight as in `LodgingDb`. A row's
`revoked` is `NO` while `revokedAt` is null and the reason afterwards; the time of a
revocation and `replacedByTokenId` are written and never read. Three values are history,
in no column: the variable `handed` (the tokens that an answer carried to the client), `password`
of a row (which password the login had verified) and `incidents` (has a request begun while
another was in flight, has one died).

* An UPDATE or DELETE of several rows is two steps, `RevokeList` and `RevokeWrite`,
  `LoginOthers` and `LoginIssue`: PostgreSQL's default isolation lists the matching
  rows when the statement begins and writes those that still match when it gets to them.
  The rotation touches one row and inserts one, so its transaction is one step,
  `RefreshRotate`. The access token is signed after the commit (293), so the answer is a step
  of its own, `RefreshSend`: a request that dies in between has committed a token that nobody
  gets. `OnTheWay` are the tokens between the two, `Promised` these and the ones sent. In
  `login` the signing comes first (615), and its transaction is the last call.
* A family is named after its first token; `randomUUID` and `randomBytes` never repeat.
* A token may expire at any time. The service then refuses it without a write, which is
  the same as the client not presenting it, so there is no clock. Locks and reset links
  end by `LockLapses` and `LinkExpires` at any time.
* `SetStanding` is everybody else: an administrator who (de)activates the user or the
  organization. Of an inactive user the model does not know the organization's status,
  so `MayEnter` and `MayRefuse` both hold.
* `RefreshAccess` revokes the family whenever the look-up of the organization throws,
  a rejected query included, as the `catch` at 241 does.
* `changePassword` begins behind `JwtAuthGuard`, hence for a user in good standing.
* Not modelled: access tokens (they have no state on the server). Registration is a
  component of the back office.

`SessionChain` says what a refresh token is for, without rows, reasons or requests: a session is
a chain of which the client has one token at a time; the token is exchanged for one never drawn
before, and a session that has ended or a token given away never comes back. `Sessions`
implements it with `Exchangeable` (of each family, the token that is live and was sent or is on its
way) for `hand` and `Drawn` for `used`. A token that is lost on its way stays a row that is
live; nobody has it, and for the abstract session that is an end.

### Pricing

`Pricing` models `room-rates`, `room-pricing`, `src/src/common/utils/pricing.util.ts` and
the part of `bookings` `create` that quotes a price, for one room; no query on the two
tables reaches another room's rows. `rate` and `rule` are the tables, `req` the
requests in flight; `overlapped` is history (has anything happened while a request
was served).

* Money is counted in cents and percentages in hundredths, the scale of the
  `Decimal(12, 2)` columns; `Cents` is the rounding of `toDecimalPlaces(2)`. The twenty
  digits that the decimal library keeps are taken to be enough.
* The adjustment of a rule (type, value, override) is one value: no step writes a part of
  it on a condition on the others that could fail. `Adjustments` are those of the instance.
* `create` and `update` of rules are split before and after the query for overlaps.
  `update` merges the row as it was read: scope and dates are always written back,
  adjustment and `isActive` only when the dto has them (`sent`).
* Rates are never deleted (`remove` switches them off), so the endpoints of rates
  and the check of a rule's rate are one step each. `update` of rates writes the dto.
* `find` on a list without `orderBy` takes any of the matching rules: `Quotes` is a set.
* The calendar check between the reading of the rate and of the rules, and the row that is
  inserted, are those of `LodgingDb`; a refusal there is `Fail` here.

### Back office

`TenantDb` holds the tables: `pending`, `user`, `org` (with its subscription), `staff`,
`branch`, `room`, `image` (both image tables), `review`; and `file`, the files that
Cloudinary keeps. A row is named by the value of its unique column, users by address and
organizations by slug. `mail` is history, in no column: what the message said that
carried a link. `clients` never changes in a behaviour: the endpoints its clients call
(`ops`), whether they take turns (`turns`), the addresses they enter (`people`) and the
plan that organization Home is on at first. Requests are as in `LodgingDb`: `Begin`,
`Continue`, `Answer`, `Fail`.

* The branches, rooms, staff, images and reviews are those of one organization, Home:
  every query on them carries the `organizationId` of the caller. Registrations meet
  across organizations, and there all slugs are modelled.
* `Access` is what stands in front of every handler: `Admitted` is
  `JwtAccessStrategy.validate`, `MayCall` adds the `RolesGuard`, `InScope` is
  `ensureBranchManagerAccessToBranch`. These are awaited calls, and all of them come before
  the method reads what it decides on; they are one step with that reading. Taking them
  earlier adds nothing: the request that passed an earlier check behaves as one that
  passes now and whose check is outdated before the write, and that interval is split.
* A slug stands for everything that is registered with an address. Passwords, names
  and texts are only stored. Passage of time is needed nowhere: an expired link is refused
  without a write, which is the same as its owner not clicking it.
* A row of `pending` carries `id`, the link it was first created with, because
  `verifyEmail` deletes and `register` updates by id: a row that was deleted and created
  again is another row.
* A transaction is one step when its first statement locks the row it is about or when
  unique columns decide at the commit: `VerifyCommit`, `StaffCreateInsert`,
  `StaffUpdateWrite`. The transaction around a cover is two, `ListCovers` and the write,
  because `updateMany` lists its rows before it writes them (as in Sessions).
* Requests that write once and decide on nothing another request can change in between
  are one step (`AtOnce`): `Upgrade`, `SetOrgStatus`, `RoomRemove`, the toggles. The count
  of bookings in front of `RoomRemove` is in `RoomDesk`, where the bookings are.
* `organizations` `create` cannot insert. Its guard `JwtAccessStrategy` admits an
  owner only with an organization (`src/src/modules/auth/strategies/jwt-access.strategy.ts`
  22-46), and `create` refuses whoever has one. There is no action for it.
* `UserToggle`, `SetOrgStatus` are the administrator of the platform; `ReviewArrives` is
  the application that guests use, which is not in this repository.

### Bounds

`BookingIds`, `TaskIds`, `Requests` bound rows and requests in flight, `Times` the
horizon, `MaxBilled` the hours of extension a stay collects; `RoomForBooking` and
`RoomForTask` keep a request from starting when its row would not fit.
`Departures` are the hours at which guests check out. `Ops` are the endpoints an
instance calls. `Exclusive` is a constraint on the clients: requests to those
endpoints take turns per room. `MayFail` switches `Fail` on.

In `Sessions`, `TokenIds` bounds the tokens drawn, `Requests` the requests in flight,
`MaxPassword` the changes of password (`RoomForToken`, `RoomForPassword`);
`MaxFailedAttempts` is the code's `maxFailedAttempts`, 5 there and 1 in the instance, where
the first wrong password locks the account. `Standings` are the values that `SetStanding` may
set. The instance leaves `INACTIVE_ORGANIZATION` out: with an inactive user `MayEnter` and
`MayRefuse` both hold, so every refusal of an organization is among its behaviours.

In `Pricing`, `RateIds` and `RuleIds` bound the rows, `Requests` the requests in flight.
`RulesTakeTurns` is a constraint on the managers: one request at a time edits the rules
of the room. Rates, removals of rules and bookings are not constrained.

In the back office, `Links` bounds the tokens drawn, `Branches`, `Rooms`, `Images`, `Reviews`
the rows, `Requests` the requests in flight, and `RoomFor` keeps a request from starting
when its row would not fit. `Openings` are the kinds of clients the instance looks at, ten
there, each a set of endpoints whose tables meet: every behaviour begins by picking one.

## 4. What is checked

Because the services do not lock, most properties are false when any requests
overlap. The project states which of them hold when requests of a room take turns,
which of them hold whatever overlaps, and shows by a counterexample where the code
breaks a promise.

| Run | Instance | Result |
|---|---|---|
| `availability` | every list of up to 3 stays within 5 hours, in any order, every window, buffers 0 to 2, every status of the room | `NextAvailableIsFirstFree`: `getNextAvailableAt` is the first free time after the first conflict; `AnswersAgree`: screen, booking form and `isRoomAvailable` agree on the calendar with each other and with the reference; what the screen offers the form accepts, and what only the form accepts is under MAINTENANCE or INACTIVE |
| `calendar` | 1 room, 2 bookings, 2 requests; create, status and extend take turns, archiving overlaps them, calls may fail | `TypeOK`, `TurnaroundKept`, `ExtensionsAddUp`, `EndedStaysEnded`, the inductive `CalendarInv`, and `CalendarRefined` (Lodging implements RoomCalendar) |
| `turnover` | 1 room, 3 bookings, 3 tasks, 1 housekeeper, 2 requests; changes of booking status take turns, creates, cleanings and the release of the room overlap them and each other | `OccupiedIsEarned`, `SetAsideMeansOpenTask`, `OneCleaningPerDeparture`, `DepartureOrdersCleaning`: whatever the three queries of a release miss while guests come and go, OCCUPIED is shown only with a guest in the room, a room set aside has a task to wait for, and each departure is cleaned once |
| `dispatch` | 3 rooms with a guest in each, 2 housekeepers, 2 requests: departures of different rooms, cleanings and slow updates of finished tasks overlap freely, calls may fail | `LoadsBalanced`: no housekeeper has more open tasks than any colleague was ever given, plus one for each request there can be |
| `admin` | 1 room, 3 bookings, 1 task, all endpoints but the manual change of a room's status, one request at a time, reconfigured buffers | `NoDoubleBooking` even while buffers change; OCCUPIED exactly while a guest is in (`OccupiedMeansGuest`); archived rooms have no active stays (`ArchivedRoomsAreEmpty`); the trail is true (`TrailIsTrue`) |
| `departure` | 1 booking, 2 requests overlapping freely, manual changes of the room among them, fair | every check-out leads to a cleaning task |
| `sessions` | 1 user, 3 tokens, 2 requests overlapping freely, 1 change of password, calls may fail | whatever overlaps or dies: at most one working token per session that a client has or is about to get (`OneTokenPerSession`), revocation is for good (`RevokedForGood`), a refused refresh leaves no token (`NoTokenLeftBehind`); when nothing has overlapped or died: one session (`OneSession`), opened with the present password (`SessionsOfThePassword`), and a token that comes back ends its session (`ReuseEndsSession`); Sessions implements SessionChain (`ChainRefined`) |
| `pricing` | 1 rate, 2 rules, 2 days, 2 requests, a fixed price and an increase that makes half a cent; edits of rules take turns, all else overlaps, calls may fail | active rules of one scope never share a day (`RulesApart`), a quotation is the listed price whatever the database lists first (`QuoteDetermined`), a stay is entered at the listed price of a rate on sale when nothing came in between (`SoldAsListed`) |
| `back_office` | 2 requests, 2 branches, 2 rooms, 2 pictures, 1 review, 3 links, 3 addresses, 3 slugs, 3 plans (one branch, two, or one branch with one room), ten openings, calls may fail | whatever overlaps: `TypeOK`, an owner has one organization (part of `RegistrationSound`), the role of the guard is that of the staff record (part of `RolesAgree`), a listed picture has its file (part of `GallerySound`); in turn: registrations that wait can be completed, `LinkOpensItsAccount`, branch-bound roles have a branch, `ManagersStayInBranch`, `PlanLimitsKept`, `ArchivedIsClosed`, one cover |

The bounds are small because the conflicts are: two bookings are enough for an
overlap and three for a guest before and after; in `turnover` the third is the guest who moves in
while the room is still being cleaned after the first; two requests are enough for every
read-read-write-write order of two methods; three or four instants give stays that
touch, that leave a gap of exactly the buffer, and that are prolonged into the next;
two housekeepers are enough for a balance, and three departures for two that overlap and one that
finds the balance they leave. `dispatch` begins with the guests in their rooms
(`FullHouseInit`, the state after three creates and check-ins): what leads there is what `calendar`
and `turnover` look at. Three stays are one that stands in the way, one that follows within
the buffer and one after a gap. The theorems of section 5 remove the
bounds for every passing run but `departure`. Three tokens are a login, its successor and a
late comer's, or two sessions of which one is refreshed; two requests are what two
refreshes, or a refresh and a login or password change, need to cross. Two rules and two
days give rules that share no day, one day or both, of the rate or of the room. Three
links are a registration, its repetition and a resend, or two registrations of which one
is resent; two branches and two rooms are one more than the smallest plan allows, and give
a manager a branch to stay out of; two pictures are a cover and its successor.

**Fairness.** `FairSpec` is weak fairness of `Step(q)` for every request: the event
loop resolves each awaited call some time (`departure` does not allow `Fail`, whose
effect is described below). It obliges no client to send a request, so the only
thing that must happen is that an accepted request goes on.

### Where the code breaks its promises

Three runs end in a counterexample; `PROJECT.json` quotes the lines.

* `two_desks`: two `create` requests for the same window both find the room free
  and both insert.
* `dirty_room`, without any overlap: cancelling a later booking of a room that is
  being cleaned makes the room AVAILABLE, because `updateStatus` writes AVAILABLE
  whatever the room's status is.
* `stuck_room`, without any overlap: a task of another type blocks the release of
  a cleaned room, but finishing it later does not run the release, so the room stays
  in MAINTENANCE with nothing left to do.

The same model shows more with one constant changed; they are described here
rather than kept as runs:

* *Lost extension.* In `calendar` with `Exclusive` empty `ExtensionsAddUp` fails: two extensions of one stay
  compute the new check-out from the same row (`booking-extensions/booking-extensions.service.ts`
  60, written at 129): both are billed, the stay grows by one.
* *Stale status.* In `calendar` with `Exclusive` empty `EndedStaysEnded` fails: the update of a
  booking's status has no condition on the status it was validated against
  (`bookings/bookings.service.ts` 329 and 378), so a slow check-in overwrites a
  cancellation.
* *Archive race.* With `Exclusive` empty and `Ops` of create and archive
  `ArchivedRoomsAreEmpty` fails: the count at `rooms/rooms.service.ts` 280 and the
  update at 294 are separate.
* *Late release.* In `turnover` `OccupiedMeansGuest` fails: a guest checks in between the three
  queries of `releaseRoomIfCleaningCompleted` (`housekeeping/housekeeping.service.ts` 487) and
  its write (514), and the room is shown AVAILABLE with a guest in it. The run checks what
  survives, `OccupiedIsEarned`; the equivalence is checked in turn, by `admin`.
* *Early cleaning.* In `turnover` with "task" among the operations `DepartureOrdersCleaning` fails,
  without overlap too: a CHECKOUT_CLEAN for the booking that was created by hand and
  finished before the departure suppresses the one the departure should order
  (`bookings/bookings.service.ts` 673).
* *Reopened task.* Two requests read a PENDING task (`housekeeping/housekeeping.service.ts` 198
  judges it), one writes DONE, and the slower one writes IN_PROGRESS over it (211). Nothing in the
  code keeps a finished task finished, so no property says so. `dispatch` lets it
  happen, and `LoadsBalanced` is stated such that it holds all the same: a task that is
  opened again counts against the housekeeper, who was given it before.
* *Negative buffer.* With `RoomBuffers = {-1}` `NoDoubleBooking` fails without
  overlap: `rooms/dto/update-room.dto.ts` 45-47 has no minimum, the branch form has.

`OneSession`, `SessionsOfThePassword` and `ReuseEndsSession` speak of `incidents = {}` because the code does
not promise more: two crossing logins both stay (neither `deleteMany` sees the other's
uncommitted row), a login that has verified the old password may issue its token after
the password has changed, and a token inserted by a rotation while `updateMany` is
listing rows survives the revocation. Dropping the condition makes TLC show each of these.

With `RulesTakeTurns = FALSE` `RulesApart` fails: two rules entered at once both find no
overlap (`room-pricing/room-pricing.service.ts` 57) and both are inserted (67), and
`QuoteDetermined` fails with it, because a booking may now be quoted either price.
`SoldAsListed` speaks of `~overlapped` because the rate, the rules and the insert of a
booking are read and written in separate calls.

In the back office the properties that say `clients.turns` fail without it. With
`turns |-> FALSE` in the opening concerned TLC shows:

* *Orphaned registration.* `register` looks the address up (`auth/auth.service.ts` 69), the
  earlier link of the same address is verified, and `register` inserts (114) what can
  never be verified: `RegistrationSound`.
* *Wrong name in the message.* A resend reads the registration (493), a repetition changes
  its data, and the resend writes a new link (696) into the changed row: its message
  names the old data, and the link opens the new: `LinkOpensItsAccount`.
* *Crossing updates.* One update takes the branch from an ORG_MANAGER while another makes
  them RECEPTIONIST; each was judged by the row it read (`staff/staff.service.ts` 112) and
  writes only its own column (158): `RolesAgree`.
* *Back from the archive.* An update, a listing or a new room that found the branch
  alive (`branches/branches.service.ts` 126, 162, `rooms/rooms.service.ts` 33) is written
  to it by id after it was archived (139, 183, 71), and an archiving that counted no rooms
  (196) is written after one was entered (225): `ArchivedIsClosed`.
* *Counted twice.* Two creations count the same branches or rooms (49, 57) and both insert
  (62, 71), or the plan is exchanged in between: `PlanLimitsKept`.
* *Two covers.* Two uploads list the old cover before either row is visible
  (`uploads/upload.controller.ts` 136) and both become the cover (141): `GallerySound`.
* *Manager on the way out.* A manager is moved or deactivated between the check of the
  scope and the write: `ManagersStayInBranch`.

Five more need no overlap and contradict no line of the code or the docs, so they
are not findings, but a reader should know them. `staff` `create` looks only at `users` (32): it
takes the address of a registration that waits, whose link will then be refused for good,
which is why `PendingCanBeVerified` excepts it. `upgrade` accepts a smaller plan
(`subscriptions/subscriptions.service.ts` 72-107) and leaves the branches, rooms and listings that
exceed it, which is why `PlanLimitsKept` is about what comes into being and no invariant.
`branches` `remove` (190-234) does not ask for staff of the branch, who keep a branch that is
archived. A percentage rule turned FIXED without a price passes the check of `room-pricing` `update`
(179), because the column holds the default 0, and the room is sold for nothing; the form accepts a
price of 0 too. An upload or a deletion that dies between the two stores leaves a file that no
row refers to; the order of the calls is chosen such that the opposite, a row without
its file, cannot happen, and that is `PicturesHaveFiles`.

A check-out that dies between its calls leaves the booking CHECKED_OUT, the room
OCCUPIED and no cleaning ordered; nothing retries and the status table forbids a
second check-out. The code promises nothing else here.

## 5. What is proved

All theorems hold for any finite or infinite sets of rooms, bookings, requests,
housekeepers, times, tokens, rates and rules, addresses, links, images (task ids, branches and
rooms of the back office finite, so that loads and counts are numbers), with failures
allowed and with any set of endpoints called, unless a theorem says otherwise.

* `TypeCorrect`: `Spec => []TypeOK`. `TypeOK` alone is not inductive: a status
  request writes the row it read, which must still exist. `RowsExist` says so, and
  `TypeOK /\ RowsExist` is inductive. Assumes nothing but the assumptions on the
  constants in `LodgingDb` and `Occupancy`.
* `CalendarSound`: `Spec => []CalendarInv`, and its consequences `NeverDoubleBooked`
  (`NoDoubleBooking`) and `ExtensionsAccounted` (`ExtensionsAddUp`), all under `InTurnWithSaneBuffers`: calendar requests of a room
  take turns, and buffers are not negative. The code enforces neither; section 4
  shows what happens without them.

  The argument: a write to the calendar is right if what the request read is still
  true. `CreateFresh`, `StatusFresh`, `ExtendFresh` say that for each half-finished
  request; `InTurn` says nobody else is writing the calendar of that room;
  `RowSound` says active stays have a positive length and an untouched check-out
  until arrival. The step lemmas go: a step that does not write `booking` keeps
  everything (`ReaderKeepsCalendar`); a passed check makes the interval vacant
  (`NoConflictMeansVacant`, `CalendarCheck`); an insert, a status change and an
  extension keep the calendar (`InsertKeepsCalendar`, `StatusKeepsCalendar`,
  `ExtendKeepsCalendar`) because requests in other rooms do not look at this one
  (`AsideUnaffected`).
* `ImplementsRoomCalendar`: under the same assumption `Spec => CalendarRefined`.
  `CalendarInv` gives each write its abstract step: the insert is `Reserve`, the
  extension `Prolong`, a move to a terminal status `Release`; a check-in stutters.
* `CleaningAlwaysFits`: `Spec => []TurnaroundKept` if besides the buffers are fixed
  (`FixedBuffers`). `TurnaroundInv` adds to `CalendarInv` that the hours a request has read
  are still those of the room and that the window it found free is free with these hours at
  its end (`HoursFresh`). An extension is checked from the old check-out on; the stay before it is
  roomy already (`TurnaroundCheck`).

* For the turnover of rooms, in `TurnoverProofs`: while the requests of a room take turns
  (`RoomsTakeTurns`), even if they fail, `ArchivedStaysEmpty` (`ArchivedRoomsAreEmpty`).
  If none dies half-way either (`Undisturbed`),
  `TrailsAreTrue` (`TrailIsTrue`) and `OccupiedIsAlwaysEarned` (`OccupiedIsEarned`); if
  no status is set by hand, `GuestsAreShown` (`OccupiedMeansGuest`); if no task is opened by hand,
  `OneCleaningEach` (`OneCleaningPerDeparture`) and `CheckoutOrdersCleaning`
  (`DepartureOrdersCleaning`); with both, `SetAsideWaitsForTask` (`SetAsideMeansOpenTask`). Each
  hypothesis is what the property needs: managers set a status or open a task of their own
  accord, and then these statements say something else. The run `turnover` shows four of them with
  more overlap than the theorems allow (there only changes of booking status take turns);
  beyond its bounds they are proved for requests in turn.

  The argument: the properties speak of rooms at rest and say nothing of the calls between, so
  none of them is inductive. `TurnoverInv` (`TurnoverSound`) states each fact about a room or
  a booking "unless a request is on its way to make it so": a room with a guest is
  OCCUPIED or someone is checking the guest in (`Arriving`), an OCCUPIED room has a guest or
  someone is checking the guest out (`Leaving`), a room set aside has an open task or someone
  is about to order or has just finished it (`Turning`), the trail agrees or its entry comes next
  (`Logging`, `Entering`). `Knows` says what the one request of a room has read and still holds
  (the status seen, that no other guest or task was found). Rows of one room are out of
  reach of requests for another: `LocalView` and `Beside` say so once, `StepIsLocal` that a step
  disturbs a single room, so that each action is looked at in its own room only.

* For the dispatch of cleanings, in `LodgingProofs`: `DispatchSound` (`DispatchInv`) and
  `LoadsStayBalanced` (`LoadsBalanced`), if no manager opens a task or names its housekeeper and
  the requests are finitely many (`TasksAreDispatched`). Departures and cleanings may overlap
  in any way and die at any call.

  The argument: `LoadsBalanced` is not inductive, because several departures may have picked the
  same housekeeper and insert their tasks one after another, and because a slow update may open
  a finished task again. `LoadsSpread` counts what is picked and not yet inserted
  (`Picked`) and what a request in flight may still write to (`Due`) with the open tasks: picking
  adds one to the least loaded, whose own sum is at most that of any colleague's tasks plus the
  requests at work; inserting moves one from `Picked` to the tasks; a request that dies lowers
  the sum, and a write moves no task from one housekeeper to another.

* `CalendarType`, `ShownTimeIsFirstFree` (`NextAvailableIsFirstFree`) and `ScreensAgree`
  (`AnswersAgree`, the different look-ups of the room included) for `Availability`: for lists of any length in any order, with stays of
  the same hour, any hours and any buffers, negative ones included, from the assumptions
  on the constants alone.

  The argument: the ranks by `Earlier` are a bijection with the places (`PlacesDiffer`,
  `PlacesTaken`, an injection of a finite set into one of the same size), so
  `SortByCheckIn` lists every stay once in order (`InOrderLists`, `SortSorts`), and sorting the sorted
  list changes nothing (`SortOfSorted`; `getNextAvailableAt` sorts and hands the list to
  `findFirstConflict`, which sorts again). The loop is proved by its least turn that would
  break the loop invariant (`TurnKept`: every instant from the conflict to `until` is taken by a
  stay visited, and every stay visited has ended by then or begins after it), which takes no induction over an
  operator: a nonempty set of indices has a least one (`LeastIndex`).

* `SessionTypeCorrect` and `SessionsSound`: `Spec => []TypeOK` and `Spec => []SessionInv`
  for `Sessions`, whatever overlaps or fails. Consequences: `OneTokenAlways`
  (`OneTokenPerSession`), `NothingLeftBehind` (`NoTokenLeftBehind`) and `NeverRevived`
  (`RevokedForGood`). As long as no incident is on record (no two requests met, none died),
  `OneSessionAtATime` (`OneSession`), `PasswordEndsSessions` (`SessionsOfThePassword`) and
  `ReuseAlwaysEnds` (`ReuseEndsSession`).

  The argument: `OneTokenPerSession` alone is not inductive. A rotation keeps it only if
  the token presented belongs to the family the new one joins and was in the client's
  hands (`RefreshSound`), and a login only if the family it founds is not in use
  (`FamiliesDrawn`). What is sent or on its way only grows by the token just drawn
  (`PromisesKept`), and shrinks only by a death (`PromisesGoOn`). A rotation that comes late inserts a live token all the same;
  `UnsentIsDoomed` says that until a death the revocation of its family is still to
  come, or has listed it, and at rest nothing is to come. `TokensKept`, `IssueMeans` and
  `RotateMeans` say what the steps do to a row, so that the preservation lemmas
  (`FamiliesStep`, `RefreshSoundStep`, `OneTokenStep`, `UnsentStep`) have only the two
  inserting steps to consider.

  For the last three, `SequentialInv`: without incidents one request is served, what it has
  read is so, and the live tokens are of one family and of the present password, unless a
  request has set a new password and revokes the old tokens next.

* `ImplementsSessionChain`: `Spec => ChainRefined`, whatever overlaps or dies, with no hypothesis.
  `SessionInv` gives each step its abstract one: `LoginIssue` opens a session and may end
  the others (`LoginOpens`), a rotation that arrives in time exchanges the token at its commit, one
  that comes late wastes a new one (`RefreshExchanges`), every other write at most ends sessions
  (`SessionsEnd`). The core is that a row's token can only leave the client's hands
  (`TokenInHandNext`).

* `PricingTypeCorrect`: `Spec => []TypeOK` for `Pricing`, whatever overlaps or fails;
  rules and requests refer to rates that exist. Under `RulesTakeTurns`, `PricingSound`
  (`PricingInv`), `RulesStayApart` (`RulesApart`) and `QuotesDetermined`
  (`QuoteDetermined`), for any days, prices and adjustments, and `StaysSoldAsListed`
  (`SoldAsListed`): while no two requests overlap, a stay is entered at the listed price of a rate
  that is on sale. `DiscountWithinBase`: a
  reduction of at most 100 percent leaves a price between zero and the base; the form has
  no such maximum.

  The argument: a write of a rule is right if the query for overlaps still holds, and it
  does while nobody else writes rules except to remove them (`EditFresh`, `OneEditor`).
  The row an update writes has the dates and scope that were checked, whatever it
  keeps of the old row (`MergedRow`), so that `PutKeepsClashFree` covers both writes.
  With the rules apart, the set of rules `find` chooses from has one member
  (`QuotesAreListed`), and `CentsNearest` relates the rounded price to the exact one. For
  the stay that is entered, `RateHeld` keeps what the booking has read of its rate true while
  it is the only request (`Alone`).

* `BackOfficeTypeCorrect`: `Spec => []TypeOK` for `BackOffice`, from the assumptions on
  the constants in `TenantDb` alone. `TypeOK` is not inductive, since requests write rows by
  the key they have read; `RowsThere` says that such rows are still there (`TypeInv`).
* Whatever overlaps or dies: `OwnersHaveOneOrganization` (`OneOrganizationPerOwner`) and
  `ListedPicturesHaveFiles` (`PicturesHaveFiles`).

  The argument: `AccountInv` is inductive. Owners and organizations correspond one to one
  and staff are no owners (`OwnersApart`), slugs of registrations differ (`SlugsApart`), the
  role of a user with a staff record is that of the record (`RolesMatch`). For the pictures
  `FilesInv` says in addition that a picture in flight has a file that no other upload and
  no deletion is about (`PictureFor`, `UploadsApart`). Frame lemmas (`EstateFrame`, `PictureFrame`,
  `WorldFrame`, `OneSlot`) say once which action leaves what alone, so that each step lemma
  treats only the actions that write its tables.
* `RolesAlwaysAgree`, `RegistrationsAreSound`, `LinksOpenTheirAccounts`, `ArchivedStaysClosed`,
  `PlansAreKept`, `ManagersAreConfined`, `GalleriesAreSound`: the other seven properties of
  `back_office`, for every set of openings, plans, people, links and pictures. What they say
  about requests in turn is conditional on `clients.turns` inside the property; no theorem
  has a hypothesis beyond the assumptions on the constants.

  The argument: in turn there is one request (`OneRequest`), so what it has read is still so
  when it writes. `KnowsAccount`, `KnowsEstate` and `KnowsCovers` say what that is for each
  endpoint and each call it stands at, and with the tables' own facts (`MailTrue`, `PendingOpen`,
  `BranchGiven`, the covers of a place) they are inductive (`AccountTurns`, `EstateTurns`,
  `CoverTurns`). The limits of a plan need cardinalities: one row more than a count that
  was below the limit is within it (`WithinPlan`).

Every invariant and action property that a run checks is stated by a theorem, `EndedStaysEnded`
excepted, and so are both refinements, of which that of `RoomCalendar` says that no stay leaves
`past`. The strengthenings `SessionInv`, `PricingInv` and `DispatchInv` hold in the instances of
`sessions`, `pricing` and `dispatch`; these runs check what follows from them. Only model-checked
are `EndedStaysEnded`, the overlap in `turnover`, and the liveness property of `departure` (fairness
and leads-to are out of the prover's reach). The counterexamples of section 4 are TLC's.

## 6. Plan

Registration, staffing, tenancy, reviews and pictures, planned at first, are done and proved.
What is left, in order of weight:

1. **Billing**: `updatePrice` of a booking, the price of extensions in the total, the guest's
   statistics and the price entries of the audit log, as an extension of `Pricing`.
2. **Proofs**: weaker hypotheses. `CalendarSound` asks that status changes, creates and extensions
   of a room all take turns; which pairs of them may overlap is not settled. An
   abstract specification of a room's turnover, which `Lodging` implements under `Undisturbed`.

Not modelled: guests, the profile of a user, contact data of an organization,
notifications, provinces (plain reads and writes of one row), e-mail templates, formatting
and validation of answers, listings and statistics (they only read), seed data and migrations
(run by hand against an empty database).
