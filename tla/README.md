# Car rental service: TLA+ models, checks and proofs

The server in `src/` is a C++ service (userver, mongocxx) that rents out cars:
clients create accounts and log in, list and create cars, and book them. This
directory models what the service does to its MongoDB and what it answers,
checks the models with TLC and proves some of what they promise with TLAPS.

Contents: [the system](#the-system) · [the modules](#the-modules) ·
[the runs](#the-runs) · [bounds](#bounds) · [fairness](#fairness) ·
[proofs](#proofs) · [what the runs refute](#what-the-runs-refute) ·
[what is left out](#what-is-left-out) · [plan](#plan) ·
[running the tools](#running-the-tools)

Paths below start at the repository's root; `services/`, `infrastructure/`,
`domain/` and `controllers/` are under `src/`.

## The system

### Components

| Component | State | Operations | Correct when |
|---|---|---|---|
| Rental booking: `services/rental_service`, `domain/rental.hpp` | documents of `rentals`, the field `available` of `cars` | `CreateRental`, `CompleteRental` | no car is promised twice for one time; an OK answer can be relied on; a refusal leaves nothing behind; a rental is completed once |
| Rental price: the functions at the top of `rental_service.cpp`, `Rental::RecalculateCost` | `total_cost` of a rental | `CalculateDays`, `CalculateTotalCost`, `RecalculateCost` | never negative, all rented time charged, no idle day charged, a longer rental is not cheaper |
| Rental queries: the same service | none | `GetRentalById`, active rentals, history | two lists read one after the other lose no rental; what was shown as completed stays completed |
| Car catalogue: `services/car_service`, `domain/car.hpp` | documents of `cars` | `CreateCar`, `GetAvailableCars`, `GetCarsByClass` | VIN and plate belong to one car; a client told 201 has its car; a paged listing shows every car |
| Accounts: `services/user_service`, `domain/user.hpp` | documents of `users` | `CreateUser`, `Login`, `GetUserByLogin` | login and email belong to one account, for good; a conflict is reported only where there is one; a token is of the account whose password was given |
| User search: `UserService::SearchUsers` | none | `SearchUsers` | reading page by page meets every user once; a slice stays inside the list |
| Tokens: `infrastructure/jwt` | none (signed claims with a lifetime of an hour) | `Generate`, `CheckAuth` | no token refused during its lifetime, none accepted long after it, also when clocks are set |
| Mongo connection: `mongo_storage.hpp`, `mongo_storage_component.cpp`, `mongo_instance.cpp` | one `mongocxx::client` for the process | every command | commands of different threads do not disturb each other |
| HTTP layer: `controllers/`, `lib/json_builders`, userver | none | seven handlers | the status follows the service's code |
| Password hashing: `lib/password_hasher` | none | SHA-256 with OpenSSL | equal passwords, equal hashes |
| Process start: `main.cpp`, `configs/`, `docker-compose.yml` | none | registers the components | - |
| Database scripts: `init-mongo.js`, `queries.js`, `aggregation.js`, `data.js`, `validation.js` | indexes, validators and the first documents | `init-mongo.js` when the database is created, the others by hand | the unique indexes exist before the server runs |

### How they interact

A handler runs from its first instruction to its answer on one worker thread of
userver (two or four of them, `configs/static_config.yaml` and its variables).
It parses the request, calls a service; the service validates with a `domain`
class, calls `MongoStorage` one command after the other, and returns a code that
the handler turns into an HTTP status. mongocxx calls block the thread. No
transaction, lock, version or upsert ties two commands together, so the
database may execute commands of other handlers between any two. State that
outlives a request is in MongoDB only.

`CreateRental` is six commands: look up the user, the car, and the rentals that
clash with the period; insert the rental, read it back, hide the car.
`CompleteRental` is three: read the rental, set its status (with a filter on the
old status), release the car. It is a public operation of the service, and no
handler of the deployed server calls it. Exceptions of the driver end in
`nullopt` in some operations of the storage (`CreateRental`, `CreateCar`) and
leave the handler as an internal error in the others.

### What is hard

* check and write are different commands, and requests run at the same time;
* a write whose caller got an exception may be executed all the same, later;
* the process may die between two commands and nothing repairs what is half done;
* clients repeat what they were not told the result of;
* pages of a listing, a page and its total, and two lists of rentals are read at
  different times;
* all worker threads use one connection object that is made for one thread;
* a token is checked by a clock that may be set, in whole seconds, by a server
  that may have been restarted since it gave the token out;
* dates lose their fraction of a millisecond between validation and storage;
* the price is computed by two integer divisions and a subtraction that can
  leave its range.

`PROJECT.json` lists these as hazards, each at its line and with the properties
that are about it.

## The modules

    RentalLedger                 what booking promises, in one step
      ^ implemented by (ImplementsLedger)
    RentalBooking                the handlers, command by command
      RentalProperties           what must hold of them
        MCRentalBooking          small instances
        RentalBookingProofs      theorems
        RentalQueries            a client that reads rentals and lists meanwhile
          MCRentalQueries, RentalQueriesProofs
    RentalCost, RentalCostProofs the price, and theorems about it
    Registry                     what a collection with unique indexes promises
      ^ implemented by (ImplementsRegistry)
    CarCatalog                   creating and listing cars
      MCCarCatalog, CarCatalogProofs
    Accounts                     creating accounts, logging in
      UserSearch                 a client that reads the users page by page meanwhile
        MCUserSearch, AccountsProofs
    Tokens, TokensProofs         signed tokens over a clock that is set
    SharedClient, SharedClientProofs
                                 the one connection under all of them

### Conventions

The modules of the handlers share their form. `pc[w]` names the Mongo command
worker `w` executes next, or is `"ready"`; `req[w]` is the request it serves (or
served last), `answer[w]` the code of its last answer. An action is named for
its command (or for the storage operation that is the command), and does what
the database does with it **and** what the code does from there to the next
command: early returns, the choice of the error code, the answer. The
collections are functions from ids to documents, or to `None`. An id is drawn
fresh, as the driver draws ObjectIds; it is drawn when the request arrives,
which no other command can tell from drawing it at the insert.

If `Faulty`, a command may fail, and the process may be killed (`Crash`), which
makes every worker ready again without an answer. A failed or interrupted write
goes to `late`, from where it is executed (`LateWrite`, `LateInsert`) or lost at
any later time. A write that was executed and whose answer was lost is the same
as one that fails and lands at once. Reads have no such choice.

### RentalBooking and RentalProperties

| TLA+ | Code |
|---|---|
| `rentals`, `available` | the `rentals` collection; the `available` field of `cars` |
| `ReceiveCreate`, `RejectInvalid`, `ValidRental` | `RentalService::CreateRental` up to its first command, `domain::Rental::Create` |
| `UserExists`, `GetCarById`, `IsCarAvailable` | the three checks (`rental_service.cpp:55-78`) with their early returns; an id that is not well formed or names no document is `UnknownId` |
| `Clashes` | the filter of `MongoStorage::IsCarAvailable`, on stored dates: active, same car, `start < end'` and `end > start'` |
| `InsertRental`, `FindRental` | the two commands of `MongoStorage::CreateRental` |
| `HideCar` | `UpdateCarAvailability(car, false)` and the OK answer |
| `GetRentalById`, `CompleteRental`, `ReleaseCar` | `RentalService::CompleteRental`; the filter on `status` decides who completes |
| `ToDate`, `ToBson` | `b_date` counts milliseconds, a time point counts ticks |
| `FailureAnswer` | `catch (...) { return std::nullopt; }` of `MongoStorage::CreateRental` against the exceptions nobody catches |

The server starts on what `init-mongo.js` stored, which `docker-compose.yml` mounts as
the database's start-up script: `Loaded` are its rentals (active, completed and
cancelled; nothing cancels one later), `Listed` its cars that are available.
The script stores five active rentals of cars that it stores as available
(`init-mongo.js:535-582`), so the list contradicts `schema_design.md:71` before the
first request. The models take this as given: what they claim of the list is about
rentals that clients make.

`saw[id]` is a history variable: the rentals that were stored when the request
that creates `id` asked whether the car is available. It is read by properties
only. Loaded rentals count as seen by one another; that no car has two loaded active
ones is part of `LoadedAssumptions`.

`RentalLedger` is the collection as its readers would like to see it: it begins as
`Loaded`, `Book`
stores a rental that overlaps no active one, `Complete` completes an active one,
and nothing else happens. The refinement mapping is the identity on `rentals`,
with `Dates` the stored form of `Instants` and the dates of `Loaded`; `Next` of the workers either books,
completes, or leaves the collection alone.

### RentalCost

The arithmetic on its own, on tick counts that are counted from the earliest
time point. `Wrap` is the difference of two time points as a signed tick count;
`TruncDiv` is the division of C++ and of `duration_cast`. `CreateRental` prices
an arbitrary valid period, so a step from one rental to the next compares any two
of them, which is what `LongerIsNotCheaper` needs.

### RentalQueries

A client on a thread of its own calls `GetRentalById`, `GetActiveRentalsByUserId`
and `GetRentalHistoryByUserId` in any order (`Ask`), while the steps of
`RentalBooking` go on. A list takes two commands: `QueryUserExists`, then
`FindActive` or `FindHistory`. `shown` is history, what the client has been told.
`Reply` sets the total of a list to 0, which is what the code computes: it asks
for the size of the vector after having moved from it (`rental_service.cpp:128`).

### Registry, CarCatalog

`Registry` is a collection with unique keys as its users would like to see it: a
document is entered in one step, only where no other one has its keys, and stays
as it was entered. `CarCatalog` and `Accounts` implement it; the mapping of the
catalogue forgets the field `available`, the only one of a car that changes.

`ReceiveCreateCar`, `RejectInvalidCar`, `InsertCar` and `FindCar` are
`CarService::CreateCar`; `Duplicates` is what the two unique indexes of
`init-mongo.js` refuse. `StartScan`, `FindCars`, `CountCars` and `NextPage` are a
client that reads a listing by `offset` and `limit` until a page is not full;
`ParseQueryInt` is the handlers' reading of `limit` and `offset`, and `RefuseScan`
their refusal of one out of bounds or no number, or of an unknown class. `FindCars` and `CountCars` are the two commands of
the listings in the storage. The sort is by `created_at` alone, so `Newest` and
`Pages` leave the order of cars with equal times open, anew in every query.
`UpdateCarAvailability` is what bookings do to the catalogue meanwhile. Time
stamps are chosen freely: the clock may stand still and may be set back.

### Accounts and UserSearch

A client has one account it wants (`Account[c]`), and creates it again and again
until it is content, logs in with any login and password, and looks logins up.
What the handlers refuse without asking the service or the database is `Reject`:
fields that are not well formed, a login request that is none, an empty login.
`InsertUser` answers `CONFLICT` only for the duplicate key, `CommandFails`
answers `INTERNAL`: `MongoStorage::CreateUser` tells E11000 from the other
exceptions. A password stands for its hash. `token[c]` is the subject of the
token that `Login` returned. `registered` is history: the clients who have been
told that their account exists. `Loaded` are the users of
`init-mongo.js`.

`UserSearch` adds a caller of `SearchUsers` that reads on from where its last
page ended until a page is empty. Each call reads all matching users again
(`Found`) and cuts its page out of them with `int` arithmetic: `BeyondEnd` is the
early return, `Overflows` the sum that wraps around, `Pages` the slice. The users
come in the order of their insertion (`order`), as MongoDB returns documents
that are found without an index. A list is a set here, of which `First` takes the
users that were stored first, so that the proofs need no induction over sequences.

### Tokens

`Generate` is what `Login` returns: claims in whole seconds of the server's clock.
`CheckAuth` is `JwtAuthChecker::CheckAuth`. It refuses six kinds of header that are no
token of this server (`Strange`): none, not a bearer token, one that cannot be decoded
or that another key signed (jwt-cpp raises an exception of its own kind for these, so
they are `FORBIDDEN`), one for another issuer, audience or algorithm, and one without a
subject (these are `INVALID_TOKEN`); and tokens out of their lifetime.
`Handle` is the handler that reads the user from the request's context, any time
later. The clock shows `now + skew`, and `SetClock` sets it. A restart (`Restart`)
forgets requests and keeps the key, which is configured. `born` and `checked` are
history: the real times of the login and of the check.

### SharedClient

`MongoStorage` has one `mongocxx::client` and is made once; userver runs handlers on
several threads. `Send` and `Read` are the two halves of a `find_one` over its
connection. Commands are answered in the order they were sent, and whoever reads
takes the next reply. Of what undefined behaviour allows, this is one outcome.
`overlapped` is history: the lookups that waited for a reply while another one did.

## The runs

Each `.cfg` file is one run. Those of the first table pass, those of the second
end in a counterexample to one property.

| Run | Asks | Properties | Distinct states |
|---|---|---|---|
| `booking_races` | What stays true when two workers book and complete while commands fail, writes land late and the process dies? | `TypeOK`, `OverlapOnlyFromRace`, `ReferencesExist`, `RefusedLeavesNothing`, `OkIsStored`, `CompletedForOneClient`, `ListedOnlyByCompletion`, `RentalsArePermanent` | 1,474,255 |
| `booking_single` | Is the service right when it serves one booking at a time, and what may a client conclude from the lists it reads meanwhile? | `NoDoubleBooking`, `ListsMissNothing`, `CompletedForGood`, `ImplementsLedger` | 704,442 |
| `booking_deployed` | Does the deployed server answer every request, and do booked cars leave the list? | `EveryRequestIsAnswered`, `BookedCarIsHidden` | 33,077 |
| `rental_cost` | Is the price right at the boundaries of hours, days and the range of tick counts? | `CostIsNonNegative`, `RentedTimeIsCharged`, `OnlyStartedDaysAreCharged`, `LongerIsNotCheaper` | 975 |
| `catalog` | Who gets a VIN or plate that two clients want, and what may a client miss that reads a listing page by page? | `TypeOK`, `OkIsCatalogued`, `CreatedForOneClient`, `ScanMissesOnlyHidden`, `TotalCoversPage`, `ImplementsRegistry` | 4,076,790 |
| `accounts` | Who gets a login that two clients want, can clients rely on what they were told, and whom does a search meet? | `TypeOK`, `ConflictMeansTaken`, `RegisteredIsKnown`, `TokenMatchesPassword`, `SearchMeetsEveryoneOnce`, `SearchFailsOnlyIfGrown`, `ImplementsRegistry` | 3,587,429 |
| `tokens` | Who is refused and who is served while clocks are set, requests wait and the server restarts? | `TypeOK`, `RefusedOnlyAfterLifetime`, `ServedOnlyWithinLifetime` | 906,812 |

What they show, beyond that the properties hold:

* A double booking needs a race. `OverlapOnlyFromRace` says that two active
  rentals overlap only if neither request could see the other's rental. No
  failure, crash or late write makes a double booking by itself, and no request
  is let through against a rental that it could see.
* An OK answer to `CreateRental`, `CreateCar` or `CreateUser` can be relied on
  under every failure; refusals other than `CONFLICT` leave nothing behind, not
  even a pending write. `CONFLICT` is different, see below.
* A car whose booking was answered OK is not on the list of available cars because
  hiding it failed or came late: only the completion of one of its rentals puts it
  back (`ListedOnlyByCompletion`). That completion may be of another rental than the
  one that holds the car now, see `booking_released`. A booking that was answered
  with an error, or not at all, may leave its car listed for good.
* In the deployed server hiding a car is permanent: `CompleteRental` has no
  handler, so a car is hidden by its first rental and stays hidden
  (`BookedCarIsHidden`), although it can be booked for other periods. That is
  also why the run excludes completions.
* A scan of a class listing misses no car, even while cars are created: the
  list only grows, and at the front. A scan of the available list
  may miss one car for each car that was hidden meanwhile, and does. Among cars
  with equal `created_at` nothing is promised, and `Missed` leaves them out.
* A client that reads a user's active rentals first and the history second misses
  no rental; in the other order it may miss one that is completed in between.
* A search of users by pages meets everyone once, because new users come last. A
  search with the largest limit, meant to read everyone with one call, fails on
  its second page if somebody has registered since its first: the sum of offset
  and limit overflows, and the vector of a negative length is not made.
* A client with a token of its own login is never refused during its lifetime if
  the clock is never off by more than 29 s, the leeway less the second that claims
  lose. A token is served at most its lifetime, the leeway and the error of the
  clock after its login, by the time of the check: nothing checks it again.

`PROJECT.json` gives a mutant for every property: a changed definition, next to
the one it replaces in the module and marked `Mutant:`, that makes the run fail.

## What the runs refute

| Run | Property | Disagreement |
|---|---|---|
| `booking_double` | `NoDoubleBooking` | Two requests pass `IsCarAvailable` before either inserts; both rentals are stored and answered 201. `tests/test_basic.py:521` expects 409 for the second of two overlapping rentals. |
| `booking_conflict` | `ConflictMeansNotCreated` | "Failed to create rental" is also the answer when the rental was stored and reading it back failed, or when the insert lands later. The rental then holds the car, which stays listed as available. |
| `booking_released` | `AvailableHasNoActiveRental` | Completing one rental of a car sets `available` although another rental of the car, one that a client made, is active; `schema_design.md:71` reads it as "available for rent". |
| `car_conflict` | `ConflictMeansDuplicate` | `MongoStorage::CreateCar` turns every exception into `nullopt`, so a failing database is answered "Car with this VIN or license plate already exists". |
| `shared_client` | `FoundIsAsked` | Two worker threads send a lookup each over the one client, and each reads the other's reply. `tests/test_basic.py:215` expects the user whose login was asked for. |

Each property is an invariant, so each counterexample is a finite behaviour. `PROJECT.json` quotes the lines under `findings`.

## Bounds

| Bound | Where | Why it is enough |
|---|---|---|
| 2 workers | `booking_races`, `booking_deployed`, `catalog` | The handlers interact through documents, two at a time: a check against a write, a write against a write. The other requests' late writes act as further workers. The theorems have no such bound. |
| 1 worker and 1 client that queries, no failures | `booking_single` | The worker is the assumption under which the ledger is implemented, not a reduction of it; the queries compare what one client was told with what is stored. The theorems about queries have no such bound. |
| 2 rentals and a loaded one | all booking runs | An overlap relates two rentals, and so do two lists. The loaded rental is of the first period of a car that is listed: active in `booking_deployed` and `booking_released`, completed in `booking_races`, `booking_double` and `booking_conflict`, cancelled in `booking_single`. When the ids are used up, only invalid requests and completions arrive, so the system never stops. |
| Instants 0, 1, 2 (0, 1, 2, 4 with two ticks to the millisecond in `booking_single`) | booking runs | Equal, adjacent, nested, crossing and disjoint periods all occur; with two ticks to a millisecond, so do dates that differ by a fraction. Dates start at 1970: before it `b_date` would round the other way. |
| 1 car (2 in `booking_deployed`), 1 user, one unknown id | booking runs | Cars do not interact but for the filter, which two tell apart. |
| `HalfRange` 512, 2 ticks to the hour, 26 instants, rates 0, 1, 3 | `rental_cost` | Scaled down so that a range holds ten days; the instants sit one tick on either side of hour and day boundaries, of the middle of the range and of its ends, so that lengths on both sides of the overflow occur. The theorems hold for every scale. |
| 3 ids of cars, 1 of them stored, VINs and plates 1 to 3 | catalogue runs | Requests that agree in VIN, in plate, in both, in neither, with each other and with the stored car; cars that cross the keys of two others. |
| 1 or 2 cars to a page (of at most 2), 1 hide, stamps 1 and 2 | `catalog` | The limit is missing, the largest, or one more; the offset is missing or no number; the class is known or not. Offsets move past the change with every page; three cars, newest first, with ties and with clocks set back; cars hidden before and after the page that shows them. |
| 3 account ids, 1 of them loaded, 2 clients with one login and two emails | `accounts` | Two attempts: a first and its repetition, or the rival's. The theorems about accounts hold for any number. Login 2 is of the loaded user. |
| Limits 1 and 7, `IntMax` 7 | `accounts` | `IntMax` stands for 2^31 - 1: the largest limit overflows with any offset but 0, the smallest with none. |
| 2 tokens of 2 users, 1 worker, 9 instants of half a second, lifetime and leeway of a second, clock off by half a second | `tokens` | Logins and checks on either side of whole seconds, of the lifetime and of the leeway. The theorems hold for every value. |

`rental_cost` and the booking runs are separate modules because the price takes
no part in control: nothing reads `total_cost` back.

Symmetry is used over ids and workers, in runs without liveness; `booking_deployed`,
which checks liveness, has none.

## Fairness

`Spec` of `RentalBooking` adds `WF_vars(Step(w))` for each worker: a thread that
has a command to execute executes it, because the driver's calls return (with a
result or, where commands may fail, an exception), and threads are scheduled by
the system. Each worker's `Step` is enabled until it is ready again, so weak
fairness is all that is needed. Nothing obliges a client to call, a command to
fail, a late write to land or to be lost, or the process to die or not to die.

`EveryRequestIsAnswered` and `BookedCarIsHidden` are checked without failures
(`Faulty = FALSE`): a killed process answers nobody, and a failed `HideCar`
leaves the car listed for good. All other properties are safety properties and
are checked without fairness.

## Proofs

TLC checks the instances above; TLAPS proves the following for every value of
the constants that meets the modules' named assumptions.

| Theorem | Statement | From |
|---|---|---|
| `TypeCorrect` | `SafetySpec => []TypeOK` | `BookingAssumptions` |
| `OverlapsAreRaces` | `SafetySpec => []OverlapOnlyFromRace` | `BookingAssumptions` |
| `ReferencesAlwaysExist` | `SafetySpec => []ReferencesExist` | `BookingAssumptions` |
| `NoDoubleBookingOneAtATime` | `NoDoubleBooking`, one request at a time | and `OneAtATime` |
| `OneAtATimeImplementsLedger` | `ImplementsLedger`, one request at a time | and `OneAtATime` |
| `CostNeverNegative`, `AllRentedTimeCharged`, `NoIdleDayCharged`, `CostIsMonotone` | the four properties of the price | `CostAssumptions` |
| `StoredRentalsStay` | `SafetySpec => RentalsArePermanent` | `BookingAssumptions` |
| `NoRentalIsMissed`, `CompletedStaysCompleted` | `ListsMissNothing`, `CompletedForGood` | and `QueriesAssumptions` |
| `RefusalsLeaveNothing`, `OkMeansStored`, `OneClientCompletes` | `RefusedLeavesNothing`, `OkIsStored`, `CompletedForOneClient` | `BookingAssumptions` |
| `CompletionListsCars` | `SafetySpec => []ListedOnlyByCompletion` | `BookingAssumptions` |
| `DeployedListIsTrue` | `AvailableHasNoActiveRental`, nobody completes rentals and nothing fails | and `"complete" \notin Operations`, `~Faulty` |
| `ConflictNeedsFailure` | `ConflictMeansNotCreated`, nothing fails | and `~Faulty` |
| `TypeCorrect` of the catalogue | `Spec => []TypeOK` | `CatalogAssumptions` |
| `PagesMissOnlyHidden`, `TotalsCoverPages` | `ScanMissesOnlyHidden`, `TotalCoversPage` | `CatalogAssumptions` |
| `CreatedCarsAreCatalogued`, `OneCreatorPerCar` | `OkIsCatalogued`, `CreatedForOneClient` | `CatalogAssumptions` |
| `FalseConflictNeedsFailure` | `ConflictMeansDuplicate`, nothing fails | and `~Faulty` |
| `CatalogImplementsRegistry` | the catalogue implements `Registry` | `CatalogAssumptions` |
| `AccountsTypeCorrect`, `ConflictsAreTrue`, `RegistrationLasts`, `TokensMatchPasswords` | the four invariants of `Accounts` | `AccountsAssumptions` |
| `AccountsImplementRegistry` | the accounts implement `Registry` | `AccountsAssumptions` |
| `TokensTypeCorrect`, `LifetimeIsHonoured`, `ServiceEndsWithLifetime` | the three invariants of `Tokens` | `TokensAssumptions` |
| `SearchMeetsEveryone` | `SearchMeetsEveryoneOnce` | and `SearchAssumptions` |
| `OverflowNeedsGrowth` | `SearchFailsOnlyIfGrown` | and `2 * Cardinality(UserIds) <= IntMax` |
| `OnlyOverlapsExchange` | `FoundIsAsked` of lookups that overlap no other (`AloneIsAnswered`) | `IsFiniteSet(Threads)` |

`BookingAssumptions` comes with `LoadedAssumptions` in all rows. The assumptions say
what constants are: the unknown id names no document, `None`
is no document and no id, time points are natural numbers, a millisecond has at
least one tick, cars of the test data respect the unique indexes, its rentals
name users and cars that exist and no car has two active ones, a token lives
for whole seconds. `QueriesAssumptions` is `~Faulty`, since `RentalQueries` does not
kill the client's thread with the others. `LifetimeIsHonoured` is about clocks that
stay within the leeway less a second (`ClockIsSteady`, inside the property). `OneAtATime` is
`~Faulty` and at most one worker; it is a hypothesis of the two theorems that
need it, and `booking_double` shows that they do. `"complete" \notin Operations`
is how the server is deployed (no handler completes rentals), and `booking_released`
shows what completions do to the list. `booking_conflict` and `car_conflict` show the same of
failures, `ConflictNeedsFailure` and `FalseConflictNeedsFailure`: the theorems say that
what these runs refute has this one cause. Of `IntMax`, 2^31 - 1, `OverflowNeedsGrowth` asks that there be fewer than 2^30
users; without it, a search of more could reach the end of the ints by itself.

**Double bookings.** `OverlapOnlyFromRace` is not inductive: when a rental is
stored, what counts is what its request saw earlier. `Inv` of
`RentalBookingProofs` adds that a request about to insert, or an insert that
outlived its request, was *checked* (`Checked`): the rentals it saw are still
stored, and those of them that are still active do not overlap the new one. It
stays true because stored rentals keep their dates and are never active again.
This needs that the id of a pending insert is its own (`WorkerInv`, `LateInv`):
not stored, not late, not another worker's. `RaceInv` then says of any two
overlapping active rentals that neither request saw the other's. The proof that
a step preserves `Inv` has one case for each action; all of the late and failing
writes reduce to two lemmas about `Execute`.

**What a client was told.** `ClientInv` is about answers (`AnswerInv`), and about what
outlives them. A refused request has neither stored its rental nor left an insert of its
id in `late` (`Refusals`, `LateIds`): refusals other than `CONFLICT` are said before the
insert. An OK of a creation was said after the rental was found; it is stored as asked
(`StoredAsAsked`), and permanent. A completion was answered OK by the one command that
found the rental active (`Completed`); two requests that were cannot be of one rental,
as it is never active again (`ApartInv`). Late updates are of stored rentals
(`LateUpdatesStored`), so none of them brings one into being.

**Hidden cars.** A car is released by a command of a worker or by a late one, and each
stems from a request that found its rental active and completed it. `ReleaseInv` says
so of all three: a worker that was answered OK for a booking, or is about to release
(`WorkerListed`), and a late release (`LateListed`) have a rental of the car completed
since the start (`CompletedSince`). Completed rentals stay, and so does a loaded one
that was not active (`LoadedStay`), so this lasts; hiding a car is the last step before
its OK. Where nobody completes rentals and nothing fails, `ListedInv` says that a rental
a client made and whose car is listed belongs to a request that is about to hide it,
so none is left when all are answered, whatever cars the start-up script listed.

**References.** `RefInv` carries what the lookups established from the request
to its insert and from there to `late`.

**One at a time.** With one worker and no failures nothing is stored between a
request's query and its insert, so of two stored rentals one request saw the
other's (`OneInv`); with `RaceInv` that leaves no overlap. The same fact makes
`InsertRental` a step `Book` of the ledger; `CompleteRental` is its `Complete`,
and every other step stutters.

**Price.** The lemmas bound the two truncating divisions; the properties follow
by arithmetic. For periods whose length wraps around only the sign is claimed.

**Cars.** `Inv` of `CarCatalogProofs` says that stored cars differ in VIN and
plate, that pending and late inserts have ids of their own that are not stored,
and that a request that has inserted (`FindCar`, or answered OK) has its car as
described. Two clients told OK then have two cars, which differ. The same invariant
makes each insert that is executed an `Enter` of the registry, and every other step
a stutter: no step changes what identifies a stored car. For the same reason a car
that was the duplicate of a stored one stays it, so that where nothing fails a
conflict once answered stays true (`DuplicatesStay`).

**Listings.** That a scan has missed few cars when it ends is not inductive; `ScanInv`
says it of every point of the scan. A car is *unmet* if it was listed when the scan
began, no page had it, and nobody shares its `created_at`; it is *lost* if it is unmet
and has left the listing, or has moved up so far that it stands before the offset of
the next page (`Lost`). At most as many cars are lost as were hidden, and of a class
none: a new car only moves others down, a released one too, and hiding a car loses that
car or else the one that moves up to the last place passed (`LostOneMore`: two cars
cannot both be at that place). A page takes those that come next (`PageMeets`): a car
that is neither on it, nor lost before, stands after it, and if the page is not full,
there is none. `CountInv` keeps a page that was found covered by its listing until the
total is counted. All of it rests on the cardinalities of finite sets, and on no
induction: `Newest` is defined by what it contains, not by how it is computed.

**Rental queries.** A stored rental keeps its user and, once it is not active, stays
so (`StepIsPermanent`, the step lemma of `StoredRentalsStay`). `ShownInv` carries
that to what the client was shown: what it saw on the active list is still stored,
and what it saw stored but not active is in the history.

**Accounts.** `Inv` of `AccountsProofs` says the same of ids as `Inv` of the
catalogue, and for each client what its last answer was given for (`ClientInv`). Accounts
are never changed, so what `FindUser`, `CONFLICT` and `Login` established stays true.

**User search.** `SearchInv` says that what a client has met is the beginning of the
list (`Begins`) and as long as its offset. Beginnings of one length are the same
(`OneBeginning`), so the users skipped for a page are those already met, and the page
follows them; new users come last (`StoredLast`). For the overflow it adds that a
client which has met anyone has asked for no less than a page, or has met all it
expected: while nobody registers, offset and limit are both below the number of users.

**Tokens.** `Claimed` bounds the claims of a token by the real time of its login,
in spite of the error of the clock and of the fraction of a second that they lose;
both properties then follow by arithmetic at the step `CheckAuth`.

**One connection.** `Inv` of `SharedClientProofs`: every thread that waits has one
command on the wire, so a thread that waits alone finds its own there. Only lookups that
wait at the same time can get each other's replies, and when none is left the wire is
empty and the next lookup is safe again. A lock around each exchange would do, with any
number of threads.

### What is checked by TLC only

* Liveness (`EveryRequestIsAnswered`, `BookedCarIsHidden`): fairness and
  `ENABLED` are out of the prover's reach.

Every safety property that a run checks and that holds has a theorem. What TLC adds to
them are the instances on which they are seen not to be vacuous: the mutants break each
one there. The five properties that runs refute are refuted by TLC only; a theorem says of
each what it needs to hold.

No module declares a RECURSIVE operator.

## What is left out

* **Undisturbed commands.** Every handler uses one `mongocxx::client`, which is not
  thread safe. `SharedClient` shows what this may do to a lookup; all other modules
  take each command to get its own reply, as it does while no other exchange overlaps
  it, or if every thread had a client (a pool). This is the largest assumption made here.
* **JSON, validation of fields, wording.** A request is valid or it is not
  (`RejectInvalid...`); strings are members of small sets.
* **Signatures.** That jwt-cpp tells the tokens of `Strange` from those of this server
  is taken from its documentation, and so is the kind of exception it raises; the comparison of the
  claims of time with the clock is modelled from what jwt-cpp documents of its
  leeway. `Accounts` keeps a token's subject only. The user of a rental is the subject
  of a verified token, so it is never empty, but its account may be unknown.
* **Hashing.** Equal hashes mean equal passwords.
* **Callers of the rental queries and of `SearchUsers`.** No handler calls them; their
  callers here are made up, with positive limits. A list's total of 0
  (`rental_service.cpp:128`) is in the model and contradicts nothing that is written
  down. A list is one command: the documents of one user, or the users of a mask,
  fit the first batch of a cursor.
* **Signed overflow.** `end - start` of time points over 292 years apart is
  undefined in C++; `RentalCost` models the wrap-around that the project's
  x86-64 builds produce.
* **Rates.** Whole numbers, for which the `double` product is exact.
* **Schema validators** of `init-mongo.js`: what the domain classes accept passes
  them; an insert they refuse would be one more exception.
* **Process start, configuration, demonstration scripts.**

## Plan

Done: booking (model, abstract specification, refinement), rental queries, price,
catalogue and accounts with the registry they implement, user search, tokens, the
shared client; proofs of all safety properties.

Next, in order:

1. The refinement of the ledger where requests race: an abstract specification that
   admits the overlaps of races and nothing else.
2. The handlers' statuses as a function of the services' codes, against the
   responses `api/openapi.yaml` names.
3. `RentalBooking` over the shared client: which of its properties survive replies
   that change hands.

## Running the tools

    tlc -workers 2 -config booking_races.cfg MCRentalBooking
    tlc -workers 2 -config rental_cost.cfg RentalCost
    tlc -workers 2 -config booking_single.cfg MCRentalQueries
    tlc -workers 2 -config catalog.cfg MCCarCatalog
    tlc -workers 2 -config accounts.cfg MCUserSearch
    tlc -workers 2 -config tokens.cfg Tokens
    tlapm RentalBookingProofs.tla

The other booking runs use `MCRentalBooking`, the runs of cars `MCCarCatalog`,
`shared_client` uses `SharedClient`. The longest run takes about three
minutes, the longest proof less than that.
