# A verification project for the single-machine seckill system

The repository is a small shop with flash sales ("seckill"). It has a synchronous
path (`service/order.go` over MySQL) and an asynchronous one (`cmd/api`,
`cmd/worker`, `internal/*`: a Redis Lua script admits a buyer, RabbitMQ carries
the event, a worker writes the order). This directory holds TLA+ models of both,
TLC runs on small instances, and TLAPS proofs of every safety property the passing
runs check, the refinement of the abstract contract included.

To check a run: `tlc -config flow_everything.cfg MCSeckillFlow`; to check the proofs
of a module: `tlapm SeckillFlowProofs.tla`. A module's theorems are checked in that
module and cited in those that extend it, so each of the eight in section 4 is run
once. `PROJECT.json` lists the runs, the lines each
definition models, the hazards, the findings and, for every property, a faulty
variant of the code under which TLC finds it violated. These variants stand
beside the definitions they replace and are marked "Faulty variant".

## 1. Inventory

| Component | State | Operations | Interacts with |
|---|---|---|---|
| `dao/order.go`, `model/` | MySQL tables `orders`, `products`, `seckill_activities` | create a normal or seckill order, pay, cancel with stock return, lookups | every service |
| `internal/redisstore` | per activity: status, times, pre-deducted stock, set of buyers; per request: status, owner, expiry | admission script, `Mark`, compensation script, `PublishActivity` | `internal/optimized` |
| `internal/mq` | durable queue; publisher: mutex, connection, confirmation channel | `Publish` with confirm and timeout; `Run` with manual Ack and Nack | `internal/optimized` |
| `internal/optimized` | none of its own | `Admit`, `PublishActivityByID`, `RequestStatus`; worker: `ProcessEvent` | Redis, RabbitMQ, MySQL |
| `cmd/api`, `cmd/worker`, compose file | which process runs | warm-up at start, graceful stop, restart policy | all |
| `service/order.go`, `router/order.go` | none of its own | `CreateProductOrder`, `CreateSeckillOrder`, `Pay`, `Cancel`, reads | MySQL |
| catalogue: `service/product.go`, `service/activity.go`, their DAO and routes | rows of products and activities | create, update, delete, list | MySQL; the stock the orders take; deleted rows under queued admissions |
| users: `service/user.go`, `router/auth.go`, `middleware/` | table `users`; tokens are held by the clients | register, login, profile, token and role check | supplies the user of every call; guards the administrators' routes |
| `router/router.go`, `router/helpers.go` | none | three groups of routes, errors to HTTP codes | every service |
| `config/`, `dao/database.go`, `internal/observability`, `web/`, `benchmark/`, `deploy/` | settings, counters, pages | read at start; count; display; load | no decision of the order protocol depends on them |

How an asynchronous request travels: `Admit` runs the script (known request, sold
out, duplicate buyer, inactive, or reserve a unit and write `ACCEPTED`); a fresh
reservation is published and the handler waits for one confirmation under the
publisher's mutex; a failed publication is compensated and marked `FAILED`. The
worker marks `PROCESSING`, looks for an order with the request id, creates one in
a MySQL transaction, looks again if that failed, marks `SUCCEEDED`, or
compensates and marks `FAILED`; then it acks or nacks. Both remove the message
(`Nack(false, false)`, and no dead-letter queue is declared).

What is hard here: there is no transaction over MySQL, Redis and RabbitMQ; every
arrow between them can fail before or after its effect; the message can come
again; the admission stock is rewritten at every start; the confirmation a
handler reads need not be its own; two services with different idempotence rules
share one `orders` table; the synchronous service reads before it writes; an
administrator's update saves a whole row it read earlier; and a token outlives the
account it was issued for.
`PROJECT.json` has these as `hazards`, each at its line.

What makes each part correct:

- order store: units are conserved, the unique indexes give one order per request
  id and per buyer and activity, an order is settled once;
- Redis: what it may still hand out plus what is under way is backed by MySQL;
- queue and publisher: every call is answered, every message handled, although all
  handlers share one mutex; a handler reads the confirmation of its own message;
- asynchronous path: a claim takes one unit and is either won or lost, for good;
- synchronous path: what a caller is told agrees with MySQL under any interleaving;
- catalogue: an edit keeps an activity's counters together with its orders, leaves
  the stock of other rows alone, and no activity loses its product;
- users: one account per name however registrations race, a token stands for the
  account that logged in, and opens no more than its role.

## 2. Modules

| Module | Models |
|---|---|
| `ShopDomain` | the identities all stores share |
| `OrderStore` | `dao/order.go`: one action per transaction; a failed one changes nothing |
| `StockUnits` | extends it with the units that live orders hold of a product, for the two modules whose orders have quantities |
| `RedisStore` | `redisstore/store.go`: one action per script or command; one definition per return code of the admission script |
| `MessageQueue` | `mq/rabbitmq.go`: publisher mutex and confirmations, the queue, one delivery at a time |
| `SeckillContract` | abstract: claims are taken, won or lost |
| `SeckillFlow` | composes the three stores with the API process, its handlers, the worker, and everything that can go wrong between them |
| `BaselineOrders` | `service/order.go` over `OrderStore`, one step per SQL statement or transaction |
| `Catalog` | `service/product.go` and `service/activity.go` over `OrderStore`, next to committed orders |
| `Accounts` | `service/user.go`, `router/auth.go`, `middleware/auth.go` and the groups of `router/router.go` |
| `MCSeckillFlow`, `MCBaselineOrders`, `MCCatalog`, `MCAccounts` | instances for TLC |
| `OrderStoreProofs`, `StockUnitsProofs`, `SeckillContractProofs`, `SeckillFlowProofs`, `SeckillReservationProofs`, `BaselineOrdersProofs`, `CatalogProofs`, `AccountsProofs` | theorems (section 4) |

### State and actions

`OrderStore`: `rows` has the products and activities that exist (a statement on a row
that is gone finds nothing; an order keeps its ids); `stock`, `onSale`, `available`
and `orders` are the columns the transactions read. Names, prices, order numbers and
times are left out. An order is identified by its request id, which has a unique
index.

`RedisStore`: `published` and `redisStock` are the hash of an activity, `buyers`
its set, `status` and `ticket` the hash of a request (`ticket` is the owner the
script stores; `NONE` means there is no key). A hash that `Mark` recreates after
expiry has no owner and no expiry, as in Redis. The clock is only where it is
relative to the activity's window, as of the last `PublishActivity`.

`SeckillFlow`: `pc[c]` follows the handler of call `c` through `Admit` and
`Publish`; `wpc` follows the worker through `ProcessEvent`; `queue` holds the
delivery at its head until it is settled, so a dead worker's message comes again.
A step is one round trip to a store. Everything that is not the normal path is a
*disturbance*, counted by `disturbed` and bounded by `MaxDisturbances`:

| Kind | Meaning |
|---|---|
| `redis_down`, `redis_lost` | a command fails, or works and its reply is lost |
| `admission_lost` | the script ran, its reply was lost; the client's own retry is answered as a replay, or fails |
| `redis_wipe`, `expiry` | Redis returns empty; a request key expires |
| `mysql_down`, `mysql_lost` | a statement fails; the reply to COMMIT is lost |
| `publish_reject`, `publish_error`, `publish_timeout`, `conn_lost` | nack; send error; no confirmation in five seconds; the connection closes |
| `api_crash`, `api_restart`, `worker_crash`, `worker_stop` | a process dies, or gets SIGTERM |
| `admin_publish`, `activity_delete` | an administrator publishes an activity again, or deletes it |
| `malformed` | somebody else puts a message in the queue that is not an event |
| `direct_order`, `normal_order`, `cancel`, `payment` | committed transactions of the synchronous endpoints: a seckill order, an ordinary one, a cancellation, a payment |

Points a reader of the code may ask about:

- `*gin.Context` is passed as the context of `Admit`; its `Done()` never fires
  (the engine does not enable the fallback), so `case <-ctx.Done()` of `Publish`
  is never taken in the API.
- The worker's context is cancelled by SIGTERM. Redis commands then fail at once;
  MySQL statements do not use the context and go on. `WorkerRedis` has both.
- go-redis retries a command whose reply was lost, so `EVAL` can run twice:
  `admission_lost`.
- `docs/PROJECT-INTRODUCTION.md:216` says the worker acks after a failure, line
  306 that it rejects; the code nacks without requeue. The effect is the same.
- `ProcessEvent` reads the order and the activity in two statements (`Lookup`,
  `FindActivity`), so an order and a deletion may come between them.
- `PublishActivity` reads the row and writes Redis later. `publishing` has the rows
  that are in its hands (`Publication`: activity, stock read, a number), so that
  publications of one activity may overlap and be written in any order.
- In `SeckillFlow` every activity is `ACTIVE` and keeps its times in MySQL; it may be
  deleted, while Redis goes on admitting what was published. How activities are
  edited is in `Catalog`.
- A closed confirmation channel delivers the zero `Confirmation`, whose `Ack` is false
  (`ReadClosed`), whether the connection or only its channel closed.

`BaselineOrders`: `pc` and `op` follow a call. Each lookup is a step, so what was
read may be stale at the transaction, which does not check the window or (for a
seckill order) the product's status again. `supply` is not in the program: it
sums what administrators have put into `products.stock`. `Clock` opens and closes
the activity; `UpdateProduct` and `ActivityDeleted` are an administrator's.

`Catalog`: `pc`, `op` and `copy` follow a call of an administrator through its
statements; `copy` is the activity row that `ActivityService.Update` has read and
will save. Products and activities are identities that may have a row; `used` are
the ids given out, since AUTO_INCREMENT gives none twice. `OrderTraffic` is what
commits through `dao/order.go` between any two statements: a seckill order, an
ordinary one of a quantity in `Quantities`, a payment or a cancellation. Three facts of
the libraries are taken from how the code calls them, and stated in the module's
head: `Save` updates every column and inserts the row again when it is gone; saving
an activity also inserts its preloaded product when that is gone, and does not
update it otherwise; `AutoMigrate` makes `product_id` a foreign key.

`Accounts`: a password stands for its hash and a token for its signed claims, with
the call it was issued to as a history variable. `Insert` has the four outcomes of
an INSERT: done, refused by the unique index, failed, done with its reply lost.
`Outside` inserts administrators and deletes accounts, which no service does
(`smoke_test.go` does both).

## 3. Runs

Passing runs:

| Run | Instance | Shows |
|---|---|---|
| `flow_everything` | 2 buyers, 2 requests, 2 calls, 1 activity of 1 unit, all 22 disturbances, any 3 of them | `TypeOK`, `StockConserved`, `OneOrder`, `SucceededHasOrder` |
| `flow_redelivery` | 3 calls, 2 activities of 1 unit that share a product; crashes of the worker, lost replies, failing publications, any 3 | `ReservationsBacked`, `OrderKeepsReservation`, `OwnConfirmations`, `NoOveradmission`, `KeepsContract` (refinement) |
| `flow_shortage` | 3 calls, 2 units in the activity and 1 in the product; MySQL errors, failing publications, ordinary orders, a deletion of the activity, any 3 | `ReservationsBacked`, `ClaimsAreHeld`, `KeepsContract`, `DecidedIsFinal` |
| `flow_liveness` | 2 calls, 1 unit; worker crashes, MySQL errors, failing publications, lost connection, malformed messages, a deletion, any 2; fairness, no symmetry | `QueuedIsDecided`, `ClaimsAreDecided`, `CallsAnswered`, `QueueDrains` |
| `flow_restart` | 3 calls of 2 buyers with 2 request ids, 1 activity of 2 units, 1 unit of the product; the API dies or restarts, an activity is published again, orders are cancelled or paid, ordinary orders, publications are rejected, the worker crashes, any 3 | `ImbalanceNeedsCause` |
| `baseline_orders` | 3 calls of 2 users with 2 request ids, quantities 1 and 2, 1 activity; 1 MySQL error, 1 edit or deletion | `TypeOK`, `UnitsConserved`, `SettledOnce`, `AnswersAreTrue`, `SalesEnd` |
| `catalog` | 3 calls of administrators, 2 products and 2 activities of which one each exists, 2 units, which a save makes 1, 2 buyers with 2 request ids, ordinary orders of 2, 1 MySQL error | `TypeOK`, `ActivitiesHaveProducts`, `DriftNeedsStaleSave`, `ProductStockIsTheProducts` |
| `accounts` | 3 calls, 1 name, 2 passwords, 2 writes from outside, 1 MySQL error; fairness, no symmetry | `TypeOK`, `OneAccountPerName`, `AccountsStayTheirs`, `AdminRoutesNeedAppointment`, `SomebodyGetsTheName` |

The largest have between half a million and two and a half million distinct states and
take one to two minutes with two workers.

The disturbances of a run are part of what it says. `flow_everything` has the
properties that survive all of them, because MySQL is the last guard. The
balance between Redis and MySQL, and the contract, hold only under the
disturbances the design absorbs; the ones missing from `flow_redelivery` and
`flow_shortage` are missing because they break it. `flow_restart` has those that part the
two stocks without losing track of who has a claim. There the balance is lost, and
`ImbalanceNeedsCause` says in which steps only and by how much: the write of a
publication moves it by the open admissions and by what was sold or returned since the
row was read; a cancellation by the one unit Redis does not hear of; a redelivery by one
when it takes up a request that a dead worker had compensated. MySQL errors are not in
this run, since with a crash they may also make the worker compensate an order that
exists (two failing lookups); the theorem has them without a crash.

`ClaimsAreHeld` is about the 202 answers: a caller who is told `ACCEPTED`, perhaps by the
replay of a call that has published nothing yet, can rely on a handler or a message. It
does not hold when the reply of the admission script is lost, a handler dies, or the
worker is told to stop. The `claim_` runs show where the code departs from its documents:

| Run | Shows |
|---|---|
| `claim_compensation` | a failed `SUCCEEDED` mark compensates an existing order (`service.go:128`) |
| `claim_worker_stop` | SIGTERM during a delivery leaves a confirmed request undecided for ever |
| `claim_foreign_order` | `SUCCEEDED` for a request whose id another order had used |
| `claim_timeout` | after a confirmation that came too late the handler writes `FAILED` over the worker's `SUCCEEDED` (`rabbitmq.go:74`) |

Each checks one sentence of a comment or document, which `findings` quotes.

Some properties are stated with their exception, and the exception is a behaviour of the
code that a reader should know of:

- `ImbalanceNeedsCause`: a restarted API hands out again the units of queued admissions
  (`cmd/api/main.go:43`), and a redelivered request whose transaction keeps failing has
  its unit returned twice (`worker.go:21`), both against what
  `docs/PROJECT-INTRODUCTION.md:141` says of the admission script;
- `ClaimsAreHeld`: `ACCEPTED` is written before the event is published
  (`service.go:54`, against `docs/PROJECT-INTRODUCTION.md:224`), and when the API dies in
  between the request is never decided although its retry is answered 202;
- `DriftNeedsStaleSave`: an order between the read and the save of an activity's update
  is forgotten and its unit sold again (`service/activity.go:163`).

Other behaviours of the code that the models have and no run is spent on: of two
identical concurrent seckill calls one may be told it conflicts with its own order
(`service/order.go:130`); a registration that loses a race against one of the same
name is answered 500 and not 409 (`service/user.go:70`). And one that no property
could judge: a product's update writes the stock the administrator typed over orders
committed since (`service/product.go:139`); nothing in the repository says what it
should be then.

### Bounds

`Users`, `Requests`, `Activities`, `Products`, `Calls`: the interesting cases need two
buyers (one unit, two claims), two request ids (the same buyer under another id, two
buyers under one id) and two calls (a retry racing its first attempt). A third call is
there where a unit that was returned is taken again. One unit makes sold out and
compensation meet; two units with one product in stock make MySQL refuse what Redis
admitted. In `catalog` the third call is the one that edits what two others have raced
for; an absent product and an absent activity let both be created, a save of one unit
shrinks the listed activity or keeps it, and two buyers sell more than it may leave;
that an update may also enlarge one is left to the theorems of `CatalogProofs`.
In `accounts` three calls are a registration, its rival and a login or visit, or two
logins around a deletion; one name suffices, since the module relates a name only to
itself. `MaxDisturbances`: three is a fault, a fault of its repair (a crash and its
redelivery), and one unrelated event. In `flow_restart` two units let one be sold and
another be open when a publication is written, the single unit of the product makes a
transaction fail behind an ordinary order, and the third call lets a request that a
dead handler held be retried. `MaxEdits`, `MaxErrors`, `Quantities`, `Edits`: one edit
and one error between any two statements; two quantities make a shortage depend on who
asks, and in `catalog` an ordinary order of two takes the product's stock at once. The
counters are the only cuts: nothing else bounds a behaviour, since calls are one-shot.
For that reason behaviours end and the runs do not check deadlock; `flow_liveness` says
that they do not end early.

Symmetry: buyers, requests and calls are interchangeable in every safety property.
The runs with fairness use none.

### Fairness

`FairSpec` has weak fairness of each handler (`Handle(c)`: a goroutine that can go
on does, its reads have timeouts), of the worker (its loop; after a crash the
compose file's `restart: unless-stopped`, lines 47 and 62, starts it again) and of
the API's start. Arrivals, the clock and disturbances are not fair. A handler
that waits for the mutex is fair as well: `Publish(c)` is enabled again and again
but not continuously, and `CallsAnswered` still holds because only finitely many
calls compete and each releases the mutex. `Accounts` has weak fairness of each
handler for the same reason, and none of arrivals, expiry or outside writes.

## 4. Proofs

Each theorem holds for every number of buyers, requests, activities, products,
calls and queued messages, and for every bound on errors, edits and disturbances.
The assumptions are those the modules state on their constants (`StoreAssumption`,
`TicketAssumption`, `FlowAssumption`, `BaselineAssumption`, `CatalogAssumption`,
`AccountsAssumption`: stocks and bounds are natural numbers, ids of products and
activities differ, the model values that mean "nothing" are none of the values they
stand beside), which TLC evaluates in the runs, and for some theorems of the
asynchronous path one of the hypotheses `Tracked` and `Absorbed` below.

| Module | Theorems on what the runs check | With |
|---|---|---|
| `OrderStoreProofs` | (`TablesNextKeep`, `OrdersNextKeeps`, used by all others) | |
| `StockUnitsProofs` | (`WritesKeepUnits`, used by the two below) | |
| `BaselineOrdersProofs` | `TypeOK`, `UnitsConserved`, `SettledOnce`, `AnswersAreTrue`, `SalesEnd` | |
| `CatalogProofs` | `TypeOK`, `ActivitiesHaveProducts`, `DriftNeedsStaleSave`, `ProductStockIsTheProducts` | |
| `AccountsProofs` | `TypeOK`, `OneAccountPerName`, `AccountsStayTheirs`, `AdminRoutesNeedAppointment` | |
| `SeckillFlowProofs` | `TypeOK`, `StockConserved`, `OneOrder`, `SucceededHasOrder` | any disturbances |
| `SeckillReservationProofs` | `OwnConfirmations` | all but `publish_timeout` |
| | `ReservationsBacked`, `KeepsContract`, `NoOveradmission` | `Absorbed` |
| | `OrderKeepsReservation`, `ImbalanceNeedsCause` | `Tracked` |
| | `ClaimsAreHeld` | `Tracked`, no `admission_lost`, `api_crash`, `worker_stop` |
| | `DecidedIsFinal` | `Tracked`, no `worker_crash` |
| `SeckillContractProofs` | (`ContractInvariant`, from which `NoOveradmission` follows) | |

### Order tables

`OrderStoreProofs` proves that every transaction of `dao/order.go` preserves

    OrdersInv == OrdersTypeOK /\ OneUnitEach /\ OneOrder /\ StockConserved

`StockConserved` alone is not inductive: cancelling returns `quantity` units, so
seckill orders must have quantity one (`OneUnitEach`), and taking the order out of
the live ones lowers their number by one only if it is in the set once, which
uses the types and finiteness. In `Catalog` an administrator's edit may part the
stock from the orders, so the proof is split: `TablesNextKeep` says that a
transaction keeps `TablesInv` (the first three parts) and leaves the *sum* of an
activity's stock and live orders as it is, whatever the sum; `OrdersNextKeeps`
follows where the sum starts as the total. `DeleteActivity` is among the writes:
`StockConserved` speaks of activities that have a row, and a cancellation returns
units only to rows that exist.

`StockUnitsProofs` does the same for products, whose orders have quantities:
`WritesKeepUnits` says that `stock[p] + LiveUnits(p)` never changes by a
transaction. `LiveUnits` is a sum over a set of orders (`MapThenSumSet`), which takes
its members in an order of its own. That it may be taken in any order (`UnitsMore`,
`UnitsLess`) is an induction on the size of the set. The library's induction rules
take an operator as a parameter, which the provers cannot instantiate; the proof
takes a least counterexample instead (`LeastNat`, from well-foundedness of `<` on
the naturals, and `LeastSet`).

### Synchronous path, catalogue, accounts

`BaselineInv`: to show that calls tell the truth the invariant must say what each
step of a call knows. `StepsOK` ties a step to the kind of call it belongs to (the
steps of creations and of payments share labels with their answers). `Returns` keeps
the order of a call that has returned, which uses that transactions never remove an
order nor change what it is for. `Closes` says that a successful payment or
cancellation has left its order not pending; with the guard `WHERE status =
'PENDING'` a second success of the same order contradicts it, so `SettledOnce` is
inductive beside it. `OneCreator` needs the unique index in the same way.
`UnitsConserved` uses `WritesKeepUnits` and that no product row disappears here
(`UnitsOK`), since a cancellation does not return units to a row that is gone.
`SalesEnd` is about steps: `CheckedFirst` says that a call gets to its transaction only
by its check, which looks at the times (a retry does not come back to it), and
`SalesEndStep` that nothing else adds an order.

`CatalogInv`: `ActivitiesHaveProducts` is kept by each statement on its own, beside the
types; the rest of the invariant is about stale rows. `CopiesOK` says that a call
that saves has read the row it saves, and carries the result of `Check`: what an update
enters covers what the row it *read* had sold. That is why a save never makes a
stock negative, although the row in the table may be another by then. `UsedOK`
relates ids to what refers to them (rows, the products of activities, the activities
of orders), so that a save which brings a row back brings back a used id, and a *new*
activity has no orders, hence no drift. `TablesInv` gives the sums that the two action
properties compare; each statement is then one case of them.

`AccountsInv`: `IdsUsed` (the next id is beyond those of all accounts and tokens, so
that a deleted account's id is nobody else's) is what `AccountsStayTheirs` needs.
`RolesOK` relates the role in a token to that of its account, and says that
everybody is a `USER` while nobody has written the table from outside;
`AdminRoutesNeedAppointment` follows.

### Asynchronous path: what survives everything

`SeckillFlowProofs` lifts the order tables to the whole flow. `OrdersStep`,
`RedisStep` and `QueueStep` show that each step of `SeckillFlow` does to each store
one of the store's own operations or nothing, so that a store's invariant is proved
once for the operations and not once per action; `ControlStep` does the rest of the
types (a busy worker has a delivery at hand, and it is an event: `Malformed` at the
head is rejected by an idle worker). `SucceededHasOrder` needs that a worker about to
mark has an order for its delivery (`SucceededInv`), which holds because orders are
never deleted and the delivery at hand does not change under it.

### Asynchronous path: what the design absorbs

`SeckillReservationProofs` has two hypotheses on the constants:

    Unbalancing == {api_crash, api_restart, admin_publish, cancel}
    Tracked  == Disturbances \subseteq
                  {publish_reject, publish_error, admission_lost, malformed, worker_stop,
                   worker_crash, mysql_down, mysql_lost, normal_order, activity_delete,
                   payment} \cup Unbalancing
                /\ not both mysql_down and mysql_lost
                /\ worker_crash => /\ no mysql_down, normal_order, activity_delete
                                   /\ none of Unbalancing
                                   /\ Plentiful
    Absorbed == Tracked /\ none of Unbalancing

Under `Tracked` it is always known who holds an undecided request; under `Absorbed` the
two stocks stay in balance besides. Both are weaker than what the runs assume: the
disturbances of `flow_redelivery` and of `flow_shortage` are cases of `Absorbed`, which
adds `malformed`, `worker_stop` and `payment` to each; those of `flow_restart` without
the crashing worker are a case of `Tracked`. What is left out is left out because the
code does not keep the account under it:

- `redis_down`, `redis_lost`: a compensation or a mark is lost or done although it
  is reported lost (`claim_compensation`);
- `redis_wipe`, `expiry`: the keys the balance speaks of are gone;
- `publish_timeout`, `conn_lost`: the handler compensates while the message stays in
  the queue, and the worker orders it later;
- `direct_order`: the synchronous endpoint takes MySQL stock that Redis does not hear
  of, and may use a request id that is under way;
- `api_crash`, `api_restart`, `admin_publish` (out of `Absorbed` only): Redis stock is
  written from MySQL's, which does not count the open admissions;
- `cancel` (out of `Absorbed` only): returns a unit that Redis does not hear of;
- `mysql_lost` and `mysql_down` together: the COMMIT reached MySQL, its reply did not,
  the second lookup fails, and an existing order is compensated;
- `worker_crash` with whatever makes a transaction fail (`mysql_down`, an activity
  without a row, a product short of units because of ordinary orders or
  because its activities have more units than it, which `Plentiful` excludes, or an
  admission beyond the stock, which `Unbalancing` permits): the
  redelivery fails the request a second time (`Reopened`).

The invariant `ReservationInv` answers who may decide an open request. At any moment
that is one handler whose message is not out (`CallsOK`), one message of the queue
(`MessagesOK`), or the worker with the first message (`WorkerOK`), and each knows
whether the request has been touched: an unsent or waiting one is `ACCEPTED` without
an order, and at each step of `ProcessEvent` the status and the lookups say which
orders can exist. `TicketsOK` and `PurchasesOK` tie the hashes, the buyers sets and
the orders to each other; `PublisherOK` says that the mutex holds the only
confirmation and that only an API that serves has handlers; `StartOK`, in balance,
that nothing is sold before the warm-up has written the stock; `PlentyOK` that with
a crashing worker a claim's transaction cannot fail; `BalanceOK` is the balance
itself, claimed only under `Absorbed`. The preservation proofs go through the ledger
of claims: `LedgerStep` shows that every step claims, wins or loses exactly one
claim (`Claims`, `Wins`, `Loses`), or none, and is then the write of a publication
(`Refill`), a cancellation (`Refund`) or moves no stock (`Still`). The balance, the
tickets and the refinement are proved from those six cases and not from the thirty
actions.

`GapStep` computes from the same six cases what a step does to `Gap(a)`, the balance of
an activity, whatever its value: a claim, a win and a loss each move two of its three
terms and cancel out. `ImbalancesExplained` is that lemma lifted to behaviours, and
under `Absorbed` it leaves the balance at zero, which is `ReservationsBacked`.

`NoClaimIsOrphaned` proves `ClaimsAreHeld` with `HoldersOK`: an undecided claim is with a
handler that has yet to publish or compensate it, or in the queue, where the message
stays until its status is final (the worker acks and nacks only what it has decided). A
handler that waits for a positive confirmation does not count as a holder there, since
its message is already out.

`ContractKept` is the refinement: initial states map to initial states and each
step to a step of `SeckillContract` or a stutter. `NobodyIsOveradmitted` uses it:
`SeckillContractProofs` proves of the contract alone that units left and claims
add up to the total, the refinement carries that over, and a request that has not
failed is an open or won claim. `DecisionsAreFinal` also excludes `worker_crash`, since
a worker that dies after marking `SUCCEEDED` marks the redelivered request `PROCESSING`
again. `ConfirmationsAreOwn` has an invariant of its own (`MutexInv`) and needs only
that no confirmation times out: a closed connection also drops what was on its way.

### Only model-checked

The five liveness properties (`QueuedIsDecided`, `ClaimsAreDecided`, `CallsAnswered`,
`QueueDrains`, `SomebodyGetsTheName`): they rest on fairness, that is on `ENABLED`,
which the prover does not handle. The `claim_` runs are counterexamples, and need
no proof. All other properties of the runs are proved.

## 5. Not modelled

Names, prices, times of activities in the catalogue and the text of requests and
answers (also the activity id that `Admit` echoes); the status of an activity, which
the order paths see as the window they check; the input checks of the handlers, which
answer before anything is read; hashing and signing themselves; the ten-second limit
of `Shutdown` and the readiness endpoints; MySQL's lock order (a deadlock victim is an
error that rolls back, which `mysql_down` and `MaxErrors` include); the read-only
endpoints; configuration, metrics, pages, benchmarks. `PROJECT.json` has the reason
for each.

## 6. Plan

Done: `OrderStore`, `StockUnits`, `RedisStore`, `MessageQueue`, `SeckillContract`,
`SeckillFlow`, `BaselineOrders`, `Catalog`, `Accounts`, and the theorems above.

Next:

1. Proofs: `ImbalanceNeedsCause` with the crashing worker, where a request may be taken up
   again after it had failed; that without a stale save an activity of the catalogue never
   has more live orders than its total.
2. `SeckillReservationProofs` is the longest module; `CallsStep` and `MessagesStep` treat
   each disjunct of `Handle` and `Worker` and could share more through `WorkerMoves`.
