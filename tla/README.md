# A verification of scrum-store-be

scrum-store-be is the server of a shop for consumer groups: a NestJS application over
PostgreSQL, through TypeORM. Members order articles in supply periods; managers and
preparers prepare the orders, deliver them and record what was paid. The server is one
Node process: a handler runs without interruption from one `await` to the next, and
requests interleave there. PostgreSQL runs at READ COMMITTED; most handlers use no
transaction at all, and those that do often read before they open it.

This directory holds TLA+ modules translated from that code, TLC configurations that
check them on small instances, and TLAPS proofs of what holds for every instance.

## Inventory

| Component | State | Operations | What is hard | What makes it correct |
|---|---|---|---|---|
| Orders: money (`orders.service.ts`) | `orders`, `order_items`, `period_user_payments` | create, delete, edit and delete a line, mark an order or a period of a user as paid or unpaid | amounts kept in three places and moved separately; rounding; lines whose article or period is gone; edits that read before their transaction | totals are sums of lines; paid orders are covered; nobody is recorded as having paid more than the bill |
| Orders: edits of one order at once | the same rows, the objects the requests read, the transactions | the statements of updateOrderItem, deleteOrderItemById and markAsPaid | the order is read before the transaction, and `save` writes what was read back; locks, refusals, stops in between | an edit whose order did not change behaves as one step; no item is left without an order |
| Orders: preparation | `order_items.is_prepared`, `orders.is_delivered` | tick an item, the items of an order in a period, all items of a period; set delivery by hand | no transactions: every statement interleaves; restarts between statements | an order is delivered exactly when its items are all prepared |
| Orders: idempotency | a map in memory, an interval that cleans it | looked up and filled by create | concurrent submissions; expiry; restarts | one submission, one order |
| Periods (`periods.service.ts`) | `periods`, `period_articles` | create, update, remove, add and price articles, one or many | dates checked on update in parts; delete-and-insert without a transaction; no unique index on what is offered | a period offers what was asked last; no offer outlives its period or article |
| Articles (`articles.service.ts`) | `articles`, `article_price_history` | create, find or create by hash, update, delete, flags and image, batches, normalisation | check-then-insert on a hash that is not unique; rows saved as they were read; price changes reach the running period first | an article is found again under every spelling; no product is lost; the history has every price |
| Migrations (`migrations/`, `data-source.ts`) | the schema, and the rows that older releases wrote | 24 migrations, applied together and reverted one by one | old databases made by `synchronize`; statements that skip what exists; reverts that do less than they should | every database ends in the schema of the entities, and keeps its rows |
| Consumer groups (`consumer-groups.service.ts`) | `consumer_groups`, `user_consumer_groups`, `group_invitations` | groups, members, roles, default group, invitations | check-then-act on invitations and on the default group; rows saved as they were read; deletions in between | a used invitation stays used; members are of users and groups that exist |
| Basket schedule (`basket-schedule.service.ts`) | votes, assignments, one configuration per group | set and clear | check-then-insert under unique indexes | one vote per member and day; none of a deleted group |
| Authentication (`auth.service.ts`) | `refresh_tokens` | register, login, refresh, logout, reset of a password | refresh is read, check, revoke, store without a transaction; two tokens of one second are one | a token that was revoked is never accepted again |
| Users, configuration (`users.service.ts`, `config-system.service.ts`) | `users`, `system_config` | create, update, roles, status, passwords, delete; login on and off | a save hashes the password again; deletion cascades | no session and no membership of a deleted user |
| Guards and roles | none | decisions about a request from its user and its memberships | | |
| Sales (`sales.service.ts`) | `sales`, `sale_items` | create, register a payment, set delivery | no request reaches them (see below) | |
| Categories, suppliers, producers, notices | single rows | create, read, update, delete | little | |
| Mail, storage, summary layout, scripts, seeds | none of their own | | external systems | |

Components meet in the database: foreign keys with ON DELETE SET NULL (an item loses its
article or its period) and ON DELETE CASCADE (items go with their order, payments with
their period; members and sessions with their user, members and schedules with their group;
offers and prices with their article). Orders call articles, periods and groups for their
checks; articles call periods when a price changes; periods send mail; login reads the
configuration; migrations run before the server starts, and leave it the rows of older releases.

`save(entity)` of TypeORM deserves a warning that several modules rely on: it reads the
row again, writes the columns that differ from the object in memory, inserts the row if
it is missing, and does the same to the related rows the object was loaded with, where
the relation cascades (`Order.items`, order.entity.ts:32).

## Modules

### Amounts, AmountsProofs

`Amounts.tla` has the arithmetic that modules about orders share: `Sum`, `Rounded` to a cent,
`Edited` (what `updateOrderItem` and `deleteOrderItemById` both make of total, paid amount and
status) and `Errors` (how a sum of doubles may miss its cents). `AmountsProofs` proves
what the other proofs use: `EditedAmounts` bounds the result of an edit, `SumMonotone` compares sums.

### Orders, MCOrders, OrdersProofs

`Orders.tla` is the money of one group. `order`, `item` and `payment` are the tables, as
functions from ids to rows; `article` and `period` are what orders see of the catalogue
and the calendar. Each request of OrdersService that touches money is one action:

| Action | Code |
|---|---|
| `Create`, `Delete` | `create`, `delete` |
| `UpdateOrderItem`, `DeleteOrderItemById` | the same; `deleteOrderItem` picks an item and calls the second |
| `Edited`, `Recalculate` | the recalculation of total, paid amount and status that both edits share |
| `MarkAsPaid` | `markAsPaid` |
| `MarkPeriodOrdersAsPaid`, `MarkPeriodOrdersAsUnpaid` | the same, with `SettledBy` for the orders a payment completes |
| `DeleteArticle`, `RemovePeriod` | the foreign keys of `order_items` and `period_user_payments` |
| `CreateArticle`, `ToggleShowcase`, `CreatePeriod`, `EndPeriod`, `UpdatePeriod` | what changes whether an order is accepted, and what the transport of a period costs |

Abstractions. Amounts are integers of cents. The price of a line, computed from unit
price, quantity, options and tax and rounded to cents, is any member of `Prices`. The
order total of an edit is compared as an IEEE double before it is rounded: `Recalculate`
lets that sum carry an error of either sign when the total is in `InexactTotals` and at
least two lines are not free. `MCOrders.cfg` lets the total 6 be inexact, which is
more than any one pair of doubles does; properties that hold there hold of fewer
errors. `MCOrders_rounding.cfg` has the real case, 10 and 20 cents. `transportCost` is
what the transport of a period costs, tax included, in whole cents; `UpdatePeriod` changes it at any
time, also after payments that included it, as `periods.update` does. Deleting a user is
deleting the user's orders and payments one by one; only the first is here. A request is
one step here; OrderEdits has the steps inside the requests about one order.

### OrderEdits, MCOrderEdits, OrderEditsProofs

One order and the requests that edit, pay or delete it, a statement at a time. `row` is
what is committed: the row of the order and one price per item. `handler[h]` is the object
the request of `h` read, changed (`want`), and what it has left to do; `written[h]` is what its
transaction has written, NULL for a deleted row, and at the same time what it has locked.

| Action | Code |
|---|---|
| `ReadForUpdate`, `Load`, `Write` with `save = {item}`, then `Load`, `Write` with `save = Rows`, `Commit` | `updateOrderItem`: the read, `save(item)`, `save(order)`, the commit |
| `ReadForDelete`, `Remove`, then `RemoveOrder` or `Load`, `Write`, and `Commit` | `deleteOrderItemById` |
| `ReadForPayment`, `Pay`, `Commit` | `markAsPaid`, which updates two columns by the id |
| `Fail` | a statement that is refused, a deadlock that PostgreSQL breaks, a stop of the process |
| `Create`, `Delete` | the same requests as one step |

What an edit computes is known when it has read the order, so `want` is computed there.
`save` is modelled by what TypeORM does: it loads the rows of its object again (`Load`; the
SELECTs of one save are one step) and writes the difference (`Write`): `Missing` rows are inserted,
`Changed` columns updated, and items it was not told of (`Orphans`) would lose their order,
which `order_id` forbids. A statement sees the committed rows with the writes of its own
transaction over them (`Sees`) and waits for rows others have written (`LockedFor`). The statements
that one save writes with are one step: they set rows to values fixed before, under locks
that are kept until the end. The ids of a deleted order and of its items are used again for a new order
when no request is left that knows them, which keeps the state space finite and only
adds histories. The order has no period, so no transport.

`Money` is module Orders with this one order: the refinement is `FreshEditsAreAtomic`, which
says that a commit of a request that is not `stale` is the corresponding action of Orders.
`stale[h]` is history: has a commit changed the order since `h` read it? Stale requests are what
the code does not handle, and what a stale one can do is shown by the run order_edits_race.

### OrderPreparation, MCOrderPreparation, OrderPreparationProofs

Here a step is one SQL statement of one request: the handlers that tick use no
transaction, and those that edit read the order before they open theirs. `handler[h]` holds what the request of `h` has read and has still to do.
`ReadForItem`/`WriteItem` is `updateItemPrepared`; `ReadForOrder`/`WriteItems`/`Reread` is
`updateOrderPeriodItemsPrepared`; `WritePeriod`/`Sweep` is `updatePeriodItemsPrepared` with
`updateOrdersDeliveryStatus`; all end in `Deliver`, one `UPDATE` per order that changes.
`Create` and `Delete` are single steps, since only their effect matters to preparers. `Restart` drops
all requests. Ids in `gone` are never given again, as UUIDs are not.

The requests that save a whole order, with the items they have read, are there too:

| Action | Code |
|---|---|
| `ReadForDelivery`, `Load`, `Save` | `updateDelivery` |
| `ReadForUpdate`, `Load`, `Save` | `updateOrderItem`: its save of the order comes after that of the item and decides (see the head of the module) |
| `ReadForDelete`, `Load`, `Save`, or `RemoveOrder` when the item was the last | `deleteOrderItemById` |
| `Fail` | a statement that is refused, or a deadlock |

`Load` is the SELECTs of `save`, and `Save` what it writes: the columns in which the object in memory
differs from what was selected, so that ticks made before `Load` are undone and those made after it
stay, unless the same item is written; items that others deleted are inserted again, or refused
(`Refused`).

A workload, in `kinds`, is the set of kinds of requests that arrive, with "untick" for those with
`isPrepared` false and "restart" for restarts, because what holds depends on them:
agreement of items and delivery holds for requests that tick and then read again, fails
for `updateItemPrepared` (which compares what it read before), and is broken by requests
that set the delivery by hand or save stale items. `stale[h]` is history: the orders that others have changed
since the request of `h` began. A request that ticks items, among any others, leaves those of its orders that
are not stale in agreement (`RequestRepairsOrder`).

### OrderIdempotency, MCOrderIdempotency, OrderIdempotencyProofs

`create` as the idempotency cache sees it: `Submit` is the code up to the first `await`,
`Refuse` and `Commit` the end of the transaction, `Remember` the write of the cache;
`CleanIdempotencyCache` runs from its interval at any time, `Restart` empties the map.
`order` keeps every order ever made, with the times the property needs (history, not
columns). A request that hits the cache changes nothing and is not a step.

### Entities, Naming, Migrations

`Entities.tla` is the schema that the code expects, table by table as the entities of TypeORM
declare it. `Migrations.tla` is the 24 migrations as data: `Migration(up, down)`, each a sequence
of statements that `Step` does one after the other until one fails, and `Do` interprets on `db`, a record of columns, foreign keys with their rule
ON DELETE, unique indexes, labels of enumerated types and representative rows (an order, a
line, a sale, articles). Statements keep their conditions: `CreateTableIfNotExists` skips a
table whatever its columns, `AddForeignKeyIfNotExists` one whose name is there, and
`FixSales`, `AllowArticleDeletion` and `RemovePartial` look at rows and keys as their SQL does.

| Action | Code |
|---|---|
| `MigrateTo(n)` | `migration:run` of a release that knows the first n migrations, one transaction for all that are pending |
| `Revert` | `migration:revert`, the `down` of the last one |
| `OlderRelease` | the rows that a release of that time may write into the schema it finds: `WriteOrder`, `WriteLine`, `WriteSale`, `WriteArticle`, or the article of a line deleted, `UnlinkLine` |

`OldDatabase` is a database that `synchronize` made from the entities of an early release: it has
the first tables without later columns, and its foreign keys under hashed names that the
migrations do not know. `Naming.tla` has what names and hashes have in common. A name is a product (with
its category) and a variety, which are columns of their own; `Norm` capitalises each word and joins its spaces,
`HashKey` trims it and puts it in upper case. What these two make of a word is a constant, over a
few spellings, so that nothing is put together character by character.

### Catalogue, Deployment, MCDeployment, CatalogueProofs, DeploymentProofs

`Catalogue.tla` has a step per statement of `ArticlesService` and `PeriodsService`, which open no
transaction. `handler[h]` is what the request of `h` has read, `was` (history) the tables when it began,
as long as nobody else has changed them. A `save` is two statements: `Load` selects the rows, into
`loaded[h]`, and the action that saves writes the columns in which the object in memory differs from
what was selected (`Columns`, `ArticleColumns`); a price is always written, as the column comes back as a
string. A row that was not found is inserted, which its primary key refuses when another request was
faster (`Refused`).

| Action | Code |
|---|---|
| `Import`, `FindExistingArticle`, `SavePrice` or `Insert`, `SavePriceHistory`, line after line | `createBatch` with `findOrCreateArticle` |
| `CreateArticle`, `Insert`, `SavePriceHistory` | `create` |
| `Update`, `ReadCurrent`, `SaveOffer`, `Confirm`, `OfferInCurrent`, `InsertOffers`, `Write`, `SavePriceHistory` | `update`, with what it asks of PeriodsService when the price changes |
| `Flag`, `ReadForFlag`, `SaveFlag` | `toggleShowcase`, `updateImage`, `deleteImage` and the three batches |
| `Delete`, `DeleteNext` | `delete`, `batchDelete` |
| `Normalize`, `Merge`, `RemoveDuplicate` | `normalizeAllArticles` |
| `CreatePeriod`, `UpdatePeriod`, `SavePeriod`, `Withdraw`, `InsertOffers`, `RemovePeriod` | `create`, `update`, `remove` of periods |
| `AddArticle`, `AddArticlesBatch`, `UpdateArticlePrice`, `RemoveArticle` | the same |

`Workloads` says which kinds of requests arrive together; in those with "alone", one follows
the other, so that long histories of every kind stay within reach. Abstractions: one group with one
supplier; requests come from its managers; the columns that handlers of one form toggle
are one, `shown`; the lines of orders are in Orders.

`Deployment.tla` composes the two: `Maintain` migrates while the server is down, `StartServer`
gives the catalogue the articles that the migrations left, with their names as they were
spelt and their hashes, and `Serve` answers requests. The rest of the database is forgotten at that
point, as the catalogue does not read it.

### Requests, Accounts, Memberships, BasketSchedule, Community, MCCommunity, CommunityProofs

A chain of modules, each of which extends the one before: `Requests.tla` has the requests in
flight and the tables under a unique index (`Inserted` refuses a second row, `Saved` is
`save()` of a row that was read, which comes back if it was deleted). A step is the reads of a
request up to its first write, or one writing statement.

| Action | Code |
|---|---|
| `Register`, `InsertUser`, `StoreRefreshToken` | `register` of AuthService, `create` of UsersService |
| `Login`, `StoreRefreshToken` | `login` with `validateUser`, `generateTokens`, `storeRefreshToken` |
| `RefreshToken` or `Logout`, `RevokeRefreshToken`, `StoreRefreshToken` | `refreshToken`, `logout` |
| `ResetPassword` or `UpdateUser`, `SaveUser`, `RevokeAllUserTokens` | `resetPassword` of AuthService; `update`, `updateProfileImage`, `updateRoles`, `updateStatus`, `resetPassword`, `updatePassword` of UsersService |
| `DeleteUser`, `UpdateConfig`, `Tick` | `remove` and `delete`; `updateConfig`; the clock |
| `Create`, `InsertGroup`, `InsertManager` | `create` of a group |
| `Update`, `UpdateStatus`, `SaveGroup`, `Delete` | `update`, `updateImage`, `updateStatus`, `delete` |
| `JoinGroup`, `AddMember`, `InsertMember`, `RemoveMember` | `addMember`, `removeMember`, the controllers that call them |
| `UpdateMemberRole` or `SetDefaultGroup` with `ClearDefaults`, then `SaveMember` | the same |
| `CreateInvitation`, `UseInvitation`, `InsertMember`, `MarkUsed`, `Expire` | `createInvitation`, `validateInvitation`, `useInvitation`; time |
| `SetVote`, `SaveVote`, `ClearVote`, `SetAssignment`, `SaveAssignment`, `ClearAssignment`, `UpsertConfig`, `SaveConfig` | BasketScheduleService |

`Community.tla` composes them: the deletion of a user or of a group is carried on by the foreign keys
of the next table (`CascadeUsers`, `CascadeGroups`), `Restart` forgets the requests, and `Watch` keeps
`was[h]`, the tables at the start of a request until somebody else changes them (history). `ended` and
`spent` are history too: tokens whose revocation, and invitations whose use, was answered.

Abstractions. E-mails have one spelling (the code lower-cases some and not others). Rows of users are found by
their e-mail, and have an id (`UserIds` bounds how many there may be), a password and whether the user is an
administrator; `UpdateUser` may change e-mail and roles too, and `SaveUser` refuses the change of an
e-mail that tokens or members refer to. A row of a member has one role in place of three flags.
The guards of the controllers take the group from the body or the
query before the id in the URL (is-manager.guard.ts:27, is-manager-or-preparer.guard.ts:26), so
`PassesManager` and `PassesPreparer` ask for the role in any group of the user. A `save` is one step here (`Saved`):
what another request writes between its SELECT and its UPDATE, in a column that this one does not change,
would stay in the code and is overwritten in the model. A refresh token is the pair of its user and its second, as the signature depends on nothing
else. The read and the save of `revokeRefreshToken` are one step: nothing but a revocation
ever updates a token. The configuration of a group is merged from what is sent and
what `save` finds.

## Runs

| Run | Configuration | Result |
|---|---|---|
| orders | `MCOrders.cfg`: 2 orders, 2 items, 2 users, 2 articles, 2 periods, prices 0 and 3, transport 0 and 3 | passes, about 580 thousand states |
| orders_transport | `MCOrders_transport.cfg` | `PeriodPaymentIncludesTransport` is violated |
| orders_rounding | `MCOrders_rounding.cfg`: 10 + 20 cents | `EditKeepsFullPayment` is violated |
| order_edits | `MCOrderEdits.cfg`: 2 handlers, 2 items, prices 0 and 1, the total 2 inexact | passes, about 2.2 million states |
| order_edits_race | `MCOrderEdits_race.cfg`: prices 1 and 2 | `NoEmptyOrder` is violated |
| preparation | `MCOrderPreparation.cfg`: 2 handlers, 2 orders, 3 items; ticks of orders and periods with fairness, and requests of every kind with restarts | passes, about 680 thousand states |
| preparation_stale | `MCOrderPreparation_stale.cfg`: 2 handlers, ticks of items | `DeliveredIffPrepared` is violated |
| idempotency | `MCOrderIdempotency.cfg`: 3 orders, 2 contents, 2 handlers, window 2, time to 4, 1 restart | passes, about 1.6 million states |
| idempotency_race | `MCOrderIdempotency_race.cfg` | `NoDuplicates` is violated |
| deployment | `MCDeployment.cfg`: 4 databases, 4 releases, 24 migrations; then 2 articles, 2 periods, 2 handlers, 12 workloads | passes, about 3.1 million states |
| community | `MCCommunity.cfg`: 3 users, 2 groups, 2 invitations, 2 handlers, 3 seconds, 23 scenes | passes, about 1.6 million states |
| community_defaults | `MCCommunity_defaults.cfg` | `OneDefaultGroup` is violated |

`TypeOK` of order_edits holds more than types: no item is without its order, in the committed
rows and in what each transaction sees; a request that has ended holds no lock. Deadlock is
checked there, as somebody can always go on, fail, or start.

Bounds. Two items let an order have two lines of different prices or periods, and two
orders share a period and its transport; two articles let an order have a line of an article that
is gone beside one that is there. Prices 0 and 3 make free lines and totals that do not divide
evenly; a transport of 3 between two users leaves a remainder, and its cost can go up or down
after it was paid. `MCBound` keeps to states with at most one article or period that is hidden, over or
gone, one period with a transport to pay and two payments: what an order sees of each of its lines is there,
without all their combinations. Ids of `Orders` can be used again after a deletion, so
histories are unbounded in length. In the edits, two handlers of any kind meet
between any two statements, two items allow both the last deletion and one before it,
and prices 0 and 1 make free lines, orders of no worth and edits that change nothing. In
the preparation, two handlers make every race of
two requests, and two orders with three items let a sweep meet an order whose other items
are being ticked. `MCBound` has new rows take the first ids that are left, and the first item be of the
first period (a choice of representatives, so that nothing is lost). With requests of every kind
it keeps to one order and two items, `Few`, as what a stale save undoes is within one order, and does not let two
saves both be between their two statements; other requests may be. `PreparedIsDelivered` is about the workload
that only the choice of representatives bounds. In the idempotency run, time goes on for twice the window, and an entry
can be written, expire, be cleaned and be written again. The proofs remove these bounds.
The clock of OrderIdempotency stops at `MaxTime` and the ids of deleted rows are used up in
OrderPreparation, so those runs may stop and do not check deadlock.

In deployment, releases stop before, at and after the migration that renames a column and the one
that adds hashes, and any number of reverts and runs follow, until a migration that cannot be reverted.
Two articles make a duplicate, two periods make two current ones, and the batches have two lines
with one hash, and one whose spaces give it another; products and varieties are renamed
apart from each other. Two copies of a period's offer of an article are
more than two requests can add. In community each scene has the kinds of requests that write the same rows,
with two at once; three users make a manager, a preparer or client, and a stranger who
is the administrator, two groups make two defaults. Three seconds with tokens that last two let a
token be signed twice in a second, be renewed and expire. `Copies` bounds the ids that the
rows with one key may have had while requests remember them; two handlers remember at most
one each. One restart per scene suffices, as it only drops requests. Both runs stop where ids
are used up or nobody may do anything, and do not check deadlock.

Symmetry is used over ids in runs of safety properties only.

### What the passing runs of the last two components check

The migrations: `SchemaMatchesEntities` (columns, unique indexes and labels are those of the
entities), `DeletionRulesMatch` (so are the rules ON DELETE, up to the two in `Divergent`),
`UpgradesSucceed` (nothing but a sale of an unknown user stops an upgrade) and `RunKeepsRows`. The
catalogue: `ImportsFindArticles`, `UpdatesReachPeriod`, `NormalizeMerges` and `PeriodListsReplaced`
say what a request has done when it ends and nobody disturbed it, in all its statements together;
`PricesAreRecorded`, `HashOfSomeSpelling` and `CatalogueTypeOK` (which has the foreign keys) hold of requests that
do disturb each other. `HashOfSomeSpelling` has renames in workloads where one request follows the other only: as
each save writes the columns it has changed, two renames at once leave the product of one, the variety of the
other and the hash of either, and a rename between the two statements of a normalisation
leaves its hash with the old name, spelt in the normal way. TLC finds both when the exclusion is dropped; no
comment says which name should win. In the community, `RequestsAreAtomic` compares the tables at the end of every
request that nobody disturbed with `Promised`, the same request as one step; `ReferencesHold`,
`EndedTokensRefused`, `UsedUpInvitations` and `CommunityTypeOK` (which has the uniqueness of group e-mails)
hold whoever disturbs whom.

`Promised` says of the creation of a group what the comment at consumer-groups.service.ts:52 expects, and only for a
user who has no default group yet; what a second one leaves is the run community_defaults.

These modules can also do the following, which no property forbids. The comments and tests of the repository
that we know of do not speak of these cases:

- A user that is loaded with its password and saved (`update`, `updateProfileImage`, `updateRoles`,
  `updateStatus`) has the hash hashed again (user.entity.ts:51-57): no password matches it any more.
- Two logins of a user in one second make the same refresh token, and the second fails on the
  unique column; a renewal in the second of the login revokes the only token and then fails.
- A login that has compared the old password while `resetPassword` runs leaves a session; a refresh does not
  look at `login_enabled`.
- `setDefaultGroup`, `updateMemberRole` and `updateStatus` save the row as they read it: they undo what
  was written since, and insert a member again who has left.
- Two uses of an invitation for one person that are in flight together both join; a restart before the
  mark leaves it usable. A group that an administrator creates for a manager who does not
  exist is there without one, and the request fails.
- The dates of a period that are sent without the others are compared with strings of the row,
  and never refused.
- `priceChanged` is always true, as the column comes back as a string. An empty variety stays
  in the row and leaves the hash. A renamed supplier leaves the hashes of its articles as they were.
  Normalisation removes duplicates with the offers that periods made of them, and what it keeps
  has its old hash.
- `RemovePartialPaymentStatus` cannot be reverted (the default of the column does not fit the type it
  goes back to), so that no database goes back below it. The foreign key of sales is lost where
  `user_email` was converted; the one of notices cascades although the entity says nothing;
  on databases that `synchronize` made, the old RESTRICT key of `order_items.article_id`
  stays beside the new one and still refuses deletions.

### What the expected violations show

- `PeriodPaymentIncludesTransport` states the comment at orders.service.ts:1022. The order
  is loaded without the periods of its items (line 991), so its transport is always 0.
- `EditKeepsFullPayment` states the comment at line 596. 0.1 + 0.2 is more than 0.3: an
  edit turns a fully paid order of these two lines into an unpaid one.
- `DeliveredIffPrepared` under ticks of items states the comment at line 1143. Two
  requests for the last two items both compare what they read before.
- `NoEmptyOrder` under concurrent edits states the comment at line 686. Two deletions of the
  last two lines each find another line in the object they read; after both commits the order
  is there with an amount and without a line.
- `NoDuplicates` states the comment at line 282. Two requests in flight both miss the cache.
- `OneDefaultGroup` states `.cursor/database-schema.md:88-91` and `:250`, one default group per user. `create` of a
  group makes it the default of its creator without a look at the others
  (consumer-groups.service.ts:52), and the unique index that the document lists is in no migration.

## Fairness

Only `PreparedIsDelivered` needs it. `Fairness` is weak fairness of the continuation of each
request that has started: the database answers each statement, and the event loop resumes
a handler whose promise is settled. No request ever has to arrive, and nothing is assumed
about the order in which requests continue.

## Proofs

All theorems are about the specification of their module with any values of the constants that
satisfy the named ASSUME of the module.

- `OrdersProofs`. `TypeCorrect`, `ReferencesKept`, `OrdersNeverEmpty` and `TotalsAreSums` are
  proved action by action; references and types make items a finite set of rows, which
  `Sum`, a cardinality, needs. `PaidOrdersAreCovered`, `OrdersNotOverpaid` and `EditsCapPayments` rest on
  one lemma, `MoneyStep`: every step leaves each order untouched, new, edited (`EditedRow`
  says what an edit may do to a row), paid or unpaid. `SumMonotone` compares sums over
  subsets, and `TransportBound` bounds an order's transport by what its periods cost at that time;
  `OrdersNotOverpaid` is about each step, as the cost may be lowered after it was paid.
  Coverage is inductive because totals are sums of all lines and a line of a deleted
  article only makes the live price smaller (`LiveAtMostTotal`).
- `OrderEditsProofs`. The inductive invariant `Inv` has five parts. `Types`; `Phases` (what a transaction
  can have written when it is at each statement); `DeletesAlone` (a transaction that deletes
  the order has locked every row and nobody else has written); `HaveOrder` (no item without an order,
  in what is committed and in what anybody sees), which needs the two before, as a commit of one
  transaction changes what the others see; and `Fresh` (a request whose order did not change wants
  the recalculation of the rows there are, and sees those rows with its finished statements
  done). `EditsKeepTypes` and `FreshSavesAccepted` follow from it, and `EditsAreAtomic` shows for each kind
  of request that its commit takes the step of Orders that has its name (`UpdateAtOnce`,
  `DeleteAtOnce`, `PayAtOnce`). Numbers of requests and of items are arbitrary.
- `OrderPreparationProofs`. `TicksNeverDeliverEarly`: while only ticks arrive, prepared items
  stay prepared, so whatever a request has read as prepared still is when it writes
  (`TickInv`). `RereadingAgrees`: some running request will still look at an order that is
  prepared but not delivered, or is about to write it (`SeenInv`); when no request
  runs, nobody is left to disagree. `PreparationTypes` adds that an order is only saved with
  items that were its own when they were read (`OwnItems`). `UndisturbedRequestsRepair` is about
  requests of every kind, at once, with restarts between any two statements: what a request has
  read of an order that is not stale is what the rows say, and what it has left to
  write is what the items say (`FreshInv`, `UpToDate`; steps of the others keep it, `OthersStayUpToDate`), so
  that its last statement leaves them agreed.
- `OrderIdempotencyProofs`. `NoRepeatedOrders` needs `IdemInv`: an answered order's content
  stays in the cache until the window is over (whatever overwrites it is younger), and a
  request that missed the cache did so when no order with its content was answered within
  the window.

- `CommunityProofs`. `SessionsEndForGood`: no step makes a revoked token valid, since the only INSERT is refused
  for a token that is there, and tokens leave only with their user, with their history.
  `ReferencesAlwaysHold`: inserts and saves look at the rows that they refer to in their own step, and deletions cascade
  in theirs; a token that is about to be stored is of the user whom the request is about (`RequestsOK`).
  `UsedUpForGood`: an invitation that is about to be marked is one that expires (`RequestsOK`), and no
  step changes whether it does (`InvitationsOK`). They assume of the scenes that their tables
  are tables whose rows have the types of their columns and refer to each other (`CommunityAssumption`).
  `CommunityTypesHold` adds to that what requests have in memory: rows that they may still save have the
  types of the table (`RequestsTyped`), and a second group with an e-mail is refused by the statement
  that inserts it. `RequestsActAtomically`: as long as nobody else writes, the tables are those
  at the start with the finished statements of the request done, place by place (`Halfway`,
  `Undisturbed`), and the last statement makes them what `Promised` says. A request that remembers no row must
  find an id that no other remembers (`FreshIds`, the pigeonhole principle): `RequestsAssumption` has at least
  as many ids per key as requests, since UUIDs never run out.

- `DeploymentProofs` has the theorems about the migrations and the catalogue, all of the `Spec` of Deployment,
  which starts the server on what the migrations left. `Run` and `Forward` are recursive functions;
  `RunStates` and `RunJoined` say what they compute, by induction over the statements (`UpTo`, the
  well-foundedness of the numbers). `RunsLoseNoRows`: of the kinds of statements, `Harmless` ones keep rows and what they mean
  (`DoKeeps`), and each of the 24 migrations is made of harmless ones except `AddHashToArticles`, whose added
  column would have no value without the statement after it (`HashesMade`). `RowsInv` carries
  the types of the rows, and that articles have their hash from the 16th migration on, through runs, reverts
  and the writes of older releases; it is what makes the tables of `StartServer` tables of the form
  `CatalogueStart`. The assumptions are that releases know some of the 24 migrations, that the old
  articles, prices and periods are values of their types, and that a database made by `synchronize`
  lacks no other columns than those that a later migration adds where they are missing, and has the
  identification number of suppliers under one of its two names: that is what the code of the
  migrations provides for.
  `SchemaMatchesEntities` and the other three properties of the schema are not inductive, as
  they say nothing before the last migration. `SchemaAt(d, k)` does: between `ColumnsAt`, `UniqueAt`,
  `LabelsAt` and `KeysAt` it bounds the schema after k migrations from above by what any migration makes, and
  from below by what the first k have made and nothing has dropped. A revert may leave more than it
  found, a label or the column that an old database had already, so the bounds are apart until the last
  migration. `MigrationRaises` takes `SchemaAt(d, i - 1)` to `SchemaAt(r, i)`, and says that only the conversion
  of sales can fail, on a sale of an unknown user; `MigrationLowers` takes it back. Most migrations
  only add (`Grows`, `Raised`) or drop (`Drops`, `DropsTables`, `Lowered`) their own columns, tables, keys and
  labels; five have a lemma each (`SalesRaised`, `DeletionRaised`, `CifRaised`, `PartialRaised`, `PaidRaised`, and
  the same `Lowered`); for the first, whose 46 statements skip what is there, `Stands` says what each of them
  keeps and `Done` what it leaves (`FirstRaised`). `OldReady` brings the databases of
  `synchronize` in. At k = 24 nothing is left open: `LastColumns`, `LastUnique`, `LastLabels` and `LastRules` compare
  what is there with the 22 entities. The theorems are `MigrationsKeepTypes`, `UpgradesAlwaysSucceed`,
  `SchemaAlwaysMatches` and `DeletionRulesAlwaysMatch`.
- `CatalogueProofs` has the lemmas about the steps of Catalogue, first those of any requests at once.
  `CatalogueReferencesHold` and `ArticlesCanBeFound` rest on
  `Inv`, for the types of the rows in the tables, in memory and selected, and on `Agreement`, for what a save makes
  of them. Where nobody renames, an article has one name up to spelling in the table and in the memory of every
  request (`SameNames`), so that whichever columns are written, the hash stays that of a
  spelling of the name; where requests follow one another, what a request has selected is what the table
  has (`Fresh`, `Alone`), and the columns are written as they belong together. An
  update has the row it is about (`UpdateOK`). `PricesAlwaysRecorded` needs `PricesNoted`: while nobody
  removes articles and the server is not restarted, the price of every row, in the table
  or in memory, is in the history or in the hands of a request that is about to record it,
  except where its own request still has to save it. `PricesStep` says once what a step must
  keep; one lemma for each action uses it. Then what one request does in all its statements
  together, while others run too:
  `Halfway` says for every place of a request what the tables are compared with those at its start:
  `Replacing` (the offers withdrawn and inserted so far), `Merging` (which duplicates of which names
  are gone), `Pricing` (what of a new price is written) and `Importing` (every line so far is `Stored` under its
  hash and `Recorded` in the history). `Undisturbed` is `Halfway` of each request that nobody disturbed: a step
  of another request makes its `was` empty unless it writes nothing. The last statement of
  the request turns `Halfway` into the property: `NormalizationMergesNames`, `ImportsFindTheirArticles`,
  `PricesReachPeriod`, `PeriodsOfferWhatWasSent`. That the oldest article of a name exists is the
  well-foundedness of the numbers (`LeastOf`); that offers are counted right needs them to be
  finitely many, which `CatalogueAssumption` says.

Only checked by TLC: `PreparedIsDelivered`, which is liveness, and the violations. Every
invariant and every action property of a passing run is a theorem.

## Not modelled

Sales: the DTOs of `POST /sales` and of its payments have fields without any validation
decorator (register-payment.dto.ts:32), and the global pipe refuses fields it does not know
(main.ts:57-63), so that no sale can be made or paid through the application.

Suppliers, producers, categories and notices are rows of which a request reads and saves one; mail,
storage, scripts and seeds have no state of their own; the guards that look for the
group of an article or an order add nothing in modules with one group. See the notes in
PROJECT.json. Response objects, logging and what only reads (lists, statistics, summaries, the
calendar of a schedule) are left out everywhere. Deleting a user takes orders, payments and sales with
it; Community has only what concerns sessions and memberships.

## Plan

Done: the money of orders, their preparation, the idempotency of create, the edits of one order at
once, the migrations, the catalogue and the community, with the proofs above. What could still
be added: the memberships of Community as the guards of Orders
and Catalogue, with several groups.
