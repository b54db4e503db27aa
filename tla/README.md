# Commerce core API: a TLA+ model

The repository is the back end of a web shop: an Express application in
TypeScript over PostgreSQL (knex), Redis for caches, Midtrans for payments,
RajaOngkir for courier prices, S3 for images, and jobs that a scheduler runs
inside the server or over HTTP. This directory models the parts of it that
decide what a customer pays, receives and is shown: the life of orders, their
payment notifications and jobs, the cart and the checkout session, a user's
account (sessions, the browser's cookies, addresses, mailed links), the
catalogue (the tree of categories, the product's form and editor, images, lists,
filters, pages and caches), and the back office (banners, collections, presets,
the warehouse, the dashboard and the lists). TLC checks the modules on small
instances; TLAPS proves the main safety properties for every value of the
constants. The definitions stand for about 30 % of the lines of the
implementation; section 1 says what the rest is.

Paths below are relative to `src/src/` unless they start with `src/`.

## 1. Inventory

Each part keeps its state in PostgreSQL; handlers keep nothing between
requests. A *command* is one HTTP request, usually one knex transaction.

### Modelled

| part | state | operations | what is hard | what makes it correct |
|---|---|---|---|---|
| orders (`modules/user/order`, `modules/order`) | `orders.status`, `payment_status`, `expires_at`, `snap_token`, `order_shipments.status` | `cancelOrder`, `createSnapToken`, `confirmDelivered`, list, tabs, detail | a customer, an administrator, Midtrans and two workers write the same row | goods leave only for money, pages and commands agree, status never regresses |
| admin orders (`modules/admin/order`) | the same rows | `markAsShipped`, `markAsDelivered`, `canShip`, `mapAdminOrderStatus` | decides on rows others write | the same |
| payment (`modules/payment`) | `order_payments.transaction_status` | `handleMidtransWebhook` | notifications repeated, reordered, or lost (the controller answers 200 on failure) | paid iff collected, paid stays paid, `sold` counted once |
| stock (`modules/product/product-stock.repo.ts`, `product-metrics.repo.ts`) | `product_variants.stock`, `sold` | `reduceStock`, `incrementVariantSold`, release by workers | last units, INTEGER range | units are neither invented nor lost |
| expiry and completion (`modules/internal/workers`, `workers/jobs`, `workers/cron.ts`) | none of their own | HTTP `expireOrders`; cron `expire-orders`, `auto-complete-delivered-orders` | the cron jobs select without a lock and update later | stock back once per job that held the order, an order that is not expired stays in step |
| cart (`modules/cart`) | `cart_items` | `addItem`, `updateItem`, `deleteItem`, clearing at confirm | edited while a checkout is open | quantities within bounds |
| checkout (`modules/user/checkout`) | `checkout_sessions`, `checkout_session_items` | `createCheckoutSession`, `setCheckoutAddress`, `setShippingMethod`, `confirmCheckout`, status page | reads without locks around a slow courier call; a unique index over open sessions; expiry | one open session, one order per session, charged for what is listed |
| session cleanup (`workers/jobs/cleanup-checkout-sessions.job.ts`) | the same | delete abandoned and old converted sessions | deletes under requests in flight | expired sessions end |
| user sessions (`modules/auth`, `modules/super/user`, `workers/jobs/cleanup-expired-user-sessions.job.ts`) | `user_sessions`, `refresh_tokens`, `users.password_hash` | `login`, `googleLogin`, `refresh`, `logout`, `changePassword`, `setPassword`, `resetPassword`, `confirmEmailChange`, `revokeUserSessions`, cleanup | rotation and reuse of tokens, a login that compares an old password, an UPDATE that misses rows newer than its snapshot, two clocks (7 and 90 days) | one holder per session, reuse ends it, ended stays ended |
| the browser's side (`modules/auth/auth.controller.ts`, `utils/auth-helpers.ts`, `utils/set-auth-cookie.ts`, `middlewares/auth.middleware.ts`) | two pairs of cookies, shared by all tabs | the same commands, as a browser sends and hears of them | requests that cross, answers that are lost, a cookie that is a token already exchanged | a cookie is good, who logged out is out, shop and administration are apart |
| links by mail (`modules/auth`, `workers/jobs/cleanup-pending-verifications.job.ts`) | `pending_verifications`, `users`, `user_providers` | `register`, `inviteAdmin`, `requestPasswordReset`, `changeEmail`, `verifyEmail`, `acceptAdminInvite`, `resetPassword`, `confirmEmailChange`, `googleLogin`, cleanup | two requests with one link; a new link inserted while another is redeemed; no lock on the account | a link acts once, the newest alone, an account's address was shown to be somebody's |
| addresses (`modules/user`) | `user_addresses` with a unique index on the default | `createAddress`, `setDefaultAddress`, `deleteAddress` | each reads before its transaction | one default as long as there is an address; a limit |
| images (`modules/admin/product`, `modules/product`, `shared/variant-image`, two cleanup jobs) | `product_images`, `product_variant_images`, signatures, files in S3, a Redis copy, `order_items.image_id` | upload and save, cache, checkout, cleanup of rows and then of files | two stores without a common transaction, old forms, a cache filled late | files match rows, one image per place, an ordered image stays |
| admin categories (`modules/admin/category`) | a tree: `parent_id`, `id_path`, `slug_path` | `create`, `update`, `remove` | a rename rewrites the paths below it by the path it read | paths agree with parents, depth at most three |
| admin products (`modules/admin/product`) | `products`, `product_variants`, options, snapshots | `create`, `update`, `updateStatus` | an editor that writes back what an old form showed, stock included | the shop can show and sell what is there; stock is what is on the shelf |
| product form (`modules/admin/product/product-variant.repo.ts`, `product.schema.ts`, `product.mapper.ts`) | dimensions, values, option rows, snapshots | `rebuildDimensionsAndPivot`, snapshots, the form shown again | a form names rows by ids of its own; the same options are kept as rows and as words | both tell the same, an untouched form can be saved |
| variant presets (`modules/admin/variant-preset`) | presets and their values | `create`, `update`, `remove`, `reorderDimensionValues` | values are deleted and inserted anew; a page orders ids that are gone | the values are those of the last form |
| collections (`modules/admin/collection`, `modules/store/collection`) | `collections`, `product_collections` | `create`, `update`, `reorder`, `remove`, the products in them, the shop's first page | two administrators choose one slug; a tag made of products only | refused only when beaten twice; what a kept page tells |
| banners (`modules/admin/marketing`, `modules/store/marketing`) | `marketing_banners`, `images_metadata`, files in S3 | `create`, `update`, `reorder`, `remove`, `removeBannerImage`, the home page | an upload inside the transaction, a target that is asked for and not locked | a banner shows an image and leads somewhere |
| store front (`modules/store`) | none (clients keep cursors, pages and tags) | product lists page by page, filters offered beside them, a product's page, a variant's detail, the mega menu, the tag of each | lists change between two pages; a page is read in four queries and its tag in two; tags are made of a newest time | nothing lost or repeated; a filter leads to what it promises; a tag that fits tells the page |
| warehouse and shipping origin (`modules/warehouse`, `modules/shipping`) | `warehouses`, Redis: the origin | `upsertWarehouse`, `getWarehouseOriginDistrictId`, pricing, the order's copy | a single row that no index keeps single; a cached origin beside a row read again | one warehouse, and an order leaves from where it was priced |
| dashboard (`modules/admin/dashboard`) | none | `getSummary`, `getOrdersChart`, `getRevenueChart`, side by side | days of Jakarta counted, days of the server listed | number and charts tell of the same orders |
| numbered lists (`modules/admin`, `modules/super`, `modules/user/order`) | none | six lists asked for by the number of a page, rows and number in two queries | rows come and go while pages are turned; two queries written apart | shown once, missed only if passed, number and rows agree |
| shared caches (`shared/cache`, `libs/cache.ts`) | Redis: the list of filters, images, the origin | fill, delete after a save, expire | a request that read before a save fills after its deletion | stale only for a reason, and not for ever |

Midtrans and the courier are external: Midtrans is an environment that moves
each transaction along a graph of states and emits notifications; the courier
is a fixed tariff that may also fail.

### Not modelled

| part | state | why |
|---|---|---|
| category order (`reorderCategory`), text of addresses and profiles | a column of one row | replaced in one statement |
| suggestions, popular categories, a collection's own page, best sellers, recent orders, detail pages | none (read-only SQL) | one query each, no step in between that a state machine would show |
| courier prices and regions in Redis | Redis | filled and expired; nothing invalidates them, so there is nothing to race |
| swagger, schemas of requests, mappers of wording, mail templates, S3 and sharp | none | text and layout, or a library |
| legacy guest cart | cart | no route mounts it |
| HTTP server, middlewares, schema, seeds | none | routing and validation; the constraints that matter are inside the models |

### How the parts interact

    cart --(rows locked FOR UPDATE, copied)--> checkout session
    checkout session --(confirmCheckout: order, items, shipment, stock)--> order
    order --(createSnapToken)--> Midtrans --(HTTP notification)--> webhook --> order, order_payments, sold
    expiry workers --> orders, stock        administrator --> shipment, order
    auto-complete job --> shipment, order   cleanup job --> checkout sessions
    login, new password, super user, cleanup --> user_sessions, refresh_tokens <-- refresh, logout
    register, invite, reset, new e-mail --> pending_verifications --(redeemed)--> users, user_sessions
    product editor --> products, variants, images (rows, S3) --(after the commit)--> Redis
    shop, checkout --> Redis or rows --> order_items.image_id <-- image cleanup
    category editor --> paths of a subtree --> menu, pages, lists (kept by clients under a tag)
    browser's cookies --(request, answer)--> login, refresh, logout, new password
    presets --(offered)--> product form --> dimensions, option rows, snapshots --> filters, order items
    banners --(lead to)--> collections, categories        products --(are in)--> collections --> first page
    warehouse --(Redis)--> price of a delivery --> order <--(read again)-- warehouse
    orders, products, users --> dashboard and lists of the back office

There are no in-process messages: parts interact through rows, so what matters
is which rows a command locks before it reads them, and which it does not.

## 2. Modules

| module | what it is |
|---|---|
| `OrderRules` | the decisions on one order as operators: guards of every command, rows the jobs select, ranks of notifications, page statuses, tabs and buttons. No state |
| `OrderLifecycle` | the order tables, stock and Midtrans; one action per command, webhook or worker run |
| `OrderPromise` | abstract specification: an order in the words of its customer's page |
| `OrderRefinement` | `OrderLifecycle` implements `OrderPromise` through `mapOrderStatus` |
| `CronJobs` | the lockless cron jobs beside `OrderLifecycle`'s commands, SELECT and commit apart |
| `Cart` | cart rows and what is on sale |
| `CheckoutSession` | extends `Cart`: sessions, requests in flight, confirm, stock, cleanup |
| `CheckoutHistory` | `CheckoutSession` with a history of which requests were overtaken |
| `UserSessions` | the sessions and refresh tokens of one user |
| `BrowserLogin` | extends `UserSessions`: cookies, requests in flight and their answers |
| `UserAddresses` | the addresses of one user, under overlapping requests |
| `PendingVerification` | links by mail, and the accounts they create and change |
| `ProductImages` | the images of one product: files, rows, cache, orders, cleanup |
| `CategoryTree` | categories under overlapping creations and renames, and the shop's menu |
| `ProductEditor` | one product and its variants under old forms, a bulk change of status, and orders |
| `FilterCache` | the list of filters in Redis |
| `StoreListing` | extends `FilterCache`: lists page by page, and their tags |
| `ShopFilters` | the filters offered beside a list, their tag, and the list each leads to |
| `ProductPage` | a product's page and a variant's detail, read in parts and kept under tags |
| `ProductForm` | what a product's form says of dimensions and options, and the rows made of it |
| `VariantPresets` | presets under overlapping saves and orders of an old page |
| `Collections` | slugs, order, the products in them, and the shop's first page |
| `Marketing` | banners, their images in S3, and what they lead to |
| `ShippingOrigin` | the warehouse, its district in Redis, and the orders that leave from it |
| `Dashboard` | the summary and the two charts |
| `NumberedLists` | lists asked for by the number of a page; uses `OrderRules` for the tabs of orders |
| `Ordering` | ORDER BY: the rows of a set in the order of a relation (`SortedBy`) |
| `DataTheorems` | sums over finite sets (the library's folds), least and greatest elements, sequences, and what `SortedBy` returns: for the proofs |
| `MC*` | instances for TLC. `MCAccounts`, `MCCatalogue` and `MCBackOffice` put modules that share no row side by side; `focus` says which of them moves |
| `*_proofs` | theorems: `OrderLifecycle_proofs` (with the refinement and `CronJobs`), `CheckoutSession_proofs` (with `CheckoutHistory`), `UserSessions_proofs` (with `BrowserLogin`), `AccountRows_proofs` (`UserAddresses` and `PendingVerification`), `ProductImages_proofs`, `Catalogue_proofs` (`ProductEditor`, `CategoryTree`, `FilterCache`, `StoreListing`, `ProductPage`, `ShopFilters`, and `MCCatalogue` that puts them side by side), `BackOffice_proofs` (`ShippingOrigin`, `Marketing`, `Collections`, `VariantPresets`, `ProductForm`, `Dashboard`, `NumberedLists`, and `MCBackOffice` that puts them side by side) |

`OrderRules` is extended by `OrderLifecycle`, which is extended by `CronJobs`,
`OrderRefinement` and their MC modules; `Cart` by `CheckoutSession`, by
`CheckoutHistory`. Operators whose comment begins with *Slip* are mistakes
someone could make in the definition that follows them; they are not part of
any specification, and each shows that some property would notice it.

### OrderLifecycle and the code

Every command of `OrderLifecycle` begins with `SELECT ... FOR UPDATE` on the
order's row (`getOrderForUpdate`, or the shipment's and then the order's) and
keeps it to the commit, so it is one action. A refused command rolls back: a
stutter.

| action | code |
|---|---|
| `PlaceOrder` | the end of `confirmCheckout` (`checkout.user.service.ts:243`): order, items, shipment, `reduceStock` |
| `CancelOrder`, `CreateSnapToken`, `ConfirmDelivered` | `order.user.service.ts:52`, `:119`, `:78` |
| `MarkAsShipped`, `MarkAsDelivered` | `admin/order/order.service.ts:44`, `:85` |
| `PassDeadline` | `orders.expires_at`, half an hour after the order was placed, passes: what the workers' `expires_at < NOW()` asks |
| `ExpireOrders(S)` | `worker.repo.ts:5`; any subset, because rows locked by others are skipped (`SKIP LOCKED`) and the query has a LIMIT |
| `Notify` | Midtrans moves a transaction and emits a notification |
| `HandleMidtransWebhook` | `payment.service.ts:18`, with the rank rule, the paid branch, the failed branch and the ignored rest |
| `LoseWebhook` | `payment.controller.ts:44`: the handler threw and the answer was 200 |

A notification stays in `webhooks` after it is handled: it may be delivered
again, at any time, in any order. `released` is a history variable: how often
an order's stock was given back.

What the model says of the code that a reader may not expect: `cancelOrder`
and the webhook's failed branches end an order **without** giving its stock
back, and the expiry workers skip such an order (it is not UNPAID and PENDING
any more). `StockConserved` (in `UnitsAccounted`) states what the code does: only released
orders return their units. And a payment that arrives for a cancelled order marks it
PAID while it stays CANCELLED; `ShippedOnlyIfPaid` and `ViewsAgree` show that
it then neither ships nor looks ready to ship.

### CronJobs and the code

`workers/jobs/expire-orders.job.ts` and `auto-complete-delivered-orders.job.ts`
select their rows without `FOR UPDATE`, although a comment on both says "with
row-level lock", and update later in the same transaction. Each is a SELECT
action and a commit action. The expiry job's UPDATEs go by id alone; the
auto-complete job's repeat the condition on the old status, which is why it is
harmless. `runSafeJob` keeps one process from running a job twice at once:
each worker of the model is a process, and nothing keeps two processes, or a
process and the HTTP worker (`ExpireBesideJobs`), from expiring one order:
each that has selected it gives its stock back. `rivals` is history: the jobs
that still held an order when its stock was first given back.
A job that throws (`AbortJobs`) rolls back.

### CheckoutSession and the code

`createCheckoutSession` locks the cart's rows and `confirmCheckout` the
session's row for their whole transactions, so each is one action. Where the
two overlap (one customer, two tabs) they lock in opposite orders; the result
is an abort by the database or a create that finds an empty cart, both
stutters. `setCheckoutAddress` and `setShippingMethod` take no lock:
they are split into their statements, with anything in between, and what a
request has read is kept in `calls[w]`.

| action | code |
|---|---|
| `EditCart` | `cart.service.ts:66` to `:124` |
| `CreateCheckoutSession` = `OpenSession` or `RefreshSession` | `checkout.user.service.ts:32`, `checkout.user.repo.ts:388` |
| `StartAddress`, `SaveAddress` | `checkout.user.service.ts:100`, `checkout.user.repo.ts:295` |
| `StartShipping`, `Quote`, `PriceItems`, `SaveShipping` | `checkout.user.service.ts:150` to `:199`: session and address, weights and the courier, prices, the UPDATE |
| `FailCall` | the courier fails, or the process stops |
| `ConfirmCheckout` | `checkout.user.service.ts:201`: every assertion, order, stock, conversion, and the whole cart cleared |
| `PassSessionDeadline`, `Cleanup` | `expires_at`, and `cleanup-checkout-sessions.job.ts` with its LIMIT (`CleanupLimit`) |
| `SetVariantStatus` | an administrator activates or deactivates a variant or its product |

Abstractions: a variant's price and weight do not change during a checkout;
`onSale` stands for the two ACTIVE columns; units of weight and money are
small numbers; the stock the administrator overwrites is not in this model.
There is a warehouse with a district (`confirmCheckout` refuses without one);
`ShippingOrigin` is about where it is.

### UserSessions and the code

A session is a row that lives as long as somebody holds a refresh token that
can be exchanged for the next. `refresh` and `logout` read the token joined to
its session `FOR UPDATE`, which locks both rows: one action each. The commands
that set a password first UPDATE the user's row and hold it; `login` reads that
row unlocked, compares, and only then UPDATEs it, so it is two actions
(`StartLogin`, `FinishLogin`) and everything else may come between.

| action | code |
|---|---|
| `StartLogin`, `FinishLogin` | `auth.service.ts:268` to `:280`, and from `:286` |
| `GoogleLogin` | `auth.service.ts:292` |
| `Refresh`, `DetectReuse` | `auth.service.ts:343`: the branch that rotates, and the branch of a revoked token, which commits and only then fails |
| `Logout` | `auth.service.ts:415`: the token is revoked, its session is not |
| `ChangePassword`, `ResetPassword`, `ConfirmEmailChange` | `auth.service.ts:544` (and `setPassword`, `:605`), `:488`, `:702` |
| `StartRevoke`, `FinishRevoke` | `user.super.repo.ts:122`: the snapshot of the UPDATE, and its effect |
| `FailRequest` | a wrong password, an error, a stopped process |
| `NextDay`, `CleanupExpiredUserSessions(S)` | `NOW()`; `cleanup-expired-user-sessions.job.ts` and `worker.repo.ts:64`, any subset because of the LIMIT |

`knownBy` and `late` are history: the password a session's user proved to
know, and the sessions of logins that were overtaken. `changePassword`
compares a password it read unlocked as well, so it may be reached by whoever
knew the password at some time: the action asks for none, and opens a session
under the new one. `replayed` is the history of tokens presented again.

Left out: the access tokens, which no row records; who the user is (a role, an
e-mail address); the links by which a password is reset, which are
`PendingVerification`'s; the case of a deleted user in `refresh`, since nothing deletes users. The seven
days a revoked session is kept are left to chance (`Removable`). The UPDATEs
that revoke all sessions and then all tokens are one step, because a refresh in
between needs a session's row, which is locked by then.

### BrowserLogin and the code

A browser sends what its jar holds *then* and stores what the answer says
*when it arrives*: `SendRequest`, `Serve...` and `TakeAnswer` are apart, and
`LoseRequest` drops either half. The server's half is a step of
`UserSessions`, so the composition is that module's `Refresh`, `DetectReuse`,
`Logout`, `ChangePassword` with cookies around them. `sendAuth` sets the
cookies of the client named in a header (`attach-client.middleware.ts`),
`acceptAdminInvite` those of the administration, `clearAuth` deletes, and an
error answer touches none. `disturbed`, `endedFor` and `left` are history.
The access token is only there or not: no row is asked for it.

### UserAddresses and the code

| action | code |
|---|---|
| `Count`, `LookForFirst` | `user.service.ts:44`; the regions are asked for over the network; `:71` |
| `ReadAddress` | `getAddressById` of `setDefaultAddress` and `deleteAddress`, `:214`, `:228` |
| `Begin` | the first statement of each transaction: it locks the rows it writes |
| `Insert`, `SetDefault`, `DeleteAddress` | the rest of it, and the commit |
| `GiveUp` | the unique index refuses, a deadlock is ended, a connection breaks |

`overlapped` is history: a request committed between another's read and its
end. Without it there is a default as long as there is an address; with it
there may be none (a `setDefaultAddress` of an address that is being deleted
clears the old default and sets none). `DeleteAddress` is the deletion and the
choice of a new default in one step: the two statements of one transaction
that has locked its rows.

### PendingVerification and the code

A command that makes a link is three steps: `LookAtAccount`, `AimAtOld` (the
DELETE takes its snapshot) and `IssueLink` (it waits for rows that are being
redeemed, deletes, inserts, commits). One that redeems a link is two:
`OpenLink` (`FOR UPDATE`, validation, the account) and `Redeem...` after the
password was hashed. `acted` counts what a link changed, `after` is what its
DELETE had seen; both are history. Demo accounts and accounts that are not
ACTIVE are refused by every command and left out; `changeEmail` sends nothing
yet (its mail is a *todo* and the link is logged).

### ProductImages and the code

| action | code |
|---|---|
| `Upload`, `Save`, `SaveFails` | `product.service.ts:129` to `:258` before the transaction, and the image part of `create` and `update` in it |
| `Invalidate` | `invalidateVariantImageCache`, after the commit, or lost |
| `ReadCache`, `ReadPictures`, `ReadFallback`, `FillCache` | `product-image.service.ts:25`: the cache, then two queries, then the SET |
| `PlaceItem` | `enrichItemsWithImages` and the order item |
| `DeleteGalleryRows`, `DeleteOptionRows` | the two cleanup jobs' DELETE |
| `DeleteFile`, `DeleteFileFails` | the files afterwards, one by one |

`BestImages` is `findBestImage`: of the pictures whose signature the variant's
snapshot contains, the most specific, by upload. A form is any list of images
that was ever shown, in any order, with new ones in between: that is what a
page kept open for a day can send. That the pictures of two options are two
pictures (`WellFormed`) is the editor's doing, not the schema's: a form of
another client may name one picture twice. `leaked` and `late` are history.

### CategoryTree and the code

`update` reads the category, picks a free slug, UPDATEs the row, reads the
parent's path again, and rewrites the paths below by a pattern of the path it
read at first; `create` inserts a row with empty paths and completes it. The
steps are `Ask`, `Read`, `WriteSlug`, `Match`, `CommitRename`, and `Insert`,
`CommitCreate`. The guards `Written`, `HeldAsParent`, `SlugPending` and
`PathPending` are what PostgreSQL makes a transaction wait for; `Conflict` and
`RollBack` are the unique indexes and the one retry of `withSlugRetry`.
A rename that waited for another rename of the same category still rewrites
the rows below the path it read at first, which somebody else may have taken
meanwhile: such rows are the rename's `Strangers`. `torn` is history (what a
path may be wrong for): at and below two edits that overlapped, one of them at
or above the other, or a stranger. `given` are the ids that the sequence has
given, which a deletion does not give back. The seconds of `clock` stand for
what is left of a timestamp in the menu's tag. `FetchMenu` reads rows and tag in
one step, where the code has two queries one after the other.

### ProductEditor and the code

A save begins with the product's row and keeps it, so saves exclude each other
and each is one action; what it writes is a form shown before. `shelf`,
`taken` and `guessed` are history: the units that are really there, those in
orders, and the variants whose stock moved between the showing and the saving.
A save moves `shelf` by what the administrator added to the number he was
shown; the row is set to the number itself, so the two part where orders came
in between, and stay apart.

### FilterCache, StoreListing and the code

`getVariantValues` is `ReadFilters` and `FillFilters`; a save is
`SaveOptions`, then `InvalidateVariantCache` or `LoseInvalidation`. A walk
through a list is `StartWalk` and `NextPage`, one query each, with the cursor
as it leaves the server: a price as it is, a time cut to the millisecond, a
search rank that a second page cannot use. `FetchPage` is a client that keeps
its page while `sendStoreResponse` answers 304.

### ShopFilters and the code

| definition | code |
|---|---|
| `Counted`, `FilterRows`, `FiltersTag` | `store/product/product.repo.ts:280` and `:335` (search), `store/category/category.repo.ts:157` (category) |
| `extractDimensionFilters`, `buildDimensionConditions`, `ProductsShown` | `product.repo.ts:465`, `:426`, `:389`: from the query string to one EXISTS per dimension |
| `Card` | `product-card.sql.ts`: the variant whose price is judged |
| `ReadFilterRows`, `AnswerFilters` | the two queries, and 304 or the rows |
| `SaveShape`, `SwitchShape`, `SellVariant` | what moves the trigger's `updated_at` of a variant |

Values are sequences of words, because the comma that joins two values also
splits one that contains it. Id paths are sequences of characters, because
`LIKE '1%'` compares characters. `Printed` is how a time gets into a tag:
`getSearchFilters` writes its milliseconds (`toISOString`,
`product.repo.ts:357`), `getCategoryFilters` puts the Date itself into the text
(`category.repo.ts:224`), which prints it to the second. A change may bear any
time of `ShelfTimes`, older ones too, since `NOW()` is when its transaction
began. `late` is history: a change whose time the tag had printed already, or a
later one. `ProductsShown` leaves out the card's join on a picture
(`product-card.sql.ts:12`), which every product has.

### ProductPage and the code

`getProductDetailById` is four queries: `ReadProduct`, `ReadVariants`,
`ReadDimensions`, `ReadImages`; its tag is made of the first two.
`getVariantDetail` is one (`FetchVariant`). A write is `BeginWrite`, which
fixes what `NOW()` will say, and a commit in any order: an `updated_at` may be
older than one already read.

### ProductForm, VariantPresets and the code

`SubmitForm` is `productUpsertSchema` and `rebuildDimensionsAndPivot` with its
maps from the form's ids to rows, with an option known by its place in the
form (`OptionPlaces`); `VariantSnapshot` is
`buildVariantSnapshot`; `ShowForm` is `mapProductDetail`, with the rows of
dimensions, of their options and of a variant's options each in any order,
because no query orders them.

A variant comes with an `id`, a `clientId`, or both. Whether it is updated or
inserted is its `id`'s doing (`Existing`); `variantIdMap` has updated rows under
their ids and inserted ones, which win, under their clientIds (`KnownAs`,
`product.repo.ts:353`); its options are then given to the row under
`id ?? clientId` (`resolveVariantKey`, `Lands`), or dropped if there is none. An id that is not one of the product's is refused (`IdsKnown`);
nothing refuses two variants of one key. `KeysTold` says that each variant
finds the row it wrote; `muddled` is history: a form was written of which that
is not true. `stored` are the ids of the product's variants, none for a new one.

`VariantPresets` has a save in two steps
(`UpdatePresetRow`, whose lock is what makes it safe, `ClearValues`,
`InsertValues`), a removal, and `ReorderDimensionValues`. A request for an order
of values is any function from ids of rows, of any presets, to places, as
`presetDimensionValueReorderSchema` takes it; `PageOrders` are those that the
page sends: all the values it shows, numbered from one, though they may be gone.
`untidy` is history: presets whose values a request that is none of these has
named since their last save.

### Collections, Marketing and the code

`ChooseSlug` and `WriteCollection` are the read and the write of `create` and
`update`; between them the unique index may be lost to somebody else
(`SlugTaken`, then `ChooseSlugAgain` once, `withSlugRetry`). `ReadHome` and
`AnswerHome` are the page's query and the tag's; what the tag is good for is
judged by the collections and their products as they were when the *tag* was
read, since a collection may be hidden and shown again between the two queries.
`SortedBy` and `NewestFirst` are the queries' ORDER BY; the products within a
collection of the first page are those of its subquery, newest first, though
the outer query orders by collection alone. `ResolveImage`, `SaveBanner`
and `SaveBannerFails` are `resolveBannerImage` with its upload and the rest of
the transaction; `SnapShotBannerImage`, `RemoveMetadata`, `DeleteBannerFile`
are `removeBannerImage`; `LookForBanner` and `DeleteTarget` are the SELECT and
the DELETE of a collection's or a category's `remove`. `unseen`, `passed`,
`leaked`, `rivals` are history.

### ShippingOrigin, Dashboard, NumberedLists and the code

`GetWarehouse`, `SaveWarehouse`, `ForgetOrigin` are `upsertWarehouse`: an
unlocked read, an UPDATE or INSERT, and the deletion from Redis.
`ReadOrigin`, `FillOrigin`, `ChooseDelivery` are a price; `PlaceFrom` is the
second reading by `confirmCheckout`.

`Dashboard` counts paid orders by Jakarta's days (the SQL's
`AT TIME ZONE`) and lists days by the server's (`fillMissingDays` and
`fillMissingMonths`, `dashboard.uitl.ts`); `AskDashboard` and the three
answers are `Promise.all`. `SelectExpired` and `WriteExpired` are the cron job
that takes a payment back (finding `cron_paid_expired`). `steady` and `ever` are
history: the orders paid from the asking until now, and at any time since.

`NumberedLists` has one pair of queries per list: `GetAll` and `GetCount` for
products, `GetOrders` and `CountOrders` and so on, where the two are separate
code. `SortedRows` allows every order the ORDER BY does not exclude. Products
change by their form (`FormSaved`: one thing altered, and what the whole form
must fulfil), by the bulk change of status and by orders.

## 3. Runs

| run | module | instance | question |
|---|---|---|---|
| `orders` | `MCOrderRefinement` | two orders, two variants, scarce stock, both transactions pay `o1`, seven kinds of notice | do payment, shipment, stock and pages stay consistent, and do the tables keep `OrderPromise`? |
| `liveness` | `MCLiveness` | two orders, a transaction each, one notification may be lost; or one customer with two sessions and the cleanup | does money reach its order, does waiting end, do expired sessions end? |
| `cron_paid_expired` | `MCCronJobs` | one expiry process | *violation*: a paid order is expired |
| `checkout` | `MCCheckoutHistory` | one customer, stock for less than two orders; two sessions with one request in flight, one session with two and two destinations, or one session and three services; or two orders with two expire-orders and two auto-complete processes beside the HTTP worker | one open session, one order each, nothing oversold; what survives overlapping requests, and what do lockless jobs give back and leave? |
| `claim_ready` | `MCCheckoutSession` | one request in flight, one service without a delivery time | *violation*: a session that is ready to place an order is refused |
| `claim_validated` | `MCCheckoutSession` | one request in flight beside the commands | *violation*: an order with the subtotal of other items |
| `accounts` | `MCAccounts` | two sessions, three tokens, four days; a browser with two tabs and two pairs of cookies that sends four requests; five addresses of which two are allowed; two links and two mailboxes; two requests in flight in each | who holds a session, what ends it, does anything revive it; is a cookie good; one default address; what does a link prove? |
| `images` | `MCProductImages` | two places in the gallery and one picture of an option, or one and two; any old form | do files, rows, cache and orders stay in step? |
| `claim_image` | `MCProductImages` | the same | *violation*: an ordered image loses its file |
| `catalogue` | `MCCatalogue` | a chain or a fork of three categories and a new one, two editors, and two roots that are renamed three times; two forms of one product with two variants; three products on pages of one; two saves and two fills of the list of filters; two variants of a product whose page is read in parts; two products of five shapes and the filters offered for them | do paths, forms, lists, filters, pages and caches survive overlapping edits? |
| `claim_listing` | `MCCatalogue` | the same | *violation*: the tag of a list stays while the list changes |
| `backoffice` | `MCBackOffice` | two banners, images and targets under two administrators; two saves of up to three collections; two officers who move the warehouse beside two prices; two paid orders in days of three hours, and the job that expires them; two clerks with two presets, and requests with any ids and places; forms of up to two dimensions and two variants with any keys; six lists on pages of one row | do banners, collections, presets and forms survive overlapping edits, do orders leave from where they were priced, do reports tell what is there? |

### Properties

Some of a run's properties are conjunctions; their parts, in brackets, are
stated and commented one by one.

Orders: `TypeOK` (the INTEGER columns stay in range), `ShippedOnlyIfPaid`,
`ReleasedNeverShipped`, `UnitsAccounted` (`StockConserved`,
`SoldMatchesPaid`), `PaidOnlyIfCollected`, `PaymentRowsAgree`, `ViewsAgree`,
`ListsTellStatus` (`TabsPartition`, `AdminListTells`, `TimelineTells`),
`OffersAccepted`, `PaidStaysPaid`, `KeepsPromise`,
`CollectedLeadsToPaid`, `NoOrderWaitsForEver`.

Jobs: `ReleasedOncePerHolder`, `UnexpiredInStep`.

Checkout: `OneOpenSession`, `OneOrderPerSession`, `NothingOversold`,
`ShippingNeedsAddress`, `PageAndConfirmAgree`, `PricedAsListed`,
`ExpiredSessionsEnd`.

Users: `TokensHold` (`OneLiveToken`, `IdleAreUseless`), `ReplayEndsSession`,
`NewPasswordEndsOthers`, `EndedStaysEnded`, `BrowserHolds` (`CookieIsGood`,
`LoggedOutIsOut`, `ClientsApart`), `OneDefaultAddress`, `LinksHold`
(`ActsOnce`, `NewestLinkOnly`, `AddressesProved`).

Images: `ImagesHold` (`FilesMatchRows`, `OneImagePerPlace`),
`OrdersProtectImages`, `UntouchedFormChangesNothing`, `RemovedImagesEnd`
(`RemovedLeavesCache`, `OrphansEnd`).

Catalogue: `TreeInOrder`, `EditorHolds` (`ShopCanShow`, `StockIsOnTheShelf`),
`ShopHolds` (`ListingHolds` with `WalkShowsEachOnce` and `FiltersLagBehind`;
`TagTellsMenu`; `PagesHold` with `TagTellsProduct` and `TagTellsVariant`;
`FiltersTell` with `OfferedIsShown`, `ClickedIsFound`, `BranchIsShown` and
`KeptFiltersTell`).

Back office: `WindowHolds` (`MarketingHolds` with `BannersShowImages`,
`BannersLeadSomewhere` and `TagTellsBanners`; `CollectionsHold` with
`RefusedIfBeatenTwice` and `KeptHomeTells`), `OriginHolds` (`OneWarehouse`,
`CacheTellsOrigin`, `PricedFromOrigin`), `ReportsTell` (`ChartsTell`;
`ListsTell` with `TwiceOnlyIfOvertaken`, `MissedOnlyIfPassed`,
`EmptyOnlyIfLeft`, `CountTells`, `FilterTells`), `ProductFormsHold`
(`PresetsHold`; `FormsHold` with `OneValuePerDimension`, `SnapshotTellsPivot`,
`UntouchedFormSaves`).

Where one of these excepts a case, the case is what the code does and a reader
should know of; section 5 lists them.

Each is stated in words above its definition.

### Bounds, and why they are enough

* *Two orders, two variants.* Orders interact only through stock and through
  one run of a worker over several of them; two that compete show both. The
  quantities differ per order and variant, so a unit credited to the wrong
  line shows.
* *Two transactions.* One order with two attempts is the case the rank rule
  and the PAID test exist for (a late expire of the first after the settlement
  of the second); a transaction each is enough for everything else.
* *Notices.* Seven of eleven in `orders`: one per branch of the handler and
  per rank that differs. `cancel` and `failure` take the same branches as
  `deny`, `authorize` and `partial_refund` the ignored one.
* `MaxLost` bounds the notifications that are lost; one is enough to separate
  "its only report was lost" from "a later report arrived".
* `MaxInt4` is the real bound of the column; the range matters to the proofs
  (`TypeOK`), small instances do not reach it.
* *Checkout.* A customer's commands touch only that customer's sessions; what
  crosses customers is stock, which the second session of one customer
  competes for just as well. Two sessions are enough for "an old and a new
  one", two workers for every pair of overlapping requests; not both at once,
  and with two sessions everything stays on sale (`InFocus`). Price 2, weight 3
  and least weight 4 make one unit cheaper by weight than two, and the second
  destination dearer, so that a stale price is a wrong price. Of three services,
  one is quoted without a delivery time and one is at no charge
  (`focus = "services"`); `CleanupLimit` = 1 has the cleanup take one session at a
  time.
* *Jobs.* Two processes of either cron job are two that hold one order; the
  HTTP worker is a third that gives stock back. Two orders take all of three
  units, with a transaction each and the notices that pay, wait and fail. They
  share the run `checkout` (`focus = "jobs"`), whose sessions stand still then.
* *User sessions.* Users share no row, so one is enough. Two sessions separate
  "this one" from "the others"; three tokens are a session's first, its
  successor and one of the other. `TokenDays` = 1 and `IdleDays` = 2 stand for
  7 and 90; by `MaxDay` = 3 a token expires and a session becomes idle, also
  after it was refreshed. `MaxPasswords` = 2 is one password replaced by
  another. No definition tells sessions or tokens apart, so it is enough to
  follow the behaviours that take them in order (`TakenInOrder`). Requests
  overlap in the first two days, and until a link has expired; after that they
  come one at a time, for which days still pass (`OverlapEarly`).
* *Browser.* Four requests are a login, two that cross, and one that shows what
  the crossing left (`MaxSent`); two tabs are a pair that crosses, both pairs
  of cookies are there.
* *Addresses.* One more than the limit for each request, and one that stays:
  five rows, each used once, let two creators pass the limit and a third
  address become the default after a deletion.
* *Links.* Two, so that one replaces the other; two mailboxes, so that an
  account can move; one with a Google account.
* *Images.* A gallery of two can be reordered; one picture of an option can be
  replaced by another. Names are used once, which bounds the saves.
* *Categories.* A chain of three has a rename above a rename above a leaf; a
  fork has two siblings that want one slug. Two editors are a pair of
  overlapping edits, two edits are enough for each pair. Two roots are renamed
  three times, so that a rename can wait for another while a stranger takes the
  old path. Seconds 0 and 1 separate a stamp before a fetch from one in the same second.
* *Product editor.* Two forms, one older than the other; two variants, because
  one and several are different to the code. One unit is sold and comes back.
* *Lists.* Three products on pages of one make two boundaries; created at 3, 7
  and 12 with ten microseconds to a millisecond, two fall into the same one.
  A client that walks and one that keeps a page share nothing, so one of them
  at a time (`OneClient`). A list is sorted by one column, so the products to
  begin with differ in price or in when they were made, not in both
  (`OneColumn`).
* *A product's page.* Two variants have one newer than the other; three forms
  and three transactions by two writers put a save, and one that began before
  it and ends after it, between two queries of a page. A client keeps the page
  or a variant's detail, as they share nothing (`OneClient`). One edit at a time
  meets a kept menu, and a kept page meets changes of the product, not of the
  status of a variant (`OneConcern`).
* *Filters of the shop.* Five shapes: two dimensions, a variant that is not for
  sale, a value written in two ways, a value with a comma and a dimension named
  like a key of the query string, a product that is not for sale, one without
  options. Two of them show a number greater than one; categories 1, 1/2 and 10
  a branch and a neighbour with the same digit. One change after a fetch
  (`MaxShelfChanges`) is enough to separate a tag from what it stands for; times
  0, 1 and 2, two of them to a second (`PerSecond`), put it before, within and
  after the second, and the millisecond, of a tag.
* *Banners.* Two banners, images and targets, three forms: one to make each and
  one to edit; seconds 0 and 1 as for the menu. What a client keeps and what is
  removed share nothing (`KeepOrRemove`).
* *Collections.* "a" and "b", and a name that is called "a-2": two rivals and a
  third that is beaten by the second. A first page of one product each has more
  to show with two. Saves and reading are apart, one change in between
  (`SaveOrRead`).
* *Warehouse.* Two rows are one too many; three saves are a first one, its
  rival and a move.
* *Dashboard.* Days of three units, months of two days, Jakarta one unit ahead,
  seven units: every position of both ends of a window relative to a day's and
  a month's begin, on either clock. What comes after a report's first answer,
  whichever it is, is not followed (`WhileReporting`): an answer is bounded by
  what was paid when it was made, and the bounds only widen.
* *Presets.* Two, so that one takes the other's name; three forms of up to two
  values; two `Places` to repeat and to swap.
* *Forms.* Up to two dimensions with up to two options each, with ids that
  repeat within and across dimensions, and up to two variants whose choices are
  any: some thirty thousand forms, each sent, shown in every order and sent back.
  Beside these, forms of one dimension whose one or two variants have any of
  three ids (or none) and two clientIds, of a new product and of one that has
  two variants.
* *Numbered lists.* Three rows on pages of one are two boundaries; one change,
  between the first query and the last (`WhileTurning`).
* `MaxCartQty` = 2 stands for `MAX_CART_ITEM_QTY`: clamping happens at once.

`CHECK_DEADLOCK FALSE` everywhere: every order ends, sessions are finite in
number, and nothing more happens then.

## 4. Fairness

* `LiveSpec` (`liveness`) is one of two systems, as `MCLiveness` has no row in
  common between them. For orders (`Fairness`): weak fairness of handling each
  notification that was not lost, because Midtrans repeats a notification until
  it is answered and the server answers every one; of the expiry worker, which
  a scheduler calls every few minutes; and of time. `LoseWebhook`, the customer
  and the administrator are not fair. For checkouts (`CleanupFairness`): weak
  fairness of `Cleanup`, which the scheduler runs every hour. Customers are not
  fair: nobody has to check out, and a request in flight may stay so.
* `FairImages` (`images`): a request of the shop that has read goes on to its
  end (there is nothing it waits for), the copy in Redis expires, and the two
  cleanup jobs run again and again and try to delete each file. Administrators
  and shoppers are not fair, and saves are bounded: both liveness properties
  say what is true after the last of them.

## 5. Findings

* `cron_paid_expired`: a payment that commits between the SELECT of the
  expire-orders job and its UPDATEs is overwritten; the order is CANCELLED and
  EXPIRED, its stock on sale again, its money collected. The HTTP worker's
  query (`worker.repo.ts:10`) locks, and `PaidStaysPaid` holds with it.
* `claim_validated`: `setShippingMethod` overlapping `createCheckoutSession`
  leaves the subtotal of the old items beside the new ones, the "integrity
  check" compares three stored numbers that agree with each other, and the
  order is placed and paid at the wrong amount. `PricedAsListed` shows that
  this overtaking is the only way.
* `claim_ready`: `checkout.user.swagger.ts:253` says that a session without a
  `reason` is ready to place an order. `assertCheckoutReady` also asks for
  `shipping_etd` (`checkout.user.utils.ts:15`), so a service the courier quotes
  without a delivery time is offered and then refused. The other way round, a
  service at no charge is told to be without a price (`!shipping_cost`) and would
  be accepted. `PageAndConfirmAgree` states both and that there is no third.
* `claim_image`: `confirmCheckout` takes an item's image from a copy that may
  be old; the cleanup asked before the order item was there whether an order
  names the image. The order then shows an image whose file is deleted.
  `OrdersProtectImages` shows that this is the only way.
* `claim_listing`: the tag of a list is its newest `updated_at`, so a product
  that leaves the list without being the newest leaves the tag as it was, and
  the client is told that its page is up to date.

Observations without a run, all read off the code while modelling it:

* `order.user.swagger.ts:430` and `:477` call cancelling and confirming
  idempotent; `assertOrderNotFinal` (`order.user.service.ts:64`, `:90`) refuses
  a repetition before the idempotent return is reached.
* By the same missing lock that `cron_paid_expired` shows, two processes that
  run the expire-orders job, or one and the HTTP worker, give the stock of one
  order back twice: each adds it for the ids it has selected.
  `ReleasedOncePerHolder` counts them; the runs have two processes and the HTTP
  worker at once.
* `auth.swagger.ts:123` says a reused refresh token ends all sessions of the
  user; `refresh` (`auth.service.ts:354`) ends the session of that token.
  `ReplayEndsSession` is what holds.
* `user.super.swagger.ts:142` says that revoking "forces the user to be logged
  out from all devices"; the UPDATE does not see a token that a refresh issues
  while it waits, so that session goes on.
* `order.user.swagger.ts:522` says only unpaid orders get a payment token;
  `createSnapToken` refuses PAID only, so an order whose payment FAILED or
  EXPIRED by a notification (its status stays PENDING) still gets one.
  `OrderPromise` allows it: such an order may still be paid.
* A cancelled order that is paid late stands under the administrator's filter
  READY_TO_SHIP and on top of the list, though its row says CANCELLED
  (`order.admin.repo.ts:29`, `:235` do not look at the order's status).
  `AdminListTells` states it and that nothing else is misplaced.
* `auth.swagger.ts:353` says resetting a password sets new cookies;
  `resetPassword` (`auth.controller.ts:140`) clears them.
* Two tabs that refresh with one cookie, or an answer that is lost, look like
  the reuse of a token: the next refresh ends the session. A logout that
  crosses a refresh leaves the session usable by the new token. An error on
  refresh leaves the dead cookie in the browser. `BrowserHolds` states these
  three, and that there are no others.
* Two first saves of the warehouse that overlap make two rows; which one is
  read is then the database's choice. An order leaves from the warehouse as it
  is at confirmation, while the delivery was priced from where it was: moving
  it does not reprice open sessions (`PricedFromOrigin`).
* The days of the orders' chart are listed a day at a time from the moment the
  window begins, and by the server's clock (`dashboard.uitl.ts:8`). The default
  window begins thirty days ago to the millisecond and ends now, so that today
  is never listed, although the summary counts today's orders; `ChartsTell`
  excepts the day, and the month, in which the window ends.
* `collections.updated_at` has no trigger and no default and no statement sets
  it. The tag of a collection's page (`store/collection/collection.repo.ts:116`)
  is therefore constant, although `collection.swagger.ts:158` there says that it
  supports caching by tag; and renaming, reordering, switching or removing a
  collection does not move the tag of the first page (`KeptHomeTells`). Nor
  does a product that leaves a collection, as that tag counts nothing. Page and
  tag are two queries: what changes between them may be missing under a tag that
  says it is there, and stay so until the next product is saved (`overtaken`).
* A banner's tag covers the banner and not what it leads to, whose path may
  change. The administrator's list of banners builds `/categories/...` and
  `/collections/...` where the shop's builds `/category/...` and
  `/collection/...`.
* The filters' tag is made by a second query after the rows, and a product that
  leaves without being the newest does not move it. That of a category prints
  its time to the second (`store/category/category.repo.ts:224`), that of a
  search to the millisecond: of two saves within one of these, the second is
  "not modified" if it leaves as many rows (`KeptFiltersTell`, `late`).
* The list of products under a category takes `id_path LIKE '1%'`
  (`store/product/product.repo.ts:179`): category 1 shows the products of 10,
  where the administrator's query (`admin/category/category.repo.ts:69`) does
  not, and `store/product/product.swagger.ts:676` speaks of "products belonging to
  a specific category". `BranchIsShown` states what the code does. A value with a comma, or a dimension named like a key of the query
  string (`limit`, `q`), is offered and cannot be asked for. Two filters may be
  met by two different variants. The price filter judges the variant on the
  card alone. `FiltersTell` states all of these.
* The number of products that an administrator's list reports joins archived
  variants, the list does not (`CountTells`). Asking for products without
  variants (`isVariant=false`) is coerced to asking for those with. A search
  by SKU tells stock and prices of the variant that matches. No list has a
  second column to sort by, so rows that tie may stand on either side of a
  boundary between two pages.
* "Each variant must select only one option per dimension", says
  `product.schema.ts:154`. But variants are known by `id ?? clientId`
  (`product-variant.repo.ts:559`), and nothing makes these distinct: not the schema,
  and no unique index on `product_variant_option_values`. Two new variants of one
  `clientId`, one whose `clientId` is another's id, or an id that comes twice, leave
  one variant without options and one with two of a dimension; a new product's
  variant that comes with an id gets none, or another's. Then neither its filters nor the form
  that is shown again tell what was sent (`muddled` in `OneValuePerDimension`,
  `SnapshotTellsPivot`, `UntouchedFormSaves`).
* An order of a preset's values takes any ids and any places
  (`variant-preset.schema.ts:40`), so two values may share a place, in a preset
  that the page did not show (`untidy` in `PresetsHold`).
* A payment that the expire-orders job overwrites while a dashboard is made is
  counted in one of its parts and not in another (`ChartsTell`).
* A form may give a variant an option of another dimension; its row and its
  snapshot then disagree (`SnapshotTellsPivot`). An ACTIVE variant that was
  sold out meanwhile makes an untouched form unsavable (`UntouchedFormSaves`).
* Two edits of one branch of categories that overlap can leave the path of a
  category behind its parent's; `TreeInOrder` says where (`torn`), and that
  links still lead to their pages. A rename that waited for another one of the
  same category rewrites the rows below the path that it read before it waited
  (`category.repo.ts:192`, used in `:283`): if a third rename has given that
  path to another category, the paths of *its* children are lost.

## 6. Proofs

All theorems hold for every value of the constants; the assumptions are those
that the modules name (`ASSUME`), and TLC evaluates them in the runs.

`OrderLifecycle_proofs` proves `Spec => []TypeOK` and then
`Spec => []LifeInv`. `LifeInv` is the conjunction of six invariants that
need each other. Shipping requires payment PAID, and what is PAID is never
cancelled or expired, since every such command refuses it: that gives
`ShippedOnlyIfPaid`. But a *late* payment can mark a CANCELLED order PAID, so
shipping must also be kept from it, which is `assertOrderNotFinal` in
`markAsShipped`; hence `ReleasedNeverShipped` and `RowShapes` (a PROCESSING or
COMPLETED order has a shipment under way, a PENDING one does not) are carried
along. `PaidOnlyIfCollected` and `PaymentRowsAgree` tie PAID to the
notifications and to the rank of the recorded row, which only grows.
`PagesAgree`, `ButtonsWork` and `ListsTell` follow from `LifeInv` state by
state, `NoPaymentTakenBack` is proved action by action. `UnitsAreAccounted` is
about sums over all orders and needs that there are finitely many
(`OrdersAssumption`): each command changes one summand, a worker those of a set.

`DataTheorems` holds what such sums need: the library defines a sum by a fold,
that is by a recursive function over the subsets of a set, and the usual
induction over finite sets cannot be instantiated here. Instead the facts (a
fold exists, it is unique, it does not depend on the element it takes first)
are proved by looking at a *minimal* subset for which they fail, which a
well-founded order has. In the same way it is shown that a finite set of
numbers has a least and a greatest element, and that the rows of a finite set
can be listed by a linear order, in one way (`SortedBy`).

The same module proves `Spec => Promise!Spec` (`PromiseKept`): each action,
under `LifeInv`, is a step of `OrderPromise` or leaves `ViewBar` and
`CollectedBar` alone. The invariant is needed where a page status depends on
rows that could disagree: a payment of a shipped order, an expiry of one
already paid.

The third part of the module proves `UnexpiredInStep` for any number of
processes, and `ReleasedOncePerHolder` for any finite number that expire orders,
beside the HTTP worker (`JobsReleaseOncePerHolder`). `JobInv` says that what was
released is CANCELLED for good and what a job is about to complete has left the
warehouse. That a released order is selected by nobody makes the jobs that hold
it fewer and fewer: what an order was given back, and the jobs that still hold
it, are together at most one and its `rivals`.

`CheckoutSession_proofs` proves `CheckoutTypeOK` and `CheckoutInv`:
`OneOpenSession` (the index), `OneOrderPerSession` (an ordered session is
CONVERTED or DELETED, and no unlocked write changes `state`),
`ShippingNeedsAddress`, where the strengthening says what a request in flight
may assume: a session whose shipping is being computed has an address, because
an address, once set, is replaced but never removed while the session lives.
`OfferIsKept` (`PageAndConfirmAgree`) needs besides that a total is the sum of
its parts; it assumes nothing of the services.
`NothingIsOversold` adds the lines of one order at a time.
`SelectionsArePriced` is about `CheckoutHistory`: `HistInv` says that what a
request which was *not* overtaken has read of its session is still so, step
for step (address, cost, subtotal), which is what the last UPDATE then writes.

`UserSessions_proofs` proves the properties of sessions of the run `accounts`, from
`DaysAssumption` (`TokenDays <= IdleDays`) alone; `TokensAreHeld` is the
conjunction that the run checks. `UserInv` strengthens them:
the session of a replayed token is *revoked* (and not merely without a live
token), which no step undoes; an open session that is not `late` knows the
password in force, for which a login in flight must know the present or an
earlier one; and a live token was issued no later than its session was last
used, which is what makes the two clocks comparable: `CleanupIsHarmless`.
`TheEndedStayEnded` is proved action by action from `StaysEnded`: a token live
after a step was live before it, or begins a new session, or follows a token
that could still be refreshed.

The browser is in the same module. `BrowserKeepsRows` shows that `BrowserSpec`
implements `UserSpec`, so everything above holds of a server that browsers talk
to. `BrowserIsServed` is `BrowserHolds`; `BrowserInv` follows a token on its way
from the server to the jar. For a session that is not disturbed (`Quiet`), one
request at most carries its token, the token is the one in the jar, an answer
that is under way brings the live one, and a request whose token is spent has
been answered; that is why the cookie is good when the answer has arrived.

`AccountRows_proofs` proves `OneDefaultAddress` from `AddressAssumption`.
`AddressInv` adds what a step relies on: the rows a transaction has locked are
there and nobody else's; whoever passed the count holds a place under the
limit, one place per request at most; and what a request has read is still so
unless it was overtaken, which is the flag the property excepts. It also
proves `LinksHold` from `LinkAssumption`.
`LinkInv` adds that an opened link is live and one request's own (the row
lock), which gives `ActsOnce`; and that a request which has aimed its DELETE
knows every older link that it will not replace, which gives `NewestLinkOnly`.

`ProductImages_proofs` proves three invariants of `images` for any number of
images, options and requests. `RowsInv`: what a request has uploaded has no row
yet and is no other request's, an orphan keeps its file, and what the cleanup
has in its hands has no row. `PlacesInv`: the live images of the gallery are a
list within the limit and their sort orders are its places, 1 to n without a
gap. A save, whatever form it sends, must bring that back: the images it drops,
keeps and inserts are told apart, and each is shown to stand at its place in
the payload. From that list it follows that a page which nobody
touched sends back a well-formed payload which changes nothing
(`UntouchedFormIsHarmless`). `OrdersAreProtected` adds what the shop has seen:
an image that was read, cached or ordered once had a row, so that it can only
have lost its file by a cleanup.

`Catalogue_proofs` proves `EditorHolds` from `ProductsAssumption`. `EditorInv` adds to the two properties little more than what an old
form can say: it names rows that were there when it was shown, with a stock of
each, and before the first save there are none. The work is in the save: a form
names some of the rows, leaves others out and adds new ones, and what is
archived, kept and inserted must leave one primary variant and options exactly
where there are several.

Its second part is `TreeStaysInOrder`, from `CategoryAssumption` and
`TreesAssumption` (the trees to begin with have their rows below their parents
in both paths, on three levels). `TreeInv` has the shape of the tree (what is
above a category is a chain, and whatever is in it but the category itself has
a child: a deletion therefore takes nothing from above anybody), that a
request's parent is its category's, that a row which a transaction has written
is there when it goes on, and, for each rename under way, what it has read: the
old path is still the category's, its new path is that of its parent and its
slug, and every row below the old path is among those it found, *unless* an edit
at or above the row has committed meanwhile. `RenamedPaths` is the commit: below
the renamed row and away from `Crossing`, a row matches exactly if its parent
is the renamed row or matches too, so that row and parent are rewritten
together; elsewhere, a row that is rewritten is a stranger. The lemmas about
prefixes and replaced fronts of paths stand before it.

Its third part is `ShopCorrect`, the invariant `ShopHolds`, from one theorem for
each module. Common to what a client keeps under a tag is that the invariant
speaks of the rows as they were when they were read: none of them has been
written since without a newer stamp.

* `TagTellsTheMenu`, from the assumptions of the tree, which is finite and was
  written before the first second. `MenuInv`: there was a tree, whole, of which
  the client has the menu and the tag, and of which every row that bears a stamp
  of the second of the fetch or before is still there as it was, unless an edit
  committed late. If the newest stamp is no newer and the number of active rows
  is the same, then no active row came, and none went. It stands beside
  `TreeInv`, which says that what is above a row is there.
* `PagesTell`: a stamp is the start of a transaction, and no two transactions
  that write have the same. `PageInv`: what was read of a product that bears the
  stamp it bore is all of one form (`ReadTells`), and so is what is kept under
  that stamp; a variant's view is up to date while its row has the stamp of its
  tag, because a change of the product's status writes its variants too.
* `WalksShowAll`, from `ListingAssumption`, for any number of products and pages
  of any size. `ListInv`: as long as nothing changes, all that comes before the last
  product shown has been shown, or was made in the millisecond of one that was.
  `CursorTells` is the heart of it: what a cursor, cut to milliseconds, admits to
  the next page is all that comes after, newest first less what shares its
  millisecond, oldest first with it.
* `FiltersStay`: `FiltersLagBehind` needs only that a save is one thing.
* `FiltersTellAll`, from `ShopFilterAssumption` (products are rows, written
  before the first change), for any products, dimensions and values clicked. That a
  value shows what it counts compares two queries: the rows counted for an option
  stand one to one with the products that have it on sale (`RowsCount`), and what
  the query string keeps of clicked values of one word is those values
  (`FilterIs`). `BranchHolds` is about prefixes. For the filters a client keeps,
  `KeptGoes` says of *each* product: it is counted as it was, or it has a variant
  on sale whose printed time is newer than the tag, unless a change was late.
  While the tag is the same there is none of the latter. Of how a
  time is printed nothing is used but that it is a number.

In every focus of `MCCatalogue` a step is one of each of these specifications or
stutters (`PartsGoOn`).

`BackOffice_proofs` has a part for each of seven modules, and then joins them.

* `OriginHolds`, from `OriginAssumption`. `OriginInv`: as long as no two first
  saves overlapped, the one save that found no row is alone and before every
  row; and whatever was read, priced or chosen is where a warehouse is, unless
  it is marked as in doubt.
* `MarketingHolds`, from `MarketingAssumption`. `FilesAccounted`: an image that
  a request has uploaded is that request's alone until it has a row, a file that
  is about to be removed has no row any more, and every other file without a row
  is one that a failed save left behind. `TargetsAccounted`: whoever is about to
  remove a target knew all banners that lead there but those saved since
  (`unseen`). `KeptAccounted`: what a client keeps was made of banners each of
  which is still as it was or was stamped since. For the tag to be the same,
  nothing may have been stamped since and the number be the same: then nothing
  came and nothing went, and two sorted lists of the same rows are one.
* `CollectionsHold`, from `CollectionAssumption` (slugs are texts, and the rows
  to begin with are rows). `SaveAccounted`: if the slug that a save has chosen
  is taken when it writes, another one has saved meanwhile (`rivals`); the second
  look happens once, so a save that is refused has met two. That a
  slug which `ChooseSlug` returns was free is `ChosenSlugFree`. `HomeAccounted` is
  for the first page what `KeptAccounted` is for banners, except that a
  collection takes its products with it when it goes.
* `PresetsHold`, from `PresetAssumption`, for any number of clerks. A
  transaction holds the row of its preset, hence `ValuesWhole`: the values are
  those of the form saved last, and whoever has deleted them has deleted all.
  `OpenWhole` says that a page shows the values of *one* form: an order of an old
  page therefore finds all of its values or none (`OrderFindsAll`), and makes a
  preset tidy again. A request of any other kind changes places only, and marks
  the presets it names.
* `FormsHold`, from `FormsAssumption`, for forms of any size, with any ids. As
  long as no form was muddled, what is written
  is whole (`RowsWhole`): dimensions and options differ by their words, and a
  variant has one option of each dimension, since it has as many as there are
  dimensions and no two of one. A form that is shown again lists these rows in
  some order (`ShowsRows`), so that its dimensions have ids of their own, its
  words repeat nothing and it is refused only if an ACTIVE variant has sold out.
  What is written from it refers to the same words; the snapshot sorts them, and
  two sorted listings of one set of words are equal, whatever the order of the
  rows (`SecondRound`).

* `ChartsTell`, from `DashboardAssumption`, for any orders, hours, offset and
  lengths of days and months. `DashboardInv`: a placed order keeps its time, and
  each part of the report, once answered, counts at least the orders that have been
  paid ever since it was asked for and at most those that were paid at any time
  since. That takes two facts about
  a chart: its columns add up to the rows whose day it lists (`ChartAddsUp`), and
  every day, or month, that is over in Jakarta before the window ends is listed
  (`DaysListed`, `MonthsListed`), which is arithmetic of days that begin at
  different hours.
* `ListsTell`, from `ListAssumption`, for any number of rows and pages, pages of
  any size and any changes between them. `ListsInv`: a page is cut from *one* of
  the orders that its query allows, and only a page that was announced is asked
  for. If a row stands further back in one listing than in another, some other
  row has come, or could be sorted, before it (`FurtherBack`: what stands before
  it is counted in both). A row shown twice was further back on the later page;
  for a row that no page shows, `MissedPassed` takes the first page that is too
  late for it, and compares it with the page before. `FilterTells` is about the
  sum of the stocks and the least of the prices that HAVING compares: neither
  tells less than every variant that is not archived.

A step of `MCBackOffice` is a step of each of these modules or leaves its
variables alone (`OfficeIsMarketing` and its like), which carries the theorems
over: `WindowCorrect`, `ProductFormsCorrect` and `ReportsCorrect` are the
invariants that the run `backoffice` checks, with `ParcelsLeaveFromOrigin`.

The proofs corrected two definitions. `KeptHomeTells` compared the page with the
collections as they were when the *page* was read; the proof did not go
through, and TLC found the behaviour that section 5 tells. `ShowForm` listed a
variant's options in one order, where no query promises any.

Every invariant of a passing run is proved. Not proved, only checked by TLC:
the liveness properties, `RemovedImagesEnd`, and that the five claims fail.
Liveness, what a recursive or folded definition computes for every input, and
ENABLED are beyond the prover.

## 7. Running

    tlc -workers 2 -config orders.cfg MCOrderRefinement.tla
    tlapm OrderLifecycle_proofs.tla

`PROJECT.json` names module and configuration of every run, the source lines
each definition models, and for each property a slip that violates it.

## 8. Limits of the models

* Commands that lock are atomic. That is sound for their effects, as
  PostgreSQL serialises them on the row they lock, but it hides deadlocks:
  `confirmDelivered` locks order then shipment, `markAsShipped` shipment then
  order; `refresh` locks token then session, the revocations sessions then
  tokens; `createCheckoutSession` cart then session, `confirmCheckout` session
  then cart. PostgreSQL ends one of the two, which then did nothing.
* `createSnapToken` calls Midtrans inside its transaction; that Midtrans may
  know a transaction whose commit failed is left out.
* Amounts, addresses, wording, order numbers and timestamps are left out of
  the order model; the checkout model has amounts.
* Placing an order appears four times: `PlaceOrder`, `ConfirmCheckout`,
  `PlaceItem` (its image) and `TakeUnit` (the editor's view of it). Each model
  keeps what its properties tell apart; they are not composed.
* The modules side by side in `MCAccounts`, `MCCatalogue` and `MCBackOffice`
  are not composed either (but for `BrowserLogin` with `UserSessions`): a reset link ends sessions in the code, and does so in
  `UserSessions`, but not in `PendingVerification`.

What the models abstract from, and a reader of the code may want to know:

* The product editor: a sold-out ACTIVE variant makes the untouched form
  unsavable (`Accepted` asks for stock); nothing in the schema of the form
  keeps two variants from having one combination of options (`ProductEditor`'s forms
  do not have it, `ProductForm`'s do); `insertProductCollections` refuses a repeated id.
* Images: names of options are compared after `normalizeName` in one place and
  `normalizeSnapshot` in another, which treat blanks differently: a picture of
  an option whose dimension has a blank in its name is never found (`Spaced`).
  A product with several dimensions is not modelled.
* Lists: a search's second page fails, because the alias of its rank is not
  known to WHERE (`Answers`); with created_at ascending the last row of a page
  comes again (`WalkShowsEachOnce` excepts it).
* Tags: a category page's tag does not cover its children's names, a product
  page's not the name and path of its category.
* The mobile transport of tokens, which a client keeps where it likes, is left
  out; `BrowserLogin` is a browser.
* `Dashboard` gives every order the price of one unit, so that revenue is a
  count; best sellers and recent orders are single queries.
* `ShippingOrigin` has a price stand for the district it was made from.
* Accounts: reset and invitation links follow the user's id, so they still
  work after the account has moved to another address.

## 9. Plan

Done, in order of importance: `OrderRules`, `OrderLifecycle`, `CronJobs`,
`OrderPromise` with `OrderRefinement`, `Cart`, `CheckoutSession`,
`CheckoutHistory`, `UserSessions`, `BrowserLogin`, `ProductImages`,
`PendingVerification`, `UserAddresses`, `CategoryTree`, `ProductEditor`,
`ProductForm`, `FilterCache`, `StoreListing`, `ShopFilters`, `ProductPage`,
`Marketing`, `Collections`, `VariantPresets`, `ShippingOrigin`, `Dashboard`,
`NumberedLists`, and the proofs of section 6.

Next:

1. The order commands split into their row locks, to state which pairs can
   deadlock and that the victim leaves no trace.
2. A composition in which `ConfirmCheckout` is `PlaceOrder`, with
   `CheckoutSession` and `OrderLifecycle` sharing stock.
3. Theorems about the models of 1 and 2.
