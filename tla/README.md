# INV_Backend: TLA+ models, checks and proofs

INV_Backend is a NestJS backend (TypeScript, Prisma, PostgreSQL) for an
inventory: purchase orders bring goods in, inventory transactions move stock
between warehouses, sales orders send goods out. This directory holds TLA+
modules of the parts whose state matters, TLC runs that check them on small
instances, and TLAPS proofs.

Paths below are relative to the repository; its code is under `src/`, its
schema under `prisma/schema/`.

## 1. The system

### How it runs

One Node process serves HTTP requests. Code between two `await`s runs without
interruption; every awaited Prisma call is one database statement (or nested
write) that PostgreSQL executes atomically. A request therefore is a sequence
*read, compute, write, read, ...*, and two requests interleave at every await.
Three facts make this hard:

* hardly any handler opens a database transaction around its reads and writes,
  and where one does (`so.service.ts`) it runs at the default isolation level
  (read committed), which takes no lock at the read;
* writes are absolute: a quantity, or a whole row with its status, as computed
  from an earlier read;
* no row carries a version and no write checks what the read saw.

A request that fails, or a process that dies, leaves whatever it already wrote.

### Inventory of components

| component | state | operations | interacts with | what is hard | correct when |
|---|---|---|---|---|---|
| **Inventory transactions** (`inventory/application/inventory.service.ts`, `domain/inv-trans-*.entity.ts`, `infrastructure/inventory.repository.ts`) | `InvTransHeader` (type, status, warehouses, reference) with `InvTransLine`s | create (four types, from a PO, from an SO), update, add/remove line, complete, cancel, remove | StockService; PO and SO services, called during completion and creation | completion is a loop of reads and writes with the header written last; errors of the PO/SO part are swallowed | a draft is completed at most once, all lines or none; a closed transaction never changes |
| **Stock** (`domain/services/stock.service.ts`, `infrastructure/stock.repository.ts`) | `WarehouseItem.quantity` | findStock, removeStock, addStock | called by completion | lost updates, partial failure | quantity is never negative; it is the opening quantity plus the completed transactions |
| **Warehouse endpoints** (`warehouse/`) | `Warehouse`, `WarehouseItem` (quantity, reservedQty) | add, adjust, set, reserve, release, delete warehouse | share rows with Stock; the schema cascades a deletion | a second writer of the same rows with other rules | reserved quantity is in stock; transactions stay loadable |
| **Sales orders** (`so/application/so.service.ts`, `so/domain`, `so/infrastructure/so.repository.ts`) | `SOHeader` (status, totals), `SODetail` lines (orderQty, shippedQty, status) | create, update, update with lines, add/update/delete line, hold, release, cancel, complete, remove, addShippedQty | goods issues check and update them | stale whole-row writes, two ways to change the status, lines addressed by number | the order records what was shipped; statuses follow the transition table; a final order stays as it is |
| **Purchase orders** (`po/`) | `POHeader`, `PODetail` (orderQty, receivedQty, soLineId) | create, update, update with lines, approve, cancel, close, remove, updateLineReceivedQty | goods receipts update them; SO lines are mapped to PO lines | every save rewrites every line | received quantities are those of completed receipts; an SO line is mapped to one PO line |
| **Document numbers** (`*-number-generator.service.ts`) | the last number of a prefix in the table | generate | every create | last number plus one is read before the insert; fixed width, order of text | a number is refused only if another request took it in between |
| **Sales order pricing** (`so/domain/so-line.entity.ts`, `value-objects/so-pricing.vo.ts`) | amounts and percentages of header and lines | every request that changes a price, quantity, discount or tax | stored by the order's repository, checked again by every load | doubles in memory, cents in the table; discounts as percentage or amount | what is stored can be loaded; totals are those of the lines |
| **Units of measure** (`items/`, `uom/`) | units of an item and of a SKU with their factors; classes of units | add, change, remove, list, convert | creation of transactions | two sources of units, active or not, read by several statements | the conversion agrees with the list |
| **Items and SKUs** (`items/`) | items, models, SKUs, their units | create, change, (de)activate, delete of each | read by PO, SO, inventory | a change of one child writes the whole row of the item back; partial deletions | a SKU stays with the item of its model; statuses move as asked |
| **Partners** (`customers/`, `customer-addresses/`, `suppliers/`, `supplier-item-packagings/`) | rows with a status, default addresses, levels of packaging | create, change, (de)activate, blacklist, delete, recalculate | foreign keys of orders | checks and writes are separate statements, rows are written back whole | a blacklisting is final, one default per type, levels multiply up |
| **Master data** (`item-types/`, `item-categories/`, `materials/`, `genders/`, `sizes/`, `colors/`, adjustment reasons) | single rows | create, change, (de)activate, delete | items, SKUs and adjustments name them | what a deletion does to the rows that name it | nothing in use is lost |
| **Themes and files** (`themes/`, `common/files/`) | rows of `Theme` and `File`, files on the disk | save, change the image, delete | disk | two stores, no transaction | a deletion takes the files, then their rows, then the theme |
| **Lists** (`common/filtering/`, `*-query.service.ts`) | none | pages and cursors over a table | database | rows change between pages | a walk returns every row once |
| **Reports** (`so-analytics.service.ts`, `supplier-aggregation.service.ts`, `warehouse-query.service.ts`) | none | statistics of several statements | database | writes between the statements; ranges and groups | the parts add up |
| **Authentication** (`auth/`) | none per request | register, log in, token check | | none: one read, or one insert behind a unique index | |
| **Database** (`prisma/schema`) | all rows | | | constraints the code relies on | |

`PROJECT.json` has the same list with the status of each component, and the
hazards, each at its line of code.

## 2. Modules

| module | what it is |
|---|---|
| `StockTransactions` | the code: transactions, stock rows, warehouses, at the granularity of awaits |
| `AtomicStock` | the promise: a draft is completed all at once or not at all |
| `StockRefinement` | the refinement mapping from the first to the second |
| `MCStock` | instances of these for TLC |
| `StockProofs` | TLAPS proofs about `StockTransactions`, and that it implements `AtomicStock` |
| `SalesOrderShipping` | the code: one sales order and the goods issues that ship it |
| `MCShipping` | instances of it for TLC |
| `PurchaseReceiving` | the code: purchase orders, the goods receipts that bring them in, the sales order lines mapped to them |
| `MCPurchasing` | instances of it for TLC |
| `SalesOrderProofs`, `PurchaseProofs` | TLAPS proofs about the two |
| `AllocationProofs` | TLAPS proofs about what an order has shipped, what its drafts will ship, and what is left of its lines |
| `FiniteSums` | TLAPS lemmas about sums over finite sets, images, least and greatest elements, used by the proofs of all parts but the catalog |
| `CatalogProofs`, `RecordsProofs` | TLAPS proofs about `ItemCatalog` and about the four modules of `MCRecords` |
| `QueryProofs` | TLAPS proofs about the four modules of `MCQueries` |
| `ItemCatalog`, `MCCatalog` | the code of items, models, SKUs and their units; its instance |
| `Requests` | how the handlers of the four modules below run: read, write in steps, answer or be abandoned |
| `Partners` | the code of customers, addresses, suppliers, packagings |
| `MasterData` | the code of the seven tables that items, SKUs and adjustments choose from |
| `ThemeFiles` | the code of themes, their rows of `File` and the disk |
| `DocumentNumbers` | the code of the three number generators |
| `MCRecords` | an instance of these four side by side |
| `Listing` | the code of all lists, and a client that walks one |
| `Reports` | the code of the reports, statement by statement |
| `OrderPricing` | the code of the amounts of a sales order |
| `UnitConversion` | the code of the list of units of a SKU and of conversions |
| `MCQueries` | an instance of these four side by side |

Operators marked `A slip:` sit in front of a definition and break it the way a
plausible mistake in that code would; no specification uses them.
`PROJECT.json` pairs each with the property that notices it.

The modules compose by what they share. `StockRefinement` puts
`StockTransactions` below `AtomicStock`. The two modules of orders take over the
part of a completion that `StockTransactions` leaves out. `OrderPricing` has the
amounts of the orders that `SalesOrderShipping` interleaves, `UnitConversion` the
factors of the rows whose requests `ItemCatalog` interleaves, `DocumentNumbers`
the numbers all documents are created with. `Partners`, `MasterData`,
`ThemeFiles` and `DocumentNumbers` extend `Requests`; they share no table, so
`MCRecords` (and `MCQueries`, likewise) lets a behaviour be about one of them,
and the state spaces add up instead of multiplying.

### StockTransactions

| TLA+ | code |
|---|---|
| `header[t]` | a row of `InvTransHeader` with its lines; `NONE` before its creation, `DELETED` after its removal (an identity is used once, as a UUID is) |
| `stock[<<w, k>>]` | the row of `WarehouseItem` for a warehouse and a SKU; `exists` says whether there is one |
| `warehouses` | rows of `Warehouse` |
| `req[p]` | the local variables of one request being served: the await it is at (`pc`), the header object as changed in memory (`head`), the lines still to move (`todo`), the stock row it read (`row`) |
| `Create` | the four create endpoints; one step, since they read nothing that another request changes before they insert |
| `Begin...` | load, check the status, change the object in memory; the guard is the disjunction-free path that does not throw (a request that throws before its first write changes nothing) |
| `FindStock`, `FindDestination`, `RemoveStock`, `AddStock` | the awaits of `StockService.updateStock`; the new quantity is computed from `row`, not from the table |
| `...Fails` | the code throws, or the database refuses (row gone, foreign key, unique key); the request ends and what it wrote stays |
| `Save` | `InvTransHeaderRepository.update`: every column of the header from memory, only new and deleted lines |
| `AdjustInventory`, ..., `SaveRow`, `InsertRow` | the warehouse endpoints: load and change, then write both columns |
| `DeleteWarehouse` | the deletion with the cascades of the schema: stock rows go, references of headers become null |
| `Abort` | an awaited call is refused, or the process dies (only if `Faults`) |
| `Quiet` | nobody is calling: keeps an idle system from counting as a deadlock |

Abstracted: notes, dates, references, costs, units (a line has its base
quantity; a line added later has 0, because `addLine` passes conversion factor
0), public ids (= ids), the PO/SO part of a completion (other tables), the
reason that an adjustment must name (`inv-trans-header.entity.ts:163`).

`Disjoint` restricts the environment: clients never have two requests in flight
that share a transaction or a stock row. The code does not enforce it; it marks
the properties that hold only then.

### SalesOrderShipping

One order is enough: orders share no row, and a goods issue refers to one.

| TLA+ | code |
|---|---|
| `so` | the `SOHeader` row and its `SODetail` lines; `lastId` is the largest line id given so far |
| `moved` | no code: a history of what completions moved out of stock, per SKU; nothing reads it but a property |
| `issue[i]` | a goods issue (an `InvTransHeader`) whose reference is the order |
| `req[p]` | a request: `seen` the order as read at creation of an issue, `todo` the lines a completion still has to ship, `status`/`change`/`add`/`drop` what the next write of the order stores |
| `BeginIssue`, `ReadDrafts`, `InsertIssue` | `createGoodsIssueFromSo`: read the order, read the drafts, check, insert |
| `ReferIssue` | `POST /inventory` of a goods issue with `referenceType` 'SO': any draft, without a look at the order |
| `DivertIssue`, `RedirectIssue` | `PUT /inventory/:publicId` with another reference (`updateReference`): the draft leaves the order, or comes to it unchecked; an issue that refers elsewhere has status `ELSEWHERE` |
| `AddIssueLine`, `RemoveIssueLine`, `CancelIssue`, `RemoveIssue` | the other endpoints on a draft issue, one step each (their interleavings are in `StockTransactions`) |
| `BeginCompletion`, `ReadOrder`, `ReadForShipping`, `WriteShipping`, `SaveIssue` | `completeByPublicId` after its stock is moved: look at the order once to choose the lines, then for each line read, check, write; then the header of the issue |
| `GiveUp`, `ShippingFails` | an exception in that part is caught and logged, the rest is skipped, the issue is completed |
| `Hold` ... `UpdateWithLines`, `WriteOrder`, `DeleteOrder` | the endpoints of the order: load and change in memory, then one write of the header row and of the changed lines |
| `Written` | `SOHeaderRepository.update`: header as in memory; deleted, updated, new lines |

Abstracted: prices, customers, dates; the stock part of a completion (a
completion whose stock is refused is a request that never comes);
`updateWithLines` is modelled with one line in the body per request.
`OnePerIssue` restricts the environment as `Disjoint` does, per goods issue.

### PurchaseReceiving

Several orders, since a sales order line may be mapped to one line of any of
them.

| TLA+ | code |
|---|---|
| `po[o]` | a `POHeader` row and its `PODetail` lines; `DELETED` after its removal |
| `receipt[i]` | a goods receipt (an `InvTransHeader`) whose reference is an order |
| `soLine[s]` | a `SODetail` row: open, no longer open (partial, closed or cancelled: `resolveSoLineId` refuses all three), or deleted |
| `brought` | no code: a history of what completions moved into stock, per order |
| `BeginCreate`, `ResolveSoLine`, `AssertNotMapped`, `InsertOrder` | `PoService.create`: two reads per sales order line, the lines concurrently, then the insert |
| `Approve`, `Cancel`, `Close`, `Touch`, `AddLine`, `UpdateLine`, `DeleteLine`, then `WriteOrder` | the endpoints of an order; `AddLine`, `UpdateLine` and `DeleteLine` are `updateWithLines` with one line in the body, whose sales order line is resolved in between; an update may change the quantity, the SKU and the mapping of the line, which keeps its `receivedQty` |
| `LinesAfter`, `Writable`, `OneAfterTheOther` | `PORepository.updatePO`: status, then deleted, updated (all loaded lines, whole) and new lines; the unique keys and the foreign key that may refuse it |
| `Remove`, `DeleteOrder` | `PoService.remove` |
| `CreateReceipt`, `AddReceiptLine` | `createGoodsReceiptFromPo` and `addLine` |
| `ReferReceipt`, `RedirectReceipt`, `DivertReceipt` | `POST /inventory` of a goods receipt with a reference of the client's, and `PUT /inventory/:publicId` with another one: to an order (not looked for) or away from it |
| `BeginCompletion`, `ReadForReceipt`, `RecordReceipt`, `SaveReceipt`, `GiveUp` | `completeByPublicId` after its stock is moved: for each line read the order, add, write; an exception skips the rest; then the header of the receipt |
| `CloseSoLine`, `DeleteSoLine` | the sales side; deleting a line nulls the mapping (the default of an optional relation) |

Abstracted: numbers, supplier, dates, prices and amounts; the stock part of a
completion; closing a draft receipt without completing it. A PO header's `type`
is never written after its creation and decides nothing afterwards.

### ItemCatalog

| TLA+ | code |
|---|---|
| `item`, `model`, `sku`, `uom`, `skuUom` | the tables `Item`, `ItemModel`, `ItemSKU`, `ItemUOM`, `SKUUOM`; ids come in the order of their sequences |
| `referred` | SKUs that lines, stock or transactions name: a foreign key keeps them |
| `req[c]` | what a handler read, checked and changed in memory: the aggregate and the child to save |
| `overtaken` | no code: the open requests that read a catalog another request has changed since; properties except them where the code lets a stale save through |
| the requests, named as in `item-aggregate.service.ts` and `sku-uom.service.ts` | load and every check, up to the transaction |
| `SaveItem`, `SyncModels`, `SyncSkus`, `SyncUoms`, `UpdateSkuById`, `SaveSkuUom` | one transaction of `item.repository.ts`: the row of the item as read, and the child |
| `Fail` | the transaction is refused or never sent |

A SKU created with only a cost price is stored with selling price 0 and passes
no later load, nor does its item (`item-sku.entity.ts:163`): the constructor
compares the prices of a row that the first construction did not have to
compare. The model has this (`Loads`); no property says otherwise.

### Requests, Partners, MasterData, ThemeFiles, DocumentNumbers

| TLA+ | code |
|---|---|
| `req[c]` | the next statement of a handler (`op`), the id it is about, the row it holds |
| `Begin`, `Proceed`, `Answer` | the reads and checks of a handler, a statement that is not its last, its last |
| `Abandon` | a statement is refused, or the process dies: what was written stays |
| `customer`, `address`, `supplier`, `packaging` | the tables; of a row the code, the status and what the properties ask about |
| `UnsetDefaults` then `SaveAddress` | the two statements that make an address the default |
| `RecalculateLevel` | one turn of the loop of `recalculateQtyToBase`: read the level below, write this one |
| `table`, `ref`, `names` | one of the seven tables, and the rows of others that name its rows (`NameRef`: stored, changed or cleared by an update or by a stale save of the whole row); `CheckedCreate`/`UncheckedCreate`, `DetailsUpdate`/`ColumnsUpdate`, `SetActiveRow`/`SetActiveColumn`, `RemoveRef`/`RemoveUnused` are the ways the services differ, and `ItemTypeService` ... `AdjustReasonService` say which uses which |
| `DeleteRef` | the deletion with what the schema does to rows that name it: refuse, cascade or set NULL |
| `theme`, `file`, `disk` | two tables and the upload folder; `UploadToDisk`, `InsertFile`, `SetImage` and `ListFiles`, `UnlinkFiles`, `SoftDeleteFiles`, `DeleteThemeRow` are the steps of saving and deleting |
| `docs`, `month` | the numbers in a table, and the clock; `GenerateNumber` reads the last of the month in text order, `InsertDocument` meets the unique index |

### Listing, Reports

| TLA+ | code |
|---|---|
| `row` | a table: the column a list sorts by, the unique number, and whether the filters of the request match |
| `walk` | a client that asks for page after page while `hasNextPage` (or a cursor) says there is more, counting what it sees |
| `ReadRows`, `CountRows` | the two statements of a page, in either order; `Sorted` has every order the database may answer with where the sort leaves ties |
| `OrderBy`, `Take`, `HasNextPage`, `AfterCursor` | `QueryBuilderService.buildQuery`, `buildPaginatedResponse` and what each list does instead |
| `orders`, `details`, `partners`, `held` | rows of `SOHeader`, `SODetail`, `Supplier`, `WarehouseItem` with the columns that reports tell apart |
| `GroupedBySku` | the ranking of SKUs: lines joined with their headers, the totals of the lines, headers counted once |
| `report` | the statements of one report (`Statements`) and their answers (`Answers`); `Before` has those that are sent later |
| `WriteOrder`, `WritePartner`, `WriteStock` | another request commits between two statements |

### OrderPricing, UnitConversion

| TLA+ | code |
|---|---|
| `header`, `lines` | the stored amounts in cents, and percentages, quantities and prices in steps of their columns: `Grain` to the whole, `QtyGrain` to a piece, `PriceGrain` to a cent |
| `Quantities`, `UnitPrices`, `Percents`, `DiscountAmounts`, `Fine` | what a request may give: a number with any number of decimals, `Fine` of whose steps make one of the column; `ToColumn` and `StoredPercent` round it at the write |
| `lossy` | no code: the order was created with a number its column does not keep |
| `SOLine`, `Resolve` | the constructor of a line: percentage and amount of a discount or tax, and the check that they agree |
| `Repriced`, `Discounted`, `Taxed` | `updateUnitPrice`/`updateQuantity`, `updateDiscount`, `updateTax` |
| `LoadedHeader`, `Recalculated`, `SetDiscount`, `HeaderRow` | `SOPricing` |
| `Update` | `SORepository.update`: write, read back, roll back if the rows do not load |
| `Create` ... `UpdateWithLines` | the six endpoints that change amounts, one step each; `Create` reads its rows only after they are committed |
| `itemUnits`, `skuUnits`, `bases` | units of an item and of one of its SKUs, and their base units |
| `SetItemBase`, `SetSkuBase` | `PATCH` of the item or the SKU with another base unit, whether or not that unit has a row; `rebased` (no code) keeps those that had one |
| `AskConversion`, `FindFrom`, `FindTo` | `convertQuantity` with its two reads |
| `AskList`, `FindItem` | `getAvailableUomsForSku` with its two reads |

A double is modelled by a fraction and by parts of a cent (`Unit`) small enough
for a request's quantity times its price times two percentages; what matters is
where it is rounded to a column, which the model does as the database does.

## 3. Runs

### What holds

| run | what it shows | instance |
|---|---|---|
| `stock_disjoint` | requests that share no transaction and no stock row refine `AtomicStock`, overlapping or not; closed transactions are final; every request is answered | 2 workers, 2 transactions of all four types, 2 warehouses, 2 SKUs, transfers that share warehouses but no row, 5 requests |
| `stock_races` | no quantity or reservation becomes negative | 2 workers, arbitrary overlap, faults, a warehouse deleted, all endpoints, 4 requests |
| `stock_reservations` | reservations stay within stock | warehouse endpoints and receipts, rows used one request at a time, 6 requests |
| `so_serial` | drafts never ask for more than is left, the order records what completed issues took, an open line can always be shipped further, a final order is frozen; issues refer to the order by the endpoint that issues against it, and may be diverted from it | 1 worker, 3 issues, 2 SKUs; lines added, quantities raised; hold, release, cancel, complete, remove; 7 requests |
| `so_races` | no line is shipped beyond its quantity; the lines of the order together never record more than was moved out of stock for it | 2 workers, 2 SKUs, all endpoints, issues referred to the order unchecked among them (a deleted line's number may pass to a line of the other SKU), quantities raised, faults, PATCHed statuses, 4 requests |
| `po_serial` | a line that awaits goods has recorded every completed receipt of its SKU; the status of an order fits its lines and follows the transition table; lines keep their SKU and receipts come by the order's endpoint, and may be diverted | 1 worker, an order of 2 SKUs, 3 receipts; a line added, quantities reduced to what was received; approve, cancel, close, update, remove; 7 requests |
| `po_races` | an order never records more than was moved into stock for it; a sales order line is mapped to one line and never to a deleted row | 2 workers, 2 orders, 1 receipt (completed twice or more), all endpoints, lines given another SKU, receipts referred to an order unchecked, sales order lines closed and deleted, faults, 5 requests |
| `catalog_races` | a SKU under a model belongs to the model's item and only the deletion of an item orphans one; statuses of items move, models go and inactive SKUs change only as asked or by a request that another one overtook | 2 clients with one request each, from catalogs of one or two items with a model and a SKU, all endpoints, requests refused or abandoned |
| `records_races` | a blacklisting is final; a second default address of a type, a material deleted while an item names it, an activation undone come only of overtaken requests; a recalculation leaves the products of the levels; rows of files go after their files and a theme after its rows; a document is refused for its number only when overtaken or when the width is used up | 2 clients with one request each, all endpoints of each part, from empty tables and from tables with rows; numbers to base 3 up to 10, 2 months |
| `queries` | a walk that ends has returned every row that stayed once, by cursor even while rows are written; reports nobody disturbed add up; stored orders load, unless created with more decimals than their columns keep, and their totals are those of their lines; conversions and the list of units agree, and the list names each unit once but for one made a base unit while it had a row | 3 or 4 rows with ties, limits to one past the cut, a write; 3 orders with 5 lines, 2 suppliers, 2 stock rows, a write between statements; an order of 2 lines, 3 requests, with a decimal more than the columns; 2 units, 3 writes, base units among them |

Where a run leaves something out, it does because the code breaks the property
with it. To see the trace, put it back into the run's cfg:

* `stock_disjoint` has outbound documents of one line: with two the second can
  fail after the first has moved. It has no overlap on a
  transaction (`stock_double`; with `Disjoint = FALSE` an update that loaded a
  draft also writes DRAFT back over a completed transaction, violating
  `ClosedIsFinal`).
* `stock_reservations` has no outbound document (`removeStock` ignores
  reservations: a goods issue takes reserved stock), no negative adjustment
  (`adjustQuantity` looks at the quantity only) and no overlap on a row.
* `so_serial` leaves out quantities reduced below what was shipped
  (`updateQuantity` does not look), an issue that brings a whole line at once (the
  line stays OPEN, below, and hides later lines of its SKU), lines added to drafts
  (`AddIssueLine` checks nothing of the order), drafts that come to the order by
  `POST` or `PUT /inventory` with a reference (`ReferIssue`, `RedirectIssue`;
  `inventory.service.ts:156` and `:462`), which nothing compares with what is
  left: a completion of more than its line holds moves the stock,
  `addShippedQty` throws, that is logged, and the issue is COMPLETED and
  unrecorded; PATCH with a status (any status replaces any other, as its code
  says, a final one too), `updateWithLines` (which adds lines to a cancelled
  order) and overlap (below). `ShippedIsIssued` is about orders that are
  not final: a draft issue of a cancelled order still completes and moves stock, and the order does not record it.
* `so_races` leaves quantities as ordered or raises them, for the same reason.
  `ShippedIsMoved` adds up all SKUs: SKU by SKU it fails, since a completion
  chooses a line by its SKU and addresses it by its number afterwards
  (`inventory.service.ts:529`, `so.service.ts:991`), which an edit in between
  can give to a line of another SKU.
* `po_serial` has receipts of one line (a line whose order line is already
  received throws, and the lines of the receipt after it are not recorded), no
  deletion of lines or of the sales order lines they are mapped to, and no
  overlap: each loses a receipt or its record. Nor does it have receipts that are
  referred to an order by `POST` or `PUT /inventory`, or lines that are given
  another SKU: a line that has received goods keeps `receivedQty`
  (`po-line.entity.ts:225`) and has then recorded goods of a SKU that never came.
  Its orders have every SKU that
  receipts bring: `createGoodsReceiptFromPo` does not ask for that
  (`inventory.service.ts:196`), and a line of such a SKU that is added after the
  receipt has not recorded it. Of two lines with one SKU only
  the first ever receives, so `UnfinishedLinesAreCounted` is about first lines;
  a line that is received refuses more, so it is about unfinished ones.
  `StatusFitsLines` does not hold with overlap, nor `StatusFollowsTransitions`:
  a stale save writes an old status back.

`so_races` and `po_races` have all of these endpoints.

### What does not hold

Each run checks one statement of the repository and finds it violated.

| run | trace |
|---|---|
| `stock_double` | two completions of one draft pass the status check, both move stock |
| `so_with_lines` | a line sent with its id to `updateWithLines` is deleted |

More divergences were met and have no run of their own. Of stock and orders (the
third and fourth are what `so_serial` shows with two workers and
`OnePerIssue = FALSE`):

* an issue of two lines whose second has no stock: the first is taken, the
  transaction is still a draft and will take it again (`RemoveStockFails`;
  `stock.service.ts:37`, "Called when a transaction is completed");
* a line shipped in full by one issue stays OPEN, though the comment of
  `SOLine.addShippedQty` says "Automatically updates status to CLOSED if fully
  shipped" (`Shipped`; `so-line.entity.ts:326`); goods received in full for a
  draft purchase order leave it a draft, and approved once it is approved
  (`StatusAfter`; `purchase-order-api.md:387`);
* two issues of one order created at the same time both fit what is left and
  together exceed it (`Allocated`; `inventory.service.ts:260`);
* a completion that read an order before it was cancelled writes its old status
  back (`WriteOrder`);
* any draft issue or receipt can be referred to any order by `POST` or `PUT` of
  `/inventory`, past the checks of `createGoodsIssueFromSo` and
  `createGoodsReceiptFromPo` (`ReferIssue`, `ReferReceipt`;
  `inventory.service.ts:462`);
* the lines of an approved purchase order can be changed, although
  `docs/purchase-order-api.md` allows that for drafts only: `updateWithLines`
  checks the status for added and deleted lines, not for updated ones
  (`UpdateLine`), and one that received goods may change its SKU; nor does
  `DELETE /:id` look at it (`Remove`);
* a purchase order whose middle line was deleted takes no further line, because
  the number of a line is their count plus one (`AddLine`, `Writable`);
* `deleteWarehouse` nulls the warehouse of its transactions, which then fail
  `validateWarehouseByType` at every load (they no longer satisfy `Loads`);
* `PATCH :publicId/complete` closes an order with unshipped lines although
  `docs/API_SALES_ORDER.md` says all lines must be closed or shipped
  (`Complete`).

Of the amounts of a sales order (`OrderPricing`):

* the tax of the lines counts twice in the total of the header: in the base
  amount, which is the sum of the lines' totals, and again as tax
  (`so-header.entity.ts:84`, `so-pricing.vo.ts:92`); the example of
  `docs/API_SALES_ORDER.md:175` has the same 1005.59 = 1004.50 - 75.50 + 76.59;
* creating an order, or updating it with its lines, refuses every effective
  discount on a line: the kind that was not asked for is passed as 0 and must
  agree with the other (`NewLine`);
* changing a line leaves the totals of the header as they were, though the
  comment says "Trigger header pricing recalculation after line update"
  (`UpdateLine`; `stale` marks it);
* a discount by amount becomes a percentage of that base, and later follows it;
  a header's percentage given again may move its amount by a cent; on a large
  base an amount is refused because its percentage rounds too far;
* percentages, prices and quantities may have more decimals than their columns
  (`create-so-line.dto.ts:40` and `:82` limit none). An update reads its rows back
  before it commits and is rolled back where they do not agree any more; a
  creation reads them afterwards (`so.repository.ts:53`). So 1000 pieces at 100
  with a tax of 8.125 % are stored with a tax of 8125.00 and 8.13 %, which the
  constructor of a line refuses (`so-line.entity.ts:137`): the request answers an
  error, and the order stays and never loads (`Create`; `lossy` marks it);
* `GET` of the summary without a customer answers 400: the optional parameter
  goes through `ParseIntPipe` (`so.controller.ts:133`).

Of units of measure (`UnitConversion`):

* `POST` of a class, of a unit and of a conversion of classes is refused with any
  body: their DTOs have no validators and the global pipe forbids what is not
  whitelisted (`main.ts:23`);
* a line of a transaction looks the class up by the code of its unit
  (`inventory.service.ts:113`), which finds one only if a class is named so;
* a base unit can be changed to a unit that has a row
  (`item-aggregate.service.ts:1060`, `item.repository.ts:535`): the list then names
  it as the base with factor 1 and again with the factor of its row (`SetSkuBase`,
  `SetItemBase`; `rebased` marks it);
* the list contains the base unit and the item's units, for which the conversion
  always answers 404, and leaves out units of the SKU that are not active, which
  the conversion still uses; a factor of 0 passes the DTO and converts to
  infinity.

Of items (`ItemCatalog`):

* a change of a SKU that leaves `fabricSKUId` out clears it
  (`item-aggregate.service.ts:1029`) and rewrites missing prices as 0;
* a second default unit of a SKU can be created, though changing one into it is
  refused with "Only one SKUUOM can be set as default" (`sku-uom.service.ts:253`);
* `canBeDeleted` is always true, though the message says "Cannot delete item with
  existing models, SKUs, or UOMs";
* a unit with a code shorter than its `CHAR(10)` column is never found by
  `removeUOM`; an item may get a base unit it already has as an alternative one.

Of the other records (`Partners`, `MasterData`, `ThemeFiles`, `DocumentNumbers`):

* changes of a customer's code, phone and e-mail are checked and never written
  (`customer.repository.ts:53`); a customer created INACTIVE keeps `isActive`;
* any update of a supplier resets its rating and sort order
  (`supplier.service.ts:100`);
* changing the type of a default address makes two defaults of the new type
  without any race (`UpdateAddress`), and changing one level of packaging leaves
  the levels above as they were until they are recalculated (`UpdatePackaging`);
* materials and sizes can be neither created nor updated: the entities write a
  column `status` that the tables lack (`material.entity.ts:38`,
  `size.entity.ts:38`);
* deleting an adjustment reason, a gender or a size clears it from the rows that
  name it; an adjustment without its reason no longer loads
  (`inv-trans-header.entity.ts:163`);
* materials are only kept from deletion while an item names them: an item may lose
  its material by an update with null (`update-item.dto.ts:40`,
  `item.aggregate.ts:255`), or to a stale save of its row (`NameRef`);
* a deletion of a theme that stops between its files and their rows can never be
  repeated: the next one fails at the file that is gone (`files.service.ts:138`);
* after the last number of its fixed width a month takes no more documents once
  the longer number exists, because the order of text puts it first
  (`Exhausted`); the comment "Uses findLastPOByPrefix to avoid race condition"
  (`po-number-generator.service.ts:11`) describes what the race is about.

Of lists and reports (`Listing`, `Reports`):

* with a limit above 100 the rows are cut to 100 and the pages are counted by the
  limit asked for, so a walk skips rows (`query-builder.service.ts:208`); a sort
  only by columns that are not sortable leaves no order at all; transactions are
  sorted by a date alone, whose ties may move between pages;
* the revenue of a SKU is the sum of its lines' totals, of which a discount on the
  header takes nothing (`so-analytics.service.ts:221`): together the SKUs may
  exceed the revenue of the overview, which sums the totals of headers
  (`GroupedBySku`, `Revenue`);
* the group "Unknown" always counts 0, as it counts a column that is NULL
  (`supplier-aggregation.service.ts:75`); groups without the count metric report
  0; a supplier created by the program has rating 0 and counts as rated.

### Bounds

`MaxRequests` bounds the requests of a behaviour (4 to 7): a creation and two
overlapping requests take three; the longest scenarios (two issues created and
completed, with an edit and a change of status between) six. Two workers are
enough for every read-write race between two requests; the proofs of section 5
have any number. Quantities of 1 to 3 reach every comparison at, below and
above its boundary: exactly empty, exactly shipped, one too many. Two
warehouses make a transfer; two SKUs, or two lines of one SKU, make the choice
of a line matter. Ids and numbers grow only with requests. All sets are small
enough that symmetry is not needed.

In `catalog_races` and `records_races` one request each (`MaxRequests` 2) is the
overlap the properties speak of, since both start from every table that a few
requests leave; three ids of a table make room for a row, its rival and one that
comes. Numbers to base 3 with one or two digits of width pass the width as five
digits to base 10 do. In `queries` a page of one or two rows of three, with
`MaxLimit` 2 for the 100 of the code, has a first, a middle and a last page and a
limit that is cut; one write between pages can move a row past the reader in
either direction. Ratings of 0, 45 and 50 with none at all meet both ends of the
ranges. Five lines make an order with two lines of one SKU, one with two SKUs,
SKUs in several orders, and totals of lines above that of their header. `Grain` 10
instead of 10,000 makes percentages of a tenth, so that three requests suffice to
round a price the way many would; `QtyGrain` 1 and `PriceGrain` 2 make whole
pieces and half cents, and `Fine` 2 lets a request ask for half a step of a
percentage, a quantity or a discount (9 of `Percents` is 4.5 steps of 10 to the
whole, 3 of `Quantities` a piece and a half); the same module was also simulated
with three lines, eight requests and half pieces in the column. Two units with factors 0, 3 and 12 convert
exactly, with a remainder, and not at all.

## 4. Fairness

`FairSpec` has weak fairness of `Serve(p)` for every worker: once the database
has answered, the event loop resumes the request. No fairness is assumed of
clients (they may never call), of faults or of warehouse deletions. The one
liveness property, `RequestsAnswered`, is checked without faults; a process
that dies answers nothing.

## 5. Proofs

Every theorem is about all values of the constants that the named assumptions of
the modules allow: any number of clients or workers, rows, documents, quantities
and requests. What an environment must not do for a property to hold is a
hypothesis of the theorem (`ASSUME Exclusive` and the like), not an assumption
on the constants; the run that checks the same property meets it
(`OneCompletionAtATime` has `stock_double` as its counterpart, which does not
and fails). The assumptions say what the code or the schema guarantees:
finite sets of rows and lines, line numbers of a document that differ
(`@@unique([headerId, lineNum])`, `inventory.prisma:96`), NULL that is no id.

| module | theorems |
|---|---|
| `StockProofs` | `TypeCorrect`, `StockNeverNegative`; with requests that do not overlap on a transaction or row: `ClosedStaysClosed`, `OneCompletionAtATime`, `ReservationsAreStocked`, `CompletionsAreAtomic` (the refinement) |
| `SalesOrderProofs` | `TypeCorrect`, `NoLineOvershipped`, `NothingShippedFromNowhere`; served one at a time: `FinalOrdersAreFrozen` |
| `AllocationProofs` | when clients keep to the order of things: `DraftsAreCovered`, `IssuedIsRecorded`; where no issue takes a whole line: `RemaindersAreIssuable` |
| `PurchaseProofs` | `TypeCorrect`, `MappingIsUnique`, `NothingReceivedFromNowhere`; served one at a time: `StatusesFitLines`, `StatusesFollowTransitions`, `ReceiptsAreCounted` |
| `CatalogProofs` | `CatalogTyped`, `SkusFollowTheirModel`, `SkusLoseItemsOnlyToDeletion`, `ItemStatusAsAsked`, `ModelsRemovedEmpty`, `InactiveSkusFrozen` |
| `RecordsProofs` | `TypeCorrect`, `BlacklistedForGood`, `OneDefaultUnlessOvertaken`, `ActivityAsAsked`, `MaterialsAreKept`, `DeletionInOrder`, `NumbersRefusedFairly`, `RecalculationsSettle` |
| `QueryProofs` | `UnitsAgree`, `TotalsHold`, `WalksAreComplete`, `ReportsAreConsistent`; for the specification of the run: `QueriesHold` |

### Sums (`FiniteSums`)

Total quantities are folds of the community modules, defined by a recursive
function on sets. The library has no theorem about them that the provers can
use, since its induction takes an operator as a parameter. `FiniteSums` proves
what is needed without induction: a nonempty set of finite sets has a minimal
one (`MinimalSet`), so a sum that were not defined, or two that differed, would
have a least counterexample. From `SumUnfolds` follow the laws the other proofs
cite: an element added, removed or changed, sums that agree, grow or are bounded
by one another, sums by key and sums of sums.

### Stock

* `TypeCorrect`: `TypeOK` is not inductive: the step that stores a header or a
  row stores what the request remembers, and `RowKey` of a line needs the
  warehouse of the request to be one. The invariant is
  `TypeInv == TypeOK /\ RequestsOK`; `RequestsOK` says that a request that loaded
  a transaction knows which, and that what it loaded passed
  `validateWarehouseByType`. One lemma per kind of action.
* `StockNeverNegative`, for arbitrary overlap, faults and deletions. Writes are
  absolute, so the invariant `NonNegativeInv` also says that the row every
  request remembers is non-negative: a stale row is a row that was stored once,
  and every new quantity is computed from it after a check against it.
* `ClosedStaysClosed`: under `Exclusive` (one worker, or `Disjoint`). The
  invariant `DraftInv` says that the transaction of a request in flight is still
  the draft it loaded; `AcceptedAlone` is where `Exclusive` is used. It cannot
  be dropped: see `stock_disjoint` in section 3. `OneCompletionAtATime` is the
  same for what `stock_double` shows to fail with overlap.
* `ReservationsAreStocked`: a write of a row is absolute, so that the row which
  a request remembers must be the row that is stored. This is `FreshInv`, which
  also says how far the loop over the lines is, and that two requests in flight
  touch different rows. With it `CoveredInv` is inductive as long as clients only
  bring stock (`OnlyRaised`): a goods issue does not look at reservations.
* `CompletionsAreAtomic` proves `Spec => ImplementsAtomicStock` under `Promised`:
  `Exclusive`, no faults, no deletions, no writes by the warehouse endpoints
  (`AtomicStock` has none), stock rows that exist, and issues and transfers whose
  first line is the only one to move stock, so that none can be refused half-way.
  The mapping subtracts from each row what requests in flight have moved and not
  yet saved (`Flights`). `Moved` says what that is at every point of the loop. A
  step of the loop changes `Moved` of its own request and the row by the same
  amount, and is a stutter; the step that saves the header takes the transaction
  out of `Flights`, and is the completion of `AtomicStock`. That it finds enough
  stock there follows from `FreshInv`: the row, less what others have in
  flight, is the row, because others in flight are on other rows.

### Orders

* `TypeCorrect` of both modules adds that ids (and, in purchase orders, line
  numbers) tell lines apart. New ids are the largest plus one, so finiteness of
  what is stored is part of the invariant (`MaxOfFinite`).
* `NoLineOvershipped`, from `OnlyRaised` (clients change lines to one quantity,
  not less than any ordered; the code does not look at what was shipped, so
  without it the property fails). A stale write may undo a shipment or a raise,
  yet it stores a line that was within its quantity when it was computed. So
  `ShippingInv` says that every line, stored or remembered by a request, is
  within its quantity and can still be raised. `ShippedOK` is where the check of
  `SOLine.addShippedQty` is used.
* `NothingShippedFromNowhere` and `NothingReceivedFromNowhere`, for arbitrary
  overlap and faults. No sum of what is stored is inductive: a stale write may
  raise one line and lower another. The invariant asks for an *account*: a
  function from line ids, gone ones included, to quantities which no version of a
  line exceeds, stored or about to be stored, and whose total, with what requests
  have still to record (`Ahead`), is within what was moved. A quantity is entered
  once, when the version of the line that has it is computed from an older
  version, which the account covers already; what overwrites it is covered too.
  Trying to prove the property SKU by SKU showed that it is false that way (see
  `so_races` in section 3).
* `DraftsAreCovered` and `IssuedIsRecorded` assume `Orderly`: requests are served
  one at a time and none fails; lines are appended and quantities raised; drafts
  are not amended, nor do they come to the order but by `createGoodsIssueFromSo`
  (they may be diverted from it); the status of the order is left to its own
  endpoints; an issue names a SKU once, in the unit of the SKU. `so_serial` meets them all, and
  section 3 says what goes wrong without most of them; of an issue that names a
  SKU twice each line is checked by itself (`Fits`), so that both may fit where
  their sum does not. Neither property is inductive, nor are both together: what lets a
  completion ship is not the order as a whole but the one line that
  `createGoodsIssueFromSo` looked at. `AllocInv` therefore has
  - `Covered`: for every SKU the first open line has room for all that drafts of
    the order still ask for (`Room`). The check at the creation of an issue
    counts the drafts of the whole order against that line, so that no draft
    needs a second one; lines added later come after it, a raise keeps it;
  - `RequestFits`: what the request in flight read is still so, and every line
    of the issue still to be shipped goes to the first open line of its SKU;
  - `Recorded`: what is shipped is what completed issues had, and what the
    completion in flight has shipped so far (`ShippedBy`). That part is taken off
    the drafts as well, as its issue is one until it is saved: a step that ships
    moves a quantity from `Left` to the line.

  That an order that became final keeps its promise needs no more than that
  its lines do not change; `Recorded` says nothing about it, as completions of
  a final order move stock and ship nothing.
* `RemaindersAreIssuable` is about a line that is full and not closed, which would
  hide the lines after it. `SOLine.addShippedQty` leaves one behind when a line
  is shipped in one piece; so the theorem assumes `Piecewise`, that no issue line
  is as large as a line of the order, and `OnlyRaised`. With it every line, stored
  or remembered, is OPEN only with nothing shipped and PARTIAL only with
  something left (`LineGoesOn`), for arbitrary overlap, edits and faults.
* `MappingIsUnique`. `MappingInv` adds that mappings refer to sales order lines or
  to none, in stored and remembered lines, and that a request in flight is about
  an order. `AllowedIsMappedOnce` shows that what the unique index and the
  foreign key allow (`MappingAllowed`) keeps the invariant whatever the other
  orders hold; the earlier checks of `PoService` are not used, they only improve
  the answer a client gets.
* `FinalOrdersAreFrozen`, `StatusesFitLines` and `StatusesFollowTransitions` assume
  `Serial`: what a request read is still
  stored when it writes (`Current`, `Ready` in the two `SerialInv`). Without it
  they fail (section 3). Requests may still die between two steps.
  `StatusesFitLines` goes through `POHeader.recalculatePOStatus` case by case:
  receipts of less, exactly or more than what is left, and edits of what awaits.
* `ReceiptsAreCounted` assumes `Regular`: requests are served one at a time and
  none fails; no line or sales order line is deleted, no line is given another SKU,
  no receipt is amended or comes to an order but by `createGoodsReceiptFromPo` (it
  may be diverted from it); orders
  are created with lines numbered from 1 as `POHeader.create` does
  (`po-header.entity.ts:96`) and with every SKU that receipts bring; a receipt has
  one line. `po_serial` meets it, and section 3 says what goes wrong without most
  of it. The property is about requests at rest; its invariant `CountInv`, which
  also holds between the steps of a completion, has
  - `Counted`: the first line of a SKU, while it awaits goods, has received what
    completed receipts brought and what the completion in flight has recorded of a
    receipt it has not saved yet (`Unsaved`): recording moves a quantity from the
    receipt to the line, saving moves it on to the completed ones;
  - `RequestRegular`: what is written back has the quantities that were read and a
    new line comes last (`Keeps`), so that the first line of a SKU stays the first
    and an edit does not undo a receipt; the receipt in flight is still a draft, so
    that it is recorded once;
  - `OrderRegular`: lines are numbered 1 to n, so that `lines + 1` is a new number,
    and an order lacks no SKU that receipts bring.

  A recorded receipt is also written: `MappingAllowed` never refuses it, as the
  mappings it writes back are those that are stored and unique (`MappedOnce`).

### Catalog

From `CatalogAssumption` alone and for any overlap of loads, saves and failures,

* `CatalogTyped`. What is stored is what a request computed from the rows it
  read, so `RowsTyped` says that of every open request;
* `SkusFollowTheirModel`. A save of the aggregate writes back a SKU with the
  model it had when it was read. `ReadsHold` says what survives of such a
  reading: the model, if its row is still there, has the item of the request, and
  the SKU has it too or lost it to the deletion of that item. The save then
  succeeds only if the item's row and, by the foreign key (`SkuKeysHold`), the
  model's are there: this is where a stale save is stopped. `RowsKept` is what
  every transaction does for the requests of others: no row changes its item,
  but for the SKUs of a deleted item;
* `SkusLoseItemsOnlyToDeletion`, from the same invariant and `SkusKept`;
* `ItemStatusAsAsked`, `ModelsRemovedEmpty`, `InactiveSkusFrozen`. `Fresh` says
  of every request that no transaction has overtaken that what it read is
  current (`ReadsCurrent`): the status it will write back is the stored one, the
  model it will remove is empty, the SKU it will rewrite is not inactive or keeps
  its prices. That a model found without SKUs of its own item has none at all
  (`RemovableIsEmpty`) is where `SkusStayWithTheirModel` is used. `StatusSaved`,
  `ModelSaved` and `PricesSaved` say which transactions change what.

### Records

All theorems are about `MCSpec`, the four parts with every start the run has. The
part a behaviour is about keeps an invariant of one shape: the tables are typed;
every request holds what its next step needs (`PartnerReq`, `MasterReq`,
`ThemeReq`, `NumberReq`); and a request that no other overtook *knows* what its
reads and checks found (`PartnerKnows` ...). A write marks the other open
requests as overtaken, so that each step has only its own request to account
for; the lemmas `...Quiet`, `...Writes`, `...Answers` do this once for each part,
and the lemma of an action is about its tables alone.

* `BlacklistedForGood`, `ActivityAsAsked`: what it knows is that the row to be
  written is as active, or as blacklisted, as the stored one.
* `OneDefaultUnlessOvertaken`: after the others are unset there is no default of
  the type but the row to be written, which is still so when it is, unless
  another write came in between. The step then has at most one default
  (`OnlyDefault`), or no more than before (`FewerDefaults`).
* `MaterialsAreKept`: the material that is about to be deleted is named by no
  item. `NameRef`, which also clears and changes what an item names, is a write of
  another client and overtakes it.
* `DeletionInOrder`: the rows of the theme are among the paths that were read;
  then their files are off the disk; then there are no rows.
* `NumbersRefusedFairly`: numbers are compared as strings and counted as values.
  `DigitsUnfold` and `ValueUnfolds` justify the two recursive functions (from a
  least counterexample, as for sums); `ValueOfDigits` says that parsing undoes
  printing; `OneIsBefore` that of two strings of one length one is before the other; `LastIsGreatest`
  that, among numbers no longer than the width, the last in text order has the
  largest value; so the next number is new (`NextIsNew`) unless its month is
  exhausted. The base and the months are arbitrary.
* `RecalculationsSettle`: `RecalculationKnows` says of a recalculation that no
  other write to the levels overtook that the levels it has written are the lowest
  ones, without a gap, and hold the products of the quantities from their own
  level down; that the rest are still as it read them; and that the product it
  carries is the one of the level it is about to write. `ProductUnfolds` justifies the
  recursive product from a least counterexample. That there is no
  gap is not assumed: the code refuses a level without one below it
  (`Calculable`), and the argument needs it.

### Queries

`QueryProofs` states each part as a specification of its own (`UnitsSpec`,
`PricingSpec`, `ListingSpec`, `ReportsSpec`): in `MCQueries` the four share no
variable and a behaviour is about one of them. Tables start with any rows of
the right types, where the run has a few; `QueriesHold` brings this back to the
run: its specification implies the four, for instances whose reports have the
orders and lines that `MCQueries` starts from.

* `UnitsAgree`. The invariant `UnitsInv` says of a request that no write
  overtook what its reads have found (`AskKnows`): that each unit it looked up is
  a unit of the SKU with that factor. The list has one entry per unit, since a unit
  of the item is hidden by the SKU's own and a base unit has no row of its own
  unless it was made the base while it had one (`rebased`; `ListGivesOneFactor`);
  so the two factors are those of the list, and
  `Rounded` says what the division leaves.
* `TotalsHold`. The invariant says that what is stored loads again
  (`Keeps`: what is rounded to cents and to two decimals of a percentage is
  within a cent of itself recomputed, `NearCents`), unless it was created with
  numbers its columns do not keep: where they are kept, the line that is read is
  the line that was computed (`ExactIsKept`), and an update does not need that, as
  it reads back what it wrote. It also says that the totals are those
  of the rows (`Totals`). What a request holds in memory is within half a cent of
  what it stores, line by line; `SumNear` of `FiniteSums` adds that up. Every
  request that recalculates is the same argument (`TotalsRecomputed`), however it
  changed the lines; `OneCentOff` accounts for a discount that is set after the
  totals were taken. Any number of lines, any amounts, any fraction of a cent.
* `WalksAreComplete`. `CursorKnows` says what a cursor has behind it: rows that
  nobody wrote are seen once if they come before it and not at all if they come
  after it. `PagesPassed` says of an undisturbed walk by pages that the rows seen
  are the first ones of the order, page by page. That this order is always the same
  one is not a matter of course: `SetToSeqs` leaves it to the database, and it is
  unique only where the sort tells any two rows apart (`OneOrder`, from the least
  place where two orders differ). `CeilDivBound` is where the number of pages and
  `hasNextPage` meet.
* `ReportsAreConsistent`. `ReportKnows` says that every answer of a report that
  nothing disturbed is the answer the present rows give, so that it does not matter in
  which order the statements ran; a write disturbs the report (`WriteDisturbs`).
  What remains is about the rows alone, one lemma per kind of report: sums by key
  (`GroupsAddUp`, `CategoriesAddUp`), ranges that meet and do not overlap
  (`RangesAddUp`), periods one in another (`PeriodsNest`), SKUs to
  the totals of the lines (`SkusAddUp`, `TopAddsUp`), rows of one SKU over
  warehouses (`StockSums`).

The assumptions these need are named in the modules: finite tables whose ids
are 1 to n, amounts that are natural numbers of the smallest step a request gives,
any number of them to a step of the column, ratings of 0 to 5 (here
0 to 50), a `NULL` that is no value.

### What TLC alone checks

Liveness (`RequestsAnswered`), which is out of the prover's reach. Every other
property of a passing run is stated by a theorem.

## 6. Not modelled, and the plan

Left out, because no state of theirs spans two steps or because no request
reaches it:

* authentication: a registration is one insert behind a unique index, all else is
  one read and arithmetic on tokens and passwords;
* classes of units (`uom/`): see section 3, no request can change them but for the
  factor of one unit, which is one update; `removeUom`, `updateUom` and
  `createClass` are not reached;
* the endpoints of single files (`files.controller.ts`) and their guard: one
  row and one file each, in the order that `ThemeFiles` has for themes;
* services that no module provides (`customers.service.ts`,
  `customer-addresses.service.ts`) and methods nobody calls
  (`cleanupOrphanedFiles`, `Item.convertQuantity`, `buildFilterConditions`);
* reads of one row by id, the shape and wording of answers, logging, and columns
  that decide nothing (notes, addresses, metadata, dates that are not sorted by).

Hazards without a property are in `PROJECT.json` with the reason.

What is left to do, in order:

1. An abstract specification of order fulfilment that `SalesOrderShipping` and
   `PurchaseReceiving` implement when requests do not overlap; the identity of
   the line a client asked to delete (`deleteLineByPublicId`).
2. The unit of a line in `StockTransactions`: its factor is copied when a
   transaction is created, as `UnitConversion` has it.
