# RustGento in TLA+

TLA+ models of RustGento, a Magento-compatible catalogue server in Rust: the
CSV product importer, the reads of flattened products through an in-process
cache, and the services around them. TLC checks the models on small
instances, TLAPS proves every safety property of the passing runs, the three
refinements among them, for every value of the constants. `PROJECT.json` maps
each definition to the source lines it models and names the run, the property
and the mutant that go together.

Paths below are relative to the repository; `import/`, `repository/` and so on
stand for `crates/import/src/`, `crates/repository/src/`, ...

To check a module by hand: `tlc -config ImportRun.cfg MCImportRun`, and
`tlapm ImportRunProofs.tla` for the proofs.

## 1. The system

One workspace, two executables. `src/main.rs` serves REST, GraphQL, realtime
price and stock, and the storefront from one Tokio process. `bin/import_cli.rs`
is a process of its own that runs one `import_products` and exits. They share
the database and nothing else: no process tells another of a change.

| part | state it keeps | operations | interacts with |
|---|---|---|---|
| import run (`import/run.rs`, `flush.rs`, `entities.rs`, `sku_lookup.rs`) | `sku_to_id`, the collected rows, a `JoinSet` of flush tasks | look up skus, insert missing entities, collect, flush every table at once, join | MySQL: auto-committed inserts, then one transaction per table |
| category import (`import/categories.rs`) | a path cache for the run | find or create the root, each path segment, the links | one transaction that reads and writes the tree |
| custom options, bundles, downloads (`import/custom_options.rs`, `bundle.rs`, `downloadable.rs`) | option ids of the transaction | delete the old set, insert the new one, then its children | one transaction each, two tables |
| collectors (`import/*_bucket.rs`, `links.rs`, `gallery.rs`, `tier_prices.rs`, `configurable.rs`) | none | a file and `sku_to_id` to rows and warnings | called between lookup and flush |
| Postgres import (`import/pg.rs`) | as the import run | `ON CONFLICT` upserts or COPY through a temporary table | PostgreSQL |
| flattened products (`repository/product_db.rs`, `flat_cache.rs`) | `FlatCache`: (store, id) to product, no expiry | create, update, delete; fetch list, by id, by ids | REST, GraphQL and storefront, each with a cache of its own |
| category reads (`repository/category_db.rs`) | `FlatCache` | fetch by id, list, tree, cache all | REST, GraphQL, storefront |
| REST (`api-rest/`) | `AppState` | product and category handlers, stock import, authentication | repository |
| GraphQL (`api-graphql/`) | `GraphQLContext` with caches of its own | products, categories, pagination, uids | repository |
| realtime (`api-realtime/`) | none | price and stock by sku, alone or joined, HMAC signature | MySQL |
| storefront (`web/`) | rendered menu with a time to live, resized images on disk | pages, menu, image proxy | repository, image store |
| configuration (`config/`) | none after start-up | pools, switches | everything |

What is hard about it:

- **interleaving of imports** - nothing stops two imports, or an import and a
  REST write, from running at once: lookups go stale, auto-increment ids are
  computed rather than read back, transactions wait for each other's locks;
- **partial failure** - fifteen transactions of one import commit one by one,
  and the first failure drops the rest, perhaps with a COMMIT on the way;
- **stale state** - the flat cache has no expiry and no invalidation;
  snapshots are read inside transactions and acted upon later;
- **files written in place** - the image proxy truncates and fills a file that
  other requests read, and a crash leaves it as it is;
- **identity by arithmetic** - `last_insert_id + i` names the rows of entities,
  options, selections and gallery images.

What makes each part correct is stated with its module in section 3; the
hazards, each at its line, are in `PROJECT.json`.

## 2. Plan

In order of importance, and of writing. Modules that are to be proved about
use no RECURSIVE operator, name their assumptions, and have one action per
operation; the others only TLC reads.

| # | module | what it models | abstract specification | state |
|---|---|---|---|---|
| 1 | `ImportRows`, `ImportRun` | `import_products` of any number of processes | `TableImport` | checked, proved |
| 2 | `FlatReads` | the flat cache and the batched reads under writes | | checked, proved |
| 3 | `CategoryImport` | `flush_categories` under snapshots and row locks | | checked, proved |
| 4 | `OptionsImport` | the delete-and-reinsert transactions | `OptionSets` | checked, proved |
| 5 | `PgImport` | `import_products_pg` | `TableImport` | checked, proved |
| 6 | `ListColumns`, `StockPrice` | what the collectors make of a file, import after import; REST stock | the rows a line stands for, column by column | checked, proved |
| 7 | `CategoryPages` | category cache, tree, menu with a time to live, breadcrumbs | one state of the table | checked, proved |
| 8 | `Paging` | storefront and GraphQL pagination, as operators | pages partition the list | proved |
| 9 | `ImageCache` | simultaneous resizes through files | a write-once file | checked, proved |
| 10 | `ProductViews` | what grids, search, product pages, GraphQL, REST and realtime show of products | one state per table | checked, proved |
| 11 | `Storefront` | one server: 9 and 10, which lose their memory together | its two parts | checked, proved |

Proved: every invariant and action property that a passing run checks, each from
an inductive invariant given with its module in section 3; that `ImportRun` and
`PgImport` implement `TableImport`, that `OptionsImport` implements
`OptionSets`, and that `Storefront` implements its parts; that the pages of
`Paging` partition the list. Not proved: liveness. Worth doing next: lemmas that
two modules of proofs state alike (on lists in `CategoryPagesProofs` and
`StorefrontProofs`) in a module of their own.

Every module with state has a type invariant. Those of `ImportRun`, `FlatReads`,
`CategoryImport`, `OptionsImport`, `PgImport` and `ImageCache` are proved, and of
`CategoryPages` and `ProductViews` the part their proofs need (`Shape`). Those of
`ListColumns` and `CategoryPages` hold on the instances of their runs, which list
only the properties that say more.
## 3. The modules

### 3.1 `ImportRows`, `ImportRun`, `TableImport` - the import run

Each member of `Import` is one call of `import_products` in a process of its
own, from any number of processes against one database.

| code | model |
|---|---|
| `ParsedCsv` | `Csv[i]`: a sequence of lines, a sku (or none) and one cell per target table; a table stands for the EAV, stock, price, ... table a task flushes, `NoValue` for a cell that is empty or was dropped with a warning |
| `run.rs` 98-119 | `PrimarySkus` (the sku column), `LookupSkus` (and the skus that link columns name) |
| `lookup_existing_skus` | `LookupChunk`, one SELECT per `BatchSize` skus |
| `insert_new_products` | `InsertChunk`, `InsertTaken`; the rows of a statement in any order, that of a HashMap, ids by `RowId` |
| `spawn_flush`, `flush_*` | `Begin`, `SendChunk`, `SendCommit`, `Committed`: a connection of the pool, one transaction, chunks of rows in file order, row locks until the end |
| the loop over `join_next` | `JoinAll`, `JoinError`; `AbortTask` and `LateCommit` are what becomes of the transactions of a dropped JoinSet or a dead process |
| errors anywhere | `PrepareFails`, `TaskFails`, `CommitUnacknowledged`, `LockRefused`, `Crash` |

`TableImport` says what an import promises: one indivisible replacement per
table, at most once, all of them when it succeeds. `ImportRun` implements it
with `resolved` = "its tasks were spawned" and `outcome` from `phase`.

| run | question | bound |
|---|---|---|
| `import_runs` | Are ids right, do the counts add up, do imports that agree leave the same rows, is each table replaced at once, and does every import and every transaction end? | two imports: a file with one sku on three lines, one on one and a blank one, which also refers to a third sku, in statements of two rows, so that a chunk has a neighbour, a second one follows and replaces a value of the first; and a file of the same values with the skus in the opposite order in statements of one row, so that the two can deadlock; a pool of one connection for two tables; with and without a unique key on the skus, as in the two schemas of the repository |

Two imports are enough for each hazard: every one is a race of one import
against another writer. Fairness (`FairSpec`) is weak, for each import that was
started and each of its tasks: Tokio polls a future that can go on, the server
runs or refuses every statement (a lock wait has a timeout). Nothing has to be
started, and no failure is fair.

**Proved** (`ImportRunProofs`), for any number of
imports, tables, skus and any files, batch and pool sizes:

- `TypeCorrect`: `Spec => []TypeOK`.
- `IdsAreRight`, `NoRowIsOrphaned`: the invariant is `RowsInv`, which adds
  `StagedKnown` - the rows an open transaction has staged are of existing
  entities - since a row is written long after its id was resolved. `InsertedRows` is
  the lemma on `last_insert_id + i`.
- `Refinement`: `Spec => ImplementsTableImport`. `TasksInv` says that the
  staged rows of an open transaction are those of the lines sent so far
  (`SentRows`), that every sku of the file is resolved before a task starts
  (`SkusResolved`), and that a table is published once (`PublishedOnce`).
  `UpsertInOrder` shows that sending later lines in a later statement is as
  good as sending all in one, which makes the chunks disappear.
- `ImportsConverge`: by `LandedRows` every row of a table is the final line of some
  import that published the table, and an import's rows stay once they are
  published, only their values change; by `SuccessIsComplete` an import that
  reports success has published every table.
- `CountsAddUp`: `CountsInv` counts what an import that has not failed has
  inserted so far (`claimed`), and sums it over all imports with `SumFunction`:
  the sum is never above the number of entities, and equal to it until an import
  fails and leaves entities nobody counts. `SumOfChanged` is what becomes of a
  sum when one import inserts or fails, and `SumOfLess` compares what is
  reported with what is claimed.

They rest on `ImportDataAssumption` (the files are sequences of lines over
finite sets of skus, tables and values) and `ImportRunAssumption` (a pool has a
connection, and imports are finitely many, or their counts had no sum). Liveness
(`EveryImportEnds`, `TransactionsEnd`) is only model-checked. That no row is an
orphan is only proved.

### 3.2 `FlatReads` - flattened products and their cache

Requests for a list or for ids (`fetch_flat_list`, `fetch_flat_by_ids`) share
one `FlatCache`; `Create`, `Write` and `Delete` are what `ProductDb` and the
imports do to the tables meanwhile. A product's contents in a table are the
number of the write that made them, so a flattened product records which state
of each table it was put together from.

| code | model |
|---|---|
| `fetch_flat_by_ids`, `fetch_flat_by_id` | `StartByIds`, `Probe` |
| `fetch_flat_list` | `StartList`, `FindAll`, `Probed` |
| `batch_by_ids` | `Read`: one SELECT per `BatchSize` ids, in any order, each in a snapshot of its own |
| `batch_flatten` | `NextTable`, `AllRead`: table after table |
| `FlatCache::put`, the answer | `Put`, `Answer`; `Fails` is an error of any SELECT |

| run | question | bound |
|---|---|---|
| `flat_reads` | Is an answer current unless cached, complete, and the cache under the right ids? | two requests, two products and an id that does not exist, three writes, one attribute table besides the row: two SELECTs a write can fall between |
| `flat_cache_off` | (violation) Does `PRODUCT_FLAT_CACHE=off` bypass the cache? | the same, off |

What holds: an answer that did not come from the cache was current during the
request, table by table; ids that existed throughout are in it; an entry is of
the product it is filed under. What does not: `PRODUCT_FLAT_CACHE=off` bypasses
the cache for lists only, against the README. Safety only; a request without
an error ends by construction. The cache's freshness is not a property: the
code has no invalidation at all, and says so.

Proved (`FlatReadsProofs`), for any number of requests, products and tables,
any lists of ids, limits and chunk size: the types and the three invariants.
The inductive invariant is a conjunction per request. `SeenInv`: a request at
work has seen what the database holds now. `AskedInv`: whatever it has left to
probe or read, or has, is among the ids it asked for, and a list asked for every
product that exists all the while, or for as many as its limit. `HasRead` names
the parts a request has read of a product - the earlier tables, and of the
current one the ids no longer in `todo` - and `FlatInv` says these were current
during the request; the others are still empty, which is why an answer alone,
without the position of the reader, is not inductive. `KeptInv` says where a
product that exists all the while is on its way: in the queue, among the ids to
read, among the products read, in the answer. That an entry of the cache is
right then follows from `FlatInv` at `Put`, whoever filled the entry before. The
assumption is that `batch_flatten` reads at least one table. `OffBypassesTheCache`
is false and has no theorem.

### 3.3 `CategoryImport` - category paths

`flush_categories` of several imports. Each is one REPEATABLE READ
transaction: `snap` is what its SELECTs see of others, `own` its inserted rows,
`counts` the rows it updated, and holds the lock of. `Existing` are the trees
the database may start with.

| code | model |
|---|---|
| `find_or_create_category_name_attribute` | `Begin` |
| `find_or_create_root_category` | `FindRoot`, `CreateRoot` |
| the loop of `flush_categories`, its `path_cache` | `StartWalk`, `Remember`, `PathEnds` |
| `resolve_or_create_category_path` | `Descend`, `CreateChild`, then `IncrementParent` (waits for the parent's lock) |
| commit, errors | `Commit`, `Fails`, `LockRefused` |

| run | question | bound |
|---|---|---|
| `category_import` | Do the committed paths extend their parents' paths, the counts count, the links name their path; do imports one after the other share categories, and does each flush end? | two imports of paths with one leaf name (and one that ends where another goes on), whose parents come in opposite orders, so that each can wait for a parent row of the other; a database that is empty, has a root, or has both parents; ten ids |
| `category_root_path` | (violation) Does a category's path end in its own id? | an import that is rolled back first: the root then has id 2 and path "1" |

Two imports are enough: a snapshot is stale, a lock is held or an id burnt by
one other transaction, and a third would see what the second sees.
Simultaneous imports may create siblings of the same name: nothing in the
code prevents it, and the property is stated for imports that do not overlap.
Fairness: each import goes on when it can; the server refuses a wait in the
end.

**Proved** (`CategoryImportProofs`), for any number of imports, any files and
any `Existing` table that is itself consistent (`CategoryImportAssumption`: its
ids are `1 .. n`, paths, levels and counts are right, siblings have different
names): the types and all four invariants. Liveness (`FlushesEnd`) is only
model-checked.

- `PathsAreRight`, `CountsAreRight`: `PathsExtend` of the committed table is not
  inductive, since a commit adds rows that were written against what the import
  saw long before. `OwnInv` says that an inserted row hangs below a category the
  import still sees, which stays in the table because categories are only added.
  For the counts, `CountInv` relates an import's counts to its own children, with
  one child more than is counted between the INSERT and the UPDATE
  (`Uncounted`); `Apart` - a row is locked by one import - is why the commit of
  another leaves it true.
- `LinksAreRight`: `NameInv`. The category a walk has come to is spelled by the
  segments walked so far, a remembered path by its key (`WalkSpells`), and a
  child that was inserted but not yet counted is the next on the way
  (`ChildSpells`). `SpelledExtends` is the step from a parent to a child, and
  `OtherKeeps` that what others commit changes no name on the way.
- `SerialImportsAreRight`: `SerialInv`. An import that runs alone has all of the
  table in its snapshot and the only name attribute, so that a category it does
  not find is not there (`InsertSerial`).

### 3.4 `OptionsImport`, `OptionSets` - sets that are deleted and reinserted

`flush_custom_options` of several imports, each one InnoDB transaction;
`flush_bundle_options` is the same protocol with selections for values. An
option is known by the import that listed it and its place in the list, so
that ids can be wrong: `options` and `values` are keyed by the ids of the code.

| code | model |
|---|---|
| SELECT of `existing_option_ids` | `SelectIds`, in the transaction's snapshot |
| DELETE of the values, of the options | `DeleteValues` by the ids read, `DeleteOptions` by product; each locks what it deletes and, of the options, the gaps |
| chunked INSERT, `last_insert_id` | `InsertOptions`, `OptionsInserted`: ids by arithmetic, in one list over all chunks |
| INSERT of the values | `InsertValues`, by those ids |
| commit, errors | `Commit`, `Fails`, `LockRefused` |

`OptionSets` says what is promised: the sets of all products of the file are
replaced in one step or not at all. The run `options_import` has three imports
of two products - two chunks, one product, and one product on two lines - and
checks that promise, that each value belongs to the option it was listed with,
that no value is left without its option unless flushes overlap, and that each
flush ends (`FairSpec`: a flush goes on when it can, and a wait for a lock that
cannot be had is refused).

Proved (`OptionsImportProofs`), for any imports, files, products and chunk size:
types, `OptionsHaveTheirValues`, `NoOrphanValue`, and that `OptionsImport`
implements `OptionSets`. The inductive invariant has a part per import and a
part per pair. `PlaceInv`: past its DELETE a transaction has deleted exactly
the committed options of its products, and keeps having so while others
commit. That is what `ApartInv` is for: whoever is past the DELETE is the only
one with new options of these products, and no row is deleted twice - the row
locks and the gap locks, seen from both sides. `IdsInv`: the k-th id worked out
from `last_insert_id` is that of the k-th option, over all chunks
(`InsertedRows` is the arithmetic of one chunk). `FreshInv`: ids in use before
the COMMIT are nobody else's. At `Commit` these say that the set is replaced as
a whole. The assumptions are that products are finitely many and that what was
there before is no import's.

### 3.5 `PgImport` - the Postgres import

`import_products_pg` over the same files (`ImportRows`) and with the same
promise (`TableImport`) as the MySQL import.

| code | model |
|---|---|
| `insert_new_products_pg` | `InsertChunk`: RETURNING names each id's sku, in any order |
| `flush_*_pg`, `impl_eav_flush_pg_insert` | `Begin`, `SendRows`, `SendCommit`: chunks of `ON CONFLICT DO UPDATE` |
| `PgWriteMode::Copy` | `CopyIn`, then one `SendRows` for all rows |
| a row twice in one statement | `RowRepeated`: PostgreSQL refuses the statement, and the table is rolled back |
| join, errors, a dead process | `JoinAll`, `JoinError`, `TaskFails`, `CommitUnacknowledged`, `AbortTask`, `LateCommit`, `Crash` |

The run `pg_import` has two imports, one copied and one chunked table, and a
file whose second chunk repeats a row, so that what the first chunk wrote has
to be undone. Whether a file with a repeated sku can be imported at all depends
on its chunks, and with COPY it cannot; the MySQL import takes the last line.
The model states this (`RowRepeated`), no property forbids it.

Proved (`PgImportProofs`), for any imports, files, chunk and pool sizes and any
choice of copied tables: `PgIdsAreRight`, types and `IdsNameTheirSku`; and
`PgRefinement`, that `PgImport` implements `TableImport`. The inductive
invariant `IInv` says of entities that ids are below the sequence and skus
unique (so a SELECT or RETURNING has one id to give); of tasks, that they start
together once no sku is missing (`TasksStart`, `SkusResolved`), and while an
import still resolves it has none, so `sku_to_id` may change; of transactions,
that a COMMIT is under way only when every line of the file was sent
(`SentRows`), and that a table is published by that COMMIT alone
(`PublishedOnce`). The one abstract step is then `Publish`, acknowledged, lost
or late. The proof needs only the assumptions on the files, not that the server
grants locks or numbers rows in order.

### 3.6 `ListColumns`, `StockPrice` - what the collectors make of a file

Sequential on purpose: one import, or one REST stock call, after another. What
the concurrent modules call "the rows of a table" is worked out here from the
cells of the lines - skus to resolve, entries that are blank, repeated,
unknown or refer to their own line - and flushed the way each table is: upserted
in order, replaced as a set, or defaulted column by column.

| code | model |
|---|---|
| `collect_*_skus`, the lookup | `PrimarySkus`, `LinkedSkus`, `SelectionSkus`, `ChildSkus`, `Resolved` |
| `collect_product_links`, `collect_bundle_options`, `collect_configurable_*`, ... | `LinkRows` and its like, one operator per table |
| `collect_stock_item`, `collect_final_price` | `StockLines`, `StockItem`, `PriceLines`, `PriceItem` |
| `ON DUPLICATE KEY UPDATE`, DELETE and INSERT | `Upserted`, `Replaced`, `Flushed` |
| `collect_gallery`, `flush_gallery` | `GalleryRows`, `Chunks`, `ValueId`, `FlushedGallery`: images into the pool chunk by chunk, linked by `last_insert_id + i` |
| `import_products`, the REST stock import | `ImportCsv`, `ImportJson` |

The run `product_file` imports any three of six files, with a call in between:
no list warns of a sku that exists, options are those of the last file that
has any, a child has its last
parent, importing a file again changes nothing but the gallery, every image is
linked to its product and under its own `value_id` however many chunks the file
makes, a stock row is one line's, and a line with an invalid gate column
changes nothing. The gallery only grows: each import of a file adds its images
once more, as no key of either table is named by the INSERTs; the model does
so, and no property forbids it. A cell takes every kind of value that the code tells apart, so
six files written by hand reach the combinations; three in a row are needed for
"last" and "again". The run `stock_zero` is a violation: a quantity that does not parse
is written as 0, which the comment above the code rules out.

**Proved** (`StockPriceProofs`), for any files, calls, columns, skus and chunk
size and any number of imports in any order:

- `WarningsAreTrue`: `NoFalseUnknown` needs no strengthening but that a file's
  references, however they are listed, are among the skus looked up
  (`ReferencesResolved`).
- `StockRowsAreOfOneLine`, `StockIsNotHalfApplied`: the row a flush leaves is that
  of the last line or item of its sku (`FlushedRow`), so it is one line's.
- `ReimportIsQuiet`: `SettledInv` says that upserting or replacing with the rows of
  the last file would change nothing. `UpsertedTwice` and `ReplacedTwice` are why an
  import settles its file, and `ResolvedAgain` why a second one finds the same ids.
- `OptionsAreOfLastFile`: `OptionsInv` speaks of every sku, not only the known ones,
  and of a last file that is shown to exist rather than chosen.
- `ParentsAreLastGiven`: `ParentsInv` likewise; the rows of a file come in the order
  of its lines (`FlattenedLast`), so the last one upserted is the last given, and a
  child is resolved if and only if it was there (`KnownInv`).
- `ImagesAreLinkedOnce`: `GalleryInv`. The chunks cut the rows in pieces (`ChunkBounds`),
  and after any number of them the links of the rows so far are right (`HasRows`,
  `FlushedIs`), which makes the chunk size disappear; a file names an image once
  (`OnceIs`), so its links and the imports that named it grow together.

`Upserted`, `Joined`, `FlattenSeq` and the folds of the gallery are recursive
functions. A proof opens each to the function its definition chooses, shows that
there is one (`FlatExists`, `FoldExists`, ...), and goes along it row by row. The
assumptions are `ListColumnsAssumption` and `StockPriceAssumption`: files are
sequences of lines of the cells above.

### 3.7 `CategoryPages` - reading categories

REST, GraphQL and the storefront each have a cache of their own (`<<api, id>>`)
and share the database only.

| code | model |
|---|---|
| the tables | `versions`: each committed change makes a version, and a query sees the last one of its moment |
| the handlers | `StartList`, `StartByIds`, `StartOne`, `StartTree`, `StartCacheAll` (REST), `StartCategories` with a uid filter, `StartCategoryById` (GraphQL; its tree is `StartTree`), `StartHome`, `StartCategory`, `StartProduct` (pages) |
| `fetch_flat_list`, `fetch_flat_by_id(s)`, the category `FlatCache` | `ReadRows`, `ProbeHit`, `ProbeMiss`, `ReadRow`, `ReadAttributes`, `Put`, `Answer` |
| `build_tree` | `ReadMenuRows`, `ReadMenuNames`, `Built`: the nodes in the order they are rendered, with their depth |
| `nav_html`, `CATEGORY_TREE_TTL` | `MenuCached`, `MenuMissing`, `StoreMenu`, `Tick` |
| `build_breadcrumbs` | `FindPath`, `Shown`, `CrumbFails` |
| a failing query | `RequestFails`, `CrumbFails`, `MenuFails`, as each handler takes it |

The run `category_pages` has two requests of any kind, among them two pages
that rebuild the menu at once; one change between any two of their queries; a
time to live of one tick, so that a menu can be reused, too old, and stored
late. One change is enough to fall between any two queries of a request; two
requests for every race at a cache and the menu.

Three reductions keep it small, and lose nothing a property tells apart. The
two requests are of one API (`OneApi`): those of two share no cache. The
database changes only once a request has begun, since what is written before
might as well be in `Existing`. A page that has settled what it shows of its
own category drops it before it builds the menu.

Lists are complete for one moment of the request, a cached category is one
category's row and name, the menu is that of one state of the table and not out
of date for longer than its time to live and the time it took to build, and
breadcrumbs lead down one path. There is no liveness to check: a request waits
for nothing but its queries. The run `breadcrumb_names` is a violation: the
crumbs show ids where the code means to show names.

**Proved** (`CategoryPagesProofs`), for any categories, requests, caches and
changes of the database, and any time to live:

- `CachedCategoriesAreRight`: `CacheInv` follows a row from the query to the cache.
  What a request holds is the row of some version, and its name that of the same
  or a later one (`FlatIn`), whoever fills the entry next.
- `ListsHoldEveryCategory`: `ListInv`. A list asks for the ids of one version, in
  order, and holds or has found each of them from then on (`HasListed`); what is
  kept of an ordered list is in order (`KeptInOrder`).
- `MenusAreRecent`: `MenuInv`. A menu carries the version it was built of, and was
  read before the next version was written (`Dated`), in a request and in `nav`.
- `BreadcrumbsLeadDown`: a path never changes, and each of its ids is a category
  whose path is what comes before it (`Tree`, from `TreesInv`); `CrumbInv` says the
  crumbs are what is kept of such a path.
- `MenusAreOneState`: `OneStateInv`, that a menu is built of the rows of one version.
  That it then has each category once, in the order of the paths and as deep as its
  path is long, is `BuiltIs`: `Built` is opened level by level, and the nodes under a
  category are those whose path goes on from its own (`SonsAreBelow`).

`ExistingAssumption` is what the imports are shown to leave
(`PathsExtendTheParents` of `CategoryImport`): a path extends the parent's by the
category's id, and there is one root, whose path is its id or, after an import
that was rolled back first, 1. The lists that are kept and flattened are
recursive functions, and are opened as in `StockPriceProofs`.

### 3.8 `Paging` - pages of a listing

Operators only: `Paginate` and `GridSlice` are the pager of the storefront,
`QueryPage` and `QuerySlice` the page arguments of GraphQL. `StorefrontProofs`
proves for every total, limit and page:

- `GridPagesPartition`: each position of a listing is on exactly one of its
  pages;
- `PagerLinks`: the links are consecutive pages that exist, five or all of
  them, the page shown among them;
- `QueryPagesPartition`: each match is on exactly one page from 1 on, so the
  slices of GraphQL partition the matches and a page past the last is empty.

`ProductViews` cuts its listings with the same operators, so the run
`storefront` covers the place where they are used.

### 3.9 `ImageCache` - the image proxy

A request looks for the cached file, or else fetches, renders and writes it;
`tokio::fs::write` truncates the file and fills it, `tokio::fs::read` reads it,
both block by block, with other requests in between.

| code | model |
|---|---|
| `show` | `AskImage` (an empty `src` is refused), `Key`, `Look`, `ReadBlock` |
| `fetch_source`, decoding, `resize`, `write_to` | `Fetch`, `Render`, `Rendering`: an encoding is the sequence of its blocks, each of a source, version, size and format. The quality is in the key but not in the encoding, as in the code |
| `tokio::fs::write` | `OpenFile`, `Fill`, `Filled`: a writer goes on from its own offset, whoever truncated since, and leaves a `Hole` below it |
| errors, a crash | `StoreRefused`, `FillFails`, `ImageFails`, `ImageCrash`; `Replace` puts another picture at the source |

The code makes no promise that a cached file is whole: a reader may meet a file
being written, and a file cut short stays. The properties say exactly when
all is well. A request that misses answers with the whole image of a moment
of the request. A file that no one writes is whole unless a write of it was cut
short or two writers had different encodings (`spoilt`, a history variable). A
cached answer is in the format it names, was encoded for its query or for one of
the same file, and is whole unless the file was written while it was read, or
spoilt. A picture replaced at its source is not fetched again while the cached
file exists.

`Key` is the name of the file: the joined text and the extension. `image.rs:43`
joins the fields with `_` and escapes nothing, and `src` and `type` are free
text. The model therefore writes a text as the sequence of the pieces between its
`_` (`a_1` is `<<"a", "1">>`), and joining is concatenation, so two queries share
a file exactly when their joined texts are equal. That happens: `src=a`, 1 x 2,
`type=3_jpeg` and `src=a_1`, 2 x 3, `type=jpeg` are one file, and whichever comes
second is sent the picture of the first. This is why `CachedImageIsWhole` speaks
of `Encodings(Key)` and not of the query's own `Renderings`, which the code does
not promise. What the code does keep apart, by the extension, is the formats.
Of SHA-256 it is assumed that it does not collide.

**Proved** (`StorefrontProofs`) for any sources, queries, encodings and number
of requests: `OwnImagesAreWhole`, `SettledFilesAreWhole`,
`CachedImagesAreWhole`. The invariant is `ImageInv`. `Knows` is what a request
has found out at each step. `FileInv` is what makes it inductive: a file holds
only blocks of its own key, each at its place, or holes, and one that is not
spoilt is whole, or one of its writers - the last that truncated it - has
filled it up to where that writer is (`Kept`). `Reads` says that a reader that
met no writer has a prefix of the file. They rest on `ImageAssumption`.

### 3.10 `ProductViews` - what is shown of products

The protocol of the cache is in `FlatReads`; here a fetch is one step per phase,
and the SELECTs of a phase each take the database of a moment of their own
(`Moments`). What is added is what the rows mean: the prices of stores, groups
and websites, the stock, the categories, and the answers made from them.

| code | model |
|---|---|
| imports, the shop, `product_db::create`, `update`, `delete` | `Change`, `RestCreate`, `RestUpdate`, `RestDelete`; `log` has every state of the tables |
| `web/category.rs`, `web/search.rs` | `ListCategory`, `ListSearch`, `GridPage`, `Tile` |
| `web/product.rs` | `AskView` of a page, `ProductPage` |
| GraphQL `products`, `product`, `magentoProducts` | `ListFlat`, `Filtered`, `LookedUp`, `FromFlat`, `MagentoFromFlat` |
| REST `products.rs` | `FindAll`, `FindById`, `ListFlat`, the writes with their status |
| `fetch_flat_*`, `flatten_product` | `Probe`, `Read`, `Flattened`, `Put`, `Answer`: of the values of several stores, and the rows of several stocks, any may win, as the SELECTs have no order |
| `api-realtime` | `LookupSku`, `SelectDecimals`, `SelectStock`, `JoinEnds`: two queries for a price, one for a stock, joined concurrently |
| errors, a restart | `ViewFails` with the status of each handler, `ViewCrash` |

What is shown is of the product it says, of its guest's prices and of the time
of the request, or since the server started where it was cached
(`QuotesAreTheProducts`); a lookup by sku misses no product that had the sku all
the while (`LookupFinds`); a grid keeps to one page of the category or search
(`GridKeepsItsPage`); a realtime price is the lowest of a product that had the
sku (`RealtimeIsRecent`).

Two things the code does that a reader might not expect, and the model does
too: `from_flat` takes the product's own price also when the guest's index row
has a NULL price, where the comment above it (`api-graphql/src/models.rs`)
names only the missing row; and `GET /products/{id}` answers 404 to any database
error.

**Proved** (`StorefrontProofs`), for any products, queries, prices, caches and
writes, and any number of requests: `QuotesAreOfTheProduct`, `LookupsFind`,
`GridsKeepTheirPage`, `RealtimeAnswersAreRecent`. The invariant is `ViewInv`, with
one part for each thing a request has learnt, stated by the log so far so that a
longer log keeps it true (`HoldsLater`, `ListsLater`, ...):

- `Spans`: what a request may have seen lies between the start of the server, or of
  the request, and its answer.
- `Holds`: each product it has, and each row it has read, was put together of parts
  the database had in that time (`FlatOf`, `RowsOf`), from the server's start if the
  cache had it. `CachesFine` says so of the caches.
- `Lists`: the ids are what its query found at one moment (`ListOf`), and each of them
  is fetched, still missing, or was gone meanwhile (`Covers`).
- `Watches`: the two halves of a realtime answer, each right for the steps that are
  done (`PriceSeen`, `StockSeen`).

`IdsInv` keeps the lists of ids sequences; `PageIsItsProducts` is the arithmetic of a
grid's page. They rest on `ViewAssumption`: rows have the columns the code reads
(`Columns`), a query has its fields, and no sku it asks for stands for a product
that is not there (`Query`).

### 3.11 `Storefront` - one server

`ProductViews` and `ImageCache` in one process, which `Restart` stops: both
lose what they have in memory, and the files and the database stay. **Proved**
(`StorefrontProofs`): `ServerIsBoth`, that every behaviour of the server is one
of each part, and `ServerKeepsPictures` and `ServerKeepsViews`, that the promises of
`ImageCache` and of `ProductViews` are kept by the server.

The run `storefront` has two requests, three products, one write, the cache on
or off, two sources, the second of which is missing at first, with pictures one
after the other of two blocks and one, and three queries: two types of one
picture, and one of the other source whose joined text is that of the first.
Two requests make every race of a
reader or writer against another; one write falls between any two SELECTs,
and the second picture is the shorter one, so that a truncated file leaves a
hole. The requests are all for pictures or all for products of one API
(`Alike`), as others share nothing but the server and the database, and the
database and the pictures change only once a request has begun. Safety only: a
request waits for nothing but its own queries and reads.

## 4. What holds, and what does not

Checked and true: the properties of the passing runs, on the instances above.
Proved for all instances: every invariant and action property among them, and
the three refinements (of `TableImport`, by both imports, and of `OptionSets`);
besides, the types of the import run, that no row is an orphan, that pages
partition a listing, and that the server implements its parts. Only
model-checked is liveness: that imports end (`EveryImportEnds` of `ImportRun` and
of `PgImport`), that their transactions do (`TransactionsEnd`), and that flushes do
(`FlushesEnd` of `CategoryImport` and of `OptionsImport`).

Four things the code says of itself are not so (`PROJECT.json` "findings", each
a run of its own): `PRODUCT_FLAT_CACHE=off` does not bypass the cache for
requests by id (`flat_cache_off`); the root category's path does not name it
after a rolled back import (`category_root_path`); a quantity that does not
parse is stored as 0 (`stock_zero`); breadcrumbs show ids (`breadcrumb_names`).

## 5. What is not modelled

Per component in `PROJECT.json`. In short:

- text: CSV quoting, JSON, HTML templates, COPY's text form, uid encoding, the
  SHA-256 of an image key, logging and the printing of the import command;
- decisions that keep nothing: the authentication middleware, the signature
  check of the realtime endpoints, health checks, the parsing of store headers,
  GraphQL queries that answer constants;
- what is read once at start-up: the configuration and the attribute codes are
  constants, or chosen by Init;
- the counts on the home page, the detail of url keys (a name stands for them),
  pixels, and the fields of products and categories that are only copied;
- how requests for several APIs interleave: they share no state.

MySQL, PostgreSQL, the file system and Tokio are modelled from how the code
uses them (auto-increment, unique keys, row locks, snapshots, lost
acknowledgements, aborted tasks, truncation and writes at an offset), and their
definitions are marked external.

Liveness stays with TLC: the provers have no ENABLED and so no fairness. The
library's induction theorems cannot be cited, since they take an operator; where
a proof goes along a list or a sum, induction is that of the least
counterexample (`UpTo`, `Induction`), and a recursive function is opened to the one
its definition chooses, once it is shown to exist. The four properties that
the code violates have runs and no theorem.
