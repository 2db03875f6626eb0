----------------------------- MODULE ListColumns -----------------------------
(***************************************************************************)
(* crates/import: the columns that hold lists - product links, bundle      *)
(* selections, configurable variations, custom options, downloads, tier    *)
(* prices and images.  An import gathers the skus the lists name, resolves *)
(* them together with its own, collects the rows of each table line by     *)
(* line, and flushes them.  Imports come one after the other here: how two *)
(* of them interleave is the subject of ImportRun and OptionsImport.       *)
(* A cell is the sequence of its entries, <<>> if it is blank; an id is    *)
(* the sku it stands for.                                                  *)
(***************************************************************************)
EXTENDS Naturals, Sequences, FiniteSets, SequencesExt

CONSTANTS
    Sku,            \* the skus a file can name
    Existing,       \* skus of products from before
    LinkColumns,    \* the columns with product links, in order
    Attribute,      \* the attribute codes a file can name
    KnownAttribute, \* those that eav_attribute has
    Files,          \* the files that are imported
    Blank,          \* a blank sku cell, or an entry that is blank
    Untitled,       \* an entry without a title
    BatchSize,      \* rows of one INSERT
    MaxImports      \* bound: imports in a row

Name  == Sku \cup {Blank}
Title == {Blank, Untitled} \cup STRING

Line == [sku : Name,
         linked : [ToSet(LinkColumns) -> Seq(Name)],
         bundle : Seq([head : BOOLEAN, skus : Seq(Name)]),
         super : Seq(Attribute \cup {Blank}), children : Seq(Name),
         options : Seq([type : STRING, title : Title, choices : Seq(BOOLEAN)]),
         downloads : Seq(Title), samples : Seq(Title),
         tiers : Seq([valid : BOOLEAN, all : BOOLEAN, group : Nat, qty : Nat,
                      price : Nat]),
         images : Seq(Title)]

ASSUME ListColumnsAssumption ==
    /\ Existing \subseteq Sku /\ LinkColumns \in Seq(STRING)
    /\ Blank \notin Sku \cup Attribute
    /\ KnownAttribute \subseteq Attribute
    /\ Files \subseteq Seq(Line)
    /\ BatchSize \in Nat \ {0} /\ MaxImports \in Nat

VARIABLES
    known,      \* catalog_product_entity
    links,      \* catalog_product_link: <<product, linked, type>> -> position
    parents,    \* catalog_product_super_link: child -> parent
    supers,     \* catalog_product_super_attribute: <<product, code>> -> position
    bundles,    \* product -> the components of each of its bundle options
    options,    \* product -> the number of values of each custom option
    downloads,  \* product -> the titles in downloadable_link
    samples,    \* product -> the titles in downloadable_sample
    tiers,      \* tier prices: <<product, all, group, qty>> -> price
    pool,       \* ..._media_gallery: the images in the order of their value_ids
    linked,     \* ..._media_gallery_value_to_entity: <<product, value_id>>
    warned,     \* the unknown skus the last import warned of
    history     \* the files imported so far

tables == <<known, links, parents, supers, bundles, options, downloads, samples, tiers>>
gallery == <<pool, linked>>
vars   == <<tables, gallery, warned, history>>

EmptyTable == [k \in {} |-> 0]

Row(key, value) == [key |-> key, value |-> value]
KeysOf(rows)    == {r.key : r \in ToSet(rows)}

\* Mutant: INSERT IGNORE.
KeptFirst(table, rows) ==
    FoldLeft(LAMBDA t, r : [k \in DOMAIN t \cup {r.key} |->
                              IF k \in DOMAIN t THEN t[k] ELSE r.value], table, rows)

\* A table with rows upserted in order: of one key, the last one stays.
Upserted(table, rows) ==
    FoldLeft(LAMBDA t, r : [k \in DOMAIN t \cup {r.key} |->
                              IF k = r.key THEN r.value ELSE t[k]], table, rows)

\* The values of all rows with this key, joined.
Joined(rows, key) ==
    FlattenSeq([n \in DOMAIN rows |-> IF rows[n].key = key THEN rows[n].value ELSE <<>>])

\* Mutant: the old set of a product is not deleted.
Accumulated(table, keys, rows) ==
    [k \in DOMAIN table \cup keys |->
        (IF k \in DOMAIN table THEN table[k] ELSE <<>>) \o Joined(rows, k)]

\* Mutant: each row is flushed on its own, the next one deletes it.
ReplacedByRow(table, keys, rows) ==
    [k \in DOMAIN table \cup keys |->
        IF k \in KeysOf(rows) THEN rows[SelectLastInSeq(rows, LAMBDA r : r.key = k)].value
        ELSE IF k \in keys THEN <<>> ELSE table[k]]

\* A table with the sets of some products deleted and rows inserted.
Replaced(table, keys, rows) ==
    [k \in DOMAIN table \cup keys |-> IF k \in keys THEN Joined(rows, k) ELSE table[k]]

\* What the lines with a sku, or the entries of a cell, yield in order.
PerLine(f, Rows(_)) ==
    FlattenSeq([n \in DOMAIN f |-> IF f[n].sku = Blank THEN <<>> ELSE Rows(f[n])])
PerEntry(cell, Rows(_)) == FlattenSeq([n \in DOMAIN cell |-> Rows(n)])

OwnLines(f) == {line \in ToSet(f) : line.sku # Blank}

If(test, row) == IF test THEN <<row>> ELSE <<>>

-----------------------------------------------------------------------------
(* The skus to resolve. *)

PrimarySkus(f) == {line.sku : line \in ToSet(f)} \ {Blank}

\* Mutant: a column is left out.
FirstLinkedSkus(f) ==
    (UNION {ToSet(line.linked[LinkColumns[1]]) : line \in ToSet(f)}) \ {Blank}

\* Lines without a sku are gathered, too.
LinkedSkus(f) ==
    (UNION {UNION {ToSet(line.linked[c]) : c \in ToSet(LinkColumns)} :
              line \in ToSet(f)}) \ {Blank}

SelectionSkus(f) ==
    (UNION {UNION {ToSet(e.skus) : e \in ToSet(line.bundle)} : line \in ToSet(f)}) \ {Blank}

ChildSkus(f) == (UNION {ToSet(line.children) : line \in ToSet(f)}) \ {Blank}

\* sku_to_id: own skus are created, the others must be there.
Resolved(f, present) ==
    PrimarySkus(f)
      \cup ((LinkedSkus(f) \cup SelectionSkus(f) \cup ChildSkus(f)) \cap present)

-----------------------------------------------------------------------------
(* The rows of each table; ids is what Resolved gives. *)

\* A reference counts if it is neither blank, nor to itself, nor unknown.
Refers(line, s, ids) == s # Blank /\ s # line.sku /\ s \in ids

\* The position counts the entries that are skipped, too.
LinkRows(f, ids) ==
    PerLine(f, LAMBDA line :
      PerEntry(LinkColumns, LAMBDA c :
        LET cell == line.linked[LinkColumns[c]] IN
        PerEntry(cell, LAMBDA n :
          If(Refers(line, cell[n], ids), Row(<<line.sku, cell[n], LinkColumns[c]>>, n - 1)))))

SuperLinkRows(f, ids) ==
    PerLine(f, LAMBDA line : PerEntry(line.children, LAMBDA n :
        If(Refers(line, line.children[n], ids), Row(line.children[n], line.sku))))

SuperAttributeRows(f) ==
    PerLine(f, LAMBDA line : PerEntry(line.super, LAMBDA n :
        If(line.super[n] \in KnownAttribute, Row(<<line.sku, line.super[n]>>, n - 1))))

\* parse_bundle_selection: a bundle may well contain itself.
Components(entry, ids) == SelectSeq(entry.skus, LAMBDA s : s # Blank /\ s \in ids)

BundleRows(f, ids) ==
    PerLine(f, LAMBDA line : PerEntry(line.bundle, LAMBDA n :
        LET c == Components(line.bundle[n], ids) IN
        If(line.bundle[n].head /\ c # <<>>, Row(line.sku, <<c>>))))

SelectTypes == {"drop_down", "radio", "checkbox", "multiselect"}
OptionTypes == SelectTypes \cup {"field", "area", "file", "date", "date_time", "time"}

\* parse_option_value: the choices with a title, of an option of a select type.
OptionValues(entry) ==
    IF entry.type \in SelectTypes THEN Len(SelectSeq(entry.choices, LAMBDA c : c)) ELSE 0

\* parse_option_entry: an option of a select type needs a value.
IsOption(entry) ==
    /\ entry.type \in OptionTypes /\ entry.title \notin {Blank, Untitled}
    /\ entry.type \in SelectTypes => OptionValues(entry) > 0

OptionRows(f) ==
    PerLine(f, LAMBDA line : PerEntry(line.options, LAMBDA n :
        If(IsOption(line.options[n]), Row(line.sku, <<OptionValues(line.options[n])>>))))

DownloadRows(f) ==
    PerLine(f, LAMBDA line : PerEntry(line.downloads, LAMBDA n :
        If(line.downloads[n] \notin {Blank, Untitled}, Row(line.sku, <<line.downloads[n]>>))))

SampleRows(f) ==
    PerLine(f, LAMBDA line : PerEntry(line.samples, LAMBDA n :
        If(line.samples[n] \notin {Blank, Untitled}, Row(line.sku, <<line.samples[n]>>))))

\* The products whose downloads and samples are both replaced: either cell
\* is there, whatever comes of its entries.
Touched(f) ==
    {line.sku : line \in {l \in OwnLines(f) : l.downloads # <<>> \/ l.samples # <<>>}}

TierKey(sku, e) ==
    IF e.all THEN <<sku, 1, 0, e.qty>> ELSE <<sku, 0, e.group, e.qty>>

TierRows(f) ==
    PerLine(f, LAMBDA line : PerEntry(line.tiers, LAMBDA n :
        If(line.tiers[n].valid, Row(TierKey(line.sku, line.tiers[n]), line.tiers[n].price))))

\* Each image of a product once, whichever columns and lines name it.
GalleryRows(f) ==
    LET rows == PerLine(f, LAMBDA line : PerEntry(line.images, LAMBDA n :
                  If(line.images[n] # Blank, Row(line.sku, line.images[n])))) IN
    FoldLeft(LAMBDA seen, r : IF Contains(seen, r) THEN seen ELSE Append(seen, r), <<>>, rows)

\* slice::chunks.
Chunks(rows) ==
    [k \in 1 .. (Len(rows) + BatchSize - 1) \div BatchSize |->
        SubSeq(rows, (k - 1) * BatchSize + 1,
               IF k * BatchSize < Len(rows) THEN k * BatchSize ELSE Len(rows))]

\* The value_id of the n-th row of a statement, from its last_insert_id.
ValueIdFromZero(first, n) == first + n      \* mutant: the index is not one less
ValueId(first, n) == first + n - 1

\* One INSERT into the pool, and the links it makes.
Inserted(state, chunk) ==
    [pool   |-> state.pool \o [n \in DOMAIN chunk |-> chunk[n].value],
     linked |-> state.linked \cup
                  {<<chunk[n].key, ValueId(Len(state.pool) + 1, n)>> : n \in DOMAIN chunk}]

\* flush_gallery.
FlushedGallery(rows) ==
    FoldLeft(Inserted, [pool |-> pool, linked |-> linked], Chunks(rows))

\* The skus a warning calls unknown.
Unknown(f, ids) ==
    (UNION {ToSet(l.children) \cup (UNION {ToSet(l.linked[c]) : c \in ToSet(LinkColumns)})
              \cup (UNION {ToSet(e.skus) : e \in {b \in ToSet(l.bundle) : b.head}}) :
              l \in OwnLines(f)})
      \ (ids \cup {Blank})

-----------------------------------------------------------------------------
Init ==
    /\ known = Existing
    /\ links = EmptyTable /\ parents = EmptyTable /\ supers = EmptyTable
    /\ bundles = EmptyTable /\ options = EmptyTable
    /\ downloads = EmptyTable /\ samples = EmptyTable
    /\ tiers = EmptyTable /\ pool = <<>> /\ linked = {}
    /\ warned = {} /\ history = <<>>

\* One import_products from end to end.
ImportFile(f) ==
    LET ids     == Resolved(f, known)
        bundled == BundleRows(f, ids)
        opts    == OptionRows(f)
        images  == FlushedGallery(GalleryRows(f)) IN
    /\ Len(history) < MaxImports
    /\ history' = Append(history, f)
    /\ known' = known \cup PrimarySkus(f)
    /\ warned' = Unknown(f, ids)
    /\ links' = Upserted(links, LinkRows(f, ids))
    /\ parents' = Upserted(parents, SuperLinkRows(f, ids))
    /\ supers' = Upserted(supers, SuperAttributeRows(f))
    /\ bundles' = Replaced(bundles, KeysOf(bundled), bundled)
    /\ options' = Replaced(options, KeysOf(opts), opts)
    /\ downloads' = Replaced(downloads, Touched(f), DownloadRows(f))
    /\ samples' = Replaced(samples, Touched(f), SampleRows(f))
    /\ tiers' = Upserted(tiers, TierRows(f))
    /\ pool' = images.pool /\ linked' = images.linked

Next == \E f \in Files : ImportFile(f)

Spec == Init /\ [][Next]_vars
-----------------------------------------------------------------------------
(* Properties. *)

TypeOK ==
    /\ known \subseteq Sku /\ warned \subseteq Sku
    /\ DOMAIN links \subseteq known \X known \X ToSet(LinkColumns)
    /\ DOMAIN parents \subseteq known /\ DOMAIN supers \subseteq known \X Attribute
    /\ \A c \in DOMAIN parents : parents[c] \in known \ {c}
    /\ \A p \in DOMAIN bundles : \A n \in DOMAIN bundles[p] : ToSet(bundles[p][n]) \subseteq known
    /\ DOMAIN options \cup DOMAIN downloads \cup DOMAIN samples \subseteq known
    /\ \A k \in DOMAIN tiers : k[1] \in known
    /\ \A k \in linked : k[1] \in known /\ k[2] \in Nat
    /\ history \in Seq(Files)

\* A warning of an unknown sku is never about a product that exists, or that
\* the same file creates on an earlier or a later line: the skus of every
\* list column are looked up before any of them is resolved.
NoFalseUnknown == warned \cap known = {}

\* Importing the same file again changes none of the tables that are
\* upserted or replaced, whatever the file repeats or gets wrong.  (The
\* gallery is neither: see ImagesAreLinked.)
ReimportChangesNothing ==
    [][(history # <<>> /\ Last(history') = Last(history)) => UNCHANGED tables]_vars

\* What the files imported so far list for product p in a column, from the
\* last one that lists anything: sets are replaced, never merged.
LastListed(p, RowsOf(_)) ==
    LET listing == {n \in DOMAIN history : p \in KeysOf(RowsOf(history[n]))} IN
    IF listing = {} THEN <<>>
    ELSE Joined(RowsOf(history[CHOOSE n \in listing : \A k \in listing : k <= n]), p)

\* A product's custom options are those of the last file that had valid ones
\* for it, all of its lines taken together: a file that has none leaves them.
OptionsOfLastFile ==
    \A p \in known : LET o == LastListed(p, OptionRows) IN
        IF o = <<>> THEN p \notin DOMAIN options ELSE options[p] = o

\* Each row of the image pool is linked to one product, and a product to as
\* many rows of an image as there were imports whose file named it for that
\* product, however many of its lines and columns did: the value_ids that are
\* worked out chunk by chunk are those of the rows, and every import adds its
\* images once more.
ImagesAreLinked ==
    /\ {k[2] : k \in linked} = DOMAIN pool /\ Cardinality(linked) = Len(pool)
    /\ \A p \in known, i \in ToSet(pool) :
         Cardinality({k \in linked : k[1] = p /\ pool[k[2]] = i})
           = Cardinality({n \in DOMAIN history :
                \E line \in OwnLines(history[n]) : line.sku = p /\ i \in ToSet(line.images)})

\* A child has one parent: the last that a file gave it while both existed.
LastParentWins ==
    \A c \in known :
        LET giving == {g \in UNION {{n} \X DOMAIN history[n] : n \in DOMAIN history} :
                         /\ history[g[1]][g[2]].sku \notin {Blank, c}
                         /\ c \in ToSet(history[g[1]][g[2]].children)
                         /\ \/ c \in Existing
                            \/ \E m \in 1 .. g[1] : c \in PrimarySkus(history[m])} IN
        IF giving = {} THEN c \notin DOMAIN parents
        ELSE LET g == CHOOSE g \in giving : \A h \in giving :
                        h[1] < g[1] \/ (h[1] = g[1] /\ h[2] <= g[2]) IN
             c \in DOMAIN parents /\ parents[c] = history[g[1]][g[2]].sku
=============================================================================
