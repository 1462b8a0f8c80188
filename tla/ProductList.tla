------------------------------ MODULE ProductList ------------------------------
(***************************************************************************)
(* The console's list of products (ProductsPageClient.tsx) and the dialog  *)
(* that imports a spreadsheet into it (ExcelImportDialog.tsx).  The list   *)
(* is what the last answer said: a search that is typed is asked for after *)
(* a pause, a page or category at once, a deletion or an import is         *)
(* followed by a load with the query of the render it was begun in.        *)
(* Answers overtake each other, and nothing tells which is the last.       *)
(***************************************************************************)
EXTENDS Naturals, FiniteSets

CONSTANTS MaxProducts,  \* bound: products
          MaxActs,      \* bound: what the manager does
          MaxLoads      \* bound: loads in progress

ASSUME ProductListAssumption ==
  MaxProducts \in Nat /\ MaxActs \in Nat /\ MaxLoads \in Nat \ {0}

VARIABLES
  catalogue,         \* the products of the store
  products,          \* the list on the page
  search, debouncedSearch, filter,  \* filter: page and category
  listLoading, loads,
  selectedIds,
  deletes,           \* deletions in progress, of one product or of all selected
  step, importBusy, previewResult,      \* the dialog; the file whose rows it shows
  reading, committing,              \* files being read, imports in progress
  acts,
  stale   \* history: the list was not brought up to date by a load of its own

listVars == <<catalogue, products, search, debouncedSearch, filter, listLoading,
              loads, selectedIds, deletes, step, importBusy, previewResult,
              reading, committing, acts, stale>>
dialog == <<step, importBusy, previewResult, reading, committing>>

Ids == 1..MaxProducts
\* Which products a search and a filter leave.
Found(query) ==
  {p \in catalogue : (query[1] = 1 => p % 2 = 1) /\ (query[2] = 1 => p > 1)}
Query == <<debouncedSearch, filter>>

ListInit ==
  /\ catalogue \in SUBSET Ids /\ search = 0 /\ debouncedSearch = 0 /\ filter = 0
  /\ products = Found(<<0, 0>>) /\ listLoading = FALSE /\ loads = {} /\ selectedIds = {}
  /\ deletes = {} /\ step = "select" /\ importBusy = FALSE /\ previewResult = 0
  /\ reading = {} /\ committing = {} /\ acts = 0 /\ stale = FALSE

-------------------------------------------------------------------------------
Act == acts < MaxActs /\ acts' = acts + 1
Mixed == {[l EXCEPT !.mixed = TRUE] : l \in loads}
Disturb == stale' = TRUE /\ loads' = Mixed
Undisturbed == UNCHANGED <<stale, loads>>

LoadProducts(query) ==
  \E n \in 1..MaxLoads \ {l.n : l \in loads} :
    /\ loads' = Mixed \cup {[n |-> n, query |-> query, at |-> "sent", rows |-> {},
                             mixed |-> loads # {}]}
    /\ listLoading' = TRUE

FetchProducts(l) ==
  /\ l.at = "sent"
  /\ loads' = (loads \ {l}) \cup {[l EXCEPT !.at = "read", !.rows = Found(l.query)]}
  /\ UNCHANGED <<catalogue, products, search, debouncedSearch, filter,
                 listLoading, selectedIds, deletes, acts, stale>> /\ UNCHANGED dialog

\* Mutant: an empty answer leaves the list as it is.
KeepWhenEmpty(rows) == IF rows = {} THEN products ELSE rows

RowsShown(rows) == rows

ListAnswered(l) ==
  /\ l.at = "read" /\ loads' = loads \ {l}
  /\ products' = RowsShown(l.rows) /\ listLoading' = FALSE
  /\ stale' = (l.mixed \/ l.query # Query)
  /\ UNCHANGED <<catalogue, search, debouncedSearch, filter, selectedIds, deletes,
                 acts>>
  /\ UNCHANGED dialog

\* A load that fails shows an empty list.
ListFails(l) ==
  /\ loads' = loads \ {l} /\ products' = {} /\ listLoading' = FALSE /\ stale' = TRUE
  /\ UNCHANGED <<catalogue, search, debouncedSearch, filter, selectedIds, deletes,
                 acts>>
  /\ UNCHANGED dialog

-------------------------------------------------------------------------------
TypeSearch ==
  /\ Act /\ search' = 1 - search /\ Undisturbed
  /\ UNCHANGED <<catalogue, products, debouncedSearch, filter, listLoading,
                 selectedIds, deletes>> /\ UNCHANGED dialog

Debounce ==
  /\ search # debouncedSearch /\ debouncedSearch' = search
  /\ LoadProducts(<<search, filter>>)
  /\ UNCHANGED <<catalogue, products, search, filter, selectedIds, deletes, acts,
                 stale>>
  /\ UNCHANGED dialog

SetFilter ==
  /\ Act /\ filter' = 1 - filter /\ LoadProducts(<<debouncedSearch, 1 - filter>>)
  /\ UNCHANGED <<catalogue, products, search, debouncedSearch, selectedIds,
                 deletes, stale>> /\ UNCHANGED dialog

Select(ids) ==
  /\ Act /\ selectedIds' = ids /\ Undisturbed
  /\ UNCHANGED <<catalogue, products, search, debouncedSearch, filter,
                 listLoading, deletes>>
  /\ UNCHANGED dialog

\* The box of the heading stays while the rows are being loaded.
HandleSelectAll == Select(IF selectedIds = products THEN {} ELSE products)
HandleSelectOne(p) ==
  /\ ~listLoading /\ p \in products
  /\ Select(IF p \in selectedIds THEN selectedIds \ {p} ELSE selectedIds \cup {p})

Delete(ids, all) ==
  /\ Act /\ ids # {} /\ deletes = {}
  /\ deletes' = {[left |-> ids, all |-> all, query |-> <<search, filter>>, heard |-> TRUE]}
  /\ Undisturbed
  /\ UNCHANGED <<catalogue, products, search, debouncedSearch, filter,
                 listLoading, selectedIds>> /\ UNCHANGED dialog

HandleBulkDelete == Delete(selectedIds, TRUE)
HandleDelete(p) == ~listLoading /\ p \in products /\ Delete({p}, FALSE)

DeleteProduct(d, p) ==
  /\ p \in d.left \cap catalogue /\ catalogue' = catalogue \ {p}
  /\ deletes' = {[d EXCEPT !.left = @ \ {p}]}
  /\ IF d.heard THEN Undisturbed ELSE Disturb
  /\ UNCHANGED <<products, search, debouncedSearch, filter, listLoading,
                 selectedIds, acts>>
  /\ UNCHANGED dialog

\* One that is gone already, or whose answer is lost: the first failure ends the wait,
\* and the list and the selection stay as they are.
DeleteFails(d, p) ==
  /\ p \in d.left
  /\ deletes' = {[d EXCEPT !.left = @ \ {p}, !.heard = FALSE]} /\ Disturb
  /\ catalogue' \in {catalogue, catalogue \ {p}}
  /\ UNCHANGED <<products, search, debouncedSearch, filter, listLoading,
                 selectedIds, acts>>
  /\ UNCHANGED dialog

DeletesAnswered(d) ==
  /\ d.left = {} /\ deletes' = {}
  /\ IF d.heard
       THEN LoadProducts(d.query) /\ selectedIds' = IF d.all THEN {} ELSE selectedIds
       ELSE UNCHANGED <<loads, listLoading, selectedIds>>
  /\ UNCHANGED <<catalogue, products, search, debouncedSearch, filter, acts,
                 stale>>
  /\ UNCHANGED dialog

\* Another manager, or the assistant.
DeletedElsewhere(p) ==
  /\ Act /\ p \in catalogue /\ catalogue' = catalogue \ {p} /\ Disturb
  /\ UNCHANGED <<products, search, debouncedSearch, filter, listLoading,
                 selectedIds, deletes>>
  /\ UNCHANGED dialog

-------------------------------------------------------------------------------
List == UNCHANGED <<search, debouncedSearch, filter, selectedIds, deletes,
                    products>>

\* A file is read by the server, which shows its rows; another may be chosen meanwhile.
HandleImportFile(f) ==
  /\ step = "select" /\ Act /\ f \notin reading
  /\ reading' = reading \cup {f} /\ importBusy' = TRUE
  /\ UNCHANGED <<catalogue, listLoading, step, previewResult, committing>> /\ Undisturbed /\ List

PreviewAnswered(f) ==
  /\ f \in reading /\ reading' = reading \ {f} /\ importBusy' = FALSE
  /\ \/ previewResult' = f /\ step' = "preview"
     \/ UNCHANGED <<previewResult, step>>
  /\ UNCHANGED <<catalogue, listLoading, committing, acts>> /\ Undisturbed /\ List

HandleConfirm ==
  /\ step = "preview" /\ ~importBusy /\ importBusy' = TRUE
  /\ committing' = committing \cup {[file |-> previewResult, at |-> "sent"]}
  /\ UNCHANGED <<catalogue, listLoading, step, previewResult, reading, acts>>
  /\ Undisturbed /\ List

\* Row by row: a product that is there is changed, another one made.
CommitProductsImport(c) ==
  /\ c.at \in {"sent", "unheard"} /\ catalogue' = catalogue \cup {c.file}
  /\ committing' = (committing \ {c})
       \cup (IF c.at = "sent" THEN {[c EXCEPT !.at = "done"]} ELSE {})
  /\ IF c.at = "sent" THEN Undisturbed ELSE Disturb
  /\ UNCHANGED <<listLoading, step, importBusy, previewResult, reading, acts>> /\ List

Imported(c) ==
  /\ c.at = "done" /\ committing' = committing \ {c}
  /\ step' = "summary" /\ importBusy' = FALSE /\ LoadProducts(<<search, filter>>)
  /\ UNCHANGED <<catalogue, previewResult, reading, acts, stale>> /\ List

ImportFails(c) ==
  /\ c.at \in {"sent", "done"} /\ importBusy' = FALSE /\ Disturb
  /\ committing' = (committing \ {c})
       \cup (IF c.at = "sent" THEN {[c EXCEPT !.at = "unheard"]} ELSE {})
  /\ UNCHANGED <<catalogue, listLoading, step, previewResult, reading, acts>> /\ List

\* Back, or the dialog is closed, while what is being read arrives all the same; "Done"
\* closes it without this, so that it opens again where it was.
Reset ==
  /\ step # "select" /\ step' = "select" /\ previewResult' = 0
  /\ UNCHANGED <<catalogue, listLoading, importBusy, reading, committing, acts>>
  /\ Undisturbed /\ List

ListNext ==
  \/ TypeSearch \/ Debounce \/ SetFilter \/ HandleSelectAll \/ HandleBulkDelete
  \/ HandleConfirm \/ Reset
  \/ \E l \in loads : FetchProducts(l) \/ ListAnswered(l) \/ ListFails(l)
  \/ \E p \in Ids :
       \/ HandleSelectOne(p) \/ HandleDelete(p) \/ DeletedElsewhere(p)
       \/ HandleImportFile(p) \/ PreviewAnswered(p)
       \/ \E d \in deletes : DeleteProduct(d, p) \/ DeleteFails(d, p)
  \/ \E d \in deletes : DeletesAnswered(d)
  \/ \E c \in committing : CommitProductsImport(c) \/ Imported(c) \/ ImportFails(c)

ListSpec == ListInit /\ [][ListNext]_listVars

-------------------------------------------------------------------------------
Queries == (0..1) \X (0..1)
LoadRecords == [n : 1..MaxLoads, query : Queries, at : {"sent", "read"}, rows : SUBSET Ids,
                mixed : BOOLEAN]
DeleteRecords == [left : SUBSET Ids, all : BOOLEAN, query : Queries, heard : BOOLEAN]

ListTypeOK ==
  /\ catalogue \subseteq Ids /\ products \subseteq Ids /\ selectedIds \subseteq Ids
  /\ search \in 0..1 /\ debouncedSearch \in 0..1 /\ filter \in 0..1
  /\ loads \subseteq LoadRecords /\ deletes \subseteq DeleteRecords /\ reading \subseteq Ids
  /\ committing \subseteq [file : Ids, at : {"sent", "done", "unheard"}]
  /\ step \in {"select", "preview", "summary"} /\ (step = "preview" => previewResult \in Ids)

\* When nothing is in progress, the list is what the store has for the search and the
\* page that are set: after every search, deletion and import.  Excepted, until the next
\* load of its own: loads in progress at once, of which the last to arrive is shown; a
\* load for the query of before; one that failed, which shows no products; a deletion
\* or an import that failed half way, after which nothing is loaded; and what others do
\* (ProductsPageClient.tsx:69-149, ExcelImportDialog.tsx:52-80).
ListIsTrue ==
  /\ loads = {} /\ deletes = {} /\ committing = {} /\ search = debouncedSearch /\ ~stale
  => products = Found(Query)
===============================================================================
