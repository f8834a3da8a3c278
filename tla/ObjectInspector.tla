--------------------------- MODULE ObjectInspector ---------------------------
(***************************************************************************)
(* The object inspector (dashboard/src/pages/lakehouse-inspector): the     *)
(* preview of the object whose key is in the address.  Previews are asked  *)
(* for without a number and applied in the order in which they arrive.     *)
(***************************************************************************)
EXTENDS Integers, Sequences, FiniteSets

CONSTANTS
    InspectedKeys,      \* keys of the address; "" is the empty inspector
    FormatOf,           \* the format of the object behind a key
    HdusOf,             \* for every HDU of a FITS object, whether it holds a table
    MatchedRows,        \* rows of a parquet object: all of them, or those the search finds
    PreviewPageSize,    \* 25 in the code
    MaxPreviewReads     \* bound: previews on their way at once

ASSUME InspectorConstants ==
    /\ "" \in InspectedKeys /\ FormatOf \in [InspectedKeys \ {""} -> STRING]
    /\ \A k \in InspectedKeys \ {""} : FormatOf[k] = "fits" => HdusOf[k] \in Seq(BOOLEAN)
    /\ \A s \in BOOLEAN : MatchedRows[s] \in Nat
    /\ PreviewPageSize \in Nat \ {0} /\ MaxPreviewReads \in Nat \ {0}

VARIABLE inspector

NoPreview == [key |-> "", format |-> "none", page |-> 0, search |-> FALSE, matched |-> 0]

-----------------------------------------------------------------------------
(* What the page shows: the section of the format, and what it offers.       *)
Section(p) ==
    IF p.data # NoPreview THEN p.data.format ELSE IF p.loading THEN "reading" ELSE "none"
EmptyForm(p) == p.key = ""
InspectorRefresh(p) == p.key # "" /\ ~p.loading

ParquetButtons(p) ==
    IF Section(p) # "parquet" \/ p.loading THEN {}
    ELSE (IF p.page = 0 THEN {} ELSE {p.page - 1}) \cup
         (IF (p.page + 1) * PreviewPageSize >= p.data.matched THEN {} ELSE {p.page + 1})

(* FitsSection: whether the HDU that is selected exists and holds a table,   *)
(* which is when the switch between table and header cards is there.         *)
HasTable(p) ==
    Section(p) = "fits" /\ p.hdu \in DOMAIN HdusOf[p.data.key] /\ HdusOf[p.data.key][p.hdu]
HduViews(p) == IF HasTable(p) THEN {"table", "cards"} ELSE {"cards"}

(* The effect that opens the view of an HDU, after another one was selected  *)
(* and after every preview: its tables are new objects.                      *)
OpenHdu(p) == [p EXCEPT !.view = IF HasTable(p) THEN "table" ELSE "cards"]

-----------------------------------------------------------------------------
FetchPreview(p, page) ==
    IF p.key = "" THEN p
    ELSE [p EXCEPT !.loading = TRUE, !.error = FALSE,
                   !.reads = @ \cup {[key |-> p.key, page |-> page, search |-> p.search]}]

(* The effect of the key; mounting the page is its first run.  Without a key *)
(* the section of the object is gone, and with it the HDU that was selected. *)
KeyEffect(p) ==
    IF p.key = "" THEN [p EXCEPT !.data = NoPreview, !.error = FALSE, !.hdu = 1, !.view = "cards"]
    ELSE FetchPreview([p EXCEPT !.page = 0, !.search = FALSE], 0)

MountedInspector(key) ==
    KeyEffect([key |-> key, data |-> NoPreview, loading |-> FALSE, error |-> FALSE,
               page |-> 0, search |-> FALSE, hdu |-> 1, view |-> "cards", reads |-> {}])

Fetches(p) == Cardinality(p.reads) <= MaxPreviewReads /\ inspector' = p

(* go-api decodes the object; its answer and the browser's taking it are one *)
(* step, for the object does not change (external).                          *)
PreviewAnswered(r) ==
    LET data == [key |-> r.key, format |-> FormatOf[r.key], page |-> r.page,
                 search |-> r.search, matched |-> MatchedRows[r.search]]
    IN inspector' = OpenHdu([inspector EXCEPT !.reads = @ \ {r}, !.loading = FALSE, !.data = data,
                                !.hdu = IF inspector.data.format = "fits" THEN @ ELSE 1])

PreviewFailed(r) ==
    inspector' = [inspector EXCEPT !.reads = @ \ {r}, !.loading = FALSE, !.error = TRUE]

(* The form of the empty inspector, or the history of the browser. *)
InspectKey(k) ==
    /\ k # inspector.key
    /\ EmptyForm(inspector) \/ k \in InspectedKeys
    /\ Fetches(KeyEffect([inspector EXCEPT !.key = k]))

RefreshPreview == InspectorRefresh(inspector) /\ Fetches(FetchPreview(inspector, inspector.page))

TypeRowSearch(s) ==
    /\ Section(inspector) = "parquet" /\ s # inspector.search
    /\ inspector' = [inspector EXCEPT !.search = s]

SubmitRowSearch ==
    /\ Section(inspector) = "parquet" /\ inspector.key # ""
    /\ Fetches(FetchPreview([inspector EXCEPT !.page = 0], 0))

RowPage(n) ==
    /\ n \in ParquetButtons(inspector) /\ inspector.key # ""
    /\ Fetches(FetchPreview([inspector EXCEPT !.page = n], n))

SelectHdu(i) ==
    /\ Section(inspector) = "fits" /\ i \in DOMAIN HdusOf[inspector.data.key] /\ i # inspector.hdu
    /\ inspector' = OpenHdu([inspector EXCEPT !.hdu = i])

SwitchView(v) ==
    /\ v \in HduViews(inspector) /\ v # inspector.view
    /\ inspector' = [inspector EXCEPT !.view = v]

InspectorNext ==
    \/ \E r \in inspector.reads : PreviewAnswered(r) \/ PreviewFailed(r)
    \/ \E k \in InspectedKeys : InspectKey(k)
    \/ \E s \in BOOLEAN : TypeRowSearch(s)
    \/ RefreshPreview \/ SubmitRowSearch
    \/ \E n \in 0 .. MatchedRows[FALSE] : RowPage(n)
    \/ \E i \in 1 .. 2 : SelectHdu(i)
    \/ \E v \in {"table", "cards"} : SwitchView(v)

-----------------------------------------------------------------------------
(* The decoded table of a FITS object is open only on an HDU that holds one, *)
(* also after another object has taken the place of the one whose table was  *)
(* open, with fewer HDUs or none with a table.                               *)
TableViewHasTable == inspector.view = "table" => HasTable(inspector)

=============================================================================
