------------------------------ MODULE LineEditor ------------------------------
(***************************************************************************)
(* The product lines of the order, receipt and adjustment drawers.  Products  *)
(* are picked from the server's search results, a page at a time; what has    *)
(* been picked is remembered, and a form can start with lines of its own: of  *)
(* the order being edited, or of a request that a reload restored.            *)
(***************************************************************************)
EXTENDS Integers, SequencesExt

CONSTANTS
  Products,
  NoProduct, \* "Choose product"
  MaxLines   \* bound: lines of a form

ASSUME LineEditorAssumption == NoProduct \notin Products /\ MaxLines \in Nat \ {0}

VARIABLES
  editor,  \* "order", "receipt" or "adjustment"
  selling, \* products that are active on the server
  ordered, \* products of the order being edited, as fetched
  loaded,  \* what the query of each of these has answered
  results, \* products on the page of search results
  chosen,  \* products remembered
  lines    \* lines of the form, and whether each was picked from the search

lineVars == <<editor, selling, ordered, loaded, results, chosen, lines>>

Line(p, picked) == [product |-> p, picked |-> picked]
EmptyForm == <<Line(NoProduct, FALSE)>>
NotAsked  == [p \in Products |-> "no"]

\* Lines that a form can start with: products that differ, none of them picked here.
StartLines ==
  {[i \in DOMAIN s |-> Line(s[i], FALSE)] :
     s \in {t \in UNION {[1 .. n -> Products] : n \in 1 .. IF editor = "adjustment" THEN 1 ELSE MaxLines} :
              IsInjective(t)}}
ProductsOf(form) == {form[i].product : i \in DOMAIN form}

LineInit ==
  /\ editor \in {"order", "receipt", "adjustment"}
  /\ selling = Products /\ ordered = {} /\ loaded = NotAsked
  /\ results = {} /\ chosen = {} /\ lines = EmptyForm

-----------------------------------------------------------------------------
(* Options of the select of a line.                                          *)

\* Search results and chosen products; both were active when they were fetched.
Items == results \cup chosen

\* An order's own products are looked up one by one, and override the search.
LookedUp(p)    == p \in ordered /\ loaded[p] \in {"active", "inactive"}
KnownActive(p) == IF LookedUp(p) THEN loaded[p] = "active" ELSE p \in Items

AvailableLineProducts(i) ==
  {p \in Products : KnownActive(p) /\ \A j \in DOMAIN lines \ {i} : lines[j].product # p}

OwnProduct(i)        == {lines[i].product} \ {NoProduct}
OrderChoices(i)      == AvailableLineProducts(i) \cup {p \in OwnProduct(i) : loaded[p] = "inactive"}
ReceiptChoices(i)    == AvailableLineProducts(i) \cup OwnProduct(i)
AdjustmentChoices(i) == Items \cup OwnProduct(i)
Options(i) ==
  CASE editor = "order"      -> OrderChoices(i)
    [] editor = "receipt"    -> ReceiptChoices(i)
    [] editor = "adjustment" -> AdjustmentChoices(i)

-----------------------------------------------------------------------------
(* The user.                                                                *)

\* Another search or page; there are no results while it loads.
SearchFor(page) ==
  /\ page \subseteq selling /\ results' = page
  /\ UNCHANGED <<editor, selling, ordered, loaded, chosen, lines>>

RememberNothing(p) == UNCHANGED chosen
Remember(p) == chosen' = chosen \cup ({p} \cap Items)

EditDataLoading == \E p \in ordered : loaded[p] = "no"

Pick(i, p) ==
  /\ ~EditDataLoading /\ p # lines[i].product
  /\ p \in Options(i) \cup {NoProduct}
  /\ lines' = [lines EXCEPT ![i] = Line(p, p \in Items)]
  /\ Remember(p)
  /\ UNCHANGED <<editor, selling, ordered, loaded, results>>

AddLine ==
  /\ editor # "adjustment" /\ ~EditDataLoading /\ Len(lines) < MaxLines
  /\ lines' = Append(lines, Line(NoProduct, FALSE))
  /\ UNCHANGED <<editor, selling, ordered, loaded, results, chosen>>
RemoveLine(i) ==
  /\ ~EditDataLoading /\ Len(lines) > 1
  /\ lines' = RemoveAt(lines, i)
  /\ UNCHANGED <<editor, selling, ordered, loaded, results, chosen>>

-----------------------------------------------------------------------------
(* The form starts again.                                                    *)

EmptyLines ==
  /\ lines # EmptyForm /\ lines' = EmptyForm /\ ordered' = {} /\ loaded' = NotAsked
  /\ UNCHANGED <<editor, selling, results, chosen>>
ValuesFromOrder(form) ==
  /\ editor = "order" /\ lines' = form /\ ordered' = ProductsOf(form) /\ loaded' = NotAsked
  /\ UNCHANGED <<editor, selling, results, chosen>>
\* After a reload, with the request that was pending.
RestoreLines(form) ==
  /\ lines' = form /\ ordered' = {} /\ loaded' = NotAsked /\ results' = {} /\ chosen' = {}
  /\ UNCHANGED <<editor, selling>>

-----------------------------------------------------------------------------
(* Meanwhile.                                                               *)

\* The lookup of an order's product; one that fails can be repeated.
ProductLoaded(p) ==
  /\ p \in ordered
  /\ \E answer \in {"failed", IF p \in selling THEN "active" ELSE "inactive"} :
       loaded' = [loaded EXCEPT ![p] = answer]
  /\ UNCHANGED <<editor, selling, ordered, results, chosen, lines>>

\* The order is fetched again after a conflict.  The form keeps its lines, and only
\* the products the order has now are looked up.
LatestOrder(form) ==
  /\ editor = "order" /\ ordered # {}
  /\ ordered' = ProductsOf(form)
  /\ loaded' = [p \in Products |-> IF p \in ordered \cap ordered' THEN loaded[p] ELSE "no"]
  /\ UNCHANGED <<editor, selling, results, chosen, lines>>

SetActive(p) ==
  /\ selling' = IF p \in selling THEN selling \ {p} ELSE selling \cup {p}
  /\ UNCHANGED <<editor, ordered, loaded, results, chosen, lines>>

LineNext ==
  \/ \E page \in SUBSET Products : SearchFor(page)
  \/ \E i \in DOMAIN lines, p \in Products \cup {NoProduct} : Pick(i, p)
  \/ AddLine \/ EmptyLines
  \/ \E i \in DOMAIN lines : RemoveLine(i)
  \/ \E form \in StartLines : ValuesFromOrder(form) \/ RestoreLines(form) \/ LatestOrder(form)
  \/ \E p \in Products : ProductLoaded(p) \/ SetActive(p)

LineSpec == LineInit /\ [][LineNext]_lineVars

-----------------------------------------------------------------------------
(* Properties.                                                              *)

\* Of an order, products that were neither picked here nor looked up are excepted:
\* a restored draft's, and those of an earlier version of the order.
ShownAsHeld ==
  \A i \in DOMAIN lines :
    (editor = "order" => lines[i].picked \/ LookedUp(lines[i].product))
      => OwnProduct(i) \subseteq Options(i)
OneLineEach ==
  \A i, j \in DOMAIN lines : i # j => OwnProduct(i) \cap OwnProduct(j) = {}

\* The select of a line offers the product the line holds, so that it shows what will
\* be sent, whatever has been searched for, activated, deactivated or looked up since;
\* and no product can get on two lines.
LinesAgree == ShownAsHeld /\ OneLineEach
=============================================================================
