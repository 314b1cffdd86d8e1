------------------------------ MODULE ProductCsv ------------------------------
(***************************************************************************)
(* The CSV files of the catalog.  Products are exported, the file is kept as it *)
(* is or saved again by a spreadsheet, perhaps cut short, and then read,         *)
(* checked and previewed by a workspace that has some of the products already.   *)
(*                                                                         *)
(* A text is a sequence of symbols: the characters that the parser tells apart,  *)
(* "w" for all others, and a whole word for a column's title.                    *)
(***************************************************************************)
EXTENDS Integers, SequencesExt

CONSTANTS
  Catalogs,   \* the lists of products that are exported
  Workspaces, \* the sets of SKUs of the workspaces that read a file
  MaxRows     \* rows of a file, 5000

VARIABLES
  exported,  \* the products of the file
  existing,  \* SKUs of the workspace that reads it
  normalized,   \* the text, after the line ends have been normalized
  cut,       \* history: the file has been cut short
  csvPc,
  index, quoted, cell, row, records, \* of parseCsv
  validRows, errors                  \* of the preview, by row number

loop    == <<index, quoted, cell, row, records>>
csvVars == <<exported, existing, normalized, cut, csvPc, loop, validRows, errors>>

Comma   == ","
Quote   == "\""
NewLine == "\n"
Return  == "\r"
ReturnNewLine == "\r\n"
Blanks  == {" ", NewLine}
Symbols == {"w", Comma, Quote, " ", NewLine}

\* Names and descriptions are stored trimmed.
Trim(text) ==
  LET inner == {i \in DOMAIN text : text[i] \notin Blanks}
  IN  IF inner = {} THEN <<>> ELSE SubSeq(text, Min(inner), Max(inner))
Stored ==
  {product \in [sku : Seq({"w"}) \ {<<>>}, name : Seq(Symbols) \ {<<>>}, description : Seq(Symbols)] :
     Trim(product.name) = product.name /\ Trim(product.description) = product.description}

ASSUME CsvAssumption == MaxRows \in Nat /\ Catalogs \subseteq Seq(Stored)

-----------------------------------------------------------------------------
(* Writing.                                                                 *)

Quoted(text) ==
  <<Quote>> \o FlattenSeq([i \in DOMAIN text |-> IF text[i] = Quote THEN <<Quote, Quote>> ELSE <<text[i]>>])
            \o <<Quote>>
csvCellOneLine(text) == IF ToSet(text) \cap {Comma, Quote} = {} THEN text ELSE Quoted(text)
csvCell(text) == IF ToSet(text) \cap {Comma, Quote, NewLine} = {} THEN text ELSE Quoted(text)

Join(texts, separator) ==
  FlattenSeq([i \in DOMAIN texts |-> IF i = 1 THEN texts[i] ELSE separator \o texts[i]])

\* Prices and reorder points are words, and so is what the parser does not look at.
Cells(product) == <<product.sku, product.name, <<"w">>, <<"w">>, product.description, <<"w">>>>
Titles(price) ==
  <<<<"sku">>, <<"name">>, <<price>>, <<"reorder_point">>, <<"description">>, <<"is_active">>>>

Table(price, products) == <<Titles(price)>> \o [i \in DOMAIN products |-> Cells(products[i])]

Text(lines, separator) == Join([r \in DOMAIN lines |-> Join(lines[r], <<Comma>>)], <<separator>>)

exportProductsCsv(products) ==
  LET table == Table("sale_price", products)
  IN  Text([r \in DOMAIN table |-> [c \in DOMAIN table[r] |-> csvCell(table[r][c])]], NewLine)

\* A spreadsheet may quote every cell, end lines its own way and leave a blank one,
\* and people rename a column.
Spreadsheet(products) ==
  LET table == Table("Sale Price", products)
      lines == [r \in DOMAIN table |-> [c \in DOMAIN table[r] |-> Quoted(table[r][c])]]
  IN  Text(Append(lines, <<<<" ">>>>), ReturnNewLine) \o <<ReturnNewLine>>

-----------------------------------------------------------------------------
\* /\r\n?/g -> '\n'
Normalized(text) == [i \in DOMAIN text |-> IF text[i] \in {Return, ReturnNewLine} THEN NewLine ELSE text[i]]

CsvStart(products, text, skus) ==
  /\ exported = products /\ normalized = text /\ existing = skus
  /\ cut = FALSE /\ csvPc = "parsing"
  /\ index = 1 /\ quoted = FALSE /\ cell = <<>> /\ row = <<>> /\ records = <<>>
  /\ validRows = <<>> /\ errors = {}
CsvInit ==
  \E products \in Catalogs, skus \in Workspaces :
    \E text \in {exportProductsCsv(products), Spreadsheet(products)} :
      CsvStart(products, Normalized(text), skus)

-----------------------------------------------------------------------------
(* parseCsv, character by character.                                         *)

At(i) == IF i \in DOMAIN normalized THEN normalized[i] ELSE "end"
Parses == csvPc = "parsing" /\ UNCHANGED <<exported, existing, normalized, cut, csvPc, validRows, errors>>

EscapedQuote ==
  /\ Parses /\ quoted /\ At(index) = Quote /\ At(index + 1) = Quote
  /\ cell' = Append(cell, Quote) /\ index' = index + 2 /\ UNCHANGED <<quoted, row, records>>
ClosingQuote ==
  /\ Parses /\ quoted /\ At(index) = Quote /\ At(index + 1) # Quote
  /\ quoted' = FALSE /\ index' = index + 1 /\ UNCHANGED <<cell, row, records>>
OpeningQuote ==
  /\ Parses /\ ~quoted /\ At(index) = Quote /\ cell = <<>>
  /\ quoted' = TRUE /\ index' = index + 1 /\ UNCHANGED <<cell, row, records>>
EndOfCell ==
  /\ Parses /\ ~quoted /\ At(index) = Comma
  /\ row' = Append(row, cell) /\ cell' = <<>> /\ index' = index + 1 /\ UNCHANGED <<quoted, records>>
EndOfRow ==
  /\ Parses /\ ~quoted /\ At(index) = NewLine
  /\ records' = Append(records, Append(row, cell)) /\ row' = <<>> /\ cell' = <<>>
  /\ index' = index + 1 /\ UNCHANGED quoted
Character ==
  /\ Parses /\ index \in DOMAIN normalized
  /\ \/ quoted /\ At(index) # Quote
     \/ ~quoted /\ At(index) \notin {Comma, NewLine} /\ (At(index) = Quote => cell # <<>>)
  /\ cell' = Append(cell, At(index)) /\ index' = index + 1 /\ UNCHANGED <<quoted, row, records>>

\* The file ends before the next character or after it.
CutShort ==
  /\ csvPc = "parsing" /\ ~cut /\ cut' = TRUE
  /\ \E end \in {index - 1, index} \cap 0 .. Len(normalized) - 1 : normalized' = SubSeq(normalized, 1, end)
  /\ UNCHANGED <<exported, existing, csvPc, loop, validRows, errors>>

EndOfFile ==
  /\ csvPc = "parsing" /\ index > Len(normalized)
  /\ csvPc' = IF quoted THEN "refused" ELSE "parsed"
  /\ records' = IF quoted \/ (cell = <<>> /\ row = <<>>) THEN records
                ELSE Append(records, Append(row, cell))
  /\ UNCHANGED <<exported, existing, normalized, cut, index, quoted, cell, row, validRows, errors>>

-----------------------------------------------------------------------------
(* parseProductCsv and preview.                                              *)

normalizeHeader(title) == IF title = <<"Sale Price">> THEN <<"sale_price">> ELSE title
REQUIRED_HEADERS == {<<"sku">>, <<"name">>, <<"sale_price">>, <<"reorder_point">>}

headers == [c \in DOMAIN records[1] |-> normalizeHeader(Trim(records[1][c]))]

\* Rows are numbered without the blank ones.
filled == {i \in 2 .. Len(records) : \E value \in ToSet(records[i]) : Trim(value) # <<>>}
dataRecords ==
  [n \in 1 .. Cardinality(filled) |->
     records[CHOOSE i \in filled : Cardinality({j \in filled : j <= i}) = n]]

Raw(record, title) ==
  LET columns == {c \in DOMAIN headers \cap DOMAIN record : headers[c] = <<title>>}
  IN  IF columns = {} THEN <<>> ELSE Trim(record[Max(columns)])
Product(record) ==
  [sku |-> Raw(record, "sku"), name |-> Raw(record, "name"), description |-> Raw(record, "description")]

\* ProductInputSchema, as far as the symbols go.
Parsed(record) ==
  /\ Len(record) <= Len(headers)
  /\ Raw(record, "sku") # <<>> /\ ToSet(Raw(record, "sku")) = {"w"}
  /\ Raw(record, "name") # <<>>
  /\ Raw(record, "sale_price") = <<"w">> /\ Raw(record, "reorder_point") = <<"w">>

Refuse ==
  /\ csvPc = "parsed"
  /\ \/ records = <<>>
     \/ records # <<>> /\ ~(REQUIRED_HEADERS \subseteq ToSet(headers))
     \/ records # <<>> /\ Len(dataRecords) > MaxRows
  /\ csvPc' = "refused"
  /\ UNCHANGED <<exported, existing, normalized, cut, loop, validRows, errors>>

\* A SKU that the workspace has, or that an earlier row has, is an error.
IsNew(i) ==
  /\ Product(dataRecords[i]).sku \notin existing
  /\ \A j \in 1 .. i - 1 :
       Parsed(dataRecords[j]) => Product(dataRecords[j]).sku # Product(dataRecords[i]).sku
Accepted == {i \in DOMAIN dataRecords : Parsed(dataRecords[i]) /\ IsNew(i)}

Preview ==
  /\ csvPc = "parsed" /\ records # <<>>
  /\ REQUIRED_HEADERS \subseteq ToSet(headers) /\ Len(dataRecords) <= MaxRows
  /\ csvPc' = "previewed"
  /\ validRows' = [n \in {i + 1 : i \in Accepted} |-> Product(dataRecords[n - 1])]
  /\ errors' = {i + 1 : i \in DOMAIN dataRecords \ Accepted}
  /\ UNCHANGED <<exported, existing, normalized, cut, loop>>

CsvNext ==
  \/ EscapedQuote \/ ClosingQuote \/ OpeningQuote \/ EndOfCell \/ EndOfRow \/ Character
  \/ CutShort \/ EndOfFile \/ Refuse \/ Preview

CsvSpec == CsvInit /\ [][CsvNext]_csvVars

-----------------------------------------------------------------------------
(* Properties.                                                              *)

Missing ==
  {i \in DOMAIN exported :
     exported[i].sku \notin existing /\ \A j \in 1 .. i - 1 : exported[j].sku # exported[i].sku}
Expected == [n \in {i + 1 : i \in Missing} |-> exported[n - 1]]

\* What a file brings into a workspace are the products that were exported and that it
\* does not have, whatever is in their names and descriptions and however the file has
\* been saved since, and the errors are at the other rows.  Of a file that was cut
\* short all rows but the last are still right; and no other file within the limit is
\* refused (csvCell against parseCsv and preview).
ProductsComeBack ==
  /\ csvPc = "previewed" /\ ~cut =>
       validRows = Expected /\ errors = {i + 1 : i \in DOMAIN exported \ Missing}
  /\ csvPc = "previewed" /\ cut =>
       LET rows == DOMAIN validRows \cup errors
       IN  /\ rows \subseteq 2 .. Len(exported) + 1
           /\ \A n \in rows : (\E m \in rows : m > n) =>
                /\ n \in DOMAIN validRows <=> n \in DOMAIN Expected
                /\ n \in DOMAIN validRows => validRows[n] = Expected[n]
  /\ csvPc = "refused" => cut \/ Len(exported) > MaxRows
=============================================================================
