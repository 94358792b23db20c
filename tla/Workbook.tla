------------------------------ MODULE Workbook ------------------------------
(***************************************************************************)
(* A workbook as a source of truth (sources/excel.py, sources/workbook.py  *)
(* and sources/discovery.py).  Its rows are read one after the other into  *)
(* records with a field for each name of the header; two columns may have  *)
(* headers that mean the same field.  A manager uploads it, and its        *)
(* suppliers and orders become the tables of a process; or brings it to a  *)
(* conversation, whose plan maps columns to the table it proposes.         *)
(*                                                                         *)
(* Cells are data: what they show, whether a formula shows it, and whether *)
(* it is an error of the spreadsheet, which a formula may show too.        *)
(***************************************************************************)
EXTENDS Naturals, Sequences, FiniteSets

CONSTANTS
    Sheets,      \* the header of each, as fields, and whether its title is a policy's
    Books,       \* the rows below the headers, in order: a sheet and its cells
    Mappings,    \* what a plan may propose: a sheet, a range of rows, a column per field
    Legible,     \* what the parser of each field accepts
    MaxCells,    \* max_excel_cells
    None

Wide(s) == DOMAIN Sheets[s].header

WorkbookAssumption ==
    /\ \A s \in DOMAIN Sheets : Wide(s) \subseteq Nat
    /\ \A b \in Books : /\ b \in Seq({b[i] : i \in DOMAIN b})
                         /\ \A i \in DOMAIN b : /\ b[i].sheet \in DOMAIN Sheets
                                               /\ DOMAIN b[i].cells = Wide(b[i].sheet)
    /\ \A m \in Mappings : \A f \in DOMAIN m.columns : m.columns[f] \in Wide(m.sheet)
    /\ MaxCells \in Nat

VARIABLES
    book,
    scanned,    \* how many of its rows
    records,    \* by row: role and fields
    seen,       \* the first row of each identity: role, identity, row
    warnings,   \* of formulas, of fields and of rows that repeat others
    phase,      \* "scan", then "read" or "refused"
    tables      \* what was made of it: each row with where it was read, None before

bookVars == <<book, scanned, records, seen, warnings, phase, tables>>

-----------------------------------------------------------------------------
(***************************************************************************)
(* From cells to fields                                                    *)
(***************************************************************************)

Names(s) == {Sheets[s].header[c] : c \in Wide(s)} \ {None}

\* Which table a sheet is, from the fields its header names.
Role(s) ==
    IF Sheets[s].policy THEN "payment_policy"
    ELSE IF {"ledger_entry_id", "purchase_order_ref"} \subseteq Names(s) THEN "ledger"
    ELSE IF {"purchase_order_ref", "expected_gross_amount"} \subseteq Names(s) THEN "purchase_orders"
    ELSE IF {"supplier_tax_id", "authorized_iban"} \subseteq Names(s) THEN "suppliers"
    ELSE "unstructured"

\* A cell without content, or a formula that was never evaluated, is missing.  What the
\* parser refuses has no value, nor has a cell that is an error; but that a formula shows
\* one is not noticed, and its name is the text of the field if its parser takes any.
Field(name, cell) ==
    IF cell = None THEN [status |-> "MISSING", value |-> None]
    ELSE IF cell.shows = None THEN [status |-> "MISSING", value |-> None]
    ELSE LET wrong == (cell.error /\ ~cell.formula) \/ cell.shows \notin Legible[name]
             v == IF wrong THEN None ELSE cell.shows
         IN
         [status |-> IF cell.formula THEN "UNVERIFIED" ELSE IF v = None THEN "INVALID" ELSE "OBSERVED",
          value |-> v]

\* The columns of one field that hold something in a row, and the leftmost of some columns.
Populated(row, name) ==
    {c \in Wide(row.sheet) : /\ Sheets[row.sheet].header[c] = name
                             /\ Field(name, row.cells[c]).status # "MISSING"}

Leftmost(columns) == CHOOSE c \in columns : \A d \in columns : c <= d

\* Mutant: the first column with something in it has the value.
FlattenedFirst(row, name) ==
    LET found == Populated(row, name) IN
    IF found = {} THEN [status |-> "MISSING", value |-> None]
    ELSE Field(name, row.cells[Leftmost(found)])

\* Columns of one field that disagree leave it without a value.
Flattened(row, name) ==
    LET found == Populated(row, name) IN
    IF found = {} THEN [status |-> "MISSING", value |-> None]
    ELSE IF \E c, d \in found : Field(name, row.cells[c]).value # Field(name, row.cells[d]).value
         THEN [status |-> "AMBIGUOUS", value |-> None]
    ELSE Field(name, row.cells[Leftmost(found)])

Fields(row) == [name \in Names(row.sheet) |-> Flattened(row, name)]

ValueOf(fields, name) == IF name \in DOMAIN fields THEN fields[name].value ELSE None

Primary(role) ==
    CASE role = "purchase_orders" -> "purchase_order_ref"
      [] role = "ledger" -> "ledger_entry_id"
      [] OTHER -> "supplier_ref"

\* What a row is about: its own reference, or else the supplier's tax number.
Identity(role, fields) ==
    LET own == ValueOf(fields, Primary(role)) IN
    IF own # None THEN own ELSE ValueOf(fields, "supplier_tax_id")

Signature(fields) == [name \in DOMAIN fields |-> fields[name].value]

\* A row with the identity of an earlier one repeats it, or contradicts it.
Repeats(role, fields) ==
    {[code |-> IF Signature(records[s.row].fields) = Signature(fields)
               THEN "DUPLICATE_IDENTICAL" ELSE "DUPLICATE_CONFLICT",
      role |-> role, about |-> s.identity]
         : s \in {t \in seen : t.role = role /\ t.identity = Identity(role, fields)}}

Doubts(role, fields) ==
    {[code |-> fields[n].status, role |-> role, about |-> n] :
         n \in {m \in DOMAIN fields : fields[m].status # "OBSERVED"}}

\* Each formula is reported, in whatever table it stands.
Formula(code, i, c) == [code |-> code, at |-> <<i, c>>]
Formulas(i) ==
    LET cells == book[i].cells IN
    {Formula(IF cells[c].shows = None THEN "FORMULA_UNEVALUATED" ELSE "FORMULA_CACHED_VALUE", i, c) :
         c \in {d \in Wide(book[i].sheet) : cells[d] # None /\ cells[d].formula}}

-----------------------------------------------------------------------------
(***************************************************************************)
(* Reading                                                                 *)
(***************************************************************************)

Init ==
    /\ book \in Books
    /\ scanned = 0 /\ records = <<>> /\ seen = {} /\ warnings = {}
    /\ phase = "scan" /\ tables = None

\* The cells of the first n rows, each as wide as its last cell.
CellsUpTo(n) ==
    LET width(cells) == Cardinality({c \in DOMAIN cells : \E d \in DOMAIN cells : d >= c /\ cells[d] # None})
        f[i \in 0 .. n] == IF i = 0 THEN 0 ELSE f[i - 1] + width(book[i].cells)
    IN  f[n]

\* One more row of a sheet with a header: a record, and what is to be said of it.
ReadRow ==
    /\ phase = "scan" /\ scanned < Len(book) /\ CellsUpTo(scanned + 1) <= MaxCells
    /\ LET row == book[scanned + 1]
           role == Role(row.sheet)
           fields == Fields(row)
           identity == Identity(role, fields)
       IN  IF role = "unstructured"
           THEN /\ records' = Append(records, [role |-> role, fields |-> <<>>])
                /\ warnings' = warnings \union Formulas(scanned + 1)
                /\ UNCHANGED seen
           ELSE /\ records' = Append(records, [role |-> role, fields |-> fields])
                /\ warnings' = warnings \union Formulas(scanned + 1)
                                 \union Repeats(role, fields) \union Doubts(role, fields)
                /\ seen' = IF identity = None \/ \E t \in seen : t.role = role /\ t.identity = identity
                           THEN seen
                           ELSE seen \union {[role |-> role, identity |-> identity, row |-> scanned + 1]}
    /\ scanned' = scanned + 1
    /\ UNCHANGED <<book, phase, tables>>

TooLarge ==
    /\ phase = "scan" /\ scanned < Len(book) /\ CellsUpTo(scanned + 1) > MaxCells
    /\ phase' = "refused"
    /\ UNCHANGED <<book, scanned, records, seen, warnings, tables>>

Finish ==
    /\ phase = "scan" /\ scanned = Len(book)
    /\ phase' = "read"
    /\ UNCHANGED <<book, scanned, records, seen, warnings, tables>>

-----------------------------------------------------------------------------
(***************************************************************************)
(* The upload of a process                                                 *)
(***************************************************************************)

TableOf == [suppliers |-> "suppliers", orders |-> "purchase_orders"]

RowsOf(name) == {i \in DOMAIN records : records[i].role = TableOf[name]}

Complete(name, fields) ==
    LET has(f) == ValueOf(fields, f) # None IN
    IF name = "suppliers" THEN has("supplier_ref") /\ has("supplier_tax_id") /\ has("authorized_iban")
    ELSE /\ has("purchase_order_ref") /\ has("expected_gross_amount") /\ has("state")
         /\ has("supplier_ref") \/ has("supplier_tax_id")

\* All the rows or none: one that is incomplete, and no table is loaded.
Loadable ==
    \A name \in DOMAIN TableOf :
        RowsOf(name) # {} /\ \A i \in RowsOf(name) : Complete(name, records[i].fields)

Load ==
    /\ phase = "read" /\ tables = None /\ Loadable
    /\ tables' = [name \in DOMAIN TableOf |->
                     {[at |-> i, values |-> Signature(records[i].fields)] : i \in RowsOf(name)}]
    /\ UNCHANGED <<book, scanned, records, seen, warnings, phase>>

-----------------------------------------------------------------------------
(***************************************************************************)
(* The plan of a conversation                                              *)
(***************************************************************************)

Mapped(m) == {i \in DOMAIN book : book[i].sheet = m.sheet /\ i \in m.first .. m.last}

\* What a mapping takes from a row.  Nothing is parsed.
Taken(m, i) ==
    [f \in DOMAIN m.columns |->
        LET cell == book[i].cells[m.columns[f]] IN IF cell = None THEN None ELSE cell.shows]

Unverified(m, i) ==
    \E f \in DOMAIN m.columns :
        LET cell == book[i].cells[m.columns[f]] IN
        IF cell = None THEN FALSE ELSE cell.formula \/ cell.error

\* materialize: refused for one formula or error among the mapped cells, or no data.
Materialize(m) ==
    /\ phase = "read" /\ tables = None
    /\ \A i \in Mapped(m) : ~Unverified(m, i)
    /\ LET rows == {[at |-> i, values |-> Taken(m, i)] :
                       i \in {j \in Mapped(m) : \E f \in DOMAIN m.columns : Taken(m, j)[f] # None}}
       IN  rows # {} /\ tables' = [proposed |-> rows]
    /\ UNCHANGED <<book, scanned, records, seen, warnings, phase>>

Next ==
    \/ ReadRow \/ TooLarge \/ Finish
    \/ Load
    \/ \E m \in Mappings : Materialize(m)

-----------------------------------------------------------------------------
(***************************************************************************)
(* Properties                                                              *)
(***************************************************************************)

\* The cells of a row in the columns of a field that show something.
Shown(i, name) ==
    {c \in Wide(book[i].sheet) :
        /\ Sheets[book[i].sheet].header[c] = name
        /\ book[i].cells[c] # None /\ book[i].cells[c].shows # None}

\* The cell shows the value and is no error; or it is a formula, and reported as one.
Backs(i, c, v) ==
    LET cell == book[i].cells[c] IN
    /\ cell.shows = v
    /\ IF cell.formula THEN Formula("FORMULA_CACHED_VALUE", i, c) \in warnings ELSE ~cell.error

\* An uploaded value is the one that every column of its field shows, none of them an
\* error but what a formula shows, which is never taken unreported; and two rows about the
\* same thing that differ have been reported.  What a plan takes from a workbook is no
\* formula and no error ("Formula cells cannot silently become authoritative source
\* values", docs/process-discovery.md:35).
TablesAreUndisputed ==
    tables # None =>
        IF "proposed" \in DOMAIN tables
        THEN \A r \in tables["proposed"] : \A f \in DOMAIN r.values :
                r.values[f] # None =>
                    \E c \in DOMAIN book[r.at].cells :
                        LET cell == book[r.at].cells[c] IN
                        cell # None /\ cell.shows = r.values[f] /\ ~cell.formula /\ ~cell.error
        ELSE \A name \in DOMAIN tables :
                /\ \A r \in tables[name] : \A f \in DOMAIN r.values :
                      r.values[f] # None => \A c \in Shown(r.at, f) : Backs(r.at, c, r.values[f])
                /\ \A r, q \in tables[name] :
                      LET id(x) == Identity(TableOf[name], records[x.at].fields) IN
                      id(r) = id(q) /\ r.values # q.values =>
                          [code |-> "DUPLICATE_CONFLICT", role |-> TableOf[name], about |-> id(r)]
                              \in warnings

\* The same of the upload.  Not so: workbook_sources takes the value that a formula showed
\* last, and only warns; and should that be an error, its name becomes a reference or a
\* state like any other.
FormulasAreNotFacts ==
    tables # None =>
        \A name \in DOMAIN tables : \A r \in tables[name] : \A f \in DOMAIN r.values :
            r.values[f] # None =>
                \A c \in Shown(r.at, f) : ~book[r.at].cells[c].formula

ErrorsAreNotFacts ==
    tables # None =>
        \A name \in DOMAIN tables : \A r \in tables[name] : \A f \in DOMAIN r.values :
            r.values[f] # None =>
                \A c \in Shown(r.at, f) : ~book[r.at].cells[c].error
=============================================================================
