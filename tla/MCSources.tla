----------------------------- MODULE MCSources -----------------------------
(***************************************************************************)
(* The sources of truth from four sides.  A behaviour is about the tables  *)
(* - the ERP, a source that runs do not sync, a workbook and three         *)
(* requests -; about one download, whose steps the tables do not see;      *)
(* about the alerts that follow a load: two decided cases, one of which    *)
(* depends on the rules alone and one on the rows and the rules; or about  *)
(* how a workbook with suppliers and orders is read.                       *)
(***************************************************************************)
EXTENDS Sources, TLC

CONSTANTS r1, r2, r3
MCRequests == {r1, r2, r3}

CONSTANTS Keys, PageSize, MaxAttempts, MaxUses, Margin, Grants, Status, MaxChanges
MCKeys == 1 .. 5
MCGrants == {1, 2, 4}

\* The module Alerts shares names with Sources, and no state.
CONSTANTS Cases, Outcomes, Default, Rows, Verdicts, q1, q2, Detectors,
          MaxVersions, MaxLoads, MaxDecisions
MCDetectors == {q1, q2}
MCOutcomes == {"pay", "hold", "ask"}
MCRows == {"owed", "paid"}
MCVerdicts == [
    ruled |-> [rows \in MCRows |-> <<"pay", "hold", "ask">>],
    owing |-> [owed |-> <<"pay", "hold", "pay">>, paid |-> <<"hold", "hold", "ask">>]]

CONSTANTS Sheets, Workbooks, Mappings, Legible, MaxCells

\* One supplier, two orders, and two columns for the amount of an order.
MCSheets ==
    [suppliers |-> [policy |-> FALSE,
                    header |-> <<"supplier_ref", "supplier_tax_id", "authorized_iban">>],
     orders |-> [policy |-> FALSE,
                 header |-> <<"purchase_order_ref", "expected_gross_amount", "expected_gross_amount",
                              "state", "supplier_ref">>]]

\* References and states are any text.
MCLegible == [supplier_ref |-> {"s", "#N/A"}, supplier_tax_id |-> {"t"}, authorized_iban |-> {"i"},
              purchase_order_ref |-> {"a", "b", "#N/A"}, expected_gross_amount |-> {"1", "2"},
              state |-> {"open", "#N/A"}]

Cell(v) == [shows |-> v, formula |-> FALSE, error |-> FALSE]
Formula(v) == [Cell(v) EXCEPT !.formula = TRUE]
Failed == [Cell("#N/A") EXCEPT !.error = TRUE]
FailedFormula == [Failed EXCEPT !.formula = TRUE]

MCSuppliers ==
    {[sheet |-> "suppliers", cells |-> <<Cell("s"), Cell("t"), iban>>] :
        iban \in {None, Cell("i"), Cell("?"), Formula("i")}}

MCOrders ==
    {[sheet |-> "orders", cells |-> <<ref, amount, second, Cell("open"), supplier>>] :
        ref \in {None, Cell("a"), Cell("b")},
        amount \in {Cell("1"), Formula("1"), Formula(None), Failed},
        second \in {None, Cell("1"), Cell("2")},
        supplier \in {Cell("s"), FailedFormula}}

\* Three rows, or four with two suppliers, which are too large with two full orders.
MCWorkbooks ==
    {<<s, q, r>> : s \in MCSuppliers, q \in MCOrders, r \in MCOrders}
    \union {<<s, t, q, q>> : s \in MCSuppliers, t \in MCSuppliers, q \in MCOrders}

MCMappings ==
    {[sheet |-> "orders", first |-> i, last |-> j,
      columns |-> [ref |-> 1, total |-> c]] : i \in {2, 3}, j \in {2, 3}, c \in {2, 3}}

Symmetry == Permutations(MCRequests) \union Permutations(MCDetectors)

VARIABLES
    part,
    version, landed, history, alerts, detection, lost,
    source, granted, revoked, at, attempt, waiting, page, first, rows, uses,
    lasting, kinds, changes,
    book, scanned, records, seen, warnings, phase, tables

Fetch == INSTANCE Connector

fetch == <<source, granted, revoked, at, attempt, waiting, page, first, rows, uses,
           lasting, kinds, changes>>

Stale == INSTANCE Alerts WITH loads <- landed, request <- detection, Requests <- Detectors

stale == <<version, landed, history, alerts, detection, lost>>

Excel == INSTANCE Workbook WITH Books <- Workbooks

excel == <<book, scanned, records, seen, warnings, phase, tables>>

ASSUME PartsAssumption ==
    Fetch!ConnectorAssumption /\ Stale!AlertsAssumption /\ Excel!WorkbookAssumption

NoFetch ==
    /\ source = None /\ granted = None /\ revoked = None /\ at = None /\ attempt = None
    /\ waiting = None /\ page = None /\ first = None /\ rows = None /\ uses = None
    /\ lasting = None /\ kinds = None /\ changes = None

NoAlerts ==
    /\ version = None /\ landed = None /\ history = None /\ alerts = None
    /\ detection = None /\ lost = None

NoWorkbook ==
    /\ book = None /\ scanned = None /\ records = None /\ seen = None
    /\ warnings = None /\ phase = None /\ tables = None

MCInit ==
    /\ Init
    /\ \/ part = "tables" /\ NoFetch /\ NoAlerts /\ NoWorkbook
       \/ part = "download" /\ Fetch!Init /\ NoAlerts /\ NoWorkbook
       \/ part = "alerts" /\ Stale!Init /\ NoFetch /\ NoWorkbook
       \/ part = "workbook" /\ Excel!Init /\ NoFetch /\ NoAlerts

MCNext ==
    \/ part = "tables" /\ Next /\ UNCHANGED <<part, fetch, stale, excel>>
    \/ part = "download" /\ Fetch!Next /\ UNCHANGED <<part, vars, stale, excel>>
    \/ part = "alerts" /\ Stale!Next /\ UNCHANGED <<part, vars, fetch, excel>>
    \/ part = "workbook" /\ Excel!Next /\ UNCHANGED <<part, vars, fetch, stale>>

MCSpec == MCInit /\ [][MCNext]_<<part, vars, fetch, stale, excel>>

\* A download of a source that only grew or only shrank is whole (Connector).
DownloadIsWhole == part = "download" => Fetch!DownloadIsWhole

\* Every decision that the change has overtaken is flagged (Alerts).
ChangesAreFlagged == part = "alerts" => Stale!ChangesAreFlagged

\* What is taken from a workbook is what its cells agree on (Workbook).
TablesAreUndisputed == part = "workbook" => Excel!TablesAreUndisputed
=============================================================================
