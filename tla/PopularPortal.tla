---------------------------- MODULE PopularPortal ----------------------------
(***************************************************************************)
(* What reads the portal of Banco Popular over CDP, once: a collection of  *)
(* movements (collect of src/worker/scraper/navigation/popular-cdp.ts from *)
(* its page on, and collectPopularPortalRows of navigation/popular.ts: the *)
(* warm-up on the dashboard, the pages of results, the settling of each),  *)
(* or the session monitor's check (modules/bank-sessions/index.ts).        *)
(*                                                                         *)
(* The portal acts on its own: it renders late, it redirects an expired    *)
(* session at once or only later, it lists movements that are posted       *)
(* meanwhile.  A listed movement stays listed.                             *)
(***************************************************************************)
EXTENDS Naturals, Sequences, FiniteSets, SequencesExt

CONSTANTS Movements,     \* what the portal may list in the window of the scrape
          ItemsPerPage,  \* itemsPerPage
          MaxPages       \* maxPages

ASSUME PortalAssumption ==
  IsFiniteSet(Movements) /\ {ItemsPerPage, MaxPages} \subseteq Nat \ {0}

VARIABLES session,   \* of the bank: "in", "out", or "down" for maintenance
          ledger,    \* what the portal lists, in its order
          tab,       \* the page the collection has opened
          pc,
          number,    \* pageNumber, 0 in the warm-up
          visible,   \* textVisible
          settle,    \* settleReadResultsTable
          rows,      \* allRows
          result,
          owed,      \* history: what was listed when the collection began
          early,     \* history: a reading was taken that did not show the page
          gone       \* history: the portal left the page before the result

vars == <<session, ledger, tab, pc, number, visible, settle, rows, result, owed,
          early, gone>>

Places == {"dashboard", "transactions", "login", "elsewhere"}
Tabs ==
  [at    : Places,
   shown : {"nothing", "frame", "rows"},   \* frame: the header, and no data yet
   rows  : Seq(Movements)]
\* settle: count is prevRowCount and snapshot latestSnapshot; a value that may be
\* null is the set of the value, empty for null.  clock is 1 from settleFloorMs on
\* and 2 from settleMaxMs on.  true, history: the snapshot shows the page.
Results == {"none", "expired", "needs_admin_action", "collected", "thrown",
            "active", "browser_unavailable"}

TypeOK ==
  /\ session \in {"in", "out", "down"}
  /\ ledger \in Seq(Movements) /\ tab \in Tabs
  /\ pc \in {"start", "dashboard", "producto", "account", "goto", "url", "header",
             "settle", "end", "check", "checkUrl", "checkText"}
  /\ number \in 0..MaxPages /\ visible \in BOOLEAN
  /\ DOMAIN settle = {"count", "snapshot", "clock", "true"}
  /\ settle.count \subseteq 0..ItemsPerPage /\ Cardinality(settle.snapshot) <= 1
  /\ settle.clock \in 0..2 /\ settle.true \in BOOLEAN
  /\ rows \subseteq Movements /\ result \in Results
  /\ owed \subseteq Movements /\ early \in BOOLEAN /\ gone \in BOOLEAN

Fresh == [count |-> {}, snapshot |-> {}, clock |-> 0, true |-> FALSE]

Init ==
  /\ session \in {"in", "out", "down"}
  /\ ledger \in {s \in SeqOf(Movements, Cardinality(Movements)) : IsInjective(s)}
  /\ tab = [at |-> "elsewhere", shown |-> "nothing", rows |-> <<>>]
  /\ pc \in {"start", "check"} /\ number = 0 /\ visible = FALSE /\ settle = Fresh
  /\ rows = {} /\ result = "none"
  /\ owed = {} /\ early = FALSE /\ gone = FALSE

-----------------------------------------------------------------------------
(* The portal.                                                             *)

PortalOnly == UNCHANGED <<pc, number, visible, settle, rows, result, owed, early>>

\* A new movement, first or last in the portal's order.
Post(m) ==
  /\ m \notin Range(ledger)
  /\ ledger' \in {<<m>> \o ledger, Append(ledger, m)}
  /\ UNCHANGED <<session, tab, gone>> /\ PortalOnly

\* The session ends, or maintenance begins.
Leave ==
  /\ session = "in" /\ session' \in {"out", "down"}
  /\ UNCHANGED <<ledger, tab, gone>> /\ PortalOnly

Refuge == IF session = "out" THEN "login" ELSE "elsewhere"

\* A page that asks for data without a session goes elsewhere.
Redirect ==
  /\ session # "in" /\ tab.at \in {"dashboard", "transactions"} /\ tab.shown # "rows"
  /\ tab' = [at |-> Refuge, shown |-> "nothing", rows |-> <<>>]
  /\ gone' = (gone \/ pc # "end")
  /\ UNCHANGED <<session, ledger>> /\ PortalOnly

\* The rows of a page, as the ledger is when the portal looks.
Listed(n) == SubSeq(ledger, (n - 1) * ItemsPerPage + 1,
                    IF n * ItemsPerPage <= Len(ledger) THEN n * ItemsPerPage ELSE Len(ledger))

\* The dashboard, the header of the results, their rows.
Render ==
  /\ session = "in" /\ tab.at \in {"dashboard", "transactions"} /\ tab.shown # "rows"
  /\ tab' = IF tab.at = "dashboard" THEN [tab EXCEPT !.shown = "rows"]
            ELSE IF tab.shown = "nothing" THEN [tab EXCEPT !.shown = "frame"]
            ELSE [tab EXCEPT !.shown = "rows", !.rows = Listed(number)]
  /\ UNCHANGED <<session, ledger, gone>> /\ PortalOnly

-----------------------------------------------------------------------------
(* The warm-up.                                                            *)

ReaderOnly == UNCHANGED <<session, ledger>>

\* page.goto: without a session the portal may answer with another page at once.
Open(path) ==
  LET places == {path} \cup (IF session = "in" THEN {} ELSE {Refuge}) IN
  \E at \in places :
    /\ tab' = [at |-> at, shown |-> "nothing", rows |-> <<>>]
    /\ gone' = (gone \/ at # path)

End(answer) == pc' = "end" /\ result' = answer
Here == UNCHANGED <<tab, gone>>

GotoDashboard ==
  /\ pc = "start" /\ pc' = "dashboard"
  /\ Open("dashboard")
  /\ owed' = Range(ledger)
  /\ UNCHANGED <<number, visible, settle, rows, result, early>> /\ ReaderOnly

\* currentUrl, once.
CheckDashboard ==
  /\ pc = "dashboard"
  /\ IF tab.at = "dashboard" THEN pc' = "producto" /\ UNCHANGED result ELSE End("expired")
  /\ UNCHANGED <<number, visible, settle, rows, owed, early>> /\ Here /\ ReaderOnly

\* A dashboard that did not render is not looked at again.
WaitProducto_Bug ==
  /\ pc = "producto"
  /\ IF tab.shown = "rows" THEN pc' = "account" /\ UNCHANGED result
                           ELSE End("needs_admin_action")
  /\ UNCHANGED <<number, visible, settle, rows, owed, early>> /\ Here /\ ReaderOnly

\* waitForVisibleText; when it has timed out, isPortalLoginPage tells an expired
\* session from a portal that does not render.
WaitProducto ==
  /\ pc = "producto"
  /\ IF tab.shown = "rows" THEN pc' = "account" /\ UNCHANGED result
     ELSE End(IF tab.at = "login" THEN "expired" ELSE "needs_admin_action")
  /\ UNCHANGED <<number, visible, settle, rows, owed, early>> /\ Here /\ ReaderOnly

\* openDashboardAccount, and the pause.
OpenDashboardAccount ==
  /\ pc = "account"
  /\ (pc' = "goto" /\ UNCHANGED result) \/ End("needs_admin_action")
  /\ UNCHANGED <<number, visible, settle, rows, owed, early>> /\ Here /\ ReaderOnly

-----------------------------------------------------------------------------
(* The monitor's check: checkPopularSessionHealth, over a page of its own.  *)

CheckOnly == UNCHANGED <<number, visible, settle, rows, owed, early>> /\ ReaderOnly

GotoHealth ==
  /\ pc = "check" /\ pc' = "checkUrl"
  /\ Open("dashboard")
  /\ UNCHANGED result /\ CheckOnly

HealthUrl ==
  /\ pc = "checkUrl"
  /\ IF tab.at = "dashboard" THEN pc' = "checkText" /\ UNCHANGED result ELSE End("expired")
  /\ Here /\ CheckOnly

\* A dashboard that does not render counts as an expired session too.
HealthText ==
  /\ pc = "checkText"
  /\ End(IF tab.shown = "rows" THEN "active" ELSE "expired")
  /\ Here /\ CheckOnly

\* Nobody to connect to, or a page that fails: the tick takes either for a browser
\* that is not there.
BrowserUnavailable ==
  /\ pc = "check" /\ End("browser_unavailable")
  /\ Here /\ CheckOnly

-----------------------------------------------------------------------------
(* A page of results.                                                      *)

GotoPage ==
  /\ pc = "goto" /\ pc' = "url"
  /\ number' = number + 1
  /\ Open("transactions")
  /\ UNCHANGED <<visible, settle, rows, result, owed, early>> /\ ReaderOnly

CheckUrl ==
  /\ pc = "url"
  /\ IF tab.at = "transactions" THEN pc' = "header" /\ UNCHANGED result
                                ELSE End("expired")
  /\ UNCHANGED <<number, visible, settle, rows, owed, early>> /\ Here /\ ReaderOnly

\* "Fecha posteo" is seen, or the wait times out.
WaitHeader ==
  /\ pc = "header" /\ pc' = "settle"
  /\ visible' = (tab.shown # "nothing")
  /\ settle' = Fresh
  /\ UNCHANGED <<number, rows, result, owed, early>> /\ Here /\ ReaderOnly

\* extractRowsFromSnapshot: the rows of the table, if there is one.
ExtractedRows(snapshot) == UNION {Range(table) : table \in snapshot}

Full(snapshot) == \E table \in snapshot : Len(table) = ItemsPerPage

\* The last page allowed ends the collection, full or not.
Take_Bug(snapshot) ==
  /\ rows' = rows \cup ExtractedRows(snapshot)
  /\ IF snapshot = {}
     THEN End(IF visible THEN "collected" ELSE "needs_admin_action")
     ELSE IF Full(snapshot) /\ number < MaxPages
     THEN pc' = "goto" /\ UNCHANGED result
     ELSE \E answer \in {"collected", "thrown"} : End(answer)

\* The page is read: the collection ends, or goes on with the next page.  A row
\* that parsePopularTransactionRows cannot read throws.
Take(snapshot) ==
  /\ rows' = rows \cup ExtractedRows(snapshot)
  /\ IF snapshot = {}
     THEN End(IF visible THEN "collected" ELSE "needs_admin_action")
     ELSE IF Full(snapshot) /\ number = MaxPages THEN End("needs_admin_action")
     ELSE IF Full(snapshot) THEN pc' = "goto" /\ UNCHANGED result
     ELSE \E answer \in {"collected", "thrown"} : End(answer)

Snapshot == IF tab.shown = "nothing" THEN {} ELSE {tab.rows}
RowCount == Len(tab.rows)

\* Two readings of the same number of rows are the page; two of none only after
\* settleFloorMs.  From settleMaxMs on any reading is.
Settled ==
  \/ RowCount \in settle.count /\ (RowCount > 0 \/ settle.clock > 0)
  \/ settle.clock = 2

ReadResultsTable ==
  /\ pc = "settle"
  /\ IF Settled
     THEN Take(Snapshot) /\ early' = (early \/ tab.shown # "rows") /\ UNCHANGED settle
     ELSE /\ settle' = [settle EXCEPT !.count = {RowCount}, !.snapshot = Snapshot,
                                      !.true = tab.shown = "rows"]
          /\ UNCHANGED <<pc, rows, result, early>>
  /\ UNCHANGED <<number, visible, owed>> /\ Here /\ ReaderOnly

\* The pause ends after settleMaxMs: the last reading is taken, not a new one.
SettleMax ==
  /\ pc = "settle" /\ settle.count # {} /\ settle.clock = 2
  /\ Take(settle.snapshot) /\ early' = (early \/ ~settle.true)
  /\ UNCHANGED <<number, visible, settle, owed>> /\ Here /\ ReaderOnly

Pause ==
  /\ pc = "settle" /\ settle.clock < 2
  /\ settle' = [settle EXCEPT !.clock = @ + 1]
  /\ UNCHANGED <<pc, number, visible, rows, result, owed, early>> /\ Here /\ ReaderOnly

\* page.goto times out, or the page is not there to be read.
PageFails ==
  /\ pc \in {"start", "account", "goto", "settle"}
  /\ End("thrown")
  /\ UNCHANGED <<number, visible, settle, rows, owed, early>> /\ Here /\ ReaderOnly

-----------------------------------------------------------------------------
Portal == (\E m \in Movements : Post(m)) \/ Leave \/ Redirect \/ Render

Read ==
  \/ GotoDashboard \/ CheckDashboard \/ WaitProducto \/ OpenDashboardAccount
  \/ GotoPage \/ CheckUrl \/ WaitHeader \/ ReadResultsTable \/ SettleMax \/ Pause
  \/ PageFails

Monitor == GotoHealth \/ HealthUrl \/ HealthText \/ BrowserUnavailable

Next == Portal \/ Read \/ Monitor

Spec == Init /\ [][Next]_vars

-----------------------------------------------------------------------------
(* Properties.                                                             *)

\* A collection that succeeds has every movement that was listed when it began,
\* however movements posted meanwhile shift the pages, unless the portal took
\* longer than the settling of a page to show it.
CollectedIsComplete == result = "collected" => owed \subseteq rows \/ early

\* A session the portal itself sends to its login page in the warm-up, or in the
\* monitor's check, is always reported as expired, early or late as the redirect may
\* land: without the cause nobody would try to log in again.
WarmUpSeesExpiry ==
  gone /\ session = "out" /\ number = 0 => result \in {"none", "expired"}

\* A redirect away from the results is reported for what it is.
RedirectIsReported == gone => result # "collected"
=============================================================================
