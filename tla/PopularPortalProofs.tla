------------------------- MODULE PopularPortalProofs -------------------------
(***************************************************************************)
(* PopularPortal, for any number of movements, pages and rows in a page,   *)
(* by two arguments: the ledger's, that a movement which is owed is in the *)
(* rows, in the page at hand, or further down than the pages taken so far, *)
(* however the ledger grows meanwhile (CollectInv), and the warm-up's,     *)
(* that a page the portal has left shows where it went (WarmInv).          *)
(***************************************************************************)
EXTENDS PopularPortal, TLAPS, FiniteSetTheorems, SequenceTheorems

Reading == {"url", "header", "settle"}

WarmUp  == {"start", "dashboard", "producto", "account", "check", "checkUrl", "checkText"}

\* Where a page and a snapshot are taken, and what they hold.
PageInv ==
  /\ pc \in WarmUp => number = 0
  /\ pc \in Reading => number > 0 /\ tab.at # "dashboard"
  /\ tab.at = "transactions" => number > 0
  /\ pc = "goto" => number < MaxPages
  /\ Len(tab.rows) <= ItemsPerPage
  /\ \A table \in settle.snapshot : table \in Seq(Movements) /\ Len(table) <= ItemsPerPage
  /\ pc # "end" => result = "none"

\* Pages whose rows are in allRows.
Taken == IF pc \in Reading THEN number - 1 ELSE number

\* m is still listed below the first n pages.
Below(m, n) == \E i \in DOMAIN ledger : ledger[i] = m /\ i > n * ItemsPerPage

\* What is owed and not in the rows yet is below the first n pages.
Due(n) == \A m \in owed : m \in rows \/ Below(m, n)

\* What is owed and not in this page is in an earlier one, or below a full page.
Shows(table) ==
  \A m \in owed : \/ m \in rows \cup Range(table)
                  \/ Len(table) = ItemsPerPage /\ Below(m, number)

CollectInv ==
  ~early =>
    /\ pc # "end" => Due(Taken)
    /\ pc \in Reading /\ tab.shown = "rows" => Shows(tab.rows)
    /\ pc = "settle" /\ settle.true
       => settle.snapshot # {} /\ \A table \in settle.snapshot : Shows(table)
    /\ result = "collected" => owed \subseteq rows

\* A page the portal has left is where it went, and shows nothing.
WarmInv ==
  /\ gone => session # "in"
  /\ pc \in {"start", "check"} => ~gone /\ tab.at = "elsewhere"
  /\ number = 0 /\ pc \in {"account", "goto"}
     => ~gone /\ tab.shown = "rows"
  /\ number = 0 /\ gone /\ pc # "end" => tab.at = Refuge /\ tab.shown = "nothing"
  /\ number = 0 /\ gone /\ session = "out" /\ pc = "end" => result = "expired"

IInv == TypeOK /\ PageInv /\ CollectInv /\ WarmInv

-----------------------------------------------------------------------------
(* The ledger.                                                             *)

\* What Listed returns: the rows of page n, each at its place in the ledger; a row
\* below page n leaves the page full.
LEMMA ListedPage ==
  ASSUME ledger \in Seq(Movements), NEW n \in Nat, n > 0
  PROVE  /\ Listed(n) \in Seq(Movements) /\ Len(Listed(n)) <= ItemsPerPage
         /\ \A m : Below(m, n - 1)
              => m \in Range(Listed(n)) \/ (Len(Listed(n)) = ItemsPerPage /\ Below(m, n))
<1> DEFINE above == (n - 1) * ItemsPerPage
           size  == Len(ledger)
           first == above + 1
           last  == IF above + ItemsPerPage <= size THEN above + ItemsPerPage ELSE size
<1>0. ItemsPerPage \in Nat /\ ItemsPerPage > 0
  BY PortalAssumption
<1>1. above \in Nat
  BY <1>0
<1>2. n * ItemsPerPage = above + ItemsPerPage
  BY <1>0
<1>3. size \in Nat /\ DOMAIN ledger = 1..size /\ \A i \in 1..size : ledger[i] \in Movements
  BY LenProperties, ElementOfSeq
<1>4. Listed(n) = SubSeq(ledger, first, last)
  BY <1>2 DEF Listed
<1> HIDE DEF above, size
<1>5. first \in Int /\ last \in Int /\ \A i \in first..last : ledger[i] \in Movements
  BY <1>0, <1>1, <1>3
<1>6. /\ SubSeq(ledger, first, last) \in Seq(Movements)
      /\ Len(SubSeq(ledger, first, last)) = IF first <= last THEN last - first + 1 ELSE 0
      /\ \A i \in 1..(last - first + 1) : SubSeq(ledger, first, last)[i] = ledger[first + i - 1]
  BY <1>5, SubSeqProperties
<1>7. Len(Listed(n)) <= ItemsPerPage
  BY <1>0, <1>1, <1>3, <1>4, <1>6
<1>8. ASSUME NEW m, Below(m, n - 1)
      PROVE  m \in Range(Listed(n)) \/ (Len(Listed(n)) = ItemsPerPage /\ Below(m, n))
  <2>1. PICK i \in 1..size : ledger[i] = m /\ i > above
    BY <1>3, <1>8 DEF Below, above
  <2>2. CASE i <= above + ItemsPerPage
    <3> DEFINE k == i - above
    <3>1. first <= last /\ k \in 1..(last - first + 1) /\ first + k - 1 = i
      BY <1>0, <1>1, <1>3, <2>1, <2>2
    <3>2. Listed(n)[k] = m /\ k \in 1..Len(Listed(n))
      BY <1>4, <1>6, <2>1, <3>1
    <3>3. DOMAIN Listed(n) = 1..Len(Listed(n))
      BY <1>4, <1>6, LenProperties
    <3> QED
      BY <3>2, <3>3 DEF Range
  <2>3. CASE i > above + ItemsPerPage
    <3>1. Len(Listed(n)) = ItemsPerPage
      BY <1>0, <1>1, <1>3, <1>4, <1>6, <2>1, <2>3
    <3>2. Below(m, n)
      BY <1>2, <1>3, <2>1, <2>3 DEF Below
    <3> QED
      BY <3>1, <3>2
  <2> QED
    BY <1>0, <1>1, <2>1, <2>2, <2>3
<1> QED
  BY <1>4, <1>6, <1>7, <1>8

\* A movement that is posted moves the others down, or stands below them.
LEMMA PostKeepsOrder ==
  ASSUME ledger \in Seq(Movements), NEW m \in Movements, Post(m)
  PROVE  /\ ledger' \in Seq(Movements)
         /\ \A other : \A n \in Nat : Below(other, n) => Below(other, n)'
<1>0. /\ <<m>> \in Seq(Movements) /\ Len(<<m>>) = 1
      /\ Len(ledger) \in Nat /\ DOMAIN ledger = 1..Len(ledger)
  BY LenProperties
<1>1. CASE ledger' = <<m>> \o ledger
  <2>1. /\ ledger' \in Seq(Movements) /\ Len(ledger') = 1 + Len(ledger)
        /\ \A i \in 1..Len(ledger) : ledger'[i + 1] = ledger[i]
    BY <1>0, <1>1, ConcatProperties
  <2>2. DOMAIN ledger' = 1..Len(ledger')
    BY <2>1, LenProperties
  <2>3. ASSUME NEW other, NEW n \in Nat, Below(other, n) PROVE Below(other, n)'
    <3>0. n * ItemsPerPage \in Nat
      BY PortalAssumption
    <3>1. PICK i \in 1..Len(ledger) : ledger[i] = other /\ i > n * ItemsPerPage
      BY <1>0, <2>3 DEF Below
    <3>2. i + 1 \in DOMAIN ledger' /\ ledger'[i + 1] = other
      BY <1>0, <2>1, <2>2, <3>1
    <3>3. i + 1 > n * ItemsPerPage
      BY <3>0, <3>1
    <3> QED
      BY <3>2, <3>3 DEF Below
  <2> QED
    BY <2>1, <2>3
<1>2. CASE ledger' = Append(ledger, m)
  <2>1. /\ ledger' \in Seq(Movements) /\ Len(ledger') = Len(ledger) + 1
        /\ \A i \in 1..Len(ledger) : ledger'[i] = ledger[i]
    BY <1>2, AppendProperties
  <2>2. DOMAIN ledger' = 1..Len(ledger')
    BY <2>1, LenProperties
  <2>3. ASSUME NEW other, NEW n \in Nat, Below(other, n) PROVE Below(other, n)'
    <3>1. PICK i \in 1..Len(ledger) : ledger[i] = other /\ i > n * ItemsPerPage
      BY <1>0, <2>3 DEF Below
    <3>2. i \in DOMAIN ledger' /\ ledger'[i] = other
      BY <1>0, <2>1, <2>2, <3>1
    <3> QED
      BY <3>1, <3>2 DEF Below
  <2> QED
    BY <2>1, <2>3
<1> QED
  BY <1>1, <1>2 DEF Post

\* Every step keeps the ledger a sequence, and what is listed below a page.
LEMMA LedgerGrows ==
  ASSUME ledger \in Seq(Movements), [Next]_vars
  PROVE  /\ ledger' \in Seq(Movements)
         /\ \A m : \A n \in Nat : Below(m, n) => Below(m, n)'
<1>1. CASE \E m \in Movements : Post(m)
  BY <1>1, PostKeepsOrder
<1>2. CASE UNCHANGED ledger
  BY <1>2 DEF Below
<1> QED
  BY <1>1, <1>2 DEF Next, Portal, Leave, Redirect, Render, Read, Monitor, ReaderOnly, CheckOnly,
     GotoDashboard, CheckDashboard, WaitProducto, OpenDashboardAccount, GotoPage, CheckUrl,
     WaitHeader, ReadResultsTable, SettleMax, Pause, PageFails, GotoHealth, HealthUrl, HealthText,
     BrowserUnavailable, vars

-----------------------------------------------------------------------------
(* Types, and where pages and snapshots are taken.                         *)

TabType    == tab \in Tabs /\ Len(tab.rows) <= ItemsPerPage
SettleType ==
  /\ DOMAIN settle = {"count", "snapshot", "clock", "true"}
  /\ settle.count \subseteq 0..ItemsPerPage /\ Cardinality(settle.snapshot) <= 1
  /\ settle.clock \in 0..2 /\ settle.true \in BOOLEAN
  /\ \A table \in settle.snapshot : table \in Seq(Movements) /\ Len(table) <= ItemsPerPage

LEMMA InitHolds == Init => IInv
<1> SUFFICES ASSUME Init PROVE IInv
  OBVIOUS
<1>0. ItemsPerPage \in Nat /\ MaxPages \in Nat
  BY PortalAssumption
<1>1. ledger \in Seq(Movements)
  <2>1. PICK n \in 0..Cardinality(Movements) : ledger \in [1..n -> Movements]
    BY DEF Init, SeqOf
  <2>2. n \in Nat
    BY <2>1
  <2> QED
    BY <2>1, <2>2, SeqDef
<1>2. tab \in Tabs /\ Len(tab.rows) = 0
  BY DEF Init, Tabs, Places
<1>3. SettleType
  <2>1. settle.snapshot = {} /\ settle.count = {} /\ settle.clock = 0 /\ settle.true = FALSE
    BY DEF Init, Fresh
  <2>2. Cardinality(settle.snapshot) = 0
    BY <2>1, FS_EmptySet
  <2>3. DOMAIN settle = {"count", "snapshot", "clock", "true"}
    BY DEF Init, Fresh
  <2>4. settle.count \subseteq 0..ItemsPerPage /\ settle.clock \in 0..2
    BY <2>1
  <2>5. Cardinality(settle.snapshot) <= 1
    BY <2>2
  <2> QED
    BY <2>1, <2>3, <2>4, <2>5, Zenon DEF SettleType
<1>4. TypeOK
  <2>1. number \in 0..MaxPages
    BY <1>0 DEF Init
  <2>2. visible \in BOOLEAN /\ early \in BOOLEAN /\ gone \in BOOLEAN
    BY Zenon DEF Init
  <2> QED
    BY <1>1, <1>2, <1>3, <2>1, <2>2 DEF Init, TypeOK, SettleType, Results
<1>5. PageInv
  BY <1>0, <1>2, <1>3 DEF Init, PageInv, Reading, WarmUp, SettleType
<1>6. CollectInv /\ WarmInv
  BY DEF Init, CollectInv, Due, WarmInv, Reading
<1> QED
  BY <1>4, <1>5, <1>6 DEF IInv

\* What the page shows fits it.
LEMMA StepTab ==
  ASSUME TypeOK, PageInv, [Next]_vars
  PROVE  TabType'
<1>0. TabType /\ ItemsPerPage \in Nat
  BY PortalAssumption DEF TypeOK, PageInv, TabType
<1>1. ASSUME NEW at \in Places, tab' = [at |-> at, shown |-> "nothing", rows |-> <<>>]
      PROVE  TabType'
  BY <1>0, <1>1 DEF TabType, Tabs
<1>2. ASSUME NEW path \in {"dashboard", "transactions"}, Open(path) PROVE TabType'
  BY <1>1, <1>2 DEF Open, Refuge, Places
<1>3. CASE GotoDashboard \/ GotoHealth \/ GotoPage
  BY <1>2, <1>3 DEF GotoDashboard, GotoHealth, GotoPage
<1>4. CASE Redirect
  BY <1>1, <1>4 DEF Redirect, Refuge, Places
<1>5. CASE Render
  <2>1. CASE tab' = [tab EXCEPT !.shown = "rows", !.rows = Listed(number)] /\ number > 0
    <3>1. Listed(number) \in Seq(Movements) /\ Len(Listed(number)) <= ItemsPerPage
      BY <2>1, ListedPage DEF TypeOK
    <3> QED
      BY <1>0, <2>1, <3>1 DEF TabType, Tabs
  <2>2. CASE \E shown \in {"rows", "frame"} : tab' = [tab EXCEPT !.shown = shown]
    BY <1>0, <2>2 DEF TabType, Tabs
  <2> QED
    BY <1>5, <2>1, <2>2 DEF Render, PageInv
<1>6. CASE UNCHANGED tab
  BY <1>0, <1>6 DEF TabType
<1> QED
  BY <1>3, <1>4, <1>5, <1>6 DEF Next, Portal, Post, Leave, Read, Monitor, Here,
     CheckDashboard, WaitProducto, OpenDashboardAccount, CheckUrl, WaitHeader,
     ReadResultsTable, SettleMax, Pause, PageFails, HealthUrl, HealthText,
     BrowserUnavailable, vars

\* A reading of the table fits a page.
LEMMA StepSettle ==
  ASSUME TypeOK, PageInv, [Next]_vars
  PROVE  SettleType'
<1>0. SettleType /\ ItemsPerPage \in Nat
  BY PortalAssumption DEF TypeOK, PageInv, SettleType
<1>1. CASE UNCHANGED settle
  BY <1>0, <1>1 DEF SettleType
<1>2. CASE WaitHeader
  <2>1. /\ settle'.snapshot = {} /\ settle'.count = {} /\ settle'.clock = 0
        /\ settle'.true = FALSE /\ DOMAIN settle' = {"count", "snapshot", "clock", "true"}
    BY <1>2 DEF WaitHeader, Fresh
  <2>2. Cardinality(settle'.snapshot) = 0
    BY <2>1, FS_EmptySet
  <2>3. settle'.count \subseteq 0..ItemsPerPage /\ settle'.clock \in 0..2
    BY <2>1
  <2>4. Cardinality(settle'.snapshot) <= 1
    BY <2>2
  <2> QED
    BY <2>1, <2>3, <2>4, Zenon DEF SettleType
<1>3. CASE Pause
  BY <1>0, <1>3 DEF Pause, SettleType
<1>4. CASE settle' = [settle EXCEPT !.count = {RowCount}, !.snapshot = Snapshot,
                                    !.true = tab.shown = "rows"]
  <2>1. /\ DOMAIN settle' = DOMAIN settle /\ settle'.count = {RowCount}
        /\ settle'.snapshot = Snapshot /\ settle'.clock = settle.clock
        /\ settle'.true \in BOOLEAN
    BY <1>0, <1>4 DEF SettleType
  <2>2. /\ tab.rows \in Seq(Movements) /\ Len(tab.rows) <= ItemsPerPage
        /\ Len(tab.rows) \in Nat
    BY LenProperties DEF TypeOK, Tabs, PageInv
  <2>3. \A table \in Snapshot : table \in Seq(Movements) /\ Len(table) <= ItemsPerPage
    BY <2>2 DEF Snapshot
  <2>4. Cardinality(Snapshot) <= 1
    <3>1. Cardinality({}) = 0 /\ Cardinality({tab.rows}) = 1
      BY FS_EmptySet, FS_Singleton
    <3> QED
      BY <3>1 DEF Snapshot
  <2>5. {RowCount} \subseteq 0..ItemsPerPage
    BY <1>0, <2>2 DEF RowCount
  <2> QED
    BY <1>0, <2>1, <2>3, <2>4, <2>5 DEF SettleType
<1> QED
  BY <1>1, <1>2, <1>3, <1>4 DEF Next, Portal, Post, Leave, Redirect, Render, PortalOnly, Read,
     Monitor, CheckOnly, GotoDashboard, CheckDashboard, WaitProducto, OpenDashboardAccount,
     GotoPage, CheckUrl, ReadResultsTable, SettleMax, PageFails, GotoHealth, HealthUrl,
     HealthText, BrowserUnavailable, vars

\* What Take does with the tables it is given.
LEMMA TakeEffect ==
  ASSUME TypeOK, PageInv, pc = "settle", NEW snapshot,
         \A table \in snapshot : table \in Seq(Movements), Take(snapshot)
  PROVE  /\ rows' \subseteq Movements
         /\ \/ pc' = "goto" /\ result' = result /\ Full(snapshot) /\ number # MaxPages
            \/ /\ pc' = "end" /\ result' \in {"needs_admin_action", "collected", "thrown"}
               /\ result' = "collected" => snapshot = {} \/ ~Full(snapshot)
<1>1. \A table \in snapshot : Range(table) \subseteq Movements
  BY ElementOfSeq, LenProperties DEF Range
<1>2. rows' \subseteq Movements
  BY <1>1 DEF Take, ExtractedRows, TypeOK
<1>3. \/ snapshot = {} /\ (End("collected") \/ End("needs_admin_action"))
      \/ Full(snapshot) /\ number = MaxPages /\ End("needs_admin_action")
      \/ Full(snapshot) /\ number # MaxPages /\ pc' = "goto" /\ UNCHANGED result
      \/ ~Full(snapshot) /\ (End("collected") \/ End("thrown"))
  BY DEF Take
<1> QED
  BY <1>2, <1>3 DEF End

\* Where the reader is.
Counters ==
  /\ pc \in WarmUp \cup Reading \cup {"goto", "end"}
  /\ number \in 0..MaxPages /\ result \in Results
  /\ pc \in WarmUp => number = 0
  /\ pc \in Reading => number > 0 /\ tab.at # "dashboard"
  /\ tab.at = "transactions" => number > 0
  /\ pc = "goto" => number < MaxPages
  /\ pc # "end" => result = "none"

LEMMA StepCounters ==
  ASSUME TypeOK, PageInv, [Next]_vars
  PROVE  Counters'
<1>0. /\ Counters /\ MaxPages \in Nat /\ MaxPages > 0 /\ number \in Nat
      /\ \A table \in settle.snapshot : table \in Seq(Movements)
  BY PortalAssumption DEF TypeOK, PageInv, Counters, WarmUp, Reading
<1> USE <1>0 DEF Counters, WarmUp, Reading, Results
<1>1. ASSUME UNCHANGED <<pc, number, result>>, tab'.at \in {tab.at, "login", "elsewhere"}
      PROVE  Counters'
  BY <1>1
<1>2. ASSUME NEW answer \in Results, End(answer), UNCHANGED <<number, tab>> PROVE Counters'
  BY <1>2 DEF End
<1>3. CASE \E m \in Movements : Post(m)
  BY <1>1, <1>3 DEF Post, PortalOnly
<1>4. CASE Leave \/ Redirect
  BY <1>1, <1>4 DEF Leave, Redirect, Refuge, PortalOnly
<1>5. CASE Render
  <2>1. tab'.at = tab.at
    BY <1>5 DEF Render, TypeOK, Tabs
  <2> QED
    BY <1>1, <1>5, <2>1 DEF Render, PortalOnly
<1>6. CASE GotoDashboard \/ GotoHealth
  BY <1>6 DEF GotoDashboard, GotoHealth, Open, Refuge, ReaderOnly, CheckOnly
<1>7. CASE CheckDashboard
  BY <1>2, <1>7 DEF CheckDashboard, Here
<1>8. CASE WaitProducto
  BY <1>2, <1>8 DEF WaitProducto, Here
<1>9. CASE OpenDashboardAccount
  BY <1>2, <1>9 DEF OpenDashboardAccount, Here
<1>10. CASE HealthUrl \/ HealthText \/ BrowserUnavailable
  BY <1>2, <1>10 DEF HealthUrl, HealthText, BrowserUnavailable, Here, CheckOnly
<1>11. CASE GotoPage
  <2>1. tab'.at # "dashboard"
    BY <1>11 DEF GotoPage, Open, Refuge
  <2>2. pc' = "url" /\ number' = number + 1 /\ result' = "none" /\ number < MaxPages
    BY <1>11 DEF GotoPage
  <2> QED
    BY <2>1, <2>2
<1>12. CASE CheckUrl
  BY <1>2, <1>12 DEF CheckUrl, Here
<1>13. CASE WaitHeader
  BY <1>13 DEF WaitHeader, Here
<1>14. ASSUME NEW snapshot, \A table \in snapshot : table \in Seq(Movements),
              pc = "settle", Take(snapshot), UNCHANGED <<number, tab>>
       PROVE  Counters'
  <2>1. \/ pc' = "goto" /\ result' = result /\ number # MaxPages
        \/ pc' = "end" /\ result' \in {"needs_admin_action", "collected", "thrown"}
    BY <1>14, TakeEffect
  <2> QED
    BY <1>14, <2>1
<1>15. CASE ReadResultsTable
  <2>1. \A table \in Snapshot : table \in Seq(Movements)
    BY DEF Snapshot, TypeOK, Tabs
  <2>2. CASE Take(Snapshot)
    BY <1>14, <1>15, <2>1, <2>2 DEF ReadResultsTable, Here
  <2>3. CASE UNCHANGED <<pc, result>>
    BY <1>1, <1>15, <2>3 DEF ReadResultsTable, Here
  <2> QED
    BY <1>15, <2>2, <2>3 DEF ReadResultsTable
<1>16. CASE SettleMax
  BY <1>14, <1>16 DEF SettleMax, Here
<1>17. CASE Pause
  BY <1>1, <1>17 DEF Pause, Here
<1>18. CASE PageFails
  BY <1>2, <1>18 DEF PageFails, Here
<1>19. CASE UNCHANGED vars
  BY <1>1, <1>19 DEF vars
<1> QED
  BY <1>3, <1>4, <1>5, <1>6, <1>7, <1>8, <1>9, <1>10, <1>11, <1>12, <1>13, <1>15, <1>16,
     <1>17, <1>18, <1>19 DEF Next, Portal, Read, Monitor

\* What a collection has and owes are movements.
LEMMA StepRows ==
  ASSUME TypeOK, PageInv, [Next]_vars
  PROVE  rows' \subseteq Movements /\ owed' \subseteq Movements
<1>0. \A table \in settle.snapshot \cup Snapshot : table \in Seq(Movements)
  BY DEF TypeOK, PageInv, Snapshot, Tabs
<1>1. CASE GotoDashboard
  <2>1. Range(ledger) \subseteq Movements
    BY ElementOfSeq, LenProperties DEF Range, TypeOK
  <2> QED
    BY <1>1, <2>1 DEF GotoDashboard, TypeOK
<1>2. CASE ReadResultsTable \/ SettleMax
  <2>1. owed' = owed /\ pc = "settle"
    BY <1>2 DEF ReadResultsTable, SettleMax
  <2>2. Take(Snapshot) \/ Take(settle.snapshot) \/ rows' = rows
    BY <1>2 DEF ReadResultsTable, SettleMax
  <2> QED
    BY <1>0, <2>1, <2>2, TakeEffect DEF TypeOK
<1>3. CASE UNCHANGED <<rows, owed>>
  BY <1>3 DEF TypeOK
<1> QED
  BY <1>1, <1>2, <1>3 DEF Next, Portal, Post, Leave, Redirect, Render, PortalOnly, Read,
     Monitor, CheckOnly, CheckDashboard, WaitProducto, OpenDashboardAccount,
     GotoPage, CheckUrl, WaitHeader, Pause, PageFails, GotoHealth, HealthUrl,
     HealthText, BrowserUnavailable, vars

\* The flags are flags.
LEMMA StepFlags ==
  ASSUME TypeOK, [Next]_vars
  PROVE  /\ session' \in {"in", "out", "down"} /\ visible' \in BOOLEAN
         /\ early' \in BOOLEAN /\ gone' \in BOOLEAN
         /\ session # "in" => session' = session
<1>1. /\ session' \in {"in", "out", "down"} /\ visible' \in BOOLEAN
      /\ session # "in" => session' = session
  BY DEF TypeOK, Next, Portal, Post, Leave, Redirect, Render, PortalOnly, Read, Monitor,
     CheckOnly, ReaderOnly, GotoDashboard, CheckDashboard, WaitProducto, OpenDashboardAccount,
     GotoPage, CheckUrl, WaitHeader, ReadResultsTable, SettleMax, Pause, PageFails, GotoHealth,
     HealthUrl, HealthText, BrowserUnavailable, vars
<1>2. early' \in BOOLEAN
  BY DEF TypeOK, Next, Portal, Post, Leave, Redirect, Render, PortalOnly, Read, Monitor,
     CheckOnly, ReaderOnly, GotoDashboard, CheckDashboard, WaitProducto, OpenDashboardAccount,
     GotoPage, CheckUrl, WaitHeader, ReadResultsTable, SettleMax, Pause, PageFails, GotoHealth,
     HealthUrl, HealthText, BrowserUnavailable, vars
<1>3. gone' \in BOOLEAN
  BY DEF TypeOK, Next, Portal, Post, Leave, Redirect, Render, Open, Here, Read, Monitor,
     GotoDashboard, CheckDashboard, WaitProducto, OpenDashboardAccount,
     GotoPage, CheckUrl, WaitHeader, ReadResultsTable, SettleMax, Pause, PageFails, GotoHealth,
     HealthUrl, HealthText, BrowserUnavailable, vars
<1> QED
  BY <1>1, <1>2, <1>3

LEMMA StepTypes == TypeOK /\ PageInv /\ [Next]_vars => TypeOK' /\ PageInv'
<1> SUFFICES ASSUME TypeOK, PageInv, [Next]_vars PROVE TypeOK' /\ PageInv'
  OBVIOUS
<1>1. TabType' /\ SettleType' /\ Counters' /\ ledger' \in Seq(Movements)
  BY StepTab, StepSettle, StepCounters, LedgerGrows DEF TypeOK
<1>2. TypeOK'
  BY <1>1, StepRows, StepFlags
  DEF TypeOK, TabType, SettleType, Counters, WarmUp, Reading
<1>3. PageInv'
  BY <1>1 DEF PageInv, TabType, SettleType, Counters
<1> QED
  BY <1>2, <1>3

-----------------------------------------------------------------------------
(* The ledger's argument.                                                  *)

\* What is owed stays where it is while the reader only looks.
LEMMA DueStays ==
  ASSUME TypeOK, [Next]_vars, UNCHANGED <<rows, owed>>, NEW n \in Nat, Due(n)
  PROVE  Due(n)'
BY LedgerGrows DEF TypeOK, Due

LEMMA ShowsStays ==
  ASSUME TypeOK, [Next]_vars, UNCHANGED <<rows, owed, number>>, NEW table, Shows(table)
  PROVE  Shows(table)'
<1>1. PICK n \in Nat : n = number
  BY DEF TypeOK
<1>2. \A m : Below(m, n) => Below(m, n)'
  BY LedgerGrows DEF TypeOK
<1> QED
  BY <1>1, <1>2 DEF Shows, Below

\* A step that ends the collection without rows.
LEMMA EndCollects ==
  ASSUME NEW answer, answer # "collected", End(answer)
  PROVE  CollectInv'
BY DEF End, CollectInv, Reading

\* A step of the reader on its way to the next page.
LEMMA WayCollects ==
  ASSUME TypeOK, PageInv, CollectInv, [Next]_vars, pc \in WarmUp,
         pc' \in WarmUp \cup {"goto"}, UNCHANGED <<number, rows, owed, result, early>>
  PROVE  CollectInv'
<1> SUFFICES ASSUME ~early PROVE Due(Taken)'
  BY DEF CollectInv, PageInv, WarmUp, Reading
<1>1. Due(0)'
  <2>1. Due(0)
    BY DEF CollectInv, PageInv, WarmUp, Reading, Taken
  <2> QED
    BY <2>1, DueStays
<1>2. Taken' = 0
  BY DEF Taken, PageInv, WarmUp, Reading
<1> QED
  BY <1>1, <1>2 DEF Due, Below

\* A step within a page of results that takes nothing.
LEMMA LookCollects ==
  ASSUME TypeOK, PageInv, CollectInv, [Next]_vars,
         pc # "end", pc' # "end", (pc \in Reading) = (pc' \in Reading),
         UNCHANGED <<number, rows, owed, result, early>>,
         tab' = tab \/ tab'.shown # "rows" \/ (~early /\ pc \in Reading => Shows(tab.rows)'),
         pc' = "settle" /\ settle'.true
         => \/ pc = "settle" /\ settle.true /\ settle'.snapshot = settle.snapshot
            \/ settle'.snapshot = {tab.rows} /\ tab.shown = "rows" /\ pc \in Reading
  PROVE  CollectInv'
<1> SUFFICES ASSUME ~early PROVE CollectInv'
  BY DEF CollectInv
<1>1. Due(Taken)'
  <2>1. PICK n \in Nat : n = Taken
    BY DEF TypeOK, PageInv, Taken
  <2>2. Due(n)
    BY <2>1 DEF CollectInv, Due, Below
  <2>3. Due(n)' /\ Taken' = n
    BY <2>1, <2>2, DueStays DEF Taken
  <2> QED
    BY <2>3 DEF Due, Below
<1>2. ASSUME pc' \in Reading, tab'.shown = "rows" PROVE Shows(tab.rows)'
  <2>1. CASE tab' = tab
    <3>1. PICK table : table = tab.rows
      OBVIOUS
    <3>2. Shows(table)
      BY <1>2, <2>1, <3>1 DEF CollectInv, Shows, Below
    <3>3. Shows(table)'
      BY <3>2, ShowsStays
    <3> QED
      BY <2>1, <3>1, <3>3 DEF Shows, Below
  <2> QED
    BY <1>2, <2>1
<1>3. ASSUME pc' = "settle", settle'.true
      PROVE  settle'.snapshot # {} /\ (\A table \in settle.snapshot : Shows(table))'
  <2>1. settle'.snapshot # {} /\ \A table \in settle'.snapshot : Shows(table)
    BY <1>3 DEF CollectInv
  <2>2. ASSUME NEW table \in settle'.snapshot PROVE Shows(table)'
    BY <2>1, <2>2, ShowsStays
  <2> QED
    BY <2>1, <2>2
<1>4. result' # "collected"
  BY DEF PageInv
<1> QED
  BY <1>1, <1>2, <1>3, <1>4 DEF CollectInv

\* Rows are taken from tables that show the page.
LEMMA TakeCollects ==
  ASSUME TypeOK, PageInv, CollectInv, [Next]_vars, pc = "settle", NEW snapshot,
         \A table \in snapshot : table \in Seq(Movements), Take(snapshot),
         UNCHANGED <<number, owed, ledger>>, ~early' => ~early,
         ~early' => snapshot # {} /\ \A table \in snapshot : Shows(table)
  PROVE  CollectInv'
<1> SUFFICES ASSUME ~early' PROVE CollectInv'
  BY DEF CollectInv
<1>1. PICK table \in snapshot : Shows(table)
  OBVIOUS
<1>2. rows \subseteq rows' /\ Range(table) \subseteq rows'
  BY DEF Take, ExtractedRows
<1>3. CASE pc' = "goto" /\ result' = result
  <2>1. \A m \in owed : m \in rows' \/ Below(m, number)
    <3>1. CASE Len(table) = ItemsPerPage
      BY <1>1, <1>2, <3>1 DEF Shows
    <3>2. CASE Len(table) # ItemsPerPage
      BY <1>1, <1>2, <3>2 DEF Shows
    <3> QED
      BY <3>1, <3>2
  <2>2. Taken' = number /\ number' = number
    BY <1>3 DEF Taken, Reading
  <2>3. Due(Taken)'
    BY <2>1, <2>2 DEF Due, Below
  <2>4. result' # "collected"
    BY <1>3 DEF PageInv
  <2> QED
    BY <1>3, <2>3, <2>4 DEF CollectInv, Reading
<1>4. CASE pc' = "end" /\ (result' = "collected" => ~Full(snapshot))
  <2>1. result' = "collected" => owed' \subseteq rows'
    BY <1>1, <1>2, <1>4 DEF Shows, Full
  <2> QED
    BY <1>4, <2>1 DEF CollectInv, Reading
<1> QED
  BY <1>1, <1>3, <1>4, TakeEffect

LEMMA RenderCollects ==
  ASSUME TypeOK, PageInv, CollectInv, Render, pc \in Reading, tab'.shown = "rows", ~early
  PROVE  Shows(tab.rows)'
<1>1. tab.at = "transactions" /\ tab' = [tab EXCEPT !.shown = "rows", !.rows = Listed(number)]
  BY DEF Render, PageInv, TypeOK, Tabs
<1>2. tab'.rows = Listed(number)
  BY <1>1 DEF TypeOK, Tabs
<1>3. PICK n \in Nat : n = number /\ n > 0
  BY DEF PageInv, TypeOK
<1>4. Due(n - 1)
  BY <1>3 DEF CollectInv, Taken, Due, Below, Reading
<1>5. \A m \in owed : \/ m \in rows \cup Range(Listed(n))
                      \/ Len(Listed(n)) = ItemsPerPage /\ Below(m, n)
  BY <1>3, <1>4, ListedPage DEF Due, TypeOK
<1>6. UNCHANGED <<ledger, number, rows, owed>>
  BY DEF Render, PortalOnly
<1> QED
  BY <1>2, <1>3, <1>5, <1>6 DEF Shows, Below

LEMMA StepCollect ==
  ASSUME TypeOK, PageInv, CollectInv, [Next]_vars
  PROVE  CollectInv'
<1>1. CASE (\E m \in Movements : Post(m)) \/ Leave \/ UNCHANGED vars
  <2>1. UNCHANGED <<pc, number, settle, rows, result, owed, early, tab>>
    BY <1>1 DEF Post, Leave, PortalOnly, vars
  <2>2. CASE pc = "end"
    BY <2>1, <2>2 DEF CollectInv, Reading
  <2> QED
    BY <2>1, <2>2, LookCollects DEF CollectInv
<1>2. CASE Redirect
  <2>1. UNCHANGED <<pc, number, settle, rows, result, owed, early>> /\ tab'.shown = "nothing"
    BY <1>2 DEF Redirect, PortalOnly
  <2>2. CASE pc = "end"
    BY <2>1, <2>2 DEF CollectInv, Reading
  <2> QED
    BY <2>1, <2>2, LookCollects
<1>3. CASE Render
  <2>1. UNCHANGED <<pc, number, settle, rows, result, owed, early>>
    BY <1>3 DEF Render, PortalOnly
  <2>2. CASE pc = "end"
    BY <2>1, <2>2 DEF CollectInv, Reading
  <2>3. tab'.shown = "rows" /\ ~early /\ pc \in Reading => Shows(tab.rows)'
    BY <1>3, RenderCollects
  <2> QED
    BY <2>1, <2>2, <2>3, LookCollects
<1>4. CASE GotoDashboard
  <2>1. /\ pc' = "dashboard" /\ number' = 0 /\ owed' = Range(ledger) /\ ledger' = ledger
        /\ result' = "none"
    BY <1>4 DEF GotoDashboard, ReaderOnly, PageInv, WarmUp
  <2>2. \A m \in Range(ledger) : \E i \in DOMAIN ledger : ledger[i] = m /\ i > 0 * ItemsPerPage
    <3>1. DOMAIN ledger = 1..Len(ledger) /\ Len(ledger) \in Nat
      BY LenProperties DEF TypeOK
    <3>2. 0 * ItemsPerPage = 0
      BY PortalAssumption
    <3> QED
      BY <3>1, <3>2 DEF Range
  <2>3. Taken' = 0
    BY <2>1 DEF Taken, Reading
  <2>4. Due(Taken)'
    BY <2>1, <2>2, <2>3 DEF Due, Below
  <2> QED
    BY <2>1, <2>4 DEF CollectInv, Reading
<1>5. CASE CheckDashboard
  BY <1>5, WayCollects, EndCollects DEF CheckDashboard, WarmUp
<1>6. CASE WaitProducto
  BY <1>6, WayCollects, EndCollects DEF WaitProducto, WarmUp
<1>7. CASE OpenDashboardAccount
  BY <1>7, WayCollects, EndCollects DEF OpenDashboardAccount, WarmUp
<1>8. CASE GotoHealth
  BY <1>8, WayCollects DEF GotoHealth, CheckOnly, WarmUp
<1>9. CASE HealthUrl
  BY <1>9, WayCollects, EndCollects DEF HealthUrl, CheckOnly, WarmUp
<1>10. CASE HealthText \/ BrowserUnavailable \/ PageFails
  BY <1>10, EndCollects DEF HealthText, BrowserUnavailable, PageFails
<1>11. CASE GotoPage
  <2>1. /\ pc = "goto" /\ pc' = "url" /\ number' = number + 1 /\ tab'.shown = "nothing"
        /\ UNCHANGED <<rows, owed, ledger, early>> /\ result' = "none"
    BY <1>11 DEF GotoPage, Open, ReaderOnly, PageInv
  <2>2. Taken' = number /\ Taken = number
    BY <2>1 DEF Taken, Reading, TypeOK
  <2>3. ~early => Due(Taken)'
    BY <2>1, <2>2 DEF CollectInv, Due, Below
  <2> QED
    BY <2>1, <2>3 DEF CollectInv
<1>12. CASE CheckUrl
  BY <1>12, LookCollects, EndCollects DEF CheckUrl, Here, Reading
<1>13. CASE WaitHeader
  BY <1>13, LookCollects DEF WaitHeader, Here, Reading, Fresh
<1>14. CASE ReadResultsTable
  <2>1. \A table \in Snapshot : table \in Seq(Movements)
    BY DEF Snapshot, TypeOK, Tabs
  <2>2. CASE Take(Snapshot) /\ early' = (early \/ tab.shown # "rows")
    <3>1. ~early' => ~early /\ tab.shown = "rows"
      BY <2>2
    <3>2. ~early' => Snapshot = {tab.rows} /\ Shows(tab.rows)
      BY <1>14, <3>1 DEF ReadResultsTable, Snapshot, CollectInv, Reading
    <3> QED
      BY <1>14, <2>1, <2>2, <3>1, <3>2, TakeCollects DEF ReadResultsTable, ReaderOnly
  <2>3. CASE /\ settle' = [settle EXCEPT !.count = {RowCount}, !.snapshot = Snapshot,
                                         !.true = tab.shown = "rows"]
             /\ UNCHANGED <<pc, rows, result, early>>
    <3>1. settle'.true => settle'.snapshot = {tab.rows} /\ tab.shown = "rows"
      BY <2>3 DEF Snapshot, TypeOK
    <3> QED
      BY <1>14, <2>3, <3>1, LookCollects DEF ReadResultsTable, Here, Reading
  <2> QED
    BY <1>14, <2>2, <2>3 DEF ReadResultsTable
<1>15. CASE SettleMax
  <2>1. ~early' => ~early /\ settle.true
    BY <1>15 DEF SettleMax
  <2>2. \A table \in settle.snapshot : table \in Seq(Movements)
    BY DEF PageInv
  <2>3. ~early' => settle.snapshot # {} /\ \A table \in settle.snapshot : Shows(table)
    BY <1>15, <2>1 DEF SettleMax, CollectInv
  <2> QED
    BY <1>15, <2>1, <2>2, <2>3, TakeCollects DEF SettleMax, ReaderOnly
<1>16. CASE Pause
  <2>1. settle'.true = settle.true /\ settle'.snapshot = settle.snapshot
    BY <1>16 DEF Pause, TypeOK
  <2> QED
    BY <1>16, <2>1, LookCollects DEF Pause, Here
<1> QED
  BY <1>1, <1>2, <1>3, <1>4, <1>5, <1>6, <1>7, <1>8, <1>9, <1>10, <1>11, <1>12, <1>13, <1>14,
     <1>15, <1>16 DEF Next, Portal, Read, Monitor

-----------------------------------------------------------------------------
(* The warm-up's argument.                                                 *)

LEMMA StepWarm ==
  ASSUME TypeOK, PageInv, WarmInv, [Next]_vars
  PROVE  WarmInv'
<1>0. session # "in" => session' = session
  BY StepFlags
<1> USE <1>0 DEF WarmInv, PageInv, WarmUp, Reading, Refuge
\* Redirect and Open alone make a page leave.
<1>1. ASSUME UNCHANGED <<tab, gone, number>>, pc # "end", pc' \notin {"start", "check"},
             pc' \in {"account", "goto"} => pc \in {"account", "goto"} \/ tab.shown = "rows",
             pc' = "end" /\ gone /\ session = "out" /\ number = 0 => result' = "expired"
      PROVE  WarmInv'
  BY <1>1
<1>2. CASE (\E m \in Movements : Post(m)) \/ Leave \/ UNCHANGED vars
  <2>1. UNCHANGED <<pc, number, result, tab, gone>>
    BY <1>2 DEF Post, Leave, PortalOnly, vars
  <2>2. gone => session' = session
    BY <1>0
  <2> QED
    BY <2>1, <2>2
<1>3. CASE Redirect
  BY <1>3 DEF Redirect, PortalOnly
<1>4. CASE Render
  <2>1. session = "in" /\ ~gone
    BY <1>4 DEF Render
  <2>2. UNCHANGED <<session, gone, pc, number, result>> /\ tab'.at = tab.at /\ tab.shown # "rows"
    BY <1>4 DEF Render, PortalOnly, TypeOK, Tabs
  <2>3. tab.at # "elsewhere"
    BY <1>4 DEF Render
  <2> QED
    BY <2>1, <2>2, <2>3
<1>5. CASE GotoDashboard \/ GotoHealth
  <2>1. /\ number' = 0 /\ pc' \in {"dashboard", "checkUrl"} /\ ~gone
        /\ Open("dashboard") /\ session' = session
    BY <1>5 DEF GotoDashboard, GotoHealth, ReaderOnly, CheckOnly
  <2>2. PICK at \in {"dashboard"} \cup (IF session = "in" THEN {} ELSE {Refuge}) :
          tab' = [at |-> at, shown |-> "nothing", rows |-> <<>>] /\ gone' = (gone \/ at # "dashboard")
    BY <2>1 DEF Open
  <2> QED
    BY <2>1, <2>2
<1>6. CASE CheckDashboard
  BY <1>1, <1>6 DEF CheckDashboard, Here, End
<1>7. CASE WaitProducto
  BY <1>1, <1>7 DEF WaitProducto, Here, End
<1>8. CASE OpenDashboardAccount
  BY <1>1, <1>8 DEF OpenDashboardAccount, Here, End
<1>9. CASE HealthUrl
  BY <1>1, <1>9 DEF HealthUrl, Here, End, CheckOnly
<1>10. CASE HealthText
  BY <1>1, <1>10 DEF HealthText, Here, End, CheckOnly
<1>11. CASE BrowserUnavailable
  BY <1>1, <1>11 DEF BrowserUnavailable, Here, End, CheckOnly
<1>12. CASE GotoPage
  <2>1. number' # 0 /\ pc' = "url" /\ UNCHANGED session
    BY <1>12 DEF GotoPage, ReaderOnly, TypeOK
  <2>2. gone' => session # "in"
    BY <1>12 DEF GotoPage, Open
  <2> QED
    BY <2>1, <2>2
<1>13. CASE CheckUrl \/ WaitHeader \/ Pause
  BY <1>1, <1>13 DEF CheckUrl, WaitHeader, Pause, Here, End
<1>14. CASE ReadResultsTable \/ SettleMax
  <2>1. UNCHANGED <<number, tab, gone>> /\ number # 0 /\ pc = "settle"
    BY <1>14 DEF ReadResultsTable, SettleMax, Here
  <2>2. pc' \in {"settle", "goto", "end"}
    BY <1>14, <2>1 DEF ReadResultsTable, SettleMax, Take, End
  <2> QED
    BY <2>1, <2>2
<1>15. CASE PageFails
  <2>1. gone /\ number = 0 => FALSE
    BY <1>15 DEF PageFails
  <2> QED
    BY <1>1, <1>15, <2>1 DEF PageFails, Here, End
<1> QED
  BY <1>2, <1>3, <1>4, <1>5, <1>6, <1>7, <1>8, <1>9, <1>10, <1>11, <1>12, <1>13, <1>14, <1>15
  DEF Next, Portal, Read, Monitor

LEMMA InvHolds == Spec => []IInv
<1>1. Init => IInv
  BY InitHolds
<1>2. IInv /\ [Next]_vars => IInv'
  BY StepTypes, StepCollect, StepWarm DEF IInv
<1> QED
  BY <1>1, <1>2, PTL DEF Spec

-----------------------------------------------------------------------------
(* The theorems.                                                           *)

\* The page, its settling and the rows keep their types
\* (src/worker/scraper/navigation/popular.ts).
THEOREM TypeCorrect == Spec => []TypeOK
BY InvHolds, PTL DEF IInv

\* However many movements are posted while it runs, and however they shift the
\* pages, a collection that succeeds has all it started from, unless it took a
\* reading of a page that was not there yet (collectPopularPortalRows).
THEOREM CollectionsAreComplete == Spec => []CollectedIsComplete
<1>1. IInv => CollectedIsComplete
  BY DEF IInv, CollectInv, CollectedIsComplete
<1> QED
  BY <1>1, InvHolds, PTL

\* A session that the portal ends in the warm-up or in the monitor's check is
\* reported as expired whenever the redirect lands (isPortalLoginPage).
THEOREM ExpiryIsSeen == Spec => []WarmUpSeesExpiry
<1>1. IInv => WarmUpSeesExpiry
  BY DEF IInv, PageInv, WarmInv, WarmUpSeesExpiry
<1> QED
  BY <1>1, InvHolds, PTL
=============================================================================
