-------------------------- MODULE DashboardProofs --------------------------
(***************************************************************************)
(* Theorems about the dashboard: the households page, the session of a tab *)
(* and what its hooks show, the list of what needs attention, and the      *)
(* windows of the statistics.  They speak of MCDashboard, which gives each *)
(* part constants of its own, and assume of those only what the parts name *)
(* themselves.                                                             *)
(***************************************************************************)
EXTENDS MCDashboard, TotalsProofs

mcVars == <<part, vars, attentionVars, browserVars, rangeVars>>

-----------------------------------------------------------------------------
(***************************************************************************)
(* The households page (HouseholdBrowser).                                 *)
(***************************************************************************)
Buttons == [at : {"row", "ranking"}, household : Households \cup {None}]
Queries == [view : Browser!ViewSet, page : Nat \ {0}, filter : Households \cup {None}]
Tables == [got : {"nothing", "error", "page"}, for : {None} \cup Queries,
           items : Seq(Households), page : Nat \ {0}, total : Nat]

ListsInv ==
    lists \in [Browser!ViewSet -> Seq(Households)] /\ listChanges \in 0 .. MaxListChanges
QueryInv == Browser!Query \in Queries /\ problem \in BOOLEAN
TableInv ==
    /\ table \in Tables /\ Len(table.items) <= Limit
    /\ askedFor \in {None, Browser!Query}
    /\ table.for # None => table.for.view = view
    /\ askedFor = None => table.for = Browser!Query
DrawerInv ==
    /\ selected \in Households \cup {None} /\ opener \in Buttons \cup {None}
    /\ panelAsked \in BOOLEAN /\ (opener = None <=> selected = None)
    /\ selected = None <=> opener = None /\ ~ panelAsked /\ panel = Browser!NoPanel
    /\ focus \in {"page", "panel", "lost"} /\ (focus = "panel" <=> selected # None)
    /\ Browser!PanelIsOfItsHousehold

BrowserInv == ListsInv /\ QueryInv /\ TableInv /\ DrawerInv

LEMMA BrowserFacts ==
  /\ Views \in Seq(Browser!ViewSet) /\ Len(Views) \in Nat \ {0}
  /\ \A i \in 1 .. Len(Views) : Views[i] \in Browser!ViewSet
  /\ Limit \in Nat \ {0} /\ MaxListChanges \in Nat
  /\ None \notin Households /\ None \notin Buttons /\ None \notin Queries
  /\ InitialLists \in [Browser!ViewSet -> Seq(Households)]
BY BrowserConstants DEF Browser!HouseholdBrowserAssumption, Buttons, Queries, Browser!ViewSet

LEMMA QueryParts ==
  /\ (Browser!Query \in Queries <=> view \in Browser!ViewSet /\ page \in Nat \ {0}
                                    /\ filter \in Households \cup {None})
  /\ Browser!Query.view = view /\ Browser!Query.page = page /\ Browser!Query.filter = filter
BY DEF Queries, Browser!Query

LEMMA QueryPartsNext ==
  /\ (Browser!Query' \in Queries <=> view' \in Browser!ViewSet /\ page' \in Nat \ {0}
                                    /\ filter' \in Households \cup {None})
  /\ Browser!Query'.view = view' /\ Browser!Query'.page = page' /\ Browser!Query'.filter = filter'
BY DEF Queries, Browser!Query

LEMMA BrowserInvAnswers == BrowserInv => TablesAnswerTheQuestion
<1> SUFFICES ASSUME BrowserInv PROVE TablesAnswerTheQuestion
  OBVIOUS
<1>1. Browser!Query # None
  BY BrowserFacts DEF BrowserInv, QueryInv
<1>2. Browser!RowsAnswerTheQuestion
  BY DEF BrowserInv, TableInv, Browser!RowsAnswerTheQuestion
<1>3. problem \in BOOLEAN /\ Browser!PanelIsOfItsHousehold
  BY Zenon DEF BrowserInv, QueryInv, DrawerInv
<1>4. table.got \in {"nothing", "error", "page"} /\ Len(table.items) <= Limit
  BY DEF BrowserInv, TableInv, Tables
<1>5. /\ selected = None <=> opener = None /\ ~ panelAsked /\ panel = Browser!NoPanel
      /\ focus \in {"page", "panel", "lost"} /\ (focus = "panel" <=> selected # None)
  BY Zenon DEF BrowserInv, DrawerInv
<1>6. askedFor # None => askedFor.view = view
  BY QueryParts DEF BrowserInv, TableInv
<1>7. Browser!TypeOK
  BY <1>3, <1>4, <1>5, <1>6, QueryParts, Zenon DEF Browser!TypeOK, BrowserInv, ListsInv, QueryInv
<1> QED BY <1>2, <1>3, <1>7 DEF TablesAnswerTheQuestion

LEMMA BrowserStarts == Browser!Init => BrowserInv
<1> SUFFICES ASSUME Browser!Init PROVE BrowserInv
  OBVIOUS
<1>1. view \in Browser!ViewSet /\ page = 1 /\ filter = None /\ problem = FALSE
  BY BrowserFacts DEF Browser!Init
<1>2. Browser!Query \in Queries /\ askedFor = Browser!Query /\ Browser!Query # None
  BY <1>1, QueryParts, BrowserFacts DEF Browser!Init
<1>3. table \in Tables /\ Len(table.items) <= Limit /\ table.for = None
  BY BrowserFacts DEF Browser!Init, Browser!Nothing, Tables
<1>4. ListsInv
  BY BrowserFacts DEF Browser!Init, ListsInv
<1>5. /\ selected = None /\ opener = None /\ panelAsked = FALSE
      /\ panel = Browser!NoPanel /\ panel.of = None /\ focus = "page"
  BY DEF Browser!Init, Browser!NoPanel
<1>6. panelAsked \in BOOLEAN /\ ~ panelAsked /\ problem \in BOOLEAN
  BY <1>1, <1>5, Zenon
<1>7. DrawerInv
  BY <1>5, <1>6 DEF DrawerInv, Browser!PanelIsOfItsHousehold
<1>8. TableInv
  BY <1>2, <1>3 DEF TableInv
<1>9. QueryInv
  BY <1>2, <1>6, Zenon DEF QueryInv
<1> QED BY <1>4, <1>7, <1>8, <1>9 DEF BrowserInv

-----------------------------------------------------------------------------
(* What a step leaves alone. *)
LEMMA ListsStay == ListsInv /\ UNCHANGED Browser!listing => ListsInv'
BY DEF ListsInv, Browser!listing

LEMMA DrawerStays == DrawerInv /\ UNCHANGED Browser!drawer => DrawerInv'
<1> SUFFICES ASSUME DrawerInv, UNCHANGED Browser!drawer PROVE DrawerInv'
  OBVIOUS
<1>1. /\ selected' = selected /\ opener' = opener /\ panel' = panel
      /\ panelAsked' = panelAsked /\ focus' = focus
  BY DEF Browser!drawer
<1> QED BY <1>1, Zenon DEF DrawerInv, Browser!PanelIsOfItsHousehold, Browser!NoPanel

LEMMA QueryStays ==
  UNCHANGED Browser!query => /\ Browser!Query' = Browser!Query /\ view' = view
                             /\ (QueryInv => QueryInv')
<1> SUFFICES ASSUME UNCHANGED Browser!query
    PROVE  Browser!Query' = Browser!Query /\ view' = view /\ (QueryInv => QueryInv')
  OBVIOUS
<1>1. view' = view /\ page' = page /\ filter' = filter /\ problem' = problem
  BY DEF Browser!query
<1>2. Browser!Query' = Browser!Query
  BY <1>1 DEF Browser!Query
<1> QED BY <1>1, <1>2, Zenon DEF QueryInv

LEMMA TableStays ==
  TableInv /\ UNCHANGED <<Browser!query, Browser!loaded>> => TableInv'
<1> SUFFICES ASSUME TableInv, UNCHANGED Browser!query, UNCHANGED Browser!loaded PROVE TableInv'
  OBVIOUS
<1>1. Browser!Query' = Browser!Query /\ view' = view
  BY QueryStays
<1>2. askedFor' = askedFor /\ table' = table
  BY DEF Browser!loaded
<1> QED BY <1>1, <1>2 DEF TableInv

(* Whatever is asked for from now on, the rows on the screen are kept when *)
(* the tab is, and the question is asked again unless it is the same.      *)
LEMMA ReloadAnswers ==
  ASSUME BrowserInv, Browser!Query' \in Queries, Browser!Reload,
         table' = IF view' = view THEN table ELSE Browser!Nothing
  PROVE  TableInv'
<1>1. Browser!Query' # None
  BY BrowserFacts
<1>2. CASE <<view', page', filter'>> = <<view, page, filter>>
  <2>1. view' = view /\ page' = page /\ filter' = filter
    BY <1>2
  <2>2. Browser!Query' = Browser!Query /\ table' = table
    BY <2>1 DEF Browser!Query
  <2>3. askedFor' = askedFor
    BY <1>2 DEF Browser!Reload, Browser!RequestKey
  <2> QED BY <2>1, <2>2, <2>3 DEF BrowserInv, TableInv
<1>3. CASE <<view', page', filter'>> # <<view, page, filter>>
  <2>1. askedFor' = Browser!Query'
    BY <1>3 DEF Browser!Reload, Browser!RequestKey
  <2>2. table' \in Tables /\ Len(table'.items) <= Limit /\ (table'.for # None => table'.for.view = view')
    BY BrowserFacts DEF BrowserInv, TableInv, Browser!Nothing, Tables
  <2> QED BY <1>1, <2>1, <2>2 DEF TableInv
<1> QED BY <1>2, <1>3

LEMMA SomeTab ==
  ASSUME NEW v \in Browser!ViewSet, NEW offset \in {-1, 1}
  PROVE  Browser!TabOf(v, offset) \in Browser!ViewSet
<1> DEFINE n == Len(Views)
           i == CHOOSE j \in 1 .. n : Views[j] = v
<1>1. n \in Nat \ {0}
  BY BrowserFacts
<1>2. \E j \in 1 .. n : Views[j] = v
  BY BrowserFacts DEF Browser!ViewSet, Browser!ToSet
<1>3. i \in 1 .. n
  BY <1>2
<1> HIDE DEF i
<1>4. ((i - 1 + offset) % n) + 1 \in 1 .. n
  BY <1>1, <1>3
<1>5. Browser!TabOf(v, offset) = Views[((i - 1 + offset) % n) + 1]
  BY DEF Browser!TabOf, i
<1> QED BY <1>4, <1>5, BrowserFacts

LEMMA SelectTabStep ==
  ASSUME BrowserInv, NEW v \in Browser!ViewSet, Browser!SelectTab(v)
  PROVE  BrowserInv'
<1>1. /\ view' = v /\ page' = 1 /\ filter' = filter /\ problem' = problem
      /\ UNCHANGED Browser!listing /\ UNCHANGED Browser!drawer /\ Browser!Reload
      /\ table' = IF view' = view THEN table ELSE Browser!Nothing
  BY DEF Browser!SelectTab, Browser!ShowTab
<1>2. Browser!Query' \in Queries
  BY <1>1, QueryParts, QueryPartsNext DEF BrowserInv, QueryInv
<1>3. TableInv'
  BY <1>1, <1>2, ReloadAnswers
<1>4. QueryInv'
  BY <1>1, <1>2, Zenon DEF BrowserInv, QueryInv
<1> QED BY <1>1, <1>3, <1>4, ListsStay, DrawerStays DEF BrowserInv

LEMMA FindStep ==
  ASSUME BrowserInv, NEW f \in Households \cup {None}, Browser!Find(f)
  PROVE  BrowserInv'
<1>1. /\ view' = view /\ page' = 1 /\ filter' = f /\ problem' = FALSE
      /\ UNCHANGED Browser!listing /\ UNCHANGED Browser!drawer /\ Browser!Reload
      /\ table' = IF view' = view THEN table ELSE Browser!Nothing
  BY DEF Browser!Find
<1>2. Browser!Query' \in Queries
  BY <1>1, QueryParts, QueryPartsNext DEF BrowserInv, QueryInv
<1>3. TableInv'
  BY <1>1, <1>2, ReloadAnswers
<1>4. QueryInv'
  BY <1>1, <1>2, Zenon DEF QueryInv
<1> QED BY <1>1, <1>3, <1>4, ListsStay, DrawerStays DEF BrowserInv

LEMMA TurnStep ==
  ASSUME BrowserInv, NEW to \in Nat \ {0}, Browser!Turn(to)
  PROVE  BrowserInv'
<1>1. /\ view' = view /\ page' = to /\ filter' = filter /\ problem' = problem
      /\ UNCHANGED Browser!listing /\ UNCHANGED Browser!drawer /\ Browser!Reload
      /\ table' = IF view' = view THEN table ELSE Browser!Nothing
  BY DEF Browser!Turn
<1>2. Browser!Query' \in Queries
  BY <1>1, QueryParts, QueryPartsNext DEF BrowserInv, QueryInv
<1>3. TableInv'
  BY <1>1, <1>2, ReloadAnswers
<1>4. QueryInv'
  BY <1>1, <1>2, Zenon DEF BrowserInv, QueryInv
<1> QED BY <1>1, <1>3, <1>4, ListsStay, DrawerStays DEF BrowserInv

LEMMA PagerStep ==
  ASSUME BrowserInv, Browser!PressNext \/ Browser!PressPrevious
  PROVE  BrowserInv'
<1>1. table.page \in Nat \ {0}
  BY DEF BrowserInv, TableInv, Tables
<1>2. CASE Browser!PressNext
  <2>1. Browser!Turn(table.page + 1) /\ table.page + 1 \in Nat \ {0}
    BY <1>1, <1>2 DEF Browser!PressNext
  <2> QED BY <2>1, TurnStep
<1>3. CASE Browser!PressPrevious
  <2>1. Browser!Turn(table.page - 1) /\ table.page - 1 \in Nat \ {0}
    BY <1>1, <1>3 DEF Browser!PressPrevious
  <2> QED BY <2>1, TurnStep
<1> QED BY <1>2, <1>3

(* A page of the list, for whatever query. *)
LEMMA PageIsTable ==
  ASSUME ListsInv, NEW q \in Queries
  PROVE  Browser!PageOf(q) \in Tables /\ Len(Browser!PageOf(q).items) <= Limit
<1> DEFINE all == Browser!Matching(q.view, q.filter)
           first == (q.page - 1) * Limit
           last == IF first + Limit < Len(all) THEN first + Limit ELSE Len(all)
<1>1. q.view \in Browser!ViewSet /\ q.page \in Nat \ {0} /\ q.filter \in Households \cup {None}
  BY DEF Queries
<1>2. all \in Seq(Households)
  <2>1. lists[q.view] \in Seq(Households)
    BY <1>1 DEF ListsInv
  <2>2. q.filter # None => <<q.filter>> \in Seq(Households)
    BY <1>1
  <2> QED BY <2>1, <2>2 DEF Browser!Matching
<1> HIDE DEF all
<1>3. first \in Nat
  <2>1. \A a, b \in Nat : a * b \in Nat
    OBVIOUS
  <2>2. q.page - 1 \in Nat /\ Limit \in Nat
    BY <1>1, BrowserFacts
  <2> QED BY <2>1, <2>2
<1> HIDE DEF first
<1>4. last \in Nat /\ last <= Len(all) /\ last <= first + Limit
  BY <1>2, <1>3, BrowserFacts
<1> HIDE DEF last
<1>5. SubSeq(all, first + 1, last) \in Seq(Households) /\ Len(SubSeq(all, first + 1, last)) <= Limit
  BY <1>2, <1>3, <1>4, BrowserFacts
<1>6. Browser!PageOf(q) = [got |-> "page", for |-> q, items |-> SubSeq(all, first + 1, last),
                           page |-> q.page, total |-> Len(all)]
  BY DEF Browser!PageOf, all, first, last
<1>7. Len(all) \in Nat
  BY <1>2
<1> QED BY <1>1, <1>5, <1>6, <1>7 DEF Tables

LEMMA TableStep ==
  ASSUME BrowserInv, Browser!TableAnswers \/ Browser!TableFails
  PROVE  BrowserInv'
<1>1. /\ askedFor # None /\ askedFor' = None
      /\ UNCHANGED Browser!listing /\ UNCHANGED Browser!query /\ UNCHANGED Browser!drawer
  BY DEF Browser!TableAnswers, Browser!TableFails
<1>2. askedFor = Browser!Query /\ Browser!Query \in Queries
  BY <1>1 DEF BrowserInv, TableInv, QueryInv
<1>3. table' \in Tables /\ Len(table'.items) <= Limit /\ table'.for = Browser!Query
  <2>1. CASE Browser!TableAnswers
    <3>1. table' = Browser!PageOf(Browser!Query)
      BY <1>2, <2>1 DEF Browser!TableAnswers
    <3>2. Browser!PageOf(Browser!Query).for = Browser!Query
      BY DEF Browser!PageOf
    <3> QED BY <1>2, <3>1, <3>2, PageIsTable DEF BrowserInv
  <2>2. CASE Browser!TableFails
    <3>1. table' = [got |-> "error", for |-> Browser!Query, items |-> <<>>, page |-> 1, total |-> 0]
      BY <1>2, <2>2 DEF Browser!TableFails, Browser!Nothing
    <3> QED BY <1>2, <3>1, BrowserFacts DEF Tables
  <2> QED BY <2>1, <2>2
<1>4. TableInv'
  BY <1>1, <1>3, QueryStays, QueryParts DEF TableInv
<1> QED BY <1>1, <1>4, ListsStay, DrawerStays, QueryStays DEF BrowserInv

LEMMA ListChangesStep ==
  ASSUME BrowserInv, NEW v \in Browser!ViewSet, NEW list \in Browser!Orders,
         Browser!ListChanges(v, list)
  PROVE  BrowserInv'
<1>1. list \in Seq(Households)
  <2>1. PICK n \in 0 .. Browser!Cardinality(Households) : list \in [1 .. n -> Households]
    BY DEF Browser!Orders
  <2>2. CASE n \in Nat
    BY <2>1, <2>2
  <2>3. CASE n \notin Nat
    BY <2>1, <2>3
  <2> QED BY <2>2, <2>3
<1>2. ListsInv'
  BY <1>1, BrowserFacts DEF BrowserInv, ListsInv, Browser!ListChanges
<1>3. UNCHANGED Browser!query /\ UNCHANGED Browser!loaded /\ UNCHANGED Browser!drawer
  BY DEF Browser!ListChanges
<1> QED BY <1>2, <1>3, TableStays, DrawerStays, QueryStays DEF BrowserInv

LEMMA FindRefusedStep == BrowserInv /\ Browser!FindRefused => BrowserInv'
<1> SUFFICES ASSUME BrowserInv, Browser!FindRefused PROVE BrowserInv'
  OBVIOUS
<1>1. /\ problem' = TRUE /\ view' = view /\ page' = page /\ filter' = filter
      /\ UNCHANGED Browser!listing /\ UNCHANGED Browser!loaded /\ UNCHANGED Browser!drawer
  BY DEF Browser!FindRefused
<1>2. Browser!Query' = Browser!Query
  BY <1>1 DEF Browser!Query
<1>3. QueryInv'
  BY <1>1, <1>2, Zenon DEF BrowserInv, QueryInv
<1>4. TableInv'
  BY <1>1, <1>2 DEF BrowserInv, TableInv, Browser!loaded
<1> QED BY <1>1, <1>3, <1>4, ListsStay, DrawerStays DEF BrowserInv

LEMMA RefreshStep == BrowserInv /\ Browser!Refresh => BrowserInv'
<1> SUFFICES ASSUME BrowserInv, Browser!Refresh PROVE BrowserInv'
  OBVIOUS
<1>1. /\ askedFor' = Browser!Query /\ panelAsked' = (selected # None)
      /\ UNCHANGED Browser!listing /\ UNCHANGED Browser!query
      /\ table' = table /\ selected' = selected /\ opener' = opener /\ panel' = panel
      /\ focus' = focus
  BY DEF Browser!Refresh
<1>2. Browser!Query # None
  BY BrowserFacts DEF BrowserInv, QueryInv
<1>3. TableInv'
  BY <1>1, <1>2, QueryStays DEF BrowserInv, TableInv
<1>4. DrawerInv'
  BY <1>1, Zenon DEF BrowserInv, DrawerInv, Browser!PanelIsOfItsHousehold, Browser!NoPanel
<1> QED BY <1>1, <1>3, <1>4, ListsStay, QueryStays DEF BrowserInv

LEMMA OpenStep ==
  ASSUME BrowserInv, NEW h \in Households, NEW button \in Buttons, Browser!Open(h, button)
  PROVE  BrowserInv'
<1>1. /\ selected = None /\ selected' = h /\ opener' = button /\ panelAsked' = TRUE
      /\ focus' = "panel" /\ panel' = panel
      /\ UNCHANGED Browser!listing /\ UNCHANGED Browser!query /\ UNCHANGED Browser!loaded
  BY DEF Browser!Open
<1>2. panel.of = None
  BY <1>1 DEF BrowserInv, DrawerInv, Browser!NoPanel
<1>3. selected' # None /\ opener' # None
  BY <1>1, BrowserFacts
<1>4. DrawerInv'
  BY <1>1, <1>2, <1>3, Zenon DEF DrawerInv, Browser!PanelIsOfItsHousehold
<1> QED BY <1>1, <1>4, ListsStay, TableStays, QueryStays DEF BrowserInv

LEMMA OpenSteps ==
  ASSUME BrowserInv, Browser!OpenFromTable \/ Browser!OpenFromRanking
  PROVE  BrowserInv'
<1>1. CASE Browser!OpenFromTable
  <2>1. PICK i \in DOMAIN table.items :
             Browser!Open(table.items[i], Browser!OwnButton(table.items[i]))
    BY <1>1 DEF Browser!OpenFromTable
  <2>2. table.items[i] \in Households
    BY DEF BrowserInv, TableInv, Tables
  <2>3. Browser!OwnButton(table.items[i]) \in Buttons
    BY <2>2 DEF Browser!OwnButton, Buttons
  <2> QED BY <2>1, <2>2, <2>3, OpenStep
<1>2. CASE Browser!OpenFromRanking
  <2>0. PICK v \in Browser!ViewSet :
             \E i \in DOMAIN lists[v] : Browser!Open(lists[v][i], Browser!RankingButton)
    BY <1>2 DEF Browser!OpenFromRanking
  <2>1. PICK i \in DOMAIN lists[v] : Browser!Open(lists[v][i], Browser!RankingButton)
    BY <2>0
  <2>2. lists[v][i] \in Households
    <3>1. lists[v] \in Seq(Households)
      BY DEF BrowserInv, ListsInv
    <3> QED BY <3>1
  <2>3. Browser!RankingButton \in Buttons
    BY DEF Browser!RankingButton, Buttons
  <2> QED BY <2>1, <2>2, <2>3, OpenStep
<1> QED BY <1>1, <1>2

LEMMA CloseStep == BrowserInv /\ Browser!CloseDrawer => BrowserInv'
<1> SUFFICES ASSUME BrowserInv, Browser!CloseDrawer PROVE BrowserInv'
  OBVIOUS
<1>1. /\ selected' = None /\ opener' = None /\ panelAsked' = FALSE /\ panel' = Browser!NoPanel
      /\ UNCHANGED Browser!listing /\ UNCHANGED Browser!query /\ UNCHANGED Browser!loaded
  BY DEF Browser!CloseDrawer, Browser!Shut
<1>2. focus' \in {"page", "lost"}
  BY DEF Browser!CloseDrawer, Browser!Shut
<1>3. panel'.of = None /\ Browser!NoPanel' = Browser!NoPanel
  BY <1>1 DEF Browser!NoPanel
<1>4. focus' # "panel" /\ focus' \in {"page", "panel", "lost"}
  BY <1>2
<1>5. DrawerInv'
  BY <1>1, <1>3, <1>4, Zenon DEF DrawerInv, Browser!PanelIsOfItsHousehold
<1> QED BY <1>1, <1>5, ListsStay, TableStays, QueryStays DEF BrowserInv

LEMMA PanelStep ==
  ASSUME BrowserInv, NEW failing \in SUBSET Browser!PanelParts, Browser!PanelAnswers(failing)
  PROVE  BrowserInv'
<1>1. /\ panelAsked /\ panelAsked' = FALSE /\ selected' = selected /\ opener' = opener
      /\ focus' = focus /\ panel'.of = selected
      /\ UNCHANGED Browser!listing /\ UNCHANGED Browser!query /\ UNCHANGED Browser!loaded
  BY DEF Browser!PanelAnswers
<1>2. selected # None /\ opener # None
  <2>1. selected # None
    BY <1>1, Zenon DEF BrowserInv, DrawerInv
  <2>2. opener # None
    BY <2>1, <1>1 DEF BrowserInv, DrawerInv
  <2> QED BY <2>1, <2>2
<1>5. DrawerInv'
  BY <1>1, <1>2, Zenon DEF BrowserInv, DrawerInv, Browser!PanelIsOfItsHousehold
<1> QED BY <1>1, <1>5, ListsStay, TableStays, QueryStays DEF BrowserInv

LEMMA BrowserNext == BrowserInv /\ [Browser!Next]_(Browser!vars) => BrowserInv'
<1> SUFFICES ASSUME BrowserInv, [Browser!Next]_(Browser!vars) PROVE BrowserInv'
  OBVIOUS
<1>1. ASSUME NEW v \in Browser!ViewSet, NEW list \in Browser!Orders, Browser!ListChanges(v, list)
      PROVE  BrowserInv'
  BY <1>1, ListChangesStep
<1>2. CASE Browser!Operator
  <2>1. ASSUME NEW v \in Browser!ViewSet, Browser!SelectTab(v) PROVE BrowserInv'
    BY <2>1, SelectTabStep
  <2>2. ASSUME NEW offset \in {-1, 1}, Browser!ArrowKey(offset) PROVE BrowserInv'
    <3>1. view \in Browser!ViewSet
      BY QueryParts DEF BrowserInv, QueryInv
    <3> QED BY <2>2, <3>1, SomeTab, SelectTabStep DEF Browser!ArrowKey
  <2>3. ASSUME NEW f \in Households \cup {None}, Browser!Find(f) PROVE BrowserInv'
    BY <2>3, FindStep
  <2> QED BY <1>2, <2>1, <2>2, <2>3, FindRefusedStep, PagerStep, OpenSteps, CloseStep
          DEF Browser!Operator
<1>3. ASSUME NEW failing \in SUBSET Browser!PanelParts, Browser!PanelAnswers(failing)
      PROVE  BrowserInv'
  BY <1>3, PanelStep
<1>4. CASE UNCHANGED Browser!vars
  <2>1. /\ UNCHANGED Browser!listing /\ UNCHANGED Browser!query /\ UNCHANGED Browser!loaded
        /\ UNCHANGED Browser!drawer
    BY <1>4 DEF Browser!vars
  <2> QED BY <2>1, ListsStay, QueryStays, TableStays, DrawerStays DEF BrowserInv
<1> QED BY <1>1, <1>2, <1>3, <1>4, TableStep, RefreshStep DEF Browser!Next

(* The rows of the households page answer the tab, page and filter that    *)
(* are chosen, whatever the operator presses, the services answer, or fail *)
(* to answer, meanwhile; and the panel is of the household in its title.   *)
(* (HouseholdTables, useHouseholdDetail)                                   *)
THEOREM TablesAlwaysAnswer == MCSpec => []TablesAnswerTheQuestion
<1>1. MCInit => BrowserInv
  BY BrowserStarts DEF MCInit
<1>2. BrowserInv /\ [MCNext]_mcVars => BrowserInv'
  <2> SUFFICES ASSUME BrowserInv, [MCNext]_mcVars PROVE BrowserInv'
    OBVIOUS
  <2>1. Browser!Next \/ UNCHANGED browserVars
    BY DEF MCNext, mcVars, SessionSteps, AttentionSteps, BrowserSteps, RangeSteps
  <2>2. UNCHANGED browserVars => UNCHANGED Browser!vars
    BY DEF browserVars, Browser!vars, Browser!listing, Browser!query, Browser!loaded, Browser!drawer
  <2> QED BY <2>1, <2>2, BrowserNext
<1>3. BrowserInv => TablesAnswerTheQuestion
  BY BrowserInvAnswers
<1> QED BY <1>1, <1>2, <1>3, PTL DEF MCSpec, mcVars

-----------------------------------------------------------------------------
(***************************************************************************)
(* A tab of the dashboard (DashboardSession).  MCDashboard has the module  *)
(* twice, with constants of its own and with those of "sessions".  What    *)
(* follows speaks of any tokens T, public resources P, n parts, and at     *)
(* most ms starts and mf refreshes.                                        *)
(***************************************************************************)
WantsTo(mf) == [window : Windows, refresh : 0 .. mf]
KeysTo(mf) == [window : Windows \cup {None}, refresh : 0 .. mf]
Settled(ms, mf) == [data : KeysTo(mf) \cup {None}, error : BOOLEAN,
                    for : KeysTo(mf) \cup {None}, by : 0 .. ms]
LoadsOf(T, n, ms, mf) ==
    [of : Resources, by : 1 .. ms, key : KeysTo(mf), token : T \cup {None},
     wasValid : BOOLEAN, left : 1 .. n, aborted : BOOLEAN]
Logins(T) == {NotAsking} \cup [at : {"asking"}, token : T, service : 1 .. Services]

SessionTypes(T, n, ms, mf) ==
    /\ valid \in T /\ token \in T \cup {None} /\ login \in Logins(T)
    /\ app \in {"signin", "open"} /\ want \in WantsTo(mf) /\ running \in WantsTo(mf)
    /\ settled \in [Resources -> Settled(ms, mf)]
    /\ requests \subseteq LoadsOf(T, n, ms, mf)
    /\ auto \in BOOLEAN /\ hidden \in BOOLEAN
    /\ starts \in 0 .. ms

Live(q) == q.aborted = FALSE

(* A hook has one load of a start, no load is from the future, one that    *)
(* has not been cancelled is newer than what is shown and than all others; *)
(* what is shown answers the key it is shown for; a token is checked only  *)
(* while there is none; and a live load carries the token of the session.  *)
SessionOrder(P) ==
    /\ \A p, q \in requests : p.of = q.of /\ p.by = q.by => p = q
    /\ \A q \in requests : q.by <= starts
    /\ \A r \in Resources : settled[r].by <= starts
    /\ \A q \in requests : Live(q) =>
          /\ q.by > settled[q.of].by
          /\ \A p \in requests : p.of = q.of => p.by <= q.by
          /\ token # None => q.token = IF q.of \in P THEN None ELSE token
    /\ \A r \in Resources : settled[r].data \in {None, settled[r].for}
    /\ login # NotAsking => app = "signin" /\ token = None
    /\ app = "signin" => \A q \in requests : ~ Live(q)

SessionInv(T, P, n, ms, mf) == SessionTypes(T, n, ms, mf) /\ SessionOrder(P)

-----------------------------------------------------------------------------
(* The steps, as far as they matter. *)
LooksOn(T, mf) ==
    /\ valid' \in T /\ want' \in WantsTo(mf) /\ auto' \in BOOLEAN /\ hidden' \in BOOLEAN
    /\ UNCHANGED <<token, login, app, running, settled, requests, starts>>

AsksToSignIn(T) ==
    /\ app = "signin" /\ token = None
    /\ login' \in [at : {"asking"}, token : T, service : {1}]
    /\ UNCHANGED <<valid, token, app, want, running, settled, requests, starts, auto, hidden>>

IsChecked(T) ==
    /\ login # NotAsking
    /\ \/ token' = login.token /\ login' = NotAsking
       \/ token' = token /\ login' = NotAsking
       \/ /\ token' = token /\ login.service < Services
          /\ login' = [login EXCEPT !.service = @ + 1]
    /\ UNCHANGED <<valid, app, want, running, settled, requests, starts, auto, hidden>>

Reloads ==
    /\ app' = "signin" /\ requests' = {} /\ login' = NotAsking
    /\ UNCHANGED <<valid, token, want, running, settled, starts, auto, hidden>>

Started(P, n, S, w) ==
    {[of |-> r, by |-> starts + 1, key |-> KeyOf(r, w),
      token |-> IF r \in P THEN None ELSE token,
      wasValid |-> ((IF r \in P THEN None ELSE token) = valid),
      left |-> n, aborted |-> FALSE] : r \in S}

Starts(P, n, ms, S, w) ==
    /\ starts < ms /\ starts' = starts + 1
    /\ requests' = Cancelled({q \in requests : q.of \in S}) \cup Started(P, n, S, w)

Opens(P, n, ms) ==
    /\ app = "signin" /\ token # None
    /\ app' = "open" /\ want' = First /\ running' = First
    /\ settled' = [r \in Resources |-> Unsettled] /\ auto' = TRUE
    /\ Starts(P, n, ms, Resources, First)
    /\ UNCHANGED <<valid, token, login, hidden>>

Closes ==
    /\ token = None /\ app' = "signin" /\ requests' = Cancelled(requests)
    /\ UNCHANGED <<valid, token, login, want, running, settled, starts, auto, hidden>>

Rerenders(P, n, ms) ==
    /\ app = "open" /\ token # None /\ running' = want
    /\ \E S \in SUBSET Resources : Starts(P, n, ms, S, want)
    /\ UNCHANGED <<valid, token, login, app, want, settled, auto, hidden>>

GoesOn(q) ==
    /\ q.left > 1 /\ requests' = (requests \ {q}) \cup {[q EXCEPT !.left = @ - 1]}
    /\ UNCHANGED <<settled, token>>
Settles(P, q) ==
    /\ requests' = requests \ {q}
    /\ \E ok \in BOOLEAN : Settle(q, ok)
    /\ token' = token \/ (q.of \notin P /\ Live(q) /\ token' = None)

IsAnswered(P) ==
    /\ \E q \in requests : GoesOn(q) \/ Settles(P, q)
    /\ UNCHANGED <<valid, login, app, want, running, auto, hidden, starts>>

SessionStep(T, P, n, ms, mf) ==
    \/ LooksOn(T, mf) \/ AsksToSignIn(T) \/ IsChecked(T) \/ SignOut \/ Reloads
    \/ Opens(P, n, ms) \/ Closes \/ Rerenders(P, n, ms) \/ IsAnswered(P)

-----------------------------------------------------------------------------
OurInv == SessionInv(Tokens, Public, Parts, MaxStarts, MaxRefreshes)
TheirInv == SessionInv(SessionTokens, SessionPublic, SessionParts, MaxSessionStarts,
                       MaxSessionRefreshes)

LEMMA OurSteps ==
  ASSUME OurInv, Next
  PROVE  SessionStep(Tokens, Public, Parts, MaxStarts, MaxRefreshes)
<1>0. /\ valid \in Tokens /\ want \in WantsTo(MaxRefreshes) /\ auto \in BOOLEAN
      /\ hidden \in BOOLEAN /\ requests \subseteq LoadsOf(Tokens, Parts, MaxStarts, MaxRefreshes)
  BY Zenon DEF OurInv, SessionInv, SessionTypes
<1>1. ASSUME NEW t \in Tokens, SignIn(t) PROVE AsksToSignIn(Tokens)
  BY <1>1 DEF SignIn, AsksToSignIn, viewVars, loadVars
<1>2. ASSUME NEW w \in Windows, ChoosePeriod(w) PROVE LooksOn(Tokens, MaxRefreshes)
  <2>1. want' \in WantsTo(MaxRefreshes)
    BY <1>0, <1>2 DEF ChoosePeriod, WantsTo
  <2>2. /\ valid' = valid /\ auto' = auto /\ hidden' = hidden
        /\ UNCHANGED <<token, login, app, running, settled, requests, starts>>
    BY <1>2 DEF ChoosePeriod, sessionVars, viewVars, loadVars
  <2> QED BY <1>0, <2>1, <2>2, Zenon DEF LooksOn
<1>3. ASSUME NEW who, DoRefresh(who), hidden' \in BOOLEAN PROVE LooksOn(Tokens, MaxRefreshes)
  <2>1. want' \in WantsTo(MaxRefreshes)
    BY <1>0, <1>3, SessionConstants DEF DoRefresh, WantsTo, DashboardAssumption
  <2>2. /\ valid' = valid /\ auto' = auto
        /\ UNCHANGED <<token, login, app, running, settled, requests, starts>>
    BY <1>3 DEF DoRefresh, sessionVars, loadVars
  <2> QED BY <1>0, <1>3, <2>1, <2>2, Zenon DEF LooksOn
<1>4. CASE Refresh \/ Tick \/ TickOnReturn
  <2>1. hidden' = hidden \/ hidden' = FALSE
    BY <1>4 DEF Refresh, Tick, TickOnReturn
  <2>2. hidden' \in BOOLEAN
    BY <1>0, <2>1, Zenon
  <2>3. DoRefresh("operator") \/ DoRefresh("timer")
    BY <1>4 DEF Refresh, Tick, TickOnReturn
  <2> QED BY <1>3, <2>2, <2>3 DEF SessionStep
<1>5. CASE ToggleAuto \/ HideOrShow
  <2>1. /\ auto' \in BOOLEAN /\ hidden' \in BOOLEAN
    BY <1>0, <1>5, Zenon DEF ToggleAuto, HideOrShow
  <2>2. /\ valid' = valid /\ want' = want
        /\ UNCHANGED <<token, login, app, running, settled, requests, starts>>
    BY <1>5 DEF ToggleAuto, HideOrShow, sessionVars, loadVars
  <2> QED BY <1>0, <2>1, <2>2, Zenon DEF LooksOn, SessionStep
<1>6. CASE RotateToken
  <2>1. /\ valid' \in Tokens /\ want' = want /\ auto' = auto /\ hidden' = hidden
        /\ UNCHANGED <<token, login, app, running, settled, requests, starts>>
    BY <1>6 DEF RotateToken, viewVars, loadVars
  <2> QED BY <1>0, <2>1, Zenon DEF LooksOn, SessionStep
<1>7. CASE SignOut
  BY <1>7 DEF SessionStep
<1>8. CASE Reload
  BY <1>8 DEF Reload, Reloads, SessionStep, viewVars
<1>9. CASE Checked
  BY <1>9 DEF Checked, IsChecked, SessionStep, viewVars, loadVars
<1>10. ASSUME NEW S, NEW w
       PROVE  {Load(r, KeyOf(r, w)) : r \in S} = Started(Public, Parts, S, w)
  BY DEF Load, Started
<1>11. CASE Open
  BY <1>10, <1>11 DEF Open, Opens, SessionStep, StartOver, Starts, sessionVars
<1>12. CASE Close
  BY <1>12 DEF Close, Closes, SessionStep, sessionVars, viewVars
<1>13. CASE Rerender
  <2> DEFINE S == {r \in Resources : KeyOf(r, want) # KeyOf(r, running)}
  <2>1. StartOver(S, want) /\ S \in SUBSET Resources
    BY <1>13 DEF Rerender
  <2> HIDE DEF S
  <2>2. Starts(Public, Parts, MaxStarts, S, want)
    BY <1>10, <2>1 DEF StartOver, Starts
  <2> QED BY <1>13, <2>1, <2>2 DEF Rerender, Rerenders, SessionStep, sessionVars, viewVars
<1>14. CASE Answer
  <2>1. PICK q \in requests : PartDone(q) \/ PartFailed(q) \/ PartRefused(q)
    BY <1>14 DEF Answer
  <2>2. q.aborted \in BOOLEAN
    BY <1>0 DEF LoadsOf
  <2>3. GoesOn(q) \/ Settles(Public, q)
    <3>1. CASE PartDone(q)
      BY <3>1 DEF PartDone, GoesOn, Settles, Drop
    <3>2. CASE PartFailed(q)
      BY <3>2 DEF PartFailed, Settles, Drop
    <3>3. CASE PartRefused(q)
      BY <2>2, <3>3 DEF PartRefused, Settles, Drop, Live
    <3> QED BY <2>1, <3>1, <3>2, <3>3
  <2> QED BY <1>14, <2>3 DEF Answer, IsAnswered, SessionStep, viewVars
<1> QED BY <1>1, <1>2, <1>4, <1>5, <1>6, <1>7, <1>8, <1>9, <1>11, <1>12, <1>13, <1>14
        DEF Next, Operator, Commit, SessionStep

(* The instance is the same but for its constants. *)
LEMMA SessionsBridge ==
  /\ \A S : Sessions!Cancelled(S) = Cancelled(S)
  /\ \A q, ok : Sessions!Settle(q, ok) = Settle(q, ok)
  /\ \A r, w : Sessions!KeyOf(r, w) = KeyOf(r, w)
  /\ Sessions!NotAsking = NotAsking /\ Sessions!First = First /\ Sessions!Unsettled = Unsettled
  /\ Sessions!SignOut <=> SignOut
<1>1. Sessions!SignOut <=> SignOut
  BY DEF Sessions!SignOut, SignOut, Sessions!viewVars, viewVars, Sessions!loadVars, loadVars
<1> QED BY <1>1 DEF Sessions!Cancelled, Cancelled, Sessions!Settle, Settle, Sessions!KeyOf, KeyOf,
    Sessions!NotAsking, NotAsking, Sessions!First, First, Sessions!Unsettled, Unsettled

LEMMA TheirSteps ==
  ASSUME TheirInv, Sessions!Next
  PROVE  SessionStep(SessionTokens, SessionPublic, SessionParts, MaxSessionStarts,
                     MaxSessionRefreshes)
<1>0. /\ valid \in SessionTokens /\ want \in WantsTo(MaxSessionRefreshes) /\ auto \in BOOLEAN
      /\ hidden \in BOOLEAN
      /\ requests \subseteq LoadsOf(SessionTokens, SessionParts, MaxSessionStarts,
                             MaxSessionRefreshes)
  BY Zenon DEF TheirInv, SessionInv, SessionTypes
<1>1. ASSUME NEW t \in SessionTokens, Sessions!SignIn(t) PROVE AsksToSignIn(SessionTokens)
  BY <1>1, SessionsBridge DEF Sessions!SignIn, AsksToSignIn, Sessions!viewVars, Sessions!loadVars
<1>2. ASSUME NEW w \in Windows, Sessions!ChoosePeriod(w)
      PROVE  LooksOn(SessionTokens, MaxSessionRefreshes)
  <2>1. want' \in WantsTo(MaxSessionRefreshes)
    BY <1>0, <1>2 DEF Sessions!ChoosePeriod, WantsTo
  <2>2. /\ valid' = valid /\ auto' = auto /\ hidden' = hidden
        /\ UNCHANGED <<token, login, app, running, settled, requests, starts>>
    BY <1>2 DEF Sessions!ChoosePeriod, Sessions!sessionVars, Sessions!viewVars, Sessions!loadVars
  <2> QED BY <1>0, <2>1, <2>2, Zenon DEF LooksOn
<1>3. ASSUME NEW who, Sessions!DoRefresh(who), hidden' \in BOOLEAN
      PROVE  LooksOn(SessionTokens, MaxSessionRefreshes)
  <2>1. want' \in WantsTo(MaxSessionRefreshes)
    BY <1>0, <1>3, SessionConstants DEF Sessions!DoRefresh, WantsTo, Sessions!DashboardAssumption
  <2>2. /\ valid' = valid /\ auto' = auto
        /\ UNCHANGED <<token, login, app, running, settled, requests, starts>>
    BY <1>3 DEF Sessions!DoRefresh, Sessions!sessionVars, Sessions!loadVars
  <2> QED BY <1>0, <1>3, <2>1, <2>2, Zenon DEF LooksOn
<1>4. CASE Sessions!Refresh \/ Sessions!Tick \/ Sessions!TickOnReturn
  <2>1. hidden' = hidden \/ hidden' = FALSE
    BY <1>4 DEF Sessions!Refresh, Sessions!Tick, Sessions!TickOnReturn
  <2>2. hidden' \in BOOLEAN
    BY <1>0, <2>1, Zenon
  <2>3. Sessions!DoRefresh("operator") \/ Sessions!DoRefresh("timer")
    BY <1>4 DEF Sessions!Refresh, Sessions!Tick, Sessions!TickOnReturn
  <2> QED BY <1>3, <2>2, <2>3 DEF SessionStep
<1>5. CASE Sessions!ToggleAuto \/ Sessions!HideOrShow
  <2>1. /\ auto' \in BOOLEAN /\ hidden' \in BOOLEAN
    BY <1>0, <1>5, Zenon DEF Sessions!ToggleAuto, Sessions!HideOrShow
  <2>2. /\ valid' = valid /\ want' = want
        /\ UNCHANGED <<token, login, app, running, settled, requests, starts>>
    BY <1>5 DEF Sessions!ToggleAuto, Sessions!HideOrShow, Sessions!sessionVars, Sessions!loadVars
  <2> QED BY <1>0, <2>1, <2>2, Zenon DEF LooksOn, SessionStep
<1>6. CASE Sessions!RotateToken
  <2>1. /\ valid' \in SessionTokens /\ want' = want /\ auto' = auto /\ hidden' = hidden
        /\ UNCHANGED <<token, login, app, running, settled, requests, starts>>
    BY <1>6 DEF Sessions!RotateToken, Sessions!viewVars, Sessions!loadVars
  <2> QED BY <1>0, <2>1, Zenon DEF LooksOn, SessionStep
<1>7. CASE Sessions!SignOut
  BY <1>7, SessionsBridge DEF SessionStep
<1>8. CASE Sessions!Reload
  BY <1>8, SessionsBridge DEF Sessions!Reload, Reloads, SessionStep, Sessions!viewVars
<1>9. CASE Sessions!Checked
  BY <1>9, SessionsBridge
     DEF Sessions!Checked, IsChecked, SessionStep, Sessions!viewVars, Sessions!loadVars
<1>10. ASSUME NEW S, NEW w
       PROVE  {Sessions!Load(r, Sessions!KeyOf(r, w)) : r \in S} =
                  Started(SessionPublic, SessionParts, S, w)
  BY SessionsBridge DEF Sessions!Load, Started
<1>11. CASE Sessions!Open
  BY <1>10, <1>11, SessionsBridge
     DEF Sessions!Open, Opens, SessionStep, Sessions!StartOver, Starts, Sessions!sessionVars
<1>12. CASE Sessions!Close
  BY <1>12, SessionsBridge
     DEF Sessions!Close, Closes, SessionStep, Sessions!sessionVars, Sessions!viewVars
<1>13. CASE Sessions!Rerender
  <2> DEFINE S == {r \in Resources : Sessions!KeyOf(r, want) # Sessions!KeyOf(r, running)}
  <2>1. Sessions!StartOver(S, want) /\ S \in SUBSET Resources
    BY <1>13 DEF Sessions!Rerender
  <2> HIDE DEF S
  <2>2. Starts(SessionPublic, SessionParts, MaxSessionStarts, S, want)
    BY <1>10, <2>1, SessionsBridge DEF Sessions!StartOver, Starts
  <2> QED BY <1>13, <2>1, <2>2
             DEF Sessions!Rerender, Rerenders, SessionStep, Sessions!sessionVars, Sessions!viewVars
<1>14. CASE Sessions!Answer
  <2>1. PICK q \in requests :
          Sessions!PartDone(q) \/ Sessions!PartFailed(q) \/ Sessions!PartRefused(q)
    BY <1>14 DEF Sessions!Answer
  <2>2. q.aborted \in BOOLEAN
    BY <1>0 DEF LoadsOf
  <2>3. GoesOn(q) \/ Settles(SessionPublic, q)
    <3>1. CASE Sessions!PartDone(q)
      BY <3>1, SessionsBridge DEF Sessions!PartDone, GoesOn, Settles, Sessions!Drop
    <3>2. CASE Sessions!PartFailed(q)
      BY <3>2, SessionsBridge DEF Sessions!PartFailed, Settles, Sessions!Drop
    <3>3. CASE Sessions!PartRefused(q)
      BY <2>2, <3>3, SessionsBridge DEF Sessions!PartRefused, Settles, Sessions!Drop, Live
    <3> QED BY <2>1, <3>1, <3>2, <3>3
  <2> QED BY <1>14, <2>3 DEF Sessions!Answer, IsAnswered, SessionStep, Sessions!viewVars
<1> QED BY <1>1, <1>2, <1>4, <1>5, <1>6, <1>7, <1>8, <1>9, <1>11, <1>12, <1>13, <1>14
        DEF Sessions!Next, Sessions!Operator, Sessions!Commit, SessionStep

-----------------------------------------------------------------------------
(* The number of starts, of refreshes and of parts. *)
Sizes(n, ms, mf) == n \in Nat \ {0} /\ ms \in Nat /\ mf \in Nat

LEMMA SessionBegins ==
  ASSUME NEW T, NEW P, NEW n, NEW ms, NEW mf, Sizes(n, ms, mf), FirstWindow \in Windows,
         valid \in T, token = None, login = NotAsking, app = "signin", want = First,
         running = First, settled = [r \in Resources |-> Unsettled], requests = {},
         auto = TRUE, hidden = FALSE, starts = 0
  PROVE  SessionInv(T, P, n, ms, mf)
<1>1. auto \in BOOLEAN /\ hidden \in BOOLEAN
  BY Zenon
<1>2. First \in WantsTo(mf)
  BY DEF First, WantsTo, Sizes
<1>3. Unsettled \in Settled(ms, mf) /\ Unsettled.by = 0 /\ Unsettled.data = None
  BY DEF Unsettled, Settled, Sizes
<1>4. settled \in [Resources -> Settled(ms, mf)]
  BY <1>3
<1>5. starts \in 0 .. ms
  BY DEF Sizes
<1>6. SessionTypes(T, n, ms, mf)
  BY <1>1, <1>2, <1>4, <1>5, Zenon DEF SessionTypes, Logins
<1>7. SessionOrder(P)
  BY <1>3 DEF SessionOrder
<1> QED BY <1>6, <1>7 DEF SessionInv

(* Cancelling loads keeps what they are. *)
LEMMA CancelledLoads ==
  ASSUME NEW T, NEW n, NEW ms, NEW mf, requests \subseteq LoadsOf(T, n, ms, mf), NEW S
  PROVE  /\ Cancelled(S) \subseteq LoadsOf(T, n, ms, mf)
         /\ \A c \in Cancelled(S) : \E q \in requests :
               /\ c = [q EXCEPT !.aborted = q.aborted \/ q \in S]
               /\ c.of = q.of /\ c.by = q.by /\ c.token = q.token
               /\ (Live(c) => Live(q) /\ q \notin S /\ c = q)
<1>1. ASSUME NEW q \in requests
      PROVE  LET c == [q EXCEPT !.aborted = (@ \/ q \in S)] IN
             /\ c \in LoadsOf(T, n, ms, mf) /\ c.of = q.of /\ c.by = q.by /\ c.token = q.token
             /\ (Live(c) => Live(q) /\ q \notin S /\ c = q)
  <2> DEFINE b == q.aborted \/ q \in S
             c == [q EXCEPT !.aborted = b]
  <2>1. q \in LoadsOf(T, n, ms, mf)
    OBVIOUS
  <2>2. b \in BOOLEAN /\ (b = FALSE => q.aborted = FALSE /\ q \notin S)
    <3>1. q.aborted \in BOOLEAN
      BY <2>1 DEF LoadsOf
    <3> QED BY <3>1, Zenon
  <2> HIDE DEF b
  <2>3. c \in LoadsOf(T, n, ms, mf) /\ c.of = q.of /\ c.by = q.by /\ c.token = q.token
        /\ c.aborted = b
    BY <2>1, <2>2 DEF LoadsOf
  <2>4. c.aborted = q.aborted => c = q
    BY <2>1, <2>3 DEF LoadsOf
  <2> QED BY <2>2, <2>3, <2>4 DEF Live, b
<1>2. ASSUME NEW c \in Cancelled(S)
      PROVE  \E q \in requests :
               /\ c = [q EXCEPT !.aborted = q.aborted \/ q \in S]
               /\ c \in LoadsOf(T, n, ms, mf) /\ c.of = q.of /\ c.by = q.by /\ c.token = q.token
               /\ (Live(c) => Live(q) /\ q \notin S /\ c = q)
  <2>1. PICK q \in requests : c = [q EXCEPT !.aborted = (@ \/ q \in S)]
    BY <1>2 DEF Cancelled
  <2> QED BY <1>1, <2>1, Zenon
<1> QED BY <1>2

LEMMA StartedLoads ==
  ASSUME NEW T, NEW P, NEW n, NEW ms, NEW mf, Sizes(n, ms, mf), token \in T \cup {None},
         valid \in T, starts \in 0 .. ms, starts < ms,
         NEW S \in SUBSET Resources, NEW w \in WantsTo(mf)
  PROVE  /\ Started(P, n, S, w) \subseteq LoadsOf(T, n, ms, mf)
         /\ \A c \in Started(P, n, S, w) :
               /\ c.of \in S /\ c.by = starts + 1
               /\ c.token = IF c.of \in P THEN None ELSE token
         /\ \A c, d \in Started(P, n, S, w) : c.of = d.of => c = d
<1>1. ASSUME NEW r \in S PROVE KeyOf(r, w) \in KeysTo(mf)
  BY DEF KeyOf, KeysTo, WantsTo
<1>2. starts + 1 \in 1 .. ms /\ n \in 1 .. n
  BY DEF Sizes
<1>3. ASSUME NEW r \in S
      PROVE  [of |-> r, by |-> starts + 1, key |-> KeyOf(r, w),
              token |-> IF r \in P THEN None ELSE token,
              wasValid |-> ((IF r \in P THEN None ELSE token) = valid),
              left |-> n, aborted |-> FALSE] \in LoadsOf(T, n, ms, mf)
  BY <1>1, <1>2, <1>3 DEF LoadsOf
<1>4. Started(P, n, S, w) \subseteq LoadsOf(T, n, ms, mf)
  BY <1>3 DEF Started
<1>5. ASSUME NEW c \in Started(P, n, S, w)
      PROVE  \E r \in S :
               c = [of |-> r, by |-> starts + 1, key |-> KeyOf(r, w),
                    token |-> IF r \in P THEN None ELSE token,
                    wasValid |-> ((IF r \in P THEN None ELSE token) = valid),
                    left |-> n, aborted |-> FALSE]
  BY DEF Started
<1>6. \A c \in Started(P, n, S, w) :
         /\ c.of \in S /\ c.by = starts + 1
         /\ c.token = IF c.of \in P THEN None ELSE token
  BY <1>5
<1>7. ASSUME NEW c \in Started(P, n, S, w), NEW d \in Started(P, n, S, w), c.of = d.of
      PROVE  c = d
  <2>1. PICK r \in S : c = [of |-> r, by |-> starts + 1, key |-> KeyOf(r, w),
                    token |-> IF r \in P THEN None ELSE token,
                    wasValid |-> ((IF r \in P THEN None ELSE token) = valid),
                    left |-> n, aborted |-> FALSE]
    BY <1>5
  <2>2. PICK s \in S : d = [of |-> s, by |-> starts + 1, key |-> KeyOf(s, w),
                    token |-> IF s \in P THEN None ELSE token,
                    wasValid |-> ((IF s \in P THEN None ELSE token) = valid),
                    left |-> n, aborted |-> FALSE]
    BY <1>5
  <2>3. r = s
    BY <1>7, <2>1, <2>2
  <2> QED BY <2>1, <2>2, <2>3
<1> QED BY <1>4, <1>6, <1>7

(* The newest loads of the hooks S replace what they were waiting for.     *)
LEMMA StartKeepsOrder ==
  ASSUME NEW T, NEW P, NEW n, NEW ms, NEW mf, Sizes(n, ms, mf), SessionInv(T, P, n, ms, mf),
         NEW S \in SUBSET Resources, NEW w \in WantsTo(mf), Starts(P, n, ms, S, w),
         token # None, token' = token, login' = login, app' = "open",
         \/ app = "open" /\ settled' = settled
         \/ app = "signin" /\ S = Resources /\ settled' = [r \in Resources |-> Unsettled]
  PROVE  /\ requests' \subseteq LoadsOf(T, n, ms, mf) /\ starts' \in 0 .. ms
         /\ SessionOrder(P)'
<1> DEFINE old == Cancelled({q \in requests : q.of \in S})
           new == Started(P, n, S, w)
<1>1. /\ token \in T \cup {None} /\ valid \in T /\ starts \in 0 .. ms /\ starts < ms
      /\ starts' = starts + 1 /\ requests' = old \cup new /\ requests \subseteq LoadsOf(T, n, ms, mf)
      /\ settled \in [Resources -> Settled(ms, mf)]
  BY DEF Starts, SessionInv, SessionTypes
<1>2. /\ new \subseteq LoadsOf(T, n, ms, mf)
      /\ \A c \in new : c.of \in S /\ c.by = starts + 1
                        /\ c.token = IF c.of \in P THEN None ELSE token
      /\ \A c, d \in new : c.of = d.of => c = d
  BY <1>1, StartedLoads
<1>3. /\ old \subseteq LoadsOf(T, n, ms, mf)
      /\ \A c \in old : \E q \in requests :
            /\ c = [q EXCEPT !.aborted = q.aborted \/ q \in {p \in requests : p.of \in S}]
            /\ c.of = q.of /\ c.by = q.by /\ c.token = q.token
            /\ (Live(c) => Live(q) /\ q.of \notin S /\ c = q)
  <2> DEFINE here == {p \in requests : p.of \in S}
  <2>1. /\ Cancelled(here) \subseteq LoadsOf(T, n, ms, mf)
        /\ \A c \in Cancelled(here) : \E q \in requests :
               /\ c = [q EXCEPT !.aborted = q.aborted \/ q \in here]
               /\ c.of = q.of /\ c.by = q.by /\ c.token = q.token
               /\ (Live(c) => Live(q) /\ q \notin here /\ c = q)
    BY <1>1, CancelledLoads
  <2>2. \A q \in requests : q \notin here => q.of \notin S
    OBVIOUS
  <2> QED BY <2>1, <2>2, Zenon
<1> HIDE DEF old, new
<1>4. starts \in Nat /\ \A q \in requests : q.by \in Nat /\ q.by <= starts /\ q.of \in Resources
  BY <1>1 DEF SessionInv, SessionOrder, LoadsOf
<1>5. \A c \in old : c.by \in Nat /\ c.by <= starts
  BY <1>3, <1>4
<1>6. ASSUME NEW p \in requests', NEW q \in requests', p.of = q.of, p.by = q.by PROVE p = q
  <2>1. CASE p \in new /\ q \in new
    BY <1>2, <1>6, <2>1
  <2>2. CASE p \in old /\ q \in old
    <3>1. PICK a \in requests :
            /\ p = [a EXCEPT !.aborted = a.aborted \/ a \in {x \in requests : x.of \in S}]
                                /\ p.of = a.of /\ p.by = a.by
      BY <1>3, <2>2
    <3>2. PICK b \in requests :
            /\ q = [b EXCEPT !.aborted = b.aborted \/ b \in {x \in requests : x.of \in S}]
                                /\ q.of = b.of /\ q.by = b.by
      BY <1>3, <2>2
    <3>3. a = b
      BY <1>6, <3>1, <3>2 DEF SessionInv, SessionOrder
    <3> QED BY <3>1, <3>2, <3>3
  <2>3. CASE p \in new /\ q \in old
    BY <1>1, <1>2, <1>4, <1>5, <1>6, <2>3
  <2>4. CASE p \in old /\ q \in new
    BY <1>1, <1>2, <1>4, <1>5, <1>6, <2>4
  <2> QED BY <1>1, <2>1, <2>2, <2>3, <2>4
<1>7. \A q \in requests' : q.by \in Nat /\ q.by <= starts'
  BY <1>1, <1>2, <1>4, <1>5
<1>8. \A r \in Resources : settled'[r].by \in Nat /\ settled'[r].by <= starts
  <2>1. CASE settled' = settled
    BY <1>1, <1>4, <2>1 DEF SessionInv, SessionOrder, Settled
  <2>2. CASE settled' = [r \in Resources |-> Unsettled]
    BY <1>4, <2>2 DEF Unsettled
  <2> QED BY <2>1, <2>2
<1>9. ASSUME NEW q \in requests', Live(q)
      PROVE  /\ q.by > settled'[q.of].by
             /\ \A p \in requests' : p.of = q.of => p.by <= q.by
             /\ token' # None => q.token = IF q.of \in P THEN None ELSE token'
  <2>1. CASE q \in new
    <3>1. q.of \in Resources /\ q.by = starts + 1
      BY <1>2, <2>1
    <3> QED BY <1>1, <1>2, <1>4, <1>7, <1>8, <2>1, <3>1
  <2>2. CASE q \in old
    <3>1. q \in requests /\ q.of \notin S
      BY <1>3, <1>9, <2>2
    <3>2. q.of \in Resources /\ settled' = settled
      BY <1>4, <3>1
    <3>3. ASSUME NEW p \in requests', p.of = q.of PROVE p.by <= q.by
      <4>1. p \in old
        BY <1>1, <1>2, <3>1, <3>3
      <4>2. PICK a \in requests : p.of = a.of /\ p.by = a.by
        BY <1>3, <4>1
      <4> QED BY <1>9, <3>1, <3>3, <4>2 DEF SessionInv, SessionOrder
    <3> QED BY <1>9, <3>1, <3>2, <3>3 DEF SessionInv, SessionOrder
  <2> QED BY <1>1, <2>1, <2>2
<1>10. \A r \in Resources : settled'[r].data \in {None, settled'[r].for}
  BY DEF SessionInv, SessionOrder, Unsettled
<1>11. login' = NotAsking
  BY DEF SessionInv, SessionOrder
<1>12. /\ \A q \in requests' : q.by <= starts'
       /\ \A r \in Resources : settled'[r].by <= starts'
       /\ ~ (app' = "signin")
  BY <1>1, <1>4, <1>7, <1>8
<1>13. SessionOrder(P)'
  BY <1>6, <1>9, <1>10, <1>11, <1>12, Zenon DEF SessionOrder, Live
<1> QED BY <1>1, <1>2, <1>3, <1>13, <1>4 DEF Sizes

-----------------------------------------------------------------------------
(* What is on screen is replaced only by something newer, than it and than *)
(* every load of the hook; and the session ends by itself only because of  *)
(* an answer to a load that carried its token.                             *)
NewerIsShown ==
    \A r \in Resources : app = "open" /\ app' = "open" /\ settled'[r] # settled[r] =>
        /\ settled'[r].by > settled[r].by
        /\ \A q \in requests : q.of = r => q.by <= settled'[r].by
OwnRefusal ==
    token # None /\ token' = None =>
        SignOut \/ \E q \in requests \ requests' : q.token = token

Kept(T, P, n, ms, mf) == SessionInv(T, P, n, ms, mf)' /\ NewerIsShown /\ OwnRefusal

LEMMA LoadsAlone ==
  ASSUME NEW T, NEW P, NEW n, NEW ms, NEW mf, SessionInv(T, P, n, ms, mf),
         UNCHANGED <<token, login, app, settled, requests, starts>>,
         valid' \in T, want' \in WantsTo(mf), running' \in WantsTo(mf),
         auto' \in BOOLEAN, hidden' \in BOOLEAN
  PROVE  Kept(T, P, n, ms, mf)
<1>1. SessionTypes(T, n, ms, mf)'
  BY Zenon DEF SessionInv, SessionTypes
<1>2. SessionOrder(P)'
  BY Zenon DEF SessionInv, SessionOrder, Live
<1>3. NewerIsShown /\ OwnRefusal
  BY DEF NewerIsShown, OwnRefusal
<1> QED BY <1>1, <1>2, <1>3 DEF Kept, SessionInv

LEMMA LooksOnStep ==
  ASSUME NEW T, NEW P, NEW n, NEW ms, NEW mf, SessionInv(T, P, n, ms, mf), LooksOn(T, mf)
  PROVE  Kept(T, P, n, ms, mf)
<1>1. running' \in WantsTo(mf)
  BY DEF SessionInv, SessionTypes, LooksOn
<1> QED BY <1>1, LoadsAlone DEF LooksOn

LEMMA LoginStep ==
  ASSUME NEW T, NEW P, NEW n, NEW ms, NEW mf, SessionInv(T, P, n, ms, mf),
         AsksToSignIn(T) \/ IsChecked(T)
  PROVE  Kept(T, P, n, ms, mf)
<1>1. /\ UNCHANGED <<valid, app, want, running, settled, requests, starts, auto, hidden>>
      /\ app = "signin" /\ token = None
  BY DEF AsksToSignIn, IsChecked, SessionInv, SessionOrder
<1>2. /\ token' \in T \cup {None} /\ login' \in Logins(T)
      /\ (login' # NotAsking => token' = None)
  <2>1. Services \in Nat \ {0}
    BY SessionConstants DEF DashboardAssumption
  <2>2. CASE AsksToSignIn(T)
    BY <2>1, <2>2 DEF AsksToSignIn, Logins
  <2>3. CASE IsChecked(T)
    <3>1. login \in [at : {"asking"}, token : T, service : 1 .. Services]
      BY <2>3 DEF IsChecked, SessionInv, SessionTypes, Logins
    <3> QED BY <1>1, <2>1, <2>3, <3>1 DEF IsChecked, Logins
  <2> QED BY <2>2, <2>3
<1>3. SessionTypes(T, n, ms, mf)'
  BY <1>1, <1>2, Zenon DEF SessionInv, SessionTypes
<1>4. SessionOrder(P)'
  BY <1>1, <1>2, Zenon DEF SessionInv, SessionOrder, Live
<1>5. NewerIsShown /\ OwnRefusal
  BY <1>1 DEF NewerIsShown, OwnRefusal
<1> QED BY <1>3, <1>4, <1>5 DEF Kept, SessionInv

LEMMA SignOutStep ==
  ASSUME NEW T, NEW P, NEW n, NEW ms, NEW mf, SessionInv(T, P, n, ms, mf), SignOut
  PROVE  Kept(T, P, n, ms, mf)
<1>1. /\ token' = None /\ app = "open"
      /\ UNCHANGED <<valid, login, app, want, running, settled, requests, starts, auto, hidden>>
  BY DEF SignOut, viewVars, loadVars
<1>2. SessionTypes(T, n, ms, mf)'
  BY <1>1, Zenon DEF SessionInv, SessionTypes
<1>3. login' = NotAsking
  BY <1>1 DEF SessionInv, SessionOrder
<1>4. SessionOrder(P)'
  BY <1>1, <1>3, Zenon DEF SessionInv, SessionOrder, Live
<1>5. NewerIsShown /\ OwnRefusal
  BY <1>1 DEF NewerIsShown, OwnRefusal
<1> QED BY <1>2, <1>4, <1>5 DEF Kept, SessionInv

LEMMA ReloadsStep ==
  ASSUME NEW T, NEW P, NEW n, NEW ms, NEW mf, SessionInv(T, P, n, ms, mf), Reloads
  PROVE  Kept(T, P, n, ms, mf)
<1>1. /\ app' = "signin" /\ requests' = {} /\ login' = NotAsking
      /\ UNCHANGED <<valid, token, want, running, settled, starts, auto, hidden>>
  BY DEF Reloads
<1>2. app' \in {"signin", "open"} /\ login' \in Logins(T) /\ requests' \subseteq LoadsOf(T, n, ms, mf)
  BY <1>1 DEF Logins
<1>3. SessionTypes(T, n, ms, mf)'
  BY <1>1, <1>2, Zenon DEF SessionInv, SessionTypes
<1>4. SessionOrder(P)'
  <2>1. \A q \in requests' : FALSE
    BY <1>1
  <2> QED BY <1>1, <2>1, Zenon DEF SessionInv, SessionOrder
<1>5. NewerIsShown /\ OwnRefusal
  BY <1>1 DEF NewerIsShown, OwnRefusal
<1> QED BY <1>3, <1>4, <1>5 DEF Kept, SessionInv

LEMMA OpensStep ==
  ASSUME NEW T, NEW P, NEW n, NEW ms, NEW mf, Sizes(n, ms, mf), FirstWindow \in Windows,
         SessionInv(T, P, n, ms, mf), Opens(P, n, ms)
  PROVE  Kept(T, P, n, ms, mf)
<1>1. /\ app = "signin" /\ token # None /\ app' = "open" /\ want' = First /\ running' = First
      /\ settled' = [r \in Resources |-> Unsettled] /\ auto' = TRUE
      /\ Starts(P, n, ms, Resources, First)
      /\ UNCHANGED <<valid, token, login, hidden>>
  BY DEF Opens
<1>2. First \in WantsTo(mf)
  BY DEF First, WantsTo, Sizes
<1>3. requests' \subseteq LoadsOf(T, n, ms, mf) /\ starts' \in 0 .. ms /\ SessionOrder(P)'
  BY <1>1, <1>2, StartKeepsOrder
<1>4. settled' \in [Resources -> Settled(ms, mf)]
  <2>1. Unsettled \in Settled(ms, mf)
    BY DEF Unsettled, Settled, Sizes
  <2> QED BY <1>1, <2>1
<1>5. auto' \in BOOLEAN /\ app' \in {"signin", "open"}
  BY <1>1, Zenon
<1>6. SessionTypes(T, n, ms, mf)'
  BY <1>1, <1>2, <1>3, <1>4, <1>5, Zenon DEF SessionInv, SessionTypes
<1>7. NewerIsShown /\ OwnRefusal
  BY <1>1 DEF NewerIsShown, OwnRefusal
<1> QED BY <1>3, <1>6, <1>7 DEF Kept, SessionInv

LEMMA RerendersStep ==
  ASSUME NEW T, NEW P, NEW n, NEW ms, NEW mf, Sizes(n, ms, mf),
         SessionInv(T, P, n, ms, mf), Rerenders(P, n, ms)
  PROVE  Kept(T, P, n, ms, mf)
<1>1. /\ app = "open" /\ token # None /\ running' = want
      /\ UNCHANGED <<valid, token, login, app, want, settled, auto, hidden>>
  BY DEF Rerenders
<1>2. PICK S \in SUBSET Resources : Starts(P, n, ms, S, want)
  BY DEF Rerenders
<1>3. want \in WantsTo(mf)
  BY DEF SessionInv, SessionTypes
<1>4. requests' \subseteq LoadsOf(T, n, ms, mf) /\ starts' \in 0 .. ms /\ SessionOrder(P)'
  BY <1>1, <1>2, <1>3, StartKeepsOrder
<1>6. SessionTypes(T, n, ms, mf)'
  BY <1>1, <1>3, <1>4, Zenon DEF SessionInv, SessionTypes
<1>7. NewerIsShown /\ OwnRefusal
  BY <1>1 DEF NewerIsShown, OwnRefusal
<1> QED BY <1>4, <1>6, <1>7 DEF Kept, SessionInv

LEMMA ClosesStep ==
  ASSUME NEW T, NEW P, NEW n, NEW ms, NEW mf, SessionInv(T, P, n, ms, mf), Closes
  PROVE  Kept(T, P, n, ms, mf)
<1>1. /\ token = None /\ app' = "signin" /\ requests' = Cancelled(requests)
      /\ UNCHANGED <<valid, token, login, want, running, settled, starts, auto, hidden>>
  BY DEF Closes
<1>2. /\ requests' \subseteq LoadsOf(T, n, ms, mf)
      /\ \A c \in requests' : \E q \in requests :
            /\ c = [q EXCEPT !.aborted = q.aborted \/ q \in requests]
            /\ c.of = q.of /\ c.by = q.by /\ c.token = q.token
            /\ (Live(c) => Live(q) /\ q \notin requests /\ c = q)
  BY <1>1, CancelledLoads DEF SessionInv, SessionTypes
<1>3. \A c \in requests' : ~ Live(c)
  BY <1>2
<1>4. ASSUME NEW p \in requests', NEW q \in requests', p.of = q.of, p.by = q.by PROVE p = q
  <2>1. PICK a \in requests : /\ p = [a EXCEPT !.aborted = a.aborted \/ a \in requests]
                              /\ p.of = a.of /\ p.by = a.by
    BY <1>2
  <2>2. PICK b \in requests : /\ q = [b EXCEPT !.aborted = b.aborted \/ b \in requests]
                              /\ q.of = b.of /\ q.by = b.by
    BY <1>2
  <2>3. a = b
    BY <1>4, <2>1, <2>2 DEF SessionInv, SessionOrder
  <2> QED BY <2>1, <2>2, <2>3
<1>5. \A c \in requests' : c.by <= starts'
  BY <1>1, <1>2 DEF SessionInv, SessionOrder
<1>6. SessionTypes(T, n, ms, mf)'
  <2>1. app' \in {"signin", "open"}
    BY <1>1
  <2> QED BY <1>1, <1>2, <2>1, Zenon DEF SessionInv, SessionTypes
<1>7. SessionOrder(P)'
  BY <1>1, <1>3, <1>4, <1>5, Zenon DEF SessionInv, SessionOrder, Live
<1>8. NewerIsShown /\ OwnRefusal
  BY <1>1 DEF NewerIsShown, OwnRefusal
<1> QED BY <1>6, <1>7, <1>8 DEF Kept, SessionInv

LEMMA GoesOnStep ==
  ASSUME NEW T, NEW P, NEW n, NEW ms, NEW mf, Sizes(n, ms, mf), SessionInv(T, P, n, ms, mf),
         NEW q \in requests, GoesOn(q),
         UNCHANGED <<valid, login, app, want, running, auto, hidden, starts>>
  PROVE  Kept(T, P, n, ms, mf)
<1> DEFINE c == [q EXCEPT !.left = @ - 1]
<1>1. q \in LoadsOf(T, n, ms, mf) /\ n \in Nat
  BY DEF SessionInv, SessionTypes, Sizes
<1>2. /\ c \in LoadsOf(T, n, ms, mf) /\ c.of = q.of /\ c.by = q.by /\ c.token = q.token
      /\ c.aborted = q.aborted
  BY <1>1 DEF GoesOn, LoadsOf
<1> HIDE DEF c
<1>3. requests' = (requests \ {q}) \cup {c} /\ settled' = settled /\ token' = token
  BY DEF GoesOn, c
<1>4. requests' \subseteq LoadsOf(T, n, ms, mf)
  BY <1>2, <1>3 DEF SessionInv, SessionTypes
<1>5. \A x \in requests' : \E y \in requests :
         /\ y.of = x.of /\ y.by = x.by /\ y.token = x.token /\ y.aborted = x.aborted
         /\ x = IF y = q THEN c ELSE y
  BY <1>2, <1>3
<1>6. ASSUME NEW x \in requests', NEW y \in requests', x.of = y.of, x.by = y.by PROVE x = y
  <2>1. PICK a \in requests : a.of = x.of /\ a.by = x.by /\ x = IF a = q THEN c ELSE a
    BY <1>5
  <2>2. PICK b \in requests : b.of = y.of /\ b.by = y.by /\ y = IF b = q THEN c ELSE b
    BY <1>5
  <2>3. a = b
    BY <1>6, <2>1, <2>2 DEF SessionInv, SessionOrder
  <2> QED BY <2>1, <2>2, <2>3
<1>7. \A x \in requests' : x.by <= starts'
  BY <1>5 DEF SessionInv, SessionOrder
<1>8. ASSUME NEW x \in requests', Live(x)
      PROVE  /\ x.by > settled'[x.of].by
             /\ \A p \in requests' : p.of = x.of => p.by <= x.by
             /\ token' # None => x.token = IF x.of \in P THEN None ELSE token'
  <2>1. PICK a \in requests :
          a.of = x.of /\ a.by = x.by /\ a.token = x.token /\ a.aborted = x.aborted
    BY <1>5
  <2>2. Live(a)
    BY <1>8, <2>1 DEF Live
  <2>3. /\ a.by > settled[a.of].by
        /\ \A p \in requests : p.of = a.of => p.by <= a.by
        /\ token # None => a.token = IF a.of \in P THEN None ELSE token
    BY <2>2 DEF SessionInv, SessionOrder
  <2>4. ASSUME NEW p \in requests', p.of = x.of PROVE p.by <= x.by
    <3>1. PICK b \in requests : b.of = p.of /\ b.by = p.by
      BY <1>5
    <3> QED BY <2>1, <2>3, <2>4, <3>1
  <2> QED BY <1>3, <2>1, <2>3, <2>4
<1>9. app = "signin" => \A x \in requests' : ~ Live(x)
  BY <1>5, Zenon DEF SessionInv, SessionOrder, Live
<1>10. SessionTypes(T, n, ms, mf)'
  BY <1>3, <1>4, Zenon DEF SessionInv, SessionTypes
<1>11. SessionOrder(P)'
  BY <1>3, <1>6, <1>7, <1>8, <1>9, Zenon DEF SessionInv, SessionOrder, Live
<1>12. NewerIsShown /\ OwnRefusal
  BY <1>3 DEF NewerIsShown, OwnRefusal
<1> QED BY <1>10, <1>11, <1>12 DEF Kept, SessionInv

LEMMA SettlesStep ==
  ASSUME NEW T, NEW P, NEW n, NEW ms, NEW mf, Sizes(n, ms, mf), SessionInv(T, P, n, ms, mf),
         NEW q \in requests, Settles(P, q),
         UNCHANGED <<valid, login, app, want, running, auto, hidden, starts>>
  PROVE  Kept(T, P, n, ms, mf)
<1>1. /\ q \in LoadsOf(T, n, ms, mf) /\ requests' = requests \ {q}
      /\ settled \in [Resources -> Settled(ms, mf)] /\ ms \in Nat
  BY DEF SessionInv, SessionTypes, Settles, Sizes
<1>2. q.of \in Resources /\ q.key \in KeysTo(mf) /\ q.by \in 1 .. ms /\ q.aborted \in BOOLEAN
  BY <1>1 DEF LoadsOf
<1>3. PICK ok \in BOOLEAN : Settle(q, ok)
  BY DEF Settles
<1> DEFINE shown == [data |-> IF ok THEN q.key ELSE None, error |-> ~ ok, for |-> q.key, by |-> q.by]
<1>4. settled' = IF Live(q) THEN [settled EXCEPT ![q.of] = shown] ELSE settled
  BY <1>2, <1>3 DEF Settle, Live
<1>5. shown \in Settled(ms, mf) /\ shown.by = q.by /\ shown.data \in {None, shown.for}
  <2>1. (~ ok) \in BOOLEAN
    BY Zenon
  <2> QED BY <1>2, <2>1 DEF Settled
<1> HIDE DEF shown
<1>6. settled' \in [Resources -> Settled(ms, mf)]
  BY <1>1, <1>2, <1>4, <1>5
<1>7. \A r \in Resources : IF Live(q) /\ r = q.of THEN settled'[r] = shown ELSE settled'[r] = settled[r]
  BY <1>1, <1>2, <1>4
<1>8. \A x \in requests' : x \in requests /\ x # q
  BY <1>1
<1>9. ASSUME NEW x \in requests', Live(x)
      PROVE  /\ x.by > settled'[x.of].by
             /\ \A p \in requests' : p.of = x.of => p.by <= x.by
             /\ token' # None => x.token = IF x.of \in P THEN None ELSE token'
  <2>1. /\ x.by > settled[x.of].by
        /\ \A p \in requests : p.of = x.of => p.by <= x.by
        /\ token # None => x.token = IF x.of \in P THEN None ELSE token
    BY <1>8, <1>9 DEF SessionInv, SessionOrder
  <2>2. x.of \in Resources /\ x.by \in Nat
    BY <1>8 DEF SessionInv, SessionTypes, LoadsOf
  <2>3. ~ (Live(q) /\ x.of = q.of)
    <3>1. ASSUME Live(q), x.of = q.of PROVE FALSE
      <4>1. x.by <= q.by /\ q.by <= x.by
        BY <1>8, <2>1, <3>1 DEF SessionInv, SessionOrder
      <4>2. x.by = q.by
        BY <1>2, <2>2, <4>1
      <4> QED BY <1>8, <3>1, <4>2 DEF SessionInv, SessionOrder
    <3> QED BY <3>1
  <2>4. settled'[x.of] = settled[x.of]
    BY <1>7, <2>2, <2>3
  <2>5. token' # None => token' = token
    BY DEF Settles
  <2> QED BY <1>8, <2>1, <2>4, <2>5
<1>10. token' \in T \cup {None} /\ (token' = token \/ token' = None)
  BY DEF Settles, SessionInv, SessionTypes
<1>11. SessionTypes(T, n, ms, mf)'
  <2>1. requests' \subseteq LoadsOf(T, n, ms, mf)
    BY <1>1 DEF SessionInv, SessionTypes
  <2> QED BY <1>6, <1>10, <2>1, Zenon DEF SessionInv, SessionTypes
<1>12. \A r \in Resources : settled'[r].by <= starts' /\ settled'[r].data \in {None, settled'[r].for}
  BY <1>5, <1>7 DEF SessionInv, SessionOrder
<1>13. login' # NotAsking => app' = "signin" /\ token' = None
  BY <1>10 DEF SessionInv, SessionOrder
<1>14. SessionOrder(P)'
  BY <1>8, <1>9, <1>12, <1>13, Zenon DEF SessionInv, SessionOrder, Live
<1>15. NewerIsShown
  <2>1. ASSUME NEW r \in Resources, settled'[r] # settled[r]
        PROVE  /\ settled'[r].by > settled[r].by
               /\ \A p \in requests : p.of = r => p.by <= settled'[r].by
    <3>1. Live(q) /\ r = q.of /\ settled'[r].by = q.by
      BY <1>5, <1>7, <2>1
    <3> QED BY <3>1 DEF SessionInv, SessionOrder
  <2> QED BY <2>1 DEF NewerIsShown
<1>16. OwnRefusal
  <2>1. ASSUME token # None, token' = None PROVE q.token = token
    BY <2>1 DEF Settles, SessionInv, SessionOrder
  <2> QED BY <1>1, <2>1 DEF OwnRefusal
<1> QED BY <1>11, <1>14, <1>15, <1>16 DEF Kept, SessionInv

LEMMA EveryStepKeeps ==
  ASSUME NEW T, NEW P, NEW n, NEW ms, NEW mf, Sizes(n, ms, mf), FirstWindow \in Windows,
         SessionInv(T, P, n, ms, mf), SessionStep(T, P, n, ms, mf)
  PROVE  Kept(T, P, n, ms, mf)
<1>1. CASE IsAnswered(P)
  <2>1. UNCHANGED <<valid, login, app, want, running, auto, hidden, starts>>
    BY <1>1 DEF IsAnswered
  <2>2. PICK q \in requests : GoesOn(q) \/ Settles(P, q)
    BY <1>1 DEF IsAnswered
  <2>3. CASE GoesOn(q)
    BY <2>1, <2>3, GoesOnStep
  <2>4. CASE Settles(P, q)
    BY <2>1, <2>4, SettlesStep
  <2> QED BY <2>2, <2>3, <2>4
<1>2. CASE LooksOn(T, mf)
  BY <1>2, LooksOnStep
<1>3. CASE AsksToSignIn(T) \/ IsChecked(T)
  BY <1>3, LoginStep
<1>4. CASE SignOut
  BY <1>4, SignOutStep
<1>5. CASE Reloads
  BY <1>5, ReloadsStep
<1>6. CASE Opens(P, n, ms)
  BY <1>6, OpensStep
<1>7. CASE Closes
  BY <1>7, ClosesStep
<1>8. CASE Rerenders(P, n, ms)
  BY <1>8, RerendersStep
<1> QED BY <1>1, <1>2, <1>3, <1>4, <1>5, <1>6, <1>7, <1>8 DEF SessionStep

LEMMA ShownIsOfOneMoment ==
  ASSUME NEW T, NEW P, NEW n, NEW ms, NEW mf, SessionInv(T, P, n, ms, mf)
  PROVE  SameMoment
BY DEF SessionInv, SessionOrder, SameMoment, Busy

LEMMA RestKeeps ==
  ASSUME NEW T, NEW P, NEW n, NEW ms, NEW mf, SessionInv(T, P, n, ms, mf), UNCHANGED vars
  PROVE  Kept(T, P, n, ms, mf)
<1>1. UNCHANGED <<valid, token, login, app, want, running, settled, requests, auto, hidden, starts>>
  BY DEF vars, sessionVars, viewVars, loadVars
<1>2. /\ valid' \in T /\ want' \in WantsTo(mf) /\ running' \in WantsTo(mf)
      /\ auto' \in BOOLEAN /\ hidden' \in BOOLEAN
  BY <1>1, Zenon DEF SessionInv, SessionTypes
<1> QED BY <1>1, <1>2, LoadsAlone

LEMMA OurTypes ==
  ASSUME OurInv PROVE TypeOK
<1>1. ASSUME app = "signin", NEW q \in requests PROVE q.aborted
  <2>1. q.aborted \in BOOLEAN /\ ~ Live(q)
    BY <1>1 DEF OurInv, SessionInv, SessionTypes, SessionOrder, LoadsOf
  <2> QED BY <2>1, Zenon DEF Live
<1> QED BY <1>1, Zenon
           DEF TypeOK, OurInv, SessionInv, SessionTypes, Logins, WantsTo, Wanted, KeysTo,
    Keys, Settled, LoadsOf

LEMMA TheirTypes ==
  ASSUME TheirInv PROVE Sessions!TypeOK
<1>1. ASSUME app = "signin", NEW q \in requests PROVE q.aborted
  <2>1. q.aborted \in BOOLEAN /\ ~ Live(q)
    BY <1>1 DEF TheirInv, SessionInv, SessionTypes, SessionOrder, LoadsOf
  <2> QED BY <2>1, Zenon DEF Live
<1> QED BY <1>1, SessionsBridge, Zenon
           DEF Sessions!TypeOK, TheirInv, SessionInv, SessionTypes, Logins,
    WantsTo, Sessions!Wanted, KeysTo, Sessions!Keys, Settled, LoadsOf

LEMMA OurSizes ==
  /\ Sizes(Parts, MaxStarts, MaxRefreshes) /\ FirstWindow \in Windows
  /\ Sizes(SessionParts, MaxSessionStarts, MaxSessionRefreshes)
BY SessionConstants DEF Sizes, DashboardAssumption, Sessions!DashboardAssumption

LEMMA OurBeginning ==
  ASSUME Init PROVE OurInv
BY OurSizes, SessionBegins DEF Init, OurInv

LEMMA TheirBeginning ==
  ASSUME Sessions!Init PROVE TheirInv
BY OurSizes, SessionBegins, SessionsBridge DEF Sessions!Init, TheirInv

LEMMA OurStep ==
  ASSUME OurInv, [Next]_vars
  PROVE  OurInv' /\ NewerIsShown /\ OwnRefusal
<1>1. CASE Next
  <2>1. SessionStep(Tokens, Public, Parts, MaxStarts, MaxRefreshes)
    BY <1>1, OurSteps
  <2> QED BY <2>1, OurSizes, EveryStepKeeps DEF OurInv, Kept
<1>2. CASE UNCHANGED vars
  BY <1>2, RestKeeps DEF OurInv, Kept
<1> QED BY <1>1, <1>2

LEMMA TheirStep ==
  ASSUME TheirInv, Sessions!Next \/ UNCHANGED vars
  PROVE  TheirInv' /\ NewerIsShown /\ OwnRefusal
<1>1. CASE Sessions!Next
  <2>1. SessionStep(SessionTokens, SessionPublic, SessionParts, MaxSessionStarts,
                    MaxSessionRefreshes)
    BY <1>1, TheirSteps
  <2> QED BY <2>1, OurSizes, EveryStepKeeps DEF TheirInv, Kept
<1>2. CASE UNCHANGED vars
  BY <1>2, RestKeeps DEF TheirInv, Kept
<1> QED BY <1>1, <1>2

(* For any hooks, windows, tokens and services, with as many starts,       *)
(* rotations and refreshes as the operator likes: what a hook shows is     *)
(* only replaced by something newer than it and than every load it         *)
(* started, all that is shown is of one moment once nothing is on its way, *)
(* and no answer to an earlier session ends this one.                      *)
(* (useResource, useGridData, endSession)                                  *)
THEOREM TabIsAlwaysCurrent ==
  Spec => []TypeOK /\ []SameMoment /\ NewestAnswerShown /\ OwnRefusalEnds
<1>1. Init => OurInv
  BY OurBeginning
<1>2. OurInv /\ [Next]_vars => OurInv' /\ [NewerIsShown]_vars /\ [OwnRefusal]_vars
  BY OurStep
<1>3. OurInv => TypeOK /\ SameMoment
  BY OurTypes, ShownIsOfOneMoment DEF OurInv
<1> QED BY <1>1, <1>2, <1>3, PTL
        DEF Spec, NewestAnswerShown, OwnRefusalEnds, NewerIsShown, OwnRefusal

ScreenInv == IF part = "sessions" THEN TheirInv ELSE OurInv
TypesOfScreen == IF part = "sessions" THEN Sessions!TypeOK ELSE TypeOK

(* The same for the two dashboards the runs look at.                       *)
THEOREM ScreenAlwaysCurrent == MCSpec => ScreenIsCurrent
<1>1. MCInit => ScreenInv
  BY OurBeginning, TheirBeginning DEF MCInit, ScreenInv
<1>2. ScreenInv /\ [MCNext]_mcVars => ScreenInv' /\ [NewerIsShown]_vars /\ [OwnRefusal]_vars
  <2> SUFFICES ASSUME ScreenInv, [MCNext]_mcVars
               PROVE  ScreenInv' /\ NewerIsShown /\ OwnRefusal
    OBVIOUS
  <2>1. part' = part
    BY DEF MCNext, mcVars
  <2>2. /\ part # "sessions" => [Next]_vars
        /\ part = "sessions" => Sessions!Next \/ UNCHANGED vars
    BY DEF MCNext, mcVars, SessionSteps, AttentionSteps, BrowserSteps, RangeSteps
  <2>3. CASE part = "sessions"
    BY <2>1, <2>2, <2>3, TheirStep DEF ScreenInv
  <2>4. CASE part # "sessions"
    BY <2>1, <2>2, <2>4, OurStep DEF ScreenInv
  <2> QED BY <2>3, <2>4
<1>3. ScreenInv => TypesOfScreen /\ SameMoment
  BY OurTypes, TheirTypes, ShownIsOfOneMoment DEF OurInv, TheirInv, ScreenInv, TypesOfScreen
<1> QED BY <1>1, <1>2, <1>3, PTL
        DEF MCSpec, mcVars, ScreenIsCurrent, TypesOfScreen, NewestAnswerShown, OwnRefusalEnds,
            NewerIsShown, OwnRefusal

-----------------------------------------------------------------------------
(***************************************************************************)
(* What needs attention (Attention), once with a few services and once     *)
(* with more.                                                              *)
(***************************************************************************)
LEMMA TwoCardinality == \A S : Two!Cardinality(S) = Cardinality(S)
BY DEF Two!Cardinality, Cardinality

LEMMA TwoServicesKnown ==
  /\ Two!ServiceSet \subseteq {meters, pricing, matching, billing}
  /\ matching \in Two!ServiceSet /\ billing \in Two!ServiceSet
  /\ None \notin {meters, pricing, matching, billing} \cup {0, 1}
BY AttentionConstants DEF Two!AttentionAssumption, Two!ServiceSet

(* The readiness of a service is known to be bad. *)
LEMMA TwoAffected ==
  ASSUME NEW s \in Two!ServiceSet
  PROVE  s \in Two!Affected <=> health[s] # "ready"
BY DEF Two!Affected, Two!HealthState

LEMMA TwoOfService ==
  ASSUME NEW s, NEW i
  PROVE  /\ i \in Two!ServiceIssue(s) <=>
               /\ health # None /\ s \in Two!Affected
               /\ i = Two!Issue("service", s, "critical", "system")
         /\ i \in Two!SectionIssue(s) <=>
               /\ section[s] = Two!Failed /\ ~ Two!Explained(s)
               /\ i = Two!Issue("section", s, "warning", Two!PageOfSection(s))
         /\ i \in Two!CountersIssue(s) <=>
               /\ counters # None /\ counters[s] = Two!Failed /\ ~ Two!Explained(s)
               /\ i = Two!Issue("diagnostics", s, "info", "system")
BY DEF Two!ServiceIssue, Two!SectionIssue, Two!CountersIssue, Two!Flag

(* Every item is about a service, or about the grid. *)
LEMMA TwoAboutTheGrid ==
  Two!AboutTheGrid \subseteq {Two!Issue("books", None, "critical", "billing"),
                             Two!Issue("refused", None, "warning", "trading"),
                             Two!Issue("pending", None, "info", "trading"),
                             Two!Issue("dead", None, "warning", "system"),
                             Two!Issue("rejected", None, "warning", "system"),
                             Two!Issue("waiting", None, "info", "system")}
BY DEF Two!AboutTheGrid, Two!Flag

LEMMA TwoIssues ==
  ASSUME NEW i
  PROVE  i \in Two!Issues <=>
           \/ \E s \in Two!ServiceSet :
               i \in Two!ServiceIssue(s) \/ i \in Two!SectionIssue(s) \/ i \in Two!CountersIssue(s)
           \/ i \in Two!AboutTheGrid
BY DEF Two!Issues, Two!AboutServices

LEMMA TwoIssuesOfService ==
  ASSUME NEW s \in Two!ServiceSet
  PROVE  {i \in Two!Issues : i.about = s} =
           Two!ServiceIssue(s) \cup Two!SectionIssue(s) \cup Two!CountersIssue(s)
<1>1. ASSUME NEW x, NEW i, i \in Two!ServiceIssue(x) \cup Two!SectionIssue(x) \cup Two!CountersIssue(x)
      PROVE  i.about = x
  BY <1>1, TwoOfService DEF Two!Issue
<1>2. Two!ServiceIssue(s) \cup Two!SectionIssue(s) \cup Two!CountersIssue(s) \subseteq Two!Issues
  BY TwoIssues
<1>3. ASSUME NEW i \in Two!Issues, i.about = s
      PROVE  i \in Two!ServiceIssue(s) \cup Two!SectionIssue(s) \cup Two!CountersIssue(s)
  <2>1. i.about # None
    BY <1>3, TwoServicesKnown
  <2>2. PICK x \in Two!ServiceSet :
               i \in Two!ServiceIssue(x) \/ i \in Two!SectionIssue(x) \/ i \in Two!CountersIssue(x)
    BY <2>1, TwoIssues, TwoAboutTheGrid DEF Two!Issue
  <2> QED BY <1>1, <1>3, <2>2
<1> QED BY <1>1, <1>2, <1>3

(* What is wrong with a service is in the list, once. *)
LEMMA TwoNamesEveryFailure == Two!EveryFailureIsNamedOnce
<1> SUFFICES ASSUME NEW s \in Two!ServiceSet
             PROVE  LET about == {i \in Two!Issues : i.about = s}
                        ready == health = None \/ health[s] = "ready"
                    IN  /\ ~ ready => /\ Two!Cardinality(about) = 1
                                      /\ \A i \in about : i.severity = "critical"
                        /\ ready /\ section[s] = Two!Failed => \E i \in about : i.id = "section"
                        /\ ready /\ counters # None /\ counters[s] = Two!Failed =>
                             \E i \in about : i.id = "diagnostics"
  BY DEF Two!EveryFailureIsNamedOnce
<1> DEFINE about == {i \in Two!Issues : i.about = s}
           ready == health = None \/ health[s] = "ready"
<1>1. \A i : i \in about <=>
        i \in Two!ServiceIssue(s) \/ i \in Two!SectionIssue(s) \/ i \in Two!CountersIssue(s)
  <2>1. about = Two!ServiceIssue(s) \cup Two!SectionIssue(s) \cup Two!CountersIssue(s)
    BY TwoIssuesOfService
  <2> HIDE DEF about
  <2> QED BY <2>1
<1>2. /\ Two!Explained(s) <=> ~ ready
      /\ (health # None /\ s \in Two!Affected) <=> ~ ready
  BY TwoAffected DEF Two!Explained
<1> HIDE DEF about, ready
<1>4. ASSUME ~ ready
      PROVE  Two!Cardinality(about) = 1 /\ \A i \in about : i.severity = "critical"
  <2> DEFINE only == Two!Issue("service", s, "critical", "system")
  <2>1. \A i : i \in about <=> i = only
    BY <1>1, <1>2, <1>4, TwoOfService
  <2>2. only.severity = "critical"
    BY DEF Two!Issue
  <2> HIDE DEF only
  <2>3. about = {only}
    BY <2>1
  <2> QED BY <2>2, <2>3, FS_Singleton, TwoCardinality
<1>5. ASSUME ready, section[s] = Two!Failed PROVE \E i \in about : i.id = "section"
  <2> DEFINE it == Two!Issue("section", s, "warning", Two!PageOfSection(s))
  <2>1. it \in about /\ it.id = "section"
    BY <1>1, <1>2, <1>5, TwoOfService DEF Two!Issue
  <2> QED BY <2>1
<1>6. ASSUME ready, counters # None, counters[s] = Two!Failed
      PROVE  \E i \in about : i.id = "diagnostics"
  <2> DEFINE it == Two!Issue("diagnostics", s, "info", "system")
  <2>1. it \in about /\ it.id = "diagnostics"
    BY <1>1, <1>2, <1>6, TwoOfService DEF Two!Issue
  <2> QED BY <2>1
<1> QED BY <1>4, <1>5, <1>6 DEF about, ready

LEMMA ThreeCardinality == \A S : Three!Cardinality(S) = Cardinality(S)
BY DEF Three!Cardinality, Cardinality

LEMMA ThreeServicesKnown ==
  /\ Three!ServiceSet \subseteq {meters, pricing, matching, billing}
  /\ matching \in Three!ServiceSet /\ billing \in Three!ServiceSet
  /\ None \notin {meters, pricing, matching, billing} \cup {0, 1}
BY AttentionConstants DEF Three!AttentionAssumption, Three!ServiceSet

(* The readiness of a service is known to be bad. *)
LEMMA ThreeAffected ==
  ASSUME NEW s \in Three!ServiceSet
  PROVE  s \in Three!Affected <=> health[s] # "ready"
BY DEF Three!Affected, Three!HealthState

LEMMA ThreeOfService ==
  ASSUME NEW s, NEW i
  PROVE  /\ i \in Three!ServiceIssue(s) <=>
               /\ health # None /\ s \in Three!Affected
               /\ i = Three!Issue("service", s, "critical", "system")
         /\ i \in Three!SectionIssue(s) <=>
               /\ section[s] = Three!Failed /\ ~ Three!Explained(s)
               /\ i = Three!Issue("section", s, "warning", Three!PageOfSection(s))
         /\ i \in Three!CountersIssue(s) <=>
               /\ counters # None /\ counters[s] = Three!Failed /\ ~ Three!Explained(s)
               /\ i = Three!Issue("diagnostics", s, "info", "system")
BY DEF Three!ServiceIssue, Three!SectionIssue, Three!CountersIssue, Three!Flag

(* Every item is about a service, or about the grid. *)
LEMMA ThreeAboutTheGrid ==
  Three!AboutTheGrid \subseteq {Three!Issue("books", None, "critical", "billing"),
                             Three!Issue("refused", None, "warning", "trading"),
                             Three!Issue("pending", None, "info", "trading"),
                             Three!Issue("dead", None, "warning", "system"),
                             Three!Issue("rejected", None, "warning", "system"),
                             Three!Issue("waiting", None, "info", "system")}
BY DEF Three!AboutTheGrid, Three!Flag

LEMMA ThreeIssues ==
  ASSUME NEW i
  PROVE  i \in Three!Issues <=>
           \/ \E s \in Three!ServiceSet :
               i \in Three!ServiceIssue(s) \/ i \in Three!SectionIssue(s) \/ i \in Three!CountersIssue(s)
           \/ i \in Three!AboutTheGrid
BY DEF Three!Issues, Three!AboutServices

LEMMA ThreeIssuesOfService ==
  ASSUME NEW s \in Three!ServiceSet
  PROVE  {i \in Three!Issues : i.about = s} =
           Three!ServiceIssue(s) \cup Three!SectionIssue(s) \cup Three!CountersIssue(s)
<1>1. ASSUME NEW x, NEW i, i \in Three!ServiceIssue(x) \cup Three!SectionIssue(x) \cup Three!CountersIssue(x)
      PROVE  i.about = x
  BY <1>1, ThreeOfService DEF Three!Issue
<1>2. Three!ServiceIssue(s) \cup Three!SectionIssue(s) \cup Three!CountersIssue(s) \subseteq Three!Issues
  BY ThreeIssues
<1>3. ASSUME NEW i \in Three!Issues, i.about = s
      PROVE  i \in Three!ServiceIssue(s) \cup Three!SectionIssue(s) \cup Three!CountersIssue(s)
  <2>1. i.about # None
    BY <1>3, ThreeServicesKnown
  <2>2. PICK x \in Three!ServiceSet :
               i \in Three!ServiceIssue(x) \/ i \in Three!SectionIssue(x) \/ i \in Three!CountersIssue(x)
    BY <2>1, ThreeIssues, ThreeAboutTheGrid DEF Three!Issue
  <2> QED BY <1>1, <1>3, <2>2
<1> QED BY <1>1, <1>2, <1>3

(* What is wrong with a service is in the list, once. *)
LEMMA ThreeNamesEveryFailure == Three!EveryFailureIsNamedOnce
<1> SUFFICES ASSUME NEW s \in Three!ServiceSet
             PROVE  LET about == {i \in Three!Issues : i.about = s}
                        ready == health = None \/ health[s] = "ready"
                    IN  /\ ~ ready => /\ Three!Cardinality(about) = 1
                                      /\ \A i \in about : i.severity = "critical"
                        /\ ready /\ section[s] = Three!Failed => \E i \in about : i.id = "section"
                        /\ ready /\ counters # None /\ counters[s] = Three!Failed =>
                             \E i \in about : i.id = "diagnostics"
  BY DEF Three!EveryFailureIsNamedOnce
<1> DEFINE about == {i \in Three!Issues : i.about = s}
           ready == health = None \/ health[s] = "ready"
<1>1. \A i : i \in about <=>
        i \in Three!ServiceIssue(s) \/ i \in Three!SectionIssue(s) \/ i \in Three!CountersIssue(s)
  <2>1. about = Three!ServiceIssue(s) \cup Three!SectionIssue(s) \cup Three!CountersIssue(s)
    BY ThreeIssuesOfService
  <2> HIDE DEF about
  <2> QED BY <2>1
<1>2. /\ Three!Explained(s) <=> ~ ready
      /\ (health # None /\ s \in Three!Affected) <=> ~ ready
  BY ThreeAffected DEF Three!Explained
<1> HIDE DEF about, ready
<1>4. ASSUME ~ ready
      PROVE  Three!Cardinality(about) = 1 /\ \A i \in about : i.severity = "critical"
  <2> DEFINE only == Three!Issue("service", s, "critical", "system")
  <2>1. \A i : i \in about <=> i = only
    BY <1>1, <1>2, <1>4, ThreeOfService
  <2>2. only.severity = "critical"
    BY DEF Three!Issue
  <2> HIDE DEF only
  <2>3. about = {only}
    BY <2>1
  <2> QED BY <2>2, <2>3, FS_Singleton, ThreeCardinality
<1>5. ASSUME ready, section[s] = Three!Failed PROVE \E i \in about : i.id = "section"
  <2> DEFINE it == Three!Issue("section", s, "warning", Three!PageOfSection(s))
  <2>1. it \in about /\ it.id = "section"
    BY <1>1, <1>2, <1>5, ThreeOfService DEF Three!Issue
  <2> QED BY <2>1
<1>6. ASSUME ready, counters # None, counters[s] = Three!Failed
      PROVE  \E i \in about : i.id = "diagnostics"
  <2> DEFINE it == Three!Issue("diagnostics", s, "info", "system")
  <2>1. it \in about /\ it.id = "diagnostics"
    BY <1>1, <1>2, <1>6, ThreeOfService DEF Three!Issue
  <2> QED BY <2>1
<1> QED BY <1>4, <1>5, <1>6 DEF about, ready

-----------------------------------------------------------------------------
(* The badges: every item is of one page, and what is of a page is found   *)
(* to be as serious as its most serious item.                              *)
LEMMA SixAreFinite ==
  ASSUME NEW a, NEW b, NEW c, NEW d, NEW e, NEW f
  PROVE  IsFiniteSet({a, b, c, d, e, f})
<1>1. IsFiniteSet({a, b})
  <2>1. IsFiniteSet({a}) /\ IsFiniteSet({b})
    BY FS_Singleton
  <2>2. IsFiniteSet({a} \cup {b})
    BY <2>1, FS_Union
  <2>3. {a, b} = {a} \cup {b}
    OBVIOUS
  <2> QED BY <2>2, <2>3, Zenon
<1>2. IsFiniteSet({c, d})
  <2>1. IsFiniteSet({c}) /\ IsFiniteSet({d})
    BY FS_Singleton
  <2>2. IsFiniteSet({c} \cup {d})
    BY <2>1, FS_Union
  <2>3. {c, d} = {c} \cup {d}
    OBVIOUS
  <2> QED BY <2>2, <2>3, Zenon
<1>3. IsFiniteSet({e, f})
  <2>1. IsFiniteSet({e}) /\ IsFiniteSet({f})
    BY FS_Singleton
  <2>2. IsFiniteSet({e} \cup {f})
    BY <2>1, FS_Union
  <2>3. {e, f} = {e} \cup {f}
    OBVIOUS
  <2> QED BY <2>2, <2>3, Zenon
<1>4. {a, b, c, d, e, f} = ({a, b} \cup {c, d}) \cup {e, f}
  OBVIOUS
<1>5. IsFiniteSet({a, b} \cup {c, d})
  BY <1>1, <1>2, FS_Union
<1>6. IsFiniteSet(({a, b} \cup {c, d}) \cup {e, f})
  BY <1>3, <1>5, FS_Union
<1> QED BY <1>4, <1>6

LEMMA ImagesOfServices ==
  ASSUME NEW f
  PROVE  IsFiniteSet({f[s] : s \in Three!ServiceSet})
<1>1. IsFiniteSet({meters, pricing, matching, billing})
  <2>1. {meters, pricing, matching, billing, billing, billing} = {meters, pricing, matching, billing}
    OBVIOUS
  <2> QED BY <2>1, SixAreFinite
<1>2. IsFiniteSet(Three!ServiceSet)
  BY <1>1, ThreeServicesKnown, FS_Subset
<1> QED BY <1>2, ImageIsFinite

LEMMA ListIsFinite == IsFiniteSet(Three!Issues)
<1> DEFINE SS == Three!ServiceSet
           f == [s \in SS |-> Three!Issue("service", s, "critical", "system")]
           g == [s \in SS |-> Three!Issue("section", s, "warning", Three!PageOfSection(s))]
           h == [s \in SS |-> Three!Issue("diagnostics", s, "info", "system")]
           F == {f[s] : s \in SS}
           G == {g[s] : s \in SS}
           H == {h[s] : s \in SS}
<1>1. IsFiniteSet(F) /\ IsFiniteSet(G) /\ IsFiniteSet(H)
  <2> HIDE DEF f, g, h
  <2> QED BY ImagesOfServices
<1>2. IsFiniteSet(Three!AboutTheGrid)
  BY ThreeAboutTheGrid, SixAreFinite, FS_Subset
<1>3. Three!Issues \subseteq F \cup G \cup H \cup Three!AboutTheGrid
  <2> SUFFICES ASSUME NEW i \in Three!Issues, i \notin Three!AboutTheGrid
               PROVE  i \in F \cup G \cup H
    OBVIOUS
  <2>1. PICK s \in SS :
               i \in Three!ServiceIssue(s) \/ i \in Three!SectionIssue(s) \/ i \in Three!CountersIssue(s)
    BY ThreeIssues
  <2>2. i = f[s] \/ i = g[s] \/ i = h[s]
    BY <2>1, ThreeOfService
  <2> HIDE DEF f, g, h
  <2> QED BY <2>2
<1> HIDE DEF F, G, H
<1>4. IsFiniteSet(F \cup G \cup H \cup Three!AboutTheGrid)
  BY <1>1, <1>2, FS_Union
<1> QED BY <1>3, <1>4, FS_Subset

LEMMA ItemsHavePages ==
  ASSUME NEW i \in Three!Issues
  PROVE  i.page \in Three!Pages /\ i.severity \in {"critical", "warning", "info"}
<1>1. CASE i \in Three!AboutTheGrid
  BY <1>1, ThreeAboutTheGrid DEF Three!Issue, Three!Pages
<1>2. ASSUME NEW s \in Three!ServiceSet,
             i \in Three!ServiceIssue(s) \/ i \in Three!SectionIssue(s) \/ i \in Three!CountersIssue(s)
      PROVE  i.page \in Three!Pages /\ i.severity \in {"critical", "warning", "info"}
  <2>1. s \in {meters, pricing, matching, billing}
    BY ThreeServicesKnown
  <2>2. Three!PageOfSection(s) \in Three!Pages
    BY <2>1 DEF Three!PageOfSection, Three!Pages
  <2> QED BY <1>2, <2>2, ThreeOfService DEF Three!Issue, Three!Pages
<1> QED BY <1>1, <1>2, ThreeIssues

LEMMA WorstOfSome ==
  ASSUME NEW S, NEW i \in S, \A j \in S : j.severity \in {"critical", "warning", "info"}
  PROVE  /\ i.severity = "critical" => Three!FirstListed(S).severity = "critical"
         /\ i.severity = "warning" => Three!FirstListed(S).severity # "info"
<1> DEFINE Key(j) == Three!Order(j.severity)
           Least(j) == \A k \in S : Key(j) <= Key(k)
<1>1. \A j \in S : /\ Key(j) \in {0, 1, 2}
                   /\ j.severity = "critical" <=> Key(j) = 0
                   /\ j.severity = "info" <=> Key(j) = 2
  BY DEF Three!Order
<1>2. i.severity = "warning" => Key(i) = 1
  BY DEF Three!Order
<1> HIDE DEF Key
<1>3. \E j \in S : Least(j)
  <2>1. CASE \E j \in S : Key(j) = 0
    BY <1>1, <2>1
  <2>2. CASE (\A j \in S : Key(j) # 0) /\ \E j \in S : Key(j) = 1
    BY <1>1, <2>2
  <2>3. CASE \A j \in S : Key(j) # 0 /\ Key(j) # 1
    BY <1>1, <2>3
  <2> QED BY <2>1, <2>2, <2>3
<1>4. Three!FirstListed(S) = CHOOSE j \in S : Least(j)
  BY DEF Three!FirstListed, Key
<1>5. Three!FirstListed(S) \in S /\ Least(Three!FirstListed(S))
  BY <1>3, <1>4, Zenon
<1> QED BY <1>1, <1>2, <1>5

LEMMA BadgesAreRight == Three!BadgesShowTheWorst
<1> DEFINE counted == [p \in Three!Pages |-> Three!Cardinality(Three!Own(p))]
           pageOf == [i \in Three!Issues |-> i.page]
<1>1. Three!FoldFunction(+, 0, counted) = SumOver(counted, DOMAIN counted)
  BY DEF Three!FoldFunction, Three!FoldFunctionOnSet, Three!MapThenFoldSet, SumOver, SumStep, Chosen
<1>2. IsFiniteSet(Three!Pages)
  <2>1. Three!Pages = {"overview", "energy", "market", "trading", "billing", "households"} \cup {"system"}
    BY DEF Three!Pages
  <2> QED BY <2>1, SixAreFinite, FS_AddElement
<1>3. CountShares(counted, pageOf, Three!Issues, Three!Pages)
  <2>1. \A i \in Three!Issues : pageOf[i] \in Three!Pages
    BY ItemsHavePages
  <2>2. ASSUME NEW p \in Three!Pages
        PROVE  counted[p] = Cardinality({i \in Three!Issues : pageOf[i] = p})
    <3>1. {i \in Three!Issues : pageOf[i] = p} = Three!Own(p)
      BY DEF Three!Own
    <3> QED BY <3>1, ThreeCardinality
  <2> QED BY <2>1, <2>2 DEF CountShares
<1>4. SumOver(counted, Three!Pages) = Three!Cardinality(Three!Issues)
  BY <1>2, <1>3, ListIsFinite, CountsAddUp, ThreeCardinality
<1>5. Three!FoldFunction(+, 0, counted) = Three!Cardinality(Three!Issues)
  BY <1>1, <1>4
<1>6. ASSUME NEW p \in Three!Pages, NEW i \in Three!Own(p)
      PROVE  /\ i.severity = "critical" => Three!Worst(p) = "critical"
             /\ i.severity = "warning" => Three!Worst(p) # "info"
  <2>1. \A j \in Three!Own(p) : j.severity \in {"critical", "warning", "info"}
    BY ItemsHavePages DEF Three!Own
  <2> QED BY <2>1, WorstOfSome DEF Three!Worst
<1> QED BY <1>5, <1>6 DEF Three!BadgesShowTheWorst

-----------------------------------------------------------------------------
(* The banner. *)
LEMMA BannerIsRight == Two!BannerAgreesWithList
<1> DEFINE named == {s \in Two!ServiceSet : \E i \in Two!Issues : i.id = "service" /\ i.about = s}
<1>1. health # None => named = Two!Affected
  <2> SUFFICES ASSUME health # None, NEW s \in Two!ServiceSet
               PROVE  s \in Two!Affected <=> \E i \in Two!Issues : i.id = "service" /\ i.about = s
    BY DEF Two!Affected
  <2>1. ASSUME s \in Two!Affected
        PROVE  \E i \in Two!Issues : i.id = "service" /\ i.about = s
    <3> DEFINE it == Two!Issue("service", s, "critical", "system")
    <3>1. it \in Two!Issues
      BY <2>1, TwoOfService, TwoIssues
    <3>2. it.id = "service" /\ it.about = s
      BY DEF Two!Issue
    <3> HIDE DEF it
    <3> QED BY <3>1, <3>2
  <2>2. ASSUME NEW i \in Two!Issues, i.id = "service", i.about = s
        PROVE  s \in Two!Affected
    <3>1. i \in {j \in Two!Issues : j.about = s}
      BY <2>2
    <3>2. i \in Two!ServiceIssue(s) \/ i \in Two!SectionIssue(s) \/ i \in Two!CountersIssue(s)
      BY <3>1, TwoIssuesOfService
    <3> QED BY <2>2, <3>2, TwoOfService DEF Two!Issue
  <2> QED BY <2>1, <2>2
<1>2. Two!ServiceSet # {}
  BY TwoServicesKnown
<1>3. Two!Panel = "looking" => health = None
  BY DEF Two!Panel
<1> HIDE DEF named
<1>4. /\ Two!SystemStatus = "operational" => Two!Panel # "looking" /\ named = {}
      /\ Two!SystemStatus = "down" => named = Two!ServiceSet
      /\ Two!SystemStatus = "degraded" => named # {} /\ named # Two!ServiceSet
  BY <1>1, <1>2, <1>3 DEF Two!SystemStatus
<1> QED BY <1>4 DEF named, Two!BannerAgreesWithList

-----------------------------------------------------------------------------
(* What is told and what there is to tell, whatever happens to the grid.   *)
LEMMA FactsChange ==
  ASSUME NEW f \in Two!Facts
  PROVE  /\ f.ledger \in {"empty", "even", "off"} /\ f.count \in [Two!Counted -> {0, 1, None}]
         /\ \A l \in {"empty", "even", "off"} : [f EXCEPT !.ledger = l] \in Two!Facts
         /\ \A k \in Two!Counted, n \in 0 .. 1 : [f EXCEPT !.count[k] = n] \in Two!Facts
         /\ [f EXCEPT !.count =
                [k \in Two!Counted |-> IF k \in {"dead", "rejected"} THEN None ELSE @[k]]] \in Two!Facts
<1>1. /\ f = [ledger |-> f.ledger, count |-> f.count]
      /\ f.ledger \in {"empty", "even", "off"} /\ f.count \in [Two!Counted -> 0 .. 1 \cup {None}]
      /\ f.count["refused"] # None /\ f.count["pending"] # None
  BY DEF Two!Facts
<1>2. 0 .. 1 \cup {None} = {0, 1, None}
  OBVIOUS
<1>3. ASSUME NEW l \in {"empty", "even", "off"} PROVE [f EXCEPT !.ledger = l] \in Two!Facts
  BY <1>1 DEF Two!Facts
<1>4. ASSUME NEW k \in Two!Counted, NEW n \in 0 .. 1 PROVE [f EXCEPT !.count[k] = n] \in Two!Facts
  <2> DEFINE c == [f.count EXCEPT ![k] = n]
  <2>1. [f EXCEPT !.count[k] = n] = [ledger |-> f.ledger, count |-> c]
    BY <1>1
  <2>2. c \in [Two!Counted -> 0 .. 1 \cup {None}] /\ c["refused"] # None /\ c["pending"] # None
    BY <1>1, TwoServicesKnown
  <2> HIDE DEF c
  <2> QED BY <1>1, <2>1, <2>2 DEF Two!Facts
<1>5. [f EXCEPT !.count =
         [k \in Two!Counted |-> IF k \in {"dead", "rejected"} THEN None ELSE @[k]]] \in Two!Facts
  <2> DEFINE c == [k \in Two!Counted |-> IF k \in {"dead", "rejected"} THEN None ELSE f.count[k]]
  <2>1. [f EXCEPT !.count =
           [k \in Two!Counted |-> IF k \in {"dead", "rejected"} THEN None ELSE @[k]]] =
             [ledger |-> f.ledger, count |-> c]
    BY <1>1
  <2>2. c \in [Two!Counted -> 0 .. 1 \cup {None}]
    BY <1>1
  <2>3. c["refused"] = f.count["refused"] /\ c["pending"] = f.count["pending"]
    BY DEF Two!Counted
  <2> HIDE DEF c
  <2> QED BY <1>1, <2>1, <2>2, <2>3 DEF Two!Facts
<1> QED BY <1>1, <1>2, <1>3, <1>4, <1>5

LEMMA TwoBegins == Two!Init => Two!TypeOK
<1> SUFFICES ASSUME Two!Init PROVE Two!TypeOK
  OBVIOUS
<1>1. Two!Quiet \in Two!Facts
  <2> DEFINE c == [f \in Two!Counted |-> IF f \in {"refused", "pending"} THEN 0 ELSE None]
  <2>1. c \in [Two!Counted -> 0 .. 1 \cup {None}]
    OBVIOUS
  <2>2. c["refused"] = 0 /\ c["pending"] = 0
    BY DEF Two!Counted
  <2>3. c["refused"] # None /\ c["pending"] # None
    BY <2>2, TwoServicesKnown
  <2>4. Two!Quiet = [ledger |-> "empty", count |-> c]
    BY DEF Two!Quiet
  <2> HIDE DEF c
  <2> QED BY <2>1, <2>3, <2>4 DEF Two!Facts
<1>2. report \in [Two!ServiceSet -> Two!Reports] /\ section \in [Two!ServiceSet -> Two!Answers]
  BY DEF Two!Init, Two!Reports, Two!Answers
<1> QED BY <1>1, <1>2 DEF Two!Init, Two!TypeOK

LEMMA TwoKeepsTypes == Two!TypeOK /\ [Two!Next]_attentionVars => Two!TypeOK'
<1> SUFFICES ASSUME Two!TypeOK, [Two!Next]_attentionVars PROVE Two!TypeOK'
  OBVIOUS
<1>0. /\ report \in [Two!ServiceSet -> Two!Reports] /\ facts \in Two!Facts
      /\ health = None \/ health \in [Two!ServiceSet -> Two!Reports]
      /\ section \in [Two!ServiceSet -> Two!Answers]
      /\ counters = None \/ counters \in [Two!ServiceSet -> Two!Answers \ {Two!Loading}]
  BY DEF Two!TypeOK
<1>1. ASSUME NEW r, NEW f, Two!Change(r, f), r \in [Two!ServiceSet -> Two!Reports], f \in Two!Facts
      PROVE  Two!TypeOK'
  BY <1>0, <1>1 DEF Two!Change, Two!told, Two!TypeOK
<1>2. CASE Two!GridChanges
  <2>1. ASSUME NEW s \in Two!ServiceSet, NEW r \in Two!Reports,
               Two!Change([report EXCEPT ![s] = r],
                          IF report[s] = "none" THEN Two!AfterRestart(s) ELSE facts)
        PROVE  Two!TypeOK'
    <3>1. [report EXCEPT ![s] = r] \in [Two!ServiceSet -> Two!Reports]
      BY <1>0
    <3>2. Two!AfterRestart(s) \in Two!Facts
      BY <1>0, FactsChange DEF Two!AfterRestart
    <3>3. (IF report[s] = "none" THEN Two!AfterRestart(s) ELSE facts) \in Two!Facts
      BY <1>0, <3>2
    <3> QED BY <1>1, <2>1, <3>1, <3>3
  <2>2. ASSUME NEW l \in {"even", "off"}, Two!Change(report, [facts EXCEPT !.ledger = l])
        PROVE  Two!TypeOK'
    BY <1>0, <1>1, <2>2, FactsChange
  <2>3. ASSUME NEW k \in Two!Counted, NEW n \in 0 .. 1,
               Two!Change(report, [facts EXCEPT !.count[k] = n])
        PROVE  Two!TypeOK'
    <3>1. [facts EXCEPT !.count[k] = n] \in Two!Facts
      BY <1>0, FactsChange
    <3> QED BY <1>0, <1>1, <2>3, <3>1
  <2> QED BY <1>2, <2>1, <2>2, <2>3 DEF Two!GridChanges
<1>3. Two!Told(facts) \in Two!Answers \ {Two!Loading} /\ Two!Failed \in Two!Answers \ {Two!Loading}
  BY <1>0 DEF Two!Told, Two!Answers, Two!Failed, Two!Loading
<1>4. CASE Two!HealthAnswers
  BY <1>0, <1>4 DEF Two!HealthAnswers, Two!grid, Two!TypeOK
<1>5. ASSUME NEW s \in Two!ServiceSet, Two!SectionAnswers(s) \/ Two!SectionFails(s)
      PROVE  Two!TypeOK'
  <2>1. section' \in [Two!ServiceSet -> Two!Answers]
    BY <1>0, <1>3, <1>5 DEF Two!SectionAnswers, Two!SectionFails
  <2> QED BY <1>0, <1>5, <2>1 DEF Two!SectionAnswers, Two!SectionFails, Two!grid, Two!TypeOK
<1>6. ASSUME NEW failing \in SUBSET Two!ServiceSet, Two!CountersAnswer(failing)
      PROVE  Two!TypeOK'
  <2>1. counters' \in [Two!ServiceSet -> Two!Answers \ {Two!Loading}]
    BY <1>3, <1>6 DEF Two!CountersAnswer
  <2> QED BY <1>0, <1>6, <2>1 DEF Two!CountersAnswer, Two!grid, Two!TypeOK
<1>7. CASE UNCHANGED attentionVars
  BY <1>0, <1>7 DEF attentionVars, Two!TypeOK
<1> QED BY <1>2, <1>4, <1>5, <1>6, <1>7 DEF Two!Next

(* For any two services or more of the four, in any order, and however     *)
(* often the grid changes between answers: what is known to be wrong with  *)
(* a service is in the list, its readiness instead of the rest; the badges *)
(* count every item once, in the colour of the worst; the banner says what *)
(* the list says.  (findIssues, systemStatus, Navigation)                  *)
THEOREM FaultsAreAlwaysNamed == MCSpec => []FaultsAreNamed
<1> DEFINE TwoInv == part = "two services" => Two!TypeOK
<1>1. MCInit => TwoInv
  BY TwoBegins DEF MCInit
<1>2. TwoInv /\ [MCNext]_mcVars => TwoInv'
  <2> SUFFICES ASSUME TwoInv, [MCNext]_mcVars, part' = "two services" PROVE Two!TypeOK'
    OBVIOUS
  <2>1. part' = part
    BY DEF MCNext, mcVars
  <2>2. [Two!Next]_attentionVars
    BY <2>1 DEF MCNext, mcVars, SessionSteps, AttentionSteps, BrowserSteps, RangeSteps
  <2> QED BY <2>1, <2>2, TwoKeepsTypes
<1>3. TwoInv => FaultsAreNamed
  BY TwoNamesEveryFailure, ThreeNamesEveryFailure, BadgesAreRight, BannerIsRight DEF FaultsAreNamed
<1> QED BY <1>1, <1>2, <1>3, PTL DEF MCSpec, mcVars

-----------------------------------------------------------------------------
(***************************************************************************)
(* Windows of time (StatsRange).  Hour is so many ticks and Day so many    *)
(* hours; weeks begin on the fourth day of the epoch's.                    *)
(***************************************************************************)
Kinds == {"hour", "day", "week"}
BucketSize(H, D, bucket) == IF bucket = "hour" THEN H ELSE IF bucket = "day" THEN D ELSE 7 * D
BucketEdge(D, bucket) == IF bucket = "week" THEN 4 * D ELSE 0
Truncated(H, D, t, bucket) ==
    LET start == t - (t % (IF bucket = "hour" THEN H ELSE D))
    IN  IF bucket = "week" THEN start - D * ((((start \div D + 4) % 7) + 6) % 7) ELSE start

Calendar(H, D) == H \in Nat \ {0} /\ D \in Nat \ {0} /\ D % H = 0

LEMMA DivMod ==
  ASSUME NEW t \in Int, NEW s \in Nat \ {0}
  PROVE  /\ t = s * (t \div s) + (t % s) /\ t % s \in 0 .. s - 1 /\ t \div s \in Int
OBVIOUS

LEMMA Divided ==
  ASSUME NEW s \in Nat \ {0}, NEW t \in Int, t % s = 0
  PROVE  \E q \in Int : t = s * q
<1>1. t \div s \in Int /\ t = s * (t \div s)
  OBVIOUS
<1> QED BY <1>1

LEMMA Multiple ==
  ASSUME NEW s \in Nat \ {0}, NEW q \in Int, NEW t, t = s * q
  PROVE  t \in Int /\ t % s = 0 /\ t \div s = q
OBVIOUS

LEMMA TimesMonotone ==
  ASSUME NEW s \in Nat, NEW a \in Int, NEW b \in Int
  PROVE  /\ s * a \in Int /\ s * (a + b) = s * a + s * b /\ s * (a - b) = s * a - s * b
         /\ (a <= b => s * a <= s * b)
OBVIOUS

LEMMA SizesOfBuckets ==
  ASSUME NEW H, NEW D, Calendar(H, D), NEW b \in Kinds
  PROVE  BucketSize(H, D, b) \in Nat \ {0} /\ BucketEdge(D, b) \in Nat
BY DEF Calendar, Kinds, BucketSize, BucketEdge

(* A bucket starts at the edge or a whole number of buckets from it.       *)
LEMMA TruncatedIsAnEdge ==
  ASSUME NEW H, NEW D, Calendar(H, D), NEW b \in Kinds, NEW t \in Int
  PROVE  LET f == Truncated(H, D, t, b)
             s == BucketSize(H, D, b)
         IN  f \in Int /\ f <= t /\ t < f + s /\ (f - BucketEdge(D, b)) % s = 0
<1> DEFINE f == Truncated(H, D, t, b)
           s == BucketSize(H, D, b)
<1>0. H \in Nat \ {0} /\ D \in Nat \ {0}
  BY DEF Calendar
<1>1. ASSUME b # "week", NEW u \in Nat \ {0}, u = s, f = t - (t % u)
      PROVE  f \in Int /\ f <= t /\ t < f + s /\ (f - BucketEdge(D, b)) % s = 0
  <2>1. t % u \in 0 .. u - 1 /\ t = u * (t \div u) + (t % u) /\ t \div u \in Int
    BY DivMod
  <2>2. BucketEdge(D, b) = 0
    BY <1>1 DEF BucketEdge
  <2> HIDE DEF f, s
  <2>3. f = u * (t \div u)
    BY <1>1, <2>1
  <2>4. f \in Int /\ f % u = 0
    BY <2>1, <2>3, Multiple
  <2>5. f <= t /\ t < f + u
    BY <1>1, <2>1
  <2>6. f - BucketEdge(D, b) = f
    BY <2>2, <2>4
  <2> QED BY <1>1, <2>4, <2>5, <2>6
<1>2. CASE b = "hour"
  <2>1. s = H /\ f = t - (t % H)
    BY <1>2 DEF BucketSize, Truncated
  <2> HIDE DEF f, s
  <2> QED BY <1>0, <1>1, <1>2, <2>1 DEF f, s
<1>3. CASE b = "day"
  <2>1. s = D /\ f = t - (t % D)
    BY <1>3 DEF BucketSize, Truncated
  <2> QED BY <1>0, <1>1, <1>3, <2>1
<1>4. CASE b = "week"
  <2> DEFINE d == t \div D
             w == (((d + 4) % 7) + 6) % 7
  <2>1. t % D \in 0 .. D - 1 /\ t = D * d + (t % D) /\ d \in Int
    BY <1>0, DivMod
  <2>2. t - (t % D) = D * d
    BY <2>1, <1>0
  <2>3. (t - (t % D)) \div D = d
    BY <1>0, <2>1, <2>2, Multiple
  <2>4. s = 7 * D /\ f = D * d - D * w /\ BucketEdge(D, b) = 4 * D
    BY <1>4, <2>2, <2>3, <1>0, <2>1, TimesMonotone DEF BucketSize, Truncated, BucketEdge
  <2>5. w \in 0 .. 6 /\ (d - w - 4) % 7 = 0
    BY <2>1
  <2> HIDE DEF d, w
  <2>6. PICK q \in Int : d - w - 4 = 7 * q
    <3>1. d - w - 4 \in Int
      BY <2>1, <2>5
    <3>2. 7 \in Nat \ {0}
      OBVIOUS
    <3> QED BY <2>5, <3>1, <3>2, Divided
  <2> HIDE DEF f, s
  <2>7. f = D * (d - w) /\ f \in Int
    BY <1>0, <2>1, <2>4, <2>5, TimesMonotone
  <2>8. f - 4 * D = s * q /\ s \in Nat \ {0}
    <3>1. f - 4 * D = D * (d - w - 4)
      BY <1>0, <2>1, <2>5, <2>7
    <3>2. D * (7 * q) = (7 * D) * q
      BY <1>0
    <3> QED BY <2>4, <2>6, <3>1, <3>2, <1>0
  <2>9. (f - 4 * D) % s = 0
    BY <2>8, Multiple
  <2>10. D * w \in Int /\ 0 <= D * w /\ D * w <= 6 * D
    BY <1>0, <2>5
  <2>11. f <= t /\ t < f + s
    <3>1. f = t - (t % D) - D * w /\ t % D \in Int /\ t % D >= 0 /\ t % D < D
      BY <1>0, <2>1, <2>2, <2>4
    <3> HIDE <2>1, <2>2, <2>3, <2>4, <2>5, <2>6, <2>7, <2>8, <2>9
    <3> QED BY <1>0, <2>4, <2>10, <3>1
  <2>12. f \in Int /\ f <= t /\ t < f + s /\ (f - BucketEdge(D, b)) % s = 0
    BY <2>4, <2>7, <2>9, <2>11
  <2> QED BY <2>12 DEF f, s
<1> QED BY <1>2, <1>3, <1>4 DEF Kinds

(* There is one edge in every stretch of a bucket's length.                *)
LEMMA OneEdge ==
  ASSUME NEW s \in Nat \ {0}, NEW o \in Int, NEW t \in Int, NEW x \in Int, NEW y \in Int,
         (x - o) % s = 0, (y - o) % s = 0, x <= t, t < x + s, y <= t, t < y + s
  PROVE  x = y
<1>0. x - o \in Int /\ y - o \in Int
  OBVIOUS
<1>1. PICK p \in Int : x - o = s * p
  BY <1>0, Divided
<1>2. PICK q \in Int : y - o = s * q
  BY <1>0, Divided
<1>3. s * p < s * q + s /\ s * q < s * p + s
  BY <1>1, <1>2
<1>4. p = q
  BY <1>3
<1> QED BY <1>1, <1>2, <1>4

LEMMA EdgesFollow ==
  ASSUME NEW s \in Nat \ {0}, NEW o \in Int, NEW x \in Int, (x - o) % s = 0, NEW j \in Int
  PROVE  x + j * s \in Int /\ ((x + j * s) - o) % s = 0
<1>0. x - o \in Int
  OBVIOUS
<1>1. PICK p \in Int : x - o = s * p
  BY <1>0, Divided
<1>2. j * s \in Int /\ (x + j * s) - o = s * (p + j) /\ p + j \in Int
  BY <1>1, TimesMonotone
<1> QED BY <1>2, Multiple

(* Counted from an edge on, the bucket of a moment.                        *)
LEMMA BucketOfMoment ==
  ASSUME NEW H, NEW D, Calendar(H, D), NEW b \in Kinds, NEW first \in Int,
         (first - BucketEdge(D, b)) % BucketSize(H, D, b) = 0, NEW t \in Int, first <= t
  PROVE  LET s == BucketSize(H, D, b)
             j == (t - first) \div s
         IN  /\ j \in Nat /\ Truncated(H, D, t, b) = first + j * s
             /\ first + j * s <= t /\ t < first + j * s + s
<1> DEFINE s == BucketSize(H, D, b)
           j == (t - first) \div s
           o == BucketEdge(D, b)
           x == Truncated(H, D, t, b)
<1>1. s \in Nat \ {0} /\ o \in Int /\ (first - o) % s = 0
  BY SizesOfBuckets
<1>2. x \in Int /\ x <= t /\ t < x + s /\ (x - o) % s = 0
  BY TruncatedIsAnEdge
<1> HIDE DEF s, o, x
<1>3. t - first \in Int /\ t - first >= 0
  OBVIOUS
<1>4. /\ t - first = s * j + ((t - first) % s) /\ (t - first) % s \in 0 .. s - 1 /\ j \in Int
  <2> DEFINE u == t - first
  <2>1. u \in Int
    OBVIOUS
  <2> HIDE DEF u
  <2>2. u = s * (u \div s) + (u % s) /\ u % s \in 0 .. s - 1 /\ u \div s \in Int
    BY <1>1, <2>1, DivMod
  <2> QED BY <2>2 DEF u
<1>5. j \in Nat
  BY <1>1, <1>3, <1>4
<1> HIDE DEF j
<1>6. first + j * s <= t /\ t < first + j * s + s
  BY <1>1, <1>4
<1>7. first + j * s \in Int /\ ((first + j * s) - o) % s = 0
  BY <1>1, <1>4, EdgesFollow
<1>8. x = first + j * s
  BY <1>1, <1>2, <1>6, <1>7, OneEdge
<1> QED BY <1>5, <1>6, <1>8 DEF j, s, x

(* How many of the buckets from first on, at most one more than most,      *)
(* start before an end.                                                    *)
Fitting(first, s, most, end) == {j \in 0 .. most : first + j * s < end}

LEMMA HowManyFit ==
  ASSUME NEW s \in Nat \ {0}, NEW most \in Nat, NEW first \in Int, NEW end \in Int
  PROVE  LET m == Cardinality(Fitting(first, s, most, end))
         IN  /\ m \in Nat /\ m <= most + 1
             /\ \A j \in 0 .. most : j < m <=> first + j * s < end
<1> DEFINE J == Fitting(first, s, most, end)
<1>1. ASSUME NEW n \in 0 .. most + 1, J = 0 .. n - 1
      PROVE  LET m == Cardinality(J)
             IN  /\ m \in Nat /\ m <= most + 1
                 /\ \A j \in 0 .. most : j < m <=> first + j * s < end
  <2>1. Cardinality(0 .. n - 1) = n
    <3>1. 0 \in Int /\ n - 1 \in Int
      BY <1>1
    <3> QED BY <1>1, <3>1, FS_Interval
  <2>2. \A j \in 0 .. most : j \in J <=> first + j * s < end
    BY DEF Fitting
  <2> HIDE DEF J
  <2> QED BY <1>1, <2>1, <2>2
<1>2. CASE end <= first
  <2>1. \A j \in 0 .. most : j * s >= 0
    OBVIOUS
  <2>2. J = 0 .. 0 - 1
    BY <1>2, <2>1 DEF Fitting
  <2> HIDE DEF J
  <2> QED BY <1>1, <2>2 DEF J
<1>3. CASE first < end
  <2> DEFINE q == (end - 1 - first) \div s
             n == IF q <= most THEN q + 1 ELSE most + 1
  <2>1. end - 1 - first \in Nat
    BY <1>3
  <2>2. /\ q \in Int /\ end - 1 - first = s * q + ((end - 1 - first) % s)
        /\ (end - 1 - first) % s \in 0 .. s - 1
    BY <2>1, DivMod
  <2> HIDE DEF q
  <2>3. q \in Nat
    BY <2>1, <2>2
  <2>4. ASSUME NEW j \in 0 .. most PROVE first + j * s < end <=> j <= q
    <3>1. j <= q => s * j <= s * q
      BY <2>3, TimesMonotone
    <3>2. q < j => s * (q + 1) <= s * j
      BY <2>3, TimesMonotone
    <3>3. s * (q + 1) = s * q + s /\ s * j \in Int /\ s * q \in Int /\ j * s = s * j
      BY <2>3, TimesMonotone
    <3> QED BY <2>2, <2>3, <3>1, <3>2, <3>3
  <2>5. J = 0 .. n - 1 /\ n \in 0 .. most + 1
    BY <2>3, <2>4 DEF Fitting
  <2> HIDE DEF J, n
  <2> QED BY <1>1, <2>5 DEF J
<1> QED BY <1>2, <1>3

-----------------------------------------------------------------------------
(* The module's own definitions, in terms of these. *)
Edge(t, bucket) == Truncated(Small.Hour, Buckets!Day, t, bucket)
Length(bucket) == BucketSize(Small.Hour, Buckets!Day, bucket)
Most(bucket) == Small.BucketMax[bucket]
HowMany(from, to, bucket) ==
    Cardinality(Fitting(Edge(from, bucket), Length(bucket), Most(bucket), to))

LEMMA BucketsCardinality == \A S : Buckets!Cardinality(S) = Cardinality(S)
BY DEF Buckets!Cardinality, Cardinality

LEMMA BucketsFacts ==
  /\ Calendar(Small.Hour, Buckets!Day) /\ Buckets!Day \in Nat \ {0}
  /\ Buckets!Buckets = Kinds
  /\ \A b \in Kinds : Most(b) \in Nat \ {0} /\ Length(b) \in Nat \ {0}
                      /\ Small.BucketDefault[b] \in Nat \ {0}
  /\ Small.PresetDays \subseteq Nat \ {0} /\ Small.PresetDays # {}
  /\ Small.Starts \subseteq Nat /\ Small.Bounds \subseteq Nat /\ Small.Dates \subseteq Nat
  /\ Small.MaxTicks \in Nat
<1>1. /\ Small.Hour \in Nat \ {0} /\ Small.HoursPerDay \in Nat \ {0}
      /\ Small.BucketMax \in [Kinds -> Nat \ {0}] /\ Small.BucketDefault \in [Kinds -> Nat \ {0}]
      /\ Small.PresetDays \subseteq Nat \ {0} /\ Small.PresetDays # {}
      /\ Small.Starts \subseteq Nat /\ Small.Bounds \subseteq Nat /\ Small.Dates \subseteq Nat
      /\ Small.MaxTicks \in Nat
  BY RangeConstants DEF Buckets!StatsRangeAssumption, Buckets!Buckets, Kinds
<1>2. Buckets!Day = Small.Hour * Small.HoursPerDay
  BY DEF Buckets!Day
<1>3. Buckets!Day \in Nat \ {0} /\ Buckets!Day % Small.Hour = 0
  <2>1. \A a, b \in Nat \ {0} : a * b \in Nat \ {0}
    OBVIOUS
  <2>2. Small.HoursPerDay \in Int
    BY <1>1
  <2> QED BY <1>1, <1>2, <2>1, <2>2, Multiple
<1>4. Calendar(Small.Hour, Buckets!Day)
  BY <1>1, <1>3 DEF Calendar
<1> QED BY <1>1, <1>3, <1>4, SizesOfBuckets DEF Buckets!Buckets, Kinds, Most, Length

LEMMA BucketsEdges ==
  ASSUME NEW b \in Kinds, NEW t
  PROVE  Buckets!TruncateToBucket(t, b) = Edge(t, b) /\ Buckets!Size(b) = Length(b)
<1>1. Buckets!Size(b) = Length(b)
  BY DEF Buckets!Size, Length, BucketSize, Kinds
<1>2. Buckets!TruncateToBucket(t, b) = Edge(t, b)
  BY DEF Buckets!TruncateToBucket, Buckets!UTCDay, Edge, Truncated
<1> QED BY <1>1, <1>2

LEMMA EdgeFacts ==
  ASSUME NEW b \in Kinds, NEW t \in Int
  PROVE  /\ Edge(t, b) \in Int /\ Edge(t, b) <= t /\ t < Edge(t, b) + Length(b)
         /\ (Edge(t, b) - BucketEdge(Buckets!Day, b)) % Length(b) = 0
         /\ Edge(Edge(t, b), b) = Edge(t, b)
<1> DEFINE f == Edge(t, b)
           g == Edge(f, b)
           o == BucketEdge(Buckets!Day, b)
           s == Length(b)
<1>1. f \in Int /\ f <= t /\ t < f + s /\ (f - o) % s = 0
  BY BucketsFacts, TruncatedIsAnEdge DEF Edge, Length
<1>2. g \in Int /\ g <= f /\ f < g + s /\ (g - o) % s = 0
  BY <1>1, BucketsFacts, TruncatedIsAnEdge DEF Edge, Length
<1>3. s \in Nat \ {0} /\ o \in Int
  BY BucketsFacts, SizesOfBuckets DEF Length
<1> HIDE DEF f, g, o, s
<1>4. f <= f /\ f < f + s
  BY <1>1, <1>3
<1>5. f = g
  BY <1>1, <1>2, <1>3, <1>4, OneEdge
<1> QED BY <1>1, <1>5 DEF f, g, o, s

LEMMA BucketsStarts ==
  ASSUME NEW b \in Kinds, NEW from \in Int, NEW to \in Int
  PROVE  /\ Buckets!BucketStarts(from, to, b) =
              [k \in 1 .. HowMany(from, to, b) |-> Edge(from, b) + (k - 1) * Length(b)]
         /\ Len(Buckets!BucketStarts(from, to, b)) = HowMany(from, to, b)
         /\ HowMany(from, to, b) \in Nat /\ HowMany(from, to, b) <= Most(b) + 1
         /\ \A j \in 0 .. Most(b) :
              j < HowMany(from, to, b) <=> Edge(from, b) + j * Length(b) < to
<1> DEFINE f == Edge(from, b)
           s == Length(b)
           m == HowMany(from, to, b)
           edges == [k \in 1 .. m |-> f + (k - 1) * s]
<1>1. Most(b) \in Nat /\ s \in Nat \ {0} /\ f \in Int
  BY BucketsFacts, EdgeFacts
<1>2. /\ m \in Nat /\ m <= Most(b) + 1
      /\ \A j \in 0 .. Most(b) : j < m <=> f + j * s < to
  <2> HIDE DEF f, s
  <2> QED BY <1>1, HowManyFit DEF HowMany, f, s
<1>3. (Most(b) + 1) - 1 = Most(b)
  BY <1>1
<1>4. Buckets!BucketStarts(from, to, b) = edges
  BY <1>3, BucketsEdges, BucketsCardinality
     DEF Buckets!BucketStarts, Buckets!StartsUpTo, Buckets!AddBuckets, HowMany, Fitting, Most
<1>5. Len(edges) = m
  <2> HIDE DEF f, s, m
  <2>1. \A k \in 1 .. m : f + (k - 1) * s \in Int
    BY <1>1, <1>2
  <2>2. edges \in Seq(Int) /\ Len(edges) = m
    BY <1>2, <2>1
  <2> QED BY <2>2
<1> QED BY <1>2, <1>4, <1>5

LEMMA DatabaseAgrees ==
  ASSUME NEW b \in Kinds, NEW t \in Int
  PROVE  Buckets!DateTrunc(t, b) = Edge(t, b)
<1> DEFINE s == Length(b)
           o == BucketEdge(Buckets!Day, b)
           Good(x) == x \in (t - s + 1) .. t /\ (x - o) % s = 0
           e == Edge(t, b)
           c == CHOOSE x \in (t - s + 1) .. t : (x - o) % s = 0
<1>1. s \in Nat \ {0} /\ o \in Int
  BY BucketsFacts, SizesOfBuckets DEF Length
<1>2. e \in Int /\ e <= t /\ t < e + s /\ (e - o) % s = 0
  BY EdgeFacts
<1>3. Buckets!DateTrunc(t, b) = c
  BY BucketsEdges DEF Buckets!DateTrunc, BucketEdge
<1> HIDE DEF s, o, e
<1>4. e \in (t - s + 1) .. t
  BY <1>1, <1>2
<1>5. c \in (t - s + 1) .. t /\ (c - o) % s = 0
  BY <1>2, <1>4
<1> HIDE DEF c
<1>6. c \in Int /\ c <= t /\ t < c + s
  BY <1>1, <1>5
<1>7. c = e
  BY <1>1, <1>2, <1>5, <1>6, OneEdge
<1> QED BY <1>3, <1>7 DEF e

(* Whatever moment is in the window of an accepted trend is in the one     *)
(* bucket that starts where the database truncates it to.                  *)
LEMMA OneBucketForEach ==
  ASSUME NEW b \in Kinds, NEW begin \in Int, NEW to \in Int, HowMany(begin, to, b) <= Most(b),
         NEW t \in Edge(begin, b) .. to - 1
  PROVE  LET edges == Buckets!BucketStarts(Edge(begin, b), to, b)
         IN  Cardinality({k \in DOMAIN edges : edges[k] = Buckets!DateTrunc(t, b)}) = 1
<1> DEFINE f == Edge(begin, b)
           s == Length(b)
           m == HowMany(begin, to, b)
           j == (t - f) \div s
           edges == Buckets!BucketStarts(f, to, b)
<1>1. /\ f \in Int /\ Edge(f, b) = f /\ s \in Nat \ {0} /\ t \in Int /\ f <= t /\ t < to
      /\ Most(b) \in Nat
  BY EdgeFacts, BucketsFacts
<1>2. HowMany(f, to, b) = m
  BY <1>1 DEF HowMany
<1>3. /\ edges = [k \in 1 .. m |-> f + (k - 1) * s] /\ m \in Nat
      /\ \A i \in 0 .. Most(b) : i < m <=> f + i * s < to
  <2>1. /\ edges = [k \in 1 .. HowMany(f, to, b) |-> Edge(f, b) + (k - 1) * s]
        /\ HowMany(f, to, b) \in Nat
        /\ \A i \in 0 .. Most(b) : i < HowMany(f, to, b) <=> Edge(f, b) + i * s < to
    BY <1>1, BucketsStarts
  <2> HIDE DEF edges, m, s, f
  <2> QED BY <1>1, <1>2, <2>1
<1>4. /\ j \in Nat /\ Buckets!DateTrunc(t, b) = f + j * s /\ f + j * s <= t
  <2>1. Buckets!DateTrunc(t, b) = Edge(t, b)
    BY <1>1, DatabaseAgrees
  <2>2. (f - BucketEdge(Buckets!Day, b)) % s = 0
    BY EdgeFacts
  <2> QED BY <1>1, <2>1, <2>2, BucketsFacts, BucketOfMoment DEF Edge, Length
<1> HIDE DEF f, s, m, j, edges
<1>5. j < m
  <2>1. CASE j <= Most(b)
    BY <1>1, <1>3, <1>4, <2>1
  <2>2. CASE j > Most(b)
    <3>1. Most(b) * s <= j * s
      BY <1>1, <1>4, <2>2
    <3>2. j * s \in Int /\ Most(b) * s \in Int
      BY <1>1, <1>4
    <3>3. f + Most(b) * s < to
      BY <1>1, <1>4, <3>1, <3>2
    <3>4. Most(b) < m
      BY <1>1, <1>3, <3>3
    <3> QED BY <1>1, <1>3, <3>4 DEF m
  <2> QED BY <1>1, <1>4, <2>1, <2>2
<1>6. {k \in DOMAIN edges : edges[k] = Buckets!DateTrunc(t, b)} = {j + 1}
  <2>1. DOMAIN edges = 1 .. m
    BY <1>3
  <2>2. ASSUME NEW k \in 1 .. m PROVE f + (k - 1) * s = f + j * s <=> k = j + 1
    BY <1>1, <1>4
  <2>3. \A k \in 1 .. m : edges[k] = f + (k - 1) * s
    BY <1>3
  <2>4. j + 1 \in 1 .. m
    BY <1>3, <1>4, <1>5
  <2> QED BY <1>4, <2>1, <2>2, <2>3, <2>4
<1>7. Cardinality({j + 1}) = 1
  BY FS_Singleton
<1> QED BY <1>6, <1>7 DEF f, edges

(* The groups of the database between two moments. *)
LEMMA GroupsOfWindow ==
  ASSUME NEW b \in Kinds, NEW begin \in Int, NEW end \in Int, begin < end
  PROVE  LET groups == {Buckets!DateTrunc(t, b) : t \in begin .. end - 1}
         IN  Cardinality(groups) \notin 1 .. Most(b) <=> HowMany(begin, end, b) > Most(b)
<1> DEFINE groups == {Buckets!DateTrunc(t, b) : t \in begin .. end - 1}
           f == Edge(begin, b)
           s == Length(b)
           m == HowMany(begin, end, b)
           q == ((end - 1) - f) \div s
           Bucket(t) == (t - f) \div s
           start == [j \in 0 .. q |-> f + j * s]
<1>1. /\ f \in Int /\ f <= begin /\ begin < f + s /\ s \in Nat \ {0} /\ Most(b) \in Nat \ {0}
      /\ (f - BucketEdge(Buckets!Day, b)) % s = 0
  BY EdgeFacts, BucketsFacts
<1>2. ASSUME NEW t \in Int, f <= t
      PROVE  /\ Bucket(t) \in Nat /\ Buckets!DateTrunc(t, b) = f + Bucket(t) * s
             /\ f + Bucket(t) * s <= t /\ t < f + Bucket(t) * s + s
  <2>1. Buckets!DateTrunc(t, b) = Edge(t, b)
    BY DatabaseAgrees
  <2> QED BY <1>1, <1>2, <2>1, BucketsFacts, BucketOfMoment DEF Edge, Length
<1>3. q \in Nat /\ f + q * s <= end - 1 /\ end - 1 < f + q * s + s
  <2>1. end - 1 \in Int /\ f <= end - 1
    BY <1>1
  <2> QED BY <1>2, <2>1
<1>4. /\ m \in Nat /\ \A j \in 0 .. Most(b) : j < m <=> f + j * s < end
  BY BucketsStarts
<1> HIDE DEF f, s, m, q
<1>5. ASSUME NEW j \in Nat, NEW t \in Int, f + j * s <= t, t < f + j * s + s, f <= t
      PROVE  Bucket(t) = j
  <2> DEFINE i == Bucket(t)
  <2>1. i \in Nat /\ f + i * s <= t /\ t < f + i * s + s
    BY <1>2, <1>5
  <2> HIDE DEF i
  <2>2. s * i < s * j + s /\ s * j < s * i + s
    BY <1>1, <1>5, <2>1
  <2>3. i = j
    BY <1>1, <2>1, <2>2
  <2> QED BY <2>3 DEF i
<1>6. ASSUME NEW t \in begin .. end - 1 PROVE Bucket(t) \in 0 .. q
  <2> DEFINE i == Bucket(t)
  <2>1. i \in Nat /\ f + i * s <= t
    BY <1>1, <1>2
  <2> HIDE DEF i
  <2>2. s * i < s * q + s /\ s * q \in Int /\ s * i \in Int
    BY <1>1, <1>3, <2>1
  <2>3. i <= q
    <3>1. q < i => s * (q + 1) <= s * i
      BY <1>1, <1>3, <2>1, TimesMonotone
    <3>2. s * (q + 1) = s * q + s
      BY <1>1, <1>3, TimesMonotone
    <3>3. s \in Int /\ q \in Int /\ i \in Int
      BY <1>1, <1>3, <2>1
    <3> QED BY <2>2, <3>1, <3>2, <3>3
  <2> QED BY <1>3, <2>1, <2>3 DEF i
<1>7. groups = {start[j] : j \in 0 .. q}
  <2>1. ASSUME NEW t \in begin .. end - 1
        PROVE  Buckets!DateTrunc(t, b) \in {start[j] : j \in 0 .. q}
    <3>1. Buckets!DateTrunc(t, b) = f + Bucket(t) * s
      BY <1>1, <1>2
    <3> HIDE DEF Bucket
    <3> QED BY <1>6, <3>1
  <2>2. ASSUME NEW j \in 0 .. q
        PROVE  \E t \in begin .. end - 1 : start[j] = Buckets!DateTrunc(t, b)
    <3> DEFINE t == IF j = 0 THEN begin ELSE f + j * s
    <3>1. j * s \in Int /\ j * s <= q * s /\ q * s \in Int /\ (j # 0 => j * s >= s)
      BY <1>1, <1>3
    <3>2. t \in begin .. end - 1 /\ f + j * s <= t /\ t < f + j * s + s /\ f <= t
      BY <1>1, <1>3, <3>1
    <3> HIDE DEF t
    <3>3. Bucket(t) = j
      BY <1>3, <1>5, <3>2
    <3>4. Buckets!DateTrunc(t, b) = f + j * s
      BY <1>2, <3>2, <3>3
    <3> QED BY <3>2, <3>4
  <2> HIDE DEF start
  <2> QED BY <2>1, <2>2
<1>8. Cardinality(groups) = q + 1
  <2>1. IsFiniteSet(0 .. q) /\ Cardinality(0 .. q) = q + 1
    <3>1. 0 \in Int /\ q \in Int
      BY <1>3
    <3> QED BY <1>3, <3>1, FS_Interval
  <2>2. \A i, j \in 0 .. q : f + i * s = f + j * s => i = j
    BY <1>1, <1>3
  <2>3. start \in Bijection(0 .. q, groups)
    <3>1. start \in [0 .. q -> groups]
      BY <1>7
    <3>2. \A i, j \in 0 .. q : start[i] = start[j] => i = j
      BY <2>2
    <3> HIDE DEF start, groups
    <3> QED BY <1>7, <3>1, <3>2 DEF Bijection, Injection, Surjection, IsInjective
  <2> QED BY <2>1, <2>3, FS_Bijection DEF ExistsBijection
<1>9. q + 1 > Most(b) <=> m > Most(b)
  <2>1. m > Most(b) <=> f + Most(b) * s < end
    BY <1>1, <1>4
  <2>2. f + Most(b) * s < end <=> Most(b) <= q
    <3>1. Most(b) <= q => s * Most(b) <= s * q
      BY <1>1, <1>3, TimesMonotone
    <3>2. q < Most(b) => s * (q + 1) <= s * Most(b)
      BY <1>1, <1>3, TimesMonotone
    <3>3. s * (q + 1) = s * q + s /\ s * q \in Int /\ s * Most(b) \in Int
          /\ Most(b) * s = s * Most(b) /\ q * s = s * q
      BY <1>1, <1>3, TimesMonotone
    <3> QED BY <1>1, <1>3, <3>1, <3>2, <3>3
  <2> QED BY <1>1, <1>3, <1>4, <2>1, <2>2
<1> QED BY <1>1, <1>3, <1>8, <1>9 DEF m

-----------------------------------------------------------------------------
(* What a caller asked, and what a trend makes of it. *)
Moments == {Buckets!Unbounded} \cup {Buckets!At(t) : t \in Int}
BeginOf(x) == Buckets!TrendStart(x.from, Buckets!TrendEnd(x.to, x.at), x.bucket)
EndOf(x) == Buckets!TrendEnd(x.to, x.at)
IsQuery(x) ==
    x.bucket \in Kinds /\ x.at \in Int /\ x.from \in Moments /\ x.to \in Moments
TrendOf(x) == Buckets!ResolveTrendWindow(x.from, x.to, x.bucket, x.at)
Answered(x) == Buckets!TrendWindow(BeginOf(x), EndOf(x), x.bucket)

LEMMA MomentFacts ==
  ASSUME NEW m \in Moments
  PROVE  \/ m.named = FALSE
         \/ m.named = TRUE /\ m.t \in Int
BY DEF Moments, Buckets!Unbounded, Buckets!At

LEMMA TrendFacts ==
  ASSUME NEW x, IsQuery(x)
  PROVE  /\ BeginOf(x) \in Int /\ EndOf(x) \in Int
         /\ \/ TrendOf(x) = Buckets!Refused
               /\ (BeginOf(x) >= EndOf(x) \/ HowMany(BeginOf(x), EndOf(x), x.bucket) > Most(x.bucket))
            \/ TrendOf(x) = Answered(x)
               /\ BeginOf(x) < EndOf(x) /\ HowMany(BeginOf(x), EndOf(x), x.bucket) <= Most(x.bucket)
<1>1. EndOf(x) \in Int
  BY MomentFacts DEF IsQuery, EndOf, Buckets!TrendEnd
<1>2. BeginOf(x) \in Int
  <2>1. CASE x.from.named = TRUE
    BY <2>1, MomentFacts DEF IsQuery, BeginOf, Buckets!TrendStart
  <2>2. CASE x.from.named = FALSE
    <3> DEFINE e == Edge(EndOf(x), x.bucket)
               n == 1 - Small.BucketDefault[x.bucket]
    <3>1. BeginOf(x) = e + n * Length(x.bucket)
      BY <2>2, BucketsEdges DEF BeginOf, EndOf, Buckets!TrendStart, Buckets!AddBuckets, IsQuery
    <3>2. e \in Int /\ n \in Int /\ Length(x.bucket) \in Int
      BY <1>1, EdgeFacts, BucketsFacts DEF IsQuery
    <3> HIDE DEF e, n
    <3> QED BY <3>1, <3>2, TimesMonotone
  <2> QED BY <2>1, <2>2, MomentFacts DEF IsQuery
<1>3. /\ Len(Buckets!BucketStarts(BeginOf(x), EndOf(x), x.bucket)) = HowMany(BeginOf(x), EndOf(x), x.bucket)
      /\ HowMany(BeginOf(x), EndOf(x), x.bucket) \in Nat /\ Most(x.bucket) \in Nat
  BY <1>1, <1>2, BucketsStarts, BucketsFacts DEF IsQuery
<1>4. TrendOf(x) = IF \/ BeginOf(x) >= EndOf(x)
                      \/ HowMany(BeginOf(x), EndOf(x), x.bucket) > Most(x.bucket)
                   THEN Buckets!Refused ELSE Answered(x)
  BY <1>3
     DEF TrendOf, Answered, BeginOf, EndOf, Buckets!ResolveTrendWindow, Buckets!TooManyBuckets, Most
<1> QED BY <1>1, <1>2, <1>3, <1>4

LEMMA AnswerFacts ==
  ASSUME NEW x, IsQuery(x)
  PROVE  /\ Buckets!Refused.refused = TRUE /\ Answered(x).refused = FALSE
         /\ Answered(x).from = Edge(BeginOf(x), x.bucket) /\ Answered(x).to = EndOf(x)
         /\ Answered(x).bucket = x.bucket
BY BucketsEdges DEF Buckets!Refused, Answered, Buckets!TrendWindow, IsQuery

(* The query of a period, or of any caller; what became of it. *)
QueryAnswered ==
    /\ IsQuery(query) /\ query.from \in Buckets!Instants \cup {Buckets!At(period.from)}
    /\ range = Buckets!ResolveStatsRange(query.from, query.to, query.at)
    /\ trend = TrendOf(query)
PeriodIsOne ==
    /\ period.from \in Int /\ period.to \in Int /\ period.from < period.to
    /\ period.bucket \in Kinds /\ period.preset \in {0} \cup Small.PresetDays
ClockInv == now \in Nat /\ ticks \in 0 .. Small.MaxTicks
BucketsInv == ClockInv /\ PeriodIsOne /\ QueryAnswered

LEMMA BucketsTypes == BucketsInv => Buckets!TypeOK
<1> SUFFICES ASSUME BucketsInv PROVE Buckets!TypeOK
  OBVIOUS
<1> DEFINE b == query.bucket
<1>1. IsQuery(query) /\ trend = TrendOf(query) /\ b \in Kinds
  BY DEF BucketsInv, QueryAnswered, IsQuery
<1>2. ~ range.refused => range.from \in Buckets!Instants \cup {Buckets!At(period.from)}
  BY DEF BucketsInv, QueryAnswered, Buckets!ResolveStatsRange, Buckets!Refused
<1>3. ASSUME ~ trend.refused
      PROVE  trend.from < trend.to /\ Buckets!BucketsOf(trend) # <<>>
  <2>1. /\ trend = Answered(query) /\ BeginOf(query) < EndOf(query)
        /\ BeginOf(query) \in Int /\ EndOf(query) \in Int
    BY <1>1, <1>3, TrendFacts, AnswerFacts
  <2> DEFINE f == Edge(BeginOf(query), b)
  <2>2. f \in Int /\ f <= BeginOf(query) /\ Edge(f, b) = f /\ Length(b) \in Nat /\ Most(b) \in Nat
    BY <1>1, <2>1, EdgeFacts, BucketsFacts
  <2>3. trend.from = f /\ trend.to = EndOf(query) /\ trend.bucket = b
    BY <1>1, <2>1, AnswerFacts
  <2>4. Len(Buckets!BucketsOf(trend)) = HowMany(f, EndOf(query), b)
        /\ HowMany(f, EndOf(query), b) \in Nat
        /\ (0 < HowMany(f, EndOf(query), b) <=> Edge(f, b) + 0 * Length(b) < EndOf(query))
    BY <1>1, <2>1, <2>2, <2>3, BucketsStarts DEF Buckets!BucketsOf
  <2> HIDE DEF f, b
  <2>5. Len(Buckets!BucketsOf(trend)) > 0
    BY <2>1, <2>2, <2>4
  <2>6. Len(<<>>) = 0
    OBVIOUS
  <2>7. Buckets!BucketsOf(trend) # <<>>
    BY <2>5, <2>6
  <2> QED BY <2>1, <2>2, <2>3, <2>7
<1> QED BY <1>2, <1>3, BucketsFacts DEF BucketsInv, ClockInv, PeriodIsOne, Buckets!TypeOK

LEMMA BucketsHoldEveryMoment == BucketsInv => Buckets!EveryMomentHasItsBucket
<1> SUFFICES ASSUME BucketsInv, ~ trend.refused,
                    NEW t \in trend.from .. trend.to - 1
             PROVE  LET edges == Buckets!BucketsOf(trend)
                    IN  Buckets!Cardinality({k \in DOMAIN edges :
                            edges[k] = Buckets!DateTrunc(t, trend.bucket)}) = 1
  BY DEF Buckets!EveryMomentHasItsBucket
<1> DEFINE b == query.bucket
           f == Edge(BeginOf(query), b)
           edges == Buckets!BucketStarts(f, EndOf(query), b)
<1>1. IsQuery(query) /\ trend = TrendOf(query) /\ b \in Kinds
  BY DEF BucketsInv, QueryAnswered, IsQuery
<1>2. /\ trend = Answered(query) /\ BeginOf(query) < EndOf(query)
      /\ HowMany(BeginOf(query), EndOf(query), b) <= Most(b)
      /\ BeginOf(query) \in Int /\ EndOf(query) \in Int
  BY <1>1, TrendFacts, AnswerFacts
<1>3. trend.from = f /\ trend.to = EndOf(query) /\ trend.bucket = b
  BY <1>1, <1>2, AnswerFacts
<1>4. Buckets!BucketsOf(trend) = edges
  BY <1>3 DEF Buckets!BucketsOf
<1>5. Cardinality({k \in DOMAIN edges : edges[k] = Buckets!DateTrunc(t, b)}) = 1
  BY <1>1, <1>2, <1>3, OneBucketForEach
<1> HIDE DEF edges, b
<1> QED BY <1>3, <1>4, <1>5, BucketsCardinality

LEMMA BucketsRefuseForCause == BucketsInv => Buckets!RefusedForCause
<1> SUFFICES ASSUME BucketsInv, query.from.named
             PROVE  LET groups == {Buckets!DateTrunc(t, query.bucket) :
                                     t \in query.from.t .. Buckets!AskedEnd - 1}
                    IN  trend.refused <=>
                          Buckets!Cardinality(groups) \notin 1 .. Small.BucketMax[query.bucket]
  BY DEF Buckets!RefusedForCause
<1> DEFINE b == query.bucket
           begin == query.from.t
           end == Buckets!AskedEnd
           groups == {Buckets!DateTrunc(t, b) : t \in begin .. end - 1}
<1>1. IsQuery(query) /\ trend = TrendOf(query) /\ b \in Kinds
  BY DEF BucketsInv, QueryAnswered, IsQuery
<1>2. BeginOf(query) = begin /\ EndOf(query) = end
  BY DEF BeginOf, EndOf, Buckets!TrendStart, Buckets!TrendEnd, Buckets!AskedEnd
<1>3. begin \in Int /\ end \in Int /\ Most(b) \in Nat \ {0}
  BY <1>1, <1>2, TrendFacts, BucketsFacts
<1>4. \/ trend.refused = TRUE /\ (begin >= end \/ HowMany(begin, end, b) > Most(b))
      \/ trend.refused = FALSE /\ begin < end /\ HowMany(begin, end, b) <= Most(b)
  BY <1>1, <1>2, TrendFacts, AnswerFacts
<1>5. HowMany(begin, end, b) \in Nat
  BY <1>1, <1>3, BucketsStarts
<1> HIDE DEF begin, end, b
<1>6. trend.refused <=> Cardinality(groups) \notin 1 .. Most(b)
  <2>1. CASE begin >= end
    <3>1. groups = {}
      BY <1>3, <2>1
    <3>2. Cardinality(groups) = 0
      BY <3>1, FS_EmptySet
    <3> HIDE DEF groups
    <3> QED BY <1>3, <1>4, <2>1, <3>2
  <2>2. CASE begin < end
    <3>1. Cardinality(groups) \notin 1 .. Most(b) <=> HowMany(begin, end, b) > Most(b)
      BY <1>1, <1>3, <2>2, GroupsOfWindow
    <3> HIDE DEF groups
    <3> QED BY <1>3, <1>4, <1>5, <2>2, <3>1
  <2> QED BY <1>3, <2>1, <2>2
<1> QED BY <1>6, BucketsCardinality DEF begin, end, b, Most

-----------------------------------------------------------------------------
LEMMA PresetIsAPeriod ==
  ASSUME NEW days \in Small.PresetDays, NEW clock \in Nat
  PROVE  LET p == Buckets!PresetWindow(days, clock)
         IN  /\ p.from \in Int /\ p.to \in Int /\ p.from < p.to /\ p.bucket \in Kinds
             /\ p.preset \in {0} \cup Small.PresetDays
<1>1. days \in Nat \ {0} /\ Buckets!Day \in Nat \ {0}
  BY BucketsFacts
<1>2. days * Buckets!Day \in Nat \ {0}
  BY <1>1
<1>3. Buckets!PresetBucket(days) \in Kinds
  BY DEF Buckets!PresetBucket, Kinds
<1> QED BY <1>2, <1>3 DEF Buckets!PresetWindow

LEMMA DatesAreAPeriod ==
  ASSUME NEW f \in Small.Dates, NEW l \in Small.Dates, NEW clock \in Nat,
         Buckets!CustomWindow(f, l, clock) # Buckets!Refused
  PROVE  LET p == Buckets!CustomWindow(f, l, clock)
         IN  /\ p.from \in Int /\ p.to \in Int /\ p.from < p.to /\ p.bucket \in Kinds
             /\ p.preset \in {0} \cup Small.PresetDays
<1> DEFINE from == f * Buckets!Day
           to == (l + 1) * Buckets!Day
<1>1. f \in Nat /\ l + 1 \in Nat /\ Buckets!Day \in Nat
  BY BucketsFacts
<1>2. from \in Int /\ to \in Int
  BY <1>1
<1>3. Buckets!BucketFor(from, to) \in Kinds
  BY DEF Buckets!BucketFor, Kinds
<1>4. from < to /\ Buckets!CustomWindow(f, l, clock) =
                     [preset |-> 0, from |-> from, to |-> to, bucket |-> Buckets!BucketFor(from, to)]
  BY <1>2 DEF Buckets!CustomWindow, Buckets!CustomProblem
<1> HIDE DEF from, to
<1> QED BY <1>2, <1>3, <1>4

LEMMA BucketsLoad ==
  ASSUME NEW p, now \in Nat, Buckets!LoadPeriod(p),
         p.from \in Int, p.to \in Int, p.from < p.to, p.bucket \in Kinds,
         p.preset \in {0} \cup Small.PresetDays
  PROVE  PeriodIsOne' /\ QueryAnswered' /\ UNCHANGED <<now, ticks>>
<1> DEFINE x == Buckets!PeriodQuery(p)
<1>1. /\ period' = p /\ Buckets!Resolve(x) /\ query' = x /\ UNCHANGED <<now, ticks>>
  BY DEF Buckets!LoadPeriod, Buckets!Resolve
<1>2. /\ x.from = Buckets!At(p.from) /\ x.to = Buckets!At(p.to) /\ x.bucket = p.bucket /\ x.at = now
  BY DEF Buckets!PeriodQuery, Buckets!Query
<1>3. IsQuery(x)
  BY <1>2 DEF IsQuery, Moments
<1> HIDE DEF x
<1>4. PeriodIsOne'
  BY <1>1 DEF PeriodIsOne
<1>5. QueryAnswered'
  BY <1>1, <1>2, <1>3 DEF Buckets!Resolve, QueryAnswered, TrendOf
<1> QED BY <1>1, <1>4, <1>5

LEMMA BucketsBegin == Buckets!Init => BucketsInv
<1> SUFFICES ASSUME Buckets!Init PROVE BucketsInv
  OBVIOUS
<1> DEFINE days == Buckets!ShortestPreset
<1>1. days \in Small.PresetDays
  <2>1. \E d \in Small.PresetDays : \A e \in Small.PresetDays : d <= e
    <3>1. Small.PresetDays \in SUBSET Nat /\ Small.PresetDays # {}
      BY BucketsFacts
    <3> QED BY <3>1, LeastNatural
  <2> QED BY <2>1, Zenon DEF Buckets!ShortestPreset
<1> HIDE DEF days
<1>2. now \in Nat /\ period = Buckets!PresetWindow(days, now) /\ ticks = 0
  BY BucketsFacts DEF Buckets!Init, days
<1>3. PeriodIsOne
  BY <1>1, <1>2, PresetIsAPeriod DEF PeriodIsOne
<1>4. query = Buckets!PeriodQuery(period)
  BY DEF Buckets!Init
<1>5. /\ query.from = Buckets!At(period.from) /\ query.to = Buckets!At(period.to)
      /\ query.bucket = period.bucket /\ query.at = now
  BY <1>4 DEF Buckets!PeriodQuery, Buckets!Query
<1>6. IsQuery(query)
  BY <1>2, <1>3, <1>5 DEF PeriodIsOne, IsQuery, Moments
<1>7. QueryAnswered
  BY <1>5, <1>6 DEF Buckets!Init, QueryAnswered, TrendOf
<1>8. ClockInv
  BY <1>2, BucketsFacts DEF ClockInv
<1> QED BY <1>3, <1>7, <1>8 DEF BucketsInv

LEMMA BucketsKeep == BucketsInv /\ [Buckets!Next]_rangeVars => BucketsInv'
<1> SUFFICES ASSUME BucketsInv, [Buckets!Next]_rangeVars PROVE BucketsInv'
  OBVIOUS
<1>0. ClockInv /\ PeriodIsOne /\ QueryAnswered /\ now \in Nat
  BY DEF BucketsInv, ClockInv
<1>1. ASSUME NEW p, Buckets!LoadPeriod(p),
             p.from \in Int, p.to \in Int, p.from < p.to, p.bucket \in Kinds,
             p.preset \in {0} \cup Small.PresetDays
      PROVE  BucketsInv'
  <2>1. PeriodIsOne' /\ QueryAnswered' /\ UNCHANGED <<now, ticks>>
    BY <1>0, <1>1, BucketsLoad
  <2> QED BY <1>0, <2>1 DEF ClockInv, BucketsInv
<1>2. CASE Buckets!Call
  <2>1. PICK from \in Buckets!Instants, to \in Buckets!Instants, bucket \in Buckets!Buckets :
          Buckets!Resolve(Buckets!Query(from, to, bucket))
    BY <1>2 DEF Buckets!Call
  <2> DEFINE x == Buckets!Query(from, to, bucket)
  <2>2. x.from = from /\ x.to = to /\ x.bucket = bucket /\ x.at = now
    BY DEF Buckets!Query
  <2>3. Buckets!Instants \subseteq Moments
    BY BucketsFacts DEF Buckets!Instants, Moments
  <2>4. IsQuery(x)
    BY <1>0, <2>2, <2>3, BucketsFacts DEF IsQuery
  <2>5. Buckets!Resolve(x) /\ UNCHANGED period
    BY <1>2, <2>1 DEF Buckets!Call
  <2> HIDE DEF x
  <2>6. QueryAnswered' /\ UNCHANGED <<now, ticks, period>>
    BY <2>2, <2>4, <2>5 DEF Buckets!Resolve, QueryAnswered, TrendOf
  <2> QED BY <1>0, <2>6 DEF BucketsInv, ClockInv, PeriodIsOne
<1>3. CASE Buckets!ChoosePreset
  BY <1>0, <1>1, <1>3, PresetIsAPeriod DEF Buckets!ChoosePreset
<1>4. CASE Buckets!ChooseDates
  BY <1>0, <1>1, <1>4, DatesAreAPeriod DEF Buckets!ChooseDates
<1>5. CASE Buckets!Refresh
  <2>1. CASE period.preset = 0
    BY <1>0, <1>1, <1>5, <2>1 DEF Buckets!Refresh, PeriodIsOne
  <2>2. CASE period.preset # 0
    BY <1>0, <1>1, <1>5, <2>2, PresetIsAPeriod DEF Buckets!Refresh, PeriodIsOne
  <2> QED BY <2>1, <2>2
<1>6. CASE Buckets!Tick
  <2>1. ClockInv'
    BY <1>0, <1>6, BucketsFacts DEF Buckets!Tick, ClockInv
  <2> QED BY <1>0, <1>6, <2>1 DEF Buckets!Tick, BucketsInv, PeriodIsOne, QueryAnswered
<1>7. CASE UNCHANGED rangeVars
  BY <1>0, <1>7 DEF rangeVars, BucketsInv, ClockInv, PeriodIsOne, QueryAnswered
<1> QED BY <1>2, <1>3, <1>4, <1>5, <1>6, <1>7 DEF Buckets!Next


-----------------------------------------------------------------------------
(* The calendar of the periods the dashboard offers. *)
PeriodEdge(t, bucket) == Truncated(Ours.Hour, Periods!Day, t, bucket)
PeriodLength(bucket) == BucketSize(Ours.Hour, Periods!Day, bucket)
Allowed(bucket) == Ours.BucketMax[bucket]

LEMMA PeriodsCardinality == \A S : Periods!Cardinality(S) = Cardinality(S)
BY DEF Periods!Cardinality, Cardinality

LEMMA PeriodsFacts ==
  /\ Calendar(Ours.Hour, Periods!Day) /\ Periods!Day \in Nat \ {0}
  /\ Ours.Hour \in Nat \ {0} /\ Ours.HoursPerDay \in Nat \ {0}
  /\ Periods!Day = Ours.Hour * Ours.HoursPerDay
  /\ \A b \in Kinds : Allowed(b) \in Nat \ {0} /\ PeriodLength(b) \in Nat \ {0}
  /\ Ours.MaxRangeDays \in Nat \ {0} /\ Ours.HourlyDays \in Nat /\ Ours.DailyDays \in Nat
  /\ Ours.PresetDays \subseteq Nat \ {0} /\ Ours.PresetDays # {}
  /\ Ours.Starts \subseteq Nat /\ Ours.Dates \subseteq Nat
<1>1. /\ Ours.Hour \in Nat \ {0} /\ Ours.HoursPerDay \in Nat \ {0}
      /\ Ours.BucketMax \in [Kinds -> Nat \ {0}]
      /\ Ours.MaxRangeDays \in Nat \ {0} /\ Ours.HourlyDays \in Nat /\ Ours.DailyDays \in Nat
      /\ Ours.PresetDays \subseteq Nat \ {0} /\ Ours.PresetDays # {}
      /\ Ours.Starts \subseteq Nat /\ Ours.Dates \subseteq Nat
  BY RangeConstants DEF Periods!StatsRangeAssumption, Periods!Buckets, Kinds
<1>2. Periods!Day = Ours.Hour * Ours.HoursPerDay
  BY DEF Periods!Day
<1>3. Periods!Day \in Nat \ {0} /\ Periods!Day % Ours.Hour = 0
  <2>1. \A a, b \in Nat \ {0} : a * b \in Nat \ {0}
    OBVIOUS
  <2>2. Ours.HoursPerDay \in Int
    BY <1>1
  <2> QED BY <1>1, <1>2, <2>1, <2>2, Multiple
<1>4. Calendar(Ours.Hour, Periods!Day)
  BY <1>1, <1>3 DEF Calendar
<1> QED BY <1>1, <1>2, <1>3, <1>4, SizesOfBuckets DEF Kinds, Allowed, PeriodLength

LEMMA PeriodsEdges ==
  ASSUME NEW b \in Kinds, NEW t
  PROVE  Periods!TruncateToBucket(t, b) = PeriodEdge(t, b) /\ Periods!Size(b) = PeriodLength(b)
<1>1. Periods!Size(b) = PeriodLength(b)
  BY DEF Periods!Size, PeriodLength, BucketSize, Kinds
<1>2. Periods!TruncateToBucket(t, b) = PeriodEdge(t, b)
  BY DEF Periods!TruncateToBucket, Periods!UTCDay, PeriodEdge, Truncated
<1> QED BY <1>1, <1>2

(* There are too many buckets exactly when the last one allowed ends       *)
(* before the window does.                                                 *)
LEMMA TooManyMeans ==
  ASSUME NEW b \in Kinds, NEW from \in Int, NEW to \in Int
  PROVE  Periods!TooManyBuckets(from, to, b)
           <=> PeriodEdge(from, b) + Allowed(b) * PeriodLength(b) < to
<1> DEFINE f == PeriodEdge(from, b)
           s == PeriodLength(b)
           m == Cardinality(Fitting(f, s, Allowed(b), to))
           edges == [k \in 1 .. m |-> f + (k - 1) * s]
<1>1. Allowed(b) \in Nat /\ s \in Nat \ {0}
  BY PeriodsFacts
<1>2. f \in Int
  BY PeriodsFacts, TruncatedIsAnEdge DEF PeriodEdge
<1>3. m \in Nat /\ \A j \in 0 .. Allowed(b) : j < m <=> f + j * s < to
  <2> HIDE DEF f, s
  <2> QED BY <1>1, <1>2, HowManyFit
<1>4. (Allowed(b) + 1) - 1 = Allowed(b)
  BY <1>1
<1>5. Periods!BucketStarts(from, to, b) = edges
  BY <1>4, PeriodsEdges, PeriodsCardinality
     DEF Periods!BucketStarts, Periods!StartsUpTo, Periods!AddBuckets, Fitting, Allowed
<1>6. Len(edges) = m
  <2> HIDE DEF f, s, m
  <2>1. \A k \in 1 .. m : f + (k - 1) * s \in Int
    BY <1>1, <1>2, <1>3
  <2>2. edges \in Seq(Int) /\ Len(edges) = m
    BY <1>3, <2>1
  <2> QED BY <2>2
<1>7. Periods!TooManyBuckets(from, to, b) <=> m > Allowed(b)
  BY <1>5, <1>6 DEF Periods!TooManyBuckets, Allowed
<1>8. Allowed(b) \in 0 .. Allowed(b)
  BY <1>1
<1>9. Allowed(b) < m <=> f + Allowed(b) * s < to
  BY <1>3, <1>8
<1> HIDE DEF f, s, m, edges
<1>10. m > Allowed(b) <=> Allowed(b) < m
  BY <1>1, <1>3
<1> QED BY <1>7, <1>9, <1>10 DEF f, s

-----------------------------------------------------------------------------
(* A period that the limits of the dashboard allow: a preset that ends on  *)
(* some clock, or whole days that are not too many.                        *)
IsPreset(p) ==
    p.preset \in Ours.PresetDays
    /\ \E clock \in Nat : p = Periods!PresetWindow(p.preset, clock)
IsCustom(p) ==
    /\ p.preset = 0 /\ p.from \in Int /\ p.to \in Int
    /\ p.from % Periods!Day = 0 /\ p.from < p.to
    /\ p.to - p.from <= Ours.MaxRangeDays * Periods!Day
    /\ p.bucket = Periods!BucketFor(p.from, p.to)
Offered(p) == IsPreset(p) \/ IsCustom(p)

PeriodsInv ==
    /\ now \in Nat /\ Offered(period)
    /\ range = Periods!ResolveStatsRange(query.from, query.to, query.at)
    /\ trend = Periods!ResolveTrendWindow(query.from, query.to, query.bucket, query.at)

(* What the API needs of a period. *)
Acceptable(p) ==
    /\ p.from \in Int /\ p.to \in Int /\ p.bucket \in Kinds
    /\ p.from < p.to /\ p.to - p.from <= Ours.MaxRangeDays * Periods!Day
    /\ p.to <= PeriodEdge(p.from, p.bucket) + Allowed(p.bucket) * PeriodLength(p.bucket)

(* A product of limits: days of hours, or of weeks.                        *)
LEMMA DaysInHours ==
  ASSUME NEW H \in Nat \ {0}, NEW n \in Nat \ {0}, NEW d \in Nat, NEW m \in Nat
  PROVE  /\ d * n <= m => d * (H * n) <= m * H
         /\ d * n < m => d * (H * n) <= (m - 1) * H
<1> DEFINE k == d * n
<1>1. k \in Nat /\ d * (H * n) = k * H
  OBVIOUS
<1>2. \A a \in Nat, c \in Int : a <= c => a * H <= c * H
  OBVIOUS
<1> HIDE DEF k
<1>3. k < m => k <= m - 1
  BY <1>1
<1>4. m - 1 \in Int /\ m \in Int
  OBVIOUS
<1>5. /\ k <= m => k * H <= m * H
      /\ k < m => k * H <= (m - 1) * H
  BY <1>1, <1>2, <1>3, <1>4
<1> QED BY <1>1, <1>5 DEF k

LEMMA PresetsAreAcceptable ==
  ASSUME NEW p, IsPreset(p)
  PROVE  Acceptable(p)
<1> DEFINE D == Periods!Day
           days == p.preset
           b == p.bucket
           f == PeriodEdge(p.from, b)
           s == PeriodLength(b)
<1>1. PICK clock \in Nat : p = Periods!PresetWindow(days, clock)
  BY DEF IsPreset
<1>2. /\ p.from = clock - days * D /\ p.to = clock /\ b = Periods!PresetBucket(days)
  <2> HIDE DEF days
  <2>1. /\ Periods!PresetWindow(days, clock).from = clock - days * D
        /\ Periods!PresetWindow(days, clock).to = clock
        /\ Periods!PresetWindow(days, clock).bucket = Periods!PresetBucket(days)
    BY DEF Periods!PresetWindow
  <2> QED BY <1>1, <2>1
<1>3. days \in Ours.PresetDays /\ days \in Nat \ {0} /\ D \in Nat \ {0}
  BY PeriodsFacts DEF IsPreset
<1>4. days * D \in Nat \ {0}
  BY <1>3
<1>5. b \in Kinds
  BY <1>2 DEF Periods!PresetBucket, Kinds
<1>6. p.from \in Int /\ p.to \in Int /\ p.from < p.to /\ p.to - p.from = days * D
  BY <1>2, <1>4
<1>7. days * D <= Ours.MaxRangeDays * D
  <2>1. days <= Ours.MaxRangeDays
    BY <1>3, RangeConstants DEF Periods!LimitsFit
  <2>2. D * days <= D * Ours.MaxRangeDays
    BY <1>3, <2>1, PeriodsFacts, TimesMonotone
  <2> QED BY <1>3, <2>2, PeriodsFacts
<1>8. /\ f \in Int /\ p.from < f + s /\ s \in Nat \ {0} /\ Allowed(b) \in Nat \ {0}
  BY <1>5, <1>6, PeriodsFacts, TruncatedIsAnEdge DEF PeriodEdge, PeriodLength
<1>9. days * D <= (Allowed(b) - 1) * s
  <2>1. CASE days <= 7
    <3>1. b = "hour" /\ s = Ours.Hour
      BY <1>2, <2>1 DEF Periods!PresetBucket, PeriodLength, BucketSize
    <3>2. days * Ours.HoursPerDay < Allowed("hour")
      BY <1>3, <2>1, RangeConstants DEF Periods!LimitsFit, Allowed
    <3>3. D = Ours.Hour * Ours.HoursPerDay /\ Ours.Hour \in Nat \ {0} /\ Ours.HoursPerDay \in Nat \ {0}
      BY PeriodsFacts
    <3> HIDE DEF D, s, days, b
    <3> QED BY <1>3, <1>8, <3>1, <3>2, <3>3, DaysInHours
  <2>2. CASE days > 7
    <3>1. b = "day" /\ s = D
      BY <1>2, <1>3, <2>2 DEF Periods!PresetBucket, PeriodLength, BucketSize
    <3>2. days < Allowed("day")
      BY <1>3, <2>2, RangeConstants DEF Periods!LimitsFit, Allowed
    <3> HIDE DEF D, s, days, b
    <3>3. days <= Allowed("day") - 1 /\ Allowed("day") \in Nat
      BY <1>3, <1>8, <3>1, <3>2
    <3>4. D * days <= D * (Allowed("day") - 1)
      BY <1>3, <3>3, TimesMonotone
    <3> QED BY <1>3, <3>1, <3>3, <3>4
  <2> QED BY <1>3, <2>1, <2>2
<1>10. (Allowed(b) - 1) * s = Allowed(b) * s - s /\ Allowed(b) * s \in Int
  BY <1>8
<1> HIDE DEF D, f, s, b, days
<1>11. p.to <= f + Allowed(b) * s
  <2>1. days * D \in Int
    BY <1>4
  <2> QED BY <1>6, <1>8, <1>9, <1>10, <2>1
<1> QED BY <1>5, <1>6, <1>7, <1>11 DEF Acceptable, D, f, s, b

LEMMA DatesAreAcceptable ==
  ASSUME NEW p, IsCustom(p)
  PROVE  Acceptable(p)
<1> DEFINE D == Periods!Day
           H == Ours.Hour
           b == p.bucket
           f == PeriodEdge(p.from, b)
           s == PeriodLength(b)
           long == p.to - p.from
<1>1. /\ p.from \in Int /\ p.to \in Int /\ p.from % D = 0 /\ p.from < p.to
      /\ long <= Ours.MaxRangeDays * D /\ b = Periods!BucketFor(p.from, p.to)
  BY DEF IsCustom
<1>2. D \in Nat \ {0} /\ H \in Nat \ {0} /\ D = H * Ours.HoursPerDay
      /\ Ours.HoursPerDay \in Nat \ {0}
  BY PeriodsFacts
<1>3. b \in Kinds
  BY <1>1 DEF Periods!BucketFor, Kinds
<1>4. f \in Int /\ p.from < f + s /\ s \in Nat \ {0} /\ Allowed(b) \in Nat \ {0}
  BY <1>1, <1>3, PeriodsFacts, TruncatedIsAnEdge DEF PeriodEdge, PeriodLength
<1>5. p.from % H = 0
  <2>1. PICK q \in Int : p.from = D * q
    BY <1>1, <1>2, Divided
  <2>2. Ours.HoursPerDay * q \in Int
    BY <1>2
  <2>3. p.from = H * (Ours.HoursPerDay * q)
    BY <1>2, <2>1
  <2> QED BY <1>2, <2>2, <2>3, Multiple
<1>6. b # "week" => f = p.from
  BY <1>1, <1>3, <1>5 DEF PeriodEdge, Truncated, Kinds
<1>7. p.to <= f + Allowed(b) * s
  <2>1. CASE b = "hour"
    <3>1. s = H
      BY <2>1 DEF PeriodLength, BucketSize
    <3>2. long <= Ours.HourlyDays * D
      BY <1>1, <2>1 DEF Periods!BucketFor
    <3>3. Ours.HourlyDays * Ours.HoursPerDay <= Allowed("hour")
      BY RangeConstants DEF Periods!LimitsFit, Allowed
    <3>4. f = p.from /\ Ours.HourlyDays \in Nat
      BY <1>6, <2>1, PeriodsFacts
    <3> HIDE DEF D, H, s, b, f
    <3>5. Ours.HourlyDays * D <= Allowed(b) * s
      BY <1>2, <1>4, <2>1, <3>1, <3>3, <3>4, DaysInHours
    <3>6. Ours.HourlyDays * D \in Int /\ Allowed(b) * s \in Int
      BY <1>2, <1>4, <3>4
    <3> QED BY <1>1, <3>2, <3>4, <3>5, <3>6
  <2>2. CASE b = "day"
    <3>1. s = D
      BY <2>2 DEF PeriodLength, BucketSize
    <3>2. long <= Ours.DailyDays * D
      BY <1>1, <2>2 DEF Periods!BucketFor
    <3>3. Ours.DailyDays <= Allowed("day")
      BY RangeConstants DEF Periods!LimitsFit, Allowed
    <3>4. f = p.from /\ Ours.DailyDays \in Nat
      BY <1>6, <2>2, PeriodsFacts
    <3> HIDE DEF D, H, s, b, f
    <3>5. D * Ours.DailyDays <= D * Allowed("day") /\ Allowed("day") \in Nat
      BY <1>2, <1>4, <2>2, <3>3, <3>4, TimesMonotone
    <3>6. Ours.DailyDays * D <= Allowed(b) * s /\ Ours.DailyDays * D \in Int /\ Allowed(b) * s \in Int
      BY <1>2, <2>2, <3>1, <3>4, <3>5
    <3> QED BY <1>1, <3>2, <3>4, <3>6
  <2>3. CASE b = "week"
    <3>1. s = 7 * D
      BY <2>3 DEF PeriodLength, BucketSize
    <3>2. Ours.MaxRangeDays <= 7 * (Allowed("week") - 1)
      BY RangeConstants DEF Periods!LimitsFit, Allowed
    <3>3. Ours.MaxRangeDays \in Nat
      BY PeriodsFacts
    <3> HIDE DEF D, H, s, b, f
    <3>4. Allowed("week") \in Nat \ {0}
      BY <1>4, <2>3
    <3>5. D * Ours.MaxRangeDays <= D * (7 * (Allowed("week") - 1))
      BY <1>2, <3>2, <3>3, <3>4, TimesMonotone
    <3>6. D * (7 * (Allowed("week") - 1)) = Allowed(b) * s - s
      BY <1>2, <2>3, <3>1, <3>4
    <3>7. Allowed(b) * s \in Int /\ Ours.MaxRangeDays * D = D * Ours.MaxRangeDays
          /\ D * Ours.MaxRangeDays \in Int
      BY <1>2, <1>4, <3>3
    <3> QED BY <1>1, <1>4, <3>5, <3>6, <3>7
  <2> QED BY <1>3, <2>1, <2>2, <2>3 DEF Kinds
<1> QED BY <1>1, <1>3, <1>7 DEF Acceptable

(* What the dashboard sends, the summary and the trend both accept.        *)
LEMMA OfferedIsAccepted == PeriodsInv => Periods!PeriodsAreAccepted
<1> SUFFICES ASSUME PeriodsInv,
                    query.from = Periods!At(period.from), query.to = Periods!At(period.to),
                    query.bucket = period.bucket
             PROVE  ~ range.refused /\ ~ trend.refused
  BY DEF Periods!PeriodsAreAccepted
<1> DEFINE from == period.from
           to == period.to
           b == period.bucket
<1>1. Acceptable(period)
  BY PresetsAreAcceptable, DatesAreAcceptable DEF PeriodsInv, Offered
<1>2. /\ query.from.named = TRUE /\ query.from.t = from
      /\ query.to.named = TRUE /\ query.to.t = to
  BY DEF Periods!At
<1>3. /\ from \in Int /\ to \in Int /\ b \in Kinds /\ from < to
      /\ to - from <= Ours.MaxRangeDays * Periods!Day
  BY <1>1 DEF Acceptable
<1>4. Ours.MaxRangeDays * Periods!Day \in Int
  BY PeriodsFacts
<1>5. ~ Periods!TooManyBuckets(from, to, b)
  <2> DEFINE last == PeriodEdge(from, b) + Allowed(b) * PeriodLength(b)
  <2>1. to <= last
    BY <1>1 DEF Acceptable
  <2>2. PeriodEdge(from, b) \in Int
    BY <1>3, PeriodsFacts, TruncatedIsAnEdge DEF PeriodEdge
  <2>3. Allowed(b) \in Nat /\ PeriodLength(b) \in Nat
    BY <1>3, PeriodsFacts
  <2>4. last \in Int
    BY <2>2, <2>3
  <2> HIDE DEF last
  <2>5. ~ (last < to)
    BY <1>3, <2>1, <2>4
  <2> QED BY <1>3, <2>5, TooManyMeans DEF last
<1>6. ~ range.refused
  <2>1. range = [refused |-> FALSE, from |-> query.from, to |-> query.to]
    BY <1>2, <1>3, <1>4 DEF PeriodsInv, Periods!ResolveStatsRange
  <2> QED BY <2>1
<1>7. ~ trend.refused
  <2>1. Periods!TrendEnd(query.to, query.at) = to
    BY <1>2 DEF Periods!TrendEnd
  <2>2. Periods!TrendStart(query.from, to, b) = from
    BY <1>2 DEF Periods!TrendStart
  <2>3. trend = Periods!TrendWindow(from, to, b)
    BY <1>3, <1>5, <2>1, <2>2 DEF PeriodsInv, Periods!ResolveTrendWindow
  <2> QED BY <2>3 DEF Periods!TrendWindow
<1> QED BY <1>6, <1>7

-----------------------------------------------------------------------------
LEMMA PeriodsLoad ==
  ASSUME NEW p, now \in Nat, Periods!LoadPeriod(p), Offered(p)
  PROVE  PeriodsInv'
<1> DEFINE x == Periods!PeriodQuery(p)
<1>1. /\ period' = p /\ query' = x /\ now' = now
      /\ range' = Periods!ResolveStatsRange(x.from, x.to, x.at)
      /\ trend' = Periods!ResolveTrendWindow(x.from, x.to, x.bucket, x.at)
  BY DEF Periods!LoadPeriod, Periods!Resolve
<1> HIDE DEF x
<1>2. Offered(period')
  BY <1>1
<1> QED BY <1>1, <1>2 DEF PeriodsInv, Offered, IsPreset, IsCustom

LEMMA PresetsAreOffered ==
  ASSUME NEW days \in Ours.PresetDays, NEW clock \in Nat
  PROVE  Offered(Periods!PresetWindow(days, clock))
<1>1. Periods!PresetWindow(days, clock).preset = days
  BY DEF Periods!PresetWindow
<1> QED BY <1>1 DEF Offered, IsPreset

LEMMA DatesAreOffered ==
  ASSUME NEW f \in Ours.Dates, NEW l \in Ours.Dates, NEW clock \in Nat,
         Periods!CustomWindow(f, l, clock) # Periods!Refused
  PROVE  Offered(Periods!CustomWindow(f, l, clock))
<1> DEFINE from == f * Periods!Day
           to == (l + 1) * Periods!Day
           p == Periods!CustomWindow(f, l, clock)
<1>1. f \in Nat /\ l + 1 \in Nat /\ Periods!Day \in Nat \ {0} /\ Ours.MaxRangeDays \in Nat
  BY PeriodsFacts
<1>2. from \in Int /\ to \in Int /\ Ours.MaxRangeDays * Periods!Day \in Int
  BY <1>1
<1>3. from % Periods!Day = 0
  <2>1. from = Periods!Day * f /\ f \in Int
    BY <1>1
  <2> QED BY <1>1, <2>1, Multiple
<1>4. /\ ~ (from >= to) /\ ~ (to - from > Ours.MaxRangeDays * Periods!Day)
      /\ p = [preset |-> 0, from |-> from, to |-> to, bucket |-> Periods!BucketFor(from, to)]
  BY DEF Periods!CustomWindow, Periods!CustomProblem
<1> HIDE DEF from, to, p
<1>5. IsCustom(p)
  BY <1>2, <1>3, <1>4 DEF IsCustom
<1> QED BY <1>5 DEF Offered, p

LEMMA PeriodsBegin == Periods!Init => PeriodsInv
<1> SUFFICES ASSUME Periods!Init PROVE PeriodsInv
  OBVIOUS
<1> DEFINE days == Periods!ShortestPreset
<1>1. days \in Ours.PresetDays
  <2>1. \E d \in Ours.PresetDays : \A e \in Ours.PresetDays : d <= e
    <3>1. Ours.PresetDays \in SUBSET Nat /\ Ours.PresetDays # {}
      BY PeriodsFacts
    <3> QED BY <3>1, LeastNatural
  <2> QED BY <2>1, Zenon DEF Periods!ShortestPreset
<1> HIDE DEF days
<1>2. now \in Nat /\ period = Periods!PresetWindow(days, now)
  BY PeriodsFacts DEF Periods!Init, days
<1>3. Offered(period)
  BY <1>1, <1>2, PresetsAreOffered
<1>4. query = Periods!PeriodQuery(period) /\ query.at = now
  BY DEF Periods!Init, Periods!PeriodQuery, Periods!Query
<1> QED BY <1>2, <1>3, <1>4 DEF Periods!Init, PeriodsInv

LEMMA PeriodsKeep == PeriodsInv /\ [Periods!Next]_rangeVars => PeriodsInv'
<1> SUFFICES ASSUME PeriodsInv, [Periods!Next]_rangeVars PROVE PeriodsInv'
  OBVIOUS
<1>0. now \in Nat /\ Offered(period)
  BY DEF PeriodsInv
<1>1. CASE Periods!Call
  BY <1>0, <1>1 DEF Periods!Call, Periods!Resolve, PeriodsInv, Offered, IsPreset, IsCustom
<1>2. CASE Periods!ChoosePreset
  BY <1>0, <1>2, PeriodsLoad, PresetsAreOffered DEF Periods!ChoosePreset
<1>3. CASE Periods!ChooseDates
  BY <1>0, <1>3, PeriodsLoad, DatesAreOffered DEF Periods!ChooseDates
<1>4. CASE Periods!Refresh
  <2>1. CASE period.preset = 0
    BY <1>0, <1>4, <2>1, PeriodsLoad DEF Periods!Refresh
  <2>2. CASE period.preset # 0
    <3>1. period.preset \in Ours.PresetDays
      BY <1>0, <2>2 DEF Offered, IsPreset, IsCustom
    <3>2. Offered(Periods!PresetWindow(period.preset, now))
      BY <1>0, <3>1, PresetsAreOffered
    <3> QED BY <1>0, <1>4, <2>2, <3>2, PeriodsLoad DEF Periods!Refresh
  <2> QED BY <2>1, <2>2
<1>5. CASE Periods!Tick
  BY <1>0, <1>5 DEF Periods!Tick, PeriodsInv, Offered, IsPreset, IsCustom
<1>6. CASE UNCHANGED rangeVars
  BY <1>0, <1>6 DEF rangeVars, PeriodsInv, Offered, IsPreset, IsCustom
<1> QED BY <1>1, <1>2, <1>3, <1>4, <1>5, <1>6 DEF Periods!Next

-----------------------------------------------------------------------------
(* The two calendars, side by side. *)
WindowsInv ==
    (part = "buckets" => BucketsInv) /\ (part = "periods" => PeriodsInv)

LEMMA WindowsBegin == MCInit => WindowsInv
BY BucketsBegin, PeriodsBegin DEF MCInit, WindowsInv

LEMMA WindowsKeep == WindowsInv /\ [MCNext]_mcVars => WindowsInv'
<1> SUFFICES ASSUME WindowsInv, [MCNext]_mcVars PROVE WindowsInv'
  OBVIOUS
<1>1. part' = part
  BY DEF MCNext, mcVars
<1>2. ASSUME part = "buckets" PROVE BucketsInv'
  <2>1. [Buckets!Next]_rangeVars
    BY <1>2 DEF MCNext, mcVars, SessionSteps, AttentionSteps, BrowserSteps, RangeSteps
  <2> QED BY <1>2, <2>1, BucketsKeep DEF WindowsInv
<1>3. ASSUME part = "periods" PROVE PeriodsInv'
  <2>1. [Periods!Next]_rangeVars
    BY <1>3 DEF MCNext, mcVars, SessionSteps, AttentionSteps, BrowserSteps, RangeSteps
  <2> QED BY <1>3, <2>1, PeriodsKeep DEF WindowsInv
<1> QED BY <1>1, <1>2, <1>3 DEF WindowsInv

(* Windows of the statistics: a trend that is accepted has, for every      *)
(* moment of its window, exactly the bucket the database groups it into;   *)
(* one with a lower bound is refused only when it is backwards or has too  *)
(* many buckets; and no period the dashboard offers is refused, for any    *)
(* length of an hour and a day and any limits that fit each other.         *)
THEOREM WindowsAlwaysFit == MCSpec => []WindowsFit
<1>1. WindowsInv => WindowsFit
  BY BucketsTypes, BucketsHoldEveryMoment, BucketsRefuseForCause, OfferedIsAccepted
     DEF WindowsInv, WindowsFit
<1> QED BY <1>1, WindowsBegin, WindowsKeep, PTL DEF MCSpec, mcVars
=============================================================================
