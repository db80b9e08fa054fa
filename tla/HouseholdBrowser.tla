---------------------------- MODULE HouseholdBrowser ----------------------------
(***************************************************************************)
(* The households page: one list per service, paged, searched and switched *)
(* by tabs while answers are on their way, the rankings and the panel with *)
(* everything about one household.                                         *)
(***************************************************************************)
EXTENDS Integers, FiniteSets, SequencesExt

CONSTANTS
    Views,         \* the tabs, in their order; each stands for its service
    Households, None,
    Limit,         \* rows on a page: PAGE_SIZE
    InitialLists,  \* [ToSet(Views) -> sequences of Households]: the services' orders
    MaxChanges     \* bound: changes of the lists

ViewSet == ToSet(Views)

HouseholdBrowserAssumption ==
    /\ Views # <<>> /\ Views \in Seq(ViewSet)
    /\ Limit \in Nat \ {0} /\ MaxChanges \in Nat /\ None \notin Households
    /\ None \notin [at : {"row", "ranking"}, household : Households \cup {None}]
    /\ None \notin [view : ViewSet, page : Nat, filter : Households \cup {None}]
    /\ InitialLists \in [ToSet(Views) -> Seq(Households)]
    /\ \A v \in ToSet(Views) : IsInjective(InitialLists[v])

VARIABLES
    lists, changes,      \* the services: whom each lists in the period, in its order
    view, page, filter,  \* HouseholdTables: what the operator asked for
    problem,             \* HouseholdFilter: an id that was not sent
    asked,               \* the query of the request that is running, or None
    table,               \* the answer on the screen
    selected, opener,    \* the household of the panel, and the button it was opened from
    panel, panelAsked,   \* its parts, and whether they are being asked for
    focus                \* "page" anywhere, "panel", or "lost" with what had it

listing == <<lists, changes>>
query == <<view, page, filter, problem>>
loaded == <<asked, table>>
drawer == <<selected, opener, panel, panelAsked, focus>>
vars == <<listing, query, loaded, drawer>>

PanelParts == ViewSet   \* three services' figures for the period stand for all five
Query == [view |-> view, page |-> page, filter |-> filter]

Nothing == [got |-> "nothing", for |-> None, items |-> <<>>, page |-> 1, total |-> 0]
NoPanel == [of |-> None, parts |-> [p \in PanelParts |-> "loading"]]

OwnButton(h) == [at |-> "row", household |-> h]
RankingButton == [at |-> "ranking", household |-> None]

TypeOK ==
    /\ lists \in [ViewSet -> Seq(Households)] /\ changes \in 0..MaxChanges
    /\ view \in ViewSet /\ page \in Nat \ {0} /\ filter \in Households \cup {None}
    /\ problem \in BOOLEAN
    /\ table.got \in {"nothing", "error", "page"} /\ Len(table.items) <= Limit
    /\ asked # None => asked.view = view
    /\ selected = None <=> opener = None /\ ~ panelAsked /\ panel = NoPanel
    /\ focus \in {"page", "panel", "lost"} /\ (focus = "panel" <=> selected # None)

Init ==
    /\ lists = InitialLists /\ changes = 0
    /\ view = Views[1] /\ page = 1 /\ filter = None /\ problem = FALSE
    /\ asked = Query /\ table = Nothing
    /\ selected = None /\ opener = None /\ panel = NoPanel /\ panelAsked = FALSE
    /\ focus = "page"

-----------------------------------------------------------------------------
(* The services.  A reading, a trade or another period changes a list.     *)

ListChanges(v, list) ==
    /\ changes < MaxChanges /\ changes' = changes + 1
    /\ list # lists[v] /\ lists' = [lists EXCEPT ![v] = list]
    /\ UNCHANGED <<query, loaded, drawer>>

(* A list has one row of each household, or the row of the one asked for.  *)
Matching(v, f) ==
    IF f = None THEN lists[v] ELSE IF f \in ToSet(lists[v]) THEN <<f>> ELSE <<>>

PageOf(q) ==
    LET all == Matching(q.view, q.filter)
        first == (q.page - 1) * Limit
    IN  [got |-> "page", for |-> q,
         items |-> SubSeq(all, first + 1, IF first + Limit < Len(all) THEN first + Limit ELSE Len(all)),
         page |-> q.page, total |-> Len(all)]

-----------------------------------------------------------------------------
(* The list: HouseholdTables and useResource.  A new key cancels what runs.*)

RequestKey == <<view, page, filter>>
(* Mutant: the filter is left out of the key.                              *)
ReloadUnlessFiltered == asked' = IF <<view, page>>' = <<view, page>> THEN asked ELSE Query'
Reload == asked' = IF RequestKey' = RequestKey THEN asked ELSE Query'

ShowTab(v) == table' = IF v = view THEN table ELSE Nothing

SelectTab(v) ==
    /\ selected = None
    /\ view' = v /\ page' = 1 /\ UNCHANGED <<filter, problem>>
    /\ ShowTab(v) /\ Reload
    /\ UNCHANGED <<listing, drawer>>

TabOf(v, offset) ==
    LET n == Len(Views)
        i == CHOOSE i \in 1..n : Views[i] = v
    IN  Views[((i - 1 + offset) % n) + 1]
ArrowKey(offset) == SelectTab(TabOf(view, offset))

(* HouseholdFilter: Find with an id or with nothing, and Clear.            *)
Find(f) ==
    /\ selected = None
    /\ filter' = f /\ page' = 1 /\ problem' = FALSE /\ UNCHANGED view
    /\ Reload /\ UNCHANGED <<table, listing, drawer>>

FindRefused ==
    /\ selected = None
    /\ problem' = TRUE /\ UNCHANGED <<view, page, filter, listing, loaded, drawer>>

Pages(t) == IF t.total = 0 THEN 1 ELSE (t.total + Limit - 1) \div Limit
Pager == table.got = "page" /\ table.total > 0 /\ selected = None

Turn(to) ==
    /\ page' = to /\ UNCHANGED <<view, filter, problem>>
    /\ Reload /\ UNCHANGED <<table, listing, drawer>>
PressNext == Pager /\ table.page < Pages(table) /\ Turn(table.page + 1)
PressPrevious == Pager /\ table.page > 1 /\ Turn(table.page - 1)

TableAnswers ==
    /\ asked # None
    /\ table' = PageOf(asked) /\ asked' = None
    /\ UNCHANGED <<listing, query, drawer>>

TableFails ==
    /\ asked # None
    /\ table' = [Nothing EXCEPT !.got = "error", !.for = asked] /\ asked' = None
    /\ UNCHANGED <<listing, query, drawer>>

(* A refresh, which also slides the period: everything is asked again.     *)
Refresh ==
    /\ asked' = Query /\ panelAsked' = (selected # None)
    /\ UNCHANGED <<listing, query, table, selected, opener, panel, focus>>

-----------------------------------------------------------------------------
(* The panel of one household: useHouseholdDetail and HouseholdDetail.     *)

Open(h, button) ==
    /\ selected = None
    /\ selected' = h /\ opener' = button /\ panelAsked' = TRUE /\ focus' = "panel"
    /\ UNCHANGED <<panel, listing, query, loaded>>

OpenFromTable ==
    \E i \in DOMAIN table.items : Open(table.items[i], OwnButton(table.items[i]))
OpenFromRanking ==
    \E v \in ViewSet : \E i \in DOMAIN lists[v] : Open(lists[v][i], RankingButton)

(* Focus goes back to the opener if the page still has it.                 *)
StillThere(button) ==
    button.at = "row" => \E i \in DOMAIN table.items : OwnButton(table.items[i]) = button

Shut ==
    /\ selected' = None /\ opener' = None /\ panelAsked' = FALSE
    /\ focus' = IF StillThere(opener) THEN "page" ELSE "lost"
CloseDrawer == selected # None /\ Shut /\ panel' = NoPanel /\ UNCHANGED <<listing, query, loaded>>

(* A service that cannot answer leaves a gap in its own part.              *)
PanelAnswers(failing) ==
    /\ panelAsked
    /\ panelAsked' = FALSE
    /\ panel' = [of |-> selected,
                 parts |-> [p \in PanelParts |->
                   IF p \in failing THEN "not available"
                   ELSE IF selected \in ToSet(lists[p]) THEN "value" ELSE "missing"]]
    /\ UNCHANGED <<listing, query, loaded, selected, opener, focus>>

-----------------------------------------------------------------------------
Orders == {s \in UNION {[1..n -> Households] : n \in 0..Cardinality(Households)} : IsInjective(s)}

Operator ==
    \/ \E v \in ViewSet : SelectTab(v)
    \/ \E offset \in {-1, 1} : ArrowKey(offset)
    \/ \E f \in Households \cup {None} : Find(f)
    \/ FindRefused \/ PressNext \/ PressPrevious
    \/ OpenFromTable \/ OpenFromRanking \/ CloseDrawer

Next ==
    \/ \E v \in ViewSet, list \in Orders : ListChanges(v, list)
    \/ Operator \/ TableAnswers \/ TableFails \/ Refresh
    \/ \E failing \in SUBSET PanelParts : PanelAnswers(failing)

Spec == Init /\ [][Next]_vars

(* An operator who goes on to the next page and looks at a household now   *)
(* and then, among tables that fail and are refreshed; a service that is   *)
(* asked again and again answers in the end.                               *)
WalkSpec ==
    /\ Init
    /\ [][\/ PressNext \/ TableAnswers \/ TableFails \/ Refresh
          \/ OpenFromTable \/ CloseDrawer \/ PanelAnswers({})]_vars
    /\ WF_vars(Refresh) /\ WF_vars(CloseDrawer)
    /\ SF_vars(PressNext) /\ SF_vars(TableAnswers)

-----------------------------------------------------------------------------
(* Rows are always those of the open tab, and once nothing is being asked, *)
(* the table answers exactly the tab, page and filter that are chosen.     *)
(* (key={view}, requestKey)                                                *)
RowsAnswerTheQuestion ==
    /\ table.for # None => table.for.view = view
    /\ asked = None => table.for = Query
    /\ asked # None => asked = Query

(* The panel shows one household: the one in its title.  (useHouseholdDetail) *)
PanelIsOfItsHousehold ==
    panel.of # None => panel.of = selected

(* Going on to the next page, whatever fails on the way and however often  *)
(* the button is pressed, shows every household.  (Next)                   *)
EveryHouseholdIsShown ==
    \A h \in ToSet(InitialLists[Views[1]]) : <>(h \in ToSet(table.items))

(* Searched for a household the service lists, the table shows it once it  *)
(* is loaded.  (HouseholdFilter: "Narrow the list to one household")       *)
SearchFinds ==
    asked = None /\ table.got = "page" /\ filter # None /\ table.total > 0 =>
        filter \in ToSet(table.items)

(* Closing the panel gives focus back to what opened it.  (Drawer)         *)
FocusReturns == focus # "lost"
=============================================================================
