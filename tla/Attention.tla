------------------------------- MODULE Attention -------------------------------
(***************************************************************************)
(* What the dashboard says about the grid: the banner over the services'   *)
(* readiness, the list of what needs attention and the badges of the       *)
(* pages, all computed from answers that arrive one by one while the grid  *)
(* itself changes.                                                         *)
(***************************************************************************)
EXTENDS Integers, SequencesExt

CONSTANTS
    ServiceNames,  \* in the order the dashboard lists them
    smartMeter, pricing, tradeMatching, billing,
    None,
    MaxChanges     \* bound: changes of the grid

AttentionAssumption ==
    /\ ToSet(ServiceNames) \subseteq {smartMeter, pricing, tradeMatching, billing}
    /\ {tradeMatching, billing} \subseteq ToSet(ServiceNames)
    /\ None \notin {smartMeter, pricing, tradeMatching, billing} \cup {0, 1}
    /\ MaxChanges \in Nat

ServiceSet == ToSet(ServiceNames)

VARIABLES
    report,    \* the grid: what each service answers to a readiness check
    facts,     \* the grid: the ledger, the trades and the counters
    health, section, counters,   \* what the dashboard was last told
    changes

grid == <<report, facts, changes>>
told == <<health, section, counters>>
vars == <<grid, told>>

Reports == {"ready", "not_ready", "shutting_down", "none"}
(* How much each fact counts; a counter that its service has not           *)
(* registered is None.                                                     *)
Counted == {"refused", "pending", "dead", "rejected", "waiting"}
Facts == [ledger : {"empty", "even", "off"},
          count : {n \in [Counted -> 0..1 \cup {None}] : n["refused"] # None /\ n["pending"] # None}]
Quiet == [ledger |-> "empty",
          count |-> [f \in Counted |-> IF f \in {"refused", "pending"} THEN 0 ELSE None]]

Loading == [got |-> "nothing", facts |-> Quiet]
Failed == [got |-> "error", facts |-> Quiet]
Told(f) == [got |-> "answer", facts |-> f]
Answers == {Loading, Failed} \cup {Told(f) : f \in Facts}

TypeOK ==
    /\ report \in [ServiceSet -> Reports] /\ facts \in Facts
    /\ health = None \/ health \in [ServiceSet -> Reports]
    /\ section \in [ServiceSet -> Answers]
    /\ counters = None \/ counters \in [ServiceSet -> Answers \ {Loading}]

Init ==
    /\ report = [s \in ServiceSet |-> "ready"] /\ facts = Quiet /\ changes = 0
    /\ health = None /\ section = [s \in ServiceSet |-> Loading] /\ counters = None

-----------------------------------------------------------------------------
(* The grid *)

Change(r, f) ==
    /\ changes < MaxChanges /\ changes' = changes + 1
    /\ report' = r /\ facts' = f /\ UNCHANGED told

(* Counters start from zero with their service. *)
AfterRestart(s) ==
    IF s # tradeMatching THEN facts
    ELSE [facts EXCEPT !.count = [f \in Counted |-> IF f \in {"dead", "rejected"} THEN None ELSE @[f]]]

GridChanges ==
    \/ \E s \in ServiceSet, r \in Reports :
         r # report[s] /\ Change([report EXCEPT ![s] = r], IF report[s] = "none" THEN AfterRestart(s) ELSE facts)
    \/ \E l \in {"even", "off"} \ {facts.ledger} : Change(report, [facts EXCEPT !.ledger = l])
    \/ \E f \in Counted, n \in 0..1 :
         facts.count[f] # n /\ Change(report, [facts EXCEPT !.count[f] = n])

(* Answers.  A service that is gone answers nothing, any other may fail to *)
(* answer a single request.                                                *)
HealthAnswers ==
    health' = report /\ UNCHANGED <<grid, section, counters>>

SectionAnswers(s) ==
    /\ section' = [section EXCEPT ![s] = IF report[s] = "none" THEN Failed ELSE Told(facts)]
    /\ UNCHANGED <<grid, health, counters>>

SectionFails(s) ==
    section' = [section EXCEPT ![s] = Failed] /\ UNCHANGED <<grid, health, counters>>

CountersAnswer(failing) ==
    /\ counters' = [s \in ServiceSet |-> IF s \in failing \/ report[s] = "none"
                                       THEN Failed ELSE Told(facts)]
    /\ UNCHANGED <<grid, health, section>>

-----------------------------------------------------------------------------
(* healthState and systemStatus *)

HealthState(r) == IF r = "ready" THEN "ready" ELSE IF r = "none" THEN "unreachable" ELSE "degraded"

Affected == {s \in ServiceSet : HealthState(health[s]) # "ready"}

SystemStatus ==
    IF health = None THEN "checking"
    ELSE IF Affected = {} THEN "operational"
    ELSE IF Affected = ServiceSet THEN "down" ELSE "degraded"

-----------------------------------------------------------------------------
(* findIssues *)

Issue(id, about, severity, page) == [id |-> id, about |-> about, severity |-> severity, page |-> page]
Flag(condition, issue) == IF condition THEN {issue} ELSE {}

(* The readiness of a service already explains what else is missing of it. *)
ExplainedUnlessReady(s) == health = None \/ s \in Affected   \* mutant: result?. is taken as down
Explained(s) == health # None /\ s \in Affected

PageOfSection(s) == CASE s = smartMeter -> "energy" [] s = pricing -> "market"
                      [] s = tradeMatching -> "trading" [] s = billing -> "billing"

Reading(s, f) == section[s].facts.count[f] # 0
CountedAt(s, f) == counters # None /\ counters[s].facts.count[f] \notin {None, 0}

ServiceIssue(s) == Flag(health # None /\ s \in Affected, Issue("service", s, "critical", "system"))
SectionIssue(s) == Flag(section[s] = Failed /\ ~ Explained(s),
                        Issue("section", s, "warning", PageOfSection(s)))
CountersIssue(s) == Flag(counters # None /\ counters[s] = Failed /\ ~ Explained(s),
                         Issue("diagnostics", s, "info", "system"))

BooksOff == section[billing].facts.ledger = "off"

AboutServices == UNION {ServiceIssue(s) \cup SectionIssue(s) \cup CountersIssue(s) : s \in ServiceSet}
AboutTheGrid ==
    Flag(BooksOff, Issue("books", None, "critical", "billing"))
    \cup Flag(Reading(tradeMatching, "refused"), Issue("refused", None, "warning", "trading"))
    \cup Flag(Reading(tradeMatching, "pending"), Issue("pending", None, "info", "trading"))
    \cup Flag(CountedAt(tradeMatching, "dead"), Issue("dead", None, "warning", "system"))
    \cup Flag(CountedAt(tradeMatching, "rejected"), Issue("rejected", None, "warning", "system"))
    \cup Flag(smartMeter \in ServiceSet /\ CountedAt(smartMeter, "waiting"),
              Issue("waiting", None, "info", "system"))
Issues == AboutServices \cup AboutTheGrid

(* The list is sorted by severity; which of two equally serious items      *)
(* comes first makes no difference to anything below.                      *)
Order(severity) == CASE severity = "critical" -> 0 [] severity = "warning" -> 1 [] severity = "info" -> 2
FirstListed(issues) == CHOOSE i \in issues : \A j \in issues : Order(i.severity) <= Order(j.severity)

(* The badge of a page in the navigation, and the panel of the overview. *)
Own(page) == {i \in Issues : i.page = page}
Worst(page) == FirstListed(Own(page)).severity
Pages == {"overview", "energy", "market", "trading", "billing", "households", "system"}
Panel == IF health = None THEN "looking" ELSE IF Issues = {} THEN "no issues" ELSE "list"

-----------------------------------------------------------------------------
Next ==
    \/ GridChanges \/ HealthAnswers
    \/ \E s \in ServiceSet : SectionAnswers(s) \/ SectionFails(s)
    \/ \E failing \in SUBSET ServiceSet : CountersAnswer(failing)

Spec == Init /\ [][Next]_vars

(* Auto refresh asks again and again, and a service that is not gone       *)
(* answers in the end.                                                     *)
FairSpec ==
    /\ Spec /\ WF_vars(HealthAnswers)
    /\ \A s \in ServiceSet : WF_vars(SectionAnswers(s))
    /\ <>[][\A s \in ServiceSet : report[s] # "none" => ~ SectionFails(s)]_vars

-----------------------------------------------------------------------------
(* Nothing the dashboard was told is wrong goes unmentioned, and what a    *)
(* service's readiness explains is not mentioned again.  (findIssues)      *)
EveryFailureIsNamedOnce ==
    \A s \in ServiceSet :
        LET about == {i \in Issues : i.about = s}
            ready == health = None \/ health[s] = "ready"
        IN  /\ ~ ready => Cardinality(about) = 1 /\ \A i \in about : i.severity = "critical"
            /\ ready /\ section[s] = Failed => \E i \in about : i.id = "section"
            /\ ready /\ counters # None /\ counters[s] = Failed =>
                 \E i \in about : i.id = "diagnostics"

(* Every item has a page whose badge counts it, in the colour of the most  *)
(* serious item of that page.  (Navigation)                                *)
BadgesShowTheWorst ==
    LET counted == [p \in Pages |-> Cardinality(Own(p))]
    IN  /\ FoldFunction(+, 0, counted) = Cardinality(Issues)
        /\ \A p \in Pages : \A i \in Own(p) :
             /\ i.severity = "critical" => Worst(p) = "critical"
             /\ i.severity = "warning" => Worst(p) # "info"

(* The banner and the list never contradict each other.                    *)
(* (SystemStatusBanner beside AttentionPanel)                              *)
BannerAgreesWithList ==
    LET named == {s \in ServiceSet : \E i \in Issues : i.id = "service" /\ i.about = s}
    IN  /\ SystemStatus = "operational" => Panel # "looking" /\ named = {}
        /\ SystemStatus = "down" => named = ServiceSet
        /\ SystemStatus = "degraded" => named # {} /\ named # ServiceSet

(* A fault that stays is listed in the end, and stays listed: a service    *)
(* that is not ready, and books that do not balance while billing answers. *)
LastingFaultsAreListed ==
    /\ \A s \in ServiceSet :
         <>[](report[s] # "ready") => <>[](\E i \in Issues : i.about = s)
    /\ <>[](facts.ledger = "off" /\ report[billing] # "none") =>
         <>[](\E i \in Issues : i.id = "books")

(* "No issues detected" is said only when everything was looked at.        *)
(* (findIssues: "\"no issues\" would be a guess; say what is missing")     *)
QuietMeansChecked ==
    Panel = "no issues" =>
        counters # None /\ \A s \in ServiceSet : section[s] # Loading
=============================================================================
