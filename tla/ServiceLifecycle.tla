--------------------------- MODULE ServiceLifecycle ---------------------------
(***************************************************************************)
(* One process of a service from running to its exit: the signal handler   *)
(* with its deadline, Nest's close with the hooks of the services in       *)
(* order, the messages and requests in progress meanwhile, and the         *)
(* readiness probes that ask all the time.                                 *)
(***************************************************************************)
EXTENDS Integers, FiniteSets

CONSTANTS
    Requests,       \* HTTP requests that may be in flight at once
    Deliveries,     \* messages, or outbox passes, that may be in progress at once
    Probes,         \* readiness probes that may be in flight at once
    Dependencies,   \* what the service checks
    Critical,       \* the dependencies it cannot do without
    MaxSignals,     \* bound: SIGTERM and SIGINT
    MaxChanges      \* bound: times a dependency goes down or comes back

LifecycleAssumption ==
    Critical \subseteq Dependencies /\ MaxSignals \in Nat /\ MaxChanges \in Nat

VARIABLES
    stage,       \* how far close() is
    shuttingDown,\* ApplicationLifecycle.stopping
    inProgress,  \* of installGracefulShutdown
    deadline,    \* its timer: "none", "armed", "cleared"
    exitCode,    \* "none" while the process lives
    working,     \* requests and messages in progress
    up,          \* the dependencies that answer
    probe,       \* each probe: what it found so far
    down,        \* HealthController.down
    told,        \* what the log last said of each dependency
    repeated,    \* history: the log said something twice
    signals, changes

closeVars == <<stage, shuttingDown, inProgress, deadline, exitCode>>
probeVars == <<probe, down, told, repeated>>
boundVars == <<signals, changes>>
vars == <<closeVars, working, up, probeVars, boundVars>>

Stage == {"running", "destroyed", "drained", "serverClosed", "disconnected", "closed", "failed"}
Report == {"ready", "not_ready", "shutting_down"}
NoProbe == [at |-> "idle"]
(* early: the probe was asked before shutdown began.                       *)
Checking == [at : {"checking", "answered"}, found : [Dependencies -> {"pending", "up", "down"}],
             early : BOOLEAN, report : Report \cup {"none"}]

TypeOK ==
    /\ stage \in Stage /\ shuttingDown \in BOOLEAN /\ inProgress \in BOOLEAN
    /\ deadline \in {"none", "armed", "cleared"}
    /\ exitCode \in {"none", "0", "1"}
    /\ working \subseteq Requests \cup Deliveries
    /\ up \subseteq Dependencies
    /\ probe \in [Probes -> Checking \cup {NoProbe}]
    /\ down \subseteq Dependencies
    /\ told \in [Dependencies -> {"up", "down"}]
    /\ inProgress /\ exitCode = "none" <=> deadline = "armed" /\ exitCode = "none"

Alive == exitCode = "none"
Exit(code) == exitCode' = code

Init ==
    /\ stage = "running" /\ shuttingDown = FALSE /\ inProgress = FALSE
    /\ deadline = "none" /\ exitCode = "none"
    /\ working = {} /\ up = Dependencies
    /\ probe = [p \in Probes |-> NoProbe] /\ down = {}
    /\ told = [d \in Dependencies |-> "up"] /\ repeated = FALSE
    /\ signals = 0 /\ changes = 0

-----------------------------------------------------------------------------
(* What the service does meanwhile.  Requests arrive until the server is   *)
(* closed, messages until the consumer is cancelled and outbox passes      *)
(* until the publisher has stopped; both happen when the hooks before      *)
(* shutdown begin.                                                         *)
AcceptsMessages == stage = "running"
AcceptsRequests == stage \in {"running", "destroyed", "drained"}

BeginWork(w) ==
    /\ Alive /\ w \notin working
    /\ IF w \in Requests THEN AcceptsRequests ELSE AcceptsMessages
    /\ working' = working \cup {w}
    /\ UNCHANGED <<closeVars, up, probeVars, boundVars>>

EndWork(w) ==
    /\ Alive /\ w \in working
    /\ working' = working \ {w}
    /\ UNCHANGED <<closeVars, up, probeVars, boundVars>>

DependencyChanges(d) ==
    /\ Alive /\ changes < MaxChanges /\ changes' = changes + 1
    /\ up' = IF d \in up THEN up \ {d} ELSE up \cup {d}
    /\ UNCHANGED <<closeVars, working, probeVars, signals>>

-----------------------------------------------------------------------------
(* installGracefulShutdown *)

FirstSignal ==
    /\ Alive /\ ~ inProgress /\ signals < MaxSignals
    /\ signals' = signals + 1
    /\ inProgress' = TRUE /\ deadline' = "armed"
    /\ UNCHANGED <<stage, shuttingDown, exitCode, working, up, probeVars, changes>>

SecondSignal ==
    /\ Alive /\ inProgress /\ signals < MaxSignals
    /\ signals' = signals + 1 /\ Exit("1")
    /\ UNCHANGED <<stage, shuttingDown, inProgress, deadline, working, up, probeVars, changes>>

DeadlineOnlyWhenIdle ==   \* mutant: the timer waits for what is in progress
    /\ Alive /\ deadline = "armed" /\ working = {}
    /\ Exit("1")
    /\ UNCHANGED <<stage, shuttingDown, inProgress, deadline, working, up, probeVars, boundVars>>

DeadlinePasses ==
    /\ Alive /\ deadline = "armed"
    /\ Exit("1")
    /\ UNCHANGED <<stage, shuttingDown, inProgress, deadline, working, up, probeVars, boundVars>>

(* app.close(): onModuleDestroy; beforeApplicationShutdown, which waits    *)
(* for the messages in progress; the HTTP server, which waits for the      *)
(* requests; onApplicationShutdown, which closes the connections.          *)
CloseStep(from, to, ready) ==
    /\ Alive /\ inProgress /\ stage = from /\ ready
    /\ stage' = to
    /\ UNCHANGED <<inProgress, deadline, exitCode, working, up, probeVars, boundVars>>

DestroyModules == CloseStep("running", "destroyed", TRUE) /\ shuttingDown' = TRUE
DrainWork == CloseStep("destroyed", "drained", working \cap Deliveries = {})
             /\ UNCHANGED shuttingDown
DisconnectFirst ==   \* mutant: the connections close without waiting for the server
    CloseStep("drained", "serverClosed", TRUE) /\ UNCHANGED shuttingDown
CloseServer == CloseStep("drained", "serverClosed",
                         working \cap Requests = {} /\ \A p \in Probes : probe[p] = NoProbe)
               /\ UNCHANGED shuttingDown
Disconnect == CloseStep("serverClosed", "disconnected", TRUE) /\ UNCHANGED shuttingDown
Closed == CloseStep("disconnected", "closed", TRUE) /\ UNCHANGED shuttingDown
(* A hook throws: close() is rejected. *)
CloseFails == /\ stage \notin {"running", "closed", "failed"}
              /\ CloseStep(stage, "failed", TRUE) /\ UNCHANGED shuttingDown

ExitAfterClose ==
    /\ Alive /\ stage \in {"closed", "failed"}
    /\ deadline' = "cleared"
    /\ Exit(IF stage = "closed" THEN "0" ELSE "1")
    /\ UNCHANGED <<stage, shuttingDown, inProgress, working, up, probeVars, boundVars>>

-----------------------------------------------------------------------------
(* HealthController.ready and evaluateReadiness *)

BeginProbe(p) ==
    /\ Alive /\ AcceptsRequests /\ probe[p] = NoProbe
    /\ probe' = [probe EXCEPT ![p] =
                   [at |-> IF shuttingDown THEN "answered" ELSE "checking",
                    found |-> [d \in Dependencies |-> "pending"],
                    early |-> ~ shuttingDown,
                    report |-> IF shuttingDown THEN "shutting_down" ELSE "none"]]
    /\ UNCHANGED <<closeVars, working, up, down, told, repeated, boundVars>>

Log(d, what) == told' = [told EXCEPT ![d] = what]

(* A check answers, or fails or runs into its deadline; a failure is       *)
(* logged unless the last probe saw it too.                                *)
Check(p, d) ==
    /\ Alive /\ probe[p].at = "checking" /\ probe[p].found[d] = "pending"
    /\ IF d \in up
       THEN /\ probe' = [probe EXCEPT ![p].found[d] = "up"]
            /\ UNCHANGED <<told, repeated>>
       ELSE /\ probe' = [probe EXCEPT ![p].found[d] = "down"]
            /\ IF d \in down THEN UNCHANGED <<told, repeated>>
               ELSE Log(d, "down") /\ repeated' = (repeated \/ told[d] = "down")
    /\ UNCHANGED <<closeVars, working, up, down, boundVars>>

FailedNow(p) == {d \in Dependencies : probe[p].found[d] = "down"}
Verdict(p) == IF FailedNow(p) \cap Critical = {} THEN "ready" ELSE "not_ready"

DownAfter(p) == FailedNow(p)

(* All checks are in: what came back is logged, and this probe is the last *)
(* one from now on.                                                        *)
AnswerProbe(p) ==
    LET back == down \ FailedNow(p) IN
    /\ Alive /\ probe[p].at = "checking"
    /\ \A d \in Dependencies : probe[p].found[d] # "pending"
    /\ probe' = [probe EXCEPT ![p].at = "answered", ![p].report = Verdict(p)]
    /\ told' = [d \in Dependencies |-> IF d \in back THEN "up" ELSE told[d]]
    /\ repeated' = (repeated \/ \E d \in back : told[d] = "up")
    /\ down' = DownAfter(p)
    /\ UNCHANGED <<closeVars, working, up, boundVars>>

EndProbe(p) ==
    /\ Alive /\ probe[p].at = "answered"
    /\ probe' = [probe EXCEPT ![p] = NoProbe]
    /\ UNCHANGED <<closeVars, working, up, down, told, repeated, boundVars>>

-----------------------------------------------------------------------------
Close == DestroyModules \/ DrainWork \/ CloseServer \/ Disconnect \/ Closed
         \/ CloseFails \/ ExitAfterClose
Next ==
    \/ \E w \in Requests \cup Deliveries : BeginWork(w) \/ EndWork(w)
    \/ \E d \in Dependencies : DependencyChanges(d)
    \/ FirstSignal \/ SecondSignal \/ DeadlinePasses \/ Close
    \/ \E p \in Probes : \/ BeginProbe(p) \/ AnswerProbe(p) \/ EndProbe(p)
                         \/ \E d \in Dependencies : Check(p, d)

Spec == Init /\ [][Next]_vars
(* The timer fires; the work in progress may hang for ever.                *)
FairSpec == Spec /\ WF_vars(DeadlinePasses) /\ WF_vars(ExitAfterClose)

-----------------------------------------------------------------------------
(* Properties *)

(* Nothing is in progress when the connections close, and a process that   *)
(* exits with status 0 left nothing unfinished and had no deadline pending.*)
(* (the hook order, PrismaService.onApplicationShutdown: "everything that  *)
(* could still be writing has finished by now")                            *)
ConnectionsCloseLast ==
    /\ stage \in {"serverClosed", "disconnected", "closed"} =>
         working = {} /\ \A p \in Probes : probe[p] = NoProbe
    /\ exitCode = "0" => stage = "closed" /\ deadline = "cleared"

(* A process that was told to stop is gone in the end, whatever hangs.     *)
(* (the deadline)                                                          *)
ShutdownEnds == inProgress ~> ~ Alive

(* A probe asked after shutdown began is never told "ready", and not made  *)
(* to touch a dependency.  (evaluateReadiness)                             *)
LateProbesSeeTheStop ==
    \A p \in Probes : probe[p] # NoProbe /\ ~ probe[p].early =>
        /\ probe[p].report = "shutting_down"
        /\ \A d \in Dependencies : probe[p].found[d] = "pending"

(* A dependency the service can do without never makes it not ready, and   *)
(* one it cannot do without always does.  (evaluateReadiness)              *)
OnlyCriticalCounts ==
    \A p \in Probes : probe[p] # NoProbe /\ probe[p].report \in {"ready", "not_ready"} =>
        (probe[p].report = "ready" <=> \A d \in Critical : probe[p].found[d] = "up")

(* No probe is answered "ready" once the service is shutting down.         *)
(* (evaluateReadiness: "A service that is shutting down is never ready")   *)
NeverReadyWhileStopping ==
    [][\A p \in Probes : probe'[p] # NoProbe /\ probe'[p].report = "ready" /\ probe[p] # probe'[p]
                           => ~ shuttingDown]_vars

(* With one probe at a time the log says that a dependency went down or    *)
(* came back only when that is a change.  (HealthController.down: "so only changes are logged")        *)
OneProbe == \A p, q \in Probes : p = q
OnlyChangesAreLogged == ~ repeated
=============================================================================
