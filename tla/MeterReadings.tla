---------------------------- MODULE MeterReadings ----------------------------
(***************************************************************************)
(* createReading of the smart-meter service: concurrent POSTs of meter     *)
(* readings, each of which looks up its household and timestamp and then   *)
(* stores the reading, the household's status and the event in one         *)
(* transaction.                                                            *)
(*                                                                         *)
(* The rows a transaction claims are claimed one by one, as PostgreSQL     *)
(* locks them: the unique (household, timestamp) of the reading first, the *)
(* household's status row next.  Nothing is visible before the commit.     *)
(***************************************************************************)
EXTENDS Integers, FiniteSets, FiniteSetsExt

CONSTANTS
    Households, Times,   \* Times: when a meter took a reading
    Posted,              \* the readings that may be posted
    Handlers,            \* createReading calls under way at once
    MaxSkew,             \* MAX_CLOCK_SKEW_MS
    MaxFailures          \* bound: transactions that fail or processes that die

Reading == [household : Households, time : Times, production : Nat, consumption : Nat]

ASSUME ReadingAssumption ==
    /\ Times \subseteq Nat /\ Posted \subseteq Reading
    /\ MaxSkew \in Nat /\ MaxFailures \in Nat

VARIABLES
    now,        \* the server's clock
    readings,   \* meter_readings
    status,     \* household_energy_status
    outbox,     \* outbox_events: the reading each event was derived from
    pc, posted, \* where each call is, and the reading it was given
    answer,     \* what it answers
    failures

tableVars == <<readings, status, outbox>>
callVars == <<pc, posted, answer>>
vars == <<now, tableVars, callVars, failures>>

None == [none |-> TRUE]
Key(r) == <<r.household, r.time>>

(* calculateEnergyStatus *)
Clamp0(n) == IF n > 0 THEN n ELSE 0
Net(r) == r.production - r.consumption
Surplus(r) == Clamp0(Net(r))
Demand(r) == Clamp0(- Net(r))
EnergyStatus(r) == CASE Net(r) > 0 -> "SURPLUS" [] Net(r) < 0 -> "DEMAND" [] OTHER -> "BALANCED"

StatusRow(r) == [at |-> r.time, status |-> EnergyStatus(r),
                 surplus |-> Surplus(r), demand |-> Demand(r)]
(* toReadingResponse: the row, with the surplus and demand it is handed. *)
Response(row, surplus, demand, duplicate) ==
    [net |-> Net(row), status |-> EnergyStatus(row),
     surplus |-> surplus, demand |-> demand, duplicate |-> duplicate]
Event(r) == [source |-> r, type |-> EnergyStatus(r), kwh |-> Surplus(r) + Demand(r)]

TypeOK ==
    /\ now \in Nat
    /\ readings \in [Households \X Times -> Reading \cup {None}]
    /\ \A k \in DOMAIN readings : readings[k] # None => Key(readings[k]) = k
    /\ \A h \in Households : status[h] # None => status[h].surplus * status[h].demand = 0
    /\ \A e \in outbox : e.kwh > 0
    /\ pc \in [Handlers -> {"idle", "received", "inserting", "stored", "updated", "raced", "answered"}]
    /\ posted \in [Handlers -> Posted \cup {None}]
    /\ failures \in 0 .. MaxFailures

-----------------------------------------------------------------------------
Exists(k) == readings[k] # None
At(h, point) == pc[h] = point
Goto(h, point) == pc' = [pc EXCEPT ![h] = point]

(* Whose open transaction has inserted the reading, or changed the status  *)
(* row, that call h needs next.                                            *)
HoldsKey(g, k) == pc[g] \in {"stored", "updated"} /\ Key(posted[g]) = k
HoldsStatus(g, household) == At(g, "updated") /\ posted[g].household = household

Init ==
    /\ now = 0
    /\ readings = [k \in Households \X Times |-> None]
    /\ status = [h \in Households |-> None] /\ outbox = {}
    /\ pc = [h \in Handlers |-> "idle"] /\ posted = [h \in Handlers |-> None]
    /\ answer = [h \in Handlers |-> None] /\ failures = 0

Tick == /\ now < Max(Times \cup {0}) /\ now' = now + 1
        /\ UNCHANGED <<tableVars, callVars, failures>>

Receive(h, r) ==
    /\ At(h, "idle")
    /\ posted' = [posted EXCEPT ![h] = r] /\ Goto(h, "received")
    /\ UNCHANGED <<now, tableVars, answer, failures>>

Answer(h, a) == answer' = [answer EXCEPT ![h] = a] /\ Goto(h, "answered")

(* A reading from the future is refused. *)
FromFuture(r) == r.time > now + MaxSkew
RefuseFuture(h) ==
    /\ At(h, "received") /\ FromFuture(posted[h])
    /\ Answer(h, [error |-> "422"])
    /\ UNCHANGED <<now, tableVars, posted, failures>>

(* The look-ups: before the transaction, and after a lost race. *)
AnswerSummary(h) ==   \* mutant: a duplicate has no surplus and no demand
    Answer(h, Response(readings[Key(posted[h])], 0, 0, TRUE))
AnswerDuplicate(h) ==
    Answer(h, Response(readings[Key(posted[h])], Surplus(posted[h]), Demand(posted[h]), TRUE))

FindExisting(h) ==
    /\ At(h, "received") /\ ~ FromFuture(posted[h])
    /\ IF Exists(Key(posted[h]))
       THEN AnswerDuplicate(h)
       ELSE Goto(h, "inserting") /\ UNCHANGED answer
    /\ UNCHANGED <<now, tableVars, posted, failures>>

(* The insert of the reading waits for an open transaction with the same   *)
(* key; a committed one is a unique violation.                             *)
InsertReading(h) ==
    /\ At(h, "inserting") /\ ~ Exists(Key(posted[h]))
    /\ \A g \in Handlers : ~ HoldsKey(g, Key(posted[h]))
    /\ Goto(h, "stored")
    /\ UNCHANGED <<now, tableVars, posted, answer, failures>>

LoseRace(h) ==
    /\ At(h, "inserting") /\ Exists(Key(posted[h]))
    /\ Goto(h, "raced")
    /\ UNCHANGED <<now, tableVars, posted, answer, failures>>

AnswerWinner(h) ==
    /\ At(h, "raced")
    /\ AnswerDuplicate(h)
    /\ UNCHANGED <<now, tableVars, posted, failures>>

(* The conditional upsert waits for the status row. *)
UpsertStatus(h) ==
    /\ At(h, "stored")
    /\ \A g \in Handlers : ~ HoldsStatus(g, posted[h].household)
    /\ Goto(h, "updated")
    /\ UNCHANGED <<now, tableVars, posted, answer, failures>>

(* Mutant: whatever commits last is the status. *)
StatusOfLastCommit(r) == StatusRow(r)
StatusAfter(r) ==
    IF status[r.household] = None \/ status[r.household].at < r.time
    THEN StatusRow(r) ELSE status[r.household]

EventsOf(r) == IF EnergyStatus(r) = "BALANCED" THEN {} ELSE {Event(r)}

(* Mutant: only a reading that changes the status sends an event. *)
CommitIfNews(h) ==
    LET r == posted[h] IN
    /\ At(h, "updated")
    /\ readings' = [readings EXCEPT ![Key(r)] = r]
    /\ status' = [status EXCEPT ![r.household] = StatusAfter(r)]
    /\ outbox' = IF StatusAfter(r) = StatusRow(r) THEN outbox \cup EventsOf(r) ELSE outbox
    /\ Answer(h, Response(r, Surplus(r), Demand(r), FALSE))
    /\ UNCHANGED <<now, posted, failures>>

Commit(h) ==
    LET r == posted[h] IN
    /\ At(h, "updated")
    /\ readings' = [readings EXCEPT ![Key(r)] = r]
    /\ status' = [status EXCEPT ![r.household] = StatusAfter(r)]
    /\ outbox' = outbox \cup EventsOf(r)
    /\ Answer(h, Response(r, Surplus(r), Demand(r), FALSE))
    /\ UNCHANGED <<now, posted, failures>>

(* The database fails or the process dies: the open transaction is rolled  *)
(* back, or it has committed and the answer is lost.                       *)
Fail(h) ==
    /\ pc[h] \in {"received", "inserting", "stored", "updated", "raced", "answered"}
    /\ failures < MaxFailures /\ failures' = failures + 1
    /\ pc' = [pc EXCEPT ![h] = "idle"] /\ posted' = [posted EXCEPT ![h] = None]
    /\ answer' = [answer EXCEPT ![h] = None]
    /\ UNCHANGED <<now, tableVars>>

Deliver(h) ==
    /\ At(h, "answered")
    /\ pc' = [pc EXCEPT ![h] = "idle"] /\ posted' = [posted EXCEPT ![h] = None]
    /\ answer' = [answer EXCEPT ![h] = None]
    /\ UNCHANGED <<now, tableVars, failures>>

Work(h) == \/ RefuseFuture(h) \/ FindExisting(h) \/ InsertReading(h) \/ LoseRace(h)
           \/ AnswerWinner(h) \/ UpsertStatus(h) \/ Commit(h)

Next ==
    \/ Tick
    \/ \E h \in Handlers : \/ \E r \in Posted : Receive(h, r)
                           \/ Work(h) \/ Fail(h) \/ Deliver(h)

Spec == Init /\ [][Next]_vars
(* Calls go on by themselves; a waiting transaction gets its turn. *)
FairSpec == Spec /\ \A h \in Handlers : SF_vars(Work(h))

-----------------------------------------------------------------------------
(* Properties *)

Stored == {readings[k] : k \in {j \in DOMAIN readings : Exists(j)}}

(* A household's status is that of its newest reading, in whatever order   *)
(* the readings arrive and their transactions commit.                      *)
(* (applyHouseholdStatus)                                                  *)
StatusIsNewest ==
    \A h \in Households :
        LET own == {r \in Stored : r.household = h} IN
        status[h] = IF own = {} THEN None
                    ELSE StatusRow(CHOOSE r \in own : \A o \in own : o.time <= r.time)

(* The reading and its event cannot disagree: one event for each reading   *)
(* with energy to trade, none for the others, and none for a reading that  *)
(* is not there.  (createReading, one transaction)                         *)
EventsAreReadings ==
    /\ outbox = {Event(r) : r \in {s \in Stored : EnergyStatus(s) # "BALANCED"}}
    /\ \A e \in outbox : Cardinality({d \in outbox : Key(d.source) = Key(e.source)}) = 1

(* Whoever posts a reading is told of the stored one: always its net and   *)
(* status and, when the reading is sent again as it was, also after a lost *)
(* race, its surplus and demand: the repeated call is told what the first  *)
(* one was.  (createReading: "A client retry, answered from what was       *)
(* stored the first time")                                                 *)
RepeatsAnswerAlike ==
    \A h \in Handlers : (At(h, "answered") /\ "net" \in DOMAIN answer[h]) =>
        LET row == readings[Key(posted[h])] IN
        /\ row # None
        /\ answer[h].net = Net(row) /\ answer[h].status = EnergyStatus(row)
        /\ posted[h] = row => answer[h].surplus = Surplus(row) /\ answer[h].demand = Demand(row)

(* What the comment on a client retry promises, "answered from what was    *)
(* stored the first time", taken for the whole answer: its surplus and     *)
(* demand are of the stored reading too.  A repeat with other amounts is   *)
(* told its own.  (createReading)                                          *)
AnswerIsStored ==
    \A h \in Handlers : (At(h, "answered") /\ "net" \in DOMAIN answer[h]) =>
        LET row == readings[Key(posted[h])] IN
        answer[h].surplus = Surplus(row) /\ answer[h].demand = Demand(row)

(* Two calls with one reading: only one of them is told that it was the    *)
(* first.                                                                  *)
OneIsFirst ==
    [][\A h \in Handlers : At(h, "updated") /\ pc'[h] = "answered" => ~ Exists(Key(posted[h]))]_vars

(* No two transactions wait for each other for ever: every call that does  *)
(* not fail is answered.                                                   *)
EveryCallEnds == \A h \in Handlers : At(h, "received") ~> pc[h] \in {"answered", "idle"}
=============================================================================
