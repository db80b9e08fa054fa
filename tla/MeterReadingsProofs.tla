------------------------ MODULE MeterReadingsProofs ------------------------
(***************************************************************************)
(* What createReading keeps true for any number of calls, households and   *)
(* readings: the tables agree with one another whatever order the          *)
(* transactions commit in, each reading has one call that was first, and   *)
(* the statistics are of the readings there are.  And what becomes of the  *)
(* figures of a reading on their way to the ledger (TradeAmounts).         *)
(***************************************************************************)
EXTENDS MCMeterReadings, TotalsProofs, FiniteSetTheorems, TLAPS

Points == {"idle", "received", "inserting", "stored", "updated", "raced", "answered"}
StatusRows == [at : Nat, status : {"SURPLUS", "DEMAND", "BALANCED"}, surplus : Nat, demand : Nat]

Shape ==
    /\ now \in Nat /\ failures \in 0 .. MaxFailures
    /\ readings \in [Households \X Times -> Reading \cup {None}]
    /\ \A k \in Households \X Times : Exists(k) => Key(readings[k]) = k
    /\ status \in [Households -> StatusRows \cup {None}]
    /\ pc \in [Handlers -> Points]
    /\ posted \in [Handlers -> Posted \cup {None}]
    /\ answer \in [Handlers -> [error : {"422"}] \cup {None}
                    \cup [net : Int, status : {"SURPLUS", "DEMAND", "BALANCED"},
                          surplus : Nat, demand : Nat, duplicate : BOOLEAN]]
    /\ \A h \in Handlers : pc[h] # "idle" => posted[h] \in Posted

(* A call that has inserted its reading is alone with it, and nothing is   *)
(* committed for it yet.                                                   *)
Holding(h) == pc[h] \in {"stored", "updated"}
Claims ==
    /\ \A h \in Handlers : Holding(h) => ~ Exists(Key(posted[h]))
    /\ \A g, h \in Handlers : Holding(g) /\ Holding(h) /\ Key(posted[g]) = Key(posted[h]) => g = h
    /\ \A h \in Handlers : pc[h] = "raced" => Exists(Key(posted[h]))

(* The status of a household, without choosing among its readings. *)
Newest(h, r) == r \in Stored /\ r.household = h
                /\ \A o \in Stored : o.household = h => o.time <= r.time
NewestStatus ==
    \A h \in Households :
        \/ status[h] = None /\ \A r \in Stored : r.household # h
        \/ \E r \in Stored : Newest(h, r) /\ status[h] = StatusRow(r)

EventPerReading ==
    outbox = {Event(r) : r \in {s \in Stored : EnergyStatus(s) # "BALANCED"}}

Inv == Shape /\ Claims /\ NewestStatus /\ EventPerReading

-----------------------------------------------------------------------------
(* Operators. *)

LEMMA NoneIsNoReading == None \notin Reading
BY DEF None, Reading

LEMMA NoneIsNoStatus == None \notin StatusRows
BY DEF None, StatusRows

LEMMA PostedReadings == Posted \subseteq Reading /\ Times \subseteq Nat
BY ReadingAssumption

LEMMA ReadingFigures ==
  ASSUME NEW r \in Reading
  PROVE  /\ Key(r) \in Households \X Times
         /\ Net(r) \in Int /\ Surplus(r) \in Nat /\ Demand(r) \in Nat
         /\ EnergyStatus(r) \in {"SURPLUS", "DEMAND", "BALANCED"}
         /\ StatusRow(r) \in StatusRows
         /\ StatusRow(r).surplus * StatusRow(r).demand = 0
         /\ EnergyStatus(r) # "BALANCED" => Event(r).kwh > 0
         /\ Event(r).source = r
<1> USE ReadingAssumption
<1>1. r.household \in Households /\ r.time \in Nat /\ r.time \in Times
      /\ r.production \in Nat /\ r.consumption \in Nat
  BY DEF Reading
<1>2. Net(r) \in Int BY <1>1 DEF Net
<1>3. Surplus(r) \in Nat /\ Demand(r) \in Nat BY <1>2 DEF Surplus, Demand, Clamp0
<1>4. EnergyStatus(r) \in {"SURPLUS", "DEMAND", "BALANCED"} BY <1>2 DEF EnergyStatus
<1>5. StatusRow(r) \in StatusRows BY <1>1, <1>3, <1>4 DEF StatusRow, StatusRows
<1>6. Surplus(r) = 0 \/ Demand(r) = 0 BY <1>2 DEF Surplus, Demand, Clamp0
<1>7. StatusRow(r).surplus * StatusRow(r).demand = 0 BY <1>3, <1>6 DEF StatusRow
<1>8. EnergyStatus(r) # "BALANCED" => Surplus(r) + Demand(r) > 0
  BY <1>2 DEF EnergyStatus, Surplus, Demand, Clamp0
<1> QED BY <1>1, <1>2, <1>3, <1>4, <1>5, <1>7, <1>8 DEF Key, Event

LEMMA StoredReadings ==
  ASSUME Shape
  PROVE  /\ Stored \subseteq Reading
         /\ \A r \in Stored : Key(r) \in Households \X Times /\ Exists(Key(r)) /\ readings[Key(r)] = r
         /\ \A k \in Households \X Times : Exists(k) => readings[k] \in Stored
BY NoneIsNoReading, ReadingFigures DEF Shape, Stored, Exists

-----------------------------------------------------------------------------
(* Every step but a commit leaves the tables alone. *)

LEMMA InitInv == Init => Inv
<1> SUFFICES ASSUME Init PROVE Inv OBVIOUS
<1>1. Shape BY ReadingAssumption DEF Init, Shape, Exists, Points
<1>2. Claims BY DEF Init, Claims, Holding
<1>3. Stored = {} BY DEF Init, Stored, Exists
<1> QED BY <1>1, <1>2, <1>3 DEF Init, Inv, NewestStatus, EventPerReading

LEMMA TablesKeep ==
  ASSUME Inv, UNCHANGED tableVars
  PROVE  NewestStatus' /\ EventPerReading'
<1>1. Stored' = Stored BY DEF tableVars, Stored, Exists
<1>2. NewestStatus' BY <1>1 DEF Inv, NewestStatus, Newest, tableVars
<1>3. EventPerReading' BY <1>1 DEF Inv, EventPerReading, tableVars
<1> QED BY <1>2, <1>3

(* What a step of one call does to the claims, when the tables stay. *)
LEMMA ClaimsKeep ==
  ASSUME Inv, UNCHANGED tableVars, NEW h \in Handlers,
         pc' \in [Handlers -> Points], posted' \in [Handlers -> Posted \cup {None}],
         \A g \in Handlers \ {h} : pc'[g] = pc[g] /\ posted'[g] = posted[g],
         Holding(h)' => /\ ~ Exists(Key(posted'[h]))
                        /\ \A g \in Handlers \ {h} :
                              Holding(g) => Key(posted[g]) # Key(posted'[h]),
         pc'[h] = "raced" => Exists(Key(posted'[h]))
  PROVE  Claims'
BY DEF Inv, Claims, Holding, Exists, tableVars, Shape

LEMMA CallStep ==
  ASSUME Inv, NEW h \in Handlers,
         \/ \E r \in Posted : Receive(h, r)
         \/ RefuseFuture(h) \/ FindExisting(h) \/ InsertReading(h) \/ LoseRace(h)
         \/ AnswerWinner(h) \/ UpsertStatus(h) \/ Fail(h) \/ Deliver(h)
  PROVE  Inv'
<1> USE DEF At, Goto
<1>0. Shape /\ Claims /\ pc \in [Handlers -> Points] /\ posted \in [Handlers -> Posted \cup {None}]
  BY DEF Inv, Shape
<1>a. \A g \in Handlers : pc[g] # "idle" =>
          /\ posted[g] \in Reading /\ Key(posted[g]) \in Households \X Times
          /\ Exists(Key(posted[g])) => readings[Key(posted[g])] \in Reading
  BY <1>0, PostedReadings, ReadingFigures, NoneIsNoReading DEF Shape, Exists
<1>1. CASE \E r \in Posted : Receive(h, r)
  <2> PICK r \in Posted : Receive(h, r) BY <1>1
  <2>1. Shape' BY <1>0 DEF Receive, Shape, Points, tableVars, Exists
  <2>2. Claims' BY <1>0, <2>1, ClaimsKeep DEF Receive, Holding, Shape, tableVars
  <2> QED BY <2>1, <2>2, TablesKeep DEF Receive, Inv
<1>2. CASE RefuseFuture(h)
  <2>1. Shape' BY <1>0, <1>2 DEF RefuseFuture, Answer, Shape, Points, tableVars, Exists
  <2>2. Claims' BY <1>0, <1>2, <2>1, ClaimsKeep DEF RefuseFuture, Answer, Holding, Shape, tableVars
  <2> QED BY <1>2, <2>1, <2>2, TablesKeep DEF RefuseFuture, Inv
<1>3. CASE FindExisting(h) \/ AnswerWinner(h)
  <2>0. ASSUME AnswerDuplicate(h), Exists(Key(posted[h])), pc[h] # "idle"
        PROVE  /\ answer' \in [Handlers -> [error : {"422"}] \cup {None}
                     \cup [net : Int, status : {"SURPLUS", "DEMAND", "BALANCED"},
                           surplus : Nat, demand : Nat, duplicate : BOOLEAN]]
               /\ pc' = [pc EXCEPT ![h] = "answered"]
    <3> DEFINE row == readings[Key(posted[h])]
               given == Response(row, Surplus(posted[h]), Demand(posted[h]), TRUE)
    <3>1. row \in Reading /\ posted[h] \in Reading BY <1>a, <2>0
    <3>2. given \in [net : Int, status : {"SURPLUS", "DEMAND", "BALANCED"},
                     surplus : Nat, demand : Nat, duplicate : BOOLEAN]
      BY <3>1, ReadingFigures DEF Response
    <3>3. answer' = [answer EXCEPT ![h] = given] /\ pc' = [pc EXCEPT ![h] = "answered"]
      BY <2>0 DEF AnswerDuplicate, Answer
    <3> HIDE DEF given
    <3> QED BY <1>0, <3>2, <3>3 DEF Shape
  <2>1. /\ UNCHANGED tableVars /\ UNCHANGED <<now, posted, failures>> /\ pc[h] # "idle"
        /\ \/ AnswerDuplicate(h) /\ Exists(Key(posted[h]))
           \/ pc' = [pc EXCEPT ![h] = "inserting"] /\ UNCHANGED answer
    BY <1>0, <1>3 DEF FindExisting, AnswerWinner, tableVars, Claims
  <2>2. /\ answer' \in [Handlers -> [error : {"422"}] \cup {None}
              \cup [net : Int, status : {"SURPLUS", "DEMAND", "BALANCED"},
                    surplus : Nat, demand : Nat, duplicate : BOOLEAN]]
        /\ pc' = [pc EXCEPT ![h] = "answered"] \/ pc' = [pc EXCEPT ![h] = "inserting"]
    BY <1>0, <2>0, <2>1 DEF Shape
  <2>3. Shape' BY <1>0, <2>1, <2>2 DEF Shape, Points, tableVars, Exists
  <2>4. Claims' BY <1>0, <2>1, <2>2, <2>3, ClaimsKeep DEF Holding, Shape
  <2> QED BY <2>1, <2>3, <2>4, TablesKeep DEF Inv
<1>4. CASE InsertReading(h)
  <2>1. Shape' BY <1>0, <1>4 DEF InsertReading, Shape, Points, tableVars, Exists
  <2>2. Claims'
    BY <1>0, <1>4, <2>1, ClaimsKeep DEF InsertReading, HoldsKey, Holding, Shape, tableVars, Exists
  <2> QED BY <1>4, <2>1, <2>2, TablesKeep DEF InsertReading, Inv
<1>5. CASE LoseRace(h)
  <2>1. Shape' BY <1>0, <1>5 DEF LoseRace, Shape, Points, tableVars, Exists
  <2>2. Claims' BY <1>0, <1>5, <2>1, ClaimsKeep DEF LoseRace, Holding, Shape, tableVars, Exists
  <2> QED BY <1>5, <2>1, <2>2, TablesKeep DEF LoseRace, Inv
<1>6. CASE UpsertStatus(h)
  <2>1. Shape' BY <1>0, <1>6 DEF UpsertStatus, Shape, Points, tableVars, Exists
  <2>2. Claims'
    BY <1>0, <1>6, <2>1, ClaimsKeep DEF UpsertStatus, Holding, Shape, tableVars, Exists, Claims
  <2> QED BY <1>6, <2>1, <2>2, TablesKeep DEF UpsertStatus, Inv
<1>7. CASE Fail(h) \/ Deliver(h)
  <2>1. Shape'
    BY <1>0, <1>7, ReadingAssumption DEF Fail, Deliver, Shape, Points, tableVars, Exists
  <2>2. Claims' BY <1>0, <1>7, <2>1, ClaimsKeep DEF Fail, Deliver, Holding, Shape, tableVars
  <2> QED BY <1>7, <2>1, <2>2, TablesKeep DEF Fail, Deliver, Inv
<1> QED BY <1>1, <1>2, <1>3, <1>4, <1>5, <1>6, <1>7

-----------------------------------------------------------------------------
(* A commit adds one reading to the tables. *)

LEMMA CommitStores ==
  ASSUME Inv, NEW h \in Handlers, Commit(h)
  PROVE  /\ posted[h] \in Reading /\ posted[h] \in Posted
         /\ ~ Exists(Key(posted[h]))
         /\ Shape' /\ Stored' = Stored \cup {posted[h]}
<1> DEFINE r == posted[h]
           k == Key(r)
<1>1. Shape /\ pc[h] = "updated" BY DEF Inv, Commit, At
<1>2. r \in Reading /\ r \in Posted /\ k \in Households \X Times
  BY <1>1, PostedReadings, ReadingFigures DEF Shape
<1>3. ~ Exists(k) BY <1>1 DEF Inv, Claims, Holding
<1>4. /\ readings' = [readings EXCEPT ![k] = r]
      /\ status' = [status EXCEPT ![r.household] = StatusAfter(r)]
      /\ pc' = [pc EXCEPT ![h] = "answered"]
      /\ answer' = [answer EXCEPT ![h] = Response(r, Surplus(r), Demand(r), FALSE)]
      /\ UNCHANGED <<now, posted, failures>>
  BY DEF Commit, Answer, Goto
<1>5. StatusAfter(r) \in StatusRows
  <2>1. r.household \in Households BY <1>2 DEF Reading
  <2> QED BY <1>1, <1>2, <2>1, ReadingFigures, NoneIsNoStatus DEF StatusAfter, Shape
<1>6. Response(r, Surplus(r), Demand(r), FALSE)
        \in [net : Int, status : {"SURPLUS", "DEMAND", "BALANCED"},
             surplus : Nat, demand : Nat, duplicate : BOOLEAN]
  BY <1>2, ReadingFigures DEF Response
<1>7. Shape'
  <2> DEFINE given == Response(r, Surplus(r), Demand(r), FALSE)
  <2> HIDE DEF given
  <2>1. readings' \in [Households \X Times -> Reading \cup {None}]
        /\ \A j \in Households \X Times : readings'[j] # None => Key(readings'[j]) = j
    BY <1>1, <1>2, <1>4, NoneIsNoReading DEF Shape, Exists
  <2>2. status' \in [Households -> StatusRows \cup {None}] BY <1>1, <1>4, <1>5 DEF Shape
  <2>3. pc' \in [Handlers -> Points] BY <1>1, <1>4 DEF Shape, Points
  <2>4. answer' \in [Handlers -> [error : {"422"}] \cup {None}
              \cup [net : Int, status : {"SURPLUS", "DEMAND", "BALANCED"},
                    surplus : Nat, demand : Nat, duplicate : BOOLEAN]]
    <3>1. answer' = [answer EXCEPT ![h] = given] BY <1>4 DEF given
    <3>2. given \in [net : Int, status : {"SURPLUS", "DEMAND", "BALANCED"},
                     surplus : Nat, demand : Nat, duplicate : BOOLEAN]
      BY <1>6 DEF given
    <3> QED BY <1>1, <3>1, <3>2 DEF Shape
  <2>5. \A g \in Handlers : pc'[g] # "idle" => posted'[g] \in Posted
    BY <1>1, <1>2, <1>4 DEF Shape
  <2> QED BY <1>1, <1>4, <2>1, <2>2, <2>3, <2>4, <2>5 DEF Shape, Exists
<1>8. Stored' = Stored \cup {r}
  <2>1. \A j \in Households \X Times : readings'[j] = IF j = k THEN r ELSE readings[j]
    BY <1>1, <1>2, <1>4 DEF Shape
  <2>2. DOMAIN readings = Households \X Times /\ DOMAIN readings' = Households \X Times
    BY <1>1, <1>4 DEF Shape
  <2>3. readings[k] = None BY <1>3 DEF Exists
  <2>4. r # None BY <1>2, NoneIsNoReading
  <2>5. Stored = {readings[j] : j \in {i \in Households \X Times : readings[i] # None}}
    BY <2>2 DEF Stored, Exists
  <2>6. Stored' = {readings'[j] : j \in {i \in Households \X Times : readings'[i] # None}}
    BY <2>2 DEF Stored, Exists
  <2> QED BY <1>2, <2>1, <2>3, <2>4, <2>5, <2>6
<1> QED BY <1>2, <1>3, <1>7, <1>8

LEMMA CommitStep ==
  ASSUME Inv, NEW h \in Handlers, Commit(h)
  PROVE  Inv'
<1>0. PICK r : r = posted[h] OBVIOUS
<1>1. /\ r \in Reading /\ ~ Exists(Key(r)) /\ Shape' /\ Stored' = Stored \cup {r}
  BY <1>0, CommitStores
<1>2. Shape /\ Claims /\ NewestStatus /\ EventPerReading /\ pc[h] = "updated"
  BY DEF Inv, Commit, At
<1>3. r.household \in Households /\ r.time \in Nat /\ Stored \subseteq Reading
      /\ \A o \in Reading : o.time \in Nat
  BY <1>1, <1>2, StoredReadings, ReadingAssumption DEF Reading
<1>4. Claims'
  <2>1. pc' = [pc EXCEPT ![h] = "answered"] /\ posted' = posted
        /\ readings' = [readings EXCEPT ![Key(r)] = r]
    BY <1>0 DEF Commit, Answer, Goto
  <2>2. \A g \in Handlers : Holding(g)' => g # h /\ Holding(g)
    BY <1>2, <2>1 DEF Holding, Shape
  <2>3. \A g \in Handlers : Holding(g)' => Key(posted[g]) # Key(r)
    BY <1>0, <1>2, <2>2 DEF Claims, Holding
  <2>4. r # None /\ \A g \in Handlers : pc[g] # "idle" => Key(posted[g]) \in Households \X Times
    BY <1>1, <1>2, PostedReadings, ReadingFigures, NoneIsNoReading DEF Shape
  <2>5. \A j \in Households \X Times : readings'[j] = IF j = Key(r) THEN r ELSE readings[j]
    BY <1>2, <2>1 DEF Shape
  <2>6. \A g \in Handlers : Holding(g)' => ~ Exists(Key(posted[g]))'
    BY <1>2, <2>1, <2>2, <2>3, <2>4, <2>5 DEF Claims, Holding, Exists
  <2>7. \A g \in Handlers : pc'[g] = "raced" => Exists(Key(posted[g]))'
    BY <1>2, <2>1, <2>4, <2>5 DEF Claims, Exists, Shape
  <2>8. \A f, g \in Handlers : Holding(f)' /\ Holding(g)' /\ Key(posted[f]) = Key(posted[g]) => f = g
    BY <1>2, <2>2 DEF Claims
  <2> QED BY <2>1, <2>6, <2>7, <2>8 DEF Claims, Holding
<1>5. NewestStatus'
  <2>1. status' = [status EXCEPT ![r.household] = StatusAfter(r)] BY <1>0 DEF Commit
  <2>2. SUFFICES ASSUME NEW c \in Households
                 PROVE  \/ status'[c] = None /\ \A o \in Stored' : o.household # c
                        \/ \E n \in Stored' : Newest(c, n)' /\ status'[c] = StatusRow(n)
    BY DEF NewestStatus
  <2>3. CASE c # r.household
    <3>1. status'[c] = status[c] BY <1>2, <2>1, <2>3 DEF Shape
    <3>2. \A n \in Stored : Newest(c, n) => Newest(c, n)' BY <1>1, <2>3 DEF Newest
    <3> QED BY <1>1, <1>2, <2>3, <3>1, <3>2 DEF NewestStatus
  <2>4. CASE c = r.household
    <3>1. status'[c] = StatusAfter(r) BY <1>2, <2>1, <2>4 DEF Shape
    <3>2. CASE status[c] = None /\ \A o \in Stored : o.household # c
      <4>1. Newest(c, r)' BY <1>1, <1>3, <2>4, <3>2 DEF Newest
      <4>2. status'[c] = StatusRow(r) BY <2>4, <3>1, <3>2 DEF StatusAfter
      <4> QED BY <1>1, <4>1, <4>2
    <3>3. CASE \E n \in Stored : Newest(c, n) /\ status[c] = StatusRow(n)
      <4> PICK n \in Stored : Newest(c, n) /\ status[c] = StatusRow(n) BY <3>3
      <4>1. n \in Reading /\ n.time \in Nat /\ status[c].at = n.time BY <1>3 DEF StatusRow
      <4>2. status[c] # None BY <1>3, ReadingFigures, NoneIsNoStatus
      <4>3. CASE n.time < r.time
        <5>1. status'[c] = StatusRow(r) BY <2>4, <3>1, <4>1, <4>3 DEF StatusAfter
        <5>2. \A o \in Stored' : o.household = c => o.time <= r.time
          BY <1>1, <1>3, <4>1, <4>3 DEF Newest
        <5>3. Newest(c, r)' BY <1>1, <2>4, <5>2 DEF Newest
        <5> QED BY <1>1, <5>1, <5>3
      <4>4. CASE ~ (n.time < r.time)
        <5>1. status'[c] = StatusRow(n) BY <2>4, <3>1, <4>1, <4>2, <4>4 DEF StatusAfter
        <5>2. \A o \in Stored' : o.household = c => o.time <= n.time
          BY <1>1, <1>3, <4>1, <4>4 DEF Newest
        <5>3. Newest(c, n)' BY <1>1, <5>2 DEF Newest
        <5> QED BY <1>1, <5>1, <5>3
      <4> QED BY <4>3, <4>4
    <3> QED BY <1>2, <3>2, <3>3 DEF NewestStatus
  <2> QED BY <2>3, <2>4
<1>6. EventPerReading'
  <2>1. outbox' = outbox \cup EventsOf(r) BY <1>0 DEF Commit
  <2>2. EventsOf(r) = {Event(q) : q \in {s \in {r} : EnergyStatus(s) # "BALANCED"}}
    BY DEF EventsOf
  <2>3. {Event(q) : q \in {s \in Stored' : EnergyStatus(s) # "BALANCED"}}
          = outbox \cup EventsOf(r)
    BY <1>1, <1>2, <2>2 DEF EventPerReading
  <2> QED BY <2>1, <2>3 DEF EventPerReading
<1> QED BY <1>1, <1>4, <1>5, <1>6 DEF Inv

-----------------------------------------------------------------------------
LEMMA InvStep == Inv /\ [Next]_vars => Inv'
<1> SUFFICES ASSUME Inv, [Next]_vars PROVE Inv' OBVIOUS
<1>1. CASE Tick
  <2>1. Shape' BY <1>1 DEF Tick, Inv, Shape, tableVars, callVars, Exists
  <2>2. Claims' BY <1>1 DEF Tick, Inv, Claims, Holding, Exists, tableVars, callVars
  <2> QED BY <1>1, <2>1, <2>2, TablesKeep DEF Tick, Inv
<1>2. ASSUME NEW h \in Handlers,
             \/ \E r \in Posted : Receive(h, r)
             \/ Work(h) \/ Fail(h) \/ Deliver(h)
      PROVE  Inv'
  <2>1. CASE Commit(h) BY <2>1, CommitStep
  <2>2. CASE ~ Commit(h)
    <3>1. \/ \E r \in Posted : Receive(h, r)
          \/ RefuseFuture(h) \/ FindExisting(h) \/ InsertReading(h) \/ LoseRace(h)
          \/ AnswerWinner(h) \/ UpsertStatus(h) \/ Fail(h) \/ Deliver(h)
      BY <1>2, <2>2 DEF Work
    <3> QED BY <3>1, CallStep
  <2> QED BY <2>1, <2>2
<1>3. CASE UNCHANGED vars
  <2>1. Shape' BY <1>3 DEF vars, Inv, Shape, tableVars, callVars, Exists
  <2>2. Claims' BY <1>3 DEF vars, Inv, Claims, Holding, Exists, tableVars, callVars
  <2> QED BY <1>3, <2>1, <2>2, TablesKeep DEF vars, Inv
<1> QED BY <1>1, <1>2, <1>3 DEF Next

LEMMA SpecInv == Spec => []Inv
BY InitInv, InvStep, PTL DEF Spec

(* Whatever is posted, the tables of the smart meter keep their types, a   *)
(* status has no surplus beside a demand, and no event is about nothing.   *)
THEOREM ReadingsTypeCorrect == Spec => []TypeOK
<1>1. Inv => TypeOK
  <2> SUFFICES ASSUME Inv PROVE TypeOK OBVIOUS
  <2>1. Shape /\ NewestStatus /\ EventPerReading BY DEF Inv
  <2>2. \A c \in Households : status[c] # None => status[c].surplus * status[c].demand = 0
    BY <2>1, StoredReadings, ReadingFigures DEF NewestStatus
  <2>3. \A e \in outbox : e.kwh > 0 BY <2>1, StoredReadings, ReadingFigures DEF EventPerReading
  <2>4. \A k \in DOMAIN readings : readings[k] # None => Key(readings[k]) = k
    BY <2>1 DEF Shape, Exists
  <2> QED BY <2>1, <2>2, <2>3, <2>4 DEF TypeOK, Shape, Points
<1> QED BY <1>1, SpecInv, PTL

(* In whatever order readings arrive and commit, a household's status is   *)
(* that of its newest reading.                                             *)
THEOREM NewestReadingIsStatus == Spec => []StatusIsNewest
<1>1. Inv => StatusIsNewest
  <2> SUFFICES ASSUME Inv, NEW c \in Households
               PROVE  LET own == {r \in Stored : r.household = c} IN
                      status[c] = IF own = {} THEN None
                                  ELSE StatusRow(CHOOSE r \in own : \A o \in own : o.time <= r.time)
    BY DEF StatusIsNewest
  <2> DEFINE own == {r \in Stored : r.household = c}
  <2>1. CASE status[c] = None /\ \A r \in Stored : r.household # c
    BY <2>1
  <2>2. CASE \E r \in Stored : Newest(c, r) /\ status[c] = StatusRow(r)
    <3> PICK r \in Stored : Newest(c, r) /\ status[c] = StatusRow(r) BY <2>2
    <3> DEFINE n == CHOOSE q \in own : \A o \in own : o.time <= q.time
    <3>1. r \in own /\ \A o \in own : o.time <= r.time BY DEF Newest
    <3>2. n \in own /\ \A o \in own : o.time <= n.time BY <3>1
    <3>3. n \in Reading /\ r \in Reading /\ readings[Key(n)] = n /\ readings[Key(r)] = r
      BY <3>1, <3>2, StoredReadings DEF Inv
    <3>4. n.time = r.time
      <4>1. n.time \in Nat /\ r.time \in Nat BY <3>3, ReadingAssumption DEF Reading
      <4>2. n.time <= r.time /\ r.time <= n.time BY <3>1, <3>2
      <4> QED BY <4>1, <4>2
    <3>5. Key(n) = Key(r) BY <3>1, <3>2, <3>4 DEF Key
    <3>6. n = r BY <3>3, <3>5
    <3> HIDE DEF n
    <3>7. own # {} BY <3>1
    <3> QED BY <3>6, <3>7 DEF n
  <2> QED BY <2>1, <2>2 DEF Inv, NewestStatus
<1> QED BY <1>1, SpecInv, PTL

(* One event for every reading with energy to trade, and no other events.  *)
THEOREM ReadingsHaveTheirEvents == Spec => []EventsAreReadings
<1>1. Inv => EventsAreReadings
  <2> SUFFICES ASSUME Inv PROVE EventsAreReadings OBVIOUS
  <2>1. EventPerReading /\ Shape BY DEF Inv
  <2>2. ASSUME NEW e \in outbox
        PROVE  Cardinality({d \in outbox : Key(d.source) = Key(e.source)}) = 1
    <3>1. \A d \in outbox : d.source \in Stored /\ d = Event(d.source)
      BY <2>1, StoredReadings, ReadingFigures DEF EventPerReading
    <3>2. \A d \in outbox : Key(d.source) = Key(e.source) => d = e
      BY <2>1, <3>1, StoredReadings
    <3>3. {d \in outbox : Key(d.source) = Key(e.source)} = {e} BY <3>2
    <3> QED BY <3>3, FS_Singleton
  <2> QED BY <2>1, <2>2 DEF EventPerReading, EventsAreReadings
<1> QED BY <1>1, SpecInv, PTL

(* Of any number of calls with one reading, one is told it was the first.  *)
THEOREM FirstCallIsOne == Spec => OneIsFirst
<1>1. Inv /\ [Next]_vars =>
        [\A h \in Handlers : At(h, "updated") /\ pc'[h] = "answered"
             => ~ Exists(Key(posted[h]))]_vars
  BY DEF Inv, Claims, Holding, At
<1> QED BY <1>1, SpecInv, PTL DEF Spec, OneIsFirst

-----------------------------------------------------------------------------
(* What a call was answered: net and status of the stored reading, surplus *)
(* and demand of the one it was given.                                     *)

AnswerInv ==
    /\ Stored \subseteq Posted
    /\ \A h \in Handlers : pc[h] = "answered" =>
          \/ answer[h] \in [error : {"422"}]
          \/ /\ Exists(Key(posted[h]))
             /\ \E d \in BOOLEAN :
                   answer[h] = Response(readings[Key(posted[h])],
                                        Surplus(posted[h]), Demand(posted[h]), d)

LEMMA AnswerStep == Inv /\ AnswerInv /\ [Next]_vars => AnswerInv'
<1> SUFFICES ASSUME Inv, AnswerInv, [Next]_vars PROVE AnswerInv' OBVIOUS
<1>1. ASSUME UNCHANGED tableVars, NEW h \in Handlers,
             \A g \in Handlers \ {h} : pc'[g] = pc[g] /\ posted'[g] = posted[g] /\ answer'[g] = answer[g],
             pc'[h] = "answered" =>
                 \/ answer'[h] \in [error : {"422"}]
                 \/ /\ posted'[h] = posted[h] /\ Exists(Key(posted[h]))
                    /\ answer'[h] = Response(readings[Key(posted[h])],
                                             Surplus(posted[h]), Demand(posted[h]), TRUE)
      PROVE  AnswerInv'
  <2>1. Stored' = Stored BY <1>1 DEF tableVars, Stored, Exists
  <2>2. readings' = readings BY <1>1 DEF tableVars
  <2> QED BY <1>1, <2>1, <2>2 DEF AnswerInv, Exists
<1>2. CASE UNCHANGED <<tableVars, callVars>>
  <2>1. Stored' = Stored /\ readings' = readings /\ UNCHANGED callVars
    BY <1>2 DEF tableVars, Stored, Exists
  <2> QED BY <2>1 DEF AnswerInv, Exists, callVars
<1>3. ASSUME NEW h \in Handlers,
             \/ \E r \in Posted : Receive(h, r)
             \/ RefuseFuture(h) \/ FindExisting(h) \/ InsertReading(h) \/ LoseRace(h)
             \/ AnswerWinner(h) \/ UpsertStatus(h) \/ Fail(h) \/ Deliver(h)
      PROVE  AnswerInv'
  <2> USE DEF At, Goto
  <2>0. Shape /\ Claims BY DEF Inv
  <2>1. CASE \E r \in Posted : Receive(h, r)
    <3>1. pc'[h] = "received" BY <2>0, <2>1 DEF Receive, Shape
    <3> QED BY <1>1, <2>0, <2>1, <3>1 DEF Receive, Shape
  <2>2. CASE RefuseFuture(h)
    <3>1. answer'[h] \in [error : {"422"}] BY <2>0, <2>2 DEF RefuseFuture, Answer, Shape
    <3> QED BY <1>1, <2>0, <2>2, <3>1 DEF RefuseFuture, Answer, Shape
  <2>3. CASE FindExisting(h) \/ AnswerWinner(h)
    <3> DEFINE given == Response(readings[Key(posted[h])], Surplus(posted[h]), Demand(posted[h]), TRUE)
    <3>1. /\ UNCHANGED tableVars /\ UNCHANGED posted
          /\ \/ /\ Exists(Key(posted[h])) /\ pc' = [pc EXCEPT ![h] = "answered"]
                /\ answer' = [answer EXCEPT ![h] = given]
             \/ pc' = [pc EXCEPT ![h] = "inserting"] /\ UNCHANGED answer
      BY <2>0, <2>3 DEF FindExisting, AnswerWinner, AnswerDuplicate, Answer, Claims, tableVars
    <3> HIDE DEF given
    <3>2. /\ \A g \in Handlers \ {h} : pc'[g] = pc[g] /\ posted'[g] = posted[g] /\ answer'[g] = answer[g]
          /\ pc'[h] = "answered" => Exists(Key(posted[h])) /\ answer'[h] = given
      BY <2>0, <3>1 DEF Shape
    <3> QED BY <1>1, <3>1, <3>2 DEF given
  <2>4. CASE InsertReading(h) \/ LoseRace(h) \/ UpsertStatus(h)
    <3>1. pc'[h] # "answered" BY <2>0, <2>4 DEF InsertReading, LoseRace, UpsertStatus, Shape
    <3> QED BY <1>1, <2>0, <2>4, <3>1 DEF InsertReading, LoseRace, UpsertStatus, Shape, tableVars
  <2>5. CASE Fail(h) \/ Deliver(h)
    <3>1. pc'[h] # "answered" BY <2>0, <2>5 DEF Fail, Deliver, Shape
    <3> QED BY <1>1, <2>0, <2>5, <3>1 DEF Fail, Deliver, Shape
  <2> QED BY <1>3, <2>1, <2>2, <2>3, <2>4, <2>5
<1>4. ASSUME NEW h \in Handlers, Commit(h)
      PROVE  AnswerInv'
  <2>0. PICK r : r = posted[h] OBVIOUS
  <2>1. /\ r \in Posted /\ r \in Reading /\ ~ Exists(Key(r)) /\ Stored' = Stored \cup {r}
        /\ Shape /\ Key(r) \in Households \X Times
    BY <1>4, <2>0, CommitStores, ReadingFigures DEF Inv
  <2>2. /\ readings' = [readings EXCEPT ![Key(r)] = r]
        /\ pc' = [pc EXCEPT ![h] = "answered"] /\ posted' = posted
        /\ answer' = [answer EXCEPT ![h] = Response(r, Surplus(r), Demand(r), FALSE)]
    BY <1>4, <2>0 DEF Commit, Answer, Goto
  <2>3. ASSUME NEW g \in Handlers, pc'[g] = "answered"
        PROVE  \/ answer'[g] \in [error : {"422"}]
               \/ /\ Exists(Key(posted[g]))'
                  /\ \E d \in BOOLEAN :
                        answer'[g] = Response(readings'[Key(posted[g])],
                                              Surplus(posted[g]), Demand(posted[g]), d)
    <3>1. CASE g = h
      <4>1. answer'[g] = Response(r, Surplus(r), Demand(r), FALSE) BY <2>1, <2>2, <3>1 DEF Shape
      <4>2. readings'[Key(r)] = r BY <2>1, <2>2 DEF Shape
      <4>3. Exists(Key(posted[g]))' BY <2>0, <2>1, <2>2, <3>1, <4>2, NoneIsNoReading DEF Exists
      <4> QED BY <2>0, <3>1, <4>1, <4>2, <4>3
    <3>2. CASE g # h
      <4>1. pc[g] = "answered" /\ answer'[g] = answer[g] BY <2>1, <2>2, <2>3, <3>2 DEF Shape
      <4>2. CASE answer[g] \in [error : {"422"}] BY <4>1, <4>2
      <4>3. CASE Exists(Key(posted[g]))
        <5>1. Key(posted[g]) # Key(r) BY <2>1, <4>3
        <5>2. readings'[Key(posted[g])] = readings[Key(posted[g])]
          <6>1. Key(posted[g]) \in Households \X Times
            BY <2>1, <4>1, PostedReadings, ReadingFigures DEF Shape
          <6> QED BY <2>1, <2>2, <5>1, <6>1 DEF Shape
        <5>3. Exists(Key(posted[g]))' BY <2>2, <4>3, <5>2 DEF Exists
        <5> QED BY <4>1, <5>2, <5>3 DEF AnswerInv
      <4> QED BY <4>1, <4>2, <4>3 DEF AnswerInv
    <3> QED BY <3>1, <3>2
  <2>4. (Stored \subseteq Posted)' BY <2>1 DEF AnswerInv
  <2> QED BY <2>2, <2>3, <2>4 DEF AnswerInv
<1>5. CASE Tick BY <1>2, <1>5 DEF Tick
<1>6. CASE UNCHANGED vars BY <1>2, <1>6 DEF vars
<1> QED BY <1>3, <1>4, <1>5, <1>6 DEF Next, Work

(* Whoever posts a reading, first or again, before or after a lost race,   *)
(* is told of the reading that is stored (createReading).                  *)
THEOREM RepeatsAreAnsweredAlike == Spec => []RepeatsAnswerAlike
<1>1. Init => AnswerInv BY DEF Init, AnswerInv, Stored, Exists
<1>2. Inv /\ AnswerInv => RepeatsAnswerAlike
  <2> SUFFICES ASSUME Inv, AnswerInv, NEW h \in Handlers,
                      At(h, "answered"), "net" \in DOMAIN answer[h],
                      NEW row, row = readings[Key(posted[h])]
               PROVE  /\ row # None
                      /\ answer[h].net = Net(row) /\ answer[h].status = EnergyStatus(row)
                      /\ posted[h] = row => /\ answer[h].surplus = Surplus(row)
                                            /\ answer[h].demand = Demand(row)
    BY DEF RepeatsAnswerAlike
  <2>1. answer[h] \notin [error : {"422"}] OBVIOUS
  <2>2. row # None BY <2>1 DEF AnswerInv, At, Exists
  <2>3. PICK d \in BOOLEAN : answer[h] = Response(row, Surplus(posted[h]), Demand(posted[h]), d)
    BY <2>1 DEF AnswerInv, At
  <2>4. /\ answer[h].net = Net(row) /\ answer[h].status = EnergyStatus(row)
        /\ answer[h].surplus = Surplus(posted[h]) /\ answer[h].demand = Demand(posted[h])
    BY <2>3 DEF Response
  <2> QED BY <2>2, <2>4
<1> QED BY <1>1, <1>2, SpecInv, AnswerStep, PTL DEF Spec

-----------------------------------------------------------------------------
(***************************************************************************)
(* What the service tells its readers.                                     *)
(***************************************************************************)
(* What each column adds up, reading by reading. *)
Columns == {"readings", "production", "net", "surplus", "demand"}

Column == [readings |-> [r \in Reading |-> 1], production |-> [r \in Reading |-> r.production],
           net |-> [r \in Reading |-> Net(r)], surplus |-> [r \in Reading |-> Surplus(r)],
           demand |-> [r \in Reading |-> Demand(r)]]

LEMMA ColumnsCount ==
  ASSUME NEW r \in Reading
  PROVE  /\ Column.readings[r] = 1 /\ Column.production[r] = r.production
         /\ Column.net[r] = Net(r) /\ Column.surplus[r] = Surplus(r)
         /\ Column.demand[r] = Demand(r)
         /\ Net(r) \in Int /\ Surplus(r) \in Nat /\ Demand(r) \in Nat /\ r.production \in Nat
         /\ Net(r) = Surplus(r) - Demand(r)
         /\ Surplus(r) = IF Net(r) > 0 THEN Net(r) ELSE 0
         /\ Demand(r) = IF Net(r) < 0 THEN - Net(r) ELSE 0
<1>1. Net(r) \in Int
  BY DEF Net, Reading
<1> QED BY <1>1 DEF Column, Surplus, Demand, Clamp0, Reading

LEMMA ColumnsAreNumbers ==
  ASSUME NEW f \in Columns, NEW r \in Reading
  PROVE  Column[f][r] \in Int
BY ColumnsCount DEF Columns

(* A figure of some readings is the sum of its column. *)
LEMMA FiguresAreSums ==
  ASSUME NEW R, IsFiniteSet(R), R \subseteq Reading
  PROVE  /\ \A f \in Columns : Aggregates(R)[f] = SumOver(Column[f], R)
         /\ Aggregates(R).surplus - Aggregates(R).demand = Aggregates(R).net
<1>1. Aggregates(R).readings = SumOver(Column.readings, R)
  <2> DEFINE one == Column.readings
  <2>1. \A r \in R : one[r] = IF r \in R THEN 1 ELSE 0
    BY ColumnsCount
  <2> HIDE DEF one
  <2>2. SumOver(one, R) = Cardinality(R)
    BY <2>1, CountIsSum
  <2> QED BY <2>2 DEF Aggregates, one
<1>2. Aggregates(R).production = SumOver(Column.production, R)
  <2> DEFINE f == Column.production
             g == [r \in R |-> r.production]
  <2>1. \A r \in R : g[r] = f[r]
    BY ColumnsCount
  <2>2. DOMAIN g = R /\ Aggregates(R).production = SumFunction(g)
    BY DEF Aggregates
  <2> HIDE DEF f, g
  <2>3. SumFunction(g) = SumOver(f, R)
    BY <2>1, <2>2, SumFunctionIsSumOver, SumOverSame
  <2> QED BY <2>2, <2>3 DEF f
<1>3. Aggregates(R).net = SumOver(Column.net, R)
  <2> DEFINE f == Column.net
             g == [r \in R |-> Net(r)]
  <2>1. \A r \in R : g[r] = f[r]
    BY ColumnsCount
  <2>2. DOMAIN g = R /\ Aggregates(R).net = SumFunction(g)
    BY DEF Aggregates
  <2> HIDE DEF f, g
  <2>3. SumFunction(g) = SumOver(f, R)
    BY <2>1, <2>2, SumFunctionIsSumOver, SumOverSame
  <2> QED BY <2>2, <2>3 DEF f
<1>4. Aggregates(R).surplus = SumOver(Column.surplus, R)
  <2> DEFINE f == Column.surplus
             g == [r \in Positive(R) |-> Net(r)]
  <2>1. Positive(R) \in SUBSET R /\ IsFiniteSet(Positive(R))
    BY FS_Subset DEF Positive
  <2>2. \A r \in Positive(R) : g[r] = f[r]
    BY <2>1, ColumnsCount DEF Positive
  <2>3. \A r \in R : f[r] \in Int /\ (r \notin Positive(R) => f[r] = 0)
    BY ColumnsCount DEF Positive
  <2>4. DOMAIN g = Positive(R) /\ Aggregates(R).surplus = SumFunction(g)
    BY DEF Aggregates
  <2> HIDE DEF f, g
  <2>5. SumFunction(g) = SumOver(f, Positive(R))
    BY <2>1, <2>2, <2>4, SumFunctionIsSumOver, SumOverSame
  <2>6. SumOver(f, R) = SumOver(f, Positive(R))
    BY ONLY IsFiniteSet(R), <2>1, <2>3, SumOverSome
  <2> QED BY <2>4, <2>5, <2>6 DEF f
<1>5. Aggregates(R).demand = SumOver(Column.demand, R)
  <2> DEFINE f == Column.demand
             g == [r \in Negative(R) |-> Net(r)]
             zero == [r \in R |-> 0]
  <2>1. Negative(R) \in SUBSET R /\ IsFiniteSet(Negative(R))
    BY FS_Subset DEF Negative
  <2>2. \A r \in Negative(R) : g[r] \in Int /\ zero[r] \in Int /\ f[r] = zero[r] - g[r]
    BY <2>1, ColumnsCount DEF Negative
  <2>3. \A r \in R : f[r] \in Int /\ (r \notin Negative(R) => f[r] = 0)
    BY ColumnsCount DEF Negative
  <2>4. DOMAIN g = Negative(R) /\ Aggregates(R).demand = - SumFunction(g)
    BY DEF Aggregates
  <2>5. \A r \in Negative(R) : zero[r] = 0
    BY <2>1
  <2> HIDE DEF f, g, zero
  <2>6. SumFunction(g) = SumOver(g, Negative(R))
    BY <2>4, SumFunctionIsSumOver
  <2>7. SumOver(f, Negative(R)) = SumOver(zero, Negative(R)) - SumOver(g, Negative(R))
    BY ONLY <2>1, <2>2, SumOverMinus
  <2>8. SumOver(zero, Negative(R)) = 0
    BY <2>1, <2>5, SumOverNothing
  <2>9. SumOver(f, R) = SumOver(f, Negative(R))
    BY ONLY IsFiniteSet(R), <2>1, <2>3, SumOverSome
  <2>10. SumOver(g, Negative(R)) \in Int
    BY <2>1, <2>2, SumOverType
  <2> QED BY <2>4, <2>6, <2>7, <2>8, <2>9, <2>10 DEF f
<1>6. SumOver(Column.net, R) = SumOver(Column.surplus, R) - SumOver(Column.demand, R)
  <2> DEFINE n == Column.net
             p == Column.surplus
             m == Column.demand
  <2>1. \A r \in R : p[r] \in Int /\ m[r] \in Int /\ n[r] = p[r] - m[r]
    BY ColumnsCount
  <2> HIDE DEF n, p, m
  <2>2. SumOver(n, R) = SumOver(p, R) - SumOver(m, R)
    BY ONLY IsFiniteSet(R), <2>1, SumOverMinus
  <2> QED BY <2>2 DEF n, p, m
<1> QED BY <1>1, <1>2, <1>3, <1>4, <1>5, <1>6 DEF Columns

(* rows[s] are the figures of the readings on side s of a division. *)
Divides(rows, side, R, S) ==
    /\ \A r \in R : side[r] \in S
    /\ \A s \in S : rows[s] = Aggregates({r \in R : side[r] = s})

LEMMA RowsAddUp ==
  ASSUME NEW R, IsFiniteSet(R), R \subseteq Reading, NEW S, IsFiniteSet(S),
         NEW rows, DOMAIN rows = S, NEW side, Divides(rows, side, R, S), NEW f \in Columns
  PROVE  Aggregates(R)[f] = Added(rows, f)
<1> DEFINE amount == Column[f]
           shares == [s \in DOMAIN rows |-> rows[s][f]]
<1>1. \A r \in R : amount[r] \in Int /\ side[r] \in S
  BY ColumnsAreNumbers DEF Divides
<1>2. \A s \in S : shares[s] = SumOver(amount, {r \in R : side[r] = s})
  <2> SUFFICES ASSUME NEW s \in S PROVE shares[s] = SumOver(amount, {r \in R : side[r] = s})
    OBVIOUS
  <2> DEFINE part == {r \in R : side[r] = s}
  <2>1. part \in SUBSET R /\ IsFiniteSet(part) /\ part \subseteq Reading
    BY FS_Subset
  <2>2. shares[s] = Aggregates(part)[f]
    BY DEF Divides
  <2> HIDE DEF part
  <2>3. Aggregates(part)[f] = SumOver(Column[f], part)
    BY <2>1, FiguresAreSums
  <2> HIDE DEF shares
  <2> QED BY <2>2, <2>3 DEF part
<1>3. DOMAIN shares = S
  OBVIOUS
<1>4. Aggregates(R)[f] = SumOver(amount, R)
  BY FiguresAreSums
<1> HIDE DEF amount, shares
<1>5. Shares(shares, amount, side, R, S)
  BY <1>1, <1>2 DEF Shares
<1>6. SumOver(shares, S) = SumOver(amount, R)
  BY <1>5, SharesAddUp
<1>7. FoldFunction(+, 0, shares) = SumOver(shares, S)
  BY <1>3, FoldFunctionIsSumOver
<1>8. Aggregates(R)[f] = FoldFunction(+, 0, shares)
  BY <1>4, <1>6, <1>7
<1> QED BY <1>8 DEF shares, Added

-----------------------------------------------------------------------------
LEMMA StoredAreFinite ==
  ASSUME Shape
  PROVE  /\ IsFiniteSet(Stored) /\ Stored \subseteq Reading
         /\ \A r \in Stored : r.household \in Households /\ r.time \in 0 .. Hours - 1
         /\ In(Everything) = Stored
         /\ \A w : In(w) \subseteq Stored
<1>1. Stored \subseteq Reading
  BY StoredReadings
<1>2. \A r \in Reading : r.household \in Households /\ r.time \in Times
  BY DEF Reading
<1>3. \A r \in Stored : r.household \in Households /\ r.time \in 0 .. Hours - 1
  BY <1>1, <1>2, StatisticsAssumption
<1>4. In(Everything) = Stored
  <2>1. \A r \in Stored : InWindow(Everything, r.time)
    BY <1>3, WindowsAssumption DEF InWindow, Everything
  <2> QED BY <2>1 DEF In, Stored
<1>5. \A w : In(w) \subseteq Stored
  BY DEF In, Stored
<1>6. IsFiniteSet(Stored)
  <2> DEFINE Keys == Households \X Times
             all == {readings[k] : k \in Keys}
  <2>1. IsFiniteSet(Times)
    <3>1. IsFiniteSet(0 .. Hours - 1)
      BY WindowsAssumption, FS_Interval
    <3> QED BY <3>1, StatisticsAssumption, FS_Subset
  <2>2. IsFiniteSet(Keys)
    BY <2>1, StatisticsAssumption, FS_Product
  <2> HIDE DEF Keys
  <2>3. IsFiniteSet(all)
    BY <2>2, ImageIsFinite
  <2>4. Stored \in SUBSET all
    BY DEF Stored, Shape, Keys
  <2> QED BY <2>3, <2>4, FS_Subset
<1> QED BY <1>1, <1>3, <1>4, <1>5, <1>6

(* The households' rows and the buckets each divide the readings of a window. *)
LEMMA StoredFiguresAgree ==
  ASSUME Shape
  PROVE  FiguresAgree
<1> SUFFICES ASSUME NEW w \in Windows
    PROVE LET summary == Summary(w)
              rows == HouseholdRows(w)
              trend == Trend(w)
          IN  /\ \A f \in {"readings", "production", "net", "surplus", "demand"} :
                    summary[f] = Added(rows, f) /\ summary[f] = Added(trend, f)
              /\ summary.surplus - summary.demand = summary.net
  BY DEF FiguresAgree
<1> DEFINE R == In(w)
           rows == HouseholdRows(w)
           trend == Trend(w)
           household == [r \in Reading |-> r.household]
           time == [r \in Reading |-> r.time]
<1>1. R \subseteq Reading /\ IsFiniteSet(R)
  BY StoredAreFinite, FS_Subset
<1>2. w.from \in Nat /\ w.to \in Nat /\ IsFiniteSet(w.from .. w.to - 1)
  <2>1. w.from \in Nat /\ w.to \in Nat
    BY WindowsAssumption DEF Windows
  <2>2. w.from \in Int /\ w.to - 1 \in Int
    BY <2>1
  <2> QED BY <2>1, <2>2, FS_Interval
<1>3. \A r \in R : /\ household[r] = r.household /\ time[r] = r.time
                   /\ r.household \in HouseholdsIn(R) /\ r.time \in w.from .. w.to - 1
  <2>1. \A r \in R : r.time \in Nat /\ InWindow(w, r.time)
    BY StoredAreFinite, WindowsAssumption DEF In
  <2> QED BY <1>1, <1>2, <2>1 DEF InWindow, HouseholdsIn
<1>4. IsFiniteSet(HouseholdsIn(R))
  <2>1. HouseholdsIn(R) \in SUBSET Households
    BY <1>1 DEF HouseholdsIn, Reading
  <2> QED BY <2>1, StatisticsAssumption, FS_Subset
<1>5. Divides(rows, household, R, HouseholdsIn(R)) /\ DOMAIN rows = HouseholdsIn(R)
  <2>1. \A h \in HouseholdsIn(R) : Of(R, h) = {r \in R : household[r] = h}
    BY <1>3 DEF Of
  <2> QED BY <1>3, <2>1 DEF Divides, HouseholdRows
<1>6. Divides(trend, time, R, w.from .. w.to - 1) /\ DOMAIN trend = w.from .. w.to - 1
  <2>1. \A t \in w.from .. w.to - 1 : {r \in R : r.time = t} = {r \in R : time[r] = t}
    BY <1>3
  <2> QED BY <1>3, <2>1 DEF Divides, Trend
<1> HIDE DEF rows, trend, household, time, R
<1>7. ASSUME NEW f \in Columns
      PROVE  Aggregates(R)[f] = Added(rows, f) /\ Aggregates(R)[f] = Added(trend, f)
  BY <1>1, <1>2, <1>4, <1>5, <1>6, RowsAddUp
<1>8. Aggregates(R).surplus - Aggregates(R).demand = Aggregates(R).net
  BY <1>1, FiguresAreSums
<1>9. Summary(w) = Aggregates(R)
  BY DEF Summary, R
<1> QED BY <1>7, <1>8, <1>9 DEF Columns, rows, trend

LEMMA LatestIsMax ==
  ASSUME NEW S \in SUBSET Nat, NEW m \in S, \A t \in S : t <= m
  PROVE  Max(S) = m
<1>1. \A x \in S : x \in Nat /\ (x >= m => x = m)
  OBVIOUS
<1>2. \A x \in S : (\A t \in S : x >= t) <=> x = m
  BY <1>1
<1> QED BY <1>2 DEF Max

(* A household's status row is of its newest reading. *)
LEMMA ReportedHaveReadings ==
  ASSUME Inv
  PROVE  ReportedIsMeasured
<1>1. In(Everything) = Stored /\ Stored \subseteq Reading
      /\ \A r \in Stored : r.household \in Households /\ r.time \in Nat
  BY StoredAreFinite, WindowsAssumption DEF Inv
<1>2. \A r \in Stored : StatusRow(r) # None /\ StatusRow(r).at = r.time
  BY <1>1, ReadingFigures, NoneIsNoStatus DEF StatusRow
<1>3. \A h \in Households : (status[h] # None) <=> \E r \in Stored : r.household = h
  BY <1>2 DEF Inv, NewestStatus, Newest
<1>4. Reported = HouseholdsIn(Stored)
  BY <1>1, <1>3 DEF Reported, HouseholdsIn
<1>5. ASSUME NEW h \in Reported
      PROVE  status[h].at = Max({r.time : r \in Of(Stored, h)})
  <2>1. h \in Households /\ status[h] # None
    BY DEF Reported
  <2>2. PICK r \in Stored : Newest(h, r) /\ status[h] = StatusRow(r)
    BY <2>1 DEF Inv, NewestStatus
  <2> DEFINE times == {x.time : x \in Of(Stored, h)}
  <2>3. r.time \in times /\ times \subseteq Nat /\ \A t \in times : t <= r.time
    BY <1>1, <2>2 DEF Newest, Of
  <2> HIDE DEF times
  <2>4. Max(times) = r.time
    BY <2>3, LatestIsMax
  <2> QED BY <1>2, <2>2, <2>4 DEF times
<1> QED BY <1>1, <1>4, <1>5 DEF ReportedIsMeasured

-----------------------------------------------------------------------------
(* The two lists, page by page.  What the rows of a list are ordered by,   *)
(* and which household stands ahead of which.                              *)
Rank == [h \in Reported |-> IF listing.list = "active" THEN status[h].at ELSE ProductionOf(h)]

Ahead == {p \in Reported \X Reported :
             \/ Rank[p[1]] > Rank[p[2]]
             \/ Rank[p[1]] = Rank[p[2]] /\ HouseholdNo[p[1]] < HouseholdNo[p[2]]}

RanksKnown ==
    /\ IsFiniteSet(Reported) /\ Reported \subseteq Households
    /\ IsFiniteSet(Stored) /\ Stored \subseteq Reading
    /\ \A h \in Reported :
          Rank[h] = IF listing.list = "active" THEN status[h].at
                    ELSE SumOver(Column.production, Of(Stored, h))
    /\ \A h \in Reported : Rank[h] \in Nat
    /\ \A h \in Reported : status[h] \in StatusRows

(* A household that sent nothing and is on no page yet stands on the n-th  *)
(* or a later one.                                                         *)
Waiting(n) ==
    \A h \in listing.quiet : h \in listing.shown \/ Place(Ahead, Reported, h) >= n * PageSize

ListingInv ==
    /\ listing # Idle =>
          /\ listing = [at |-> listing.at, list |-> listing.list, page |-> listing.page,
                        shown |-> listing.shown, quiet |-> listing.quiet]
          /\ listing.at \in {"rows", "total", "done"}
          /\ listing.page \in Nat \ {0}
          /\ listing.quiet \subseteq Reported
    /\ listing.at = "rows" => Waiting(listing.page - 1)
    /\ listing.at = "total" => Waiting(listing.page)
    /\ listing.at = "done" => listing.quiet \subseteq listing.shown

LEMMA RanksAreKnown == Inv => RanksKnown
<1> SUFFICES ASSUME Inv PROVE RanksKnown
  OBVIOUS
<1>1. Reported \subseteq Households /\ IsFiniteSet(Reported)
  <2>1. Reported \subseteq Households
    BY DEF Reported
  <2> QED BY <2>1, StatisticsAssumption, FS_Subset
<1>2. IsFiniteSet(Stored) /\ Stored \subseteq Reading /\ In(Everything) = Stored
  BY StoredAreFinite DEF Inv
<1>3. \A h \in Reported : status[h] \in StatusRows
  BY DEF Reported, Inv, Shape
<1>4. \A h \in Reported : /\ ProductionOf(h) = SumOver(Column.production, Of(Stored, h))
                          /\ ProductionOf(h) \in Nat
  <2> SUFFICES ASSUME NEW h \in Reported
               PROVE  /\ ProductionOf(h) = SumOver(Column.production, Of(Stored, h))
                      /\ ProductionOf(h) \in Nat
    OBVIOUS
  <2> DEFINE own == Of(Stored, h)
             f == Column.production
  <2>1. IsFiniteSet(own) /\ own \subseteq Reading
    BY <1>2, FS_Subset DEF Of
  <2>2. \A r \in own : f[r] \in Nat
    BY <2>1, ColumnsCount
  <2>3. ProductionOf(h) = Aggregates(own).production
    BY <1>2 DEF ProductionOf
  <2> HIDE DEF own
  <2>4. Aggregates(own).production = SumOver(f, own)
    BY <2>1, FiguresAreSums DEF Columns
  <2> HIDE DEF f
  <2>5. SumOver(f, own) \in Nat
    BY <2>1, <2>2, SumOverNatural
  <2> QED BY <2>3, <2>4, <2>5 DEF f, own
<1> QED BY <1>1, <1>2, <1>3, <1>4 DEF RanksKnown, Rank, StatusRows

LEMMA RowsAreInOrder ==
  ASSUME RanksKnown, In(Everything) = Stored, Reported = HouseholdsIn(Stored)
  PROVE  /\ Rows(listing.list) = InOrder(Ahead, Reported)
         /\ TellsApart(Ahead, Reported) /\ IsFiniteSet(Reported)
<1> DEFINE S == Reported
<1>1. TellsApart(Ahead, Reported)
  <2>1. \A h \in Reported : Rank[h] \in Nat /\ HouseholdNo[h] \in Nat
    BY StatisticsAssumption DEF RanksKnown
  <2>2. \A g, h \in Reported : g # h => HouseholdNo[g] # HouseholdNo[h]
    BY StatisticsAssumption DEF IsInjective, RanksKnown
  <2>3. \A g, h \in Reported : <<g, h>> \in Ahead <=>
            (Rank[g] > Rank[h] \/ (Rank[g] = Rank[h] /\ HouseholdNo[g] < HouseholdNo[h]))
    BY DEF Ahead
  <2> QED BY <2>1, <2>2, <2>3 DEF TellsApart
<1>2. \A h \in S : Place(Ahead, S, h)
                     = Cardinality({g \in S : \/ Rank[g] > Rank[h]
                                              \/ Rank[g] = Rank[h] /\ HouseholdNo[g] < HouseholdNo[h]})
  <2>1. \A h \in S : {g \in S : <<g, h>> \in Ahead}
                       = {g \in S : \/ Rank[g] > Rank[h]
                                    \/ Rank[g] = Rank[h] /\ HouseholdNo[g] < HouseholdNo[h]}
    BY DEF Ahead
  <2> QED BY <2>1 DEF Place
<1>3. CASE listing.list = "active"
  <2>1. \A h \in S : Rank[h] = status[h].at
    BY <1>3 DEF Rank
  <2>2. \A h \in S : Cardinality({g \in S : \/ status[g].at > status[h].at
                                            \/ status[g].at = status[h].at /\ HouseholdNo[g] < HouseholdNo[h]})
                     = Place(Ahead, S, h)
    <3>1. \A h \in S : {g \in S : \/ status[g].at > status[h].at
                                  \/ status[g].at = status[h].at /\ HouseholdNo[g] < HouseholdNo[h]}
                       = {g \in S : \/ Rank[g] > Rank[h]
                                    \/ Rank[g] = Rank[h] /\ HouseholdNo[g] < HouseholdNo[h]}
      BY <2>1
    <3> QED BY <1>2, <3>1
  <2>3. Rows(listing.list)
          = [n \in 1 .. Cardinality(S) |-> CHOOSE h \in S :
               Cardinality({g \in S : \/ status[g].at > status[h].at
                                      \/ status[g].at = status[h].at /\ HouseholdNo[g] < HouseholdNo[h]})
                 = n - 1]
    BY <1>3 DEF Rows, MostRecentFirst, Sorted, Ordered
  <2>4. \A n \in 1 .. Cardinality(S) :
          (CHOOSE h \in S :
               Cardinality({g \in S : \/ status[g].at > status[h].at
                                      \/ status[g].at = status[h].at /\ HouseholdNo[g] < HouseholdNo[h]})
                 = n - 1)
          = CHOOSE h \in S : Place(Ahead, S, h) = n - 1
    BY <2>2
  <2>5. Rows(listing.list) = InOrder(Ahead, S)
    BY <2>3, <2>4 DEF InOrder
  <2> QED BY <1>1, <2>5 DEF RanksKnown
<1>4. CASE listing.list # "active"
  <2>1. \A h \in S : Rank[h] = ProductionOf(h)
    BY <1>4 DEF Rank
  <2>2. \A h \in S : Cardinality({g \in S : \/ ProductionOf(g) > ProductionOf(h)
                                            \/ ProductionOf(g) = ProductionOf(h) /\ HouseholdNo[g] < HouseholdNo[h]})
                     = Place(Ahead, S, h)
    <3>1. \A h \in S : {g \in S : \/ ProductionOf(g) > ProductionOf(h)
                                  \/ ProductionOf(g) = ProductionOf(h) /\ HouseholdNo[g] < HouseholdNo[h]}
                       = {g \in S : \/ Rank[g] > Rank[h]
                                    \/ Rank[g] = Rank[h] /\ HouseholdNo[g] < HouseholdNo[h]}
      BY <2>1
    <3> QED BY <1>2, <3>1
  <2>3. Rows(listing.list)
          = [n \in 1 .. Cardinality(S) |-> CHOOSE h \in S :
               Cardinality({g \in S : \/ ProductionOf(g) > ProductionOf(h)
                                      \/ ProductionOf(g) = ProductionOf(h) /\ HouseholdNo[g] < HouseholdNo[h]})
                 = n - 1]
    <3>1. S = HouseholdsIn(In(Everything))
      OBVIOUS
    <3> HIDE DEF S
    <3> QED BY <1>4, <3>1 DEF Rows, BiggestProducerFirst, Sorted, Ordered
  <2>4. \A n \in 1 .. Cardinality(S) :
          (CHOOSE h \in S :
               Cardinality({g \in S : \/ ProductionOf(g) > ProductionOf(h)
                                      \/ ProductionOf(g) = ProductionOf(h) /\ HouseholdNo[g] < HouseholdNo[h]})
                 = n - 1)
          = CHOOSE h \in S : Place(Ahead, S, h) = n - 1
    BY <2>2
  <2>5. Rows(listing.list) = InOrder(Ahead, S)
    BY <2>3, <2>4 DEF InOrder
  <2> QED BY <1>1, <2>5 DEF RanksKnown
<1> QED BY <1>3, <1>4

LEMMA OwnReadings ==
  ASSUME NEW R, NEW r, NEW h
  PROVE  Of(R \cup {r}, h) = IF r.household = h THEN Of(R, h) \cup {r} ELSE Of(R, h)
BY DEF Of

(* A commit raises the rank of the household that reported, and leaves     *)
(* those of the others as they are.                                        *)
SendsNothing(h) == \A k \in DOMAIN readings : k[1] = h => readings'[k] = readings[k]

LEMMA RanksOnlyGrow ==
  ASSUME Inv, RanksKnown, RanksKnown', [Next]_vars, listing'.list = listing.list
  PROVE  /\ Reported \subseteq Reported'
         /\ \A h \in Reported : Rank'[h] >= Rank[h]
         /\ \A h \in Reported : SendsNothing(h) => Rank'[h] = Rank[h]
<1> DEFINE f == Column.production
<1>1. CASE UNCHANGED tableVars
  <2>1. Reported' = Reported /\ Stored' = Stored /\ status' = status
    BY <1>1 DEF tableVars, Reported, Stored, Exists
  <2>2. \A h \in Reported : Rank'[h] = Rank[h] /\ Rank[h] \in Nat
    BY <2>1 DEF RanksKnown
  <2> QED BY <2>1, <2>2
<1>2. ASSUME NEW c \in Handlers, Commit(c)
      PROVE  /\ Reported \subseteq Reported'
             /\ \A h \in Reported : Rank'[h] >= Rank[h] /\ (SendsNothing(h) => Rank'[h] = Rank[h])
  <2> DEFINE r == posted[c]
  <2>1. r \in Reading /\ ~ Exists(Key(r)) /\ Stored' = Stored \cup {r} /\ Shape
    BY <1>2, CommitStores DEF Inv
  <2>2. /\ readings' = [readings EXCEPT ![Key(r)] = r]
        /\ status' = [status EXCEPT ![r.household] = StatusAfter(r)]
    BY <1>2 DEF Commit
  <2> HIDE DEF r, f
  <2>3. r.household \in Households /\ Key(r) \in Households \X Times /\ Key(r)[1] = r.household
        /\ StatusRow(r) # None /\ StatusRow(r).at = r.time /\ r.time \in Nat
    BY <2>1, ReadingFigures, NoneIsNoStatus, PostedReadings DEF Key, StatusRow, Reading
  <2>4. \A h \in Households : h # r.household => status'[h] = status[h]
    BY <2>2, <2>1 DEF Shape
  <2>5. status'[r.household] = StatusAfter(r)
    BY <2>1, <2>2, <2>3 DEF Shape
  <2>6. Reported \subseteq Reported'
    BY <2>3, <2>4, <2>5 DEF Reported, StatusAfter
  <2>7. \A h \in Reported : SendsNothing(h) => h # r.household
    <3>1. readings'[Key(r)] = r /\ Key(r) \in DOMAIN readings /\ readings[Key(r)] = None /\ r # None
      BY <2>1, <2>2, <2>3, NoneIsNoReading DEF Shape, Exists
    <3> QED BY <2>3, <3>1 DEF SendsNothing
  <2>8. ASSUME NEW h \in Reported
        PROVE  Rank'[h] >= Rank[h] /\ (h # r.household => Rank'[h] = Rank[h])
    <3>1. h \in Households /\ h \in Reported' /\ status[h] \in StatusRows /\ status[h].at \in Nat
      BY <2>6 DEF RanksKnown, StatusRows
    <3>2. CASE listing.list = "active"
      <4>1. Rank[h] = status[h].at /\ Rank'[h] = status'[h].at
        BY <3>1, <3>2 DEF RanksKnown
      <4>2. status'[h].at >= status[h].at
        <5>1. CASE h = r.household
          <6>1. status[h] # None /\ status'[h] = StatusAfter(r)
            BY <2>5, <5>1 DEF Reported
          <6>2. CASE status[h].at < r.time
            BY <2>3, <3>1, <5>1, <6>1, <6>2 DEF StatusAfter
          <6>3. CASE ~ (status[h].at < r.time)
            BY <3>1, <5>1, <6>1, <6>3 DEF StatusAfter
          <6> QED BY <6>2, <6>3
        <5>2. CASE h # r.household
          BY <2>4, <3>1, <5>2
        <5> QED BY <5>1, <5>2
      <4> QED BY <2>4, <3>1, <4>1, <4>2
    <3>3. CASE listing.list # "active"
      <4> DEFINE own == Of(Stored, h)
      <4>1. Rank[h] = SumOver(f, own) /\ Rank'[h] = SumOver(f, Of(Stored', h))
        BY <3>1, <3>3 DEF RanksKnown, f
      <4>2. Of(Stored', h) = IF r.household = h THEN own \cup {r} ELSE own
        BY <2>1, OwnReadings
      <4>3. IsFiniteSet(own) /\ r \notin own /\ f[r] \in Nat /\ \A x \in own : f[x] \in Int
        <5>1. IsFiniteSet(own) /\ own \subseteq Reading
          BY FS_Subset DEF Of, RanksKnown
        <5>2. r \notin Stored
          BY <2>1, StoredReadings
        <5> QED BY <2>1, <5>1, <5>2, ColumnsCount DEF Of, f
      <4> HIDE DEF own
      <4>4. SumOver(f, own \cup {r}) = f[r] + SumOver(f, own)
        BY <4>3, SumOverAdd
      <4>5. SumOver(f, own) \in Int
        BY <4>3, SumOverType
      <4> QED BY <4>1, <4>2, <4>3, <4>4, <4>5
    <3> QED BY <3>2, <3>3
  <2> QED BY <2>6, <2>7, <2>8
<1>3. ASSUME Next, ~ UNCHANGED tableVars PROVE \E c \in Handlers : Commit(c)
  BY <1>3 DEF Next, Tick, Receive, Work, RefuseFuture, FindExisting, InsertReading, LoseRace,
              AnswerWinner, UpsertStatus, Fail, Deliver
<1>4. UNCHANGED vars => UNCHANGED tableVars
  BY DEF vars
<1> QED BY <1>1, <1>2, <1>3, <1>4

(* So one that sends nothing only ever moves down the list.                *)
LEMMA QuietStay ==
  ASSUME Inv, RanksKnown, RanksKnown', [Next]_vars, listing'.list = listing.list,
         NEW h \in Reported, SendsNothing(h)
  PROVE  /\ Place(Ahead, Reported, h) \in Nat /\ Place(Ahead', Reported', h) \in Nat
         /\ Place(Ahead, Reported, h) <= Place(Ahead', Reported', h)
<1>1. /\ Reported \subseteq Reported' /\ IsFiniteSet(Reported')
      /\ \A g \in Reported : Rank'[g] \in Nat /\ Rank[g] \in Nat /\ Rank'[g] >= Rank[g]
      /\ Rank'[h] = Rank[h]
  BY RanksOnlyGrow DEF RanksKnown
<1>2. \A g \in Reported : HouseholdNo[g] \in Nat
  BY StatisticsAssumption DEF RanksKnown
<1>3. \A g \in Reported : <<g, h>> \in Ahead => g \in Reported' /\ <<g, h>> \in Ahead'
  BY <1>1, <1>2 DEF Ahead
<1> QED BY <1>1, <1>3, PlacesOnlyGrow

LEMMA TablesAndRanks ==
  ASSUME UNCHANGED vars, listing'.list = listing.list
  PROVE  Reported' = Reported /\ Ahead' = Ahead
<1>1. Reported' = Reported /\ Rank' = Rank
  BY DEF vars, tableVars, Reported, Rank, ProductionOf, In, Exists
<1> QED BY <1>1 DEF Ahead

LEMMA ReadingStepKeeps ==
  ASSUME Inv, RanksKnown, RanksKnown', ListingInv, ReadingStep
  PROVE  ListingInv'
<1>1. CASE listing.at \notin {"rows", "total"}
  <2>1. listing' = listing
    BY <1>1 DEF ReadingStep
  <2>2. listing = Idle \/ listing.at = "done"
    BY <1>1 DEF ListingInv
  <2>3. Reported \subseteq Reported'
    BY <2>1, RanksOnlyGrow DEF ReadingStep
  <2>4. listing.at = "done" => /\ listing # Idle /\ listing.quiet \subseteq listing.shown
    BY DEF ListingInv, Idle
  <2>5. Idle.at = "idle"
    BY DEF Idle
  <2> QED BY <1>1, <2>1, <2>2, <2>3, <2>4, <2>5 DEF ListingInv
<1>2. CASE listing.at \in {"rows", "total"}
  <2> DEFINE still == {h \in listing.quiet : SendsNothing(h)}
  <2>1. listing # Idle
    BY <1>2 DEF Idle
  <2>2. listing' = [listing EXCEPT !.quiet = still]
    BY <1>2 DEF ReadingStep, SendsNothing
  <2>3. /\ listing = [at |-> listing.at, list |-> listing.list, page |-> listing.page,
                      shown |-> listing.shown, quiet |-> listing.quiet]
        /\ listing.page \in Nat \ {0} /\ listing.quiet \subseteq Reported
    BY <2>1 DEF ListingInv
  <2> HIDE DEF still
  <2>4. /\ listing' = [at |-> listing.at, list |-> listing.list, page |-> listing.page,
                       shown |-> listing.shown, quiet |-> still]
    BY <2>2, <2>3
  <2>5. /\ listing'.at = listing.at /\ listing'.list = listing.list /\ listing'.page = listing.page
        /\ listing'.shown = listing.shown /\ listing'.quiet = still
    BY <2>4
  <2>6. Reported \subseteq Reported'
    BY <2>5, RanksOnlyGrow DEF ReadingStep
  <2>7. \A h \in still : /\ h \in listing.quiet /\ h \in Reported
                         /\ Place(Ahead, Reported, h) \in Nat
                         /\ Place(Ahead', Reported', h) \in Nat
                         /\ Place(Ahead, Reported, h) <= Place(Ahead', Reported', h)
    BY <2>3, <2>5, QuietStay DEF ReadingStep, still
  <2>8. \A n \in Nat : Waiting(n) => \A h \in still : h \in listing.shown
                                        \/ Place(Ahead', Reported', h) >= n * PageSize
    <3>1. \A n \in Nat : n * PageSize \in Nat
      BY WindowsAssumption
    <3> QED BY <2>7, <3>1 DEF Waiting
  <2>9. CASE listing.at = "rows"
    <3>1. Waiting(listing.page - 1) /\ listing.page - 1 \in Nat
      BY <2>3, <2>9 DEF ListingInv
    <3>2. Waiting(listing.page - 1)'
      BY <2>5, <2>8, <3>1 DEF Waiting
    <3> QED BY <2>4, <2>5, <2>6, <2>7, <2>9, <2>3, <3>2 DEF ListingInv
  <2>10. CASE listing.at = "total"
    <3>1. Waiting(listing.page) /\ listing.page \in Nat
      BY <2>3, <2>10 DEF ListingInv
    <3>2. Waiting(listing.page)'
      BY <2>5, <2>8, <3>1 DEF Waiting
    <3> QED BY <2>4, <2>5, <2>6, <2>7, <2>10, <2>3, <3>2 DEF ListingInv
  <2> QED BY <1>2, <2>9, <2>10
<1> QED BY <1>1, <1>2

LEMMA BeginListingKeeps ==
  ASSUME Inv, RanksKnown', NEW l \in Reads, BeginListing(l)
  PROVE  ListingInv'
<1>1. listing' = [at |-> "rows", list |-> l, page |-> 1, shown |-> {}, quiet |-> Reported]
      /\ Reported' = Reported
  BY DEF BeginListing, List, vars, tableVars, Reported
<1>2. /\ listing'.at = "rows" /\ listing'.page = 1 /\ listing'.quiet = Reported
      /\ listing'.page - 1 = 0
  BY <1>1
<1>3. \A h \in Reported' : Place(Ahead', Reported', h) >= 0
  <2>1. \A h \in Reported' : IsFiniteSet({g \in Reported' : <<g, h>> \in Ahead'})
    BY FS_Subset DEF RanksKnown
  <2> QED BY <2>1, FS_CardinalityType DEF Place
<1>4. 0 * PageSize = 0
  BY WindowsAssumption
<1>5. Waiting(listing.page - 1)'
  BY <1>1, <1>2, <1>3, <1>4 DEF Waiting
<1> QED BY <1>1, <1>2, <1>5 DEF ListingInv

LEMMA ListingRowsKeeps ==
  ASSUME Inv, RanksKnown, ListingInv, ListingRows
  PROVE  ListingInv'
<1> DEFINE rows == Rows(listing.list)
           here == PageOf(rows, listing.page)
<1>1. listing # Idle /\ listing.at = "rows"
  BY DEF ListingRows, Idle
<1>2. /\ listing = [at |-> listing.at, list |-> listing.list, page |-> listing.page,
                    shown |-> listing.shown, quiet |-> listing.quiet]
      /\ listing.page \in Nat \ {0} /\ listing.quiet \subseteq Reported /\ Waiting(listing.page - 1)
  BY <1>1 DEF ListingInv
<1>3. listing' = [listing EXCEPT !.at = "total", !.shown = @ \cup ToSet(here)]
  BY DEF ListingRows, List
<1>4. rows = InOrder(Ahead, Reported) /\ TellsApart(Ahead, Reported) /\ IsFiniteSet(Reported)
  BY RowsAreInOrder, StoredAreFinite, ReportedHaveReadings DEF Inv, ReportedIsMeasured
<1>5. here = PageIn(InOrder(Ahead, Reported), PageSize, listing.page)
  BY <1>4 DEF PageOf, PageIn
<1> HIDE DEF here, rows
<1>6. /\ listing' = [at |-> "total", list |-> listing.list, page |-> listing.page,
                     shown |-> listing.shown \cup ToSet(here), quiet |-> listing.quiet]
  BY <1>2, <1>3
<1>7. /\ listing'.at = "total" /\ listing'.list = listing.list /\ listing'.page = listing.page
      /\ listing'.shown = listing.shown \cup ToSet(here) /\ listing'.quiet = listing.quiet
  BY <1>6
<1>8. Reported' = Reported /\ Ahead' = Ahead
  BY <1>7, TablesAndRanks DEF ListingRows, List
<1>9. ASSUME NEW h \in listing.quiet
      PROVE  h \in listing'.shown \/ Place(Ahead, Reported, h) >= listing.page * PageSize
  <2>1. h \in Reported /\ Place(Ahead, Reported, h) \in Nat /\ listing.page * PageSize \in Nat
    BY <1>2, <1>4, PlaceBounds, WindowsAssumption
  <2>2. CASE h \in listing.shown
    BY <1>7, <2>2
  <2>3. CASE /\ Place(Ahead, Reported, h) >= (listing.page - 1) * PageSize
             /\ Place(Ahead, Reported, h) < listing.page * PageSize
    <3>1. \E i \in DOMAIN here : here[i] = h
      BY <1>2, <1>4, <1>5, <2>1, <2>3, OnItsPage, WindowsAssumption
    <3>2. h \in ToSet(here)
      BY <3>1 DEF ToSet
    <3> QED BY <1>7, <3>2
  <2> QED BY <1>2, <2>1, <2>2, <2>3 DEF Waiting
<1>10. Waiting(listing.page)'
  BY <1>7, <1>8, <1>9 DEF Waiting
<1> QED BY <1>2, <1>6, <1>7, <1>8, <1>10 DEF ListingInv

LEMMA ListingTotalKeeps ==
  ASSUME Inv, RanksKnown, ListingInv, ListingTotal
  PROVE  ListingInv'
<1> DEFINE rows == Rows(listing.list)
           next == IF listing.page * PageSize < Len(rows) THEN "rows" ELSE "done"
<1>1. listing # Idle /\ listing.at = "total"
  BY DEF ListingTotal, Idle
<1>2. /\ listing = [at |-> listing.at, list |-> listing.list, page |-> listing.page,
                    shown |-> listing.shown, quiet |-> listing.quiet]
      /\ listing.page \in Nat \ {0} /\ listing.quiet \subseteq Reported /\ Waiting(listing.page)
  BY <1>1 DEF ListingInv
<1>3. listing' = [listing EXCEPT !.at = next, !.page = @ + 1]
  BY DEF ListingTotal, List
<1>4. rows = InOrder(Ahead, Reported) /\ TellsApart(Ahead, Reported) /\ IsFiniteSet(Reported)
  BY RowsAreInOrder, StoredAreFinite, ReportedHaveReadings DEF Inv, ReportedIsMeasured
<1>5. Len(rows) = Cardinality(Reported) /\ Cardinality(Reported) \in Nat
  BY <1>4, FS_CardinalityType DEF InOrder
<1> HIDE DEF rows
<1>6. next \in {"rows", "done"}
  OBVIOUS
<1>7. next = "done" => ~ (listing.page * PageSize < Cardinality(Reported))
  BY <1>5
<1> HIDE DEF next
<1>8. /\ listing' = [at |-> next, list |-> listing.list, page |-> listing.page + 1,
                     shown |-> listing.shown, quiet |-> listing.quiet]
  BY <1>2, <1>3
<1>9. /\ listing'.at = next /\ listing'.list = listing.list /\ listing'.page = listing.page + 1
      /\ listing'.page - 1 = listing.page
      /\ listing'.shown = listing.shown /\ listing'.quiet = listing.quiet
  BY <1>2, <1>8
<1>10. Reported' = Reported /\ Ahead' = Ahead
  BY <1>9, TablesAndRanks DEF ListingTotal, List
<1>11. Waiting(listing.page - 1)'
  BY <1>2, <1>9, <1>10 DEF Waiting
<1>12. next = "done" => listing.quiet \subseteq listing.shown
  <2>1. \A h \in listing.quiet : /\ Place(Ahead, Reported, h) \in Nat
                                 /\ Place(Ahead, Reported, h) < Cardinality(Reported)
    BY <1>2, <1>4, PlaceBounds
  <2>2. listing.page * PageSize \in Nat
    BY <1>2, WindowsAssumption
  <2> QED BY <1>2, <1>5, <1>7, <2>1, <2>2 DEF Waiting
<1> QED BY <1>2, <1>6, <1>8, <1>9, <1>10, <1>11, <1>12 DEF ListingInv

-----------------------------------------------------------------------------
(* For any households, readings and calls at once: a window's summary, the *)
(* households' rows and the buckets of its trend add up the same readings, *)
(* the status rows tell of the same history as the readings, and a         *)
(* household that sends nothing while a list is read is on one of its      *)
(* pages.  (StatsService, HouseholdsService)                               *)
THEOREM AnyStatisticsAgree ==
  StatSpec => [](FiguresAgree /\ ReportedIsMeasured /\ QuietAreListed)
<1>1. StatSpec => Spec
  <2>1. StatInit => Init
    BY DEF StatInit
  <2>2. [StatNext]_allVars => [Next]_vars
    BY DEF StatNext, allVars, ReadingStep, BeginListing, ListingRows, ListingTotal, List
  <2> QED BY <2>1, <2>2, PTL DEF StatSpec, Spec
<1>2. Spec => [](Inv /\ RanksKnown)
  BY SpecInv, RanksAreKnown, PTL
<1>3. StatInit => ListingInv
  BY DEF StatInit, ListingInv, Idle
<1>4. ASSUME Inv, RanksKnown, RanksKnown', ListingInv, [StatNext]_allVars
      PROVE  ListingInv'
  <2>1. CASE UNCHANGED allVars
    <3>1. listing' = listing /\ Reported' = Reported /\ Ahead' = Ahead
      BY <2>1, TablesAndRanks DEF allVars, statVars
    <3> QED BY <1>4, <3>1 DEF ListingInv, Waiting
  <2>2. CASE ReadingStep
    BY <1>4, <2>2, ReadingStepKeeps
  <2>3. CASE \E l \in Reads : BeginListing(l)
    BY <1>4, <2>3, BeginListingKeeps
  <2>4. CASE ListingRows
    BY <1>4, <2>4, ListingRowsKeeps
  <2>5. CASE ListingTotal
    BY <1>4, <2>5, ListingTotalKeeps
  <2> QED BY <1>4, <2>1, <2>2, <2>3, <2>4, <2>5 DEF StatNext
<1>5. Inv /\ ListingInv => FiguresAgree /\ ReportedIsMeasured /\ QuietAreListed
  BY StoredFiguresAgree, ReportedHaveReadings DEF Inv, ListingInv, QuietAreListed
<1> QED BY <1>1, <1>2, <1>3, <1>4, <1>5, PTL DEF StatSpec

(* The same as the run states it, of its scenarios. *)
THEOREM StatisticsAlwaysAgree == MCSpec => []StatisticsAgree
<1>1. MCInit => StatInit
  BY DEF MCInit
<1>2. [MCNext]_<<allVars, amountsVars, scenario>> => [StatNext]_allVars
  BY DEF MCNext, ReadingSteps, AmountsSteps, Finished
<1>3. FiguresAgree /\ ReportedIsMeasured /\ QuietAreListed => StatisticsAgree
  BY DEF StatisticsAgree
<1> QED BY <1>1, <1>2, <1>3, AnyStatisticsAgree, PTL DEF MCSpec, StatSpec

-----------------------------------------------------------------------------
(***************************************************************************)
(* The amounts of trades (TradeAmounts, Decimals).  First powers of ten,   *)
(* and rounding.                                                           *)
(***************************************************************************)
ArePowers(p, n) ==
    /\ p \in [0 .. n -> Nat \ {0}] /\ p[0] = 1
    /\ \A k \in 1 .. n : p[k] = 10 * p[k - 1]

LEMMA PowersExist ==
  ASSUME NEW n \in Nat
  PROVE  \E p : ArePowers(p, n)
<1> DEFINE Good == {k \in Nat : \E p : ArePowers(p, k)}
<1>1. 0 \in Good
  <2>1. ArePowers([k \in 0 .. 0 |-> 1], 0)
    BY DEF ArePowers
  <2> QED BY <2>1
<1>2. ASSUME NEW k \in Good PROVE k + 1 \in Good
  <2>1. PICK p : ArePowers(p, k)
    OBVIOUS
  <2> DEFINE q == [i \in 0 .. k + 1 |-> IF i = k + 1 THEN 10 * p[k] ELSE p[i]]
  <2>2. \A i \in 0 .. k : p[i] \in Nat \ {0}
    BY <2>1 DEF ArePowers
  <2>3. k \in 0 .. k /\ k \in Nat
    OBVIOUS
  <2>4. 10 * p[k] \in Nat \ {0}
    BY <2>2, <2>3
  <2>5. \A i \in 0 .. k + 1 : q[i] \in Nat \ {0}
    BY <2>2, <2>4
  <2>6. q[0] = 1
    BY <2>1 DEF ArePowers
  <2>7. ASSUME NEW i \in 1 .. k + 1 PROVE q[i] = 10 * q[i - 1]
    <3>1. i - 1 \in 0 .. k /\ i - 1 # k + 1 /\ i \in 0 .. k + 1 /\ i - 1 \in 0 .. k + 1
      OBVIOUS
    <3>2. q[i - 1] = p[i - 1]
      BY <3>1
    <3>3. CASE i = k + 1
      BY <3>1, <3>2, <3>3
    <3>4. CASE i # k + 1
      <4>1. i \in 1 .. k
        BY <3>4
      <4> QED BY <2>1, <3>1, <3>2, <3>4, <4>1 DEF ArePowers
    <3> QED BY <3>3, <3>4
  <2>8. q \in [0 .. k + 1 -> Nat \ {0}]
    BY <2>5
  <2> HIDE DEF q
  <2>9. ArePowers(q, k + 1)
    BY <2>6, <2>7, <2>8 DEF ArePowers
  <2> QED BY <2>9
<1>3. Good \in SUBSET Nat
  OBVIOUS
<1> HIDE DEF Good
<1>4. Good = Nat
  BY <1>1, <1>2, <1>3, NaturalsFromZero
<1> QED BY <1>4 DEF Good

LEMMA PowersAgree ==
  ASSUME NEW n \in Nat, NEW m \in Nat, n <= m, NEW p, NEW q, ArePowers(p, n), ArePowers(q, m)
  PROVE  p[n] = q[n]
<1> DEFINE Good == {k \in Nat : k <= n => p[k] = q[k]}
<1>1. 0 \in Good
  BY DEF ArePowers
<1>2. ASSUME NEW k \in Good PROVE k + 1 \in Good
  <2> SUFFICES ASSUME k + 1 <= n PROVE p[k + 1] = q[k + 1]
    OBVIOUS
  <2>1. k + 1 \in 1 .. n /\ k + 1 \in 1 .. m /\ (k + 1) - 1 = k /\ p[k] = q[k]
    OBVIOUS
  <2>2. p[k + 1] = 10 * p[k] /\ q[k + 1] = 10 * q[k]
    BY <2>1 DEF ArePowers
  <2> QED BY <2>1, <2>2
<1>3. Good \in SUBSET Nat
  OBVIOUS
<1> HIDE DEF Good
<1>4. Good = Nat
  BY <1>1, <1>2, <1>3, NaturalsFromZero
<1> QED BY <1>4 DEF Good

Ten(n) == Amounts!PowerOfTen[n]

LEMMA PowersOfTen ==
  /\ Ten(0) = 1
  /\ \A n \in Nat : Ten(n) \in Nat \ {0} /\ Ten(n + 1) = 10 * Ten(n)
<1> DEFINE Upto(n) == CHOOSE p : ArePowers(p, n)
           pow == [n \in Nat |-> Upto(n)[n]]
<1>1. \A n \in Nat : ArePowers(Upto(n), n)
  BY PowersExist
<1> HIDE DEF Upto
<1>2. pow[0] = 1
  BY <1>1 DEF ArePowers
<1>3. ASSUME NEW n \in Nat, n # 0 PROVE pow[n] = 10 * pow[n - 1]
  <2>1. n - 1 \in Nat /\ n - 1 <= n /\ n \in 1 .. n
    BY <1>3
  <2>2. Upto(n - 1)[n - 1] = Upto(n)[n - 1]
    BY <1>1, <2>1, PowersAgree
  <2>3. Upto(n)[n] = 10 * Upto(n)[n - 1]
    BY <1>1, <2>1 DEF ArePowers
  <2> QED BY <2>1, <2>2, <2>3
<1>4. ASSUME NEW n \in Nat PROVE pow[n] \in Nat \ {0}
  <2>1. n \in 0 .. n
    OBVIOUS
  <2> QED BY <1>1, <2>1 DEF ArePowers
<1> DEFINE Rule(f) == [n \in Nat |-> IF n = 0 THEN 1 ELSE 10 * f[n - 1]]
<1>5. pow = Rule(pow)
  <2>1. \A n \in Nat : pow[n] = IF n = 0 THEN 1 ELSE 10 * pow[n - 1]
    BY <1>2, <1>3
  <2>2. DOMAIN pow = Nat /\ pow = [n \in Nat |-> pow[n]]
    OBVIOUS
  <2> HIDE DEF pow
  <2> QED BY <2>1, <2>2
<1> HIDE DEF pow
<1>6. Amounts!PowerOfTen = Rule(Amounts!PowerOfTen)
  BY <1>5, Zenon DEF Amounts!PowerOfTen
<1> DEFINE ten == Amounts!PowerOfTen
<1>7. ten = Rule(ten)
  BY <1>6
<1> HIDE DEF ten
<1>8. ten[0] = 1 /\ \A n \in Nat : ten[n + 1] = 10 * ten[n]
  <2>1. \A n \in Nat : ten[n] = IF n = 0 THEN 1 ELSE 10 * ten[n - 1]
    BY <1>7
  <2>2. \A n \in Nat : n + 1 \in Nat /\ n + 1 # 0 /\ (n + 1) - 1 = n
    OBVIOUS
  <2> QED BY <2>1, <2>2
<1>9. \A n \in Nat : ten[n] \in Nat \ {0}
  <2> DEFINE Good == {n \in Nat : ten[n] \in Nat \ {0}}
  <2>1. 0 \in Good
    BY <1>8
  <2>2. ASSUME NEW n \in Good PROVE n + 1 \in Good
    <3>1. ten[n + 1] = 10 * ten[n] /\ ten[n] \in Nat \ {0}
      BY <1>8
    <3> QED BY <3>1
  <2>3. Good \in SUBSET Nat
    OBVIOUS
  <2> HIDE DEF Good
  <2>4. Good = Nat
    BY <2>1, <2>2, <2>3, NaturalsFromZero
  <2> QED BY <2>4 DEF Good
<1> QED BY <1>8, <1>9 DEF Ten, ten

LEMMA TenOfSum ==
  ASSUME NEW a \in Nat, NEW b \in Nat
  PROVE  Ten(a + b) = Ten(a) * Ten(b)
<1> DEFINE Good == {k \in Nat : Ten(a + k) = Ten(a) * Ten(k)}
<1>1. 0 \in Good
  <2>1. a + 0 = a /\ Ten(0) = 1 /\ Ten(a) \in Nat
    BY PowersOfTen
  <2> QED BY <2>1
<1>2. ASSUME NEW k \in Good PROVE k + 1 \in Good
  <2>1. a + k \in Nat /\ (a + k) + 1 = a + (k + 1) /\ k \in Nat
    OBVIOUS
  <2>2. Ten(a + (k + 1)) = 10 * Ten(a + k) /\ Ten(k + 1) = 10 * Ten(k)
    BY <2>1, PowersOfTen
  <2>3. Ten(a + k) = Ten(a) * Ten(k) /\ Ten(a) \in Nat /\ Ten(k) \in Nat
    BY PowersOfTen
  <2>4. \A x, y \in Nat : 10 * (x * y) = x * (10 * y)
    OBVIOUS
  <2> QED BY <2>2, <2>3, <2>4
<1>3. Good \in SUBSET Nat
  OBVIOUS
<1> HIDE DEF Good
<1>4. Good = Nat
  BY <1>1, <1>2, <1>3, NaturalsFromZero
<1> QED BY <1>4 DEF Good

-----------------------------------------------------------------------------
Half(n, d) == Amounts!RoundHalfUp(n, d)

LEMMA Quotient ==
  ASSUME NEW x \in Int, NEW d \in Nat \ {0}, NEW q \in Int, d * q <= x, x < d * q + d
  PROVE  x \div d = q
<1>1. x = d * (x \div d) + (x % d) /\ x % d \in 0 .. d - 1 /\ x \div d \in Int
  OBVIOUS
<1> DEFINE p == x \div d
<1>2. p \in Int /\ d * p <= x /\ x < d * p + d
  BY <1>1
<1> HIDE DEF p
<1>3. \A i, j \in Int : i < j => d * i + d <= d * j
  <2> SUFFICES ASSUME NEW i \in Int, NEW j \in Int, i < j PROVE d * i + d <= d * j
    OBVIOUS
  <2>1. i + 1 <= j /\ d * (i + 1) = d * i + d
    OBVIOUS
  <2>2. d * (i + 1) <= d * j
    BY <2>1
  <2> QED BY <2>1, <2>2
<1>4. ~ (p < q) /\ ~ (q < p)
  BY <1>2, <1>3
<1> QED BY <1>2, <1>4 DEF p

(* What rounding does, by what it is close to. *)
LEMMA Rounded ==
  ASSUME NEW n \in Nat, NEW d \in Nat \ {0}
  PROVE  /\ Half(n, d) \in Nat
         /\ (2 * d) * Half(n, d) <= 2 * n + d /\ 2 * n < (2 * d) * Half(n, d) + d
<1> DEFINE x == 2 * n + d
           e == 2 * d
           h == Half(n, d)
<1>1. x \in Nat /\ e \in Nat \ {0} /\ h = x \div e
  BY DEF Half, Amounts!RoundHalfUp
<1> HIDE DEF h
<1>2. x = e * (x \div e) + (x % e) /\ x % e \in 0 .. e - 1 /\ x \div e \in Int
  <2> HIDE DEF x, e
  <2> QED BY <1>1
<1>3. h \in Int /\ e * h <= x /\ x < e * h + e
  <2> HIDE DEF x, e
  <2> QED BY <1>1, <1>2
<1>4. h >= 0
  <2> SUFFICES ASSUME h < 0 PROVE FALSE
    BY <1>3
  <2>1. h + 1 <= 0 /\ e * (h + 1) = e * h + e
    BY <1>1, <1>3
  <2>2. e * (h + 1) <= 0
    BY <1>1, <1>3, <2>1
  <2> QED BY <1>1, <1>3, <2>1, <2>2
<1> QED BY <1>3, <1>4 DEF h

LEMMA RoundedIs ==
  ASSUME NEW n \in Nat, NEW d \in Nat \ {0}, NEW h \in Int,
         (2 * d) * h <= 2 * n + d, 2 * n < (2 * d) * h + d
  PROVE  Half(n, d) = h
<1> DEFINE x == 2 * n + d
           e == 2 * d
<1>1. x \in Int /\ e \in Nat \ {0} /\ e * h <= x /\ Half(n, d) = x \div e
  BY DEF Half, Amounts!RoundHalfUp
<1>2. x < e * h + e
  <2>1. e * h \in Int /\ e = d + d
    BY <1>1
  <2> QED BY <2>1
<1> HIDE DEF x, e
<1> QED BY <1>1, <1>2, Quotient

(* A whole number stays; a fraction may be expanded; more is not less.     *)
LEMMA RoundedWhole ==
  ASSUME NEW n \in Nat, NEW d \in Nat \ {0}
  PROVE  Half(n * d, d) = n
<1>1. n * d \in Nat /\ (2 * d) * n = 2 * (n * d)
  OBVIOUS
<1>2. (2 * d) * n <= 2 * (n * d) + d /\ 2 * (n * d) < (2 * d) * n + d
  BY <1>1
<1> QED BY <1>1, <1>2, RoundedIs

LEMMA RoundedExpanded ==
  ASSUME NEW n \in Nat, NEW d \in Nat \ {0}, NEW c \in Nat \ {0}
  PROVE  Half(n * c, d * c) = Half(n, d)
<1> DEFINE h == Half(n, d)
           e == (2 * d) * h
<1>1. h \in Nat /\ e <= 2 * n + d /\ 2 * n < e + d
  BY Rounded
<1>2. n * c \in Nat /\ d * c \in Nat \ {0}
  OBVIOUS
<1>3. (2 * (d * c)) * h = e * c /\ e \in Int
  BY <1>1
<1> HIDE DEF e, h
<1>4. e * c <= (2 * n + d) * c
  BY <1>1, <1>3
<1>5. (2 * n) * c < (e + d) * c
  <2>1. 2 * n + 1 <= e + d /\ 2 * n + 1 \in Int /\ e + d \in Int
    BY <1>1, <1>3
  <2>2. (2 * n + 1) * c <= (e + d) * c
    BY <2>1
  <2>3. (2 * n + 1) * c = (2 * n) * c + c
    OBVIOUS
  <2> QED BY <2>2, <2>3, <1>3
<1>6. (2 * n + d) * c = 2 * (n * c) + d * c /\ (2 * n) * c = 2 * (n * c)
  OBVIOUS
<1>7. (e + d) * c = e * c + d * c
  BY <1>3
<1>8. (2 * (d * c)) * h <= 2 * (n * c) + d * c /\ 2 * (n * c) < (2 * (d * c)) * h + d * c
  BY <1>3, <1>4, <1>5, <1>6, <1>7
<1>9. h \in Int
  BY <1>1
<1> QED BY <1>2, <1>8, <1>9, RoundedIs DEF h

LEMMA RoundedMonotone ==
  ASSUME NEW n \in Nat, NEW m \in Nat, n <= m, NEW d \in Nat \ {0}
  PROVE  Half(n, d) <= Half(m, d)
<1> DEFINE g == Half(n, d)
           h == Half(m, d)
           e == 2 * d
<1>1. g \in Nat /\ h \in Nat /\ e * g <= 2 * n + d /\ 2 * m < e * h + d /\ e \in Nat \ {0}
  <2>1. g \in Nat /\ (2 * d) * g <= 2 * n + d
    BY Rounded
  <2>2. h \in Nat /\ 2 * m < (2 * d) * h + d
    BY Rounded
  <2> HIDE DEF g, h
  <2> QED BY <2>1, <2>2
<1> HIDE DEF g, h
<1>2. e * g < e * h + e
  <2>1. e = d + d /\ e * g \in Int /\ e * h \in Int
    BY <1>1
  <2> QED BY <1>1, <2>1
<1> HIDE DEF e
<1>3. g <= h
  <2> SUFFICES ASSUME h + 1 <= g PROVE FALSE
    BY <1>1
  <2>1. e * (h + 1) <= e * g /\ e * (h + 1) = e * h + e
    BY <1>1
  <2> QED BY <1>1, <1>2, <2>1
<1> QED BY <1>3 DEF g, h

-----------------------------------------------------------------------------
(* Amounts, written in any way, and at the scale of a column. *)
Fixed(v, scale) == Amounts!ToFixed(v, scale)
Plain(n, scale) == Amounts!Spelled(n, scale)

LEMMA PlainFacts ==
  ASSUME NEW n \in Nat, NEW s \in Nat
  PROVE  /\ Plain(n, s) \in Amounts!Spellings
         /\ Plain(n, s).negative = FALSE /\ Plain(n, s).units = n /\ Plain(n, s).scale = s
         /\ Plain(n, s) = [negative |-> FALSE, units |-> n, scale |-> s]
BY DEF Plain, Amounts!Spelled, Amounts!Spellings

LEMMA SpellingFacts ==
  ASSUME NEW v \in Amounts!Spellings
  PROVE  v.negative \in BOOLEAN /\ v.units \in Nat /\ v.scale \in Nat
BY DEF Amounts!Spellings

LEMMA FixedFacts ==
  ASSUME NEW v \in Amounts!Spellings, NEW s \in Nat
  PROVE  /\ Fixed(v, s) \in Amounts!Spellings /\ Fixed(v, s).scale = s
         /\ Fixed(v, s).units = Half(v.units * Ten(s), Ten(v.scale))
         /\ Fixed(v, s).negative = (v.negative /\ v.units # 0)
         /\ Fixed(v, s) = [negative |-> Fixed(v, s).negative, units |-> Fixed(v, s).units, scale |-> s]
<1> DEFINE u == Half(v.units * Ten(s), Ten(v.scale))
           neg == v.negative /\ v.units # 0
<1>1. Fixed(v, s) = [negative |-> neg, units |-> u, scale |-> s]
  BY DEF Fixed, Amounts!ToFixed, Half, Ten
<1>2. u \in Nat
  <2>1. v.units * Ten(s) \in Nat /\ Ten(v.scale) \in Nat \ {0}
    BY SpellingFacts, PowersOfTen
  <2> QED BY <2>1, Rounded
<1>3. neg \in BOOLEAN
  OBVIOUS
<1> HIDE DEF u, neg
<1>4. /\ Fixed(v, s).negative = neg /\ Fixed(v, s).units = u /\ Fixed(v, s).scale = s
      /\ Fixed(v, s) \in Amounts!Spellings
  BY <1>1, <1>2, <1>3 DEF Amounts!Spellings
<1> QED BY <1>1, <1>4 DEF u, neg

(* To a scale no smaller than its own an amount is only extended. *)
LEMMA FixedIsExact ==
  ASSUME NEW v \in Amounts!Spellings, NEW s \in Nat, v.scale <= s
  PROVE  LET c == Ten(s - v.scale)
         IN  c \in Nat \ {0} /\ Ten(s) = Ten(v.scale) * c /\ Fixed(v, s).units = v.units * c
<1> DEFINE d == Ten(v.scale)
           c == Ten(s - v.scale)
           n == v.units
<1>1. n \in Nat /\ v.scale \in Nat /\ s - v.scale \in Nat /\ v.scale + (s - v.scale) = s
  BY SpellingFacts
<1>2. d \in Nat \ {0} /\ c \in Nat \ {0} /\ Ten(s) = d * c
  BY <1>1, PowersOfTen, TenOfSum
<1>3. Fixed(v, s).units = Half(n * Ten(s), d)
  BY FixedFacts
<1> HIDE DEF d, c, n
<1>4. n * Ten(s) = (n * c) * d /\ n * c \in Nat
  BY <1>1, <1>2
<1>5. Half((n * c) * d, d) = n * c
  BY <1>2, <1>4, RoundedWhole
<1> QED BY <1>2, <1>3, <1>4, <1>5 DEF c, d, n

LEMMA PlainStays ==
  ASSUME NEW n \in Nat, NEW s \in Nat
  PROVE  Fixed(Plain(n, s), s) = Plain(n, s)
<1> DEFINE v == Plain(n, s)
<1>1. v \in Amounts!Spellings /\ v.negative = FALSE /\ v.units = n /\ v.scale = s
      /\ v = [negative |-> FALSE, units |-> n, scale |-> s]
  BY PlainFacts
<1> HIDE DEF v
<1>2. Fixed(v, s).units = n * Ten(s - s)
  <2>1. s <= s
    OBVIOUS
  <2> QED BY <1>1, <2>1, FixedIsExact
<1>3. n * Ten(s - s) = n
  <2>1. s - s = 0 /\ Ten(0) = 1
    BY PowersOfTen
  <2> QED BY <2>1
<1>4. Fixed(v, s) = [negative |-> FALSE, units |-> n, scale |-> s]
  <2>1. Fixed(v, s).negative = FALSE
    BY <1>1, FixedFacts
  <2>2. Fixed(v, s) = [negative |-> Fixed(v, s).negative, units |-> Fixed(v, s).units, scale |-> s]
    BY <1>1, FixedFacts
  <2> QED BY <1>2, <1>3, <2>1, <2>2
<1> QED BY <1>1, <1>4 DEF v

(* Two numbers, and what they are multiplied by. *)
LEMMA ScaledOrder ==
  ASSUME NEW a \in Int, NEW b \in Int, NEW c \in Nat \ {0}
  PROVE  a * c <= b * c <=> a <= b
<1>1. a <= b => a * c <= b * c
  OBVIOUS
<1>2. b < a => b * c < a * c
  <2> SUFFICES ASSUME b + 1 <= a PROVE b * c < a * c
    OBVIOUS
  <2>1. (b + 1) * c <= a * c /\ (b + 1) * c = b * c + c
    OBVIOUS
  <2>2. b * c \in Int /\ a * c \in Int
    OBVIOUS
  <2> QED BY <2>1, <2>2
<1>3. a * c \in Int /\ b * c \in Int
  OBVIOUS
<1> QED BY <1>1, <1>2, <1>3

(* However an amount is written, with no more decimals than its column     *)
(* has, it is the recorded one exactly when it looks the same there.       *)
LEMMA SameMeans ==
  ASSUME NEW v \in Amounts!Spellings, NEW s \in Nat, v.scale <= s, NEW k \in Nat
  PROVE  Amounts!SameAmount(v, Plain(k, s)) <=> Fixed(v, s) = Plain(k, s)
<1> DEFINE c == Ten(s - v.scale)
           d == Ten(v.scale)
           n == v.units
           x == IF v.negative THEN -n ELSE n
<1>1. v.negative \in BOOLEAN /\ n \in Nat /\ v.scale \in Nat
  BY SpellingFacts
<1>2. c \in Nat \ {0} /\ Ten(s) = d * c /\ Fixed(v, s).units = n * c /\ d \in Nat \ {0}
  BY <1>1, FixedIsExact, PowersOfTen
<1>3. Plain(k, s).negative = FALSE /\ Plain(k, s).units = k /\ Plain(k, s).scale = s
      /\ Plain(k, s) = [negative |-> FALSE, units |-> k, scale |-> s]
  BY PlainFacts
<1>4. Amounts!SameAmount(v, Plain(k, s))
        <=> x * Ten(s) <= k * d /\ k * d <= x * Ten(s)
  BY <1>3 DEF Amounts!SameAmount, Amounts!AtMost, Amounts!Signed, Ten
<1>5. Fixed(v, s).negative = (v.negative /\ n # 0)
      /\ Fixed(v, s) = [negative |-> Fixed(v, s).negative, units |-> Fixed(v, s).units, scale |-> s]
  BY FixedFacts
<1>6. Fixed(v, s) = Plain(k, s) <=> ~ (v.negative /\ n # 0) /\ n * c = k
  <2>1. Fixed(v, s) = Plain(k, s) =>
          Fixed(v, s).negative = FALSE /\ Fixed(v, s).units = k
    BY <1>3
  <2>2. Fixed(v, s).negative = FALSE /\ Fixed(v, s).units = k => Fixed(v, s) = Plain(k, s)
    BY <1>3, <1>5
  <2> QED BY <1>2, <1>5, <2>1, <2>2
<1> HIDE DEF c, d, n
<1>7. x \in Int
  BY <1>1
<1>8. x * c = k <=> ~ (v.negative /\ n # 0) /\ n * c = k
  <2>1. CASE v.negative /\ n # 0
    <3>1. x * c = - (n * c) /\ n * c \in Nat \ {0}
      BY <1>1, <1>2, <2>1
    <3> HIDE DEF x
    <3> QED BY <2>1, <3>1
  <2>2. CASE ~ v.negative
    BY <2>2
  <2>3. CASE n = 0
    <3>1. x * c = 0
      BY <1>1, <1>2, <2>3
    <3> QED BY <1>2, <2>3, <3>1
  <2> QED BY <2>1, <2>2, <2>3
<1> HIDE DEF x
<1>9. x * Ten(s) = (x * c) * d /\ x * c \in Int
  BY <1>2, <1>7
<1>10. /\ x * Ten(s) <= k * d <=> x * c <= k
       /\ k * d <= x * Ten(s) <=> k <= x * c
  <2> DEFINE y == x * c
  <2>1. y \in Int /\ x * Ten(s) = y * d
    BY <1>9
  <2> HIDE DEF y
  <2>2. y * d <= k * d <=> y <= k
    BY <1>2, <2>1, ScaledOrder
  <2>3. k * d <= y * d <=> k <= y
    BY <1>2, <2>1, ScaledOrder
  <2> QED BY <2>1, <2>2, <2>3 DEF y
<1>11. x * c <= k /\ k <= x * c <=> x * c = k
  BY <1>9
<1> QED BY <1>4, <1>6, <1>8, <1>10, <1>11

(* The total of a trade is the same however its factors are written.       *)
LEMMA TotalsAreRounded ==
  ASSUME NEW v \in Amounts!Spellings, NEW w \in Amounts!Spellings, NEW s \in Nat
  PROVE  LET m == Amounts!Mul(v, w)
         IN  /\ m \in Amounts!Spellings /\ m.units = v.units * w.units
             /\ m.scale = v.scale + w.scale /\ m.negative = (v.negative # w.negative)
<1>1. /\ v.negative \in BOOLEAN /\ w.negative \in BOOLEAN
      /\ v.units \in Nat /\ w.units \in Nat /\ v.scale \in Nat /\ w.scale \in Nat
  BY SpellingFacts
<1> DEFINE u == v.units * w.units
           t == v.scale + w.scale
           neg == v.negative # w.negative
<1>2. u \in Nat /\ t \in Nat /\ neg \in BOOLEAN
  BY <1>1
<1>3. Amounts!Mul(v, w) = [negative |-> neg, units |-> u, scale |-> t]
  BY DEF Amounts!Mul
<1> HIDE DEF u, t, neg
<1>4. LET m == Amounts!Mul(v, w)
      IN  m \in Amounts!Spellings /\ m.units = u /\ m.scale = t /\ m.negative = neg
  BY <1>2, <1>3 DEF Amounts!Spellings
<1> QED BY <1>4 DEF u, t, neg

-----------------------------------------------------------------------------
(* The figures of a trade: so many units of energy at a price. *)
ES == Figures.EnergyScale
PS == Figures.PriceScale
MS == Figures.MoneyScale
TotalUnits(k, q) == Half((k * q) * Ten(MS), Ten(ES + PS))
Deal(k, q) ==
    [energyKwh |-> Plain(k, ES), pricePerKwh |-> Plain(q, PS),
     totalAmount |-> Plain(TotalUnits(k, q), MS)]

LEMMA FiguresKnown ==
  /\ IsFiniteSet(Figures.Trades) /\ Figures.KeysReused \subseteq Figures.Trades
  /\ Nothing \notin Amounts!Spellings
  /\ ES \in Nat /\ PS \in Nat /\ MS \in Nat /\ ES + PS \in Nat
  /\ Amounts!Energy = 0 .. Ten(Figures.EnergyDigits) - 1 /\ Ten(Figures.EnergyDigits) \in Nat
  /\ Figures.MaxReading \in Nat
  /\ Figures.Measured \subseteq (0 .. Figures.MaxReading) \X (0 .. Figures.MaxReading)
  /\ Figures.Prices \subseteq Nat \ {0} /\ Figures.HandMade \subseteq Amounts!Spellings
<1>1. \A S : Amounts!IsFiniteSet(S) <=> IsFiniteSet(S)
  BY DEF Amounts!IsFiniteSet, IsFiniteSet
<1>2. /\ IsFiniteSet(Figures.Trades) /\ Figures.KeysReused \subseteq Figures.Trades
      /\ Nothing \notin Amounts!Spellings
      /\ {ES, PS, MS, Figures.EnergyDigits} \subseteq Nat
      /\ Figures.MaxReading \in Nat
      /\ Figures.Measured \subseteq (0 .. Figures.MaxReading) \X (0 .. Figures.MaxReading)
      /\ Figures.Prices \subseteq Nat \ {0} /\ Figures.HandMade \subseteq Amounts!Spellings
  BY <1>1, AmountsConstants DEF Amounts!AmountsAssumption, ES, PS, MS
<1>3. ES \in Nat /\ PS \in Nat /\ MS \in Nat /\ Figures.EnergyDigits \in Nat
  BY <1>2
<1>4. ES + PS \in Nat /\ Ten(Figures.EnergyDigits) \in Nat
  BY <1>3, PowersOfTen
<1>5. Amounts!Energy = 0 .. Ten(Figures.EnergyDigits) - 1
  BY DEF Amounts!Energy, Ten
<1> QED BY <1>2, <1>3, <1>4, <1>5

LEMMA FiguresTens ==
  ES \in Nat /\ PS \in Nat /\ MS \in Nat /\ ES + PS \in Nat
  /\ Ten(MS) \in Nat \ {0} /\ Ten(ES + PS) \in Nat \ {0} /\ Ten(ES + PS) = Ten(ES) * Ten(PS)
<1>1. ES \in Nat /\ PS \in Nat /\ MS \in Nat /\ ES + PS \in Nat
  BY FiguresKnown
<1> QED BY <1>1, PowersOfTen, TenOfSum

LEMMA TotalUnitsFacts ==
  ASSUME NEW k \in Nat, NEW q \in Nat
  PROVE  TotalUnits(k, q) \in Nat
<1>1. (k * q) * Ten(MS) \in Nat /\ Ten(ES + PS) \in Nat \ {0}
  <2>1. \A a, b, c \in Nat : (a * b) * c \in Nat
    OBVIOUS
  <2>2. Ten(MS) \in Nat
    BY FiguresTens
  <2> QED BY <2>1, <2>2, FiguresTens
<1> QED BY <1>1, Rounded DEF TotalUnits

(* What two amounts come to, written as they may be.                       *)
LEMMA SameTotal ==
  ASSUME NEW v \in Amounts!Spellings, NEW w \in Amounts!Spellings, v.scale <= ES, w.scale <= PS,
         NEW k \in Nat \ {0}, NEW q \in Nat \ {0},
         Fixed(v, ES) = Plain(k, ES), Fixed(w, PS) = Plain(q, PS)
  PROVE  Fixed(Amounts!Mul(v, w), MS) = Plain(TotalUnits(k, q), MS)
<1> DEFINE m == Amounts!Mul(v, w)
           a == Ten(ES - v.scale)
           b == Ten(PS - w.scale)
           d == Ten(v.scale + w.scale)
           T == Ten(MS)
           x == v.units
           y == w.units
<1>1. ES \in Nat /\ PS \in Nat /\ MS \in Nat /\ v.scale \in Nat /\ w.scale \in Nat
      /\ x \in Nat /\ y \in Nat /\ v.negative \in BOOLEAN /\ w.negative \in BOOLEAN
  BY FiguresKnown, SpellingFacts
<1>2. a \in Nat \ {0} /\ Ten(ES) = Ten(v.scale) * a /\ k = x * a
  <2>1. Fixed(v, ES).units = x * a /\ a \in Nat \ {0} /\ Ten(ES) = Ten(v.scale) * a
    BY <1>1, FixedIsExact
  <2>2. Plain(k, ES).units = k
    BY <1>1, PlainFacts
  <2> QED BY <2>1, <2>2
<1>3. b \in Nat \ {0} /\ Ten(PS) = Ten(w.scale) * b /\ q = y * b
  <2>1. Fixed(w, PS).units = y * b /\ b \in Nat \ {0} /\ Ten(PS) = Ten(w.scale) * b
    BY <1>1, FixedIsExact
  <2>2. Plain(q, PS).units = q
    BY <1>1, PlainFacts
  <2> QED BY <2>1, <2>2
<1>4. v.negative = FALSE /\ w.negative = FALSE
  <2>1. Fixed(v, ES).negative = FALSE /\ Fixed(w, PS).negative = FALSE
    <3>1. Plain(k, ES).negative = FALSE /\ Plain(q, PS).negative = FALSE
      BY DEF Plain, Amounts!Spelled
    <3> QED BY <3>1
  <2>2. Fixed(v, ES).negative = (v.negative /\ x # 0)
    BY <1>1, FixedFacts
  <2>3. Fixed(w, PS).negative = (w.negative /\ y # 0)
    BY <1>1, FixedFacts
  <2>4. x # 0 /\ y # 0
    <3> HIDE DEF x, y, a, b
    <3> QED BY <1>1, <1>2, <1>3
  <2> QED BY <1>1, <2>1, <2>2, <2>3, <2>4
<1>5. m \in Amounts!Spellings /\ m.units = x * y /\ m.scale = v.scale + w.scale /\ m.negative = FALSE
  BY <1>4, TotalsAreRounded
<1>6. /\ Fixed(m, MS).units = Half((x * y) * T, d) /\ Fixed(m, MS).negative = FALSE
      /\ Fixed(m, MS) = [negative |-> Fixed(m, MS).negative, units |-> Fixed(m, MS).units,
                         scale |-> MS]
  <2>1. Fixed(m, MS).units = Half(m.units * T, Ten(m.scale))
        /\ Fixed(m, MS).negative = (m.negative /\ m.units # 0)
        /\ Fixed(m, MS) = [negative |-> Fixed(m, MS).negative, units |-> Fixed(m, MS).units,
                           scale |-> MS]
    <3> HIDE DEF m
    <3> QED BY <1>1, <1>5, FixedFacts
  <2> HIDE DEF m
  <2> QED BY <1>5, <2>1
<1>7. d \in Nat \ {0} /\ T \in Nat /\ Ten(ES + PS) = d * (a * b) /\ a * b \in Nat \ {0}
      /\ (k * q) * T = ((x * y) * T) * (a * b) /\ (x * y) * T \in Nat
  <2> DEFINE tv == Ten(v.scale)
             tw == Ten(w.scale)
  <2>1. tv \in Nat \ {0} /\ tw \in Nat \ {0} /\ T \in Nat /\ v.scale + w.scale \in Nat
    BY <1>1, PowersOfTen
  <2>2. d = tv * tw /\ Ten(ES + PS) = Ten(ES) * Ten(PS) /\ d \in Nat \ {0}
    BY <1>1, <2>1, TenOfSum, PowersOfTen
  <2> HIDE DEF tv, tw, a, b, T, x, y, d
  <2>3. Ten(ES + PS) = (tv * a) * (tw * b)
    BY <1>2, <1>3, <2>2 DEF tv, tw
  <2>4. \A e, f, g, h \in Nat : (e * f) * (g * h) = (e * g) * (f * h)
    OBVIOUS
  <2>5. Ten(ES + PS) = (tv * tw) * (a * b)
    BY <1>2, <1>3, <2>1, <2>3, <2>4
  <2>6. k * q = (x * y) * (a * b)
    BY <1>1, <1>2, <1>3, <2>4
  <2>7. x * y \in Nat /\ a * b \in Nat \ {0}
    BY <1>1, <1>2, <1>3
  <2>8. (k * q) * T = ((x * y) * T) * (a * b)
    <3> DEFINE xy == x * y
               ab == a * b
    <3>1. k * q = xy * ab /\ xy \in Nat /\ ab \in Nat
      BY <2>6, <2>7
    <3> HIDE DEF xy, ab
    <3>2. (xy * ab) * T = (xy * T) * ab
      BY <2>1, <3>1
    <3> QED BY <3>1, <3>2 DEF xy, ab
  <2>9. (x * y) * T \in Nat
    BY <2>1, <2>7
  <2> QED BY <2>1, <2>2, <2>5, <2>7, <2>8, <2>9
<1> HIDE DEF m, a, b, d, T, x, y
<1>8. TotalUnits(k, q) = Half((x * y) * T, d)
  <2> DEFINE n == (x * y) * T
             c == a * b
  <2>1. n \in Nat /\ c \in Nat \ {0} /\ d \in Nat \ {0}
        /\ (k * q) * T = n * c /\ Ten(ES + PS) = d * c
    BY <1>7
  <2> HIDE DEF n, c
  <2>2. Half(n * c, d * c) = Half(n, d)
    BY <2>1, RoundedExpanded
  <2>3. TotalUnits(k, q) = Half((k * q) * T, Ten(ES + PS))
    BY DEF TotalUnits, T
  <2> QED BY <2>1, <2>2, <2>3 DEF n
<1>9. TotalUnits(k, q) \in Nat
  BY TotalUnitsFacts
<1>10. Plain(TotalUnits(k, q), MS) = [negative |-> FALSE, units |-> TotalUnits(k, q), scale |-> MS]
  BY <1>1, <1>9, PlainFacts
<1> QED BY <1>6, <1>8, <1>10 DEF m

LEMMA DealTotal ==
  ASSUME NEW k \in Nat \ {0}, NEW q \in Nat \ {0}
  PROVE  Amounts!FormatMoney(Amounts!Mul(Plain(k, ES), Plain(q, PS))) = Plain(TotalUnits(k, q), MS)
<1>1. ES \in Nat /\ PS \in Nat
  BY FiguresKnown
<1>2. /\ Plain(k, ES) \in Amounts!Spellings /\ Plain(k, ES).scale <= ES
      /\ Fixed(Plain(k, ES), ES) = Plain(k, ES)
  <2>1. k \in Nat /\ ES <= ES
    BY <1>1
  <2>2. Plain(k, ES) \in Amounts!Spellings /\ Plain(k, ES).scale = ES
    BY <1>1, <2>1, PlainFacts
  <2> QED BY <1>1, <2>1, <2>2, PlainStays
<1>3. /\ Plain(q, PS) \in Amounts!Spellings /\ Plain(q, PS).scale <= PS
      /\ Fixed(Plain(q, PS), PS) = Plain(q, PS)
  <2>1. q \in Nat /\ PS <= PS
    BY <1>1
  <2>2. Plain(q, PS) \in Amounts!Spellings /\ Plain(q, PS).scale = PS
    BY <1>1, <2>1, PlainFacts
  <2> QED BY <1>1, <2>1, <2>2, PlainStays
<1> QED BY <1>2, <1>3, SameTotal DEF Amounts!FormatMoney, Fixed, MS

(* A trade's figures are already as billing writes them.                   *)
LEMMA DealIsCanonical ==
  ASSUME NEW k \in Nat \ {0}, NEW q \in Nat \ {0}
  PROVE  Amounts!Canonical(Deal(k, q)) = Deal(k, q)
<1>1. ES \in Nat /\ PS \in Nat /\ MS \in Nat /\ TotalUnits(k, q) \in Nat
  BY FiguresKnown, TotalUnitsFacts
<1>2. /\ Fixed(Plain(k, ES), ES) = Plain(k, ES) /\ Fixed(Plain(q, PS), PS) = Plain(q, PS)
      /\ Fixed(Plain(TotalUnits(k, q), MS), MS) = Plain(TotalUnits(k, q), MS)
  BY <1>1, PlainStays
<1> QED BY <1>2 DEF Amounts!Canonical, Amounts!FormatEnergy, Amounts!FormatPrice,
                    Amounts!FormatMoney, Deal, Fixed, ES, PS, MS

-----------------------------------------------------------------------------
(* What billing asks of a figure, and that what meters measure has it.     *)
LEMMA AtMostMore ==
  ASSUME NEW v \in Amounts!Spellings, NEW n \in Nat, NEW m \in Nat, n <= m, NEW s \in Nat
  PROVE  /\ Amounts!AtMost(v, Plain(n, s)) => Amounts!AtMost(v, Plain(m, s))
         /\ Amounts!AtMost(Plain(m, s), v) => Amounts!AtMost(Plain(n, s), v)
<1> DEFINE x == Amounts!Signed(v)
           d == Ten(v.scale)
           T == Ten(s)
<1>1. v.scale \in Nat /\ d \in Nat \ {0} /\ T \in Nat \ {0}
  BY SpellingFacts, PowersOfTen
<1>2. /\ Plain(n, s).negative = FALSE /\ Plain(n, s).units = n /\ Plain(n, s).scale = s
      /\ Plain(m, s).negative = FALSE /\ Plain(m, s).units = m /\ Plain(m, s).scale = s
  BY PlainFacts
<1>3. x * T \in Int
  <2>1. x \in Int
    BY SpellingFacts DEF Amounts!Signed
  <2> HIDE DEF x, T
  <2> QED BY <1>1, <2>1
<1>4. n * d <= m * d /\ n * d \in Int /\ m * d \in Int
  <2> HIDE DEF d
  <2> QED BY <1>1, ScaledOrder
<1>5. /\ Amounts!AtMost(v, Plain(n, s)) <=> x * T <= n * d
      /\ Amounts!AtMost(v, Plain(m, s)) <=> x * T <= m * d
      /\ Amounts!AtMost(Plain(n, s), v) <=> n * d <= x * T
      /\ Amounts!AtMost(Plain(m, s), v) <=> m * d <= x * T
  BY <1>2 DEF Amounts!AtMost, Amounts!Signed, Ten
<1> HIDE DEF x, d, T
<1> QED BY <1>3, <1>4, <1>5

LEMMA DealFacts ==
  ASSUME NEW k \in Nat \ {0}, NEW q \in Nat \ {0}
  PROVE  /\ Deal(k, q).energyKwh = Plain(k, ES) /\ Deal(k, q).pricePerKwh = Plain(q, PS)
         /\ Deal(k, q).totalAmount = Plain(TotalUnits(k, q), MS)
         /\ Deal(k, q) \in Amounts!Amounts
         /\ Deal(k, q).energyKwh.units = k /\ Deal(k, q).energyKwh.scale = ES
         /\ Deal(k, q).pricePerKwh.units = q
         /\ Deal(k, q).totalAmount.units = TotalUnits(k, q) /\ Deal(k, q).totalAmount.scale = MS
<1>1. ES \in Nat /\ PS \in Nat /\ MS \in Nat /\ k \in Nat /\ q \in Nat
  BY FiguresKnown
<1>2. TotalUnits(k, q) \in Nat
  BY <1>1, TotalUnitsFacts
<1>3. Plain(k, ES) \in Amounts!Spellings /\ Plain(k, ES).units = k /\ Plain(k, ES).scale = ES
  BY <1>1, PlainFacts
<1>4. Plain(q, PS) \in Amounts!Spellings /\ Plain(q, PS).units = q
  BY <1>1, PlainFacts
<1>5. Plain(TotalUnits(k, q), MS) \in Amounts!Spellings
      /\ Plain(TotalUnits(k, q), MS).units = TotalUnits(k, q)
      /\ Plain(TotalUnits(k, q), MS).scale = MS
  BY <1>1, <1>2, PlainFacts
<1>6. /\ Deal(k, q).energyKwh = Plain(k, ES) /\ Deal(k, q).pricePerKwh = Plain(q, PS)
      /\ Deal(k, q).totalAmount = Plain(TotalUnits(k, q), MS)
  BY DEF Deal
<1>7. Deal(k, q) \in Amounts!Amounts
  BY <1>3, <1>4, <1>5 DEF Deal, Amounts!Amounts
<1> QED BY <1>3, <1>4, <1>5, <1>6, <1>7

LEMMA LimitsKnown ==
  /\ Figures.EnergyOptions.min \in Amounts!Spellings /\ Figures.EnergyOptions.max \in Amounts!Spellings
  /\ Figures.PriceOptions.min \in Amounts!Spellings /\ Figures.PriceOptions.max \in Amounts!Spellings
  /\ Figures.TotalOptions.min \in Amounts!Spellings /\ Figures.TotalOptions.max \in Amounts!Spellings
  /\ Figures.EnergyOptions.scale = ES /\ Figures.PriceOptions.scale = PS
  /\ Figures.TotalOptions.scale = MS /\ MS <= ES + PS
<1>1. {Figures.EnergyOptions, Figures.PriceOptions, Figures.TotalOptions}
        \subseteq [min : Amounts!Spellings, max : Amounts!Spellings, scale : Nat]
  BY AmountsConstants DEF Amounts!AmountsAssumption
<1>2. /\ Figures.EnergyOptions \in [min : Amounts!Spellings, max : Amounts!Spellings, scale : Nat]
      /\ Figures.PriceOptions \in [min : Amounts!Spellings, max : Amounts!Spellings, scale : Nat]
      /\ Figures.TotalOptions \in [min : Amounts!Spellings, max : Amounts!Spellings, scale : Nat]
  BY <1>1
<1>3. /\ Figures.EnergyOptions.scale = ES /\ Figures.PriceOptions.scale = PS
      /\ Figures.TotalOptions.scale = MS /\ MS <= ES + PS
  BY AmountsConstants DEF Amounts!FiguresFit, ES, PS, MS
<1> QED BY <1>2, <1>3

LEMMA WithinMeans ==
  ASSUME NEW v, NEW options
  PROVE  Amounts!DecimalAmountProblem(v, options) = "none"
           <=> ~ (v.scale > options.scale)
               /\ ~ (v.scale <= options.scale /\ ~ Amounts!IsDecimalWithin(v, options))
BY DEF Amounts!DecimalAmountProblem

LEMMA DealIsValid ==
  ASSUME NEW k \in 1 .. Figures.MaxReading, NEW q \in Figures.Prices
  PROVE  ~ Amounts!Invalid(Deal(k, q))
<1>1. /\ ES \in Nat /\ PS \in Nat /\ MS \in Nat /\ Figures.MaxReading \in Nat \ {0}
      /\ k \in Nat \ {0} /\ q \in Nat \ {0} /\ k <= Figures.MaxReading /\ 1 <= k
      /\ k \in Nat /\ 1 \in Nat /\ Figures.MaxReading \in Nat
  BY FiguresKnown
<1>2. /\ Deal(k, q).energyKwh = Plain(k, ES) /\ Deal(k, q).pricePerKwh = Plain(q, PS)
      /\ Deal(k, q).totalAmount = Plain(TotalUnits(k, q), MS)
  BY <1>1, DealFacts
<1>3. Amounts!DecimalAmountProblem(Plain(k, ES), Figures.EnergyOptions) = "none"
  <2>1. /\ Amounts!AtMost(Figures.EnergyOptions.min, Plain(1, ES))
        /\ Amounts!AtMost(Plain(Figures.MaxReading, ES), Figures.EnergyOptions.max)
    BY AmountsConstants DEF Amounts!FiguresFit, Amounts!IsDecimalWithin, Plain, ES
  <2>2. Amounts!AtMost(Figures.EnergyOptions.min, Plain(k, ES))
    BY <1>1, <2>1, LimitsKnown, AtMostMore
  <2>3. Amounts!AtMost(Plain(k, ES), Figures.EnergyOptions.max)
    BY <1>1, <2>1, LimitsKnown, AtMostMore
  <2>4. Plain(k, ES).scale = ES
    BY <1>1, PlainFacts
  <2>5. ~ (ES > ES)
    BY <1>1
  <2> QED BY <2>2, <2>3, <2>4, <2>5, LimitsKnown, WithinMeans DEF Amounts!IsDecimalWithin
<1>4. Amounts!DecimalAmountProblem(Plain(q, PS), Figures.PriceOptions) = "none"
  <2>1. Amounts!IsDecimalWithin(Plain(q, PS), Figures.PriceOptions)
    BY AmountsConstants DEF Amounts!FiguresFit, Plain, PS
  <2>2. Plain(q, PS).scale = PS
    <3>1. q \in Nat /\ PS \in Nat
      BY <1>1
    <3> QED BY <3>1, PlainFacts
  <2>3. ~ (PS > PS)
    BY <1>1
  <2> QED BY <2>1, <2>2, <2>3, LimitsKnown, WithinMeans
<1> DEFINE u == TotalUnits(k, q)
           w == TotalUnits(Figures.MaxReading, q)
<1>5. u \in Nat /\ w \in Nat /\ u <= w
  <2>1. u \in Nat /\ w \in Nat
    BY <1>1, TotalUnitsFacts
  <2>2. (k * q) * Ten(MS) \in Nat /\ (Figures.MaxReading * q) * Ten(MS) \in Nat
        /\ (k * q) * Ten(MS) <= (Figures.MaxReading * q) * Ten(MS)
    <3> DEFINE n == k * q
               m == Figures.MaxReading * q
    <3>1. n \in Nat /\ m \in Nat /\ n <= m
      BY <1>1, ScaledOrder
    <3> HIDE DEF n, m
    <3>2. n * Ten(MS) \in Nat /\ m * Ten(MS) \in Nat /\ n * Ten(MS) <= m * Ten(MS)
      BY <3>1, FiguresTens, ScaledOrder
    <3> QED BY <3>2 DEF n, m
  <2>3. u <= w
    BY <2>2, FiguresTens, RoundedMonotone DEF TotalUnits
  <2> QED BY <2>1, <2>3
<1>6. Amounts!DecimalAmountProblem(Plain(u, MS), Figures.TotalOptions) = "none"
  <2>1. /\ Amounts!AtMost(Figures.TotalOptions.min, Plain(0, 0))
        /\ Amounts!AtMost(Amounts!FormatMoney(Amounts!Mul(Plain(Figures.MaxReading, ES), Plain(q, PS))),
                          Figures.TotalOptions.max)
    BY AmountsConstants DEF Amounts!FiguresFit, Amounts!TotalAmount, Plain, ES, PS
  <2>2. Amounts!FormatMoney(Amounts!Mul(Plain(Figures.MaxReading, ES), Plain(q, PS))) = Plain(w, MS)
    BY <1>1, DealTotal
  <2>3. Amounts!AtMost(Plain(u, MS), Figures.TotalOptions.max)
    <3>1. Amounts!AtMost(Plain(w, MS), Figures.TotalOptions.max)
      BY <2>1, <2>2
    <3> HIDE DEF u, w
    <3> QED BY <1>1, <1>5, <3>1, LimitsKnown, AtMostMore
  <2>4. Amounts!AtMost(Figures.TotalOptions.min, Plain(u, MS))
    <3> DEFINE v == Figures.TotalOptions.min
               x == Amounts!Signed(v)
    <3>1. v \in Amounts!Spellings /\ x \in Int /\ v.scale \in Nat
      BY LimitsKnown, SpellingFacts DEF Amounts!Signed
    <3>2. x * Ten(0) <= 0 * Ten(v.scale)
      BY <2>1, PlainFacts DEF Amounts!AtMost, Amounts!Signed, Ten
    <3>3. Amounts!AtMost(v, Plain(u, MS)) <=> x * Ten(MS) <= u * Ten(v.scale)
      <4> HIDE DEF u
      <4>1. u \in Nat /\ MS \in Nat
        BY <1>1, <1>5
      <4>2. Plain(u, MS).negative = FALSE /\ Plain(u, MS).units = u /\ Plain(u, MS).scale = MS
        BY <4>1, PlainFacts
      <4> QED BY <4>2 DEF Amounts!AtMost, Amounts!Signed, Ten
    <3> HIDE DEF v, x, u
    <3>4. x <= 0
      <4>1. Ten(v.scale) \in Nat /\ Ten(0) = 1
        BY <3>1, PowersOfTen
      <4> QED BY <3>1, <3>2, <4>1
    <3>5. x * Ten(MS) <= 0 /\ 0 <= u * Ten(v.scale)
      <4>1. Ten(v.scale) \in Nat /\ Ten(MS) \in Nat
        BY <1>1, <3>1, PowersOfTen
      <4> QED BY <1>5, <3>1, <3>4, <4>1
    <3>6. x * Ten(MS) \in Int /\ u * Ten(v.scale) \in Int
      <4>1. Ten(v.scale) \in Nat /\ Ten(MS) \in Nat
        BY <1>1, <3>1, PowersOfTen
      <4> QED BY <1>5, <3>1, <4>1
    <3> QED BY <3>3, <3>5, <3>6 DEF v
  <2>5. ~ (MS > MS) /\ u \in Nat /\ MS \in Nat
    BY <1>1, <1>5
  <2> HIDE DEF u
  <2>6. Plain(u, MS).scale = MS
    BY <2>5, PlainFacts
  <2> QED BY <2>3, <2>4, <2>5, <2>6, LimitsKnown, WithinMeans DEF Amounts!IsDecimalWithin
<1> QED BY <1>2, <1>3, <1>4, <1>6 DEF Amounts!Invalid

LEMMA DealIsPossible ==
  ASSUME NEW k \in Nat \ {0}, NEW q \in Nat \ {0}
  PROVE  ~ Amounts!Impossible(Deal(k, q))
<1>1. /\ Deal(k, q).energyKwh = Plain(k, ES) /\ Deal(k, q).pricePerKwh = Plain(q, PS)
      /\ Deal(k, q).totalAmount = Plain(TotalUnits(k, q), MS)
  BY DealFacts
<1>2. MS \in Nat /\ TotalUnits(k, q) \in Nat
  BY FiguresKnown, TotalUnitsFacts
<1>3. Fixed(Plain(TotalUnits(k, q), MS), MS) = Plain(TotalUnits(k, q), MS)
  BY <1>2, PlainStays
<1>4. Amounts!FormatMoney(Amounts!Mul(Plain(k, ES), Plain(q, PS))) = Plain(TotalUnits(k, q), MS)
  BY DealTotal
<1> QED BY <1>1, <1>3, <1>4 DEF Amounts!Impossible, Amounts!ExpectedTotal, Amounts!FormatMoney,
                               Fixed, MS

-----------------------------------------------------------------------------
(* A request with a key that has been used. *)
LEMMA CanonicalFields ==
  ASSUME NEW dto
  PROVE  /\ Amounts!Canonical(dto).energyKwh = Fixed(dto.energyKwh, ES)
         /\ Amounts!Canonical(dto).pricePerKwh = Fixed(dto.pricePerKwh, PS)
         /\ Amounts!Canonical(dto).totalAmount = Fixed(dto.totalAmount, MS)
         /\ Amounts!Canonical(dto) = [energyKwh |-> Fixed(dto.energyKwh, ES),
                                      pricePerKwh |-> Fixed(dto.pricePerKwh, PS),
                                      totalAmount |-> Fixed(dto.totalAmount, MS)]
BY DEF Amounts!Canonical, Amounts!FormatEnergy, Amounts!FormatPrice, Amounts!FormatMoney,
       Fixed, ES, PS, MS

LEMMA ValidScales ==
  ASSUME NEW dto \in Amounts!Amounts, ~ Amounts!Invalid(dto)
  PROVE  /\ dto.energyKwh \in Amounts!Spellings /\ dto.pricePerKwh \in Amounts!Spellings
         /\ dto.totalAmount \in Amounts!Spellings
         /\ dto.energyKwh.scale <= ES /\ dto.pricePerKwh.scale <= PS /\ dto.totalAmount.scale <= MS
<1>1. /\ dto.energyKwh \in Amounts!Spellings /\ dto.pricePerKwh \in Amounts!Spellings
      /\ dto.totalAmount \in Amounts!Spellings
  BY DEF Amounts!Amounts
<1>2. /\ dto.energyKwh.scale \in Nat /\ dto.pricePerKwh.scale \in Nat
      /\ dto.totalAmount.scale \in Nat
  BY <1>1, SpellingFacts
<1>3. /\ ~ (dto.energyKwh.scale > ES) /\ ~ (dto.pricePerKwh.scale > PS)
      /\ ~ (dto.totalAmount.scale > MS)
  BY WithinMeans, LimitsKnown DEF Amounts!Invalid
<1> QED BY <1>1, <1>2, <1>3, FiguresKnown

(* A well formed request asks for the recorded amounts exactly when it has *)
(* their fingerprint, field by field, and then its total is theirs.        *)
LEMMA RepeatMeans ==
  ASSUME NEW k \in Nat \ {0}, NEW q \in Nat \ {0},
         NEW dto \in Amounts!Amounts, ~ Amounts!Invalid(dto)
  PROVE  LET deal == Deal(k, q)
         IN  /\ \A field \in {"energyKwh", "pricePerKwh", "totalAmount"} :
                   Amounts!SameAmount(dto[field], deal[field])
                     <=> Amounts!Canonical(dto)[field] = Amounts!Canonical(deal)[field]
             /\ Amounts!Fingerprint(dto) = deal
                  <=> \A field \in {"energyKwh", "pricePerKwh", "totalAmount"} :
                          Amounts!SameAmount(dto[field], deal[field])
             /\ Amounts!Fingerprint(dto) = deal => ~ Amounts!Impossible(dto)
<1> DEFINE deal == Deal(k, q)
           e == dto.energyKwh
           p == dto.pricePerKwh
           m == dto.totalAmount
           u == TotalUnits(k, q)
<1>1. /\ e \in Amounts!Spellings /\ p \in Amounts!Spellings /\ m \in Amounts!Spellings
      /\ e.scale <= ES /\ p.scale <= PS /\ m.scale <= MS
  BY ValidScales
<1>2. deal.energyKwh = Plain(k, ES) /\ deal.pricePerKwh = Plain(q, PS) /\ deal.totalAmount = Plain(u, MS)
      /\ deal = [energyKwh |-> Plain(k, ES), pricePerKwh |-> Plain(q, PS), totalAmount |-> Plain(u, MS)]
  BY DealFacts DEF Deal
<1>3. Amounts!Canonical(deal) = deal
  BY DealIsCanonical
<1>4. /\ ES \in Nat /\ PS \in Nat /\ MS \in Nat /\ u \in Nat /\ k \in Nat /\ q \in Nat
  BY FiguresKnown, TotalUnitsFacts
<1>5. /\ Amounts!Canonical(dto).energyKwh = Fixed(e, ES)
      /\ Amounts!Canonical(dto).pricePerKwh = Fixed(p, PS)
      /\ Amounts!Canonical(dto).totalAmount = Fixed(m, MS)
      /\ Amounts!Canonical(dto) = [energyKwh |-> Fixed(e, ES), pricePerKwh |-> Fixed(p, PS),
                                   totalAmount |-> Fixed(m, MS)]
  BY CanonicalFields
<1> HIDE DEF deal, e, p, m, u
<1>6. Amounts!SameAmount(e, Plain(k, ES)) <=> Fixed(e, ES) = Plain(k, ES)
  BY <1>1, <1>4, SameMeans
<1>7. Amounts!SameAmount(p, Plain(q, PS)) <=> Fixed(p, PS) = Plain(q, PS)
  BY <1>1, <1>4, SameMeans
<1>8. Amounts!SameAmount(m, Plain(u, MS)) <=> Fixed(m, MS) = Plain(u, MS)
  BY <1>1, <1>4, SameMeans
<1>9. ASSUME NEW field \in {"energyKwh", "pricePerKwh", "totalAmount"}
      PROVE  Amounts!SameAmount(dto[field], deal[field])
               <=> Amounts!Canonical(dto)[field] = deal[field]
  <2>1. CASE field = "energyKwh"
    BY <1>2, <1>5, <1>6, <2>1 DEF e
  <2>2. CASE field = "pricePerKwh"
    BY <1>2, <1>5, <1>7, <2>2 DEF p
  <2>3. CASE field = "totalAmount"
    BY <1>2, <1>5, <1>8, <2>3 DEF m
  <2> QED BY <2>1, <2>2, <2>3
<1>10. Amounts!Canonical(dto) = deal
         <=> \A field \in {"energyKwh", "pricePerKwh", "totalAmount"} :
                 Amounts!Canonical(dto)[field] = deal[field]
  <2>1. (\A field \in {"energyKwh", "pricePerKwh", "totalAmount"} :
                 Amounts!Canonical(dto)[field] = deal[field])
          => Fixed(e, ES) = Plain(k, ES) /\ Fixed(p, PS) = Plain(q, PS) /\ Fixed(m, MS) = Plain(u, MS)
    BY <1>2, <1>5
  <2> QED BY <1>2, <1>5, <2>1
<1>11. ASSUME Amounts!Canonical(dto) = deal PROVE ~ Amounts!Impossible(dto)
  <2>1. Fixed(e, ES) = Plain(k, ES) /\ Fixed(p, PS) = Plain(q, PS) /\ Fixed(m, MS) = Plain(u, MS)
    BY <1>2, <1>5, <1>11
  <2>2. Fixed(Amounts!Mul(e, p), MS) = Plain(u, MS)
    BY <1>1, <2>1, SameTotal DEF u
  <2> QED BY <2>1, <2>2 DEF Amounts!Impossible, Amounts!ExpectedTotal, Amounts!FormatMoney,
                            Fixed, MS, e, p, m
<1>12. Amounts!Fingerprint(dto) = Amounts!Canonical(dto)
  BY DEF Amounts!Fingerprint
<1> QED BY <1>3, <1>9, <1>10, <1>11, <1>12 DEF deal

(* The ways an amount is rewritten are amounts. *)
LEMMA RewrittenIsSpelled ==
  ASSUME NEW v \in Amounts!Spellings
  PROVE  Amounts!Rewritten(v) \subseteq Amounts!Spellings
<1>1. v.units \in Nat /\ v.scale \in Nat
  BY SpellingFacts
<1>2. [v EXCEPT !.units = @ * 10, !.scale = @ + 1] \in Amounts!Spellings
  <2> DEFINE m == v.units * 10
             z == v.scale + 1
  <2>1. m \in Nat /\ z \in Nat
    BY <1>1
  <2> HIDE DEF m, z
  <2>2. [v EXCEPT !.units = m, !.scale = z] \in Amounts!Spellings
    BY <2>1 DEF Amounts!Spellings
  <2> QED BY <2>2 DEF m, z
<1>3. [v EXCEPT !.units = @ + 1] \in Amounts!Spellings /\ [v EXCEPT !.negative = TRUE] \in Amounts!Spellings
  <2>1. [v EXCEPT !.units = @ + 1] \in Amounts!Spellings
    BY DEF Amounts!Spellings
  <2>2. [v EXCEPT !.negative = TRUE] \in Amounts!Spellings
    BY DEF Amounts!Spellings
  <2> QED BY <2>1, <2>2
<1> DEFINE w == [v EXCEPT !.units = @ \div 10, !.scale = @ - 1]
<1>4. w.scale >= 0 => w \in Amounts!Spellings
  <2> DEFINE m == v.units \div 10
             z == v.scale - 1
  <2>1. m \in Nat /\ z \in Int
    BY <1>1
  <2> HIDE DEF m, z
  <2> DEFINE x == [v EXCEPT !.units = m, !.scale = z]
  <2>2. x.scale = z
    BY DEF Amounts!Spellings
  <2>3. z \in Nat => x \in Amounts!Spellings
    BY <2>1 DEF Amounts!Spellings
  <2> HIDE DEF x
  <2>4. x.scale >= 0 => x \in Amounts!Spellings
    BY <2>1, <2>2, <2>3
  <2> QED BY <2>4 DEF x, m, z
<1> HIDE DEF w
<1>5. Amounts!Rewritten(v)
        = {v, [v EXCEPT !.units = @ * 10, !.scale = @ + 1], [v EXCEPT !.units = @ + 1],
           [v EXCEPT !.negative = TRUE]}
          \cup {x \in {w} : x.scale >= 0 /\ x.units * 10 = v.units}
  BY DEF Amounts!Rewritten, w
<1> QED BY <1>2, <1>3, <1>4, <1>5

(* One amount is rounded once in each total. *)
LEMMA TotalIsClose ==
  ASSUME NEW k \in Nat \ {0}, NEW q \in Nat \ {0}
  PROVE  LET K == Ten(ES + PS - MS)
             m == TotalUnits(k, q)
         IN  /\ K \in Nat \ {0} /\ Ten(ES + PS) = K * Ten(MS) /\ m \in Nat
             /\ (2 * K) * m <= 2 * (k * q) + K /\ 2 * (k * q) <= (2 * K) * m + K
<1> DEFINE K == Ten(ES + PS - MS)
           T == Ten(MS)
           x == k * q
           m == TotalUnits(k, q)
<1>1. ES + PS - MS \in Nat /\ MS \in Nat /\ (ES + PS - MS) + MS = ES + PS
  BY FiguresKnown, LimitsKnown
<1>2. K \in Nat \ {0} /\ T \in Nat \ {0} /\ Ten(ES + PS) = K * T
  BY <1>1, PowersOfTen, TenOfSum
<1>3. x \in Nat
  OBVIOUS
<1>4. m = Half(x * T, Ten(ES + PS))
  BY DEF TotalUnits
<1> HIDE DEF K, T, x, m
<1>5. m = Half(x, K)
  BY <1>2, <1>3, <1>4, RoundedExpanded
<1>6. m \in Nat /\ (2 * K) * m <= 2 * x + K /\ 2 * x < (2 * K) * m + K
  BY <1>2, <1>3, <1>5, Rounded
<1>7. (2 * K) * m \in Int
  BY <1>2, <1>6
<1> QED BY <1>2, <1>3, <1>6, <1>7 DEF K, T, x, m


-----------------------------------------------------------------------------
(* What is known of the figures in every state, and what more is known of  *)
(* them when nothing but meters is listened to.                            *)
RecordOf(t) == [amounts |-> trade[t], requestHash |-> trade[t]]

BookFits(e) ==
    book[e] # Nothing =>
        /\ announced[e] # Nothing
        /\ book[e] = [at |-> book[e].at, original |-> book[e].original, left |-> book[e].left]
        /\ book[e].at \in {"stored", "parked", "overflow"}
        /\ book[e].at = "stored" =>
              book[e].original \in Amounts!Energy /\ book[e].left \in 0 .. book[e].original

AmountInv ==
    /\ announced = [e \in Figures.Events |-> announced[e]]
    /\ book = [e \in Figures.Events |-> book[e]]
    /\ trade = [t \in Figures.Trades |-> trade[t]]
    /\ ledger = [t \in Figures.Trades |-> ledger[t]]
    /\ refusal \in [Figures.Trades -> {Nothing, "invalid", "impossible"}]
    /\ \A e \in Figures.Events :
          announced[e] # Nothing => announced[e].kwh \in Amounts!Spellings
    /\ \A e \in Figures.Events : BookFits(e)
    /\ \A t \in Figures.Trades : trade[t] # Nothing =>
          \E k \in Amounts!Energy \ {0}, q \in Figures.Prices : trade[t] = Deal(k, q)
    /\ \A t \in Figures.Trades : ledger[t] # Nothing => trade[t] # Nothing /\ ledger[t] = RecordOf(t)
    /\ Amounts!RepeatsAreRecognised /\ Amounts!ConflictsAreExplained

MeasuredInv ==
    /\ \A e \in Figures.Events : announced[e] # Nothing =>
          \E u \in 1 .. Figures.MaxReading : announced[e].kwh = Plain(u, ES)
    /\ \A e \in Figures.Events :
          book[e] # Nothing /\ book[e].at = "stored" => book[e].original <= Figures.MaxReading
    /\ \A t \in Figures.Trades : trade[t] # Nothing =>
          \E k \in 1 .. Figures.MaxReading, q \in Figures.Prices : trade[t] = Deal(k, q)
    /\ Amounts!NoTradeIsRefused

AskedFits == Amounts!RepeatsAreRecognised /\ Amounts!ConflictsAreExplained

LEMMA AskedStays == UNCHANGED asked => (AskedFits => AskedFits')
BY DEF AskedFits, Amounts!RepeatsAreRecognised, Amounts!ConflictsAreExplained

LEMMA DealNumbers ==
  ASSUME NEW k \in Amounts!Energy \ {0}, NEW q \in Figures.Prices
  PROVE  k \in Nat \ {0} /\ q \in Nat \ {0}
BY FiguresKnown

LEMMA AmountInit == Amounts!Init => AmountInv /\ MeasuredInv
<1> SUFFICES ASSUME Amounts!Init PROVE AmountInv /\ MeasuredInv
  OBVIOUS
<1>1. /\ announced = [e \in Figures.Events |-> Nothing] /\ book = [e \in Figures.Events |-> Nothing]
      /\ trade = [t \in Figures.Trades |-> Nothing] /\ ledger = [t \in Figures.Trades |-> Nothing]
      /\ refusal = [t \in Figures.Trades |-> Nothing] /\ asked = Nothing
  BY DEF Amounts!Init
<1>2. AskedFits
  BY <1>1 DEF AskedFits, Amounts!RepeatsAreRecognised, Amounts!ConflictsAreExplained
<1>3. AmountInv
  BY <1>1, <1>2 DEF AmountInv, AskedFits, BookFits
<1>4. MeasuredInv
  BY <1>1 DEF MeasuredInv, Amounts!NoTradeIsRefused
<1> QED BY <1>3, <1>4

LEMMA AmountsStay ==
  UNCHANGED amountsVars => (AmountInv => AmountInv') /\ (MeasuredInv => MeasuredInv')
BY DEF amountsVars, AmountInv, MeasuredInv, BookFits, RecordOf, Amounts!NoTradeIsRefused,
       Amounts!RepeatsAreRecognised, Amounts!ConflictsAreExplained

(* A meter's net amount has the decimals of its column already.            *)
LEMMA StatusIsPlain ==
  ASSUME NEW p \in 0 .. Figures.MaxReading, NEW c \in 0 .. Figures.MaxReading,
         Amounts!CalculateEnergyStatus(p, c).status # "BALANCED"
  PROVE  \E u \in 1 .. Figures.MaxReading :
            Amounts!CalculateEnergyStatus(p, c).amount = Plain(u, ES)
<1> DEFINE neg == p < c
           u == IF neg THEN c - p ELSE p - c
           net == [negative |-> neg, scale |-> ES, units |-> u]
<1>1. p \in Nat /\ c \in Nat /\ Figures.MaxReading \in Nat /\ ES \in Nat
      /\ u \in 0 .. Figures.MaxReading /\ u \in Nat
  BY FiguresKnown
<1>2. /\ Amounts!CalculateEnergyStatus(p, c).amount
           = Amounts!FormatEnergy([net EXCEPT !.negative = FALSE])
      /\ Amounts!CalculateEnergyStatus(p, c).status
           = CASE net.units = 0 -> "BALANCED" [] net.negative -> "DEMAND" [] OTHER -> "SURPLUS"
  BY DEF Amounts!CalculateEnergyStatus, ES
<1>3. (u = 0 => ~ neg) /\ neg \in BOOLEAN
  BY <1>1
<1> HIDE DEF neg, u
<1>4. [net EXCEPT !.negative = FALSE] = Plain(u, ES)
  <2> DEFINE w == [net EXCEPT !.negative = FALSE]
  <2>1. w \in Amounts!Spellings /\ w.units = u /\ w.scale = ES
    <3>1. net \in Amounts!Spellings /\ net.units = u /\ net.scale = ES
      BY <1>1, <1>3 DEF Amounts!Spellings
    <3> HIDE DEF net
    <3> QED BY <3>1 DEF Amounts!Spellings
  <2>2. w.negative = FALSE
    BY DEF Amounts!Spellings
  <2> HIDE DEF w
  <2>3. w = [negative |-> w.negative, units |-> w.units, scale |-> w.scale]
    BY <2>1 DEF Amounts!Spellings
  <2>4. w = [negative |-> FALSE, units |-> u, scale |-> ES]
    BY <2>1, <2>2, <2>3, Zenon
  <2> QED BY <2>4 DEF Plain, Amounts!Spelled, w
<1>5. u = 0 => Amounts!CalculateEnergyStatus(p, c).status = "BALANCED"
  <2>1. net.units = u /\ net.negative = neg
    OBVIOUS
  <2> HIDE DEF net
  <2> QED BY <1>2, <1>3, <2>1
<1>6. Amounts!FormatEnergy(Plain(u, ES)) = Plain(u, ES)
  BY <1>1, PlainStays DEF Amounts!FormatEnergy, Fixed, ES
<1> HIDE DEF net
<1>7. u \in 1 .. Figures.MaxReading
  BY <1>1, <1>5
<1> QED BY <1>2, <1>4, <1>6, <1>7

(* An event is announced. *)
LEMMA AnnouncingKeeps ==
  ASSUME AmountInv, NEW e \in Figures.Events, announced[e] = Nothing, NEW said,
         said.kwh \in Amounts!Spellings, announced' = [announced EXCEPT ![e] = said],
         UNCHANGED <<book, trade, refusal, ledger, asked>>
  PROVE  /\ AmountInv'
         /\ MeasuredInv /\ (\E u \in 1 .. Figures.MaxReading : said.kwh = Plain(u, ES)) => MeasuredInv'
<1>1. /\ announced' = [f \in Figures.Events |-> announced'[f]] /\ announced'[e] = said
      /\ \A f \in Figures.Events : f # e => announced'[f] = announced[f]
  BY DEF AmountInv
<1>2. \A f \in Figures.Events : announced'[f] # Nothing => announced'[f].kwh \in Amounts!Spellings
  BY <1>1 DEF AmountInv
<1>3. ASSUME NEW f \in Figures.Events PROVE BookFits(f)'
  <2>1. BookFits(f) /\ BookFits(e)
    BY DEF AmountInv
  <2>2. f = e => book[f] = Nothing
    BY <2>1 DEF BookFits
  <2>3. f # e => announced'[f] = announced[f]
    BY <1>1
  <2> QED BY <2>1, <2>2, <2>3 DEF BookFits
<1>4. AskedFits'
  BY AskedStays DEF AmountInv, AskedFits
<1>5. AmountInv'
  <2>1. /\ trade' = [t \in Figures.Trades |-> trade'[t]] /\ book' = [f \in Figures.Events |-> book'[f]]
        /\ ledger' = [t \in Figures.Trades |-> ledger'[t]]
        /\ refusal' \in [Figures.Trades -> {Nothing, "invalid", "impossible"}]
    BY DEF AmountInv
  <2>2. \A t \in Figures.Trades : trade'[t] # Nothing =>
          \E k \in Amounts!Energy \ {0}, q \in Figures.Prices : trade'[t] = Deal(k, q)
    BY DEF AmountInv
  <2>3. \A t \in Figures.Trades : ledger'[t] # Nothing => trade'[t] # Nothing /\ ledger'[t] = RecordOf(t)'
    BY DEF AmountInv, RecordOf
  <2> QED BY <1>1, <1>2, <1>3, <1>4, <2>1, <2>2, <2>3 DEF AmountInv, AskedFits
<1>6. ASSUME MeasuredInv, \E u \in 1 .. Figures.MaxReading : said.kwh = Plain(u, ES)
      PROVE  MeasuredInv'
  BY <1>1, <1>6 DEF MeasuredInv, Amounts!NoTradeIsRefused
<1> QED BY <1>5, <1>6

LEMMA MeasureKeeps ==
  ASSUME AmountInv, NEW e \in Figures.Events, Amounts!Measure(e)
  PROVE  AmountInv' /\ (MeasuredInv => MeasuredInv')
<1>1. PICK m \in Figures.Measured :
        /\ Amounts!CalculateEnergyStatus(m[1], m[2]).status # "BALANCED"
        /\ announced' = [announced EXCEPT ![e] =
              [side |-> Amounts!CalculateEnergyStatus(m[1], m[2]).status,
               kwh |-> Amounts!CalculateEnergyStatus(m[1], m[2]).amount]]
  BY DEF Amounts!Measure
<1>2. m[1] \in 0 .. Figures.MaxReading /\ m[2] \in 0 .. Figures.MaxReading
  BY FiguresKnown
<1> DEFINE found == Amounts!CalculateEnergyStatus(m[1], m[2])
           said == [side |-> found.status, kwh |-> found.amount]
<1>3. PICK u \in 1 .. Figures.MaxReading : found.amount = Plain(u, ES)
  BY <1>1, <1>2, StatusIsPlain
<1>4. Plain(u, ES) \in Amounts!Spellings
  <2>1. u \in Nat /\ ES \in Nat
    BY FiguresKnown
  <2> QED BY <2>1, PlainFacts
<1>5. said.kwh = Plain(u, ES) /\ announced' = [announced EXCEPT ![e] = said]
  BY <1>1, <1>3
<1>6. announced[e] = Nothing /\ UNCHANGED <<book, trade, refusal, ledger, asked>>
  BY DEF Amounts!Measure
<1> HIDE DEF said
<1> QED BY <1>4, <1>5, <1>6, AnnouncingKeeps

LEMMA HandCraftKeeps ==
  ASSUME AmountInv, NEW e \in Figures.Events, Amounts!HandCraft(e)
  PROVE  AmountInv'
<1>1. PICK v \in Figures.HandMade, side \in {"SURPLUS", "DEMAND"} :
        announced' = [announced EXCEPT ![e] = [side |-> side, kwh |-> v]]
  BY DEF Amounts!HandCraft
<1> DEFINE said == [side |-> side, kwh |-> v]
<1>2. said.kwh \in Amounts!Spellings /\ announced' = [announced EXCEPT ![e] = said]
  BY <1>1, FiguresKnown
<1>3. announced[e] = Nothing /\ UNCHANGED <<book, trade, refusal, ledger, asked>>
  BY DEF Amounts!HandCraft
<1> HIDE DEF said
<1> QED BY <1>2, <1>3, AnnouncingKeeps

(* The consumer and the database. *)
LEMMA ConsumeKeeps ==
  ASSUME AmountInv, NEW e \in Figures.Events, Amounts!Consume(e)
  PROVE  AmountInv' /\ (MeasuredInv => MeasuredInv')
<1> DEFINE stored == Amounts!FormatEnergy(announced[e].kwh).units
           at == IF ~ Amounts!IsPositiveEnergy(announced[e].kwh) THEN "parked"
                 ELSE IF stored \in Amounts!Energy THEN "stored" ELSE "overflow"
           entry == [at |-> at, original |-> stored, left |-> stored]
<1>1. /\ announced[e] # Nothing /\ book[e] = Nothing /\ book' = [book EXCEPT ![e] = entry]
      /\ UNCHANGED <<announced, trade, refusal, ledger, asked>>
  BY DEF Amounts!Consume
<1>2. announced[e].kwh \in Amounts!Spellings
  BY <1>1 DEF AmountInv
<1>3. stored = Fixed(announced[e].kwh, ES).units
  BY DEF Amounts!FormatEnergy, Fixed, ES
<1>4. stored \in Nat
  BY <1>2, <1>3, FixedFacts, FiguresKnown, SpellingFacts
<1>5. at \in {"stored", "parked", "overflow"} /\ (at = "stored" => stored \in Amounts!Energy)
  OBVIOUS
<1>6. entry = [at |-> entry.at, original |-> entry.original, left |-> entry.left]
      /\ entry.at = at /\ entry.original = stored /\ entry.left = stored
  OBVIOUS
<1> HIDE DEF stored, at, entry
<1>7. /\ book' = [f \in Figures.Events |-> book'[f]] /\ book'[e] = entry
      /\ \A f \in Figures.Events : f # e => book'[f] = book[f]
  BY <1>1 DEF AmountInv
<1>8. ASSUME NEW f \in Figures.Events PROVE BookFits(f)'
  <2>1. CASE f = e
    BY <1>1, <1>4, <1>5, <1>6, <1>7, <2>1 DEF BookFits
  <2>2. CASE f # e
    <3>1. BookFits(f) /\ book'[f] = book[f] /\ announced'[f] = announced[f]
      BY <1>1, <1>7, <2>2 DEF AmountInv
    <3> QED BY <3>1 DEF BookFits
  <2> QED BY <2>1, <2>2
<1>9. AskedFits'
  BY <1>1, AskedStays DEF AmountInv, AskedFits
<1>10. AmountInv'
  <2>1. /\ announced' = [f \in Figures.Events |-> announced'[f]]
        /\ trade' = [t \in Figures.Trades |-> trade'[t]]
        /\ ledger' = [t \in Figures.Trades |-> ledger'[t]]
        /\ refusal' \in [Figures.Trades -> {Nothing, "invalid", "impossible"}]
    BY <1>1 DEF AmountInv
  <2>2. /\ \A f \in Figures.Events :
              announced'[f] # Nothing => announced'[f].kwh \in Amounts!Spellings
        /\ \A t \in Figures.Trades : trade'[t] # Nothing =>
              \E k \in Amounts!Energy \ {0}, q \in Figures.Prices : trade'[t] = Deal(k, q)
    BY <1>1 DEF AmountInv
  <2>3. \A t \in Figures.Trades : ledger'[t] # Nothing => trade'[t] # Nothing /\ ledger'[t] = RecordOf(t)'
    BY <1>1 DEF AmountInv, RecordOf
  <2> QED BY <1>7, <1>8, <1>9, <2>1, <2>2, <2>3 DEF AmountInv, AskedFits
<1>11. ASSUME MeasuredInv PROVE MeasuredInv'
  <2>1. PICK u \in 1 .. Figures.MaxReading : announced[e].kwh = Plain(u, ES)
    BY <1>1, <1>11 DEF MeasuredInv
  <2>2. stored = u /\ u <= Figures.MaxReading
    <3>1. u \in Nat /\ ES \in Nat /\ u <= Figures.MaxReading
      BY FiguresKnown
    <3>2. Fixed(Plain(u, ES), ES) = Plain(u, ES)
      BY <3>1, PlainStays
    <3>3. Plain(u, ES).units = u
      BY <3>1, PlainFacts
    <3> QED BY <1>3, <2>1, <3>1, <3>2, <3>3
  <2>3. \A f \in Figures.Events :
           book'[f] # Nothing /\ book'[f].at = "stored" => book'[f].original <= Figures.MaxReading
    BY <1>6, <1>7, <1>11, <2>2 DEF MeasuredInv
  <2> QED BY <1>1, <1>11, <2>3 DEF MeasuredInv, Amounts!NoTradeIsRefused
<1> QED BY <1>10, <1>11

(* Trade matching. *)
LEMMA LesserOfTwo ==
  ASSUME NEW a \in Int, NEW b \in Int
  PROVE  LET m == Amounts!Min({a, b}) IN m \in {a, b} /\ m <= a /\ m <= b
<1>1. \E x \in {a, b} : \A y \in {a, b} : x <= y
  <2>1. CASE a <= b
    BY <2>1
  <2>2. CASE ~ (a <= b)
    BY <2>2
  <2> QED BY <2>1, <2>2
<1> DEFINE m == Amounts!Min({a, b})
<1>2. m = CHOOSE x \in {a, b} : \A y \in {a, b} : x <= y
  BY DEF Amounts!Min
<1> HIDE DEF m
<1>3. m \in {a, b} /\ \A y \in {a, b} : m <= y
  BY <1>1, <1>2
<1> QED BY <1>3 DEF m

LEMMA ReserveKeeps ==
  ASSUME AmountInv, NEW t \in Figures.Trades, Amounts!Reserve(t)
  PROVE  AmountInv' /\ (MeasuredInv => MeasuredInv')
<1>1. PICK o \in Amounts!Open("SURPLUS"), r \in Amounts!Open("DEMAND"), q \in Figures.Prices :
        LET kwh == Amounts!Min({book[o].left, book[r].left})
            energy == Amounts!Spelled(kwh, Figures.EnergyScale)
        IN  /\ trade' = [trade EXCEPT ![t] =
                  [energyKwh |-> energy, pricePerKwh |-> Amounts!Spelled(q, Figures.PriceScale),
                   totalAmount |-> Amounts!TotalAmount(energy, Amounts!Spelled(q, Figures.PriceScale))]]
            /\ book' = [book EXCEPT ![o].left = @ - kwh, ![r].left = @ - kwh]
  BY DEF Amounts!Reserve
<1> DEFINE kwh == Amounts!Min({book[o].left, book[r].left})
<1>2. /\ o \in Figures.Events /\ r \in Figures.Events /\ o # r
      /\ book[o] # Nothing /\ book[r] # Nothing /\ book[o].at = "stored" /\ book[r].at = "stored"
      /\ book[o].left > 0 /\ book[r].left > 0
  BY DEF Amounts!Open, Amounts!Stored
<1>3. BookFits(o) /\ BookFits(r)
  BY <1>2 DEF AmountInv
<1>4. /\ book[o].original \in Nat /\ book[o].left \in 0 .. book[o].original
      /\ book[r].original \in Nat /\ book[r].left \in 0 .. book[r].original
      /\ book[o].original \in Amounts!Energy
      /\ \A i \in 1 .. book[o].original : i \in Amounts!Energy \ {0}
  BY <1>2, <1>3, FiguresKnown DEF BookFits
<1>5. /\ kwh \in 1 .. book[o].original /\ kwh <= book[o].left /\ kwh <= book[r].left
      /\ kwh \in Amounts!Energy \ {0}
  <2>1. book[o].left \in Int /\ book[r].left \in Int
    BY <1>4
  <2>2. kwh \in {book[o].left, book[r].left} /\ kwh <= book[o].left /\ kwh <= book[r].left
    BY <2>1, LesserOfTwo
  <2> HIDE DEF kwh
  <2> QED BY <1>2, <1>4, <2>2
<1>6. /\ trade' = [trade EXCEPT ![t] =
             [energyKwh |-> Plain(kwh, ES), pricePerKwh |-> Plain(q, PS),
              totalAmount |-> Amounts!FormatMoney(Amounts!Mul(Plain(kwh, ES), Plain(q, PS)))]]
      /\ book' = [book EXCEPT ![o].left = @ - kwh, ![r].left = @ - kwh]
  BY <1>1 DEF Amounts!TotalAmount, Plain, ES, PS
<1> HIDE DEF kwh
<1>7. trade' = [trade EXCEPT ![t] = Deal(kwh, q)]
  <2>1. kwh \in Nat \ {0} /\ q \in Nat \ {0}
    BY <1>5, DealNumbers
  <2>2. Amounts!FormatMoney(Amounts!Mul(Plain(kwh, ES), Plain(q, PS))) = Plain(TotalUnits(kwh, q), MS)
    BY <2>1, DealTotal
  <2> QED BY <1>6, <2>2 DEF Deal
<1>8. /\ trade' = [s \in Figures.Trades |-> trade'[s]] /\ trade'[t] = Deal(kwh, q)
      /\ \A s \in Figures.Trades : s # t => trade'[s] = trade[s]
  BY <1>7 DEF AmountInv
<1>9. /\ book' = [f \in Figures.Events |-> book'[f]]
      /\ \A f \in Figures.Events : f # o /\ f # r => book'[f] = book[f]
      /\ book'[o] = [book[o] EXCEPT !.left = @ - kwh] /\ book'[r] = [book[r] EXCEPT !.left = @ - kwh]
  BY <1>2, <1>6 DEF AmountInv
<1>10. /\ trade[t] = Nothing
       /\ UNCHANGED announced /\ UNCHANGED refusal /\ UNCHANGED ledger /\ UNCHANGED asked
  BY DEF Amounts!Reserve
<1>11. \A f \in Figures.Events : BookFits(f)
  BY DEF AmountInv
<1>12. ASSUME NEW f \in {o, r}
       PROVE  /\ BookFits(f)' /\ book'[f].original = book[f].original /\ book[f] # Nothing
              /\ book[f].at = "stored"
  <2>1. /\ book[f] = [at |-> book[f].at, original |-> book[f].original, left |-> book[f].left]
        /\ book[f].at = "stored" /\ book[f] # Nothing /\ announced[f] # Nothing
        /\ book[f].original \in Amounts!Energy /\ f \in Figures.Events
    BY <1>2, <1>3 DEF BookFits
  <2> DEFINE left == book[f].left - kwh
  <2>2. left \in 0 .. book[f].original
    BY <1>4, <1>5
  <2>3. book'[f] = [book[f] EXCEPT !.left = left]
    BY <1>9
  <2> HIDE DEF left
  <2>4. book'[f] = [at |-> "stored", original |-> book[f].original, left |-> left]
    BY <2>1, <2>3
  <2> QED BY <1>10, <2>1, <2>2, <2>4 DEF BookFits
<1>13. \A f \in Figures.Events : BookFits(f)'
  <2> SUFFICES ASSUME NEW f \in Figures.Events, f # o, f # r PROVE BookFits(f)'
    BY <1>12
  <2>1. BookFits(f) /\ book'[f] = book[f] /\ announced'[f] = announced[f]
    BY <1>9, <1>10, <1>11
  <2> QED BY <2>1 DEF BookFits
<1>14. AskedFits'
  BY <1>10, AskedStays DEF AmountInv, AskedFits
<1>15. AmountInv'
  <2>1. /\ announced' = [f \in Figures.Events |-> announced'[f]]
        /\ ledger' = [s \in Figures.Trades |-> ledger'[s]]
        /\ refusal' \in [Figures.Trades -> {Nothing, "invalid", "impossible"}]
        /\ \A f \in Figures.Events :
              announced'[f] # Nothing => announced'[f].kwh \in Amounts!Spellings
    BY <1>10 DEF AmountInv
  <2>2. ASSUME NEW s \in Figures.Trades, trade'[s] # Nothing
        PROVE  \E k \in Amounts!Energy \ {0}, p \in Figures.Prices : trade'[s] = Deal(k, p)
    <3>1. CASE s = t
      <4>1. trade'[s] = Deal(kwh, q) /\ kwh \in Amounts!Energy \ {0}
        BY <1>5, <1>8, <3>1
      <4> QED BY <4>1, Zenon
    <3>2. CASE s # t
      <4>1. trade'[s] = trade[s] /\ trade[s] # Nothing
        BY <1>8, <2>2, <3>2
      <4>2. \E k \in Amounts!Energy \ {0}, p \in Figures.Prices : trade[s] = Deal(k, p)
        BY <4>1, Zenon DEF AmountInv
      <4> QED BY <4>1, <4>2, Zenon
    <3> QED BY <3>1, <3>2
  <2>3. ASSUME NEW s \in Figures.Trades, ledger'[s] # Nothing
        PROVE  trade'[s] # Nothing /\ ledger'[s] = RecordOf(s)'
    <3>1. trade[s] # Nothing /\ ledger[s] = RecordOf(s) /\ ledger'[s] = ledger[s]
      BY <1>10, <2>3 DEF AmountInv
    <3>2. trade'[s] = trade[s]
      BY <1>8, <1>10, <3>1
    <3> QED BY <3>1, <3>2 DEF RecordOf
  <2> QED BY <1>8, <1>9, <1>13, <1>14, <2>1, <2>2, <2>3 DEF AmountInv, AskedFits
<1>16. ASSUME MeasuredInv PROVE MeasuredInv'
  <2>1. book[o].original <= Figures.MaxReading
    BY <1>2, <1>16 DEF MeasuredInv
  <2>2. kwh \in 1 .. Figures.MaxReading
    BY <1>4, <1>5, <2>1, FiguresKnown
  <2>3. \A s \in Figures.Trades : trade'[s] # Nothing =>
           \E k \in 1 .. Figures.MaxReading, p \in Figures.Prices : trade'[s] = Deal(k, p)
    BY <1>8, <1>16, <2>2 DEF MeasuredInv
  <2>4. ASSUME NEW f \in Figures.Events, book'[f] # Nothing, book'[f].at = "stored"
        PROVE  book'[f].original <= Figures.MaxReading
    <3>1. CASE f \in {o, r}
      BY <1>12, <1>16, <2>4, <3>1 DEF MeasuredInv
    <3>2. CASE f \notin {o, r}
      BY <1>9, <1>16, <2>4, <3>2 DEF MeasuredInv
    <3> QED BY <3>1, <3>2
  <2> QED BY <1>10, <1>16, <2>3, <2>4 DEF MeasuredInv, Amounts!NoTradeIsRefused
<1> QED BY <1>15, <1>16

(* Billing. *)
LEMMA RequestIsTheTrade ==
  ASSUME NEW t, NEW k \in Nat \ {0}, NEW q \in Nat \ {0}, trade[t] = Deal(k, q)
  PROVE  Amounts!Request(t) = trade[t] /\ Amounts!Fingerprint(trade[t]) = trade[t]
<1>1. Amounts!Canonical(trade[t]) = trade[t]
  BY DealIsCanonical
<1>2. Amounts!Request(t) = Amounts!Canonical(trade[t])
  BY DEF Amounts!Request, Amounts!Canonical
<1> QED BY <1>1, <1>2 DEF Amounts!Fingerprint

LEMMA AnswerMeans ==
  ASSUME NEW dto, NEW existing
  PROVE  LET reply == Amounts!Answer(dto, existing)
         IN  /\ Amounts!Invalid(dto) => reply = "invalid"
             /\ ~ Amounts!Invalid(dto) /\ Amounts!Impossible(dto) => reply = "impossible"
             /\ ~ Amounts!Invalid(dto) /\ ~ Amounts!Impossible(dto) =>
                   reply = IF existing = Nothing THEN "recorded"
                            ELSE IF existing.requestHash # Amounts!Fingerprint(dto)
                                 THEN "conflict" ELSE "replayed"
BY DEF Amounts!Answer

LEMMA BillKeeps ==
  ASSUME AmountInv, NEW t \in Figures.Trades, Amounts!Bill(t)
  PROVE  AmountInv' /\ (MeasuredInv => MeasuredInv')
<1> DEFINE reply == Amounts!Answer(Amounts!Request(t), Nothing)
<1>1. /\ trade[t] # Nothing /\ ledger[t] = Nothing
      /\ UNCHANGED announced /\ UNCHANGED book /\ UNCHANGED trade /\ UNCHANGED asked
  BY DEF Amounts!Bill
<1>2. PICK k \in Amounts!Energy \ {0}, q \in Figures.Prices : trade[t] = Deal(k, q)
  BY <1>1 DEF AmountInv
<1>3. k \in Nat \ {0} /\ q \in Nat \ {0}
  BY DealNumbers
<1>4. Amounts!Request(t) = trade[t] /\ Amounts!Fingerprint(trade[t]) = trade[t]
  BY <1>2, <1>3, RequestIsTheTrade
<1>5. IF reply = "recorded"
      THEN ledger' = [ledger EXCEPT ![t] = RecordOf(t)] /\ refusal' = refusal
      ELSE refusal' = [refusal EXCEPT ![t] = reply] /\ ledger' = ledger
  BY <1>4 DEF Amounts!Bill, RecordOf
<1>6. reply \in {"recorded", "invalid", "impossible"}
  BY AnswerMeans
<1>7. AskedFits'
  BY <1>1, AskedStays DEF AmountInv, AskedFits
<1>8. /\ announced' = [e \in Figures.Events |-> announced'[e]]
      /\ book' = [e \in Figures.Events |-> book'[e]]
      /\ trade' = [s \in Figures.Trades |-> trade'[s]]
      /\ \A e \in Figures.Events :
            announced'[e] # Nothing => announced'[e].kwh \in Amounts!Spellings
      /\ \A s \in Figures.Trades : trade'[s] # Nothing =>
            \E n \in Amounts!Energy \ {0}, p \in Figures.Prices : trade'[s] = Deal(n, p)
  BY <1>1 DEF AmountInv
<1>9. \A e \in Figures.Events : BookFits(e)'
  <2>1. \A e \in Figures.Events : BookFits(e)
    BY DEF AmountInv
  <2> QED BY <1>1, <2>1 DEF BookFits
<1>10. \A s \in Figures.Trades : RecordOf(s)' = RecordOf(s)
  BY <1>1 DEF RecordOf
<1>11. /\ ledger = [s \in Figures.Trades |-> ledger[s]]
       /\ refusal \in [Figures.Trades -> {Nothing, "invalid", "impossible"}]
       /\ \A s \in Figures.Trades : ledger[s] # Nothing => trade[s] # Nothing /\ ledger[s] = RecordOf(s)
  BY DEF AmountInv
<1> HIDE DEF reply
<1>12. CASE reply = "recorded"
  <2>1. ledger' = [ledger EXCEPT ![t] = RecordOf(t)] /\ refusal' = refusal
    BY <1>5, <1>12
  <2>2. /\ ledger' = [s \in Figures.Trades |-> ledger'[s]] /\ ledger'[t] = RecordOf(t)
        /\ \A s \in Figures.Trades : s # t => ledger'[s] = ledger[s]
    BY <1>11, <2>1
  <2>3. \A s \in Figures.Trades : ledger'[s] # Nothing => trade'[s] # Nothing /\ ledger'[s] = RecordOf(s)'
    BY <1>1, <1>10, <1>11, <2>2
  <2>4. refusal' \in [Figures.Trades -> {Nothing, "invalid", "impossible"}]
    BY <1>11, <2>1
  <2>5. AmountInv'
    BY <1>7, <1>8, <1>9, <2>2, <2>3, <2>4 DEF AmountInv, AskedFits
  <2>6. MeasuredInv => MeasuredInv'
    BY <1>1, <2>1 DEF MeasuredInv, Amounts!NoTradeIsRefused
  <2> QED BY <2>5, <2>6
<1>13. CASE reply # "recorded"
  <2>1. refusal' = [refusal EXCEPT ![t] = reply] /\ ledger' = ledger
    BY <1>5, <1>13
  <2>2. refusal' \in [Figures.Trades -> {Nothing, "invalid", "impossible"}]
    BY <1>6, <1>11, <1>13, <2>1
  <2>3. ledger' = [s \in Figures.Trades |-> ledger'[s]]
        /\ \A s \in Figures.Trades : ledger'[s] # Nothing => trade'[s] # Nothing /\ ledger'[s] = RecordOf(s)'
    BY <1>1, <1>10, <1>11, <2>1
  <2>4. AmountInv'
    BY <1>7, <1>8, <1>9, <2>2, <2>3 DEF AmountInv, AskedFits
  <2>5. ~ MeasuredInv
    <3> SUFFICES ASSUME MeasuredInv PROVE FALSE
      OBVIOUS
    <3>1. PICK n \in 1 .. Figures.MaxReading, p \in Figures.Prices : trade[t] = Deal(n, p)
      BY <1>1 DEF MeasuredInv
    <3>2. n \in Nat \ {0} /\ p \in Nat \ {0}
      BY FiguresKnown
    <3>3. ~ Amounts!Invalid(trade[t]) /\ ~ Amounts!Impossible(trade[t])
      BY <3>1, <3>2, DealIsValid, DealIsPossible
    <3>4. reply = "recorded"
      BY <1>4, <3>3, AnswerMeans DEF reply
    <3> QED BY <1>13, <3>4
  <2> QED BY <2>4, <2>5
<1> QED BY <1>12, <1>13

LEMMA AskAgainKeeps ==
  ASSUME AmountInv, NEW t \in Figures.Trades, Amounts!AskAgain(t)
  PROVE  AmountInv'
<1>1. /\ ledger[t] # Nothing
      /\ UNCHANGED announced /\ UNCHANGED book /\ UNCHANGED trade /\ UNCHANGED refusal
      /\ UNCHANGED ledger
  BY DEF Amounts!AskAgain, Amounts!Recorded
<1>2. trade[t] # Nothing /\ ledger[t] = RecordOf(t)
  BY <1>1 DEF AmountInv
<1>3. ledger[t].amounts = trade[t] /\ ledger[t].requestHash = trade[t]
  BY <1>2 DEF RecordOf
<1>4. PICK k \in Amounts!Energy \ {0}, q \in Figures.Prices : trade[t] = Deal(k, q)
  BY <1>2 DEF AmountInv
<1>5. k \in Nat \ {0} /\ q \in Nat \ {0}
  BY DealNumbers
<1>6. trade[t] \in Amounts!Amounts /\ Amounts!Canonical(trade[t]) = trade[t]
  BY <1>4, <1>5, DealFacts, DealIsCanonical
<1>7. PICK e \in Amounts!Rewritten(trade[t].energyKwh), p \in Amounts!Rewritten(trade[t].pricePerKwh),
           m \in Amounts!Rewritten(trade[t].totalAmount) :
        LET dto == [energyKwh |-> e, pricePerKwh |-> p, totalAmount |-> m]
        IN  asked' = [stored |-> trade[t], dto |-> dto, answer |-> Amounts!Answer(dto, ledger[t]),
                      fields |-> Amounts!DifferingFields(trade[t], dto)]
  BY <1>3 DEF Amounts!AskAgain
<1> DEFINE dto == [energyKwh |-> e, pricePerKwh |-> p, totalAmount |-> m]
           reply == Amounts!Answer(dto, ledger[t])
           fields == Amounts!DifferingFields(trade[t], dto)
           Fields == {"energyKwh", "pricePerKwh", "totalAmount"}
<1>8. e \in Amounts!Spellings /\ p \in Amounts!Spellings /\ m \in Amounts!Spellings
  <2>1. /\ trade[t].energyKwh \in Amounts!Spellings /\ trade[t].pricePerKwh \in Amounts!Spellings
        /\ trade[t].totalAmount \in Amounts!Spellings
    BY <1>6 DEF Amounts!Amounts
  <2> QED BY <2>1, RewrittenIsSpelled
<1>9. dto \in Amounts!Amounts /\ DOMAIN dto = Fields
  BY <1>8 DEF Amounts!Amounts
<1>10. asked' = [stored |-> trade[t], dto |-> dto, answer |-> reply, fields |-> fields]
  BY <1>7
<1>11. fields = {field \in Fields :
                    Amounts!Canonical(trade[t])[field] # Amounts!Canonical(dto)[field]}
  BY <1>9 DEF Amounts!DifferingFields
<1> HIDE DEF dto, fields
<1>12. /\ Amounts!Invalid(dto) => reply = "invalid"
       /\ ~ Amounts!Invalid(dto) /\ Amounts!Impossible(dto) => reply = "impossible"
       /\ ~ Amounts!Invalid(dto) /\ ~ Amounts!Impossible(dto) =>
             reply = IF trade[t] # Amounts!Fingerprint(dto) THEN "conflict" ELSE "replayed"
  BY <1>1, <1>3, AnswerMeans
<1> HIDE DEF reply
<1>13. ASSUME ~ Amounts!Invalid(dto)
       PROVE  /\ \A field \in Fields :
                    Amounts!SameAmount(dto[field], trade[t][field])
                      <=> Amounts!Canonical(dto)[field] = Amounts!Canonical(trade[t])[field]
              /\ Amounts!Fingerprint(dto) = trade[t]
                   <=> \A field \in Fields : Amounts!SameAmount(dto[field], trade[t][field])
              /\ Amounts!Fingerprint(dto) = trade[t] => ~ Amounts!Impossible(dto)
  BY <1>4, <1>5, <1>9, <1>13, RepeatMeans
<1>14. reply = "replayed"
         <=> ~ Amounts!Invalid(dto)
             /\ \A field \in DOMAIN dto : Amounts!SameAmount(dto[field], trade[t][field])
  BY <1>9, <1>12, <1>13
<1>15. reply = "conflict" =>
         fields = {field \in DOMAIN dto : ~ Amounts!SameAmount(dto[field], trade[t][field])}
  <2> SUFFICES ASSUME reply = "conflict"
               PROVE  fields = {field \in Fields : ~ Amounts!SameAmount(dto[field], trade[t][field])}
    BY <1>9
  <2>1. ~ Amounts!Invalid(dto)
    BY <1>12
  <2>2. \A field \in Fields :
           Amounts!SameAmount(dto[field], trade[t][field])
             <=> Amounts!Canonical(dto)[field] = Amounts!Canonical(trade[t])[field]
    BY <1>13, <2>1
  <2> HIDE DEF Fields
  <2> QED BY <1>11, <2>2
<1>16. /\ asked'.stored = trade[t] /\ asked'.dto = dto /\ asked'.answer = reply
       /\ asked'.fields = fields
  BY <1>10
<1>17. Amounts!RepeatsAreRecognised' /\ Amounts!ConflictsAreExplained'
  BY <1>14, <1>15, <1>16 DEF Amounts!RepeatsAreRecognised, Amounts!ConflictsAreExplained,
     Amounts!Invalid
<1>18. \A f \in Figures.Events : BookFits(f)'
  <2>1. \A f \in Figures.Events : BookFits(f)
    BY DEF AmountInv
  <2> QED BY <1>1, <2>1 DEF BookFits
<1>19. \A s \in Figures.Trades : ledger'[s] # Nothing => trade'[s] # Nothing /\ ledger'[s] = RecordOf(s)'
  BY <1>1 DEF AmountInv, RecordOf
<1>20. /\ announced' = [f \in Figures.Events |-> announced'[f]]
       /\ book' = [f \in Figures.Events |-> book'[f]]
       /\ trade' = [s \in Figures.Trades |-> trade'[s]]
       /\ ledger' = [s \in Figures.Trades |-> ledger'[s]]
       /\ refusal' \in [Figures.Trades -> {Nothing, "invalid", "impossible"}]
       /\ \A f \in Figures.Events :
             announced'[f] # Nothing => announced'[f].kwh \in Amounts!Spellings
       /\ \A s \in Figures.Trades : trade'[s] # Nothing =>
             \E n \in Amounts!Energy \ {0}, c \in Figures.Prices : trade'[s] = Deal(n, c)
  BY <1>1 DEF AmountInv
<1> QED BY <1>17, <1>18, <1>19, <1>20 DEF AmountInv

-----------------------------------------------------------------------------
(* What is recorded, added up. *)
Sold == Amounts!Recorded
SoldUnits == [t \in Sold |-> trade[t].energyKwh.units]
SoldExactly == [t \in Sold |-> trade[t].energyKwh.units * trade[t].pricePerKwh.units]
SoldFor == [t \in Sold |-> trade[t].totalAmount.units]

LEMMA AmountSums ==
  /\ Amounts!SumOfEnergy = SumOver(SoldUnits, Sold)
  /\ Amounts!SumOfTotals = SumOver(SoldFor, Sold)
  /\ Amounts!SumFunction(SoldExactly) = SumOver(SoldExactly, Sold)
<1>1. \A f : Amounts!SumFunction(f) = SumOver(f, DOMAIN f)
  BY DEF Amounts!SumFunction, Amounts!SumFunctionOnSet, Amounts!FoldFunctionOnSet,
         Amounts!MapThenFoldSet, SumOver, SumStep, Chosen
<1>2. DOMAIN SoldUnits = Sold /\ DOMAIN SoldFor = Sold /\ DOMAIN SoldExactly = Sold
  BY DEF SoldUnits, SoldFor, SoldExactly
<1>3. /\ Amounts!SumOfEnergy = Amounts!SumFunction(SoldUnits)
      /\ Amounts!SumOfTotals = Amounts!SumFunction(SoldFor)
  BY DEF Amounts!SumOfEnergy, Amounts!SumOfTotals, SoldUnits, SoldFor, Sold
<1> QED BY <1>1, <1>2, <1>3

LEMMA AmountCardinality == \A S : Amounts!Cardinality(S) = Cardinality(S)
BY DEF Amounts!Cardinality, Cardinality, Amounts!IsFiniteSet, IsFiniteSet

LEMMA SoldTerms ==
  ASSUME AmountInv, NEW t \in Sold
  PROVE  LET K == Ten(ES + PS - MS)
         IN  /\ SoldUnits[t] \in Nat \ {0} /\ SoldExactly[t] \in Nat /\ SoldFor[t] \in Nat
             /\ (2 * K) * SoldFor[t] <= 2 * SoldExactly[t] + K
             /\ 2 * SoldExactly[t] <= (2 * K) * SoldFor[t] + K
<1>1. t \in Figures.Trades /\ trade[t] # Nothing
  BY DEF AmountInv, Sold, Amounts!Recorded
<1>2. PICK k \in Amounts!Energy \ {0}, q \in Figures.Prices : trade[t] = Deal(k, q)
  BY <1>1 DEF AmountInv
<1>3. k \in Nat \ {0} /\ q \in Nat \ {0}
  BY DealNumbers
<1>4. /\ trade[t].energyKwh.units = k /\ trade[t].pricePerKwh.units = q
      /\ trade[t].totalAmount.units = TotalUnits(k, q)
  BY <1>2, <1>3, DealFacts
<1>5. SoldUnits[t] = k /\ SoldExactly[t] = k * q /\ SoldFor[t] = TotalUnits(k, q)
  BY <1>4 DEF SoldUnits, SoldExactly, SoldFor
<1>6. k * q \in Nat
  BY <1>3
<1> QED BY <1>3, <1>5, <1>6, TotalIsClose

(* The sum of the totals is as far from the exact one as so many roundings *)
(* explain.                                                                *)
LEMMA SumsAreClose ==
  ASSUME AmountInv
  PROVE  LET K == Ten(ES + PS - MS)
             T == Amounts!SumOfTotals
             X == SumOver(SoldExactly, Sold)
             n == Cardinality(Sold)
         IN  /\ T \in Nat /\ X \in Nat /\ n \in Nat /\ K \in Nat \ {0}
             /\ (2 * K) * T <= 2 * X + n * K /\ 2 * X <= (2 * K) * T + n * K
<1> DEFINE K == Ten(ES + PS - MS)
           doubled == [t \in Sold |-> 2 * SoldExactly[t]]
           scaled == [t \in Sold |-> (2 * K) * SoldFor[t]]
           one == [t \in Sold |-> 1]
           slack == [t \in Sold |-> K * one[t]]
           above == [t \in Sold |-> doubled[t] + slack[t]]
           beyond == [t \in Sold |-> scaled[t] + slack[t]]
<1>1. IsFiniteSet(Sold) /\ Cardinality(Sold) \in Nat
  <2>1. Sold \subseteq Figures.Trades
    BY DEF Sold, Amounts!Recorded
  <2> QED BY <2>1, FiguresKnown, FS_Subset, FS_CardinalityType
<1>2. K \in Nat \ {0} /\ 2 * K \in Int /\ K \in Int
  <2>1. ES + PS - MS \in Nat
    BY FiguresKnown, LimitsKnown
  <2>2. K \in Nat \ {0}
    BY <2>1, PowersOfTen
  <2> HIDE DEF K
  <2> QED BY <2>2
<1>3. \A t \in Sold : /\ SoldExactly[t] \in Nat /\ SoldFor[t] \in Nat
                      /\ (2 * K) * SoldFor[t] <= 2 * SoldExactly[t] + K
                      /\ 2 * SoldExactly[t] <= (2 * K) * SoldFor[t] + K
  BY SoldTerms
<1> HIDE DEF K
<1>4. \A t \in Sold : one[t] \in Int /\ slack[t] = K * one[t] /\ slack[t] = K /\ slack[t] \in Int
  BY <1>2
<1>5. \A t \in Sold : doubled[t] = 2 * SoldExactly[t] /\ doubled[t] \in Int /\ SoldExactly[t] \in Int
  BY <1>3
<1>6. \A t \in Sold : scaled[t] = (2 * K) * SoldFor[t] /\ scaled[t] \in Int /\ SoldFor[t] \in Int
  BY <1>2, <1>3
<1>7. \A t \in Sold : /\ above[t] = doubled[t] + slack[t] /\ beyond[t] = scaled[t] + slack[t]
                      /\ above[t] \in Int /\ beyond[t] \in Int
  <2> HIDE DEF doubled, scaled, slack
  <2> QED BY <1>4, <1>5, <1>6
<1>8. \A t \in Sold : scaled[t] <= above[t] /\ doubled[t] <= beyond[t]
  <2> HIDE DEF doubled, scaled, slack, above, beyond
  <2> QED BY <1>3, <1>4, <1>5, <1>6, <1>7
<1>9. SumOver(one, Sold) = Cardinality(Sold)
  <2>1. Sold \in SUBSET Sold /\ \A t \in Sold : one[t] = IF t \in Sold THEN 1 ELSE 0
    OBVIOUS
  <2> HIDE DEF one
  <2> QED BY <1>1, <2>1, CountIsSum
<1> HIDE DEF doubled, scaled, one, slack, above, beyond
<1>10. SumOver(slack, Sold) = K * Cardinality(Sold)
  <2>1. \A t \in Sold : one[t] \in Int /\ slack[t] = K * one[t]
    BY <1>4
  <2>2. SumOver(slack, Sold) = K * SumOver(one, Sold)
    BY <1>1, <1>2, <2>1, SumOverTimes
  <2> QED BY <1>9, <2>2, Zenon
<1>11. SumOver(doubled, Sold) = 2 * SumOver(SoldExactly, Sold)
  <2>1. 2 \in Int
    OBVIOUS
  <2> QED BY <1>1, <1>5, <2>1, SumOverTimes
<1>12. SumOver(scaled, Sold) = (2 * K) * SumOver(SoldFor, Sold)
  BY <1>1, <1>2, <1>6, SumOverTimes
<1>13. SumOver(above, Sold) = SumOver(doubled, Sold) + SumOver(slack, Sold)
  BY <1>1, <1>4, <1>5, <1>7, SumOverPlus
<1>14. SumOver(beyond, Sold) = SumOver(scaled, Sold) + SumOver(slack, Sold)
  BY <1>1, <1>4, <1>6, <1>7, SumOverPlus
<1>15. SumOver(scaled, Sold) <= SumOver(above, Sold)
  BY <1>1, <1>6, <1>7, <1>8, SumOverMonotone
<1>16. SumOver(doubled, Sold) <= SumOver(beyond, Sold)
  BY <1>1, <1>5, <1>7, <1>8, SumOverMonotone
<1>17. SumOver(SoldExactly, Sold) \in Nat /\ SumOver(SoldFor, Sold) \in Nat
  BY <1>1, <1>3, SumOverNatural
<1>18. K * Cardinality(Sold) = Cardinality(Sold) * K
  BY <1>1, <1>2
<1> QED BY <1>1, <1>2, <1>10, <1>11, <1>12, <1>13, <1>14, <1>15, <1>16, <1>17, <1>18, AmountSums DEF K

LEMMA SoldSomething ==
  ASSUME AmountInv
  PROVE  Amounts!SumOfEnergy \in Nat /\ (Amounts!SumOfEnergy = 0 <=> Sold = {})
<1>1. IsFiniteSet(Sold)
  <2>1. Sold \subseteq Figures.Trades
    BY DEF Sold, Amounts!Recorded
  <2> QED BY <2>1, FiguresKnown, FS_Subset
<1>2. \A t \in Sold : SoldUnits[t] \in Nat \ {0} /\ SoldUnits[t] \in Nat /\ SoldUnits[t] \in Int
  BY SoldTerms
<1>3. SumOver(SoldUnits, Sold) \in Nat
  BY <1>1, <1>2, SumOverNatural
<1>4. Sold = {} => SumOver(SoldUnits, Sold) = 0
  BY SumOverEmpty
<1>5. ASSUME NEW t \in Sold PROVE SumOver(SoldUnits, Sold) # 0
  <2>1. SumOver(SoldUnits, Sold) = SoldUnits[t] + SumOver(SoldUnits, Sold \ {t})
    BY <1>1, <1>2, SumOverRemove
  <2>2. IsFiniteSet(Sold \ {t}) /\ \A s \in Sold \ {t} : SoldUnits[s] \in Nat
    BY <1>1, <1>2, FS_Subset
  <2>3. SumOver(SoldUnits, Sold \ {t}) \in Nat
    BY <2>2, SumOverNatural
  <2>4. SoldUnits[t] \in Nat \ {0}
    BY <1>2
  <2> QED BY <2>1, <2>3, <2>4
<1> QED BY <1>3, <1>4, <1>5, AmountSums

LEMMA AveragePriceIsClose ==
  ASSUME AmountInv
  PROVE  Amounts!VolumeWeightedPriceIsClose
<1> DEFINE K == Ten(ES + PS - MS)
           T == Amounts!SumOfTotals
           E == Amounts!SumOfEnergy
           X == SumOver(SoldExactly, Sold)
           n == Cardinality(Sold)
           P == Half(T * K, E)
           price == Amounts!VolumeWeightedPrice
           err == P * E - X
<1>1. T \in Nat /\ X \in Nat /\ n \in Nat /\ K \in Nat \ {0}
      /\ (2 * K) * T <= 2 * X + n * K /\ 2 * X <= (2 * K) * T + n * K
  BY SumsAreClose
<1>2. E \in Nat /\ (E = 0 <=> Sold = {})
  BY SoldSomething
<1>3. /\ ES \in Nat /\ PS \in Nat /\ MS \in Nat /\ Ten(MS) \in Nat \ {0}
      /\ ES + PS = (ES + PS - MS) + MS /\ ES + PS - MS \in Nat
  <2>1. ES \in Nat /\ PS \in Nat /\ MS \in Nat
    BY FiguresKnown
  <2>2. ES + PS = (ES + PS - MS) + MS /\ ES + PS - MS \in Nat
    BY <2>1, LimitsKnown
  <2> QED BY <2>1, <2>2, PowersOfTen
<1>4. Ten(ES + PS) = K * Ten(MS)
  BY <1>3, TenOfSum
<1>5. Plain(T, MS).units = T /\ Plain(T, MS).scale = MS /\ Plain(E, ES).units = E /\ Plain(E, ES).scale = ES
  <2> HIDE DEF T, E
  <2>1. Plain(T, MS).units = T /\ Plain(T, MS).scale = MS
    BY <1>1, <1>3, PlainFacts
  <2>2. Plain(E, ES).units = E /\ Plain(E, ES).scale = ES
    BY <1>2, <1>3, PlainFacts
  <2> QED BY <2>1, <2>2
<1>6. price = IF E = 0 THEN Nothing ELSE Plain(Half(T * Ten(ES + PS), E * Ten(MS)), PS)
  <2>1. price = Amounts!DivideDecimal(Plain(T, MS), Plain(E, ES), PS, Nothing)
    BY DEF Amounts!VolumeWeightedPrice, Plain, MS, ES, PS
  <2> HIDE DEF T, E, price
  <2> QED BY <1>5, <2>1 DEF Amounts!DivideDecimal, Plain, Half, Ten
<1> HIDE DEF K, T, E, X, n, price
<1>7. E # 0 => Half(T * Ten(ES + PS), E * Ten(MS)) = P
  <2> SUFFICES ASSUME E # 0 PROVE Half(T * Ten(ES + PS), E * Ten(MS)) = P
    OBVIOUS
  <2> DEFINE c == Ten(MS)
             y == T * K
  <2>1. y \in Nat /\ c \in Nat \ {0} /\ E \in Nat \ {0} /\ T * Ten(ES + PS) = y * c
    <3>1. c \in Nat \ {0} /\ Ten(ES + PS) = K * c
      BY <1>3, <1>4
    <3> HIDE DEF c
    <3> QED BY <1>1, <1>2, <3>1
  <2> HIDE DEF c, y
  <2>2. Half(y * c, E * c) = Half(y, E)
    BY <2>1, RoundedExpanded
  <2> QED BY <2>1, <2>2 DEF c, y
<1>8. Sold = {} <=> price = Nothing
  <2>1. E # 0 => P \in Nat
    <3>1. T * K \in Nat
      BY <1>1
    <3>2. E # 0 => E \in Nat \ {0}
      BY <1>2
    <3> QED BY <3>1, <3>2, Rounded
  <2> HIDE DEF P
  <2>2. E # 0 => Plain(P, PS) \in Amounts!Spellings
    BY <1>3, <2>1, PlainFacts
  <2> QED BY <1>2, <1>6, <1>7, <2>2, FiguresKnown
<1>9. ASSUME Sold # {}
      PROVE  price.units = P /\ 2 * (IF err < 0 THEN -err ELSE err) <= E + n * K
  <2>1. E \in Nat \ {0}
    BY <1>2, <1>9
  <2>2. T * K \in Nat
    BY <1>1
  <2>3. P \in Nat /\ (2 * E) * P <= 2 * (T * K) + E /\ 2 * (T * K) < (2 * E) * P + E
    BY <2>1, <2>2, Rounded
  <2> HIDE DEF P
  <2>4. price.units = P
    <3>1. Plain(P, PS).units = P
      BY <1>3, <2>3, PlainFacts
    <3> QED BY <1>6, <1>7, <2>1, <3>1
  <2> DEFINE pe == P * E
             tk == T * K
             nk == n * K
  <2>5. pe \in Nat /\ tk \in Nat /\ nk \in Nat
    BY <1>1, <1>2, <2>3
  <2>6. (2 * E) * P = 2 * pe /\ (2 * K) * T = 2 * tk
    BY <1>1, <1>2, <2>3
  <2>7. 2 * pe <= 2 * tk + E /\ 2 * tk < 2 * pe + E /\ 2 * tk <= 2 * X + nk /\ 2 * X <= 2 * tk + nk
    <3> HIDE DEF pe, nk
    <3>1. (2 * E) * P <= 2 * tk + E /\ 2 * tk < (2 * E) * P + E
      BY <2>3
    <3>2. (2 * K) * T <= 2 * X + nk /\ 2 * X <= (2 * K) * T + nk
      BY <1>1 DEF nk
    <3> HIDE DEF tk
    <3> QED BY <2>6, <3>1, <3>2
  <2>8. err = pe - X
    OBVIOUS
  <2> HIDE DEF pe, tk, nk, err
  <2>9. 2 * (IF err < 0 THEN -err ELSE err) <= E + nk
    BY <1>1, <1>2, <2>5, <2>7, <2>8
  <2> QED BY <2>4, <2>9 DEF nk
<1>10. Amounts!SumFunction([t \in Sold |-> trade[t].energyKwh.units * trade[t].pricePerKwh.units]) = X
  BY AmountSums DEF SoldExactly, X
<1>11. Amounts!Cardinality(Sold) = n /\ Amounts!PowerOfTen[ES + PS - MS] = K
  BY AmountCardinality DEF n, K, Ten
<1> HIDE DEF P, err
<1>12. Sold # {} => price.units * E - X = err
  BY <1>9 DEF err
<1> QED BY <1>8, <1>9, <1>10, <1>11, <1>12
   DEF Amounts!VolumeWeightedPriceIsClose, Sold, E, price, ES, PS, MS

-----------------------------------------------------------------------------
LEMMA AmountTypesHold ==
  ASSUME AmountInv
  PROVE  Amounts!TypeOK
<1>1. ASSUME NEW e \in Figures.Events, book[e] # Nothing
      PROVE  /\ book[e].at \in {"stored", "parked", "overflow"}
             /\ book[e].at = "stored" =>
                   book[e].original \in Amounts!Energy /\ book[e].left \in 0 .. book[e].original
  BY <1>1 DEF AmountInv, BookFits
<1>2. ASSUME NEW t \in Figures.Trades, trade[t] # Nothing
      PROVE  /\ trade[t].energyKwh.units \in Amounts!Energy \ {0}
             /\ trade[t].energyKwh.scale = Figures.EnergyScale
             /\ trade[t].pricePerKwh.units > 0 /\ trade[t].totalAmount.scale = Figures.MoneyScale
             /\ trade[t] \in Amounts!Amounts
  <2>1. PICK k \in Amounts!Energy \ {0}, q \in Figures.Prices : trade[t] = Deal(k, q)
    BY <1>2 DEF AmountInv
  <2>2. k \in Nat \ {0} /\ q \in Nat \ {0}
    BY DealNumbers
  <2>3. /\ trade[t].energyKwh.units = k /\ trade[t].energyKwh.scale = ES
        /\ trade[t].pricePerKwh.units = q /\ trade[t].totalAmount.scale = MS
        /\ trade[t] \in Amounts!Amounts
    BY <2>1, <2>2, DealFacts
  <2> QED BY <2>2, <2>3 DEF ES, MS
<1>3. ASSUME NEW t \in Sold PROVE ledger[t].amounts \in Amounts!Amounts
  <2>1. t \in Figures.Trades /\ trade[t] # Nothing /\ ledger[t] = RecordOf(t)
    BY DEF AmountInv, Sold, Amounts!Recorded
  <2> QED BY <1>2, <2>1 DEF RecordOf
<1>4. refusal \in [Figures.Trades -> {Nothing, "invalid", "impossible"}]
  BY DEF AmountInv
<1> QED BY <1>1, <1>2, <1>3, <1>4 DEF Amounts!TypeOK, Sold

FiguresInv == AmountInv /\ (scenario = "measured" => MeasuredInv)

LEMMA FiguresStep == FiguresInv /\ [MCNext]_<<allVars, amountsVars, scenario>> => FiguresInv'
<1> SUFFICES ASSUME FiguresInv, [MCNext]_<<allVars, amountsVars, scenario>> PROVE FiguresInv'
  OBVIOUS
<1>1. AmountInv /\ (scenario = "measured" => MeasuredInv)
  BY DEF FiguresInv
<1>2. scenario' = scenario
  BY DEF MCNext
<1>3. UNCHANGED amountsVars \/ AmountsSteps
  BY DEF MCNext, ReadingSteps, Finished
<1>4. CASE UNCHANGED amountsVars
  BY <1>1, <1>2, <1>4, AmountsStay DEF FiguresInv
<1>5. ASSUME NEW e \in Figures.Events, Amounts!Measure(e) \/ Amounts!Consume(e)
      PROVE  FiguresInv'
  BY <1>1, <1>2, <1>5, MeasureKeeps, ConsumeKeeps DEF FiguresInv
<1>6. ASSUME NEW t \in Figures.Trades, Amounts!Reserve(t) \/ Amounts!Bill(t)
      PROVE  FiguresInv'
  BY <1>1, <1>2, <1>6, ReserveKeeps, BillKeeps DEF FiguresInv
<1>7. CASE scenario = "measured" /\ Measuring
  BY <1>5, <1>6, <1>7 DEF Measuring
<1>8. CASE scenario = "repeated" /\ Repeating
  <2>1. ASSUME NEW e \in Figures.Events, Amounts!HandCraft(e) PROVE FiguresInv'
    BY <1>1, <1>2, <1>8, <2>1, HandCraftKeeps DEF FiguresInv
  <2>2. ASSUME NEW t \in Figures.KeysReused, Amounts!AskAgain(t) PROVE FiguresInv'
    <3>1. t \in Figures.Trades
      BY FiguresKnown
    <3> QED BY <1>1, <1>2, <1>8, <2>2, <3>1, AskAgainKeeps DEF FiguresInv
  <2>3. Figures.KeysReused \subseteq Figures.Trades
    BY FiguresKnown
  <2> QED BY <1>5, <1>6, <1>8, <2>1, <2>2, <2>3 DEF Repeating
<1> QED BY <1>3, <1>4, <1>7, <1>8 DEF AmountsSteps

LEMMA FiguresInvSays == FiguresInv => AmountsAgree
<1> SUFFICES ASSUME FiguresInv PROVE AmountsAgree
  OBVIOUS
<1>1. AmountInv /\ (scenario = "measured" => MeasuredInv)
  BY DEF FiguresInv
<1>2. Amounts!TypeOK /\ Amounts!VolumeWeightedPriceIsClose
  BY <1>1, AmountTypesHold, AveragePriceIsClose
<1>3. Amounts!RepeatsAreRecognised /\ Amounts!ConflictsAreExplained
  BY <1>1 DEF AmountInv
<1>4. scenario = "measured" => Amounts!NoTradeIsRefused
  BY <1>1 DEF MeasuredInv
<1> QED BY <1>2, <1>3, <1>4 DEF AmountsAgree

(* What meters measure is never refused for its figures on the way to the  *)
(* ledger, an average price is as close as its roundings, and a repeated   *)
(* request is known by its amounts, however they are written: for scales,  *)
(* columns, readings, prices and limits of any size that fit each other.   *)
(* (formatEnergy, decimalProblem, expectedTotal, fingerprint)              *)
THEOREM AmountsAlwaysAgree == MCSpec => []AmountsAgree
<1>1. MCInit => FiguresInv
  BY AmountInit DEF MCInit, FiguresInv
<1> QED BY <1>1, FiguresStep, FiguresInvSays, PTL DEF MCSpec
=============================================================================
