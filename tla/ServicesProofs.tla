--------------------------- MODULE ServicesProofs ---------------------------
(***************************************************************************)
(* Theorems about the services' parts that have no behaviour in common:    *)
(* the outbox publisher, the stop and the start of a service, the way of a *)
(* request, prices, and the figures of the operations page.  Those about   *)
(* the outbox speak of OutboxPublisher by itself; the others of the part   *)
(* as MCServices gives it its constants, of which each part only assumes   *)
(* what it names itself.                                                   *)
(***************************************************************************)
EXTENDS MCServices, TotalsProofs

(***************************************************************************)
(* The outbox, for any number of events, instances, batches, faults and    *)
(* outages: a row is marked only after its event has reached a queue; and  *)
(* an event is published twice only after an instance lost what the broker *)
(* said of it, or two took it up at once.                                  *)
(***************************************************************************)
AtPoint == {"next", "buffered", "sent", "marking"}
AtRow(i) == pass[i].at \in {"buffered", "sent", "marking"}

(* What an instance knows of its pass: the rows exist, and the one it has  *)
(* handed over was returned or has reached a queue.                        *)
KnowsItsPass(i) ==
    /\ AtRow(i) => pass[i].rows # {}
    /\ ~ At(i, "none") => \A r \in pass[i].rows : outbox[r] # "ABSENT"
    /\ \A r \in orphans[i] : outbox[r] # "ABSENT"
    /\ At(i, "sent") => InHand(i) \in returned[i] \/ routed[InHand(i)] > 0
    /\ At(i, "marking") => routed[InHand(i)] > 0

(* The types of the variables alone. *)
PublisherTypes ==
    /\ outbox \in [OutboxRows -> {"ABSENT", "PENDING", "PUBLISHED"}]
    /\ routed \in [OutboxRows -> Nat]
    /\ \A r \in OutboxRows : outbox[r] = "ABSENT" => routed[r] = 0
    /\ bound \in BOOLEAN /\ online \in BOOLEAN
    /\ pass \in [Instances -> Pass \cup {NoPass}]
    /\ orphans \in [Instances -> SUBSET OutboxRows]
    /\ returned \in [Instances -> SUBSET OutboxRows]
    /\ mode \in [Instances -> {"running", "stopping", "down"}]
    /\ excused \subseteq OutboxRows

PublishInv == PublisherTypes /\ PublishedWasRouted /\ \A i \in Instances : KnowsItsPass(i)

-----------------------------------------------------------------------------
(* Operators. *)

(* The oldest of some rows is one of them. *)
LEMMA OldestIsARow ==
  ASSUME NEW rows \in SUBSET OutboxRows, rows # {}
  PROVE  Oldest(rows) \in rows
<1>1. IsWellFoundedOn(LessThan, Nat) BY NatLessThanWellFounded DEF OpToRel, LessThan
<1>2. rows \subseteq Nat BY OutboxAssumption
<1>3. PICK r \in rows : \A q \in rows : ~ (<<q, r>> \in LessThan) BY <1>1, <1>2, WFMin
<1>4. \A q \in rows : ~ (q < r) BY <1>2, <1>3 DEF LessThan
<1>5. \A q \in rows : r <= q BY <1>2, <1>4
<1> QED BY <1>3, <1>5 DEF Oldest

LEMMA PassTypes ==
  ASSUME PublisherTypes, NEW i \in Instances
  PROVE  /\ ~ At(i, "none") => /\ pass[i] \in Pass /\ pass[i].at \in AtPoint
                               /\ pass[i].rows \in SUBSET OutboxRows
         /\ At(i, "none") => pass[i] = NoPass
<1>1. pass[i] \in Pass \/ pass[i] = NoPass BY DEF PublisherTypes
<1>2. NoPass.at = "none" BY DEF NoPass
<1>3. pass[i] \in Pass => pass[i].at \in AtPoint /\ pass[i].rows \in SUBSET OutboxRows
  BY DEF Pass, AtPoint
<1>4. "none" \notin AtPoint BY DEF AtPoint
<1> QED BY <1>1, <1>2, <1>3, <1>4 DEF At

LEMMA RowInHand ==
  ASSUME PublisherTypes, NEW i \in Instances, KnowsItsPass(i), AtRow(i)
  PROVE  /\ ~ At(i, "none") /\ InHand(i) \in pass[i].rows /\ InHand(i) \in OutboxRows
         /\ outbox[InHand(i)] # "ABSENT"
<1>1. ~ At(i, "none") /\ pass[i].rows # {} BY DEF KnowsItsPass, AtRow, At
<1>2. pass[i].rows \in SUBSET OutboxRows BY <1>1, PassTypes
<1>3. InHand(i) \in pass[i].rows BY <1>1, <1>2, OldestIsARow DEF InHand
<1> QED BY <1>1, <1>2, <1>3 DEF KnowsItsPass

LEMMA PassMoves ==
  ASSUME PublisherTypes, NEW i \in Instances, ~ At(i, "none"), NEW point \in AtPoint, Goto(i, point)
  PROVE  /\ pass' \in [Instances -> Pass \cup {NoPass}]
         /\ pass'[i].at = point /\ pass'[i].rows = pass[i].rows
         /\ \A j \in Instances \ {i} : pass'[j] = pass[j]
<1>1. pass[i] \in Pass BY PassTypes
<1>2. [pass[i] EXCEPT !.at = point] \in Pass BY <1>1 DEF Pass, AtPoint
<1>3. pass \in [Instances -> Pass \cup {NoPass}] BY DEF PublisherTypes
<1>4. pass' = [pass EXCEPT ![i] = [pass[i] EXCEPT !.at = point]] BY <1>3 DEF Goto
<1>5. pass'[i] = [pass[i] EXCEPT !.at = point] BY <1>3, <1>4
<1>6. pass'[i].at = point /\ pass'[i].rows = pass[i].rows BY <1>1, <1>5 DEF Pass
<1> QED BY <1>2, <1>3, <1>4, <1>6

LEMMA PassBegins ==
  ASSUME PublisherTypes, NEW i \in Instances, NEW rows \in SUBSET OutboxRows,
         pass' = [pass EXCEPT ![i] = [at |-> "next", rows |-> rows]]
  PROVE  /\ pass' \in [Instances -> Pass \cup {NoPass}]
         /\ pass'[i].at = "next" /\ pass'[i].rows = rows
         /\ \A j \in Instances \ {i} : pass'[j] = pass[j]
<1> DEFINE new == [at |-> "next", rows |-> rows]
<1>1. new \in Pass /\ new.at = "next" /\ new.rows = rows BY DEF Pass
<1>2. pass \in [Instances -> Pass \cup {NoPass}] BY DEF PublisherTypes
<1> HIDE DEF new
<1>3. pass' = [pass EXCEPT ![i] = new] BY DEF new
<1> QED BY <1>1, <1>2, <1>3

LEMMA PassSkips ==
  ASSUME PublisherTypes, NEW i \in Instances, ~ At(i, "none"), NextRow(i)
  PROVE  /\ pass' \in [Instances -> Pass \cup {NoPass}]
         /\ pass'[i].at = "next" /\ pass'[i].rows = pass[i].rows \ {InHand(i)}
         /\ \A j \in Instances \ {i} : pass'[j] = pass[j]
<1>1. pass[i].rows \in SUBSET OutboxRows BY PassTypes
<1>2. pass' = [pass EXCEPT ![i] = [at |-> "next", rows |-> pass[i].rows \ {InHand(i)}]]
  BY DEF NextRow, PublisherTypes
<1>3. pass[i].rows \ {InHand(i)} \in SUBSET OutboxRows BY <1>1
<1> QED BY <1>2, <1>3, PassBegins

LEMMA PassEnds ==
  ASSUME PublisherTypes, NEW i \in Instances, EndPass(i)
  PROVE  /\ pass' \in [Instances -> Pass \cup {NoPass}]
         /\ pass'[i].at = "none"
         /\ \A j \in Instances \ {i} : pass'[j] = pass[j]
BY DEF EndPass, PublisherTypes, NoPass

LEMMA RowIsHandled ==
  ASSUME PublisherTypes, NEW i \in Instances, NEW r \in OutboxRows, outbox[r] # "ABSENT", RouteOrReturn(i, r)
  PROVE  /\ routed' \in [OutboxRows -> Nat] /\ returned' \in [Instances -> SUBSET OutboxRows]
         /\ \A q \in OutboxRows : routed'[q] >= routed[q] /\ (q # r => routed'[q] = routed[q])
         /\ \A j \in Instances : returned[j] \subseteq returned'[j]
         /\ \A j \in Instances \ {i} : returned'[j] = returned[j]
         /\ \/ routed'[r] = routed[r] + 1 /\ UNCHANGED returned
            \/ UNCHANGED routed /\ returned'[i] = returned[i] \cup {r}
BY DEF PublisherTypes, RouteOrReturn

-----------------------------------------------------------------------------
(* An instance that stands by stays sound. *)
LEMMA StandsBy ==
  ASSUME PublishInv, NEW i \in Instances, pass'[i] = pass[i], orphans'[i] = orphans[i],
         returned[i] \subseteq returned'[i],
         \A r \in OutboxRows : outbox[r] # "ABSENT" => outbox'[r] # "ABSENT",
         \A r \in OutboxRows : routed[r] > 0 => routed'[r] > 0
  PROVE  KnowsItsPass(i)'
<1>1. PublisherTypes /\ KnowsItsPass(i) BY DEF PublishInv
<1>2. InHand(i)' = InHand(i) BY DEF InHand
<1>3. AtRow(i) => InHand(i) \in OutboxRows BY <1>1, RowInHand
<1>4. ~ At(i, "none") => pass[i].rows \in SUBSET OutboxRows BY <1>1, PassTypes
<1>5. orphans[i] \subseteq OutboxRows BY <1>1 DEF PublisherTypes
<1> QED BY <1>1, <1>2, <1>3, <1>4, <1>5 DEF KnowsItsPass, At, AtRow

LEMMA PublishInit == Init => PublishInv
<1> SUFFICES ASSUME Init PROVE PublishInv OBVIOUS
<1>1. PublisherTypes BY DEF Init, PublisherTypes
<1>2. PublishedWasRouted BY DEF Init, PublishedWasRouted
<1>3. ASSUME NEW i \in Instances PROVE KnowsItsPass(i)
  <2>1. pass[i] = NoPass /\ NoPass.at = "none" /\ orphans[i] = {} BY DEF Init, NoPass
  <2> QED BY <2>1 DEF KnowsItsPass, AtRow, At
<1> QED BY <1>1, <1>2, <1>3 DEF PublishInv

(* Steps that leave every pass, and what has reached a queue, alone. *)
LEMMA OutsideSteps ==
  ASSUME PublishInv,
         \/ \E r \in OutboxRows : AddRow(r)
         \/ BindQueue \/ ComeBack
         \/ \E i \in Instances : BeginStop(i) \/ Start(i)
  PROVE  PublishInv'
<1>1. /\ UNCHANGED <<routed, pass, orphans, returned, excused>>
      /\ \/ UNCHANGED outbox
         \/ \E r \in OutboxRows : outbox[r] = "ABSENT" /\ outbox' = [outbox EXCEPT ![r] = "PENDING"]
      /\ bound' \in {bound, TRUE} /\ online' \in {online, TRUE}
      /\ \/ UNCHANGED mode
         \/ \E i \in Instances : \/ mode' = [mode EXCEPT ![i] = "stopping"]
                                 \/ mode' = [mode EXCEPT ![i] = "running"]
  BY DEF AddRow, BindQueue, ComeBack, BeginStop, Start, brokerVars
<1>2. /\ outbox' \in [OutboxRows -> {"ABSENT", "PENDING", "PUBLISHED"}]
      /\ \A r \in OutboxRows : /\ outbox[r] # "ABSENT" => outbox'[r] # "ABSENT"
                               /\ outbox'[r] = "ABSENT" => outbox[r] = "ABSENT"
                               /\ outbox'[r] = "PUBLISHED" => outbox[r] = "PUBLISHED"
  BY <1>1 DEF PublishInv, PublisherTypes
<1>3. mode' \in [Instances -> {"running", "stopping", "down"}] BY <1>1 DEF PublishInv, PublisherTypes
<1>4. PublisherTypes' BY <1>1, <1>2, <1>3 DEF PublishInv, PublisherTypes
<1>5. PublishedWasRouted' BY <1>1, <1>2 DEF PublishInv, PublishedWasRouted
<1>6. \A i \in Instances : KnowsItsPass(i)' BY <1>1, <1>2, StandsBy
<1> QED BY <1>4, <1>5, <1>6 DEF PublishInv

(* One instance acts, the others stand by. *)
LEMMA OneActs ==
  ASSUME PublishInv, PublisherTypes', PublishedWasRouted', NEW i \in Instances, KnowsItsPass(i)',
         \A j \in Instances \ {i} :
            pass'[j] = pass[j] /\ orphans'[j] = orphans[j] /\ returned'[j] = returned[j],
         \A r \in OutboxRows : outbox[r] # "ABSENT" => outbox'[r] # "ABSENT",
         \A r \in OutboxRows : routed[r] > 0 => routed'[r] > 0
  PROVE  PublishInv'
<1>1. ASSUME NEW j \in Instances, j # i PROVE KnowsItsPass(j)'
  BY <1>1, StandsBy
<1> QED BY <1>1 DEF PublishInv

LEMMA PassSteps ==
  ASSUME PublishInv, NEW i \in Instances, StartPass(i) \/ FinishPass(i) \/ PublishOne(i)
  PROVE  PublishInv'
<1>0. PublisherTypes /\ KnowsItsPass(i) BY DEF PublishInv
<1>1. /\ UNCHANGED <<outbox, routed, bound, online, orphans, returned, mode>>
      /\ excused' \subseteq excused \cup Batch /\ Batch \subseteq OutboxRows
  BY DEF StartPass, FinishPass, PublishOne, brokerVars, Batch, Pending
<1>2. /\ pass' \in [Instances -> Pass \cup {NoPass}]
      /\ \A j \in Instances \ {i} : pass'[j] = pass[j]
      /\ pass'[i].at \in {"none", "next", "buffered"}
      /\ pass'[i].at # "none" => \A r \in pass'[i].rows : outbox[r] # "ABSENT"
      /\ pass'[i].at = "buffered" => pass'[i].rows # {}
  <2>1. CASE StartPass(i)
    <3>1. Batch \in SUBSET OutboxRows /\ \A r \in Batch : outbox[r] = "PENDING" BY DEF Batch, Pending
    <3> QED BY <1>0, <2>1, <3>1, PassBegins DEF StartPass
  <2>2. CASE FinishPass(i) BY <1>0, <2>2, PassEnds DEF FinishPass
  <2>3. CASE PublishOne(i)
    <3>1. ~ At(i, "none") /\ "buffered" \in AtPoint /\ Goto(i, "buffered") /\ pass[i].rows # {}
      BY <2>3 DEF PublishOne, At, AtPoint
    <3> QED BY <1>0, <3>1, PassMoves DEF KnowsItsPass
  <2> QED BY <2>1, <2>2, <2>3
<1>3. PublisherTypes' /\ PublishedWasRouted' BY <1>1, <1>2 DEF PublishInv, PublisherTypes, PublishedWasRouted
<1>4. KnowsItsPass(i)' BY <1>0, <1>1, <1>2 DEF KnowsItsPass, At, AtRow
<1> QED BY <1>1, <1>2, <1>3, <1>4, OneActs

LEMMA BrokerSteps ==
  ASSUME PublishInv, NEW i \in Instances, Send(i) \/ \E r \in OutboxRows : SendOrphan(i, r)
  PROVE  PublishInv'
<1>0. PublisherTypes /\ KnowsItsPass(i) /\ PublishedWasRouted BY DEF PublishInv
<1>1. CASE Send(i)
  <2>1. /\ At(i, "buffered") /\ RouteOrReturn(i, InHand(i)) /\ Goto(i, "sent")
        /\ UNCHANGED <<outbox, bound, online, orphans, mode, excused>>
    BY <1>1 DEF Send
  <2>2. InHand(i) \in OutboxRows /\ outbox[InHand(i)] # "ABSENT" /\ ~ At(i, "none")
    BY <1>0, <2>1, RowInHand DEF AtRow, At
  <2>3. /\ routed' \in [OutboxRows -> Nat] /\ returned' \in [Instances -> SUBSET OutboxRows]
        /\ \A q \in OutboxRows : routed'[q] >= routed[q]
        /\ \A q \in OutboxRows : q # InHand(i) => routed'[q] = routed[q]
        /\ \A j \in Instances \ {i} : returned'[j] = returned[j]
        /\ InHand(i) \in returned'[i] \/ routed'[InHand(i)] > 0
    BY <1>0, <2>1, <2>2, RowIsHandled DEF PublisherTypes
  <2>4. /\ pass' \in [Instances -> Pass \cup {NoPass}]
        /\ pass'[i].at = "sent" /\ pass'[i].rows = pass[i].rows
        /\ \A j \in Instances \ {i} : pass'[j] = pass[j]
    BY <1>0, <2>1, <2>2, PassMoves DEF AtPoint
  <2>5. \A r \in OutboxRows : routed[r] > 0 => routed'[r] > 0 BY <1>0, <2>3 DEF PublisherTypes
  <2>6. PublisherTypes' BY <1>0, <2>1, <2>2, <2>3, <2>4 DEF PublisherTypes
  <2>7. PublishedWasRouted' BY <1>0, <2>1, <2>5 DEF PublishedWasRouted
  <2>8. KnowsItsPass(i)' BY <1>0, <2>1, <2>2, <2>3, <2>4 DEF KnowsItsPass, At, AtRow, InHand
  <2> QED BY <2>1, <2>3, <2>4, <2>5, <2>6, <2>7, <2>8, OneActs
<1>2. ASSUME NEW r \in OutboxRows, SendOrphan(i, r) PROVE PublishInv'
  <2>1. /\ r \in orphans[i] /\ RouteOrReturn(i, r)
        /\ orphans' = [orphans EXCEPT ![i] = @ \ {r}]
        /\ UNCHANGED <<outbox, bound, online, pass, mode, excused>>
    BY <1>2 DEF SendOrphan
  <2>2. outbox[r] # "ABSENT" BY <1>0, <2>1 DEF KnowsItsPass
  <2>3. /\ routed' \in [OutboxRows -> Nat] /\ returned' \in [Instances -> SUBSET OutboxRows]
        /\ \A q \in OutboxRows : routed'[q] >= routed[q]
        /\ \A q \in OutboxRows : q # r => routed'[q] = routed[q]
        /\ \A j \in Instances : returned[j] \subseteq returned'[j]
        /\ \A j \in Instances \ {i} : returned'[j] = returned[j]
    BY <1>0, <2>2, <2>1, RowIsHandled
  <2>4. /\ orphans' \in [Instances -> SUBSET OutboxRows] /\ orphans'[i] \subseteq orphans[i]
        /\ \A j \in Instances \ {i} : orphans'[j] = orphans[j]
    BY <1>0, <2>1 DEF PublisherTypes
  <2>5. \A q \in OutboxRows : routed[q] > 0 => routed'[q] > 0 BY <1>0, <2>3 DEF PublisherTypes
  <2>6. PublisherTypes' BY <1>0, <2>1, <2>2, <2>3, <2>4 DEF PublisherTypes
  <2>7. PublishedWasRouted' BY <1>0, <2>1, <2>5 DEF PublishedWasRouted
  <2>8. AtRow(i) => InHand(i) \in OutboxRows BY <1>0, RowInHand
  <2>9. KnowsItsPass(i)' BY <1>0, <2>1, <2>3, <2>4, <2>5, <2>8 DEF KnowsItsPass, At, AtRow, InHand
  <2> QED BY <2>1, <2>3, <2>4, <2>5, <2>6, <2>7, <2>9, OneActs
<1> QED BY <1>1, <1>2

LEMMA ExcusedAreRows ==
  ASSUME PublishInv, NEW instances \in SUBSET Instances, Excuse(instances)
  PROVE  excused \subseteq excused' /\ excused' \subseteq OutboxRows
<1>1. ASSUME NEW j \in instances, Waiting(j) \/ At(j, "marking") PROVE InHand(j) \in OutboxRows
  <2>1. AtRow(j) BY <1>1 DEF Waiting, At, AtRow
  <2> QED BY <2>1, RowInHand DEF PublishInv
<1> QED BY <1>1 DEF Excuse, PublishInv, PublisherTypes

LEMMA AnswerSteps ==
  ASSUME PublishInv, NEW i \in Instances, Confirm(i) \/ MarkPublished(i) \/ MarkFails(i) \/ Deadline(i)
  PROVE  PublishInv'
<1>0. PublisherTypes /\ KnowsItsPass(i) /\ PublishedWasRouted BY DEF PublishInv
<1>1. AtRow(i)
  BY DEF Confirm, MarkPublished, MarkFails, Deadline, AtRow, At, Waiting
<1>2. /\ ~ At(i, "none") /\ InHand(i) \in pass[i].rows /\ InHand(i) \in OutboxRows
      /\ outbox[InHand(i)] # "ABSENT" /\ pass[i].rows \in SUBSET OutboxRows
  BY <1>0, <1>1, RowInHand, PassTypes
<1>3. CASE Confirm(i)
  <2>1. /\ UNCHANGED <<outbox, routed, bound, online, orphans, mode, excused>>
        /\ \/ /\ returned' = [returned EXCEPT ![i] = @ \ {InHand(i)}]
              /\ NextRow(i) \/ EndPass(i)
           \/ /\ UNCHANGED returned /\ Goto(i, "marking")
              /\ At(i, "sent") /\ InHand(i) \notin returned[i]
    BY <1>3 DEF Confirm, brokerVars
  <2>2. /\ returned' \in [Instances -> SUBSET OutboxRows]
        /\ \A j \in Instances \ {i} : returned'[j] = returned[j]
    BY <1>0, <2>1 DEF PublisherTypes
  <2>3. /\ pass' \in [Instances -> Pass \cup {NoPass}]
        /\ \A j \in Instances \ {i} : pass'[j] = pass[j]
        /\ \/ pass'[i].at = "none"
           \/ pass'[i].at = "next" /\ pass'[i].rows = pass[i].rows \ {InHand(i)}
           \/ /\ pass'[i].at = "marking" /\ pass'[i].rows = pass[i].rows
              /\ routed[InHand(i)] > 0
    <3>1. CASE NextRow(i) BY <1>0, <1>2, <3>1, PassSkips
    <3>2. CASE EndPass(i) BY <1>0, <3>2, PassEnds
    <3>3. CASE Goto(i, "marking") /\ At(i, "sent") /\ InHand(i) \notin returned[i]
      <4>1. routed[InHand(i)] > 0 BY <1>0, <3>3 DEF KnowsItsPass
      <4> QED BY <1>0, <1>2, <3>3, <4>1, PassMoves DEF AtPoint
    <3> QED BY <2>1, <3>1, <3>2, <3>3
  <2>4. PublisherTypes' BY <1>0, <2>1, <2>2, <2>3 DEF PublisherTypes
  <2>5. PublishedWasRouted' BY <1>0, <2>1 DEF PublishedWasRouted
  <2>6. KnowsItsPass(i)' BY <1>0, <1>2, <2>1, <2>3 DEF KnowsItsPass, At, AtRow, InHand
  <2> QED BY <2>1, <2>2, <2>3, <2>4, <2>5, <2>6, OneActs
<1>4. CASE MarkPublished(i)
  <2>1. /\ UNCHANGED <<routed, bound, online, orphans, returned, mode, excused>>
        /\ outbox' = [outbox EXCEPT ![InHand(i)] = "PUBLISHED"]
        /\ At(i, "marking") /\ NextRow(i)
    BY <1>4 DEF MarkPublished, brokerVars
  <2>2. routed[InHand(i)] > 0 BY <1>0, <2>1 DEF KnowsItsPass
  <2>3. /\ outbox' \in [OutboxRows -> {"ABSENT", "PENDING", "PUBLISHED"}]
        /\ \A r \in OutboxRows : outbox[r] # "ABSENT" <=> outbox'[r] # "ABSENT"
        /\ \A r \in OutboxRows : outbox'[r] = "PUBLISHED" => outbox[r] = "PUBLISHED" \/ r = InHand(i)
    BY <1>0, <1>2, <2>1 DEF PublisherTypes
  <2>4. /\ pass' \in [Instances -> Pass \cup {NoPass}]
        /\ \A j \in Instances \ {i} : pass'[j] = pass[j]
        /\ pass'[i].at = "next" /\ pass'[i].rows = pass[i].rows \ {InHand(i)}
    BY <1>0, <1>2, <2>1, PassSkips
  <2>5. PublisherTypes' BY <1>0, <2>1, <2>3, <2>4 DEF PublisherTypes
  <2>6. PublishedWasRouted' BY <1>0, <2>1, <2>2, <2>3 DEF PublishedWasRouted
  <2>7. orphans[i] \subseteq OutboxRows BY <1>0 DEF PublisherTypes
  <2>8. KnowsItsPass(i)' BY <1>0, <1>2, <2>1, <2>3, <2>4, <2>7 DEF KnowsItsPass, At, AtRow, InHand
  <2> QED BY <2>1, <2>3, <2>4, <2>5, <2>6, <2>8, OneActs
<1>5. CASE MarkFails(i) \/ Deadline(i)
  <2>1. /\ UNCHANGED <<outbox, routed, bound, online, returned, mode>>
        /\ EndPass(i) /\ Excuse({i})
        /\ \/ UNCHANGED orphans
           \/ orphans' = [orphans EXCEPT ![i] = @ \cup {InHand(i)}]
           \/ orphans' = [orphans EXCEPT ![i] = @ \cup {}]
    BY <1>5 DEF MarkFails, Deadline, brokerVars
  <2>2. excused' \subseteq OutboxRows BY <2>1, ExcusedAreRows
  <2>3. /\ pass' \in [Instances -> Pass \cup {NoPass}] /\ pass'[i].at = "none"
        /\ \A j \in Instances \ {i} : pass'[j] = pass[j]
    BY <1>0, <2>1, PassEnds
  <2>4. /\ orphans' \in [Instances -> SUBSET OutboxRows]
        /\ orphans'[i] \subseteq orphans[i] \cup {InHand(i)}
        /\ \A j \in Instances \ {i} : orphans'[j] = orphans[j]
    BY <1>0, <1>2, <2>1 DEF PublisherTypes
  <2>5. PublisherTypes' BY <1>0, <2>1, <2>2, <2>3, <2>4 DEF PublisherTypes
  <2>6. PublishedWasRouted' BY <1>0, <2>1 DEF PublishedWasRouted
  <2>7. KnowsItsPass(i)' BY <1>0, <1>2, <2>1, <2>3, <2>4 DEF KnowsItsPass, At, AtRow
  <2> QED BY <2>1, <2>3, <2>4, <2>5, <2>6, <2>7, OneActs
<1> QED BY <1>3, <1>4, <1>5

(* The broker goes away: what was sent and not confirmed is sent again. *)
LEMMA GoOfflineStep ==
  ASSUME PublishInv, GoOffline
  PROVE  PublishInv'
<1>0. PublisherTypes /\ PublishedWasRouted BY DEF PublishInv
<1>1. /\ UNCHANGED <<outbox, routed, bound, orphans, returned, mode>> /\ online' = FALSE
      /\ Excuse({i \in Instances : At(i, "sent")})
      /\ pass' = [i \in Instances |-> IF At(i, "sent") THEN [pass[i] EXCEPT !.at = "buffered"]
                                      ELSE pass[i]]
  BY DEF GoOffline
<1>2. excused' \subseteq OutboxRows BY <1>1, ExcusedAreRows
<1>3. ASSUME NEW i \in Instances
      PROVE  /\ pass'[i] \in Pass \cup {NoPass}
             /\ At(i, "sent") => pass'[i].at = "buffered" /\ pass'[i].rows = pass[i].rows
             /\ ~ At(i, "sent") => pass'[i] = pass[i]
  <2>1. CASE At(i, "sent")
    <3>1. pass[i] \in Pass BY <1>0, <2>1, PassTypes DEF At
    <3>2. pass'[i] = [pass[i] EXCEPT !.at = "buffered"] BY <1>1, <2>1
    <3> QED BY <2>1, <3>1, <3>2 DEF Pass
  <2>2. CASE ~ At(i, "sent")
    <3>1. pass'[i] = pass[i] BY <1>1, <2>2
    <3> QED BY <1>0, <2>2, <3>1 DEF PublisherTypes
  <2> QED BY <2>1, <2>2
<1>4. pass' \in [Instances -> Pass \cup {NoPass}] BY <1>1, <1>3
<1>5. PublisherTypes' BY <1>0, <1>1, <1>2, <1>4 DEF PublisherTypes
<1>6. PublishedWasRouted' BY <1>0, <1>1 DEF PublishedWasRouted
<1>7. ASSUME NEW i \in Instances PROVE KnowsItsPass(i)'
  <2>1. KnowsItsPass(i) BY DEF PublishInv
  <2>2. CASE At(i, "sent")
    BY <1>1, <1>3, <2>1, <2>2 DEF KnowsItsPass, At, AtRow
  <2>3. CASE ~ At(i, "sent") BY <1>1, <1>3, <2>3, StandsBy
  <2> QED BY <2>2, <2>3
<1> QED BY <1>5, <1>6, <1>7 DEF PublishInv

(* A process ends: after its pass, or under it. *)
LEMMA EndSteps ==
  ASSUME PublishInv, NEW i \in Instances, CloseAfterPass(i) \/ Crash(i)
  PROVE  PublishInv'
<1>0. PublisherTypes /\ PublishedWasRouted BY DEF PublishInv
<1>1. /\ UNCHANGED <<outbox, routed, bound, online>> /\ Forget(i)
      /\ \/ At(i, "none") /\ UNCHANGED <<pass, excused>>
         \/ EndPass(i) /\ Excuse({i})
  BY DEF CloseAfterPass, Crash, brokerVars
<1>2. excused' \subseteq OutboxRows
  <2>1. CASE UNCHANGED excused BY <1>0, <2>1 DEF PublisherTypes
  <2>2. CASE Excuse({i}) BY <2>2, ExcusedAreRows
  <2> QED BY <1>1, <2>1, <2>2
<1>3. /\ pass' \in [Instances -> Pass \cup {NoPass}] /\ pass'[i].at = "none"
      /\ \A j \in Instances \ {i} : pass'[j] = pass[j]
  <2>1. CASE At(i, "none") /\ UNCHANGED pass BY <1>0, <2>1 DEF PublisherTypes, At
  <2>2. CASE EndPass(i) BY <1>0, <2>2, PassEnds
  <2> QED BY <1>1, <2>1, <2>2
<1>4. /\ orphans' \in [Instances -> SUBSET OutboxRows] /\ orphans'[i] = {}
      /\ returned' \in [Instances -> SUBSET OutboxRows]
      /\ mode' \in [Instances -> {"running", "stopping", "down"}]
      /\ \A j \in Instances \ {i} : orphans'[j] = orphans[j] /\ returned'[j] = returned[j]
  BY <1>0, <1>1 DEF PublisherTypes, Forget
<1>5. PublisherTypes' BY <1>0, <1>1, <1>2, <1>3, <1>4 DEF PublisherTypes
<1>6. PublishedWasRouted' BY <1>0, <1>1 DEF PublishedWasRouted
<1>7. KnowsItsPass(i)' BY <1>3, <1>4 DEF KnowsItsPass, At, AtRow
<1> QED BY <1>1, <1>3, <1>4, <1>5, <1>6, <1>7, OneActs

-----------------------------------------------------------------------------
LEMMA PublishStep == PublishInv /\ [Next]_vars => PublishInv'
<1> SUFFICES ASSUME PublishInv, [Next]_vars PROVE PublishInv' OBVIOUS
<1>1. CASE UNCHANGED vars
  <2>1. /\ UNCHANGED <<outbox, routed, bound, online, pass, orphans, returned, mode, excused>>
    BY <1>1 DEF vars, brokerVars
  <2>2. PublisherTypes' BY <2>1 DEF PublishInv, PublisherTypes
  <2>3. PublishedWasRouted' BY <2>1 DEF PublishInv, PublishedWasRouted
  <2>4. \A i \in Instances : KnowsItsPass(i)' BY <2>1, StandsBy
  <2> QED BY <2>2, <2>3, <2>4 DEF PublishInv
<1>2. ASSUME NEW i \in Instances, Drain(i) \/ Disturb(i) PROVE PublishInv'
  BY <1>2, PassSteps, BrokerSteps, AnswerSteps, OutsideSteps, EndSteps DEF Drain, Disturb
<1> QED BY <1>1, <1>2, OutsideSteps, GoOfflineStep, BrokerSteps, EndSteps DEF Next

LEMMA PublisherInvariant == Spec => []PublishInv
<1> QED BY PublishInit, PublishStep, PTL DEF Spec

(* The passes, what the library holds and what was returned keep their     *)
(* types; a pass that waits for an answer waits for a row.                 *)
THEOREM OutboxTypeCorrect == Spec => []TypeOK
<1>1. PublishInv => TypeOK BY DEF PublishInv, PublisherTypes, TypeOK, KnowsItsPass, AtRow
<1> QED BY <1>1, PublisherInvariant, PTL

(* A row is marked PUBLISHED only after its event has reached a queue,     *)
(* with any number of instances publishing the same rows, deadlines that   *)
(* pass, connections that drop and messages that are returned              *)
(* (publishOne).                                                           *)
THEOREM MarkedWasRouted == Spec => []PublishedWasRouted
<1>1. PublishInv => PublishedWasRouted BY DEF PublishInv
<1> QED BY <1>1, PublisherInvariant, PTL

-----------------------------------------------------------------------------
(* What is published once: events nothing that was told of is lost of, and *)
(* which no two instances have in their passes.                            *)

Holds(i, r) == ~ At(i, "none") /\ r \in pass[i].rows
AnsweredFor(i, r) == (At(i, "sent") \/ At(i, "marking")) /\ InHand(i) = r
Unexcused == OutboxRows \ excused

(* An event in a pass is still pending, one that was returned has reached  *)
(* no queue, and what the library alone holds is excused.                  *)
Mine(i) ==
    /\ \A r \in Unexcused : Holds(i, r) => outbox[r] = "PENDING"
    /\ orphans[i] \subseteq excused
    /\ \A r \in returned[i] \cap Unexcused : routed[r] = 0 /\ At(i, "sent") /\ InHand(i) = r
HoldsAlone(i) == \A j \in Instances \ {i}, r \in Unexcused : ~ (Holds(i, r) /\ Holds(j, r))
(* An event that has reached a queue is marked, or will be by the instance *)
(* that knows.                                                             *)
WasTold(r) ==
    /\ routed[r] <= 1
    /\ routed[r] > 0 => outbox[r] = "PUBLISHED" \/ \E i \in Instances : AnsweredFor(i, r)
OnceUnlessExcused ==
    /\ \A i \in Instances : Mine(i) /\ HoldsAlone(i)
    /\ \A r \in Unexcused : WasTold(r)

LEMMA OnceInit == Init => OnceUnlessExcused
<1> SUFFICES ASSUME Init PROVE OnceUnlessExcused OBVIOUS
<1>1. ASSUME NEW i \in Instances PROVE At(i, "none") /\ orphans[i] = {} /\ returned[i] = {}
  BY DEF Init, At, NoPass
<1>2. ASSUME NEW r \in Unexcused PROVE WasTold(r) BY DEF Init, WasTold, Unexcused
<1> QED BY <1>1, <1>2 DEF OnceUnlessExcused, Mine, HoldsAlone, Holds

LEMMA HandIsHeld ==
  ASSUME PublishInv, NEW i \in Instances, AtRow(i)
  PROVE  Holds(i, InHand(i)) /\ InHand(i) \in OutboxRows
BY RowInHand DEF PublishInv, Holds

(* Nothing has reached a queue of an event a pass hands over only now.     *)
LEMMA NotHandedOver ==
  ASSUME PublishInv, OnceUnlessExcused, NEW i \in Instances, At(i, "buffered"), InHand(i) \in Unexcused
  PROVE  routed[InHand(i)] = 0 /\ InHand(i) \notin returned[i]
<1>1. Holds(i, InHand(i)) /\ InHand(i) \in OutboxRows BY HandIsHeld DEF AtRow, At
<1>2. outbox[InHand(i)] = "PENDING" /\ WasTold(InHand(i)) BY <1>1 DEF OnceUnlessExcused, Mine
<1>3. ASSUME NEW k \in Instances, AnsweredFor(k, InHand(i)) PROVE FALSE
  <2>1. AtRow(k) /\ k # i BY <1>3 DEF AnsweredFor, AtRow, At
  <2>2. Holds(k, InHand(i)) BY <1>3, <2>1, HandIsHeld DEF AnsweredFor
  <2> QED BY <1>1, <2>1, <2>2 DEF OnceUnlessExcused, HoldsAlone
<1>4. routed[InHand(i)] \in Nat BY <1>1 DEF PublishInv, PublisherTypes
<1> QED BY <1>2, <1>3, <1>4 DEF WasTold, OnceUnlessExcused, Mine, At

(* One instance acts: it changes only what it holds, or is excused, takes  *)
(* up only what no other holds, and remembers what it was answered.        *)
LEMMA OneActsOnce ==
  ASSUME PublishInv, OnceUnlessExcused, NEW i \in Instances, Mine(i)', excused \subseteq excused',
         \A j \in Instances \ {i} :
            pass'[j] = pass[j] /\ orphans'[j] = orphans[j] /\ returned'[j] = returned[j],
         \A r \in Unexcused' :
            /\ outbox'[r] = outbox[r] \/ (Holds(i, r) /\ outbox'[r] = "PUBLISHED")
            /\ \/ routed'[r] = routed[r]
               \/ Holds(i, r) /\ routed[r] = 0 /\ routed'[r] = 1 /\ AnsweredFor(i, r)'
            /\ AnsweredFor(i, r) /\ routed[r] > 0 => AnsweredFor(i, r)' \/ outbox'[r] = "PUBLISHED"
            /\ Holds(i, r)' => Holds(i, r) \/ \A j \in Instances \ {i} : ~ Holds(j, r)
  PROVE  OnceUnlessExcused'
<1>1. Unexcused' \subseteq Unexcused BY DEF Unexcused
<1>2. ASSUME NEW j \in Instances \ {i}, NEW r
      PROVE  /\ Holds(j, r)' <=> Holds(j, r)
             /\ AnsweredFor(j, r)' <=> AnsweredFor(j, r)
             /\ At(j, "sent")' <=> At(j, "sent")
             /\ InHand(j)' = InHand(j)
  BY DEF Holds, AnsweredFor, At, InHand
<1>3. ASSUME NEW r \in Unexcused', NEW j \in Instances \ {i}, NEW k \in Instances \ {j},
             Holds(j, r)', Holds(k, r)'
      PROVE  FALSE
  <2>1. HoldsAlone(i) /\ HoldsAlone(j) /\ r \in Unexcused BY <1>1 DEF OnceUnlessExcused
  <2>2. CASE k = i BY <1>2, <1>3, <2>1, <2>2 DEF HoldsAlone
  <2>3. CASE k # i BY <1>2, <1>3, <2>1, <2>3 DEF HoldsAlone
  <2> QED BY <2>2, <2>3
<1>4. ASSUME NEW j \in Instances PROVE HoldsAlone(j)'
  <2>1. CASE j # i BY <1>3, <2>1 DEF HoldsAlone
  <2>2. CASE j = i BY <1>3, <2>2 DEF HoldsAlone
  <2> QED BY <2>1, <2>2
<1>5. ASSUME NEW j \in Instances \ {i} PROVE Mine(j)'
  <2>1. Mine(j) /\ HoldsAlone(j) BY DEF OnceUnlessExcused
  <2>2. ASSUME NEW r \in Unexcused', Holds(j, r) PROVE outbox'[r] = outbox[r] /\ routed'[r] = routed[r]
    BY <1>1, <2>1, <2>2 DEF HoldsAlone
  <2>3. ASSUME NEW r \in Unexcused', Holds(j, r)' PROVE outbox'[r] = "PENDING"
    BY <1>1, <1>2, <2>1, <2>2, <2>3 DEF Mine
  <2>4. orphans'[j] \subseteq excused' BY <2>1 DEF Mine
  <2>5. ASSUME NEW r \in returned'[j], r \in Unexcused'
        PROVE  routed'[r] = 0 /\ At(j, "sent")' /\ InHand(j)' = r
    <3>1. routed[r] = 0 /\ At(j, "sent") /\ InHand(j) = r BY <1>1, <2>1, <2>5 DEF Mine
    <3>2. Holds(j, r) BY <3>1, HandIsHeld DEF AtRow, At
    <3> QED BY <1>2, <2>2, <2>5, <3>1, <3>2
  <2> QED BY <2>3, <2>4, <2>5 DEF Mine
<1>6. ASSUME NEW r \in Unexcused' PROVE WasTold(r)'
  <2>1. WasTold(r) BY <1>1 DEF OnceUnlessExcused
  <2>2. CASE routed'[r] # routed[r] BY <2>2 DEF WasTold
  <2>3. CASE routed'[r] = routed[r]
    <3>1. CASE outbox[r] = "PUBLISHED" BY <2>1, <2>3, <3>1 DEF WasTold
    <3>2. ASSUME NEW j \in Instances, AnsweredFor(j, r), routed[r] > 0
          PROVE  outbox'[r] = "PUBLISHED" \/ AnsweredFor(j, r)'
      <4>1. CASE j = i BY <3>2, <4>1
      <4>2. CASE j # i BY <1>2, <3>2, <4>2
      <4> QED BY <4>1, <4>2
    <3> QED BY <2>1, <2>3, <3>1, <3>2 DEF WasTold
  <2> QED BY <2>2, <2>3
<1> QED BY <1>4, <1>5, <1>6 DEF OnceUnlessExcused

LEMMA OncePassSteps ==
  ASSUME PublishInv, OnceUnlessExcused, NEW i \in Instances, StartPass(i) \/ FinishPass(i) \/ PublishOne(i)
  PROVE  OnceUnlessExcused'
<1>0. PublisherTypes /\ Mine(i) BY DEF PublishInv, OnceUnlessExcused
<1>1. UNCHANGED <<outbox, routed, orphans, returned>>
  BY DEF StartPass, FinishPass, PublishOne, brokerVars
<1>2. excused \subseteq excused'
  BY DEF StartPass, FinishPass, PublishOne
<1>3. ~ At(i, "sent") /\ ~ At(i, "marking") BY DEF StartPass, FinishPass, PublishOne, At
<1>4. /\ \A j \in Instances \ {i} : pass'[j] = pass[j]
      /\ \A r \in Unexcused' : Holds(i, r)' =>
            /\ outbox[r] = "PENDING"
            /\ Holds(i, r) \/ \A j \in Instances \ {i} : ~ Holds(j, r)
  <2>1. CASE StartPass(i)
    <3>1. Batch \in SUBSET OutboxRows /\ \A r \in Batch : outbox[r] = "PENDING" BY DEF Batch, Pending
    <3>2. pass'[i].rows = Batch /\ \A j \in Instances \ {i} : pass'[j] = pass[j]
      BY <1>0, <2>1, <3>1, PassBegins DEF StartPass
    <3>3. ASSUME NEW r \in Batch, NEW j \in Instances \ {i}, Holds(j, r) PROVE r \in excused'
      <4>1. r \in TakenUp(i) BY <3>3 DEF TakenUp, Holds
      <4> QED BY <2>1, <4>1 DEF StartPass
    <3> QED BY <3>1, <3>2, <3>3 DEF Holds, Unexcused
  <2>2. CASE FinishPass(i)
    <3>1. pass'[i].at = "none" /\ \A j \in Instances \ {i} : pass'[j] = pass[j]
      BY <1>0, <2>2, PassEnds DEF FinishPass
    <3> QED BY <3>1 DEF Holds, At
  <2>3. CASE PublishOne(i)
    <3>1. ~ At(i, "none") /\ "buffered" \in AtPoint /\ Goto(i, "buffered")
      BY <2>3 DEF PublishOne, At, AtPoint
    <3>2. pass'[i].rows = pass[i].rows /\ \A j \in Instances \ {i} : pass'[j] = pass[j]
      BY <1>0, <3>1, PassMoves
    <3>3. \A r : Holds(i, r)' => Holds(i, r) BY <3>1, <3>2 DEF Holds
    <3> QED BY <1>0, <1>2, <3>2, <3>3 DEF Mine, Unexcused
  <2> QED BY <2>1, <2>2, <2>3
<1>5. Mine(i)' BY <1>0, <1>1, <1>2, <1>3, <1>4 DEF Mine, Unexcused
<1> QED BY <1>1, <1>2, <1>3, <1>4, <1>5, OneActsOnce DEF AnsweredFor

LEMMA OnceBrokerSteps ==
  ASSUME PublishInv, OnceUnlessExcused, NEW i \in Instances, Send(i) \/ \E r \in OutboxRows : SendOrphan(i, r)
  PROVE  OnceUnlessExcused'
<1>0. PublisherTypes /\ KnowsItsPass(i) /\ Mine(i) BY DEF PublishInv, OnceUnlessExcused
<1>1. CASE Send(i)
  <2>1. /\ At(i, "buffered") /\ RouteOrReturn(i, InHand(i)) /\ Goto(i, "sent")
        /\ UNCHANGED <<outbox, orphans, excused>>
    BY <1>1 DEF Send
  <2>2. /\ InHand(i) \in OutboxRows /\ outbox[InHand(i)] # "ABSENT" /\ ~ At(i, "none")
        /\ Holds(i, InHand(i))
    BY <1>0, <2>1, RowInHand DEF AtRow, At, Holds
  <2>3. /\ \A q \in OutboxRows : q # InHand(i) => routed'[q] = routed[q]
        /\ \A j \in Instances \ {i} : returned'[j] = returned[j]
        /\ \/ routed'[InHand(i)] = routed[InHand(i)] + 1 /\ UNCHANGED returned
           \/ UNCHANGED routed /\ returned'[i] = returned[i] \cup {InHand(i)}
    BY <1>0, <2>1, <2>2, RowIsHandled
  <2>4. /\ pass'[i].at = "sent" /\ pass'[i].rows = pass[i].rows
        /\ \A j \in Instances \ {i} : pass'[j] = pass[j]
    BY <1>0, <2>1, <2>2, PassMoves DEF AtPoint
  <2>5. /\ InHand(i)' = InHand(i) /\ \A r : Holds(i, r)' <=> Holds(i, r)
        /\ At(i, "sent")' /\ Unexcused' = Unexcused /\ AnsweredFor(i, InHand(i))'
    BY <2>1, <2>2, <2>4 DEF InHand, Holds, At, Unexcused, AnsweredFor
  <2>6. InHand(i) \in Unexcused => routed[InHand(i)] = 0 /\ InHand(i) \notin returned[i]
    BY <2>1, NotHandedOver
  <2>7. returned[i] \cap Unexcused = {} BY <1>0, <2>1 DEF Mine, At
  <2>8. Mine(i)'
    BY <1>0, <2>1, <2>3, <2>5, <2>6, <2>7 DEF Mine
  <2>9. ASSUME NEW r \in Unexcused' PROVE \/ routed'[r] = routed[r]
                                          \/ /\ Holds(i, r) /\ routed[r] = 0
                                             /\ routed'[r] = 1 /\ AnsweredFor(i, r)'
    BY <2>2, <2>3, <2>5, <2>6 DEF Unexcused
  <2>10. \A r : ~ AnsweredFor(i, r) BY <2>1 DEF AnsweredFor, At
  <2> QED BY <2>1, <2>3, <2>4, <2>5, <2>8, <2>9, <2>10, OneActsOnce
<1>2. ASSUME NEW r \in OutboxRows, SendOrphan(i, r) PROVE OnceUnlessExcused'
  <2>1. /\ r \in orphans[i] /\ RouteOrReturn(i, r)
        /\ orphans' = [orphans EXCEPT ![i] = @ \ {r}]
        /\ UNCHANGED <<outbox, pass, excused>>
    BY <1>2 DEF SendOrphan
  <2>2. r \in excused BY <1>0, <2>1 DEF Mine
  <2>3. outbox[r] # "ABSENT" BY <1>0, <2>1 DEF KnowsItsPass
  <2>4. /\ \A q \in OutboxRows : q # r => routed'[q] = routed[q]
        /\ \A j \in Instances \ {i} : returned'[j] = returned[j]
        /\ \/ UNCHANGED returned
           \/ returned'[i] = returned[i] \cup {r}
    BY <1>0, <2>1, <2>3, RowIsHandled
  <2>5. /\ orphans'[i] \subseteq orphans[i]
        /\ \A j \in Instances \ {i} : orphans'[j] = orphans[j]
    BY <1>0, <2>1 DEF PublisherTypes
  <2>6. /\ Unexcused' = Unexcused /\ r \notin Unexcused
        /\ \A q : (Holds(i, q)' <=> Holds(i, q)) /\ (AnsweredFor(i, q)' <=> AnsweredFor(i, q))
        /\ InHand(i)' = InHand(i) /\ (At(i, "sent")' <=> At(i, "sent"))
    BY <2>1, <2>2 DEF Unexcused, Holds, AnsweredFor, InHand, At
  <2>7. \A q \in Unexcused : routed'[q] = routed[q] BY <2>4, <2>6 DEF Unexcused
  <2>8. returned'[i] \cap Unexcused = returned[i] \cap Unexcused BY <2>4, <2>6
  <2>9. Mine(i)' BY <1>0, <2>1, <2>5, <2>6, <2>7, <2>8 DEF Mine
  <2> QED BY <2>1, <2>4, <2>5, <2>6, <2>7, <2>9, OneActsOnce
<1> QED BY <1>1, <1>2

LEMMA OnceAnswerSteps ==
  ASSUME PublishInv, OnceUnlessExcused, NEW i \in Instances, Confirm(i) \/ MarkPublished(i)
  PROVE  OnceUnlessExcused'
<1>0. PublisherTypes /\ KnowsItsPass(i) /\ Mine(i) BY DEF PublishInv, OnceUnlessExcused
<1>1. AtRow(i) BY DEF Confirm, MarkPublished, AtRow, At
<1>2. /\ ~ At(i, "none") /\ Holds(i, InHand(i)) /\ InHand(i) \in OutboxRows
      /\ pass[i].rows \in SUBSET OutboxRows
  BY <1>0, <1>1, RowInHand, PassTypes DEF Holds
<1>3. CASE Confirm(i) /\ InHand(i) \in returned[i]
  <2>1. /\ UNCHANGED <<outbox, routed, orphans, excused>> /\ At(i, "sent")
        /\ returned' = [returned EXCEPT ![i] = @ \ {InHand(i)}]
        /\ NextRow(i) \/ EndPass(i)
    BY <1>3 DEF Confirm, brokerVars
  <2>2. /\ \A j \in Instances \ {i} : pass'[j] = pass[j]
        /\ \A r : Holds(i, r)' => Holds(i, r)
    <3>1. CASE NextRow(i)
      BY <1>0, <1>2, <3>1, PassSkips DEF Holds, At
    <3>2. CASE EndPass(i) BY <1>0, <3>2, PassEnds DEF Holds, At
    <3> QED BY <2>1, <3>1, <3>2
  <2>3. /\ returned'[i] = returned[i] \ {InHand(i)}
        /\ \A j \in Instances \ {i} : returned'[j] = returned[j]
        /\ Unexcused' = Unexcused
    BY <1>0, <2>1 DEF PublisherTypes, Unexcused
  <2>4. Mine(i)' BY <1>0, <2>1, <2>2, <2>3 DEF Mine
  <2>5. ASSUME NEW r \in Unexcused, AnsweredFor(i, r), routed[r] > 0 PROVE FALSE
    <3>1. routed[r] = 0 BY <1>0, <1>3, <2>5 DEF Mine, AnsweredFor
    <3> QED BY <2>5, <3>1
  <2> QED BY <1>3, <2>1, <2>2, <2>3, <2>4, <2>5, OneActsOnce
<1>4. CASE Confirm(i) /\ InHand(i) \notin returned[i]
  <2>1. /\ UNCHANGED <<outbox, routed, orphans, excused, returned>> /\ At(i, "sent")
        /\ Goto(i, "marking")
    BY <1>4 DEF Confirm, brokerVars
  <2>2. /\ pass'[i].at = "marking" /\ pass'[i].rows = pass[i].rows
        /\ \A j \in Instances \ {i} : pass'[j] = pass[j]
    BY <1>0, <1>2, <2>1, PassMoves DEF AtPoint
  <2>3. /\ InHand(i)' = InHand(i) /\ Unexcused' = Unexcused
        /\ \A r : (Holds(i, r)' <=> Holds(i, r)) /\ (AnsweredFor(i, r) => AnsweredFor(i, r)')
    BY <1>2, <2>1, <2>2 DEF InHand, Unexcused, Holds, AnsweredFor, At
  <2>4. Mine(i)' BY <1>0, <1>4, <2>1, <2>3 DEF Mine
  <2> QED BY <2>1, <2>2, <2>3, <2>4, OneActsOnce
<1>5. CASE MarkPublished(i)
  <2>1. /\ UNCHANGED <<routed, orphans, returned, excused>> /\ At(i, "marking")
        /\ outbox' = [outbox EXCEPT ![InHand(i)] = "PUBLISHED"] /\ NextRow(i)
    BY <1>5 DEF MarkPublished, brokerVars
  <2>2. /\ pass'[i].at = "next" /\ pass'[i].rows = pass[i].rows \ {InHand(i)}
        /\ \A j \in Instances \ {i} : pass'[j] = pass[j]
    BY <1>0, <1>2, <2>1, PassSkips
  <2>3. /\ outbox'[InHand(i)] = "PUBLISHED"
        /\ \A r \in OutboxRows : r # InHand(i) => outbox'[r] = outbox[r]
    BY <1>0, <1>2, <2>1 DEF PublisherTypes
  <2>4. /\ Unexcused' = Unexcused /\ Unexcused \subseteq OutboxRows
        /\ \A r : Holds(i, r)' => Holds(i, r) /\ r # InHand(i)
    BY <1>2, <2>1, <2>2 DEF Unexcused, Holds, At
  <2>5. Mine(i)' BY <1>0, <2>1, <2>3, <2>4 DEF Mine, At
  <2> QED BY <1>2, <2>1, <2>2, <2>3, <2>4, <2>5, OneActsOnce DEF AnsweredFor
<1> QED BY <1>3, <1>4, <1>5

(* What is lost with a pass excuses the row it had in hand. *)
LEMMA OnceLosses ==
  ASSUME PublishInv, OnceUnlessExcused, NEW i \in Instances,
         MarkFails(i) \/ Deadline(i) \/ CloseAfterPass(i) \/ Crash(i)
  PROVE  OnceUnlessExcused'
<1>0. PublisherTypes /\ Mine(i) BY DEF PublishInv, OnceUnlessExcused
<1>1. /\ UNCHANGED <<outbox, routed>>
      /\ UNCHANGED returned \/ returned' = [returned EXCEPT ![i] = {}]
      /\ \/ At(i, "none") /\ UNCHANGED <<pass, excused>>
         \/ EndPass(i) /\ Excuse({i})
  BY DEF MarkFails, Deadline, CloseAfterPass, Crash, Forget, brokerVars
<1>2. pass'[i].at = "none" /\ \A j \in Instances \ {i} : pass'[j] = pass[j]
  BY <1>0, <1>1, PassEnds DEF At
<1>3. /\ excused \subseteq excused'
      /\ At(i, "sent") \/ At(i, "marking") \/ At(i, "buffered") => InHand(i) \in excused'
  BY <1>1 DEF Excuse, Waiting, At
<1>4. orphans'[i] \subseteq excused' /\ \A j \in Instances \ {i} : orphans'[j] = orphans[j]
  <2>1. CASE MarkFails(i) BY <1>0, <1>3, <2>1 DEF MarkFails, Mine
  <2>2. CASE Deadline(i)
    <3>1. Waiting(i) BY <2>2 DEF Deadline
    <3>2. InHand(i) \in excused' BY <1>3, <3>1 DEF Waiting, At
    <3>3. /\ orphans'[i] \subseteq orphans[i] \cup {InHand(i)}
          /\ \A j \in Instances \ {i} : orphans'[j] = orphans[j]
      BY <1>0, <2>2 DEF Deadline, PublisherTypes
    <3> QED BY <1>0, <1>3, <3>2, <3>3 DEF Mine
  <2>3. CASE CloseAfterPass(i) \/ Crash(i)
    BY <1>0, <2>3 DEF CloseAfterPass, Crash, Forget, PublisherTypes
  <2> QED BY <2>1, <2>2, <2>3
<1>5. /\ returned'[i] \subseteq returned[i]
      /\ \A j \in Instances \ {i} : returned'[j] = returned[j]
  BY <1>0, <1>1 DEF PublisherTypes
<1>6. \A r \in Unexcused' : r \in Unexcused /\ ~ AnsweredFor(i, r) /\ ~ Holds(i, r)'
  BY <1>2, <1>3 DEF Unexcused, AnsweredFor, Holds, At
<1>7. \A r \in returned'[i] \cap Unexcused' : FALSE
  BY <1>0, <1>5, <1>6 DEF Mine, AnsweredFor
<1>8. Mine(i)' BY <1>4, <1>6, <1>7 DEF Mine
<1> QED BY <1>1, <1>2, <1>3, <1>4, <1>5, <1>6, <1>8, OneActsOnce

LEMMA OnceOffline ==
  ASSUME PublishInv, OnceUnlessExcused, GoOffline
  PROVE  OnceUnlessExcused'
<1>0. PublisherTypes BY DEF PublishInv
<1>1. /\ UNCHANGED <<outbox, routed, orphans, returned>>
      /\ Excuse({j \in Instances : At(j, "sent")})
      /\ pass' = [j \in Instances |-> IF At(j, "sent") THEN [pass[j] EXCEPT !.at = "buffered"]
                                      ELSE pass[j]]
  BY DEF GoOffline
<1>2. /\ excused \subseteq excused' /\ Unexcused' \subseteq Unexcused
      /\ \A j \in Instances : At(j, "sent") => InHand(j) \notin Unexcused'
  BY <1>1 DEF Excuse, Waiting, At, Unexcused
<1>3. ASSUME NEW i \in Instances
      PROVE  /\ \A r : Holds(i, r)' <=> Holds(i, r)
             /\ \A r \in Unexcused' : AnsweredFor(i, r) => AnsweredFor(i, r)'
  <2>1. CASE At(i, "sent")
    <3>1. pass[i] \in Pass BY <1>0, <2>1, PassTypes DEF At
    <3>2. pass'[i] = [pass[i] EXCEPT !.at = "buffered"] BY <1>1, <2>1
    <3>3. pass'[i].at = "buffered" /\ pass'[i].rows = pass[i].rows BY <3>1, <3>2 DEF Pass
    <3> QED BY <1>2, <2>1, <3>3 DEF Holds, At, AnsweredFor
  <2>2. CASE ~ At(i, "sent")
    <3>1. pass'[i] = pass[i] BY <1>1, <2>2
    <3> QED BY <3>1 DEF Holds, AnsweredFor, At, InHand
  <2> QED BY <2>1, <2>2
<1>4. ASSUME NEW i \in Instances PROVE Mine(i)' /\ HoldsAlone(i)'
  <2>1. Mine(i) /\ HoldsAlone(i) BY DEF OnceUnlessExcused
  <2>2. \A r \in returned[i] \cap Unexcused' : FALSE BY <1>2, <2>1 DEF Mine
  <2>3. Mine(i)' BY <1>1, <1>2, <1>3, <2>1, <2>2 DEF Mine
  <2>4. HoldsAlone(i)' BY <1>2, <1>3, <2>1 DEF HoldsAlone
  <2> QED BY <2>3, <2>4
<1>5. ASSUME NEW r \in Unexcused' PROVE WasTold(r)'
  <2>1. WasTold(r) BY <1>2 DEF OnceUnlessExcused
  <2> QED BY <1>1, <1>3, <2>1 DEF WasTold
<1> QED BY <1>4, <1>5 DEF OnceUnlessExcused

LEMMA OnceOutside ==
  ASSUME PublishInv, OnceUnlessExcused,
         \/ \E r \in OutboxRows : AddRow(r)
         \/ BindQueue \/ ComeBack
         \/ \E j \in Instances : BeginStop(j) \/ Start(j)
         \/ UNCHANGED vars
  PROVE  OnceUnlessExcused'
<1>0. PublisherTypes BY DEF PublishInv
<1>1. /\ UNCHANGED <<routed, pass, orphans, returned, excused>>
      /\ \/ UNCHANGED outbox
         \/ \E r \in OutboxRows : outbox[r] = "ABSENT" /\ outbox' = [outbox EXCEPT ![r] = "PENDING"]
  BY DEF AddRow, BindQueue, ComeBack, BeginStop, Start, brokerVars, vars
<1>2. \A r \in OutboxRows : outbox[r] # "ABSENT" => outbox'[r] = outbox[r] BY <1>0, <1>1 DEF PublisherTypes
<1>3. /\ Unexcused' = Unexcused /\ Unexcused \subseteq OutboxRows
      /\ \A i \in Instances : /\ InHand(i)' = InHand(i) /\ (At(i, "sent")' <=> At(i, "sent"))
                              /\ \A r : Holds(i, r)' <=> Holds(i, r)
                              /\ \A r : AnsweredFor(i, r)' <=> AnsweredFor(i, r)
  BY <1>1 DEF Unexcused, InHand, At, Holds, AnsweredFor
<1>4. ASSUME NEW i \in Instances PROVE Mine(i)' /\ HoldsAlone(i)'
  <2>1. Mine(i) /\ HoldsAlone(i) BY DEF OnceUnlessExcused
  <2>2. Mine(i)' BY <1>1, <1>2, <1>3, <2>1 DEF Mine
  <2>3. HoldsAlone(i)' BY <1>3, <2>1 DEF HoldsAlone
  <2> QED BY <2>2, <2>3
<1>5. ASSUME NEW r \in Unexcused' PROVE WasTold(r)'
  <2>1. WasTold(r) BY <1>3 DEF OnceUnlessExcused
  <2> QED BY <1>1, <1>2, <1>3, <2>1 DEF WasTold
<1> QED BY <1>4, <1>5 DEF OnceUnlessExcused

(* With any number of instances, an event reaches a queue a second time    *)
(* only after a deadline, a confirm or an update was lost, or when a pass  *)
(* began that found it in another instance's: an instance's own drains, an *)
(* orderly stop, returned messages and a queue bound late are no reason    *)
(* (drain, publishOne, beforeApplicationShutdown).                         *)
THEOREM SecondCopiesHaveACause == Spec => []DuplicatesHaveACause
<1>1. PublishInv /\ OnceUnlessExcused /\ [Next]_vars => OnceUnlessExcused'
  <2> SUFFICES ASSUME PublishInv, OnceUnlessExcused, [Next]_vars PROVE OnceUnlessExcused' OBVIOUS
  <2>1. ASSUME NEW i \in Instances, Drain(i) \/ Disturb(i) PROVE OnceUnlessExcused'
    BY <2>1, OncePassSteps, OnceBrokerSteps, OnceAnswerSteps, OnceLosses, OnceOutside
    DEF Drain, Disturb
  <2>2. ASSUME NEW i \in Instances,
               \/ \E r \in OutboxRows : SendOrphan(i, r)
               \/ CloseAfterPass(i) \/ Start(i)
        PROVE  OnceUnlessExcused'
    BY <2>2, OnceBrokerSteps, OnceLosses, OnceOutside
  <2>3. ASSUME \/ \E r \in OutboxRows : AddRow(r)
               \/ BindQueue \/ GoOffline \/ ComeBack \/ UNCHANGED vars
        PROVE  OnceUnlessExcused'
    BY <2>3, OnceOutside, OnceOffline
  <2> QED BY <2>1, <2>2, <2>3 DEF Next
<1>2. PublishInv /\ OnceUnlessExcused => DuplicatesHaveACause
  BY DEF PublishInv, PublisherTypes, OnceUnlessExcused, WasTold, Unexcused, DuplicatesHaveACause
<1> QED BY <1>1, <1>2, OnceInit, PublisherInvariant, PTL DEF Spec

-----------------------------------------------------------------------------
(***************************************************************************)
(* The stop of a service (ServiceLifecycle).                               *)
(***************************************************************************)

Asked(p) == probe[p] # Lifecycle!NoProbe

(* Deliveries are done with when the draining is, and requests and probes  *)
(* when the server is closed; nothing is left to begin afterwards.         *)
WorkIsDone ==
    /\ closing \in {"drained", "serverClosed", "disconnected", "closed"} =>
         working \subseteq ServerRequests
    /\ closing \in {"serverClosed", "disconnected", "closed"} =>
         working = {} /\ \A p \in Probes : ~ Asked(p)
    /\ exitCode = "0" => closing = "closed" /\ deadline = "cleared"

(* What a probe reports goes with what it has found.                       *)
ReportFits(pr) ==
    /\ pr.at = "checking" => pr.early /\ pr.report = "none"
    /\ ~ pr.early => /\ pr.at = "answered" /\ pr.report = "shutting_down"
                     /\ \A d \in Dependencies : pr.found[d] = "pending"
    /\ pr.report \in {"ready", "not_ready"} =>
         (pr.report = "ready" <=> \A d \in Critical : pr.found[d] = "up")

(* With one probe at a time the log last said "down" of what the probe     *)
(* before found down, and of what this one has found so far.               *)
FoundDown(d) == \E p \in Probes : probe[p].at = "checking" /\ probe[p].found[d] = "down"
LogFollows ==
    /\ ~ repeated
    /\ \A d \in Dependencies : told[d] = "down" <=> d \in down \/ FoundDown(d)

StopInv ==
    /\ Lifecycle!TypeOK
    /\ WorkIsDone
    /\ \A p \in Probes : Asked(p) => ReportFits(probe[p])
    /\ Lifecycle!OneProbe => LogFollows

LEMMA StopInit == Lifecycle!Init => StopInv
<1> SUFFICES ASSUME Lifecycle!Init PROVE StopInv
  OBVIOUS
<1> USE DEF Lifecycle!Init, Lifecycle!NoProbe
<1>1. Lifecycle!TypeOK
  BY DEF Lifecycle!TypeOK, Lifecycle!Stage
<1>2. WorkIsDone
  BY DEF WorkIsDone, Asked
<1>3. \A p \in Probes : ~ Asked(p)
  BY DEF Asked
<1>4. LogFollows
  BY DEF LogFollows, FoundDown
<1> QED BY <1>1, <1>2, <1>3, <1>4 DEF StopInv

(* The probes that a step leaves alone need not be looked at again.        *)
LEMMA SameProbes ==
  ASSUME StopInv, UNCHANGED <<probe, down, told, repeated>>
  PROVE  /\ \A p \in Probes : Asked(p)' => ReportFits(probe[p])'
         /\ Lifecycle!OneProbe => LogFollows'
<1>1. \A p \in Probes : Asked(p)' => ReportFits(probe[p])'
  BY DEF StopInv, Asked, ReportFits
<1>2. Lifecycle!OneProbe => LogFollows'
  BY DEF StopInv, LogFollows, FoundDown
<1> QED BY <1>1, <1>2

LEMMA WorkSteps ==
  ASSUME StopInv
  PROVE  /\ \A w \in ServerRequests \cup Deliveries :
              Lifecycle!BeginWork(w) \/ Lifecycle!EndWork(w) => StopInv'
         /\ \A d \in Dependencies : Lifecycle!DependencyChanges(d) => StopInv'
<1> USE DEF Lifecycle!closeVars, Lifecycle!probeVars, Lifecycle!boundVars
<1>1. ASSUME NEW w \in ServerRequests \cup Deliveries, Lifecycle!BeginWork(w) PROVE StopInv'
  <2>1. Lifecycle!TypeOK'
    BY <1>1 DEF StopInv, Lifecycle!TypeOK, Lifecycle!BeginWork
  <2>2. WorkIsDone'
    BY <1>1 DEF StopInv, WorkIsDone, Asked, Lifecycle!BeginWork, Lifecycle!Alive,
                Lifecycle!AcceptsRequests, Lifecycle!AcceptsMessages
  <2> QED BY <1>1, <2>1, <2>2, SameProbes DEF StopInv, Lifecycle!BeginWork
<1>2. ASSUME NEW w \in ServerRequests \cup Deliveries, Lifecycle!EndWork(w) PROVE StopInv'
  <2>1. Lifecycle!TypeOK'
    BY <1>2 DEF StopInv, Lifecycle!TypeOK, Lifecycle!EndWork
  <2>2. WorkIsDone'
    BY <1>2 DEF StopInv, WorkIsDone, Asked, Lifecycle!EndWork
  <2> QED BY <1>2, <2>1, <2>2, SameProbes DEF StopInv, Lifecycle!EndWork
<1>3. ASSUME NEW d \in Dependencies, Lifecycle!DependencyChanges(d) PROVE StopInv'
  <2>1. Lifecycle!TypeOK'
    BY <1>3 DEF StopInv, Lifecycle!TypeOK, Lifecycle!DependencyChanges
  <2>2. WorkIsDone'
    BY <1>3 DEF StopInv, WorkIsDone, Asked, Lifecycle!DependencyChanges
  <2> QED BY <1>3, <2>1, <2>2, SameProbes DEF StopInv, Lifecycle!DependencyChanges
<1> QED BY <1>1, <1>2, <1>3

LEMMA SignalSteps ==
  ASSUME StopInv, Lifecycle!FirstSignal \/ Lifecycle!SecondSignal \/ Lifecycle!DeadlinePasses
  PROVE  StopInv'
<1> USE DEF Lifecycle!closeVars, Lifecycle!probeVars, Lifecycle!boundVars
<1>1. Lifecycle!TypeOK'
  BY DEF StopInv, Lifecycle!TypeOK, Lifecycle!FirstSignal, Lifecycle!SecondSignal,
         Lifecycle!DeadlinePasses, Lifecycle!Alive, Lifecycle!Exit
<1>2. WorkIsDone'
  BY DEF StopInv, WorkIsDone, Asked, Lifecycle!FirstSignal, Lifecycle!SecondSignal,
         Lifecycle!DeadlinePasses, Lifecycle!Alive, Lifecycle!Exit
<1>3. UNCHANGED <<probe, down, told, repeated>>
  BY DEF Lifecycle!FirstSignal, Lifecycle!SecondSignal, Lifecycle!DeadlinePasses
<1> QED BY <1>1, <1>2, <1>3, SameProbes DEF StopInv

LEMMA CloseSteps ==
  ASSUME StopInv, Lifecycle!Close
  PROVE  StopInv'
<1> USE DEF Lifecycle!closeVars, Lifecycle!probeVars, Lifecycle!boundVars
<1>1. Lifecycle!TypeOK'
  BY DEF StopInv, Lifecycle!TypeOK, Lifecycle!Stage, Lifecycle!Close, Lifecycle!DestroyModules,
         Lifecycle!DrainWork, Lifecycle!CloseServer, Lifecycle!Disconnect, Lifecycle!Closed,
         Lifecycle!CloseFails, Lifecycle!ExitAfterClose, Lifecycle!CloseStep,
         Lifecycle!Alive, Lifecycle!Exit
<1>2. WorkIsDone'
  BY DEF StopInv, WorkIsDone, Asked, Lifecycle!TypeOK, Lifecycle!Close, Lifecycle!DestroyModules,
         Lifecycle!DrainWork, Lifecycle!CloseServer, Lifecycle!Disconnect, Lifecycle!Closed,
         Lifecycle!CloseFails, Lifecycle!ExitAfterClose, Lifecycle!CloseStep,
         Lifecycle!Alive, Lifecycle!Exit
<1>3. UNCHANGED <<probe, down, told, repeated>>
  BY DEF Lifecycle!Close, Lifecycle!DestroyModules,
         Lifecycle!DrainWork, Lifecycle!CloseServer, Lifecycle!Disconnect, Lifecycle!Closed,
         Lifecycle!CloseFails, Lifecycle!ExitAfterClose, Lifecycle!CloseStep
<1> QED BY <1>1, <1>2, <1>3, SameProbes DEF StopInv

-----------------------------------------------------------------------------
LEMMA BeginProbeStep ==
  ASSUME StopInv, NEW p \in Probes, Lifecycle!BeginProbe(p)
  PROVE  StopInv'
<1> USE DEF Lifecycle!closeVars, Lifecycle!boundVars
<1> DEFINE begun == [at |-> IF shuttingDown THEN "answered" ELSE "checking",
                     found |-> [d \in Dependencies |-> "pending"],
                     early |-> ~ shuttingDown,
                     report |-> IF shuttingDown THEN "shutting_down" ELSE "none"]
<1>1. /\ probe \in [Probes -> Lifecycle!Checking \cup {Lifecycle!NoProbe}]
      /\ shuttingDown \in BOOLEAN /\ probe[p] = Lifecycle!NoProbe
      /\ probe' = [probe EXCEPT ![p] = begun]
      /\ UNCHANGED <<closing, shuttingDown, inProgress, deadline, exitCode,
                     working, up, down, told, repeated>>
  BY DEF StopInv, Lifecycle!TypeOK, Lifecycle!BeginProbe
<1>2. begun \in Lifecycle!Checking
  BY <1>1 DEF Lifecycle!Checking, Lifecycle!Report
<1>3. ReportFits(begun)
  BY <1>1 DEF ReportFits
<1>4. /\ begun.at # "checking" \/ begun.found = [d \in Dependencies |-> "pending"]
      /\ Lifecycle!NoProbe.at = "idle"
  BY DEF Lifecycle!NoProbe
<1> HIDE DEF begun
<1>5. probe'[p] = begun /\ \A q \in Probes : q # p => probe'[q] = probe[q]
  BY <1>1
<1>6. Lifecycle!TypeOK'
  BY <1>1, <1>2 DEF StopInv, Lifecycle!TypeOK
<1>7. WorkIsDone'
  BY <1>1 DEF StopInv, WorkIsDone, Asked, Lifecycle!BeginProbe, Lifecycle!AcceptsRequests,
              Lifecycle!Alive
<1>8. \A q \in Probes : Asked(q)' => ReportFits(probe'[q])
  BY <1>3, <1>5 DEF StopInv, Asked
<1>9. Lifecycle!OneProbe => LogFollows'
  <2>1. \A d \in Dependencies : FoundDown(d)' <=> FoundDown(d)
    BY <1>1, <1>4, <1>5 DEF FoundDown
  <2> QED BY <1>1, <2>1 DEF StopInv, LogFollows
<1>10. \A q \in Probes : Asked(q)' => ReportFits(probe[q])'
  BY <1>8 DEF ReportFits
<1> QED BY <1>6, <1>7, <1>9, <1>10 DEF StopInv

LEMMA EndProbeStep ==
  ASSUME StopInv, NEW p \in Probes, Lifecycle!EndProbe(p)
  PROVE  StopInv'
<1> USE DEF Lifecycle!closeVars, Lifecycle!boundVars
<1>1. /\ probe \in [Probes -> Lifecycle!Checking \cup {Lifecycle!NoProbe}]
      /\ probe[p].at = "answered"
      /\ probe' = [probe EXCEPT ![p] = Lifecycle!NoProbe]
      /\ UNCHANGED <<closing, shuttingDown, inProgress, deadline, exitCode,
                     working, up, down, told, repeated>>
  BY DEF StopInv, Lifecycle!TypeOK, Lifecycle!EndProbe
<1>2. /\ probe'[p] = Lifecycle!NoProbe /\ Lifecycle!NoProbe.at = "idle"
      /\ \A q \in Probes : q # p => probe'[q] = probe[q]
  BY <1>1 DEF Lifecycle!NoProbe
<1>3. Lifecycle!TypeOK'
  BY <1>1 DEF StopInv, Lifecycle!TypeOK
<1>4. WorkIsDone'
  BY <1>1, <1>2 DEF StopInv, WorkIsDone, Asked
<1>5. \A q \in Probes : Asked(q)' => ReportFits(probe[q])'
  BY <1>2 DEF StopInv, Asked, ReportFits
<1>6. Lifecycle!OneProbe => LogFollows'
  <2>1. \A d \in Dependencies : FoundDown(d)' <=> FoundDown(d)
    BY <1>1, <1>2 DEF FoundDown
  <2> QED BY <1>1, <2>1 DEF StopInv, LogFollows
<1> QED BY <1>3, <1>4, <1>5, <1>6 DEF StopInv

(* A probe that has something to check or to answer.                       *)
LEMMA CheckingProbe ==
  ASSUME StopInv, NEW p \in Probes, probe[p].at = "checking"
  PROVE  /\ probe[p] \in Lifecycle!Checking /\ Asked(p)
         /\ probe[p].early = TRUE /\ probe[p].report = "none"
         /\ closing \notin {"serverClosed", "disconnected", "closed"}
         /\ exitCode # "0"
<1>1. Lifecycle!NoProbe.at = "idle"
  BY DEF Lifecycle!NoProbe
<1>2. probe[p] \in Lifecycle!Checking /\ Asked(p)
  BY <1>1 DEF StopInv, Lifecycle!TypeOK, Asked
<1>3. ReportFits(probe[p])
  BY <1>2 DEF StopInv
<1>4. probe[p].early \in BOOLEAN
  BY <1>2 DEF Lifecycle!Checking
<1> QED BY <1>2, <1>3, <1>4 DEF StopInv, WorkIsDone, ReportFits

LEMMA CheckStep ==
  ASSUME StopInv, NEW p \in Probes, NEW d \in Dependencies, Lifecycle!Check(p, d)
  PROVE  StopInv'
<1> USE DEF Lifecycle!closeVars, Lifecycle!boundVars
<1> DEFINE what == IF d \in up THEN "up" ELSE "down"
           new == [probe[p] EXCEPT !.found[d] = what]
<1>1. /\ probe \in [Probes -> Lifecycle!Checking \cup {Lifecycle!NoProbe}]
      /\ told \in [Dependencies -> {"up", "down"}]
      /\ probe[p].at = "checking" /\ probe[p].found[d] = "pending"
      /\ probe' = [probe EXCEPT ![p] = new]
      /\ UNCHANGED <<closing, shuttingDown, inProgress, deadline, exitCode,
                     working, up, down>>
  BY DEF StopInv, Lifecycle!TypeOK, Lifecycle!Check
<1>2. /\ probe[p] \in Lifecycle!Checking /\ probe[p].report = "none" /\ probe[p].early = TRUE
      /\ closing \notin {"serverClosed", "disconnected", "closed"} /\ exitCode # "0"
  BY <1>1, CheckingProbe
<1>3. /\ new \in Lifecycle!Checking /\ new.at = "checking" /\ new.report = "none" /\ new.early = TRUE
      /\ new.found[d] = what
      /\ \A c \in Dependencies : c # d => new.found[c] = probe[p].found[c]
  BY <1>1, <1>2 DEF Lifecycle!Checking
<1>4. ReportFits(new)
  BY <1>3 DEF ReportFits
<1> HIDE DEF new
<1>5. probe'[p] = new /\ \A q \in Probes : q # p => probe'[q] = probe[q]
  BY <1>1
<1>6. Lifecycle!TypeOK'
  <2>1. told' \in [Dependencies -> {"up", "down"}]
    BY <1>1 DEF Lifecycle!Check, Lifecycle!Log
  <2> QED BY <1>1, <1>3, <2>1 DEF StopInv, Lifecycle!TypeOK
<1>7. WorkIsDone'
  BY <1>1, <1>2 DEF StopInv, WorkIsDone
<1>8. \A q \in Probes : Asked(q)' => ReportFits(probe[q])'
  <2>1. \A q \in Probes : Asked(q)' => ReportFits(probe'[q])
    BY <1>4, <1>5 DEF StopInv, Asked
  <2> QED BY <2>1 DEF ReportFits
<1>9. ASSUME Lifecycle!OneProbe PROVE LogFollows'
  <2>1. \A q \in Probes : q = p
    BY <1>9 DEF Lifecycle!OneProbe
  <2>2. \A c \in Dependencies : FoundDown(c)' <=> IF c = d THEN what = "down" ELSE FoundDown(c)
    BY <1>1, <1>3, <1>5, <2>1 DEF FoundDown
  <2>3. ~ FoundDown(d)
    BY <1>1, <2>1 DEF FoundDown
  <2>4. LogFollows
    BY <1>9 DEF StopInv
  <2>5. CASE d \in up \/ d \in down
    <3>1. UNCHANGED <<told, repeated>>
      BY <2>5 DEF Lifecycle!Check
    <3>2. d \in down <=> told[d] = "down"
      BY <2>3, <2>4 DEF LogFollows
    <3> QED BY <1>1, <2>2, <2>4, <2>5, <3>1, <3>2 DEF LogFollows
  <2>6. CASE d \notin up /\ d \notin down
    <3>1. told' = [told EXCEPT ![d] = "down"] /\ repeated' = (repeated \/ told[d] = "down")
      BY <2>6 DEF Lifecycle!Check, Lifecycle!Log
    <3>2. told[d] # "down"
      BY <2>3, <2>4, <2>6 DEF LogFollows
    <3> QED BY <1>1, <2>2, <2>4, <2>6, <3>1, <3>2 DEF LogFollows
  <2> QED BY <2>5, <2>6
<1> QED BY <1>6, <1>7, <1>8, <1>9 DEF StopInv, Lifecycle!OneProbe

LEMMA AnswerProbeStep ==
  ASSUME StopInv, NEW p \in Probes, Lifecycle!AnswerProbe(p)
  PROVE  StopInv'
<1> USE DEF Lifecycle!closeVars, Lifecycle!boundVars
<1> DEFINE failed == Lifecycle!FailedNow(p)
           new == [probe[p] EXCEPT !.at = "answered", !.report = Lifecycle!Verdict(p)]
<1>1. /\ probe \in [Probes -> Lifecycle!Checking \cup {Lifecycle!NoProbe}]
      /\ probe[p].at = "checking"
      /\ \A d \in Dependencies : probe[p].found[d] # "pending"
      /\ probe' = [probe EXCEPT ![p] = new]
      /\ told' = [d \in Dependencies |-> IF d \in down \ failed THEN "up" ELSE told[d]]
      /\ repeated' = (repeated \/ \E d \in down \ failed : told[d] = "up")
      /\ down' = failed /\ down \subseteq Dependencies
      /\ told \in [Dependencies -> {"up", "down"}]
      /\ UNCHANGED <<closing, shuttingDown, inProgress, deadline, exitCode, working, up>>
  BY DEF StopInv, Lifecycle!TypeOK, Lifecycle!AnswerProbe, Lifecycle!DownAfter
<1>2. /\ probe[p] \in Lifecycle!Checking /\ probe[p].report = "none" /\ probe[p].early = TRUE
      /\ closing \notin {"serverClosed", "disconnected", "closed"} /\ exitCode # "0"
  BY <1>1, CheckingProbe
<1>3. /\ new \in Lifecycle!Checking /\ new.at = "answered" /\ new.early = TRUE
      /\ new.found = probe[p].found /\ new.report = Lifecycle!Verdict(p)
  BY <1>2 DEF Lifecycle!Checking, Lifecycle!Report, Lifecycle!Verdict
<1>4. failed = {d \in Dependencies : probe[p].found[d] = "down"}
  BY DEF Lifecycle!FailedNow
<1>5. \A d \in Dependencies : probe[p].found[d] = "up" <=> d \notin failed
  <2>1. \A d \in Dependencies : probe[p].found[d] \in {"pending", "up", "down"}
    BY <1>2 DEF Lifecycle!Checking
  <2> QED BY <1>1, <1>4, <2>1
<1>6. ReportFits(new)
  <2>1. Critical \subseteq Dependencies
    BY LifecycleConstants DEF Lifecycle!LifecycleAssumption
  <2>2. new.report = IF failed \cap Critical = {} THEN "ready" ELSE "not_ready"
    BY <1>3 DEF Lifecycle!Verdict
  <2>3. failed \cap Critical = {} <=> \A d \in Critical : probe[p].found[d] = "up"
    BY <1>5, <2>1
  <2> HIDE DEF new, failed
  <2> QED BY <1>3, <2>2, <2>3 DEF ReportFits
<1> HIDE DEF new, failed
<1>7. probe'[p] = new /\ \A q \in Probes : q # p => probe'[q] = probe[q]
  <2>1. probe \in [Probes -> Lifecycle!Checking \cup {Lifecycle!NoProbe}]
        /\ probe' = [probe EXCEPT ![p] = new]
    BY <1>1
  <2> QED BY <2>1
<1>8. Lifecycle!TypeOK'
  <2>1. told' \in [Dependencies -> {"up", "down"}]
    BY <1>1
  <2> QED BY <1>1, <1>3, <1>4, <2>1 DEF StopInv, Lifecycle!TypeOK
<1>9. WorkIsDone'
  BY <1>1, <1>2 DEF StopInv, WorkIsDone
<1>10. \A q \in Probes : Asked(q)' => ReportFits(probe[q])'
  <2>1. \A q \in Probes : Asked(q)' => ReportFits(probe'[q])
    BY <1>6, <1>7 DEF StopInv, Asked
  <2> QED BY <2>1 DEF ReportFits
<1>11. ASSUME Lifecycle!OneProbe PROVE LogFollows'
  <2>1. \A q \in Probes : q = p
    BY <1>11 DEF Lifecycle!OneProbe
  <2>2. \A d \in Dependencies : ~ FoundDown(d)'
    BY <1>3, <1>7, <2>1 DEF FoundDown
  <2>3. \A d \in Dependencies : FoundDown(d) <=> d \in failed
    BY <1>1, <1>4, <2>1 DEF FoundDown
  <2>4. LogFollows
    BY <1>11 DEF StopInv
  <2>5. ~ repeated'
    BY <1>1, <2>4 DEF LogFollows
  <2>6. \A d \in Dependencies : told'[d] = "down" <=> d \in failed
    BY <1>1, <2>3, <2>4 DEF LogFollows
  <2> QED BY <1>1, <2>2, <2>5, <2>6 DEF LogFollows
<1> QED BY <1>8, <1>9, <1>10, <1>11 DEF StopInv, Lifecycle!OneProbe

LEMMA StopStep == StopInv /\ [Lifecycle!Next]_lifecycleVars => StopInv'
<1> SUFFICES ASSUME StopInv, [Lifecycle!Next]_lifecycleVars PROVE StopInv'
  OBVIOUS
<1>1. CASE Lifecycle!Next
  BY <1>1, WorkSteps, SignalSteps, CloseSteps, BeginProbeStep, AnswerProbeStep, EndProbeStep,
     CheckStep DEF Lifecycle!Next
<1>2. CASE UNCHANGED lifecycleVars
  <2>1. UNCHANGED <<probe, down, told, repeated>>
    BY <1>2 DEF lifecycleVars
  <2>2. Lifecycle!TypeOK' /\ WorkIsDone'
    BY <1>2 DEF StopInv, lifecycleVars, Lifecycle!TypeOK, WorkIsDone, Asked
  <2> QED BY <2>1, <2>2, SameProbes DEF StopInv
<1> QED BY <1>1, <1>2

(* The steps of the lifecycle in MCServices. *)
LEMMA LifecycleInServices ==
  ASSUME MCNext \/ UNCHANGED <<allVars, part>>
  PROVE  [Lifecycle!Next]_lifecycleVars
BY DEF MCNext, OutboxSteps, LifecycleSteps, StartupSteps, PipelineSteps, PricesSteps,
       CountersSteps, allVars

StopHolds ==
    /\ Lifecycle!TypeOK
    /\ Lifecycle!ConnectionsCloseLast /\ Lifecycle!LateProbesSeeTheStop
    /\ Lifecycle!OnlyCriticalCounts
    /\ Lifecycle!OneProbe => Lifecycle!OnlyChangesAreLogged

LEMMA StopInvSays == StopInv => StopHolds
<1> SUFFICES ASSUME StopInv PROVE StopHolds
  OBVIOUS
<1>1. Lifecycle!ConnectionsCloseLast
  BY DEF StopInv, WorkIsDone, Asked, Lifecycle!ConnectionsCloseLast
<1>2. Lifecycle!LateProbesSeeTheStop
  BY DEF StopInv, Asked, ReportFits, Lifecycle!LateProbesSeeTheStop
<1>3. Lifecycle!OnlyCriticalCounts
  BY DEF StopInv, Asked, ReportFits, Lifecycle!OnlyCriticalCounts
<1>4. Lifecycle!OneProbe => Lifecycle!OnlyChangesAreLogged
  BY DEF StopInv, LogFollows, Lifecycle!OnlyChangesAreLogged
<1> QED BY <1>1, <1>2, <1>3, <1>4 DEF StopInv, StopHolds

(* A stop leaves nothing in progress behind when the connections close,    *)
(* and probes on the way are told the truth, of the dependencies and of    *)
(* the stop; for any number of requests, deliveries, probes and signals.   *)
(* (installGracefulShutdown, evaluateReadiness, HealthController)          *)
THEOREM AnyServiceStopsInOrder == Lifecycle!Spec => []StopHolds
<1>1. StopInv /\ [Lifecycle!Next]_(Lifecycle!vars) => StopInv'
  BY StopStep DEF Lifecycle!vars, Lifecycle!closeVars, Lifecycle!probeVars,
                  Lifecycle!boundVars, lifecycleVars
<1> QED BY <1>1, StopInit, StopInvSays, PTL DEF Lifecycle!Spec

(* The same of the stop among the other parts.                             *)
(* (installGracefulShutdown, evaluateReadiness, HealthController)          *)
THEOREM AnyStopIsInOrder == MCSpec => []StopsInOrder
<1>1. MCInit => StopInv
  BY StopInit DEF MCInit
<1>2. StopInv /\ [MCNext]_<<allVars, part>> => StopInv'
  BY LifecycleInServices, StopStep
<1>3. StopInv => StopsInOrder
  BY StopInvSays DEF StopHolds, StopsInOrder
<1> QED BY <1>1, <1>2, <1>3, PTL DEF MCSpec

-----------------------------------------------------------------------------
(***************************************************************************)
(* The start of a service (ServiceStartup).                                *)
(***************************************************************************)

Problems == Startup!ConfigurationWarnings(tokens, uses, environment) \cup Startup!UrlProblems

(* What was found in order is still so: it is settings that were judged.   *)
StartInv ==
    /\ Startup!TypeOK
    /\ Startup!Running =>
         /\ \A name \in DOMAIN urls : urls[name] # "undecodable"
         /\ environment = "production" => Problems = {}
    /\ starting = "listening" /\ environment = "production" /\ role.found =>
         Startup!DatabaseRoleProblems(role) = {}

LEMMA StartInit == Startup!Init => StartInv
BY DEF Startup!Init, StartInv, Startup!TypeOK, Startup!Running

LEMMA StartStep == StartInv /\ [Startup!Next]_startupVars => StartInv'
<1> SUFFICES ASSUME StartInv, [Startup!Next]_startupVars PROVE StartInv'
  OBVIOUS
<1> USE DEF Startup!settings
<1>1. CASE Startup!Configure
  <2>1. CASE \E name \in DOMAIN urls : urls[name] = "undecodable"
    BY <1>1, <2>1 DEF Startup!Configure, StartInv, Startup!TypeOK, Startup!Running
  <2>2. CASE \A name \in DOMAIN urls : urls[name] # "undecodable"
    <3>1. Startup!EnforceOrWarn(Problems, "configured")
      BY <1>1, <2>2 DEF Startup!Configure, Problems
    <3>2. Problems' = Problems
      BY <1>1 DEF Startup!Configure, Problems, Startup!UrlProblems
    <3> HIDE DEF Problems
    <3>3. /\ UNCHANGED <<environment, uses, tokens, urls, role>>
          /\ starting' = IF environment = "production" /\ Problems # {} THEN "ended" ELSE "configured"
          /\ environment = "production" => warned' = warned \/ warned' = warned \cup {}
      BY <1>1, <3>1 DEF Startup!Configure, Startup!EnforceOrWarn
    <3> QED BY <2>2, <3>2, <3>3 DEF StartInv, Startup!TypeOK, Startup!Running
  <2> QED BY <2>1, <2>2
<1>2. CASE Startup!Connect
  <2>1. /\ UNCHANGED <<environment, uses, tokens, urls, role, warned>>
        /\ starting = "configured" /\ starting' \in {"connected", "ended"}
    BY <1>2 DEF Startup!Connect
  <2>2. Problems' = Problems
    BY <2>1 DEF Problems, Startup!UrlProblems
  <2> QED BY <2>1, <2>2 DEF StartInv, Startup!TypeOK, Startup!Running
<1>3. CASE Startup!VerifyRuntimeDatabaseRole
  <2> DEFINE found == IF role.found THEN Startup!DatabaseRoleProblems(role) ELSE {}
  <2>1. /\ UNCHANGED <<environment, uses, tokens, urls, role>> /\ starting = "connected"
        /\ starting' = IF environment = "production" /\ found # {} THEN "ended" ELSE "listening"
        /\ environment = "production" => warned' = warned \/ warned' = warned \cup {}
    BY <1>3 DEF Startup!VerifyRuntimeDatabaseRole, Startup!EnforceOrWarn
  <2>2. Problems' = Problems
    BY <2>1 DEF Problems, Startup!UrlProblems
  <2>3. role.found => found = Startup!DatabaseRoleProblems(role)
    OBVIOUS
  <2>4. Startup!DatabaseRoleProblems(role)' = Startup!DatabaseRoleProblems(role)
    BY <2>1 DEF Startup!DatabaseRoleProblems
  <2> HIDE DEF found, Problems
  <2> QED BY <2>1, <2>2, <2>3, <2>4 DEF StartInv, Startup!TypeOK, Startup!Running
<1>4. CASE UNCHANGED startupVars
  BY <1>4 DEF startupVars, StartInv, Startup!TypeOK, Startup!Running, Problems, Startup!UrlProblems,
              Startup!DatabaseRoleProblems
<1> QED BY <1>1, <1>2, <1>3, <1>4 DEF Startup!Next

(* A token belongs to a role alone when no other role has it.              *)
LEMMA OwnTokenIsIdentified ==
  ASSUME NEW config, NEW r \in Startup!Roles, config[r] # None,
         \A q \in Startup!Roles : q # r => config[q] # config[r]
  PROVE  Startup!Identify(config, config[r]) = r
<1> DEFINE order == Startup!RoleOrder
           holds(i) == config[order[i]] = config[r] /\ \A j \in 1 .. i - 1 : config[order[j]] # config[r]
<1>1. \A i \in 1 .. 3 : order[i] \in Startup!Roles
  BY DEF Startup!Roles
<1>2. PICK i \in 1 .. 3 : r = order[i]
  BY DEF Startup!Roles
<1>3. \A j \in 1 .. 3 : j # i => order[j] # r
  BY <1>2 DEF Startup!RoleOrder
<1>4. \A j \in 1 .. 3 : config[order[j]] = config[r] => j = i
  BY <1>1, <1>3
<1>5. \A j \in 1 .. i - 1 : j \in 1 .. 3 /\ j # i
  OBVIOUS
<1>6. holds(i)
  BY <1>2, <1>4, <1>5
<1>7. (CHOOSE j \in 1 .. 3 : holds(j)) = i
  BY <1>4, <1>6
<1> QED BY <1>2, <1>7 DEF Startup!Identify

LEMMA StartupInServices ==
  ASSUME MCNext \/ UNCHANGED <<allVars, part>>
  PROVE  [Startup!Next]_startupVars /\ part' = part
BY DEF MCNext, OutboxSteps, LifecycleSteps, StartupSteps, PipelineSteps, PricesSteps,
       CountersSteps, allVars

StartHolds == Startup!TypeOK /\ Startup!RolesAreToldApart /\ Startup!ListensAsRuntimeRole

LEMMA StartInvSays == StartInv => StartHolds
<1> SUFFICES ASSUME StartInv PROVE Startup!RolesAreToldApart /\ Startup!ListensAsRuntimeRole
  BY DEF StartInv, StartHolds
<1>1. Startup!RolesAreToldApart
  <2> SUFFICES ASSUME Startup!Running, environment = "production", NEW r \in uses
               PROVE  Startup!Identify(tokens, tokens[r]) = r
    BY DEF Startup!RolesAreToldApart
  <2>1. Startup!ConfigurationWarnings(tokens, uses, environment) = {}
    BY DEF StartInv, Problems
  <2>2. r \in Startup!Roles
    BY DEF StartInv, Startup!TypeOK, Startup!Used
  <2>3. tokens[r] # None
    BY <2>1 DEF Startup!ConfigurationWarnings, Startup!UnusableTokens
  <2>4. ASSUME NEW q \in Startup!Roles, q # r PROVE tokens[q] # tokens[r]
    <3>1. <<r, q>> \in Startup!Roles \X Startup!Roles /\ <<r, q>>[1] = r /\ <<r, q>>[2] = q
      BY <2>2
    <3>2. <<r, q>> \notin Startup!SharedTokens(tokens, uses)
      BY <2>1 DEF Startup!ConfigurationWarnings
    <3> QED BY <2>3, <2>4, <3>1, <3>2 DEF Startup!SharedTokens
  <2> QED BY <2>2, <2>3, <2>4, OwnTokenIsIdentified
<1>2. Startup!ListensAsRuntimeRole
  <2> SUFFICES ASSUME starting = "listening", environment = "production"
               PROVE  /\ role.found => ~role.superuser /\ ~role.ownsDatabase /\ ~role.ownsTables
                      /\ \A name \in DOMAIN urls : urls[name] \in {"unset", "good"}
    BY DEF Startup!ListensAsRuntimeRole
  <2>1. Startup!Running
    BY DEF Startup!Running
  <2>2. ASSUME role.found PROVE ~role.superuser /\ ~role.ownsDatabase /\ ~role.ownsTables
    <3>1. Startup!DatabaseRoleProblems(role) = {}
      BY <2>2 DEF StartInv
    <3>2. ASSUME NEW g \in {"superuser", "ownsDatabase", "ownsTables"} PROVE ~ role[g]
      <4>1. <<"role", g>> \notin Startup!DatabaseRoleProblems(role)
        BY <3>1
      <4> QED BY <4>1 DEF Startup!DatabaseRoleProblems
    <3>3. ~ role["superuser"] /\ ~ role["ownsDatabase"] /\ ~ role["ownsTables"]
      BY <3>2
    <3> QED BY <3>3
  <2>3. ASSUME NEW name \in DOMAIN urls PROVE urls[name] \in {"unset", "good"}
    <3>1. urls[name] # "undecodable" /\ Startup!UrlProblems = {}
      BY <2>1 DEF StartInv, Problems
    <3>2. Startup!ConnectionUrlProblems(name, urls[name]) = {}
      BY <3>1 DEF Startup!UrlProblems
    <3> QED BY <3>1, <3>2 DEF Startup!ConnectionUrlProblems
  <2> QED BY <2>2, <2>3
<1> QED BY <1>1, <1>2
(* In production a service that runs tells the roles of its callers apart, *)
(* and one that listens has no more rights than it needs and no password   *)
(* anybody would try; whatever tokens and URLs there may be.               *)
(* (configureHttpApp, VerifyRuntimeDatabaseRole)                           *)
THEOREM AnyServiceListensWhenSafe == Startup!Spec => []StartHolds
<1>1. StartInv /\ [Startup!Next]_(Startup!vars) => StartInv'
  BY StartStep DEF Startup!vars, Startup!settings, startupVars
<1> QED BY <1>1, StartInit, StartInvSays, PTL DEF Startup!Spec

(* The same of the start among the other parts.                            *)
(* (configureHttpApp, VerifyRuntimeDatabaseRole)                           *)
THEOREM EveryServiceListensWhenSafe == MCSpec => []ListensWhenSafe
<1>1. MCInit => (part = "startup" => StartInv)
  BY StartInit DEF MCInit
<1>2. (part = "startup" => StartInv) /\ [MCNext]_<<allVars, part>> => (part = "startup" => StartInv)'
  BY StartupInServices, StartStep
<1>3. (part = "startup" => StartInv) => ListensWhenSafe
  BY StartInvSays DEF StartHolds, ListensWhenSafe
<1> QED BY <1>1, <1>2, <1>3, PTL DEF MCSpec

-----------------------------------------------------------------------------
(***************************************************************************)
(* Requests on their way through a service (RequestPipeline).              *)
(***************************************************************************)

LEMMA PipelineCardinality ==
  ASSUME NEW S
  PROVE  Pipeline!Cardinality(S) = Cardinality(S)
BY DEF Pipeline!Cardinality, Cardinality, Pipeline!IsFiniteSet, IsFiniteSet

LEMMA RequestsAreFinite == IsFiniteSet(HttpRequests)
BY PipelineConstants DEF Pipeline!PipelineAssumption, Pipeline!IsFiniteSet, IsFiniteSet

Stages == {"idle", "arrived", "admitted", "authorised", "handling", "answered", "lost"}
OnTheWay == {"idle", "arrived", "admitted", "authorised", "handling"}

PipelineTypes ==
    /\ serving \in [HttpRequests -> Stages]
    /\ call \in [HttpRequests -> Calls \cup {Pipeline!NoCall}]
    /\ status \in [HttpRequests -> Pipeline!Statuses]
    /\ committed \in [HttpRequests -> BOOLEAN] /\ outage \in [HttpRequests -> BOOLEAN]
    /\ open \in [HttpRequests -> BOOLEAN] /\ reported \in [HttpRequests -> BOOLEAN]
    /\ sent \in [HttpRequests -> Pipeline!Statuses \cup {0}]
    /\ process \in [HttpRequests -> Nat] /\ processes \in Nat
    /\ hits \in [Pipeline!Keys -> 0 .. Limit + WriteLimit + 1]
    /\ requestsTotal \in [Pipeline!Statuses -> Nat] /\ dependencyFailures \in Nat

(* A request has its answer once, and nothing was recorded before.         *)
AnswerFits(r) ==
    /\ serving[r] \in OnTheWay => /\ status[r] = 200 /\ sent[r] = 0
                                  /\ ~ committed[r] /\ ~ outage[r]
    /\ serving[r] = "idle" => call[r] = Pipeline!NoCall /\ open[r]
    /\ serving[r] # "idle" => call[r] \in Calls
    /\ sent[r] # 0 => sent[r] = status[r]
    /\ reported[r] <=> sent[r] # 0 \/ ~ open[r]
    /\ process[r] <= processes
    /\ Pipeline!Alive(r) => process[r] = processes
    /\ status[r] \in 400 .. 499 => ~ committed[r]
    /\ outage[r] => status[r] = 503
    /\ Pipeline!ServiceIsToldApart /\ call[r].token # None
         /\ call[r].token = Configured["internal-service"] => status[r] # 429

(* What the observers have counted since the process began.                *)
Taken == {r \in HttpRequests : serving[r] # "idle" /\ process[r] = processes}
ReportedNow == {r \in Taken : reported[r]}
SentNow(S) == {r \in Taken : sent[r] \in S}

CountersFit ==
    /\ SumOver(requestsTotal, Pipeline!Statuses) = Cardinality(ReportedNow)
    /\ \A S \in SUBSET Pipeline!Statuses : SumOver(requestsTotal, S) >= Cardinality(SentNow(S))
    /\ dependencyFailures = Cardinality({r \in Taken : outage[r]})

PipelineInv ==
    /\ PipelineTypes
    /\ \A r \in HttpRequests : AnswerFits(r)
    /\ CountersFit

-----------------------------------------------------------------------------
LEMMA StatusesAreFinite ==
  /\ IsFiniteSet(Pipeline!Statuses) /\ Pipeline!Statuses \subseteq Nat \ {0}
  /\ \A S \in SUBSET Pipeline!Statuses : IsFiniteSet(S)
<1>1. Pipeline!Statuses \in SUBSET Nat /\ 503 \in Nat
  BY DEF Pipeline!Statuses
<1>2. IsFiniteSet(Pipeline!Statuses)
  <2>1. \A x \in Pipeline!Statuses : x <= 503
    BY DEF Pipeline!Statuses
  <2> QED BY <1>1, <2>1, FS_BoundedSetOfNaturals
<1>3. Pipeline!Statuses \subseteq Nat \ {0}
  BY DEF Pipeline!Statuses
<1>4. \A S \in SUBSET Pipeline!Statuses : IsFiniteSet(S)
  BY <1>2, FS_Subset
<1> QED BY <1>2, <1>3, <1>4

LEMMA TakenIsFinite ==
  \A A \in SUBSET HttpRequests : IsFiniteSet(A) /\ Cardinality(A) \in Nat
BY RequestsAreFinite, FS_Subset, FS_CardinalityType

LEMMA PipelineInit == Pipeline!Init => PipelineInv
<1> SUFFICES ASSUME Pipeline!Init PROVE PipelineInv
  OBVIOUS
<1>1. PipelineTypes
  <2>1. 200 \in Pipeline!Statuses /\ Limit + WriteLimit + 1 \in Nat
    BY PipelineConstants DEF Pipeline!PipelineAssumption, Pipeline!Statuses
  <2> QED BY <2>1 DEF Pipeline!Init, PipelineTypes, Stages
<1>2. \A r \in HttpRequests : AnswerFits(r)
  <2>1. Pipeline!NoCall.token = None
    BY DEF Pipeline!NoCall
  <2> QED BY <2>1 DEF Pipeline!Init, AnswerFits, OnTheWay, Pipeline!Alive
<1>3. CountersFit
  <2>1. Taken = {}
    BY DEF Taken, Pipeline!Init
  <2>2. ReportedNow = {} /\ {r \in Taken : outage[r]} = {} /\ \A S : SentNow(S) = {}
    BY <2>1 DEF ReportedNow, SentNow
  <2>3. \A S \in SUBSET Pipeline!Statuses : SumOver(requestsTotal, S) = 0
    <3>1. \A S \in SUBSET Pipeline!Statuses : \A s \in S : requestsTotal[s] = 0
      BY DEF Pipeline!Init
    <3> QED BY <3>1, StatusesAreFinite, SumOverNothing
  <2>4. dependencyFailures = 0 /\ Cardinality({}) = 0
    BY FS_EmptySet DEF Pipeline!Init
  <2> QED BY <2>2, <2>3, <2>4 DEF CountersFit
<1> QED BY <1>1, <1>2, <1>3 DEF PipelineInv

(* A step that reports nothing, takes no request up and has no outage      *)
(* leaves the counters as they were.                                       *)
LEMMA CountersUntouched ==
  ASSUME PipelineInv,
         UNCHANGED <<reported, sent, outage, process, processes, requestsTotal, dependencyFailures>>,
         \A r \in HttpRequests : serving'[r] = "idle" <=> serving[r] = "idle"
  PROVE  CountersFit'
<1>1. Taken' = Taken
  BY DEF Taken
<1>2. /\ ReportedNow' = ReportedNow
      /\ {r \in Taken : outage[r]}' = {r \in Taken : outage[r]}
      /\ \A S : SentNow(S)' = SentNow(S)
  BY <1>1 DEF ReportedNow, SentNow
<1> QED BY <1>2 DEF PipelineInv, CountersFit

(* An answer by the service itself, before or instead of the handler.      *)
AnswerStatuses == {400, 401, 403, 429}

LEMMA GuardSteps ==
  ASSUME PipelineInv, NEW r \in HttpRequests,
         \/ Pipeline!Throttle(r) \/ Pipeline!Authorise(r)
         \/ \E valid \in BOOLEAN : Pipeline!Validate(r, valid)
  PROVE  PipelineInv'
<1>1. /\ serving[r] \in {"arrived", "admitted", "authorised"}
      /\ \/ /\ serving' = [serving EXCEPT ![r] = "answered"]
            /\ \E s \in AnswerStatuses : status' = [status EXCEPT ![r] = s]
         \/ /\ status' = status
            /\ \E next \in {"admitted", "authorised", "handling"} : serving' = [serving EXCEPT ![r] = next]
      /\ UNCHANGED <<call, committed, outage, open, reported, sent, process, processes,
                     requestsTotal, dependencyFailures>>
  <2>1. CASE Pipeline!Throttle(r)
    BY <2>1 DEF Pipeline!Throttle, Pipeline!Go, Pipeline!Answer, Pipeline!counters, AnswerStatuses
  <2>2. CASE Pipeline!Authorise(r)
    BY <2>2 DEF Pipeline!Authorise, Pipeline!Go, Pipeline!Answer, Pipeline!counters, AnswerStatuses
  <2>3. CASE \E valid \in BOOLEAN : Pipeline!Validate(r, valid)
    BY <2>3 DEF Pipeline!Validate, Pipeline!Go, Pipeline!Answer, Pipeline!counters, AnswerStatuses
  <2> QED BY <2>1, <2>2, <2>3
<1>2. AnswerStatuses \subseteq Pipeline!Statuses
  BY DEF AnswerStatuses, Pipeline!Statuses
<1>3. hits' \in [Pipeline!Keys -> 0 .. Limit + WriteLimit + 1]
  <2>1. hits \in [Pipeline!Keys -> 0 .. Limit + WriteLimit + 1] /\ Limit \in Nat /\ WriteLimit \in Nat
    BY PipelineConstants DEF Pipeline!PipelineAssumption, PipelineInv, PipelineTypes
  <2>2. CASE Pipeline!Throttle(r)
    <3> DEFINE key == <<call[r].client, call[r].route>>
               limit == Pipeline!LimitOf(call[r].route)
    <3>1. limit \in Nat /\ limit <= Limit + WriteLimit
      BY <2>1 DEF Pipeline!LimitOf
    <3>2. hits' = hits \/ hits' = [hits EXCEPT ![key] = IF @ > limit THEN @ ELSE @ + 1]
      BY <2>2 DEF Pipeline!Throttle
    <3> HIDE DEF key, limit
    <3> QED BY <2>1, <3>1, <3>2
  <2>3. CASE ~ Pipeline!Throttle(r)
    <3>1. hits' = hits
      BY <2>3 DEF Pipeline!Authorise, Pipeline!Validate
    <3> QED BY <2>1, <3>1
  <2> QED BY <2>2, <2>3
<1>4. /\ serving' \in [HttpRequests -> Stages] /\ status' \in [HttpRequests -> Pipeline!Statuses]
      /\ serving'[r] \in {"admitted", "authorised", "handling", "answered"}
      /\ status'[r] = status[r] \/ (status'[r] \in AnswerStatuses /\ serving'[r] = "answered")
      /\ \A q \in HttpRequests : q # r => serving'[q] = serving[q] /\ status'[q] = status[q]
  <2>1. serving \in [HttpRequests -> Stages] /\ status \in [HttpRequests -> Pipeline!Statuses]
    BY DEF PipelineInv, PipelineTypes
  <2>2. {"admitted", "authorised", "handling", "answered"} \subseteq Stages
    BY DEF Stages
  <2>3. CASE /\ serving' = [serving EXCEPT ![r] = "answered"]
             /\ \E s \in AnswerStatuses : status' = [status EXCEPT ![r] = s]
    BY <1>2, <2>1, <2>2, <2>3
  <2>4. CASE /\ status' = status
             /\ \E next \in {"admitted", "authorised", "handling"} : serving' = [serving EXCEPT ![r] = next]
    <3>1. PICK next \in {"admitted", "authorised", "handling"} : serving' = [serving EXCEPT ![r] = next]
      BY <2>4
    <3>2. next \in Stages
      BY DEF Stages
    <3>3. serving' \in [HttpRequests -> Stages] /\ serving'[r] = next
          /\ \A q \in HttpRequests : q # r => serving'[q] = serving[q]
      BY <2>1, <3>1, <3>2
    <3> QED BY <2>1, <2>4, <3>3
  <2> QED BY <1>1, <2>3, <2>4
<1>5. PipelineTypes'
  BY <1>1, <1>3, <1>4 DEF PipelineInv, PipelineTypes
<1>6. ASSUME Pipeline!ServiceIsToldApart, call[r].token # None,
             call[r].token = Configured["internal-service"]
      PROVE  status'[r] # 429
  <2>1. status[r] = 200
    BY <1>1 DEF PipelineInv, AnswerFits, OnTheWay
  <2>2. CASE Pipeline!Throttle(r)
    <3>1. Pipeline!Exempt(call[r])
      BY <1>6 DEF Pipeline!Exempt, Pipeline!ServiceIsToldApart
    <3>2. status' = status
      BY <2>2, <3>1 DEF Pipeline!Throttle, Pipeline!Go
    <3> QED BY <2>1, <3>2
  <2>3. CASE Pipeline!Authorise(r) \/ \E valid \in BOOLEAN : Pipeline!Validate(r, valid)
    <3>1. status' = status \/ \E s \in {400, 401, 403} : status' = [status EXCEPT ![r] = s]
      BY <2>3 DEF Pipeline!Authorise, Pipeline!Validate, Pipeline!Go, Pipeline!Answer
    <3>2. status \in [HttpRequests -> Pipeline!Statuses]
      BY DEF PipelineInv, PipelineTypes
    <3> QED BY <2>1, <3>1, <3>2
  <2> QED BY <2>2, <2>3
<1>7. AnswerFits(r)'
  <2>1. AnswerFits(r) /\ sent[r] = 0 /\ ~ committed[r] /\ ~ outage[r] /\ Pipeline!Alive(r)
        /\ call[r] \in Calls /\ serving[r] \in OnTheWay /\ status[r] = 200
    BY <1>1 DEF PipelineInv, AnswerFits, OnTheWay, Pipeline!Alive
  <2>2. Pipeline!Alive(r)' /\ serving'[r] # "idle" /\ (serving'[r] \in OnTheWay => status'[r] = 200)
    BY <1>4, <2>1 DEF Pipeline!Alive, OnTheWay
  <2>3. Pipeline!ServiceIsToldApart' = Pipeline!ServiceIsToldApart
    BY DEF Pipeline!ServiceIsToldApart, Pipeline!Identify, Pipeline!RoleOrder
  <2> QED BY <1>1, <1>6, <2>1, <2>2, <2>3 DEF AnswerFits
<1>8. ASSUME NEW q \in HttpRequests, q # r PROVE AnswerFits(q)'
  BY <1>1, <1>4, <1>8 DEF PipelineInv, AnswerFits, Pipeline!Alive, Pipeline!ServiceIsToldApart
<1>9. CountersFit'
  <2>1. \A q \in HttpRequests : serving'[q] = "idle" <=> serving[q] = "idle"
    BY <1>1, <1>4
  <2> QED BY <1>1, <2>1, CountersUntouched
<1> QED BY <1>5, <1>7, <1>8, <1>9 DEF PipelineInv

-----------------------------------------------------------------------------
LEMMA ArriveStep ==
  ASSUME PipelineInv, NEW r \in HttpRequests, NEW c \in Calls, Pipeline!Arrive(r, c)
  PROVE  PipelineInv'
<1>1. /\ serving[r] = "idle" /\ serving' = [serving EXCEPT ![r] = "arrived"]
      /\ call' = [call EXCEPT ![r] = c] /\ process' = [process EXCEPT ![r] = processes]
      /\ UNCHANGED <<status, committed, outage, open, reported, sent, processes, hits,
                     requestsTotal, dependencyFailures>>
  BY DEF Pipeline!Arrive, Pipeline!counters
<1>2. PipelineTypes /\ AnswerFits(r)
  BY DEF PipelineInv
<1>3. PipelineTypes'
  BY <1>1, <1>2 DEF PipelineTypes, Stages
<1>4. /\ serving'[r] = "arrived" /\ call'[r] = c /\ process'[r] = processes
      /\ \A q \in HttpRequests : q # r =>
            serving'[q] = serving[q] /\ call'[q] = call[q] /\ process'[q] = process[q]
  BY <1>1, <1>2 DEF PipelineTypes
<1>5. /\ status[r] = 200 /\ sent[r] = 0 /\ ~ committed[r] /\ ~ outage[r] /\ open[r] /\ ~ reported[r]
      /\ processes \in Nat
  BY <1>1, <1>2 DEF AnswerFits, OnTheWay, PipelineTypes
<1>6. AnswerFits(r)'
  BY <1>1, <1>4, <1>5 DEF AnswerFits, OnTheWay, Pipeline!Alive
<1>7. ASSUME NEW q \in HttpRequests, q # r PROVE AnswerFits(q)'
  BY <1>1, <1>4, <1>7 DEF PipelineInv, AnswerFits, Pipeline!Alive, Pipeline!ServiceIsToldApart
<1>8. CountersFit'
  <2>1. /\ ReportedNow' = ReportedNow
        /\ {q \in Taken : outage[q]}' = {q \in Taken : outage[q]}
    BY <1>1, <1>4, <1>5 DEF Taken, ReportedNow
  <2>2. \A S \in SUBSET Pipeline!Statuses : SentNow(S)' = SentNow(S)
    BY <1>1, <1>4, <1>5, StatusesAreFinite DEF Taken, SentNow
  <2> QED BY <1>1, <2>1, <2>2 DEF PipelineInv, CountersFit
<1> QED BY <1>3, <1>6, <1>7, <1>8 DEF PipelineInv

-----------------------------------------------------------------------------
(* The handler's answers. *)

(* The errors a handler may meet, by what the filter sees of them.         *)
LEMMA RefusalsSeen ==
  ASSUME NEW e \in Pipeline!Refusals
  PROVE  /\ e.wording = FALSE /\ e.down = FALSE
         /\ \/ e.name = "HttpException" /\ e.code \in {"400", "404", "409", "422"}
            \/ /\ e.name = "PrismaClientKnownRequestError"
               /\ e.code \in {"P2002", "P2025", "P2003", "P2000"}
BY DEF Pipeline!Refusals, Pipeline!Thrown, Pipeline!KnownError

LEMMA FaultsSeen ==
  ASSUME NEW e \in Pipeline!Faults
  PROVE  \/ /\ e.down = TRUE
            /\ \/ e.name = "PrismaClientInitializationError"
               \/ /\ e.name = "PrismaClientKnownRequestError"
                  /\ e.code \in {"P1001", "P1017", "P2024"}
               \/ e.name = "PrismaClientUnknownRequestError" /\ e.wording = TRUE
         \/ /\ e.down = FALSE
            /\ \/ /\ e.name = "PrismaClientUnknownRequestError"
                  /\ e.code = "none" /\ e.wording = FALSE
               \/ /\ e.name = "PrismaClientKnownRequestError"
                  /\ e.code = "P2028" /\ e.wording = FALSE
               \/ e.name = "HttpException" /\ e.code = "503" /\ e.wording = FALSE
               \/ e.name = "Error"
BY DEF Pipeline!Faults, Pipeline!Thrown, Pipeline!KnownError

LEMMA OutagesAreKnown ==
  ASSUME NEW e \in Pipeline!Refusals \cup Pipeline!Faults
  PROVE  e.down \in BOOLEAN /\ (e.down <=> Pipeline!IsDatabaseUnavailable(e))
<1>1. CASE e \in Pipeline!Refusals
  BY <1>1, RefusalsSeen DEF Pipeline!IsDatabaseUnavailable, Pipeline!PrismaClients, Pipeline!KnownError
<1>2. CASE e \in Pipeline!Faults
  BY <1>2, FaultsSeen DEF Pipeline!IsDatabaseUnavailable, Pipeline!PrismaClients, Pipeline!KnownError
<1> QED BY <1>1, <1>2

LEMMA BodyArms ==
  ASSUME NEW e, ~ Pipeline!IsDatabaseUnavailable(e)
  PROVE  /\ e.name = "HttpException" => Pipeline!ToErrorBody(e) = Pipeline!HttpStatus[e.code]
         /\ e.name = "PrismaClientKnownRequestError" =>
              Pipeline!ToErrorBody(e) = Pipeline!MapPrismaError(e.code)
         /\ e.name \notin {"HttpException", "PrismaClientKnownRequestError"} =>
              Pipeline!ToErrorBody(e) = 500
<1>1. CASE e.name = "HttpException"
  BY <1>1 DEF Pipeline!ToErrorBody, Pipeline!KnownError
<1>2. CASE e.name = "PrismaClientKnownRequestError"
  BY <1>2 DEF Pipeline!ToErrorBody, Pipeline!KnownError
<1>3. CASE e.name \notin {"HttpException", "PrismaClientKnownRequestError"}
  BY <1>3 DEF Pipeline!ToErrorBody, Pipeline!KnownError
<1> QED BY <1>1, <1>2, <1>3

LEMMA BodiesOfErrors ==
  ASSUME NEW e \in Pipeline!Refusals \cup Pipeline!Faults
  PROVE  /\ Pipeline!ToErrorBody(e) \in Pipeline!Statuses \ {429}
         /\ e.down => Pipeline!ToErrorBody(e) = 503
         /\ e \in Pipeline!Faults => Pipeline!ToErrorBody(e) \notin 400 .. 499
<1>1. {400, 404, 409, 422, 503, 500} \subseteq Pipeline!Statuses \ {429}
  BY DEF Pipeline!Statuses
<1>2. 500 \notin 400 .. 499 /\ 503 \notin 400 .. 499
  OBVIOUS
<1>3. CASE e.down
  <2>1. Pipeline!IsDatabaseUnavailable(e)
    BY <1>3, OutagesAreKnown
  <2>2. Pipeline!ToErrorBody(e) = 503
    BY <2>1, Zenon DEF Pipeline!ToErrorBody
  <2> QED BY <1>1, <1>2, <2>2
<1>4. CASE ~ e.down /\ e \in Pipeline!Faults
  <2>1. ~ Pipeline!IsDatabaseUnavailable(e)
    BY <1>4, OutagesAreKnown
  <2>2. Pipeline!MapPrismaError("P2028") = 500 /\ Pipeline!HttpStatus["503"] = 503
    BY DEF Pipeline!MapPrismaError, Pipeline!HttpStatus
  <2>3. ASSUME e.name = "HttpException", e.code = "503" PROVE Pipeline!ToErrorBody(e) = 503
    BY <2>1, <2>2, <2>3, BodyArms
  <2>4. ASSUME e.name = "PrismaClientKnownRequestError", e.code = "P2028"
        PROVE  Pipeline!ToErrorBody(e) = 500
    BY <2>1, <2>2, <2>4, BodyArms
  <2>5. ASSUME e.name \in {"PrismaClientUnknownRequestError", "Error"}
        PROVE  Pipeline!ToErrorBody(e) = 500
    BY <2>1, <2>5, BodyArms
  <2>6. Pipeline!ToErrorBody(e) \in {500, 503}
    BY <1>4, <2>3, <2>4, <2>5, FaultsSeen
  <2> QED BY <1>1, <1>2, <1>4, <2>6
<1>5. CASE ~ e.down /\ e \in Pipeline!Refusals /\ e \notin Pipeline!Faults
  <2>1. ~ Pipeline!IsDatabaseUnavailable(e)
    BY <1>5, OutagesAreKnown
  <2>2. \A c \in {"400", "404", "409", "422"} : Pipeline!HttpStatus[c] \in {400, 404, 409, 422}
    BY DEF Pipeline!HttpStatus
  <2>3. \A c \in {"P2002", "P2025", "P2003", "P2000"} : Pipeline!MapPrismaError(c) \in {400, 404, 409, 422}
    BY DEF Pipeline!MapPrismaError
  <2>4. CASE e.name = "HttpException" /\ e.code \in {"400", "404", "409", "422"}
    <3>1. Pipeline!ToErrorBody(e) = Pipeline!HttpStatus[e.code]
      BY <2>1, <2>4, BodyArms
    <3> QED BY <1>1, <1>5, <2>2, <2>4, <3>1
  <2>5. CASE /\ e.name = "PrismaClientKnownRequestError"
             /\ e.code \in {"P2002", "P2025", "P2003", "P2000"}
    <3>1. Pipeline!ToErrorBody(e) = Pipeline!MapPrismaError(e.code)
      BY <2>1, <2>5, BodyArms
    <3> QED BY <1>1, <1>5, <2>3, <2>5, <3>1
  <2>6. \/ e.name = "HttpException" /\ e.code \in {"400", "404", "409", "422"}
        \/ /\ e.name = "PrismaClientKnownRequestError"
           /\ e.code \in {"P2002", "P2025", "P2003", "P2000"}
    <3>1. e \in Pipeline!Refusals
      BY <1>5
    <3> QED BY <3>1, RefusalsSeen
  <2> QED BY <2>4, <2>5, <2>6, Zenon
<1> QED BY <1>3, <1>4, <1>5

(* One request more among those of a kind. *)
LEMMA OneRequestMore ==
  ASSUME NEW A \in SUBSET HttpRequests, NEW r \in HttpRequests, r \notin A
  PROVE  Cardinality(A \cup {r}) = Cardinality(A) + 1
BY TakenIsFinite, FS_AddElement

(* What a handler's end does, however it ends.                             *)
HandlerEnds(r, answer, saved, failing) ==
    /\ serving[r] = "handling" /\ serving' = [serving EXCEPT ![r] = "answered"]
    /\ status' = [status EXCEPT ![r] = answer]
    /\ committed' = [committed EXCEPT ![r] = saved]
    /\ \/ outage' = [outage EXCEPT ![r] = failing]
       \/ ~ failing /\ UNCHANGED outage
    /\ dependencyFailures' = dependencyFailures + (IF failing THEN 1 ELSE 0)
    /\ answer \in 400 .. 499 => ~ saved
    /\ failing => answer = 503
    /\ UNCHANGED <<call, open, reported, sent, process, processes, hits, requestsTotal>>

LEMMA HandlerEndStep ==
  ASSUME PipelineInv, NEW r \in HttpRequests, NEW s \in Pipeline!Statuses \ {429},
         NEW saved \in BOOLEAN, NEW failing \in BOOLEAN, HandlerEnds(r, s, saved, failing)
  PROVE  PipelineInv'
<1>1. /\ serving[r] = "handling" /\ serving' = [serving EXCEPT ![r] = "answered"]
      /\ status' = [status EXCEPT ![r] = s]
      /\ committed' = [committed EXCEPT ![r] = saved]
      /\ \/ outage' = [outage EXCEPT ![r] = failing]
         \/ ~ failing /\ UNCHANGED outage
      /\ dependencyFailures' = dependencyFailures + (IF failing THEN 1 ELSE 0)
      /\ s \in 400 .. 499 => ~ saved
      /\ failing => s = 503
      /\ UNCHANGED <<call, open, reported, sent, process, processes, hits, requestsTotal>>
  BY DEF HandlerEnds
<1>2. PipelineTypes /\ AnswerFits(r)
  BY DEF PipelineInv
<1>3. PipelineTypes'
  <2>1. dependencyFailures' \in Nat /\ serving' \in [HttpRequests -> Stages]
    BY <1>1, <1>2 DEF PipelineTypes, Stages
  <2>2. /\ status' \in [HttpRequests -> Pipeline!Statuses]
        /\ committed' \in [HttpRequests -> BOOLEAN] /\ outage' \in [HttpRequests -> BOOLEAN]
    BY <1>1, <1>2 DEF PipelineTypes
  <2> QED BY <1>1, <1>2, <2>1, <2>2 DEF PipelineTypes
<1>4. /\ sent[r] = 0 /\ ~ outage[r] /\ process[r] = processes /\ call[r] \in Calls
  BY <1>1, <1>2 DEF AnswerFits, OnTheWay, Pipeline!Alive
<1>5. /\ serving'[r] = "answered" /\ status'[r] = s /\ committed'[r] = saved /\ outage'[r] = failing
      /\ \A q \in HttpRequests : q # r =>
            /\ serving'[q] = serving[q] /\ status'[q] = status[q]
            /\ committed'[q] = committed[q] /\ outage'[q] = outage[q]
  BY <1>1, <1>2, <1>4 DEF PipelineTypes
<1>6. AnswerFits(r)'
  BY <1>1, <1>2, <1>4, <1>5 DEF AnswerFits, OnTheWay, Pipeline!Alive
<1>7. ASSUME NEW q \in HttpRequests, q # r PROVE AnswerFits(q)'
  BY <1>1, <1>5, <1>7 DEF PipelineInv, AnswerFits, Pipeline!Alive, Pipeline!ServiceIsToldApart
<1>8. CountersFit'
  <2>1. Taken' = Taken /\ r \in Taken
    BY <1>1, <1>4, <1>5 DEF Taken
  <2>2. ReportedNow' = ReportedNow /\ \A S : SentNow(S)' = SentNow(S)
    BY <1>1, <2>1 DEF ReportedNow, SentNow
  <2> DEFINE ofOutage == {q \in Taken : outage[q]}
  <2>3. ofOutage \in SUBSET HttpRequests /\ r \notin ofOutage
    BY <1>4 DEF Taken
  <2>4. ofOutage' = IF failing THEN ofOutage \cup {r} ELSE ofOutage
    <3>1. \A q \in Taken : q # r => outage'[q] = outage[q]
      BY <1>5 DEF Taken
    <3>2. ofOutage' = {q \in Taken : outage'[q]}
      BY <2>1
    <3> QED BY <1>4, <1>5, <2>1, <3>1, <3>2
  <2>5. dependencyFailures = Cardinality(ofOutage) /\ dependencyFailures \in Nat
    BY <1>2 DEF PipelineInv, CountersFit, PipelineTypes
  <2> HIDE DEF ofOutage
  <2>6. dependencyFailures' = Cardinality(ofOutage')
    BY <1>1, <2>3, <2>4, <2>5, OneRequestMore
  <2> QED BY <1>1, <2>2, <2>6 DEF PipelineInv, CountersFit, ofOutage
<1> QED BY <1>3, <1>6, <1>7, <1>8 DEF PipelineInv

LEMMA HandlerSteps ==
  ASSUME PipelineInv, NEW r \in HttpRequests,
         \/ Pipeline!Succeed(r)
         \/ \E e \in Pipeline!Refusals \cup Pipeline!Faults, saved \in BOOLEAN : Pipeline!Fail(r, e, saved)
  PROVE  PipelineInv'
<1>1. CASE Pipeline!Succeed(r)
  <2>1. 200 \in Pipeline!Statuses \ {429} /\ 200 \notin 400 .. 499
    BY DEF Pipeline!Statuses
  <2>2. dependencyFailures' = dependencyFailures + 0
    BY <1>1 DEF Pipeline!Succeed, Pipeline!counters, PipelineInv, PipelineTypes
  <2>3. PICK saved \in BOOLEAN : saved <=> call[r].route # "read"
    OBVIOUS
  <2>4. committed' = [committed EXCEPT ![r] = saved]
    <3>1. committed' = [committed EXCEPT ![r] = call[r].route # "read"]
      BY <1>1 DEF Pipeline!Succeed
    <3> QED BY <2>3, <3>1
  <2>5. PICK failing \in BOOLEAN : ~ failing
    OBVIOUS
  <2>6. HandlerEnds(r, 200, saved, failing)
    BY <1>1, <2>1, <2>2, <2>4, <2>5 DEF HandlerEnds, Pipeline!Succeed, Pipeline!Answer, Pipeline!counters
  <2> QED BY <2>1, <2>6, HandlerEndStep
<1>2. ASSUME NEW e \in Pipeline!Refusals \cup Pipeline!Faults, NEW saved \in BOOLEAN,
             Pipeline!Fail(r, e, saved)
      PROVE  PipelineInv'
  <2>1. /\ Pipeline!ToErrorBody(e) \in Pipeline!Statuses \ {429} /\ e.down \in BOOLEAN
        /\ e.down => Pipeline!ToErrorBody(e) = 503
        /\ e.down <=> Pipeline!IsDatabaseUnavailable(e)
        /\ e \in Pipeline!Faults => Pipeline!ToErrorBody(e) \notin 400 .. 499
    BY BodiesOfErrors, OutagesAreKnown
  <2>2. saved => e \in Pipeline!Faults
    BY <1>2 DEF Pipeline!Fail
  <2>3. /\ serving[r] = "handling" /\ serving' = [serving EXCEPT ![r] = "answered"]
        /\ status' = [status EXCEPT ![r] = Pipeline!ToErrorBody(e)]
        /\ committed' = [committed EXCEPT ![r] = saved]
        /\ outage' = [outage EXCEPT ![r] = e.down]
        /\ dependencyFailures' = dependencyFailures + (IF Pipeline!IsDatabaseUnavailable(e) THEN 1 ELSE 0)
        /\ UNCHANGED <<call, open, reported, sent, process, processes, hits, requestsTotal>>
    BY <1>2 DEF Pipeline!Fail, Pipeline!Answer
  <2>4. HandlerEnds(r, Pipeline!ToErrorBody(e), saved, e.down)
    BY <2>1, <2>2, <2>3 DEF HandlerEnds
  <2> QED BY <2>1, <2>4, HandlerEndStep
<1> QED BY <1>1, <1>2

-----------------------------------------------------------------------------
(* The first report of a request is counted with the status it has then.   *)
LEMMA ReportCounts ==
  ASSUME PipelineInv, NEW r \in HttpRequests, Pipeline!Report(r), r \in Taken,
         UNCHANGED <<serving, status, process, processes, outage, dependencyFailures>>,
         \A q \in HttpRequests : q # r => sent'[q] = sent[q],
         sent'[r] = sent[r] \/ (sent'[r] = status[r] /\ ~ reported[r])
  PROVE  CountersFit' /\ requestsTotal' \in [Pipeline!Statuses -> Nat]
<1>1. PipelineTypes
  BY DEF PipelineInv
<1>2. /\ reported' = [reported EXCEPT ![r] = TRUE]
      /\ reported[r] => requestsTotal' = requestsTotal
      /\ ~ reported[r] => requestsTotal' = [requestsTotal EXCEPT ![status[r]] = @ + 1]
  BY DEF Pipeline!Report
<1>3. Taken' = Taken /\ Taken \in SUBSET HttpRequests
  BY DEF Taken
<1>4. {q \in Taken : outage[q]}' = {q \in Taken : outage[q]}
  BY <1>3
<1>5. CASE reported[r]
  <2>1. requestsTotal' = requestsTotal /\ reported' = reported
    BY <1>1, <1>2, <1>5 DEF PipelineTypes
  <2>2. \A q \in HttpRequests : sent'[q] = sent[q]
    BY <1>5
  <2>3. ReportedNow' = ReportedNow /\ \A S : SentNow(S)' = SentNow(S)
    BY <1>3, <2>1, <2>2 DEF ReportedNow, SentNow
  <2> QED BY <1>1, <1>4, <2>1, <2>3 DEF PipelineInv, CountersFit, PipelineTypes
<1>6. CASE ~ reported[r]
  <2>1. requestsTotal' = [requestsTotal EXCEPT ![status[r]] = @ + 1] /\ status[r] \in Pipeline!Statuses
    BY <1>1, <1>2, <1>6 DEF PipelineTypes
  <2>2. requestsTotal' \in [Pipeline!Statuses -> Nat] /\ requestsTotal \in [Pipeline!Statuses -> Nat]
    BY <1>1, <2>1 DEF PipelineTypes
  <2>3. ASSUME NEW S \in SUBSET Pipeline!Statuses
        PROVE  SumOver(requestsTotal', S) = SumOver(requestsTotal, S) + IF status[r] \in S THEN 1 ELSE 0
    <3>1. IsFiniteSet(S) /\ SumOver(requestsTotal, S) \in Int
      <4>1. \A s \in S : requestsTotal[s] \in Int
        BY <2>2
      <4> QED BY <4>1, StatusesAreFinite, SumOverType
    <3>2. CASE status[r] \in S
      <4>1. \A s \in S : requestsTotal[s] \in Int /\ requestsTotal'[s] \in Int
        BY <2>2
      <4>2. \A s \in S : s # status[r] => requestsTotal'[s] = requestsTotal[s]
        BY <2>1, <2>2
      <4>3. SumOver(requestsTotal', S)
              = SumOver(requestsTotal, S) + requestsTotal'[status[r]] - requestsTotal[status[r]]
        BY <3>1, <3>2, <4>1, <4>2, SumOverOneChange
      <4>4. requestsTotal'[status[r]] = requestsTotal[status[r]] + 1 /\ requestsTotal[status[r]] \in Nat
        BY <2>1, <2>2
      <4> QED BY <3>1, <3>2, <4>3, <4>4
    <3>3. CASE status[r] \notin S
      <4>1. \A s \in S : requestsTotal'[s] = requestsTotal[s]
        BY <2>1, <2>2, <3>3
      <4> QED BY <3>1, <3>3, <4>1, SumOverSame
    <3> QED BY <3>2, <3>3
  <2>4. ReportedNow' = ReportedNow \cup {r} /\ r \notin ReportedNow /\ ReportedNow \in SUBSET HttpRequests
    <3>1. \A q \in HttpRequests : reported'[q] <=> reported[q] \/ q = r
      BY <1>1, <1>2 DEF PipelineTypes
    <3> QED BY <1>3, <1>6, <3>1 DEF ReportedNow
  <2>5. Cardinality(ReportedNow') = Cardinality(ReportedNow) + 1
    BY <2>4, OneRequestMore
  <2>6. SumOver(requestsTotal', Pipeline!Statuses) = Cardinality(ReportedNow')
    BY <2>1, <2>3, <2>5 DEF PipelineInv, CountersFit
  <2>7. ASSUME NEW S \in SUBSET Pipeline!Statuses
        PROVE  SumOver(requestsTotal', S) >= Cardinality(SentNow(S)')
    <3>1. SentNow(S) \in SUBSET HttpRequests /\ SentNow(S)' \in SUBSET HttpRequests
      BY <1>3 DEF SentNow
    <3>2. Cardinality(SentNow(S)) \in Nat /\ Cardinality(SentNow(S)') \in Nat
      BY <3>1, TakenIsFinite
    <3>3. SumOver(requestsTotal, S) >= Cardinality(SentNow(S)) /\ SumOver(requestsTotal, S) \in Int
      <4>1. \A s \in S : requestsTotal[s] \in Int
        BY <2>2
      <4> QED BY <4>1, StatusesAreFinite, SumOverType DEF PipelineInv, CountersFit
    <3>4. CASE SentNow(S)' = SentNow(S)
      BY <2>3, <3>2, <3>3, <3>4
    <3>5. CASE SentNow(S)' # SentNow(S)
      <4>1. sent[r] = 0
        <5>1. AnswerFits(r)
          BY DEF PipelineInv
        <5> QED BY <1>6, <5>1 DEF AnswerFits
      <4>2. 0 \notin S
        BY StatusesAreFinite
      <4>3. sent'[r] \in S /\ sent'[r] = status[r]
        BY <1>3, <3>5, <4>1, <4>2 DEF SentNow
      <4>4. SentNow(S)' = SentNow(S) \cup {r} /\ r \notin SentNow(S)
        BY <1>3, <4>1, <4>2, <4>3 DEF SentNow
      <4>5. Cardinality(SentNow(S)') = Cardinality(SentNow(S)) + 1
        BY <3>1, <4>4, OneRequestMore
      <4> QED BY <2>3, <3>2, <3>3, <4>3, <4>5
    <3> QED BY <3>4, <3>5
  <2> QED BY <1>4, <2>2, <2>6, <2>7 DEF PipelineInv, CountersFit
<1> QED BY <1>5, <1>6

LEMMA FinishStep ==
  ASSUME PipelineInv, NEW r \in HttpRequests, Pipeline!Finish(r)
  PROVE  PipelineInv'
<1>1. /\ serving[r] = "answered" /\ open[r] /\ sent[r] = 0
      /\ sent' = [sent EXCEPT ![r] = status[r]] /\ Pipeline!Report(r)
      /\ UNCHANGED <<serving, call, status, committed, outage, open, process, processes, hits,
                     dependencyFailures>>
  BY DEF Pipeline!Finish
<1>2. PipelineTypes /\ AnswerFits(r)
  BY DEF PipelineInv
<1>3. r \in Taken /\ ~ reported[r]
  BY <1>1, <1>2 DEF AnswerFits, Pipeline!Alive, Taken
<1>4. /\ sent' \in [HttpRequests -> Pipeline!Statuses \cup {0}] /\ sent'[r] = status[r]
      /\ \A q \in HttpRequests : q # r => sent'[q] = sent[q]
  BY <1>1, <1>2 DEF PipelineTypes
<1>5. /\ reported' \in [HttpRequests -> BOOLEAN] /\ reported'[r]
      /\ \A q \in HttpRequests : q # r => reported'[q] = reported[q]
  BY <1>1, <1>2 DEF PipelineTypes, Pipeline!Report
<1>6. CountersFit' /\ requestsTotal' \in [Pipeline!Statuses -> Nat]
  BY <1>1, <1>3, <1>4, ReportCounts
<1>7. PipelineTypes'
  BY <1>1, <1>2, <1>4, <1>5, <1>6 DEF PipelineTypes
<1>8. AnswerFits(r)'
  <2>1. sent'[r] # 0
    BY <1>2, <1>4, StatusesAreFinite DEF PipelineTypes
  <2> QED BY <1>1, <1>2, <1>4, <1>5, <2>1 DEF AnswerFits, OnTheWay, Pipeline!Alive
<1>9. ASSUME NEW q \in HttpRequests, q # r PROVE AnswerFits(q)'
  BY <1>1, <1>4, <1>5, <1>9 DEF PipelineInv, AnswerFits, Pipeline!Alive, Pipeline!ServiceIsToldApart
<1> QED BY <1>6, <1>7, <1>8, <1>9 DEF PipelineInv

LEMMA HangUpStep ==
  ASSUME PipelineInv, NEW r \in HttpRequests, Pipeline!Close(r)
  PROVE  PipelineInv'
<1>1. /\ Pipeline!Alive(r) /\ open[r] /\ open' = [open EXCEPT ![r] = FALSE] /\ Pipeline!Report(r)
      /\ UNCHANGED <<serving, call, status, committed, outage, sent, process, processes, hits,
                     dependencyFailures>>
  BY DEF Pipeline!Close
<1>2. PipelineTypes /\ AnswerFits(r)
  BY DEF PipelineInv
<1>3. r \in Taken
  BY <1>1, <1>2 DEF AnswerFits, Pipeline!Alive, Taken
<1>4. /\ open' \in [HttpRequests -> BOOLEAN] /\ ~ open'[r]
      /\ \A q \in HttpRequests : q # r => open'[q] = open[q]
  BY <1>1, <1>2 DEF PipelineTypes
<1>5. /\ reported' \in [HttpRequests -> BOOLEAN] /\ reported'[r]
      /\ \A q \in HttpRequests : q # r => reported'[q] = reported[q]
  BY <1>1, <1>2 DEF PipelineTypes, Pipeline!Report
<1>6. CountersFit' /\ requestsTotal' \in [Pipeline!Statuses -> Nat]
  <2>1. sent'[r] = sent[r] /\ \A q \in HttpRequests : q # r => sent'[q] = sent[q]
    BY <1>1
  <2>2. UNCHANGED <<serving, status, process, processes, outage, dependencyFailures>>
    BY <1>1
  <2> QED BY <1>1, <1>3, <2>1, <2>2, ReportCounts
<1>7. PipelineTypes'
  BY <1>1, <1>2, <1>4, <1>5, <1>6 DEF PipelineTypes
<1>8. AnswerFits(r)'
  BY <1>1, <1>2, <1>4, <1>5 DEF AnswerFits, Pipeline!Alive, Pipeline!ServiceIsToldApart
<1>9. ASSUME NEW q \in HttpRequests, q # r PROVE AnswerFits(q)'
  BY <1>1, <1>4, <1>5, <1>9 DEF PipelineInv, AnswerFits, Pipeline!Alive, Pipeline!ServiceIsToldApart
<1> QED BY <1>6, <1>7, <1>8, <1>9 DEF PipelineInv

LEMMA WindowStep ==
  ASSUME PipelineInv, NEW key \in Pipeline!Keys, Pipeline!WindowEnds(key)
  PROVE  PipelineInv'
<1>1. /\ hits' = [hits EXCEPT ![key] = 0]
      /\ UNCHANGED <<serving, call, status, committed, outage, open, reported, sent, process,
                     processes, requestsTotal, dependencyFailures>>
  BY DEF Pipeline!WindowEnds, Pipeline!request, Pipeline!counters
<1>2. PipelineTypes'
  <2>1. 0 \in 0 .. Limit + WriteLimit + 1
    BY PipelineConstants DEF Pipeline!PipelineAssumption
  <2> QED BY <1>1, <2>1 DEF PipelineInv, PipelineTypes
<1>3. \A q \in HttpRequests : AnswerFits(q)'
  BY <1>1 DEF PipelineInv, AnswerFits, Pipeline!Alive, Pipeline!ServiceIsToldApart
<1>4. CountersFit'
  BY <1>1, CountersUntouched
<1> QED BY <1>2, <1>3, <1>4 DEF PipelineInv

LEMMA RestartStep ==
  ASSUME PipelineInv, Pipeline!Restart
  PROVE  PipelineInv'
<1>1. /\ processes' = processes + 1
      /\ serving' = [r \in HttpRequests |-> IF Pipeline!Alive(r) THEN "lost" ELSE serving[r]]
      /\ hits' = [k \in Pipeline!Keys |-> 0]
      /\ requestsTotal' = [s \in Pipeline!Statuses |-> 0] /\ dependencyFailures' = 0
      /\ UNCHANGED <<call, status, committed, outage, open, reported, sent, process>>
  BY DEF Pipeline!Restart
<1>2. PipelineTypes
  BY DEF PipelineInv
<1>3. PipelineTypes'
  <2>1. 0 \in 0 .. Limit + WriteLimit + 1
    BY PipelineConstants DEF Pipeline!PipelineAssumption
  <2>2. serving' \in [HttpRequests -> Stages]
    BY <1>1, <1>2 DEF PipelineTypes, Stages
  <2> QED BY <1>1, <1>2, <2>1, <2>2 DEF PipelineTypes
<1>4. ASSUME NEW r \in HttpRequests PROVE AnswerFits(r)' /\ r \notin Taken'
  <2>1. AnswerFits(r) /\ process[r] \in Nat /\ processes \in Nat
    BY <1>2 DEF PipelineInv, PipelineTypes
  <2>2. /\ serving'[r] \in {"idle", "lost"} /\ (serving'[r] = "idle" => serving[r] = "idle")
        /\ (serving'[r] = "lost" => serving[r] # "idle")
    BY <1>1 DEF Pipeline!Alive
  <2>3. process[r] < processes' /\ process[r] <= processes'
    BY <1>1, <2>1 DEF AnswerFits
  <2>4. r \notin Taken'
    BY <1>1, <2>1, <2>3 DEF Taken
  <2> QED BY <1>1, <2>1, <2>2, <2>3, <2>4 DEF AnswerFits, OnTheWay, Pipeline!Alive,
                                              Pipeline!ServiceIsToldApart
<1>5. CountersFit'
  <2>1. Taken' = {}
    BY <1>4 DEF Taken
  <2>2. ReportedNow' = {} /\ {r \in Taken : outage[r]}' = {} /\ \A S : SentNow(S)' = {}
    BY <2>1 DEF ReportedNow, SentNow
  <2>3. \A S \in SUBSET Pipeline!Statuses : SumOver(requestsTotal', S) = 0
    <3>1. \A S \in SUBSET Pipeline!Statuses : \A s \in S : requestsTotal'[s] = 0
      BY <1>1
    <3> QED BY <3>1, StatusesAreFinite, SumOverNothing
  <2>4. Cardinality({}) = 0
    BY FS_EmptySet
  <2> QED BY <1>1, <2>2, <2>3, <2>4 DEF CountersFit
<1> QED BY <1>3, <1>4, <1>5 DEF PipelineInv

LEMMA PipelineStep == PipelineInv /\ [Pipeline!Next]_pipelineVars => PipelineInv'
<1> SUFFICES ASSUME PipelineInv, [Pipeline!Next]_pipelineVars PROVE PipelineInv'
  OBVIOUS
<1>1. CASE Pipeline!Next
  BY <1>1, ArriveStep, GuardSteps, HandlerSteps, FinishStep, HangUpStep, WindowStep, RestartStep
     DEF Pipeline!Next
<1>2. CASE UNCHANGED pipelineVars
  <2>1. UNCHANGED <<serving, call, status, committed, outage, open, reported, sent, process,
                    processes, hits, requestsTotal, dependencyFailures>>
    BY <1>2 DEF pipelineVars
  <2>2. CountersFit'
    BY <2>1, CountersUntouched
  <2> QED BY <2>1, <2>2 DEF PipelineInv, PipelineTypes, AnswerFits, Pipeline!Alive,
                            Pipeline!ServiceIsToldApart
<1> QED BY <1>1, <1>2

(* The steps of the pipeline in MCServices. *)
LEMMA PipelineInServices ==
  ASSUME MCNext \/ UNCHANGED <<allVars, part>>
  PROVE  [Pipeline!Next]_pipelineVars
BY DEF MCNext, OutboxSteps, LifecycleSteps, StartupSteps, PipelineSteps, PricesSteps,
       CountersSteps, allVars

LEMMA RequestsOfAClass ==
  ASSUME NEW class
  PROVE  Pipeline!CountOf(class) = SumOver(requestsTotal, {s \in Pipeline!Statuses : s \div 100 \in class})
BY DEF Pipeline!CountOf, Pipeline!MapThenSumSet, Pipeline!MapThenFoldSet, SumOver, SumStep, Chosen

(* What the page shows is what the observers have counted.                 *)
LEMMA PageShows ==
  ASSUME PipelineInv
  PROVE  Pipeline!EveryAnswerIsCounted /\ Pipeline!OutagesAreCounted
<1> DEFINE page == Pipeline!EngineeringDiagnostics
           Of(class) == {s \in Pipeline!Statuses : s \div 100 \in class}
<1>1. /\ page.Requests = SumOver(requestsTotal, Of(1 .. 5))
      /\ page.Refused = SumOver(requestsTotal, Of({4}))
      /\ page.Failed = SumOver(requestsTotal, Of({5}))
      /\ page.DatabaseUnavailable = dependencyFailures
  BY RequestsOfAClass DEF Pipeline!EngineeringDiagnostics, Pipeline!HttpSummary
<1>2. Of(1 .. 5) = Pipeline!Statuses
  BY DEF Pipeline!Statuses
<1>3. Pipeline!CurrentlyTaken = Taken
  BY DEF Pipeline!CurrentlyTaken, Taken
<1>4. Taken \in SUBSET HttpRequests /\ \A r \in Taken : AnswerFits(r) /\ sent[r] \in Pipeline!Statuses \cup {0}
  BY DEF PipelineInv, PipelineTypes, Taken
<1>5. {r \in Taken : sent[r] # 0 \/ ~ open[r]} = ReportedNow
  BY <1>4 DEF ReportedNow, AnswerFits
<1>6. ASSUME NEW k \in {4, 5}
      PROVE  Pipeline!SentStatus(k) = SentNow(Of({k})) /\ Of({k}) \in SUBSET Pipeline!Statuses
  <2>1. 0 \div 100 # k
    OBVIOUS
  <2> QED BY <1>3, <1>4, <2>1 DEF Pipeline!SentStatus, SentNow
<1>7. CountersFit /\ \A r \in HttpRequests : AnswerFits(r)
  BY DEF PipelineInv
<1> HIDE DEF page, Of
<1>8. /\ page.Requests = Cardinality(ReportedNow)
      /\ page.Refused >= Cardinality(SentNow(Of({4})))
      /\ page.Failed >= Cardinality(SentNow(Of({5})))
  BY <1>1, <1>2, <1>6, <1>7 DEF CountersFit
<1>9. Pipeline!EveryAnswerIsCounted
  BY <1>3, <1>5, <1>6, <1>8, PipelineCardinality DEF Pipeline!EveryAnswerIsCounted, page
<1>10. Pipeline!OutagesAreCounted
  <2>1. dependencyFailures = Cardinality({r \in Taken : outage[r]})
    BY <1>7 DEF CountersFit
  <2>2. \A r \in HttpRequests : outage[r] => status[r] = 503
    BY <1>7 DEF AnswerFits
  <2> QED BY <1>1, <1>3, <2>1, <2>2, PipelineCardinality DEF Pipeline!OutagesAreCounted, page
<1> QED BY <1>9, <1>10

PipelineHolds ==
    /\ Pipeline!TypeOK
    /\ Pipeline!SettlementIsNeverThrottled /\ Pipeline!RefusedMeansNothingDone
    /\ Pipeline!EveryAnswerIsCounted /\ Pipeline!OutagesAreCounted

LEMMA PipelineInvSays == PipelineInv => PipelineHolds
<1> SUFFICES ASSUME PipelineInv PROVE PipelineHolds
  OBVIOUS
<1>1. Pipeline!TypeOK
  BY DEF PipelineInv, PipelineTypes, Stages, Pipeline!TypeOK
<1>2. Pipeline!SettlementIsNeverThrottled
  BY DEF PipelineInv, AnswerFits, Pipeline!SettlementIsNeverThrottled
<1>3. Pipeline!RefusedMeansNothingDone
  BY DEF PipelineInv, AnswerFits, Pipeline!RefusedMeansNothingDone
<1> QED BY <1>1, <1>2, <1>3, PageShows DEF PipelineHolds

(* Settling never meets the rate limit, a refusal recorded nothing, an     *)
(* outage is answered 503, and the counters agree with what was answered;  *)
(* for any requests, callers, tokens, limits and number of restarts.       *)
(* (the guards, the exception filter and the request observer)             *)
THEOREM AnyRequestIsAnsweredTruly == Pipeline!Spec => []PipelineHolds
<1>1. PipelineInv /\ [Pipeline!Next]_(Pipeline!vars) => PipelineInv'
  BY PipelineStep DEF Pipeline!vars, Pipeline!request, Pipeline!counters, pipelineVars
<1> QED BY <1>1, PipelineInit, PipelineInvSays, PTL DEF Pipeline!Spec

(* The same of requests among the other parts.                             *)
(* (the guards, the exception filter and the request observer)             *)
THEOREM AnswersAreAlwaysTrue == MCSpec => []AnswersAreTrue
<1>1. MCInit => PipelineInv
  BY PipelineInit DEF MCInit
<1>2. PipelineInv /\ [MCNext]_<<allVars, part>> => PipelineInv'
  BY PipelineInServices, PipelineStep
<1>3. PipelineInv => AnswersAreTrue
  BY PipelineInvSays DEF PipelineHolds, AnswersAreTrue
<1> QED BY <1>1, <1>2, <1>3, PTL DEF MCSpec

-----------------------------------------------------------------------------
(***************************************************************************)
(* Prices (Pricing): what calculatePrice makes of a market, and how the    *)
(* snapshots are inserted and read.                                        *)
(***************************************************************************)

(* Quotients, products and roundings. *)
LEMMA QuotientBounds ==
  ASSUME NEW a \in Nat, NEW b \in Nat \ {0}
  PROVE  a \div b \in Nat /\ b * (a \div b) <= a /\ a < b * (a \div b) + b
OBVIOUS
LEMMA ProductsFollow ==
  ASSUME NEW a \in Nat, NEW b \in Nat, NEW c \in Nat, a <= b
  PROVE  a * c <= b * c /\ c * a <= c * b
OBVIOUS

LEMMA BelowTheRounded ==
  ASSUME NEW n \in Nat, NEW d \in Nat \ {0}, NEW x \in Nat, NEW y \in Nat,
         2 * n < 2 * x + d, y < n
  PROVE  y < x + d
OBVIOUS
LEMMA AboveTheRounded ==
  ASSUME NEW n \in Nat, NEW d \in Nat \ {0}, NEW x \in Nat, NEW y \in Nat,
         2 * x <= 2 * n + d, n < y
  PROVE  x < y + d
OBVIOUS
LEMMA RoundedIsClose ==
  ASSUME NEW n \in Nat, NEW d \in Nat \ {0}, NEW x \in Nat,
         2 * x <= 2 * n + d, 2 * n < 2 * x + d
  PROVE  2 * (n - x) \in -d .. d
OBVIOUS

(* The price of a market, as the three pieces of calculatePrice say it. *)
Ratio(demand) == DefaultRule.basePrice * demand
Divisor(supply) == Engine!AtLeastOneKwh(supply)
PriceOf(supply, demand) == Engine!CalculatePrice(supply, demand, DefaultRule)

LEMMA BandOrder ==
  /\ DefaultRule.basePrice \in Nat \ {0} /\ DefaultRule.minPrice \in Nat \ {0}
  /\ DefaultRule.maxPrice \in Nat \ {0} /\ DefaultRule.minPrice <= DefaultRule.maxPrice
  /\ OneKwh \in Nat \ {0} /\ DefaultRule \in Engine!Bands
BY PricingConstants DEF Engine!PricingAssumption, Engine!Bands

LEMMA PriceIsRounded ==
  ASSUME NEW n \in Nat, NEW d \in Nat \ {0}
  PROVE  LET p == Engine!RoundHalfUp(n, d) IN
         /\ p \in Nat /\ 2 * (d * p) <= 2 * n + d /\ 2 * n < 2 * (d * p) + d
<1> DEFINE a == 2 * n + d
           b == 2 * d
           p == a \div b
<1>1. a \in Nat /\ b \in Nat \ {0}
  OBVIOUS
<1>2. p \in Nat /\ b * p <= a /\ a < b * p + b
  <2> HIDE DEF a, b
  <2> QED BY <1>1, QuotientBounds
<1>3. Engine!RoundHalfUp(n, d) = p
  BY DEF Engine!RoundHalfUp
<1> HIDE DEF p
<1>4. b * p = 2 * (d * p) /\ d * p \in Nat
  BY <1>2
<1>5. 2 * (d * p) <= 2 * n + d /\ 2 * n + d < 2 * (d * p) + 2 * d
  BY <1>2, <1>4
<1> HIDE DEF a, b
<1>6. 2 * n < 2 * (d * p) + d
  <2> DEFINE x == d * p
  <2>1. x \in Nat /\ 2 * n + d < 2 * x + 2 * d
    BY <1>4, <1>5
  <2> HIDE DEF x
  <2>2. 2 * n < 2 * x + d
    BY <2>1
  <2> QED BY <2>2 DEF x
<1> QED BY <1>2, <1>3, <1>5, <1>6

LEMMA PricePieces ==
  ASSUME NEW supply \in Nat, NEW demand \in Nat
  PROVE  LET d == Divisor(supply)
             n == Ratio(demand)
             p == PriceOf(supply, demand)
             low == DefaultRule.minPrice
             high == DefaultRule.maxPrice
         IN  /\ d \in Nat \ {0} /\ n \in Nat /\ p \in low .. high
             /\ d = IF supply >= OneKwh THEN supply ELSE OneKwh
             /\ \/ n <= low * d /\ p = low
                \/ low * d < n /\ high * d <= n /\ p = high
                \/ /\ low * d < n /\ n < high * d
                   /\ 2 * (d * p) <= 2 * n + d /\ 2 * n < 2 * (d * p) + d
<1> DEFINE d == Divisor(supply)
           n == Ratio(demand)
           p == PriceOf(supply, demand)
           low == DefaultRule.minPrice
           high == DefaultRule.maxPrice
           q == Engine!RoundHalfUp(n, d)
<1>1. d \in Nat \ {0} /\ d = IF supply >= OneKwh THEN supply ELSE OneKwh
  BY BandOrder DEF Divisor, Engine!AtLeastOneKwh
<1>2. n \in Nat
  BY BandOrder DEF Ratio
<1>3. p = IF n <= low * d THEN low ELSE IF n >= high * d THEN high ELSE q
  BY DEF PriceOf, Engine!CalculatePrice, Ratio, Divisor
<1>4. low \in Nat \ {0} /\ high \in Nat \ {0} /\ low <= high
  BY BandOrder
<1> HIDE DEF d, n, p, low, high
<1>5. low * d \in Nat /\ high * d \in Nat
  BY <1>1, <1>4
<1>6. q \in Nat /\ 2 * (d * q) <= 2 * n + d /\ 2 * n < 2 * (d * q) + d
  BY <1>1, <1>2, PriceIsRounded
<1> HIDE DEF q
<1>7. ASSUME low * d < n, n < high * d PROVE q \in low .. high
  <2> DEFINE x == d * q
  <2>1. x \in Nat /\ 2 * x <= 2 * n + d /\ 2 * n < 2 * x + d
    BY <1>1, <1>6
  <2>2. ASSUME q < low PROVE FALSE
    <3>1. (q + 1) * d <= low * d
      BY <1>1, <1>4, <1>6, <2>2, ProductsFollow
    <3>2. (q + 1) * d = x + d
      BY <1>1, <1>6
    <3> DEFINE y == low * d
    <3> HIDE DEF x, y
    <3>3. y \in Nat /\ y < n /\ x + d <= y
      BY <1>5, <1>7, <3>1, <3>2 DEF y
    <3>4. y < x + d
      BY <1>1, <1>2, <2>1, <3>3, BelowTheRounded
    <3> QED BY <1>1, <2>1, <3>3, <3>4
  <2>3. ASSUME high < q PROVE FALSE
    <3>1. (high + 1) * d <= q * d
      BY <1>1, <1>4, <1>6, <2>3, ProductsFollow
    <3>2. (high + 1) * d = high * d + d /\ q * d = x
      BY <1>1, <1>4, <1>6
    <3> DEFINE y == high * d
    <3> HIDE DEF x, y
    <3>3. y \in Nat /\ n < y /\ y + d <= x
      BY <1>5, <1>7, <3>1, <3>2 DEF y
    <3>4. x < y + d
      BY <1>1, <1>2, <2>1, <3>3, AboveTheRounded
    <3> QED BY <1>1, <2>1, <3>3, <3>4
  <2> QED BY <1>4, <1>6, <2>2, <2>3
<1>8. p \in low .. high
  BY <1>2, <1>3, <1>4, <1>5, <1>7
<1>9. \/ n <= low * d /\ p = low
      \/ low * d < n /\ high * d <= n /\ p = high
      \/ low * d < n /\ n < high * d /\ p = q
  BY <1>2, <1>3, <1>5
<1> QED BY <1>1, <1>2, <1>6, <1>8, <1>9 DEF d, n, p, low, high

(* Less supply and more demand never make a lower price. *)
LEMMA ScarcityCounts ==
  ASSUME NEW supply \in Nat, NEW demand \in Nat, NEW more \in Nat, NEW less \in Nat,
         supply <= more, demand >= less
  PROVE  PriceOf(supply, demand) >= PriceOf(more, less)
<1> DEFINE d == Divisor(supply)
           n == Ratio(demand)
           p == PriceOf(supply, demand)
           e == Divisor(more)
           m == Ratio(less)
           r == PriceOf(more, less)
           low == DefaultRule.minPrice
           high == DefaultRule.maxPrice
<1>1. /\ d \in Nat \ {0} /\ n \in Nat /\ p \in low .. high
      /\ \/ n <= low * d /\ p = low
         \/ low * d < n /\ high * d <= n /\ p = high
         \/ /\ low * d < n /\ n < high * d
            /\ 2 * (d * p) <= 2 * n + d /\ 2 * n < 2 * (d * p) + d
  BY PricePieces
<1>2. /\ e \in Nat \ {0} /\ m \in Nat /\ r \in low .. high
      /\ \/ m <= low * e /\ r = low
         \/ low * e < m /\ high * e <= m /\ r = high
         \/ /\ low * e < m /\ m < high * e
            /\ 2 * (e * r) <= 2 * m + e /\ 2 * m < 2 * (e * r) + e
  BY PricePieces
<1>3. d <= e
  BY BandOrder DEF Divisor, Engine!AtLeastOneKwh
<1>4. m <= n
  BY BandOrder, ProductsFollow DEF Ratio
<1>5. low \in Nat \ {0} /\ high \in Nat \ {0} /\ low <= high
  BY BandOrder
<1> HIDE DEF d, n, p, e, m, r, low, high
<1>6. p \in Nat /\ r \in Nat
  BY <1>1, <1>2, <1>5
<1>7. /\ low * d \in Nat /\ low * e \in Nat /\ high * d \in Nat /\ high * e \in Nat
      /\ d * p \in Nat /\ e * r \in Nat /\ d * r \in Nat
      /\ low * d <= low * e /\ high * d <= high * e /\ low * d <= high * d
      /\ d * r <= e * r
  BY <1>1, <1>2, <1>3, <1>5, <1>6, ProductsFollow
<1> SUFFICES ASSUME p < r PROVE FALSE
  BY <1>6 DEF p, r
<1>8. low * e < m
  BY <1>1, <1>2, <1>5
<1>9. CASE n <= low * d
  BY <1>4, <1>7, <1>8, <1>9, <1>1, <1>2
<1>10. CASE /\ low * d < n /\ high * d <= n /\ p = high
  BY <1>10, <1>2, <1>5
<1>11. CASE /\ low * d < n /\ n < high * d
            /\ 2 * (d * p) <= 2 * n + d /\ 2 * n < 2 * (d * p) + d
  <2>1. 2 * (e * r) <= 2 * m + e
    <3>1. CASE high * e <= m /\ r = high
      <4>1. e * r = high * e
        BY <1>2, <1>5, <3>1
      <4> QED BY <1>2, <1>7, <3>1, <4>1
    <3> QED BY <1>2, <1>8, <3>1, <1>7
  <2>2. (p + 1) * d <= r * d
    BY <1>1, <1>6, ProductsFollow
  <2>3. (p + 1) * d = d * p + d /\ r * d = d * r
    BY <1>1, <1>6
  <2>4. 2 * n < 2 * (d * r) - d
    BY <1>1, <1>7, <1>11, <2>2, <2>3
  <2>5. r >= 1 /\ r - 1 \in Nat
    BY <1>6
  <2>6. d * (r - 1) <= e * (r - 1)
    BY <1>1, <1>2, <1>3, <2>5, ProductsFollow
  <2>7. d * (r - 1) = d * r - d /\ e * (r - 1) = e * r - e
    BY <1>1, <1>2, <1>6
  <2>8. 2 * (d * r) - d <= 2 * (e * r) - e
    BY <1>1, <1>2, <1>3, <1>7, <2>6, <2>7
  <2> QED BY <1>1, <1>2, <1>4, <1>7, <2>1, <2>4, <2>8
<1> QED BY <1>1, <1>9, <1>10, <1>11

LEMMA PriceIsClose ==
  ASSUME NEW supply \in Nat, NEW demand \in Nat
  PROVE  LET divisor == IF supply >= OneKwh THEN supply ELSE OneKwh
             price == PriceOf(supply, demand)
             gap == DefaultRule.basePrice * demand - price * divisor
         IN  /\ price \in DefaultRule.minPrice..DefaultRule.maxPrice
             /\ \/ 2 * gap \in -divisor..divisor
                \/ price = DefaultRule.minPrice /\ gap < 0
                \/ price = DefaultRule.maxPrice /\ gap > 0
<1> DEFINE d == Divisor(supply)
           n == Ratio(demand)
           p == PriceOf(supply, demand)
           low == DefaultRule.minPrice
           high == DefaultRule.maxPrice
<1>1. /\ d \in Nat \ {0} /\ n \in Nat /\ p \in low .. high
      /\ d = IF supply >= OneKwh THEN supply ELSE OneKwh
      /\ \/ n <= low * d /\ p = low
         \/ low * d < n /\ high * d <= n /\ p = high
         \/ /\ low * d < n /\ n < high * d
            /\ 2 * (d * p) <= 2 * n + d /\ 2 * n < 2 * (d * p) + d
  BY PricePieces
<1>2. low \in Nat \ {0} /\ high \in Nat \ {0}
  BY BandOrder
<1>3. n = DefaultRule.basePrice * demand
  BY DEF Ratio
<1> HIDE DEF d, n, p, low, high
<1>4. p \in Nat /\ p * d = d * p /\ d * p \in Nat
  BY <1>1, <1>2
<1> DEFINE x == d * p
           gap == n - x
<1>5. \/ 2 * gap \in -d..d
      \/ p = low /\ gap < 0
      \/ p = high /\ gap > 0
  <2>1. CASE n <= low * d /\ p = low
    <3>1. n <= x
      BY <1>1, <1>4, <2>1
    <3> HIDE DEF x
    <3> QED BY <1>1, <1>4, <2>1, <3>1 DEF x
  <2>2. CASE low * d < n /\ high * d <= n /\ p = high
    <3>1. x <= n
      BY <1>1, <1>4, <2>2
    <3> QED BY <1>1, <1>4, <2>2, <3>1
  <2>3. CASE 2 * (d * p) <= 2 * n + d /\ 2 * n < 2 * (d * p) + d
    <3>1. x \in Nat /\ 2 * x <= 2 * n + d /\ 2 * n < 2 * x + d
      BY <1>4, <2>3
    <3> HIDE DEF x
    <3> QED BY <1>1, <3>1, RoundedIsClose
  <2> QED BY <1>1, <2>1, <2>2, <2>3
<1>6. n - p * d = gap
  BY <1>4
<1> QED BY <1>1, <1>3, <1>5, <1>6 DEF p, low, high

-----------------------------------------------------------------------------
(* The inductive invariant: every rule is the default one, and there are   *)
(* no more, with those about to be created, than processes; a              *)
(* recalculation that has a price, and every snapshot, has the price of    *)
(* its market, and a snapshot was committed; the page a reader is on does  *)
(* not come after anything the reader is still owed.                       *)
PriceSteps ==
    [at : {"none", "failed", "done"}]
      \cup [at : {"priced"}, by : Engines, supply : Nat, demand : Nat, price : Nat \ {0}]
      \cup [at : {"inserting"}, row : Engine!Snapshots]

PriceTypes ==
    /\ rules \in Seq({DefaultRule}) /\ now \in 0 .. MaxTime
    /\ snapshots \in SUBSET Engine!Snapshots /\ IsFiniteSet(snapshots)
    /\ instance \in [Engines -> {"off", "seeding", "ready"}]
    /\ recalc \in [Recalculations -> PriceSteps]
    /\ current \in {Engine!Nothing} \cup [at : {"base"}, price : Nat]
                     \cup [at : {"snapshot"}, row : snapshots]
    /\ history \in {Engine!Nothing} \cup [at : {"rows", "total", "done"}, page : Nat \ {0},
                                          seen : SUBSET snapshots, owed : SUBSET snapshots]

IsPriced(s) == s.price = PriceOf(s.supply, s.demand)

BeingSeeded == {i \in Engines : instance[i] = "seeding"}
RulesCounted == Len(rules) + Cardinality(BeingSeeded) <= Cardinality(Engines)

RulesFit ==
    /\ (\E i \in Engines : instance[i] = "ready") \/ snapshots # {} => rules # <<>>
    /\ RulesCounted

RecalcFits(r) ==
    /\ recalc[r].at \in {"priced", "inserting"} => rules # <<>>
    /\ recalc[r].at = "priced" => IsPriced(recalc[r])
    /\ recalc[r].at = "inserting" => recalc[r].row.id = r /\ IsPriced(recalc[r].row)

SnapshotsFit ==
    /\ \A s \in snapshots : IsPriced(s) /\ recalc[s.id].at = "done"
    /\ \A s, t \in snapshots : s.id = t.id => s = t

Earlier == {p \in Engine!Snapshots \X Engine!Snapshots : Engine!NewerOrAfter(p[1], p[2])}

StillOwed(pages) ==
    \A s \in history.owed : s \in history.seen \/ Place(Earlier, snapshots, s) >= pages * HistoryPage

HistoryFits ==
    /\ history.at = "rows" => StillOwed(history.page - 1)
    /\ history.at = "total" => StillOwed(history.page)
    /\ Engine!PagesSkipNothing

Covers(latest, rows) == \A s \in rows : \E t \in Engine!ToSet(latest) : ~ Engine!Newer(s, t)

SummaryFits ==
    /\ summary.at \in {"none", "aggregated", "latest", "done"}
    /\ summary.at # "none" => summary.rows \in SUBSET snapshots
    /\ summary.at \in {"latest", "done"} => Covers(summary.latest, summary.rows)

PriceInv ==
    /\ PriceTypes /\ RulesFit /\ \A r \in Recalculations : RecalcFits(r)
    /\ SnapshotsFit /\ HistoryFits /\ SummaryFits

LEMMA NoneOrOne ==
  ASSUME NEW s, NEW d, s = <<>> \/ s = <<d>>
  PROVE  s \in Seq({d}) /\ Len(s) <= 1
<1>1. CASE s = <<>>
  <2>1. <<>> \in Seq({d}) /\ Len(<<>>) = 0
    OBVIOUS
  <2> QED BY <1>1, <2>1
<1>2. CASE s = <<d>>
  <2>1. <<d>> \in Seq({d}) /\ Len(<<d>>) = 1
    OBVIOUS
  <2> QED BY <1>2, <2>1
<1> QED BY <1>1, <1>2

LEMMA EngineCardinality ==
  ASSUME NEW S
  PROVE  Engine!Cardinality(S) = Cardinality(S)
BY DEF Engine!Cardinality, Cardinality, Engine!IsFiniteSet, IsFiniteSet

LEMMA EnginesAreFinite == IsFiniteSet(Engines) /\ Engines # {}
BY PricingConstants DEF Engine!PricingAssumption, Engine!IsFiniteSet, IsFiniteSet

(* There are never more processes seeding than processes. *)
LEMMA SeedingIsPart ==
  /\ Cardinality(Engines) \in Nat /\ Cardinality(Engines) >= 1
  /\ IsFiniteSet(BeingSeeded) /\ Cardinality(BeingSeeded) \in Nat /\ Cardinality(BeingSeeded) <= Cardinality(Engines)
  /\ IsFiniteSet(BeingSeeded)' /\ Cardinality(BeingSeeded)' \in Nat /\ Cardinality(BeingSeeded)' <= Cardinality(Engines)
<1>1. BeingSeeded \subseteq Engines /\ BeingSeeded' \subseteq Engines
  BY DEF BeingSeeded
<1>2. Cardinality(Engines) \in Nat /\ Cardinality(Engines) # 0
  BY EnginesAreFinite, FS_CardinalityType, FS_EmptySet
<1>3. /\ IsFiniteSet(BeingSeeded) /\ Cardinality(BeingSeeded) <= Cardinality(Engines)
      /\ IsFiniteSet(BeingSeeded') /\ Cardinality(BeingSeeded') <= Cardinality(Engines)
  BY <1>1, EnginesAreFinite, FS_Subset
<1>4. Cardinality(BeingSeeded) \in Nat /\ Cardinality(BeingSeeded') \in Nat
  BY <1>3, FS_CardinalityType
<1> QED BY <1>2, <1>3, <1>4

(* Nothing but starting and dying touches the rules and who makes them. *)
LEMMA CountStays ==
  ASSUME RulesCounted, rules' = rules, instance' = instance
  PROVE  RulesCounted'
BY DEF RulesCounted, BeingSeeded

LEMMA PriceInit == Engine!Init => PriceInv
<1> SUFFICES ASSUME Engine!Init PROVE PriceInv
  OBVIOUS
<1> USE DEF Engine!Init, Engine!Nothing
<1>1. PriceTypes
  <2>1. rules \in Seq({DefaultRule})
    BY NoneOrOne
  <2>2. 0 \in 0 .. MaxTime /\ IsFiniteSet(snapshots)
    BY PricingConstants, FS_EmptySet DEF Engine!PricingAssumption
  <2> QED BY <2>1, <2>2 DEF PriceTypes, PriceSteps
<1>2. RulesFit
  <2>1. \A i \in Engines : instance[i] = "off"
    OBVIOUS
  <2>2. Len(rules) \in Nat /\ Len(rules) <= 1
    BY NoneOrOne
  <2>3. BeingSeeded = {}
    BY <2>1 DEF BeingSeeded
  <2>4. RulesCounted
    BY <2>2, <2>3, SeedingIsPart, FS_EmptySet DEF RulesCounted
  <2> QED BY <2>1, <2>4 DEF RulesFit
<1> QED BY <1>1, <1>2 DEF PriceInv, RecalcFits, SnapshotsFit, HistoryFits, SummaryFits,
                          Engine!PagesSkipNothing

(* What the rules are. *)
LEMMA RulesAreDefault ==
  ASSUME PriceTypes
  PROVE  /\ Engine!ToSet(rules) \subseteq {DefaultRule}
         /\ rules # <<>> => Engine!ToSet(rules) = {DefaultRule}
<1>1. rules \in Seq({DefaultRule})
  BY DEF PriceTypes
<1>2. \A n \in DOMAIN rules : rules[n] = DefaultRule
  BY <1>1
<1>3. rules # <<>> => 1 \in DOMAIN rules
  BY <1>1
<1> QED BY <1>2, <1>3 DEF Engine!ToSet

(* The readers' parts only look at the snapshots. *)
LEMMA ReadersStay ==
  ASSUME PriceInv, snapshots' = snapshots
  PROVE  /\ history' = history => HistoryFits'
         /\ summary' = summary => SummaryFits'
BY DEF PriceInv, HistoryFits, StillOwed, SummaryFits, Covers, Engine!PagesSkipNothing, Engine!Newer

LEMMA StartSteps ==
  ASSUME PriceInv, NEW i \in Engines,
         Engine!CountRules(i) \/ Engine!CreateRule(i) \/ Engine!Crash(i)
  PROVE  PriceInv'
<1>1. /\ snapshots' = snapshots /\ now' = now /\ current' = current
      /\ history' = history /\ summary' = summary
  BY DEF Engine!CountRules, Engine!CreateRule, Engine!Crash, Engine!StartupOnly, Engine!db
<1>2. rules' = rules \/ rules' = Append(rules, DefaultRule)
  BY DEF Engine!CountRules, Engine!CreateRule, Engine!Crash, Engine!db
<1>3. rules' \in Seq({DefaultRule}) /\ (rules # <<>> => rules' # <<>>)
  BY <1>2 DEF PriceInv, PriceTypes
<1>4. \A r \in Recalculations : \/ recalc'[r] = recalc[r]
                                \/ recalc'[r] = [at |-> "failed"] /\ recalc[r].at = "priced"
  BY DEF Engine!CountRules, Engine!CreateRule, Engine!Crash, Engine!StartupOnly, PriceInv, PriceTypes
<1>5. recalc' \in [Recalculations -> PriceSteps]
  BY <1>4 DEF Engine!CountRules, Engine!CreateRule, Engine!Crash, Engine!StartupOnly, PriceInv, PriceTypes, PriceSteps
<1>6. instance' \in [Engines -> {"off", "seeding", "ready"}]
  BY DEF Engine!CountRules, Engine!CreateRule, Engine!Crash, Engine!SetInstance, PriceInv, PriceTypes
<1>7. PriceTypes'
  BY <1>1, <1>3, <1>5, <1>6 DEF PriceInv, PriceTypes
<1>8. RulesFit'
  <2> DEFINE RulesServe == (\E j \in Engines : instance[j] = "ready") \/ snapshots # {} => rules # <<>>
  <2>1. CASE Engine!CountRules(i)
    <3>1. /\ instance[i] = "off" /\ rules' = rules
          /\ instance' = [instance EXCEPT ![i] = IF rules = <<>> THEN "seeding" ELSE "ready"]
      BY <2>1 DEF Engine!CountRules, Engine!SetInstance
    <3>2. RulesServe'
      BY <2>1, <1>1, <3>1 DEF PriceInv, PriceTypes, RulesFit
    <3>3. RulesCounted'
      <4>1. CASE rules = <<>>
        <5>1. Len(rules') = 0
          BY <3>1, <4>1
        <5> QED BY <5>1, SeedingIsPart DEF RulesCounted
      <4>2. CASE rules # <<>>
        <5>1. BeingSeeded' = BeingSeeded
          BY <3>1, <4>2 DEF BeingSeeded, PriceInv, PriceTypes
        <5> QED BY <3>1, <5>1 DEF RulesCounted, PriceInv, RulesFit
      <4> QED BY <4>1, <4>2
    <3> QED BY <3>2, <3>3 DEF RulesFit
  <2>2. CASE Engine!CreateRule(i)
    <3>1. /\ instance[i] = "seeding" /\ rules' = Append(rules, DefaultRule)
          /\ instance' = [instance EXCEPT ![i] = "ready"]
      BY <2>2 DEF Engine!CreateRule, Engine!SetInstance
    <3>2. rules' # <<>> /\ Len(rules) \in Nat /\ Len(rules') = Len(rules) + 1
      BY <3>1 DEF PriceInv, PriceTypes
    <3>3. i \in BeingSeeded /\ BeingSeeded' = BeingSeeded \ {i}
      BY <3>1 DEF BeingSeeded, PriceInv, PriceTypes
    <3>4. Cardinality(BeingSeeded') = Cardinality(BeingSeeded) - 1
      BY <3>3, SeedingIsPart, FS_RemoveElement
    <3>5. RulesCounted'
      BY <3>2, <3>4, SeedingIsPart DEF RulesCounted, PriceInv, RulesFit
    <3> QED BY <3>2, <3>5 DEF RulesFit
  <2>3. CASE Engine!Crash(i)
    <3>1. rules' = rules /\ instance' = [instance EXCEPT ![i] = "off"]
      BY <2>3 DEF Engine!Crash, Engine!SetInstance, Engine!db
    <3>2. RulesServe'
      BY <1>1, <3>1 DEF PriceInv, PriceTypes, RulesFit
    <3>3. BeingSeeded' \subseteq BeingSeeded
      BY <3>1 DEF BeingSeeded, PriceInv, PriceTypes
    <3>4. Cardinality(BeingSeeded') <= Cardinality(BeingSeeded)
      BY <3>3, SeedingIsPart, FS_Subset
    <3>5. Len(rules) \in Nat
      BY DEF PriceInv, PriceTypes
    <3>6. RulesCounted'
      BY <3>1, <3>4, <3>5, SeedingIsPart DEF RulesCounted, PriceInv, RulesFit
    <3> QED BY <3>2, <3>6 DEF RulesFit
  <2> QED BY <2>1, <2>2, <2>3
<1>9. \A r \in Recalculations : RecalcFits(r)'
  BY <1>3, <1>4 DEF PriceInv, RecalcFits, IsPriced
<1>10. SnapshotsFit'
  <2>1. \A s \in snapshots : s.id \in Recalculations
    BY DEF PriceInv, PriceTypes, Engine!Snapshots
  <2> QED BY <1>1, <1>4, <2>1 DEF PriceInv, SnapshotsFit, IsPriced
<1> QED BY <1>1, <1>7, <1>8, <1>9, <1>10, ReadersStay DEF PriceInv

LEMMA PriceOfMarket ==
  ASSUME NEW supply \in Nat, NEW demand \in Nat
  PROVE  PriceOf(supply, demand) \in Nat \ {0}
<1>1. PriceOf(supply, demand) \in DefaultRule.minPrice .. DefaultRule.maxPrice
  BY PriceIsClose
<1> QED BY <1>1, BandOrder

LEMMA CalculateStep ==
  ASSUME PriceInv, NEW r \in Recalculations, NEW i \in Engines, Engine!Calculate(r, i)
  PROVE  PriceInv'
<1>1. /\ UNCHANGED <<rules, snapshots, now, instance, current, history, summary>>
      /\ recalc[r] = Engine!Nothing /\ instance[i] = "ready"
  BY DEF Engine!Calculate, Engine!SetRecalc
<1>2. rules # <<>> /\ Engine!ActiveRules = {DefaultRule} /\ DefaultRule # Engine!Nothing
  <2>1. rules # <<>>
    BY <1>1 DEF PriceInv, RulesFit
  <2>2. DefaultRule # Engine!Nothing
    <3>1. DefaultRule \in Engine!Bands
      BY BandOrder
    <3>2. DOMAIN DefaultRule = {"basePrice", "minPrice", "maxPrice"}
      BY <3>1 DEF Engine!Bands
    <3>3. DOMAIN Engine!Nothing = {"at"}
      BY DEF Engine!Nothing
    <3> QED BY <3>2, <3>3
  <2> QED BY <2>1, <2>2, RulesAreDefault DEF PriceInv, Engine!ActiveRules
<1>3. PICK input \in Markets :
        recalc' = [recalc EXCEPT ![r] =
                     [at |-> "priced", by |-> i, supply |-> input[1], demand |-> input[2],
                      price |-> PriceOf(input[1], input[2])]]
  BY <1>2 DEF Engine!Calculate, Engine!SetRecalc, PriceOf
<1>4. input[1] \in Nat /\ input[2] \in Nat
  BY PricingConstants DEF Engine!PricingAssumption
<1>5. PriceOf(input[1], input[2]) \in Nat \ {0}
  BY <1>4, PriceOfMarket
<1>6. recalc' \in [Recalculations -> PriceSteps]
  BY <1>3, <1>4, <1>5 DEF PriceInv, PriceTypes, PriceSteps
<1>7. /\ recalc'[r].at = "priced" /\ IsPriced(recalc'[r])
      /\ \A q \in Recalculations : q # r => recalc'[q] = recalc[q]
  BY <1>3 DEF PriceInv, PriceTypes, IsPriced
<1>8. PriceTypes' /\ RulesFit'
  BY <1>1, <1>6, CountStays DEF PriceInv, PriceTypes, RulesFit
<1>9. \A q \in Recalculations : RecalcFits(q)'
  BY <1>1, <1>2, <1>7 DEF PriceInv, RecalcFits, IsPriced
<1>10. SnapshotsFit'
  <2>1. \A s \in snapshots : s.id \in Recalculations /\ s.id # r
    BY <1>1 DEF PriceInv, PriceTypes, SnapshotsFit, Engine!Snapshots, Engine!Nothing
  <2> QED BY <1>1, <1>7, <2>1 DEF PriceInv, SnapshotsFit, IsPriced
<1> QED BY <1>1, <1>8, <1>9, <1>10, ReadersStay DEF PriceInv

LEMMA InsertStep ==
  ASSUME PriceInv, NEW r \in Recalculations, Engine!Insert(r)
  PROVE  PriceInv'
<1>1. /\ UNCHANGED <<rules, snapshots, now, instance, current, history, summary>>
      /\ recalc[r].at = "priced"
  BY DEF Engine!Insert, Engine!SetRecalc
<1> DEFINE new == [id |-> r, supply |-> recalc[r].supply, demand |-> recalc[r].demand,
                   price |-> recalc[r].price, createdAt |-> now]
<1>2. recalc' = [recalc EXCEPT ![r] = [at |-> "inserting", row |-> new]]
  BY DEF Engine!Insert, Engine!SetRecalc
<1>3. recalc[r] \in [at : {"priced"}, by : Engines, supply : Nat, demand : Nat, price : Nat \ {0}]
  BY <1>1 DEF PriceInv, PriceTypes, PriceSteps
<1>4. new \in Engine!Snapshots /\ new.id = r /\ IsPriced(new)
  BY <1>1, <1>3 DEF PriceInv, PriceTypes, RecalcFits, IsPriced, Engine!Snapshots
<1> HIDE DEF new
<1>5. recalc' \in [Recalculations -> PriceSteps]
  BY <1>2, <1>4 DEF PriceInv, PriceTypes, PriceSteps
<1>6. /\ recalc'[r].at = "inserting" /\ recalc'[r].row = new
      /\ \A q \in Recalculations : q # r => recalc'[q] = recalc[q]
  BY <1>2 DEF PriceInv, PriceTypes
<1>7. PriceTypes' /\ RulesFit'
  BY <1>1, <1>5, CountStays DEF PriceInv, PriceTypes, RulesFit
<1>8. \A q \in Recalculations : RecalcFits(q)'
  BY <1>1, <1>4, <1>6 DEF PriceInv, RecalcFits, IsPriced
<1>9. SnapshotsFit'
  <2>1. \A s \in snapshots : s.id \in Recalculations /\ s.id # r
    BY <1>1 DEF PriceInv, PriceTypes, SnapshotsFit, Engine!Snapshots
  <2> QED BY <1>1, <1>6, <2>1 DEF PriceInv, SnapshotsFit, IsPriced
<1> QED BY <1>1, <1>7, <1>8, <1>9, ReadersStay DEF PriceInv

LEMMA SnapshotsInOrder ==
  ASSUME NEW S \in SUBSET Engine!Snapshots, IsFiniteSet(S), \A s, t \in S : s.id = t.id => s = t
  PROVE  Engine!NewestFirst(S) = InOrder(Earlier, S) /\ TellsApart(Earlier, S)
<1>1. \A t \in S : {s \in S : Engine!NewerOrAfter(s, t)} = {s \in S : <<s, t>> \in Earlier}
  BY DEF Earlier
<1>2. \A t \in S : Engine!Cardinality({s \in S : Engine!NewerOrAfter(s, t)}) = Place(Earlier, S, t)
  BY <1>1, EngineCardinality DEF Place
<1>3. \A n \in 1 .. Cardinality(S) :
        (CHOOSE r \in S : Engine!Cardinality({s \in S : Engine!NewerOrAfter(s, r)}) = n - 1)
        = CHOOSE r \in S : Place(Earlier, S, r) = n - 1
  BY <1>2
<1>4. Engine!NewestFirst(S) =
        [n \in 1 .. Engine!Cardinality(S) |->
            CHOOSE r \in S : Engine!Cardinality({s \in S : Engine!NewerOrAfter(s, r)}) = n - 1]
  BY DEF Engine!NewestFirst, Engine!Ordered
<1>5. Engine!NewestFirst(S) = InOrder(Earlier, S)
  BY <1>3, <1>4, EngineCardinality DEF InOrder
<1>6. TellsApart(Earlier, S)
  <2>1. \A s \in S : s.id \in Nat /\ s.createdAt \in Nat
    <3>1. S \subseteq Engine!Snapshots /\ Recalculations \subseteq Nat /\ MaxTime \in Nat
      BY PricingConstants DEF Engine!PricingAssumption
    <3>2. \A s \in Engine!Snapshots : s.id \in Recalculations /\ s.createdAt \in 0 .. MaxTime
      BY DEF Engine!Snapshots
    <3>3. 0 .. MaxTime \subseteq Nat
      BY <3>1
    <3> QED BY <3>1, <3>2, <3>3
  <2>2. \A s, t \in S : <<s, t>> \in Earlier <=>
            s.createdAt > t.createdAt \/ (s.createdAt = t.createdAt /\ s.id > t.id)
    BY DEF Earlier, Engine!NewerOrAfter, Engine!Newer
  <2>3. \A s \in S : <<s, s>> \notin Earlier
    BY <2>1, <2>2
  <2>4. \A s, t \in S : s # t => <<s, t>> \in Earlier \/ <<t, s>> \in Earlier
    BY <2>1, <2>2
  <2>5. \A r, s, t \in S : <<r, s>> \in Earlier /\ <<s, t>> \in Earlier => <<r, t>> \in Earlier
    BY <2>1, <2>2
  <2> QED BY <2>3, <2>4, <2>5 DEF TellsApart
<1> QED BY <1>5, <1>6

LEMMA InvOrders ==
  ASSUME PriceInv
  PROVE  /\ Engine!NewestFirst(snapshots) = InOrder(Earlier, snapshots)
         /\ TellsApart(Earlier, snapshots) /\ IsFiniteSet(snapshots)
BY SnapshotsInOrder DEF PriceInv, PriceTypes, SnapshotsFit

LEMMA PagesAreNumbers == \A n \in Nat : n * HistoryPage \in Nat
BY PricingConstants DEF Engine!PricingAssumption

LEMMA CommitStep ==
  ASSUME PriceInv, NEW r \in Recalculations, Engine!Commit(r)
  PROVE  PriceInv'
<1> DEFINE new == recalc[r].row
<1>1. /\ UNCHANGED <<rules, now, instance, current, history, summary>>
      /\ recalc[r].at = "inserting" /\ snapshots' = snapshots \cup {new}
      /\ recalc' = [recalc EXCEPT ![r] = [at |-> "done"]]
  BY DEF Engine!Commit, Engine!SetRecalc
<1>2. new \in Engine!Snapshots /\ new.id = r /\ IsPriced(new) /\ rules # <<>>
  BY <1>1 DEF PriceInv, PriceTypes, PriceSteps, RecalcFits
<1> HIDE DEF new
<1>3. /\ recalc'[r].at = "done"
      /\ \A q \in Recalculations : q # r => recalc'[q] = recalc[q]
      /\ recalc' \in [Recalculations -> PriceSteps]
  BY <1>1 DEF PriceInv, PriceTypes, PriceSteps
<1>4. snapshots' \in SUBSET Engine!Snapshots /\ IsFiniteSet(snapshots') /\ snapshots \subseteq snapshots'
  BY <1>1, <1>2, FS_AddElement DEF PriceInv, PriceTypes
<1>5. PriceTypes'
  <2>1. history' \in {Engine!Nothing} \cup [at : {"rows", "total", "done"}, page : Nat \ {0},
                                            seen : SUBSET snapshots', owed : SUBSET snapshots']
    BY <1>1, <1>4 DEF PriceInv, PriceTypes
  <2>2. current' \in {Engine!Nothing} \cup [at : {"base"}, price : Nat]
                     \cup [at : {"snapshot"}, row : snapshots']
    BY <1>1, <1>4 DEF PriceInv, PriceTypes
  <2> QED BY <1>1, <1>3, <1>4, <2>1, <2>2 DEF PriceInv, PriceTypes
<1>6. RulesFit'
  BY <1>1, <1>2, CountStays DEF PriceInv, RulesFit
<1>7. \A q \in Recalculations : RecalcFits(q)'
  BY <1>1, <1>3 DEF PriceInv, RecalcFits, IsPriced
<1>8. SnapshotsFit'
  <2>1. \A s \in snapshots : s.id \in Recalculations /\ s.id # r
    BY <1>1 DEF PriceInv, PriceTypes, SnapshotsFit, Engine!Snapshots
  <2>2. \A s \in snapshots' : IsPriced(s) /\ recalc'[s.id].at = "done"
    BY <1>1, <1>2, <1>3, <2>1 DEF PriceInv, SnapshotsFit
  <2>3. \A s, t \in snapshots' : s.id = t.id => s = t
    BY <1>1, <1>2, <2>1 DEF PriceInv, SnapshotsFit
  <2> QED BY <2>2, <2>3 DEF SnapshotsFit, IsPriced
<1>9. HistoryFits'
  <2>1. \A s \in snapshots : /\ Place(Earlier, snapshots, s) \in Nat /\ Place(Earlier, snapshots', s) \in Nat
                             /\ Place(Earlier, snapshots, s) <= Place(Earlier, snapshots', s)
    BY <1>4, PlacesOnlyGrow
  <2>2. ASSUME NEW n \in Nat, StillOwed(n), history # Engine!Nothing
        PROVE  \A s \in history.owed :
                   s \in history.seen \/ Place(Earlier, snapshots', s) >= n * HistoryPage
    <3>1. history.owed \in SUBSET snapshots
      BY <2>2 DEF PriceInv, PriceTypes
    <3>2. n * HistoryPage \in Nat
      BY PagesAreNumbers
    <3> QED BY <2>1, <2>2, <3>1, <3>2 DEF StillOwed
  <2>3. history # Engine!Nothing => history.page \in Nat /\ history.page - 1 \in Nat
    BY DEF PriceInv, PriceTypes
  <2>4. history.at \in {"rows", "total"} => history # Engine!Nothing
    BY DEF Engine!Nothing
  <2>5. history.at = "rows" => StillOwed(history.page - 1)'
    BY <1>1, <2>2, <2>3, <2>4 DEF PriceInv, HistoryFits, StillOwed
  <2>6. history.at = "total" => StillOwed(history.page)'
    BY <1>1, <2>2, <2>3, <2>4 DEF PriceInv, HistoryFits, StillOwed
  <2> QED BY <1>1, <2>5, <2>6 DEF PriceInv, HistoryFits, Engine!PagesSkipNothing
<1>10. SummaryFits'
  BY <1>1, <1>4 DEF PriceInv, SummaryFits, Covers, Engine!Newer
<1> QED BY <1>5, <1>6, <1>7, <1>8, <1>9, <1>10 DEF PriceInv

LEMMA TickStep ==
  ASSUME PriceInv, Engine!Tick
  PROVE  PriceInv'
<1>1. UNCHANGED <<rules, snapshots, instance, recalc, current, history, summary>> /\ now' \in 0 .. MaxTime
  BY PricingConstants DEF Engine!Tick, Engine!db, PriceInv, PriceTypes, Engine!PricingAssumption
<1> QED BY <1>1, ReadersStay, CountStays DEF PriceInv, PriceTypes, RulesFit, RecalcFits, SnapshotsFit, IsPriced

LEMMA CurrentStep ==
  ASSUME PriceInv, Engine!CurrentPrice
  PROVE  PriceInv'
<1>1. UNCHANGED <<rules, snapshots, now, instance, recalc, history, summary>>
  BY DEF Engine!CurrentPrice, Engine!AnswerCurrent, Engine!db
<1>2. current' \in [at : {"base"}, price : Nat] \cup [at : {"snapshot"}, row : snapshots]
  <2>1. CASE \E s \in Engine!Newest(snapshots) : current' = [at |-> "snapshot", row |-> s]
    BY <2>1 DEF Engine!Newest
  <2>2. CASE \E band \in Engine!ToSet(rules) : current' = [at |-> "base", price |-> band.basePrice]
    BY <2>2, RulesAreDefault, BandOrder DEF PriceInv
  <2> QED BY <2>1, <2>2 DEF Engine!CurrentPrice, Engine!AnswerCurrent
<1>3. PriceTypes'
  BY <1>1, <1>2 DEF PriceInv, PriceTypes
<1> QED BY <1>1, <1>3, ReadersStay, CountStays DEF PriceInv, RulesFit, RecalcFits, SnapshotsFit, IsPriced

(* What a step that only reads leaves as it was. *)
LEMMA OnlyRead ==
  ASSUME PriceInv, UNCHANGED <<rules, snapshots, now, instance, recalc, current>>,
         history' \in {Engine!Nothing} \cup [at : {"rows", "total", "done"}, page : Nat \ {0},
                                             seen : SUBSET snapshots, owed : SUBSET snapshots],
         HistoryFits', SummaryFits'
  PROVE  PriceInv'
BY CountStays DEF PriceInv, PriceTypes, RulesFit, RecalcFits, SnapshotsFit, IsPriced

LEMMA HistorySteps ==
  ASSUME PriceInv, Engine!BeginHistory \/ Engine!HistoryRows \/ Engine!HistoryTotal
  PROVE  PriceInv'
<1> DEFINE Reading == [at : {"rows", "total", "done"}, page : Nat \ {0},
                       seen : SUBSET snapshots, owed : SUBSET snapshots]
<1>1. UNCHANGED <<rules, snapshots, now, instance, recalc, current, summary>>
  BY DEF Engine!BeginHistory, Engine!HistoryRows, Engine!ReadPage, Engine!HistoryTotal, Engine!db
<1>2. /\ Engine!NewestFirst(snapshots) = InOrder(Earlier, snapshots)
      /\ TellsApart(Earlier, snapshots) /\ IsFiniteSet(snapshots)
  BY InvOrders
<1>3. \A s \in snapshots : /\ Place(Earlier, snapshots, s) \in Nat
                           /\ Place(Earlier, snapshots, s) < Cardinality(snapshots)
  BY <1>2, PlaceBounds
<1>4. HistoryPage \in Nat \ {0}
  BY PricingConstants DEF Engine!PricingAssumption
<1>5. SummaryFits'
  BY <1>1, ReadersStay
<1>6. CASE Engine!BeginHistory
  <2>1. history' = [at |-> "rows", page |-> 1, seen |-> {}, owed |-> snapshots]
    BY <1>6 DEF Engine!BeginHistory
  <2>2. history' \in Reading /\ history'.page - 1 = 0 /\ history'.at = "rows" /\ history'.owed = snapshots
    BY <2>1
  <2>3. StillOwed(0)'
    <3>1. 0 * HistoryPage = 0
      BY <1>4
    <3> QED BY <1>1, <1>3, <2>2, <3>1 DEF StillOwed
  <2>4. HistoryFits'
    <3>1. StillOwed(history.page - 1)'
      BY <2>2, <2>3 DEF StillOwed
    <3> QED BY <2>2, <3>1 DEF HistoryFits, Engine!PagesSkipNothing
  <2> QED BY <1>1, <1>5, <2>2, <2>4, OnlyRead
<1>7. CASE Engine!HistoryRows
  <2> DEFINE here == Engine!PageOf(Engine!NewestFirst(snapshots), history.page)
  <2>1. /\ history.at = "rows"
        /\ history' = [history EXCEPT !.at = "total", !.seen = @ \cup Engine!ToSet(here)]
    BY <1>7 DEF Engine!HistoryRows, Engine!ReadPage
  <2>2. history \in Reading
    BY <2>1 DEF PriceInv, PriceTypes, Engine!Nothing
  <2>3. here = PageIn(InOrder(Earlier, snapshots), HistoryPage, history.page)
    BY <1>2 DEF Engine!PageOf, PageIn
  <2>4. Engine!ToSet(here) \subseteq snapshots
    <3>1. Cardinality(snapshots) \in Nat
      BY <1>2, FS_CardinalityType
    <3>2. \A n \in 1 .. Cardinality(snapshots) : InOrder(Earlier, snapshots)[n] \in snapshots
      BY <1>2, EveryPlaceIsTaken
    <3>3. InOrder(Earlier, snapshots) \in [1 .. Cardinality(snapshots) -> snapshots]
      BY <3>2 DEF InOrder
    <3>4. InOrder(Earlier, snapshots) \in Seq(snapshots)
      BY <3>1, <3>3
    <3>5. history.page * HistoryPage \in Nat /\ (history.page - 1) * HistoryPage + 1 \in Nat \ {0}
      <4>1. history.page \in Nat /\ history.page - 1 \in Nat /\ HistoryPage \in Nat
        BY <1>4, <2>2
      <4>2. \A a, b \in Nat : a * b \in Nat
        OBVIOUS
      <4> QED BY <4>1, <4>2
    <3>6. here \in Seq(snapshots)
      BY <2>3, <3>4, <3>5, SubSeqProperties DEF PageIn
    <3> HIDE DEF here
    <3> QED BY <3>6 DEF Engine!ToSet
  <2>5. \A s \in snapshots :
          Place(Earlier, snapshots, s) >= (history.page - 1) * HistoryPage
          /\ Place(Earlier, snapshots, s) < history.page * HistoryPage => s \in Engine!ToSet(here)
    <3>1. SUFFICES ASSUME NEW s \in snapshots,
                          Place(Earlier, snapshots, s) >= (history.page - 1) * HistoryPage,
                          Place(Earlier, snapshots, s) < history.page * HistoryPage
                   PROVE  s \in Engine!ToSet(here)
      OBVIOUS
    <3>2. \E i \in DOMAIN here : here[i] = s
      BY <1>2, <1>4, <2>2, <2>3, <3>1, OnItsPage
    <3> QED BY <3>2 DEF Engine!ToSet
  <2> HIDE DEF here
  <2>6. /\ history' \in Reading /\ history'.at = "total" /\ history'.page = history.page
        /\ history'.owed = history.owed /\ history'.seen = history.seen \cup Engine!ToSet(here)
    BY <2>1, <2>2, <2>4
  <2>7. StillOwed(history.page)'
    <3>1. StillOwed(history.page - 1) /\ history.owed \subseteq snapshots
      BY <2>1, <2>2 DEF PriceInv, HistoryFits
    <3>2. history.page * HistoryPage \in Nat
      BY <2>2, PagesAreNumbers
    <3>3. \A s \in history.owed : s \in history.seen \cup Engine!ToSet(here)
                                  \/ Place(Earlier, snapshots, s) >= history.page * HistoryPage
      BY <1>3, <2>5, <3>1, <3>2 DEF StillOwed
    <3> QED BY <1>1, <2>6, <3>3 DEF StillOwed
  <2>8. HistoryFits'
    BY <2>6, <2>7 DEF HistoryFits, Engine!PagesSkipNothing
  <2> QED BY <1>1, <1>5, <2>6, <2>8, OnlyRead
<1>8. CASE Engine!HistoryTotal
  <2>1. /\ history.at = "total"
        /\ history' = [history EXCEPT
              !.at = IF history.page * HistoryPage < Engine!Cardinality(snapshots) THEN "rows" ELSE "done",
              !.page = @ + 1]
    BY <1>8 DEF Engine!HistoryTotal
  <2>2. history \in Reading
    BY <2>1 DEF PriceInv, PriceTypes, Engine!Nothing
  <2>3. StillOwed(history.page) /\ history.owed \subseteq snapshots
    BY <2>1, <2>2 DEF PriceInv, HistoryFits
  <2>4. /\ history' \in Reading /\ history'.page - 1 = history.page
        /\ history'.owed = history.owed /\ history'.seen = history.seen
        /\ history'.at \in {"rows", "done"}
        /\ history'.at = "done" => ~ (history.page * HistoryPage < Cardinality(snapshots))
    <3> DEFINE more == history.page * HistoryPage < Engine!Cardinality(snapshots)
    <3>1. history' = [history EXCEPT !.at = IF more THEN "rows" ELSE "done", !.page = @ + 1]
      BY <2>1
    <3>2. ~ more <=> ~ (history.page * HistoryPage < Cardinality(snapshots))
      BY EngineCardinality
    <3>3. history.page + 1 \in Nat \ {0}
      BY <2>2
    <3> HIDE DEF more
    <3>4. /\ history'.page = history.page + 1
          /\ history'.owed = history.owed /\ history'.seen = history.seen
          /\ history'.at = IF more THEN "rows" ELSE "done"
      BY <2>2, <3>1
    <3>5. history' \in Reading
      <4>1. (IF more THEN "rows" ELSE "done") \in {"rows", "total", "done"}
        OBVIOUS
      <4> QED BY <2>2, <3>1, <3>3, <4>1
    <3>6. history'.at \in {"rows", "done"} /\ (history'.at = "done" => ~ more)
      BY <3>4
    <3>7. history'.at = "done" => ~ (history.page * HistoryPage < Cardinality(snapshots))
      BY <3>2, <3>6
    <3>8. history'.page - 1 = history.page
      BY <2>2, <3>4
    <3> QED BY <3>4, <3>5, <3>6, <3>7, <3>8
  <2>5. StillOwed(history.page - 1)'
    BY <1>1, <2>3, <2>4 DEF StillOwed
  <2>6. Engine!PagesSkipNothing'
    <3>1. history.page * HistoryPage \in Nat /\ Cardinality(snapshots) \in Nat
      BY <1>2, <2>2, PagesAreNumbers, FS_CardinalityType
    <3>2. history'.at = "done" => \A s \in history.owed : s \in history.seen
      BY <1>3, <2>3, <2>4, <3>1 DEF StillOwed
    <3> QED BY <2>4, <3>2 DEF Engine!PagesSkipNothing
  <2>7. HistoryFits'
    BY <2>4, <2>5, <2>6 DEF HistoryFits
  <2> QED BY <1>1, <1>5, <2>4, <2>7, OnlyRead
<1> QED BY <1>6, <1>7, <1>8

LEMMA SummarySteps ==
  ASSUME PriceInv, Engine!SummaryAggregate \/ Engine!SummaryLatest \/ Engine!SummaryBand
  PROVE  PriceInv'
<1>1. UNCHANGED <<rules, snapshots, now, instance, recalc, current, history>>
  BY DEF Engine!SummaryAggregate, Engine!SummaryLatest, Engine!SummaryBand, Engine!Summarise, Engine!db
<1>2. HistoryFits'
  BY <1>1, ReadersStay
<1>3. SummaryFits'
  <2>1. CASE Engine!SummaryAggregate
    BY <1>1, <2>1 DEF Engine!SummaryAggregate, Engine!Summarise, SummaryFits
  <2>2. CASE Engine!SummaryLatest
    <3>1. /\ summary.at = "aggregated"
          /\ summary' = [at |-> "latest", rows |-> summary.rows, latest |-> Engine!Latest]
      BY <2>2 DEF Engine!SummaryLatest, Engine!Summarise
    <3>2. summary.rows \in SUBSET snapshots
      BY <3>1 DEF PriceInv, SummaryFits
    <3>3. Covers(Engine!Latest, summary.rows)
      <4>1. CASE snapshots = {}
        BY <3>2, <4>1 DEF Covers
      <4>2. CASE snapshots # {}
        <5> DEFINE first == Engine!NewestFirst(snapshots)[1]
        <5>1. first \in snapshots /\ \A s \in snapshots : <<s, first>> \notin Earlier
          BY <4>2, InvOrders, FirstInOrder
        <5>2. \A s \in snapshots : ~ Engine!Newer(s, first)
          BY <5>1 DEF Earlier, Engine!NewerOrAfter, PriceInv, PriceTypes
        <5>3. first \in Engine!ToSet(Engine!Latest)
          BY <4>2 DEF Engine!Latest, Engine!ToSet
        <5> QED BY <3>2, <5>2, <5>3 DEF Covers
      <4> QED BY <4>1, <4>2
    <3>4. Covers(summary'.latest, summary'.rows)
      BY <3>1, <3>3
    <3> QED BY <1>1, <3>1, <3>2, <3>4 DEF SummaryFits, Covers, Engine!Newer
  <2>3. CASE Engine!SummaryBand
    <3>1. /\ summary.at = "latest" /\ summary'.at = "done"
          /\ summary'.rows = summary.rows /\ summary'.latest = summary.latest
      BY <2>3 DEF Engine!SummaryBand, Engine!Summarise
    <3>2. summary.rows \in SUBSET snapshots /\ Covers(summary.latest, summary.rows)
      BY <3>1 DEF PriceInv, SummaryFits
    <3>3. Covers(summary'.latest, summary'.rows)
      BY <3>1, <3>2
    <3> QED BY <1>1, <3>1, <3>2, <3>3 DEF SummaryFits, Covers, Engine!Newer
  <2> QED BY <2>1, <2>2, <2>3
<1> QED BY <1>1, <1>2, <1>3, OnlyRead DEF PriceInv, PriceTypes

LEMMA PriceStep == PriceInv /\ [Engine!Next]_pricesVars => PriceInv'
<1> SUFFICES ASSUME PriceInv, [Engine!Next]_pricesVars PROVE PriceInv'
  OBVIOUS
<1>1. CASE Engine!Next
  BY <1>1, StartSteps, CalculateStep, InsertStep, CommitStep, TickStep, CurrentStep,
     HistorySteps, SummarySteps DEF Engine!Next
<1>2. CASE UNCHANGED pricesVars
  BY <1>2, ReadersStay, CountStays
     DEF pricesVars, PriceInv, PriceTypes, RulesFit, RecalcFits, SnapshotsFit, IsPriced
<1> QED BY <1>1, <1>2

(* What the invariant says of prices. *)
PricesFit ==
    /\ Engine!TypeOK
    /\ Engine!PriceIsTheClampedRatio /\ Engine!ScarcerIsNotCheaper
    /\ Engine!NoRequestFindsNoRule /\ Engine!OneRulePerProcess
    /\ Engine!PagesSkipNothing /\ Engine!LatestCoversAverages

LEMMA PriceInvSays == PriceInv => PricesFit
<1> SUFFICES ASSUME PriceInv PROVE PricesFit
  OBVIOUS
<1>1. \A s \in snapshots : s.supply \in Nat /\ s.demand \in Nat /\ s.price = PriceOf(s.supply, s.demand)
  BY DEF PriceInv, PriceTypes, SnapshotsFit, IsPriced, Engine!Snapshots
<1>2. Engine!TypeOK
  <2>1. rules \in Seq(Engine!Bands)
    BY BandOrder DEF PriceInv, PriceTypes
  <2>2. \A r \in Recalculations :
          recalc[r].at \in {"none", "priced", "inserting", "done", "failed", "refused"}
    BY DEF PriceInv, PriceTypes, PriceSteps
  <2>3. /\ current.at \in {"none", "base", "snapshot"}
        /\ history.at \in {"none", "rows", "total", "done"}
    BY DEF PriceInv, PriceTypes, Engine!Nothing
  <2> QED BY <2>1, <2>2, <2>3
         DEF PriceInv, PriceTypes, SnapshotsFit, SummaryFits, Engine!TypeOK
<1>3. Engine!PriceIsTheClampedRatio
  <2> SUFFICES ASSUME NEW s \in snapshots
               PROVE  LET divisor == IF s.supply >= OneKwh THEN s.supply ELSE OneKwh
                          gap == DefaultRule.basePrice * s.demand - s.price * divisor
                      IN  /\ s.price \in DefaultRule.minPrice..DefaultRule.maxPrice
                          /\ \/ 2 * gap \in -divisor..divisor
                             \/ s.price = DefaultRule.minPrice /\ gap < 0
                             \/ s.price = DefaultRule.maxPrice /\ gap > 0
    <3>1. snapshots # {} => DefaultRule \in Engine!ToSet(rules)
      BY RulesAreDefault DEF PriceInv, RulesFit
    <3> QED BY <3>1 DEF Engine!PriceIsTheClampedRatio
  <2> QED BY <1>1, PriceIsClose
<1>4. Engine!ScarcerIsNotCheaper
  BY <1>1, ScarcityCounts DEF Engine!ScarcerIsNotCheaper
<1>5. Engine!NoRequestFindsNoRule
  BY DEF PriceInv, PriceTypes, PriceSteps, Engine!NoRequestFindsNoRule
<1>6. Engine!OneRulePerProcess
  BY EngineCardinality DEF PriceInv, RulesFit, RulesCounted, BeingSeeded, Engine!OneRulePerProcess
<1>7. Engine!PagesSkipNothing /\ Engine!LatestCoversAverages
  BY DEF PriceInv, HistoryFits, SummaryFits, Covers, Engine!LatestCoversAverages
<1> QED BY <1>2, <1>3, <1>4, <1>5, <1>6, <1>7 DEF PricesFit

(* The newest snapshot is never older than one that was answered before.   *)
LEMMA CurrentOnlyAdvances ==
  ASSUME PriceInv, [Engine!Next]_pricesVars
  PROVE  [current.at = "snapshot" =>
            current'.at = "snapshot" /\ current'.row.createdAt >= current.row.createdAt]_current
<1> SUFFICES ASSUME current' # current, current.at = "snapshot"
             PROVE  current'.at = "snapshot" /\ current'.row.createdAt >= current.row.createdAt
  OBVIOUS
<1>1. Engine!CurrentPrice
  BY DEF pricesVars, Engine!Next, Engine!CountRules, Engine!CreateRule, Engine!Crash, Engine!StartupOnly,
         Engine!Calculate, Engine!SetRecalc, Engine!Insert, Engine!Commit, Engine!Tick,
         Engine!BeginHistory, Engine!HistoryRows, Engine!ReadPage, Engine!HistoryTotal,
         Engine!SummaryAggregate, Engine!SummaryLatest, Engine!SummaryBand, Engine!Summarise
<1>2. current.row \in snapshots
  BY DEF PriceInv, PriceTypes, Engine!Nothing
<1>3. PICK s \in Engine!Newest(snapshots) : current' = [at |-> "snapshot", row |-> s]
  BY <1>1, <1>2 DEF Engine!CurrentPrice, Engine!AnswerCurrent
<1>4. s \in snapshots /\ ~ (current.row.createdAt > s.createdAt)
  BY <1>2 DEF Engine!Newest, Engine!Newer
<1>5. s.createdAt \in Int /\ current.row.createdAt \in Int
  BY <1>2, <1>4 DEF PriceInv, PriceTypes, Engine!Snapshots
<1> QED BY <1>3, <1>4, <1>5

(* Prices are the clamped ratio, rounded once, and no scarcer market is    *)
(* cheaper; every process that serves has a rule, and processes that       *)
(* start together make no more rules than there are processes, however     *)
(* often they die in between; the history skips nothing, the summary's     *)
(* latest price is no older than its averages, and the current price never *)
(* goes back: for any rule, markets, recalculations, processes and deaths. *)
(* (PricesService, StatsService)                                           *)
THEOREM AnyPricesHold == Engine!Spec => []PricesFit /\ Engine!CurrentNeverGoesBack
<1>1. PriceInv /\ [Engine!Next]_(Engine!vars) => PriceInv'
  BY PriceStep DEF Engine!vars, Engine!db, pricesVars
<1>2. PriceInv /\ [Engine!Next]_(Engine!vars)
        => [current.at = "snapshot" =>
              current'.at = "snapshot" /\ current'.row.createdAt >= current.row.createdAt]_current
  BY CurrentOnlyAdvances DEF Engine!vars, Engine!db, pricesVars
<1> QED BY <1>1, <1>2, PriceInit, PriceInvSays, PTL DEF Engine!Spec, Engine!CurrentNeverGoesBack

(* The steps of the pricing engine in MCServices. *)
LEMMA PricesInServices ==
  ASSUME MCNext \/ UNCHANGED <<allVars, part>>
  PROVE  [Engine!Next]_pricesVars
BY DEF MCNext, OutboxSteps, LifecycleSteps, StartupSteps, PipelineSteps, PricesSteps,
       CountersSteps, allVars

(* The same of the pricing engine among the other parts.                   *)
(* (PricesService, StatsService)                                           *)
THEOREM PricesAlwaysHold == MCSpec => PricesHold
<1>1. MCInit => PriceInv
  BY PriceInit DEF MCInit
<1>2. PriceInv /\ [MCNext]_<<allVars, part>> => PriceInv'
  BY PricesInServices, PriceStep
<1>3. PriceInv => PricesFit
  BY PriceInvSays
<1>4. PriceInv /\ [MCNext]_<<allVars, part>>
        => [current.at = "snapshot" =>
              current'.at = "snapshot" /\ current'.row.createdAt >= current.row.createdAt]_current
  BY PricesInServices, CurrentOnlyAdvances
<1> QED BY <1>1, <1>2, <1>3, <1>4, PTL DEF MCSpec, PricesHold, PricesFit, Engine!CurrentNeverGoesBack

-----------------------------------------------------------------------------
(***************************************************************************)
(* The counters of the operations page (OperationsCounters).               *)
(***************************************************************************)

LEMMA CountersBridge ==
  /\ \A S : Counters!Cardinality(S) = Cardinality(S)
  /\ \A S : Counters!IsFiniteSet(S) <=> IsFiniteSet(S)
BY DEF Counters!Cardinality, Cardinality, Counters!IsFiniteSet, IsFiniteSet

LEMMA CountersFinite ==
  /\ IsFiniteSet(CountedEvents) /\ IsFiniteSet(CountedTrades) /\ MaxRetries \in Nat
  /\ IsFiniteSet(Counters!Copies) /\ IsFiniteSet(Counters!Runners)
<1>1. IsFiniteSet(CountedEvents) /\ IsFiniteSet(CountedTrades) /\ MaxRetries \in Nat
  BY CountersConstants, CountersBridge DEF Counters!CountersAssumption
<1>2. IsFiniteSet(0 .. MaxRetries)
  <2>1. 0 .. MaxRetries \in SUBSET Nat /\ \A n \in 0 .. MaxRetries : n <= MaxRetries
    BY <1>1
  <2> QED BY <1>1, <2>1, FS_BoundedSetOfNaturals
<1>3. IsFiniteSet(Counters!Copies)
  BY <1>1, <1>2, FS_Product DEF Counters!Copies
<1>4. IsFiniteSet(Counters!Runners)
  <2>1. Counters!Runners = {"consumer"} \cup {"operator"}
    BY DEF Counters!Runners
  <2>2. IsFiniteSet({"consumer"}) /\ IsFiniteSet({"operator"})
    BY FS_Singleton
  <2> QED BY <2>1, <2>2, FS_Union
<1> QED BY <1>1, <1>3, <1>4

(* Two finite sets that differ in one element at most differ in size by    *)
(* what becomes of it.                                                     *)
In(x, A) == IF x \in A THEN 1 ELSE 0

LEMMA OneMoves ==
  ASSUME NEW A, NEW B, IsFiniteSet(A), NEW x, A \ {x} = B \ {x}
  PROVE  /\ IsFiniteSet(B) /\ Cardinality(A) \in Nat /\ Cardinality(B) \in Nat
         /\ Cardinality(B) = Cardinality(A) + In(x, B) - In(x, A)
<1> DEFINE rest == A \ {x}
<1>1. IsFiniteSet(rest) /\ Cardinality(rest) \in Nat /\ x \notin rest
  BY FS_Subset, FS_CardinalityType
<1>2. ASSUME NEW C, C \ {x} = rest
      PROVE  IsFiniteSet(C) /\ Cardinality(C) = Cardinality(rest) + In(x, C)
  <2>1. CASE x \in C
    <3>1. C = rest \cup {x}
      BY <1>2, <2>1
    <3> HIDE DEF rest
    <3> QED BY <1>1, <2>1, <3>1, FS_AddElement DEF In
  <2>2. CASE x \notin C
    <3>1. C = rest
      BY <1>2, <2>2
    <3> HIDE DEF rest
    <3> QED BY <1>1, <2>2, <3>1 DEF In
  <2> QED BY <2>1, <2>2
<1>3. /\ Cardinality(A) = Cardinality(rest) + In(x, A)
      /\ IsFiniteSet(B) /\ Cardinality(B) = Cardinality(rest) + In(x, B)
  BY <1>2
<1> HIDE DEF rest
<1>4. In(x, A) \in Nat /\ In(x, B) \in Nat
  BY DEF In
<1> QED BY <1>1, <1>3, <1>4

-----------------------------------------------------------------------------
OfMeter == {"created", "published", "failures"}
OfMessages == {"processed", "duplicate", "retry_scheduled", "dead_lettered"}
OfMarket == {"completed", "pricing_unavailable", "failed", "reserved", "settled", "rejected", "unknown"}
OfSettlements == {"recorded", "replayed", "rejected"}
HandStages == {"none", "storing", "matching", "handled", "failed"}
AskerStages == {"none", "sent", "recorded", "refused", "completed", "failed", "gone"}

CountTypes ==
    /\ row \in [CountedEvents -> {"none", "pending", "published"}]
    /\ toCount \in SUBSET (CountedEvents \X {"created", "published"})
    /\ queued \in [Counters!Copies -> Nat]
    /\ hand \in [event : CountedEvents \cup {None}, retries : 0 .. MaxRetries,
                 stage : HandStages, created : BOOLEAN]
    /\ offers \in SUBSET CountedEvents
    /\ run \in [Counters!Runners -> BOOLEAN]
    /\ asking \in [Counters!Runners -> [trade : CountedTrades \cup {None}, at : AskerStages]]
    /\ tradeRow \in [CountedTrades -> {"none", "pending", "completed", "failed"}]
    /\ entries \in SUBSET CountedTrades
    /\ meter \in [OfMeter -> Nat] /\ messages \in [OfMessages -> Nat]
    /\ market \in [OfMarket -> Nat] /\ settlements \in [OfSettlements -> Nat]
    /\ restarts \in [{"trading", "billing"} -> Nat]
    /\ again \in Nat /\ unseen \in Nat /\ rolledBack \in Nat /\ unheard \in Nat

(* A message is worked on exactly while it is in hand; a runner that asks  *)
(* about a trade runs, and the trade was made.                             *)
WorkFits ==
    /\ hand.stage = "none" <=> hand = Counters!NoMessage
    /\ hand.stage # "none" => hand.event \in CountedEvents
    /\ run["consumer"] <=> hand.stage = "matching"
    /\ \A r \in Counters!Runners :
         /\ asking[r].at = "none" <=> asking[r] = Counters!NoRequest
         /\ asking[r].at # "none" => /\ run[r] /\ asking[r].trade \in CountedTrades
                                     /\ tradeRow[asking[r].trade] # "none"

(* What the smart meter committed is counted or is still to count.         *)
EventsStored == {e \in CountedEvents : row[e] # "none"}
EventsDelivered == {e \in CountedEvents : row[e] = "published"}
Uncounted(what) == {e \in CountedEvents : <<e, what>> \in toCount}

MeterFits ==
    /\ Uncounted("created") \subseteq EventsStored /\ Uncounted("published") \subseteq EventsDelivered
    /\ meter.created + Cardinality(Uncounted("created")) = Cardinality(EventsStored)
    /\ meter.published + Cardinality(Uncounted("published")) = Cardinality(EventsDelivered)

(* Every copy was counted, is unseen or is with the broker or in hand.     *)
WithConsumer == IF hand.stage = "none" THEN 0 ELSE 1
MessagesFit ==
    restarts["trading"] = 0 =>
        Cardinality(EventsDelivered) + again =
            messages.processed + messages.duplicate + messages.dead_lettered + unseen
              + SumOver(queued, Counters!Copies) + WithConsumer

(* Every trade made was counted; one that is done was counted, is about to *)
(* be, or trade matching never heard of it.                                *)
MadeTrades == {t \in CountedTrades : tradeRow[t] # "none"}
DoneTrades == {t \in CountedTrades : tradeRow[t] \in {"completed", "failed"}}
Askers(S) == {r \in Counters!Runners : asking[r].at \in S}

TradesFit ==
    restarts["trading"] = 0 =>
        /\ Cardinality(MadeTrades) + rolledBack = market.reserved
        /\ Cardinality(DoneTrades) <=
             market.settled + market.rejected + Cardinality(Askers({"completed", "failed"})) + unheard

(* What was settled, or is about to be, billing has recorded or repeated.  *)
LedgerFits ==
    restarts["billing"] = 0 =>
        market.settled + Cardinality(Askers({"recorded", "completed"}))
          <= settlements.recorded + settlements.replayed

CountInv == CountTypes /\ WorkFits /\ MeterFits /\ MessagesFit /\ TradesFit /\ LedgerFits

-----------------------------------------------------------------------------
LEMMA CountSetsFinite ==
  /\ \A A \in SUBSET CountedEvents : IsFiniteSet(A) /\ Cardinality(A) \in Nat
  /\ \A A \in SUBSET CountedTrades : IsFiniteSet(A) /\ Cardinality(A) \in Nat
  /\ \A A \in SUBSET Counters!Runners : IsFiniteSet(A) /\ Cardinality(A) \in Nat
BY CountersFinite, FS_Subset, FS_CardinalityType

LEMMA CountInit == Counters!Init => CountInv
<1> SUFFICES ASSUME Counters!Init PROVE CountInv
  OBVIOUS
<1>1. CountTypes
  <2>1. MaxRetries \in Nat
    BY CountersFinite
  <2>2. hand \in [event : CountedEvents \cup {None}, retries : 0 .. MaxRetries,
                  stage : HandStages, created : BOOLEAN]
    BY <2>1 DEF Counters!Init, Counters!NoMessage, HandStages
  <2>3. asking \in [Counters!Runners -> [trade : CountedTrades \cup {None}, at : AskerStages]]
    BY DEF Counters!Init, Counters!NoRequest, AskerStages
  <2>4. /\ meter \in [OfMeter -> Nat] /\ messages \in [OfMessages -> Nat]
        /\ market \in [OfMarket -> Nat] /\ settlements \in [OfSettlements -> Nat]
    BY DEF Counters!Init, Counters!NoMeter, Counters!NoMessages, Counters!NoMarket,
           Counters!NoSettlements, OfMeter, OfMessages, OfMarket, OfSettlements
  <2>5. restarts \in [{"trading", "billing"} -> Nat]
    BY DEF Counters!Init
  <2> QED BY <2>2, <2>3, <2>4, <2>5 DEF Counters!Init, CountTypes
<1>2. WorkFits
  <2>1. Counters!NoMessage.stage = "none" /\ Counters!NoRequest.at = "none"
    BY DEF Counters!NoMessage, Counters!NoRequest
  <2>2. "consumer" \in Counters!Runners
    BY DEF Counters!Runners
  <2> QED BY <2>1, <2>2 DEF Counters!Init, WorkFits
<1>3. MeterFits
  <2>1. EventsStored = {} /\ EventsDelivered = {} /\ Uncounted("created") = {} /\ Uncounted("published") = {}
    BY DEF Counters!Init, EventsStored, EventsDelivered, Uncounted
  <2>2. meter.created = 0 /\ meter.published = 0
    BY DEF Counters!Init, Counters!NoMeter
  <2> QED BY <2>1, <2>2, FS_EmptySet DEF MeterFits
<1>4. MessagesFit
  <2>1. EventsDelivered = {} /\ WithConsumer = 0 /\ again = 0 /\ unseen = 0
    BY DEF Counters!Init, EventsDelivered, WithConsumer, Counters!NoMessage
  <2>2. messages.processed = 0 /\ messages.duplicate = 0 /\ messages.dead_lettered = 0
    BY DEF Counters!Init, Counters!NoMessages
  <2>3. SumOver(queued, Counters!Copies) = 0
    <3>1. \A c \in Counters!Copies : queued[c] = 0
      BY DEF Counters!Init
    <3> QED BY <3>1, CountersFinite, SumOverNothing
  <2> QED BY <2>1, <2>2, <2>3, FS_EmptySet DEF MessagesFit
<1>5. \A S : "none" \notin S => Askers(S) = {}
  BY DEF Counters!Init, Counters!NoRequest, Askers
<1>6. /\ market.reserved = 0 /\ market.settled = 0 /\ market.rejected = 0
      /\ settlements.recorded = 0 /\ settlements.replayed = 0 /\ rolledBack = 0 /\ unheard = 0
  BY DEF Counters!Init, Counters!NoMarket, Counters!NoSettlements
<1>7. Askers({"completed", "failed"}) = {} /\ Askers({"recorded", "completed"}) = {}
  BY <1>5
<1>8. MadeTrades = {} /\ DoneTrades = {}
  BY DEF Counters!Init, MadeTrades, DoneTrades
<1>9. TradesFit /\ LedgerFits
  BY <1>6, <1>7, <1>8, FS_EmptySet DEF TradesFit, LedgerFits
<1> QED BY <1>1, <1>2, <1>3, <1>4, <1>9 DEF CountInv

(* What a step leaves alone. *)
LEMMA SameWork ==
  ASSUME CountTypes, WorkFits, UNCHANGED <<hand, run, asking, tradeRow>>
  PROVE  WorkFits'
BY DEF WorkFits

LEMMA SameMeter ==
  ASSUME MeterFits, UNCHANGED <<row, toCount, meter>>
  PROVE  MeterFits'
BY DEF MeterFits, EventsStored, EventsDelivered, Uncounted

LEMMA SameMessages ==
  ASSUME MessagesFit, UNCHANGED <<row, queued, messages, again, unseen, restarts>>, WithConsumer' = WithConsumer
  PROVE  MessagesFit'
BY DEF MessagesFit, EventsDelivered

LEMMA SameTrades ==
  ASSUME TradesFit, UNCHANGED <<tradeRow, asking, rolledBack, unheard, restarts>>,
         \A n \in {"reserved", "settled", "rejected"} : market'[n] = market[n]
  PROVE  TradesFit'
<1>1. Askers({"completed", "failed"})' = Askers({"completed", "failed"})
  BY DEF Askers
<1>2. market'.reserved = market.reserved /\ market'.settled = market.settled
      /\ market'.rejected = market.rejected
  OBVIOUS
<1> QED BY <1>1, <1>2 DEF TradesFit, MadeTrades, DoneTrades

LEMMA SameLedger ==
  ASSUME LedgerFits, UNCHANGED <<asking, settlements, restarts>>, market'["settled"] = market["settled"]
  PROVE  LedgerFits'
<1>1. Askers({"recorded", "completed"})' = Askers({"recorded", "completed"})
  BY DEF Askers
<1>2. market'.settled = market.settled
  OBVIOUS
<1> QED BY <1>1, <1>2 DEF LedgerFits

(* A copy more or less in the broker. *)
LEMMA BrokerCounts ==
  ASSUME NEW held \in [Counters!Copies -> Nat], NEW after \in [Counters!Copies -> Nat],
         NEW c \in Counters!Copies, \A x \in Counters!Copies : x # c => after[x] = held[x]
  PROVE  /\ SumOver(held, Counters!Copies) \in Int
         /\ SumOver(after, Counters!Copies) = SumOver(held, Counters!Copies) + (after[c] - held[c])
<1>1. \A x \in Counters!Copies : held[x] \in Int /\ after[x] \in Int
  OBVIOUS
<1>2. SumOver(held, Counters!Copies) \in Int
  BY <1>1, CountersFinite, SumOverType
<1>3. SumOver(after, Counters!Copies) = SumOver(held, Counters!Copies) + after[c] - held[c]
  BY <1>1, CountersFinite, SumOverOneChange
<1> QED BY <1>1, <1>2, <1>3

(* The smart meter. *)
LEMMA ReadingStoredStep ==
  ASSUME CountInv, NEW e \in CountedEvents, Counters!ReadingStored(e)
  PROVE  CountInv'
<1>1. /\ row[e] = "none" /\ row' = [row EXCEPT ![e] = "pending"]
      /\ toCount' = toCount \cup {<<e, "created">>}
      /\ UNCHANGED <<queued, hand, offers, run, asking, tradeRow, entries, meter, messages, market,
                     settlements, restarts, again, unseen, rolledBack, unheard>>
  BY DEF Counters!ReadingStored, Counters!runVars, Counters!counters, Counters!history
<1>2. CountTypes /\ WorkFits /\ MeterFits /\ MessagesFit /\ TradesFit /\ LedgerFits
  BY DEF CountInv
<1>3. CountTypes'
  BY <1>1, <1>2 DEF CountTypes
<1>4. /\ e \notin EventsStored /\ e \notin Uncounted("created")
      /\ EventsStored' = EventsStored \cup {e} /\ EventsDelivered' = EventsDelivered
      /\ Uncounted("created")' = Uncounted("created") \cup {e}
      /\ Uncounted("published")' = Uncounted("published")
  BY <1>1, <1>2 DEF CountTypes, MeterFits, EventsStored, EventsDelivered, Uncounted
<1>5. MeterFits'
  <2>1. EventsStored \in SUBSET CountedEvents /\ Uncounted("created") \in SUBSET CountedEvents
    BY DEF EventsStored, Uncounted
  <2>2. /\ Cardinality(EventsStored') = Cardinality(EventsStored) + 1
        /\ Cardinality(Uncounted("created")') = Cardinality(Uncounted("created")) + 1
    BY <1>4, <2>1, CountSetsFinite, FS_AddElement
  <2>3. meter.created \in Nat /\ Cardinality(Uncounted("created")) \in Nat
    BY <1>2, <2>1, CountSetsFinite DEF CountTypes, OfMeter
  <2> QED BY <1>1, <1>2, <1>4, <2>2, <2>3 DEF MeterFits
<1>6. MessagesFit'
  BY <1>1, <1>2, <1>4 DEF MessagesFit, WithConsumer
<1> QED BY <1>1, <1>2, <1>3, <1>5, <1>6, SameWork, SameTrades, SameLedger DEF CountInv

LEMMA PublishedStep ==
  ASSUME CountInv, NEW e \in CountedEvents, Counters!Published(e)
  PROVE  CountInv'
<1> DEFINE c == <<e, 0>>
<1>1. /\ row[e] = "pending" /\ row' = [row EXCEPT ![e] = "published"]
      /\ queued' = [queued EXCEPT ![c] = @ + 1]
      /\ toCount' = toCount \cup {<<e, "published">>}
      /\ UNCHANGED <<hand, offers, run, asking, tradeRow, entries, meter, messages, market,
                     settlements, restarts, again, unseen, rolledBack, unheard>>
  BY DEF Counters!Published, Counters!runVars, Counters!counters, Counters!history
<1>2. CountTypes /\ WorkFits /\ MeterFits /\ MessagesFit /\ TradesFit /\ LedgerFits
  BY DEF CountInv
<1>3. c \in Counters!Copies
  BY CountersFinite DEF Counters!Copies
<1>4. /\ queued \in [Counters!Copies -> Nat] /\ queued' \in [Counters!Copies -> Nat]
      /\ SumOver(queued', Counters!Copies) = SumOver(queued, Counters!Copies) + 1
      /\ SumOver(queued, Counters!Copies) \in Int
  <2>1. queued \in [Counters!Copies -> Nat]
    BY <1>2 DEF CountTypes
  <2>2. /\ queued' \in [Counters!Copies -> Nat] /\ queued'[c] - queued[c] = 1
        /\ \A x \in Counters!Copies : x # c => queued'[x] = queued[x]
    BY <1>1, <1>3, <2>1
  <2> HIDE DEF c
  <2>3. /\ SumOver(queued, Counters!Copies) \in Int
        /\ SumOver(queued', Counters!Copies)
             = SumOver(queued, Counters!Copies) + (queued'[c] - queued[c])
    BY <1>3, <2>1, <2>2, BrokerCounts
  <2> QED BY <2>1, <2>2, <2>3
<1>5. CountTypes'
  BY <1>1, <1>2, <1>4 DEF CountTypes
<1>6. /\ e \notin EventsDelivered /\ e \notin Uncounted("published")
      /\ EventsStored' = EventsStored /\ EventsDelivered' = EventsDelivered \cup {e}
      /\ Uncounted("created")' = Uncounted("created")
      /\ Uncounted("published")' = Uncounted("published") \cup {e}
  BY <1>1, <1>2 DEF CountTypes, MeterFits, EventsStored, EventsDelivered, Uncounted
<1>7. /\ Cardinality(EventsDelivered') = Cardinality(EventsDelivered) + 1
      /\ Cardinality(EventsDelivered) \in Nat
  <2>1. EventsDelivered \in SUBSET CountedEvents
    BY DEF EventsDelivered
  <2> QED BY <1>6, <2>1, CountSetsFinite, FS_AddElement
<1>8. MeterFits'
  <2>1. Uncounted("published") \in SUBSET CountedEvents
    BY DEF Uncounted
  <2>2. Cardinality(Uncounted("published")') = Cardinality(Uncounted("published")) + 1
    BY <1>6, <2>1, CountSetsFinite, FS_AddElement
  <2>3. meter.published \in Nat /\ Cardinality(Uncounted("published")) \in Nat
    BY <1>2, <2>1, CountSetsFinite DEF CountTypes, OfMeter
  <2> QED BY <1>1, <1>2, <1>6, <1>7, <2>2, <2>3 DEF MeterFits
<1>9. MessagesFit'
  <2>1. /\ messages.processed \in Nat /\ messages.duplicate \in Nat /\ messages.dead_lettered \in Nat
        /\ unseen \in Nat /\ again \in Nat /\ WithConsumer \in Nat /\ WithConsumer' = WithConsumer
    BY <1>1, <1>2 DEF CountTypes, OfMessages, WithConsumer
  <2> QED BY <1>1, <1>2, <1>4, <1>7, <2>1 DEF MessagesFit
<1> QED BY <1>1, <1>2, <1>5, <1>8, <1>9, SameWork, SameTrades, SameLedger DEF CountInv

LEMMA CountCommittedStep ==
  ASSUME CountInv, NEW e \in CountedEvents, NEW what \in {"created", "published"},
         Counters!CountCommitted(e, what)
  PROVE  CountInv'
<1>1. /\ <<e, what>> \in toCount /\ toCount' = toCount \ {<<e, what>>}
      /\ meter' = Counters!Count(meter, what)
      /\ UNCHANGED <<row, queued, hand, offers, run, asking, tradeRow, entries, messages, market,
                     settlements, restarts, again, unseen, rolledBack, unheard>>
  BY DEF Counters!CountCommitted, Counters!runVars, Counters!history
<1>2. CountTypes /\ WorkFits /\ MeterFits /\ MessagesFit /\ TradesFit /\ LedgerFits
  BY DEF CountInv
<1>3. /\ meter' \in [OfMeter -> Nat] /\ meter'[what] = meter[what] + 1
      /\ \A n \in OfMeter : n # what => meter'[n] = meter[n]
  <2>1. meter \in [OfMeter -> Nat] /\ what \in OfMeter
    BY <1>2 DEF CountTypes, OfMeter
  <2>2. meter' = [meter EXCEPT ![what] = @ + 1]
    BY <1>1 DEF Counters!Count
  <2> QED BY <2>1, <2>2
<1>4. CountTypes'
  BY <1>1, <1>2, <1>3 DEF CountTypes
<1>5. /\ Uncounted(what)' = Uncounted(what) \ {e} /\ e \in Uncounted(what)
      /\ \A w \in {"created", "published"} : w # what => Uncounted(w)' = Uncounted(w)
      /\ EventsStored' = EventsStored /\ EventsDelivered' = EventsDelivered
  BY <1>1 DEF Uncounted, EventsStored, EventsDelivered
<1>6. \A w \in {"created", "published"} : Uncounted(w) \in SUBSET CountedEvents
  BY DEF Uncounted
<1>7. /\ Cardinality(Uncounted(what)') = Cardinality(Uncounted(what)) - 1
      /\ \A w \in {"created", "published"} : Cardinality(Uncounted(w)) \in Nat
  BY <1>5, <1>6, CountSetsFinite, FS_RemoveElement
<1>8. MeterFits'
  <2>1. meter.created \in Nat /\ meter.published \in Nat
    BY <1>2 DEF CountTypes, OfMeter
  <2>2. CASE what = "created"
    <3>1. meter'.created = meter.created + 1 /\ meter'.published = meter.published
      BY <1>3, <2>2 DEF OfMeter
    <3> QED BY <1>2, <1>5, <1>7, <2>1, <2>2, <3>1 DEF MeterFits
  <2>3. CASE what = "published"
    <3>1. meter'.published = meter.published + 1 /\ meter'.created = meter.created
      BY <1>3, <2>3 DEF OfMeter
    <3>2. /\ Uncounted("published")' = Uncounted("published") \ {e}
          /\ Uncounted("created")' = Uncounted("created")
          /\ Cardinality(Uncounted("published")') = Cardinality(Uncounted("published")) - 1
          /\ Cardinality(Uncounted("published")) \in Nat
      BY <1>5, <1>7, <2>3
    <3> QED BY <1>2, <1>5, <2>1, <3>1, <3>2 DEF MeterFits
  <2> QED BY <2>2, <2>3
<1>9. WithConsumer' = WithConsumer
  BY <1>1 DEF WithConsumer
<1> QED BY <1>1, <1>2, <1>4, <1>8, <1>9, SameWork, SameMessages, SameTrades, SameLedger DEF CountInv

LEMMA PublishFailsStep ==
  ASSUME CountInv, NEW e \in CountedEvents, NEW taken \in BOOLEAN, Counters!PublishFails(e, taken)
  PROVE  CountInv'
<1> DEFINE c == <<e, 0>>
           more == IF taken THEN 1 ELSE 0
<1>1. /\ queued' = IF taken THEN [queued EXCEPT ![c] = @ + 1] ELSE queued
      /\ again' = IF taken THEN again + 1 ELSE again
      /\ meter' = Counters!Count(meter, "failures")
      /\ UNCHANGED <<row, toCount, hand, offers, run, asking, tradeRow, entries, messages, market,
                     settlements, restarts, unseen, rolledBack, unheard>>
  BY DEF Counters!PublishFails, Counters!runVars
<1>2. CountTypes /\ WorkFits /\ MeterFits /\ MessagesFit /\ TradesFit /\ LedgerFits
  BY DEF CountInv
<1>3. c \in Counters!Copies
  BY CountersFinite DEF Counters!Copies
<1>4. /\ queued' \in [Counters!Copies -> Nat] /\ more \in Nat
      /\ SumOver(queued', Counters!Copies) = SumOver(queued, Counters!Copies) + more
      /\ SumOver(queued, Counters!Copies) \in Int
  <2>1. queued \in [Counters!Copies -> Nat]
    BY <1>2 DEF CountTypes
  <2>2. /\ queued' \in [Counters!Copies -> Nat] /\ queued'[c] - queued[c] = more
        /\ \A x \in Counters!Copies : x # c => queued'[x] = queued[x]
    BY <1>1, <1>3, <2>1
  <2>3. more \in Nat
    OBVIOUS
  <2> HIDE DEF c, more
  <2>4. /\ SumOver(queued, Counters!Copies) \in Int
        /\ SumOver(queued', Counters!Copies)
             = SumOver(queued, Counters!Copies) + (queued'[c] - queued[c])
    BY <1>3, <2>1, <2>2, BrokerCounts
  <2> QED BY <2>1, <2>2, <2>3, <2>4
<1>5. /\ meter' \in [OfMeter -> Nat] /\ meter'.created = meter.created
      /\ meter'.published = meter.published
  <2>1. meter \in [OfMeter -> Nat] /\ "failures" \in OfMeter
    BY <1>2 DEF CountTypes, OfMeter
  <2>2. meter' = [meter EXCEPT !["failures"] = @ + 1]
    BY <1>1 DEF Counters!Count
  <2> QED BY <2>1, <2>2 DEF OfMeter
<1>6. CountTypes'
  <2>1. again' \in Nat
    BY <1>1, <1>2 DEF CountTypes
  <2> QED BY <1>1, <1>2, <1>4, <1>5, <2>1 DEF CountTypes
<1>7. MeterFits'
  BY <1>1, <1>2, <1>5 DEF MeterFits, EventsStored, EventsDelivered, Uncounted
<1>8. MessagesFit'
  <2>1. /\ messages.processed \in Nat /\ messages.duplicate \in Nat /\ messages.dead_lettered \in Nat
        /\ unseen \in Nat /\ again \in Nat /\ WithConsumer \in Nat /\ WithConsumer' = WithConsumer
        /\ EventsDelivered' = EventsDelivered /\ again' = again + more
    BY <1>1, <1>2 DEF CountTypes, OfMessages, WithConsumer, EventsDelivered
  <2>2. EventsDelivered \in SUBSET CountedEvents
    BY DEF EventsDelivered
  <2>3. Cardinality(EventsDelivered) \in Nat
    BY <2>2, CountSetsFinite
  <2> HIDE DEF more
  <2> QED BY <1>1, <1>2, <1>4, <2>1, <2>3 DEF MessagesFit
<1> QED BY <1>1, <1>2, <1>6, <1>7, <1>8, SameWork, SameTrades, SameLedger DEF CountInv

(* The consumer. *)
LEMMA ReceiveStep ==
  ASSUME CountInv, NEW c \in Counters!Copies, Counters!Receive(c)
  PROVE  CountInv'
<1>1. /\ hand = Counters!NoMessage /\ queued[c] > 0 /\ queued' = [queued EXCEPT ![c] = @ - 1]
      /\ hand' = [event |-> c[1], retries |-> c[2], stage |-> "storing", created |-> FALSE]
      /\ UNCHANGED <<row, toCount, offers, run, asking, tradeRow, entries, meter, messages, market,
                     settlements, restarts, again, unseen, rolledBack, unheard>>
  BY DEF Counters!Receive, Counters!runVars, Counters!counters, Counters!history
<1>2. CountTypes /\ WorkFits /\ MeterFits /\ MessagesFit /\ TradesFit /\ LedgerFits
  BY DEF CountInv
<1>3. c[1] \in CountedEvents /\ c[2] \in 0 .. MaxRetries
  BY DEF Counters!Copies
<1>4. /\ queued' \in [Counters!Copies -> Nat]
      /\ SumOver(queued', Counters!Copies) = SumOver(queued, Counters!Copies) - 1
      /\ SumOver(queued, Counters!Copies) \in Int
  <2>1. queued \in [Counters!Copies -> Nat]
    BY <1>2 DEF CountTypes
  <2>2. /\ queued' \in [Counters!Copies -> Nat] /\ queued'[c] - queued[c] = -1
        /\ \A x \in Counters!Copies : x # c => queued'[x] = queued[x]
    BY <1>1, <2>1
  <2>3. /\ SumOver(queued, Counters!Copies) \in Int
        /\ SumOver(queued', Counters!Copies)
             = SumOver(queued, Counters!Copies) + (queued'[c] - queued[c])
    BY <2>1, <2>2, BrokerCounts
  <2> QED BY <2>2, <2>3
<1>5. hand.stage = "none" /\ hand'.stage = "storing" /\ hand'.event \in CountedEvents
  BY <1>1, <1>3 DEF Counters!NoMessage
<1>6. CountTypes'
  <2>1. hand' \in [event : CountedEvents \cup {None}, retries : 0 .. MaxRetries,
                   stage : HandStages, created : BOOLEAN]
    BY <1>1, <1>3 DEF HandStages
  <2> QED BY <1>1, <1>2, <1>4, <2>1 DEF CountTypes
<1>7. WorkFits'
  <2>1. hand' # Counters!NoMessage
    BY <1>1 DEF Counters!NoMessage
  <2> QED BY <1>1, <1>2, <1>5, <2>1 DEF WorkFits
<1>8. MessagesFit'
  <2>1. WithConsumer = 0 /\ WithConsumer' = 1 /\ EventsDelivered' = EventsDelivered
    BY <1>1, <1>5 DEF WithConsumer, EventsDelivered
  <2>2. /\ messages.processed \in Nat /\ messages.duplicate \in Nat /\ messages.dead_lettered \in Nat
        /\ unseen \in Nat
    BY <1>2 DEF CountTypes, OfMessages
  <2> QED BY <1>1, <1>2, <1>4, <2>1, <2>2 DEF MessagesFit
<1> QED BY <1>1, <1>2, <1>6, <1>7, <1>8, SameMeter, SameTrades, SameLedger DEF CountInv

LEMMA StoreSteps ==
  ASSUME CountInv, Counters!Store \/ Counters!StoreFails
  PROVE  CountInv'
<1>1. /\ hand.stage = "storing"
      /\ \E next \in {"matching", "handled", "failed"}, fresh \in BOOLEAN :
           /\ hand' = [hand EXCEPT !.stage = next, !.created = fresh]
           /\ run' = [run EXCEPT !["consumer"] = (next = "matching")]
      /\ offers' \in SUBSET CountedEvents
      /\ UNCHANGED <<row, toCount, queued, asking, tradeRow, entries, meter, messages, market,
                     settlements, restarts, again, unseen, rolledBack, unheard>>
  <2>1. CountTypes /\ WorkFits
    BY DEF CountInv
  <2>2. CASE Counters!Store
    <3>1. hand.stage = "storing" /\ hand.event \in CountedEvents /\ offers \in SUBSET CountedEvents
      BY <2>1, <2>2 DEF Counters!Store, WorkFits, CountTypes
    <3>2. PICK fresh \in BOOLEAN : fresh <=> hand.event \notin offers
      OBVIOUS
    <3>3. PICK matches \in BOOLEAN : matches <=> fresh \/ hand.retries > 0
      OBVIOUS
    <3>4. /\ hand' = [hand EXCEPT !.created = fresh, !.stage = IF matches THEN "matching" ELSE "handled"]
          /\ run' = [run EXCEPT !["consumer"] = matches]
          /\ offers' = offers \cup {hand.event}
          /\ UNCHANGED <<row, toCount, queued, asking, tradeRow, entries, meter, messages, market,
                         settlements, restarts, again, unseen, rolledBack, unheard>>
      BY <2>2, <3>2, <3>3 DEF Counters!Store, Counters!counters, Counters!history
    <3> DEFINE next == IF matches THEN "matching" ELSE "handled"
    <3>5. next \in {"matching", "handled", "failed"} /\ (next = "matching" <=> matches)
      OBVIOUS
    <3>6. hand' = [hand EXCEPT !.stage = next, !.created = fresh]
      BY <2>1, <3>4 DEF CountTypes
    <3> HIDE DEF next
    <3>7. run' = [run EXCEPT !["consumer"] = (next = "matching")]
      BY <3>4, <3>5
    <3> QED BY <3>1, <3>4, <3>5, <3>6, <3>7
  <2>3. CASE Counters!StoreFails
    <3>1. /\ hand.stage = "storing" /\ hand' = [hand EXCEPT !.stage = "failed"]
          /\ UNCHANGED <<row, toCount, queued, offers, run, asking, tradeRow, entries, meter, messages,
                         market, settlements, restarts, again, unseen, rolledBack, unheard>>
      BY <2>3 DEF Counters!StoreFails, Counters!runVars, Counters!counters, Counters!history
    <3>2. ~ run["consumer"] /\ run \in [Counters!Runners -> BOOLEAN] /\ hand.created \in BOOLEAN
          /\ offers \in SUBSET CountedEvents
      BY <2>1, <3>1 DEF CountTypes, WorkFits
    <3>3. hand' = [hand EXCEPT !.stage = "failed", !.created = hand.created]
      BY <2>1, <3>1 DEF CountTypes
    <3>4. run' = [run EXCEPT !["consumer"] = ("failed" = "matching")]
      BY <3>1, <3>2
    <3> QED BY <3>1, <3>2, <3>3, <3>4
  <2> QED BY <2>2, <2>3
<1>2. CountTypes /\ WorkFits /\ MeterFits /\ MessagesFit /\ TradesFit /\ LedgerFits
  BY DEF CountInv
<1>3. PICK next \in {"matching", "handled", "failed"}, fresh \in BOOLEAN :
        /\ hand' = [hand EXCEPT !.stage = next, !.created = fresh]
        /\ run' = [run EXCEPT !["consumer"] = (next = "matching")]
  BY <1>1
<1>4. /\ hand'.stage = next /\ hand'.event = hand.event /\ hand.event \in CountedEvents
      /\ hand' \in [event : CountedEvents \cup {None}, retries : 0 .. MaxRetries,
                    stage : HandStages, created : BOOLEAN]
  BY <1>1, <1>2, <1>3 DEF CountTypes, WorkFits, HandStages
<1>5. /\ run' \in [Counters!Runners -> BOOLEAN] /\ (run'["consumer"] <=> next = "matching")
      /\ ~ run["consumer"] /\ \A r \in Counters!Runners : r # "consumer" => run'[r] = run[r]
  <2>1. run \in [Counters!Runners -> BOOLEAN] /\ "consumer" \in Counters!Runners
    BY <1>2 DEF CountTypes, Counters!Runners
  <2> QED BY <1>1, <1>2, <1>3, <2>1 DEF WorkFits
<1>6. CountTypes'
  BY <1>1, <1>2, <1>4, <1>5 DEF CountTypes
<1>7. WorkFits'
  <2>1. hand' # Counters!NoMessage /\ hand'.stage # "none"
    BY <1>4 DEF Counters!NoMessage
  <2>2. \A r \in Counters!Runners : asking[r].at # "none" => run'[r]
    BY <1>2, <1>5 DEF WorkFits
  <2> QED BY <1>1, <1>2, <1>4, <1>5, <2>1, <2>2 DEF WorkFits
<1>8. WithConsumer' = WithConsumer
  BY <1>1, <1>4 DEF WithConsumer
<1> QED BY <1>1, <1>2, <1>6, <1>7, <1>8, SameMeter, SameMessages, SameTrades, SameLedger DEF CountInv

(* The consumer is done with its message. *)
LEMMA HandIsEmptied ==
  ASSUME CountTypes, WorkFits, hand.stage \in {"handled", "failed"}, hand' = Counters!NoMessage,
         UNCHANGED <<run, asking, tradeRow>>
  PROVE  /\ WorkFits' /\ WithConsumer = 1 /\ WithConsumer' = 0
         /\ hand' \in [event : CountedEvents \cup {None}, retries : 0 .. MaxRetries,
                       stage : HandStages, created : BOOLEAN]
<1>1. hand'.stage = "none" /\ MaxRetries \in Nat
  BY CountersFinite DEF Counters!NoMessage
<1>2. WorkFits'
  BY <1>1 DEF WorkFits
<1>3. WithConsumer = 1 /\ WithConsumer' = 0
  BY <1>1 DEF WithConsumer
<1> QED BY <1>1, <1>2, <1>3 DEF Counters!NoMessage, HandStages

LEMMA BackInQueue ==
  ASSUME CountTypes, hand.event \in CountedEvents, NEW dropped \in BOOLEAN
  PROVE  LET waiting == IF dropped THEN Counters!Back(1) ELSE queued IN
         /\ waiting \in [Counters!Copies -> Nat]
         /\ SumOver(queued, Counters!Copies) \in Int
         /\ SumOver(waiting, Counters!Copies)
              = SumOver(queued, Counters!Copies) + (IF dropped THEN 1 ELSE 0)
<1> DEFINE c == <<hand.event, hand.retries>>
           waiting == IF dropped THEN Counters!Back(1) ELSE queued
           more == IF dropped THEN 1 ELSE 0
<1>1. queued \in [Counters!Copies -> Nat] /\ c \in Counters!Copies
  BY DEF CountTypes, Counters!Copies
<1>2. Counters!Back(1) = [queued EXCEPT ![c] = @ + 1]
  BY DEF Counters!Back
<1>3. /\ waiting \in [Counters!Copies -> Nat] /\ waiting[c] - queued[c] = more
      /\ \A x \in Counters!Copies : x # c => waiting[x] = queued[x]
  BY <1>1, <1>2
<1> HIDE DEF c, waiting, more
<1>4. /\ SumOver(queued, Counters!Copies) \in Int
      /\ SumOver(waiting, Counters!Copies)
           = SumOver(queued, Counters!Copies) + (waiting[c] - queued[c])
  BY <1>1, <1>3, BrokerCounts
<1> QED BY <1>3, <1>4 DEF waiting, more

LEMMA HandledStep ==
  ASSUME CountInv, NEW dropped \in BOOLEAN, Counters!Handled(dropped)
  PROVE  CountInv'
<1> DEFINE more == IF dropped THEN 1 ELSE 0
           name == IF hand.created THEN "processed" ELSE "duplicate"
<1>1. /\ hand.stage = "handled" /\ hand' = Counters!NoMessage
      /\ messages' = Counters!Count(messages, name)
      /\ queued' = IF dropped THEN Counters!Back(1) ELSE queued
      /\ again' = IF dropped THEN again + 1 ELSE again
      /\ UNCHANGED <<row, toCount, offers, run, asking, tradeRow, entries, meter, market,
                     settlements, restarts, unseen, rolledBack, unheard>>
  BY DEF Counters!Handled, Counters!Acknowledge, Counters!runVars
<1>2. CountTypes /\ WorkFits /\ MeterFits /\ MessagesFit /\ TradesFit /\ LedgerFits
  BY DEF CountInv
<1>3. /\ queued' \in [Counters!Copies -> Nat] /\ SumOver(queued, Counters!Copies) \in Int
      /\ SumOver(queued', Counters!Copies) = SumOver(queued, Counters!Copies) + more
  <2>1. hand.event \in CountedEvents
    BY <1>1, <1>2 DEF WorkFits
  <2> QED BY <1>1, <1>2, <2>1, BackInQueue
<1>4. /\ WorkFits' /\ WithConsumer = 1 /\ WithConsumer' = 0
      /\ hand' \in [event : CountedEvents \cup {None}, retries : 0 .. MaxRetries,
                    stage : HandStages, created : BOOLEAN]
  BY <1>1, <1>2, HandIsEmptied
<1>5. /\ messages' \in [OfMessages -> Nat]
      /\ messages'.processed + messages'.duplicate + messages'.dead_lettered
           = messages.processed + messages.duplicate + messages.dead_lettered + 1
      /\ messages.processed \in Nat /\ messages.duplicate \in Nat /\ messages.dead_lettered \in Nat
      /\ messages'.processed \in Nat /\ messages'.duplicate \in Nat /\ messages'.dead_lettered \in Nat
  <2>1. messages \in [OfMessages -> Nat] /\ messages' = [messages EXCEPT ![name] = @ + 1]
    BY <1>1, <1>2 DEF CountTypes, Counters!Count
  <2>2. name = "processed" \/ name = "duplicate"
    OBVIOUS
  <2> HIDE DEF name
  <2> QED BY <2>1, <2>2 DEF OfMessages
<1>6. again \in Nat /\ again' \in Nat /\ again' = again + more /\ more \in Nat /\ unseen \in Nat
  BY <1>1, <1>2 DEF CountTypes
<1>7. CountTypes'
  BY <1>1, <1>2, <1>3, <1>4, <1>5, <1>6 DEF CountTypes
<1> HIDE DEF more, name
<1>8. MessagesFit'
  <2>1. EventsDelivered' = EventsDelivered /\ EventsDelivered \in SUBSET CountedEvents
    BY <1>1 DEF EventsDelivered
  <2>2. Cardinality(EventsDelivered) \in Nat
    BY <2>1, CountSetsFinite
  <2> QED BY <1>1, <1>2, <1>3, <1>4, <1>5, <1>6, <2>1, <2>2 DEF MessagesFit
<1> QED BY <1>1, <1>2, <1>4, <1>7, <1>8, SameMeter, SameTrades, SameLedger DEF CountInv

LEMMA HandlingFailedStep ==
  ASSUME CountInv, NEW dropped \in BOOLEAN, Counters!HandlingFailed(dropped)
  PROVE  CountInv'
<1> DEFINE more == IF dropped THEN 1 ELSE 0
           retried == hand.retries < MaxRetries
           copy == <<hand.event, hand.retries + 1>>
           waiting == IF dropped THEN Counters!Back(1) ELSE queued
           name == IF retried THEN "retry_scheduled" ELSE "dead_lettered"
           next == IF retried THEN 1 ELSE 0
<1>1. /\ hand.stage = "failed" /\ hand' = Counters!NoMessage
      /\ messages' = Counters!Count(messages, name)
      /\ queued' = IF retried THEN [waiting EXCEPT ![copy] = @ + 1] ELSE waiting
      /\ again' = IF dropped THEN again + 1 ELSE again
      /\ UNCHANGED <<row, toCount, offers, run, asking, tradeRow, entries, meter, market,
                     settlements, restarts, unseen, rolledBack, unheard>>
  BY DEF Counters!HandlingFailed, Counters!Acknowledge, Counters!runVars
<1>2. CountTypes /\ WorkFits /\ MeterFits /\ MessagesFit /\ TradesFit /\ LedgerFits
  BY DEF CountInv
<1>3. /\ waiting \in [Counters!Copies -> Nat] /\ SumOver(queued, Counters!Copies) \in Int
      /\ SumOver(waiting, Counters!Copies) = SumOver(queued, Counters!Copies) + more
      /\ retried => copy \in Counters!Copies
  <2>1. hand.event \in CountedEvents /\ hand.retries \in 0 .. MaxRetries /\ MaxRetries \in Nat
    BY <1>1, <1>2, CountersFinite DEF WorkFits, CountTypes
  <2>2. retried => copy \in Counters!Copies
    BY <2>1 DEF Counters!Copies
  <2> QED BY <1>2, <2>1, <2>2, BackInQueue
<1> HIDE DEF waiting
<1>4. /\ queued' \in [Counters!Copies -> Nat]
      /\ SumOver(queued', Counters!Copies) = SumOver(waiting, Counters!Copies) + next
  <2>1. CASE retried
    <3>1. /\ queued' \in [Counters!Copies -> Nat] /\ queued'[copy] - waiting[copy] = next
          /\ \A x \in Counters!Copies : x # copy => queued'[x] = waiting[x]
      BY <1>1, <1>3, <2>1
    <3>2. copy \in Counters!Copies
      BY <1>3, <2>1
    <3> HIDE DEF copy, next
    <3>3. SumOver(queued', Counters!Copies)
            = SumOver(waiting, Counters!Copies) + (queued'[copy] - waiting[copy])
      BY <1>3, <3>1, <3>2, BrokerCounts
    <3> QED BY <3>1, <3>3
  <2>2. CASE ~ retried
    <3>1. SumOver(waiting, Counters!Copies) \in Int
      BY <1>3
    <3> QED BY <1>1, <1>3, <2>2, <3>1
  <2> QED BY <2>1, <2>2
<1>5. /\ WorkFits' /\ WithConsumer = 1 /\ WithConsumer' = 0
      /\ hand' \in [event : CountedEvents \cup {None}, retries : 0 .. MaxRetries,
                    stage : HandStages, created : BOOLEAN]
  BY <1>1, <1>2, HandIsEmptied
<1>6. /\ messages' \in [OfMessages -> Nat]
      /\ messages'.processed + messages'.duplicate + messages'.dead_lettered
           = messages.processed + messages.duplicate + messages.dead_lettered + (1 - next)
      /\ messages.processed \in Nat /\ messages.duplicate \in Nat /\ messages.dead_lettered \in Nat
      /\ messages'.processed \in Nat /\ messages'.duplicate \in Nat /\ messages'.dead_lettered \in Nat
  <2>1. messages \in [OfMessages -> Nat] /\ messages' = [messages EXCEPT ![name] = @ + 1]
    BY <1>1, <1>2 DEF CountTypes, Counters!Count
  <2>2. (name = "retry_scheduled" /\ next = 1) \/ (name = "dead_lettered" /\ next = 0)
    OBVIOUS
  <2> HIDE DEF name, next
  <2> QED BY <2>1, <2>2 DEF OfMessages
<1>7. again \in Nat /\ again' \in Nat /\ again' = again + more /\ more \in Nat /\ unseen \in Nat
      /\ next \in Nat
  BY <1>1, <1>2 DEF CountTypes
<1>8. CountTypes'
  BY <1>1, <1>2, <1>4, <1>5, <1>6, <1>7 DEF CountTypes
<1> HIDE DEF more, name, next, retried, copy
<1>9. MessagesFit'
  <2>1. EventsDelivered' = EventsDelivered /\ EventsDelivered \in SUBSET CountedEvents
    BY <1>1 DEF EventsDelivered
  <2>2. Cardinality(EventsDelivered) \in Nat
    BY <2>1, CountSetsFinite
  <2> QED BY <1>1, <1>2, <1>3, <1>4, <1>5, <1>6, <1>7, <2>1, <2>2 DEF MessagesFit
<1> QED BY <1>1, <1>2, <1>5, <1>8, <1>9, SameMeter, SameTrades, SameLedger DEF CountInv

LEMMA PublishOfCopyFailsStep ==
  ASSUME CountInv, Counters!PublishOfCopyFails
  PROVE  CountInv'
<1>1. /\ hand.stage = "failed" /\ hand' = Counters!NoMessage /\ unseen' = unseen + 1
      /\ UNCHANGED <<row, toCount, queued, offers, run, asking, tradeRow, entries, meter, messages,
                     market, settlements, restarts, again, rolledBack, unheard>>
  BY DEF Counters!PublishOfCopyFails, Counters!runVars, Counters!counters
<1>2. CountTypes /\ WorkFits /\ MeterFits /\ MessagesFit /\ TradesFit /\ LedgerFits
  BY DEF CountInv
<1>3. /\ WorkFits' /\ WithConsumer = 1 /\ WithConsumer' = 0
      /\ hand' \in [event : CountedEvents \cup {None}, retries : 0 .. MaxRetries,
                    stage : HandStages, created : BOOLEAN]
  BY <1>1, <1>2, HandIsEmptied
<1>4. CountTypes'
  <2>1. unseen' \in Nat
    BY <1>1, <1>2 DEF CountTypes
  <2> QED BY <1>1, <1>2, <1>3, <2>1 DEF CountTypes
<1>5. MessagesFit'
  <2>1. /\ messages.processed \in Nat /\ messages.duplicate \in Nat /\ messages.dead_lettered \in Nat
        /\ unseen \in Nat /\ EventsDelivered' = EventsDelivered
    BY <1>1, <1>2 DEF CountTypes, OfMessages, EventsDelivered
  <2>2. SumOver(queued, Counters!Copies) \in Int
    <3>1. \A x \in Counters!Copies : queued[x] \in Int
      BY <1>2 DEF CountTypes
    <3> QED BY <3>1, CountersFinite, SumOverType
  <2> QED BY <1>1, <1>2, <1>3, <2>1, <2>2 DEF MessagesFit
<1> QED BY <1>1, <1>2, <1>3, <1>4, <1>5, SameMeter, SameTrades, SameLedger DEF CountInv

(* The matching runs. *)
LEMMA RunnersAre == "consumer" \in Counters!Runners /\ "operator" \in Counters!Runners
BY DEF Counters!Runners

LEMMA AskersMove ==
  ASSUME NEW r \in Counters!Runners, \A q \in Counters!Runners : q # r => asking'[q] = asking[q],
         NEW S
  PROVE  /\ Cardinality(Askers(S)) \in Nat /\ Cardinality(Askers(S)') \in Nat
         /\ Cardinality(Askers(S)')
              = Cardinality(Askers(S)) + In(asking'[r].at, S) - In(asking[r].at, S)
<1>1. Askers(S) \in SUBSET Counters!Runners
  BY DEF Askers
<1>2. IsFiniteSet(Askers(S))
  BY <1>1, CountSetsFinite
<1>3. Askers(S) \ {r} = Askers(S)' \ {r}
  BY DEF Askers
<1>4. In(r, Askers(S)) = In(asking[r].at, S) /\ In(r, Askers(S)') = In(asking'[r].at, S)
  BY DEF In, Askers
<1>5. /\ Cardinality(Askers(S)) \in Nat /\ Cardinality(Askers(S)') \in Nat
      /\ Cardinality(Askers(S)') = Cardinality(Askers(S)) + In(r, Askers(S)') - In(r, Askers(S))
  BY <1>2, <1>3, OneMoves
<1> QED BY <1>4, <1>5

LEMMA TradeSetsFinite ==
  Cardinality(MadeTrades) \in Nat /\ Cardinality(DoneTrades) \in Nat
<1>1. MadeTrades \in SUBSET CountedTrades /\ DoneTrades \in SUBSET CountedTrades
  BY DEF MadeTrades, DoneTrades
<1> QED BY <1>1, CountSetsFinite

LEMMA RunIsOver ==
  ASSUME CountTypes, WorkFits, NEW r \in Counters!Runners, run[r],
         NEW counted \in [OfMarket -> Nat],
         NEW outcome \in {"completed", "pricing_unavailable", "failed"},
         Counters!EndRun(r, counted, outcome)
  PROVE  /\ run' \in [Counters!Runners -> BOOLEAN] /\ ~ run'[r]
         /\ \A q \in Counters!Runners : q # r => run'[q] = run[q]
         /\ market' \in [OfMarket -> Nat]
         /\ \A n \in {"reserved", "settled", "rejected", "unknown"} : market'[n] = counted[n]
         /\ hand' \in [event : CountedEvents \cup {None}, retries : 0 .. MaxRetries,
                       stage : HandStages, created : BOOLEAN]
         /\ WithConsumer' = WithConsumer
         /\ hand'.stage = "none" <=> hand' = Counters!NoMessage
         /\ hand'.stage # "none" => hand'.event \in CountedEvents
         /\ run'["consumer"] <=> hand'.stage = "matching"
<1>1. /\ run' = [run EXCEPT ![r] = FALSE] /\ market' = [counted EXCEPT ![outcome] = @ + 1]
      /\ hand' = IF r = "operator" THEN hand
                 ELSE [hand EXCEPT !.stage = IF outcome = "completed" THEN "handled" ELSE "failed"]
  BY DEF Counters!EndRun, Counters!Count
<1>2. /\ run' \in [Counters!Runners -> BOOLEAN] /\ ~ run'[r]
      /\ \A q \in Counters!Runners : q # r => run'[q] = run[q]
  BY <1>1 DEF CountTypes
<1>3. /\ market' \in [OfMarket -> Nat]
      /\ \A n \in {"reserved", "settled", "rejected", "unknown"} : market'[n] = counted[n]
  BY <1>1 DEF OfMarket
<1>4. CASE r = "operator"
  <2>1. hand' = hand /\ run'["consumer"] = run["consumer"]
    BY <1>1, <1>2, <1>4, RunnersAre
  <2> QED BY <1>2, <1>3, <2>1 DEF CountTypes, WorkFits, WithConsumer
<1>5. CASE r # "operator"
  <2>1. r = "consumer" /\ hand.stage = "matching"
    BY <1>5 DEF Counters!Runners, WorkFits
  <2> DEFINE next == IF outcome = "completed" THEN "handled" ELSE "failed"
  <2>2. next \in {"handled", "failed"} /\ hand' = [hand EXCEPT !.stage = next]
    BY <1>1, <1>5
  <2> HIDE DEF next
  <2>3. /\ hand'.stage = next /\ hand'.event = hand.event
        /\ hand' \in [event : CountedEvents \cup {None}, retries : 0 .. MaxRetries,
                      stage : HandStages, created : BOOLEAN]
    BY <2>2 DEF CountTypes, HandStages
  <2>4. hand' # Counters!NoMessage /\ hand.event \in CountedEvents
    BY <2>1, <2>2, <2>3 DEF Counters!NoMessage, WorkFits
  <2> QED BY <1>2, <1>3, <2>1, <2>2, <2>3, <2>4 DEF WithConsumer
<1> QED BY <1>4, <1>5

LEMMA WorkAfterRun ==
  ASSUME WorkFits, NEW r \in Counters!Runners, asking'[r] = Counters!NoRequest,
         \A q \in Counters!Runners : q # r => asking'[q] = asking[q] /\ run'[q] = run[q],
         tradeRow' = tradeRow,
         hand'.stage = "none" <=> hand' = Counters!NoMessage,
         hand'.stage # "none" => hand'.event \in CountedEvents,
         run'["consumer"] <=> hand'.stage = "matching"
  PROVE  WorkFits'
<1>1. asking'[r].at = "none"
  BY DEF Counters!NoRequest
<1>2. ASSUME NEW q \in Counters!Runners
      PROVE  /\ asking'[q].at = "none" <=> asking'[q] = Counters!NoRequest
             /\ asking'[q].at # "none" => /\ run'[q] /\ asking'[q].trade \in CountedTrades
                                          /\ tradeRow'[asking'[q].trade] # "none"
  <2>1. CASE q = r
    BY <1>1, <2>1
  <2>2. CASE q # r
    BY <2>2 DEF WorkFits
  <2> QED BY <2>1, <2>2
<1> QED BY <1>2 DEF WorkFits

LEMMA OperatorRunStep ==
  ASSUME CountInv, Counters!OperatorRun
  PROVE  CountInv'
<1>1. /\ run' = [run EXCEPT !["operator"] = TRUE]
      /\ UNCHANGED <<row, toCount, queued, hand, offers, asking, tradeRow, entries, meter, messages,
                     market, settlements, restarts, again, unseen, rolledBack, unheard>>
  BY DEF Counters!OperatorRun, Counters!eventVars, Counters!counters, Counters!history
<1>2. CountTypes /\ WorkFits /\ MeterFits /\ MessagesFit /\ TradesFit /\ LedgerFits
  BY DEF CountInv
<1>3. /\ run' \in [Counters!Runners -> BOOLEAN] /\ run'["consumer"] = run["consumer"]
      /\ \A q \in Counters!Runners : run[q] => run'[q]
  BY <1>1, <1>2, RunnersAre DEF CountTypes
<1>4. CountTypes'
  BY <1>1, <1>2, <1>3 DEF CountTypes
<1>5. WorkFits'
  BY <1>1, <1>2, <1>3 DEF WorkFits
<1>6. WithConsumer' = WithConsumer
  BY <1>1 DEF WithConsumer
<1> QED BY <1>1, <1>2, <1>4, <1>5, <1>6, SameMeter, SameMessages, SameTrades, SameLedger DEF CountInv

LEMMA RunOverSteps ==
  ASSUME CountInv, NEW r \in Counters!Runners,
         Counters!RunEnds(r) \/ \E outcome \in {"pricing_unavailable", "failed"} : Counters!RunStops(r, outcome)
  PROVE  CountInv'
<1>1. /\ run[r] /\ asking[r] = Counters!NoRequest
      /\ \E outcome \in {"completed", "pricing_unavailable", "failed"} : Counters!EndRun(r, market, outcome)
      /\ UNCHANGED <<row, toCount, queued, offers, asking, tradeRow, entries, meter, messages,
                     settlements, restarts, again, unseen, rolledBack, unheard>>
  BY DEF Counters!RunEnds, Counters!RunStops, Counters!history
<1>2. CountTypes /\ WorkFits /\ MeterFits /\ MessagesFit /\ TradesFit /\ LedgerFits
  BY DEF CountInv
<1>3. PICK outcome \in {"completed", "pricing_unavailable", "failed"} : Counters!EndRun(r, market, outcome)
  BY <1>1
<1>4. market \in [OfMarket -> Nat]
  BY <1>2 DEF CountTypes
<1>5. /\ run' \in [Counters!Runners -> BOOLEAN] /\ ~ run'[r]
      /\ \A q \in Counters!Runners : q # r => run'[q] = run[q]
      /\ market' \in [OfMarket -> Nat]
      /\ \A n \in {"reserved", "settled", "rejected", "unknown"} : market'[n] = market[n]
      /\ hand' \in [event : CountedEvents \cup {None}, retries : 0 .. MaxRetries,
                    stage : HandStages, created : BOOLEAN]
      /\ WithConsumer' = WithConsumer
      /\ hand'.stage = "none" <=> hand' = Counters!NoMessage
      /\ hand'.stage # "none" => hand'.event \in CountedEvents
      /\ run'["consumer"] <=> hand'.stage = "matching"
  BY <1>1, <1>2, <1>3, <1>4, RunIsOver
<1>6. CountTypes'
  BY <1>1, <1>2, <1>5 DEF CountTypes
<1>7. WorkFits'
  <2>1. asking'[r] = Counters!NoRequest /\ \A q \in Counters!Runners : asking'[q] = asking[q]
    BY <1>1
  <2> QED BY <1>1, <1>2, <1>5, <2>1, WorkAfterRun
<1>8. TradesFit' /\ LedgerFits'
  BY <1>1, <1>2, <1>5, SameTrades, SameLedger
<1> QED BY <1>1, <1>2, <1>5, <1>6, <1>7, <1>8, SameMeter, SameMessages DEF CountInv

LEMMA CommitFailsStep ==
  ASSUME CountInv, NEW r \in Counters!Runners, NEW t \in CountedTrades, Counters!CommitFails(r, t)
  PROVE  CountInv'
<1> DEFINE counted == Counters!Count(market, "reserved")
<1>1. /\ run[r] /\ asking[r] = Counters!NoRequest /\ Counters!EndRun(r, counted, "failed")
      /\ rolledBack' = rolledBack + 1
      /\ UNCHANGED <<row, toCount, queued, offers, asking, tradeRow, entries, meter, messages,
                     settlements, restarts, again, unseen, unheard>>
  BY DEF Counters!CommitFails
<1>2. CountTypes /\ WorkFits /\ MeterFits /\ MessagesFit /\ TradesFit /\ LedgerFits
  BY DEF CountInv
<1>3. /\ counted \in [OfMarket -> Nat] /\ counted["reserved"] = market["reserved"] + 1
      /\ counted["settled"] = market["settled"] /\ counted["rejected"] = market["rejected"]
      /\ market["reserved"] \in Nat
  <2>1. market \in [OfMarket -> Nat] /\ counted = [market EXCEPT !["reserved"] = @ + 1]
    BY <1>2 DEF CountTypes, Counters!Count
  <2> HIDE DEF counted
  <2> QED BY <2>1 DEF OfMarket
<1> HIDE DEF counted
<1>5. /\ run' \in [Counters!Runners -> BOOLEAN] /\ ~ run'[r]
      /\ \A q \in Counters!Runners : q # r => run'[q] = run[q]
      /\ market' \in [OfMarket -> Nat]
      /\ \A n \in {"reserved", "settled", "rejected", "unknown"} : market'[n] = counted[n]
      /\ hand' \in [event : CountedEvents \cup {None}, retries : 0 .. MaxRetries,
                    stage : HandStages, created : BOOLEAN]
      /\ WithConsumer' = WithConsumer
      /\ hand'.stage = "none" <=> hand' = Counters!NoMessage
      /\ hand'.stage # "none" => hand'.event \in CountedEvents
      /\ run'["consumer"] <=> hand'.stage = "matching"
  BY <1>1, <1>2, <1>3, RunIsOver
<1>6. CountTypes'
  <2>1. rolledBack' \in Nat
    BY <1>1, <1>2 DEF CountTypes
  <2> QED BY <1>1, <1>2, <1>5, <2>1 DEF CountTypes
<1>7. WorkFits'
  <2>1. asking'[r] = Counters!NoRequest /\ \A q \in Counters!Runners : asking'[q] = asking[q]
    BY <1>1
  <2> QED BY <1>1, <1>2, <1>5, <2>1, WorkAfterRun
<1>8. /\ market'["reserved"] = market["reserved"] + 1
      /\ market'["settled"] = market["settled"] /\ market'["rejected"] = market["rejected"]
  BY <1>3, <1>5
<1>9. TradesFit'
  <2>1. Askers({"completed", "failed"})' = Askers({"completed", "failed"})
    BY <1>1 DEF Askers
  <2>2. MadeTrades' = MadeTrades /\ DoneTrades' = DoneTrades
    BY <1>1 DEF MadeTrades, DoneTrades
  <2>3. rolledBack \in Nat /\ Cardinality(MadeTrades) \in Nat
    BY <1>2, TradeSetsFinite DEF CountTypes
  <2> QED BY <1>1, <1>2, <1>3, <1>8, <2>1, <2>2, <2>3 DEF TradesFit
<1>10. LedgerFits'
  BY <1>1, <1>2, <1>8, SameLedger
<1> QED BY <1>1, <1>2, <1>5, <1>6, <1>7, <1>9, <1>10, SameMeter, SameMessages DEF CountInv

LEMMA ReserveStep ==
  ASSUME CountInv, NEW r \in Counters!Runners, NEW t \in CountedTrades, Counters!Reserve(r, t)
  PROVE  CountInv'
<1>1. /\ tradeRow[t] = "none" /\ tradeRow' = [tradeRow EXCEPT ![t] = "pending"]
      /\ market' = [market EXCEPT !["reserved"] = @ + 1]
      /\ UNCHANGED <<row, toCount, queued, hand, offers, run, asking, entries, meter, messages,
                     settlements, restarts, again, unseen, rolledBack, unheard>>
  BY DEF Counters!Reserve, Counters!eventVars, Counters!history, Counters!Count
<1>2. CountTypes /\ WorkFits /\ MeterFits /\ MessagesFit /\ TradesFit /\ LedgerFits
  BY DEF CountInv
<1>3. /\ market' \in [OfMarket -> Nat] /\ market'["reserved"] = market["reserved"] + 1
      /\ market'["settled"] = market["settled"] /\ market'["rejected"] = market["rejected"]
      /\ market["reserved"] \in Nat
  BY <1>1, <1>2 DEF CountTypes, OfMarket
<1>4. /\ tradeRow' \in [CountedTrades -> {"none", "pending", "completed", "failed"}]
      /\ \A u \in CountedTrades : tradeRow[u] # "none" => tradeRow'[u] # "none"
  BY <1>1, <1>2 DEF CountTypes
<1>5. CountTypes'
  BY <1>1, <1>2, <1>3, <1>4 DEF CountTypes
<1>6. WorkFits'
  BY <1>1, <1>2, <1>4 DEF WorkFits
<1>7. TradesFit'
  <2>1. t \notin MadeTrades /\ MadeTrades' = MadeTrades \cup {t} /\ DoneTrades' = DoneTrades
    BY <1>1, <1>2 DEF MadeTrades, DoneTrades, CountTypes
  <2>2. Cardinality(MadeTrades') = Cardinality(MadeTrades) + 1 /\ Cardinality(MadeTrades) \in Nat
    <3>1. MadeTrades \in SUBSET CountedTrades
      BY DEF MadeTrades
    <3> QED BY <2>1, <3>1, CountSetsFinite, FS_AddElement
  <2>3. Askers({"completed", "failed"})' = Askers({"completed", "failed"})
    BY <1>1 DEF Askers
  <2>4. rolledBack \in Nat
    BY <1>2 DEF CountTypes
  <2> QED BY <1>1, <1>2, <1>3, <2>1, <2>2, <2>3, <2>4 DEF TradesFit
<1>8. WithConsumer' = WithConsumer /\ LedgerFits'
  BY <1>1, <1>2, <1>3, SameLedger DEF WithConsumer
<1> QED BY <1>1, <1>2, <1>5, <1>6, <1>7, <1>8, SameMeter, SameMessages DEF CountInv

(* Asking billing about a trade. *)
LEMMA WorkOfAsker ==
  ASSUME WorkFits, NEW r \in Counters!Runners,
         \A q \in Counters!Runners : q # r => asking'[q] = asking[q],
         asking'[r].at # "none", asking'[r].trade \in CountedTrades, run[r],
         tradeRow'[asking'[r].trade] # "none",
         \A u \in CountedTrades : tradeRow[u] # "none" => tradeRow'[u] # "none",
         UNCHANGED <<hand, run>>
  PROVE  WorkFits'
<1>1. ASSUME NEW q \in Counters!Runners
      PROVE  /\ asking'[q].at = "none" <=> asking'[q] = Counters!NoRequest
             /\ asking'[q].at # "none" => /\ run'[q] /\ asking'[q].trade \in CountedTrades
                                          /\ tradeRow'[asking'[q].trade] # "none"
  <2>1. CASE q = r
    BY <2>1 DEF Counters!NoRequest
  <2>2. CASE q # r
    BY <2>2 DEF WorkFits
  <2> QED BY <2>1, <2>2
<1> QED BY <1>1 DEF WorkFits

LEMMA SendStep ==
  ASSUME CountInv, NEW r \in Counters!Runners, NEW t \in CountedTrades, Counters!Send(r, t)
  PROVE  CountInv'
<1>1. /\ run[r] /\ asking[r] = Counters!NoRequest /\ tradeRow[t] = "pending"
      /\ asking' = [asking EXCEPT ![r] = [trade |-> t, at |-> "sent"]]
      /\ UNCHANGED <<row, toCount, queued, hand, offers, run, tradeRow, entries, meter, messages,
                     market, settlements, restarts, again, unseen, rolledBack, unheard>>
  BY DEF Counters!Send, Counters!eventVars, Counters!counters, Counters!history
<1>2. CountTypes /\ WorkFits /\ MeterFits /\ MessagesFit /\ TradesFit /\ LedgerFits
  BY DEF CountInv
<1>3. /\ asking' \in [Counters!Runners -> [trade : CountedTrades \cup {None}, at : AskerStages]]
      /\ asking'[r].at = "sent" /\ asking'[r].trade = t /\ asking[r].at = "none"
      /\ \A q \in Counters!Runners : q # r => asking'[q] = asking[q]
  BY <1>1, <1>2 DEF CountTypes, AskerStages, Counters!NoRequest
<1>4. CountTypes'
  BY <1>1, <1>2, <1>3 DEF CountTypes
<1>5. WorkFits'
  BY <1>1, <1>2, <1>3, WorkOfAsker
<1>6. \A S : "none" \notin S /\ "sent" \notin S => Askers(S)' = Askers(S)
  BY <1>3 DEF Askers
<1>7. /\ Askers({"completed", "failed"})' = Askers({"completed", "failed"})
      /\ Askers({"recorded", "completed"})' = Askers({"recorded", "completed"})
  BY <1>6
<1>8. TradesFit' /\ LedgerFits' /\ WithConsumer' = WithConsumer
  BY <1>1, <1>2, <1>7 DEF TradesFit, LedgerFits, MadeTrades, DoneTrades, WithConsumer
<1> QED BY <1>1, <1>2, <1>4, <1>5, <1>8, SameMeter, SameMessages DEF CountInv

(* What billing does with a request. *)
LEMMA BillingSteps ==
  ASSUME CountInv, NEW r \in Counters!Runners,
         \/ Counters!BillingRecords(r)
         \/ \E byRule \in BOOLEAN : Counters!BillingRefuses(r, byRule)
  PROVE  CountInv'
<1>1. CountTypes /\ WorkFits /\ MeterFits /\ MessagesFit /\ TradesFit /\ LedgerFits
  BY DEF CountInv
<1>2. /\ settlements["recorded"] \in Nat /\ settlements["replayed"] \in Nat
      /\ market["settled"] \in Nat /\ settlements \in [OfSettlements -> Nat]
  BY <1>1 DEF CountTypes, OfSettlements, OfMarket
<1> DEFINE said == settlements.recorded + settlements.replayed
<1>3. PICK next \in {"recorded", "refused"} :
        /\ asking[r].at = "sent" /\ asking' = [asking EXCEPT ![r].at = next]
        /\ entries' \in SUBSET CountedTrades
        /\ settlements' \in [OfSettlements -> Nat]
        /\ settlements'.recorded + settlements'.replayed >= said + In(next, {"recorded", "completed"})
        /\ UNCHANGED <<row, toCount, queued, hand, offers, run, tradeRow, meter, messages, market,
                       restarts, again, unseen, rolledBack, unheard>>
  <2>1. CASE Counters!BillingRecords(r)
    <3> DEFINE t == asking[r].trade
               name == IF t \in entries THEN "replayed" ELSE "recorded"
    <3>1. /\ asking[r].at = "sent" /\ entries' = entries \cup {t}
          /\ settlements' = [settlements EXCEPT ![name] = @ + 1]
          /\ asking' = [asking EXCEPT ![r].at = "recorded"]
          /\ UNCHANGED <<row, toCount, queued, hand, offers, run, tradeRow, meter, messages, market,
                         restarts, again, unseen, rolledBack, unheard>>
      BY <2>1 DEF Counters!BillingRecords, Counters!eventVars, Counters!history, Counters!Count
    <3>2. t \in CountedTrades
      BY <1>1, <3>1 DEF WorkFits
    <3>3. name = "replayed" \/ name = "recorded"
      OBVIOUS
    <3> HIDE DEF name
    <3>4. /\ settlements' \in [OfSettlements -> Nat]
          /\ settlements'.recorded + settlements'.replayed = said + 1
      BY <1>2, <3>1, <3>3 DEF OfSettlements
    <3>5. entries' \in SUBSET CountedTrades
      BY <1>1, <3>1, <3>2 DEF CountTypes
    <3>6. In("recorded", {"recorded", "completed"}) = 1 /\ said + 1 \in Nat
      BY <1>2 DEF In
    <3> HIDE DEF said, t
    <3>7. settlements'.recorded + settlements'.replayed >= said + In("recorded", {"recorded", "completed"})
      BY <3>4, <3>6
    <3> QED BY <3>1, <3>4, <3>5, <3>7
  <2>2. ASSUME NEW byRule \in BOOLEAN, Counters!BillingRefuses(r, byRule)
        PROVE  /\ asking[r].at = "sent" /\ asking' = [asking EXCEPT ![r].at = "refused"]
               /\ entries' \in SUBSET CountedTrades
               /\ settlements' \in [OfSettlements -> Nat]
               /\ settlements'.recorded + settlements'.replayed
                    >= said + In("refused", {"recorded", "completed"})
               /\ UNCHANGED <<row, toCount, queued, hand, offers, run, tradeRow, meter, messages, market,
                              restarts, again, unseen, rolledBack, unheard>>
    <3>1. /\ asking[r].at = "sent" /\ entries' = entries
          /\ settlements' = settlements \/ settlements' = [settlements EXCEPT !["rejected"] = @ + 1]
          /\ asking' = [asking EXCEPT ![r].at = "refused"]
          /\ UNCHANGED <<row, toCount, queued, hand, offers, run, tradeRow, meter, messages, market,
                         restarts, again, unseen, rolledBack, unheard>>
      BY <2>2 DEF Counters!BillingRefuses, Counters!eventVars, Counters!history, Counters!Count
    <3>2. /\ settlements' \in [OfSettlements -> Nat]
          /\ settlements'.recorded + settlements'.replayed = said
      BY <1>2, <3>1 DEF OfSettlements
    <3>3. In("refused", {"recorded", "completed"}) = 0 /\ said \in Nat
      BY <1>2 DEF In
    <3> HIDE DEF said
    <3>4. settlements'.recorded + settlements'.replayed >= said + In("refused", {"recorded", "completed"})
      BY <3>2, <3>3
    <3> QED BY <1>1, <3>1, <3>2, <3>4 DEF CountTypes
  <2> HIDE DEF said
  <2> QED BY <2>1, <2>2
<1>4. /\ asking' \in [Counters!Runners -> [trade : CountedTrades \cup {None}, at : AskerStages]]
      /\ asking'[r].at = next /\ asking'[r].trade = asking[r].trade
      /\ \A q \in Counters!Runners : q # r => asking'[q] = asking[q]
  <2>1. next \in AskerStages
    BY DEF AskerStages
  <2> QED BY <1>1, <1>3, <2>1 DEF CountTypes
<1>5. CountTypes'
  BY <1>1, <1>3, <1>4 DEF CountTypes
<1>6. WorkFits'
  <2>1. asking[r].trade \in CountedTrades /\ tradeRow[asking[r].trade] # "none" /\ run[r]
    BY <1>1, <1>3 DEF WorkFits
  <2> QED BY <1>1, <1>3, <1>4, <2>1, WorkOfAsker
<1>7. TradesFit'
  <2>1. Askers({"completed", "failed"})' = Askers({"completed", "failed"})
    BY <1>3, <1>4 DEF Askers
  <2> QED BY <1>1, <1>3, <2>1 DEF TradesFit, MadeTrades, DoneTrades
<1>8. LedgerFits'
  <2> DEFINE S == {"recorded", "completed"}
  <2>1. /\ Cardinality(Askers(S)) \in Nat /\ Cardinality(Askers(S)') \in Nat
        /\ Cardinality(Askers(S)')
             = Cardinality(Askers(S)) + In(asking'[r].at, S) - In(asking[r].at, S)
    BY <1>4, AskersMove
  <2>2. In(asking[r].at, S) = 0 /\ In(asking'[r].at, S) = In(next, S) /\ In(next, S) \in Nat
    BY <1>3, <1>4 DEF In
  <2>3. settlements'["recorded"] \in Nat /\ settlements'["replayed"] \in Nat
    BY <1>3 DEF OfSettlements
  <2> QED BY <1>1, <1>2, <1>3, <2>1, <2>2, <2>3 DEF LedgerFits
<1>9. WithConsumer' = WithConsumer
  BY <1>3 DEF WithConsumer
<1> QED BY <1>1, <1>3, <1>5, <1>6, <1>7, <1>8, <1>9, SameMeter, SameMessages DEF CountInv

(* The answer is written down. *)
LEMMA WrittenStep ==
  ASSUME CountInv, NEW r \in Counters!Runners, Counters!Settle(r) \/ Counters!Release(r)
  PROVE  CountInv'
<1>1. PICK verdict \in {"completed", "failed"} :
        /\ verdict = "completed" => asking[r].at = "recorded"
        /\ verdict = "failed" => asking[r].at = "refused"
        /\ Counters!Written(r, verdict)
  BY DEF Counters!Settle, Counters!Release
<1> DEFINE t == asking[r].trade
<1>2. /\ tradeRow' = [tradeRow EXCEPT ![t] = verdict]
      /\ asking' = [asking EXCEPT ![r].at = verdict]
      /\ UNCHANGED <<row, toCount, queued, hand, offers, run, entries, meter, messages, market,
                     settlements, restarts, again, unseen, rolledBack, unheard>>
  BY <1>1 DEF Counters!Written, Counters!eventVars, Counters!counters, Counters!history
<1>3. CountTypes /\ WorkFits /\ MeterFits /\ MessagesFit /\ TradesFit /\ LedgerFits
  BY DEF CountInv
<1>4. asking[r].at \in {"recorded", "refused"} /\ t \in CountedTrades /\ tradeRow[t] # "none" /\ run[r]
  BY <1>1, <1>3 DEF WorkFits
<1>5. /\ asking' \in [Counters!Runners -> [trade : CountedTrades \cup {None}, at : AskerStages]]
      /\ asking'[r].at = verdict /\ asking'[r].trade = t
      /\ \A q \in Counters!Runners : q # r => asking'[q] = asking[q]
  <2>1. verdict \in AskerStages
    BY DEF AskerStages
  <2> QED BY <1>2, <1>3, <2>1 DEF CountTypes
<1>6. /\ tradeRow' \in [CountedTrades -> {"none", "pending", "completed", "failed"}]
      /\ tradeRow'[t] = verdict /\ \A u \in CountedTrades : u # t => tradeRow'[u] = tradeRow[u]
  BY <1>2, <1>3, <1>4 DEF CountTypes
<1> HIDE DEF t
<1>7. CountTypes'
  BY <1>2, <1>3, <1>5, <1>6 DEF CountTypes
<1>8. WorkFits'
  <2>1. \A u \in CountedTrades : tradeRow[u] # "none" => tradeRow'[u] # "none"
    BY <1>6
  <2> QED BY <1>2, <1>3, <1>4, <1>5, <1>6, <2>1, WorkOfAsker
<1>9. TradesFit'
  <2>1. MadeTrades' = MadeTrades
    BY <1>4, <1>6 DEF MadeTrades
  <2>2. Cardinality(DoneTrades') <= Cardinality(DoneTrades) + 1
        /\ Cardinality(DoneTrades') \in Nat /\ Cardinality(DoneTrades) \in Nat
    <3>1. IsFiniteSet(DoneTrades)
      <4>1. DoneTrades \in SUBSET CountedTrades
        BY DEF DoneTrades
      <4> QED BY <4>1, CountSetsFinite
    <3>2. DoneTrades \ {t} = DoneTrades' \ {t}
      BY <1>6 DEF DoneTrades
    <3>3. /\ Cardinality(DoneTrades) \in Nat /\ Cardinality(DoneTrades') \in Nat
          /\ Cardinality(DoneTrades') = Cardinality(DoneTrades) + In(t, DoneTrades') - In(t, DoneTrades)
      BY <3>1, <3>2, OneMoves
    <3>4. In(t, DoneTrades') \in {0, 1} /\ In(t, DoneTrades) \in {0, 1}
      BY DEF In
    <3> QED BY <3>3, <3>4
  <2> DEFINE S == {"completed", "failed"}
  <2>3. /\ Cardinality(Askers(S)) \in Nat /\ Cardinality(Askers(S)') \in Nat
        /\ Cardinality(Askers(S)')
             = Cardinality(Askers(S)) + In(asking'[r].at, S) - In(asking[r].at, S)
    BY <1>5, AskersMove
  <2>4. In(asking[r].at, S) = 0 /\ In(asking'[r].at, S) = 1
    BY <1>4, <1>5 DEF In
  <2>5. market["settled"] \in Nat /\ market["rejected"] \in Nat /\ unheard \in Nat
    BY <1>3 DEF CountTypes, OfMarket
  <2> HIDE DEF S
  <2>6. Cardinality(Askers(S)') = Cardinality(Askers(S)) + 1
    BY <2>3, <2>4
  <2> QED BY <1>2, <1>3, <2>1, <2>2, <2>3, <2>5, <2>6 DEF TradesFit, S
<1>10. LedgerFits'
  <2> DEFINE S == {"recorded", "completed"}
  <2>1. /\ Cardinality(Askers(S)) \in Nat /\ Cardinality(Askers(S)') \in Nat
        /\ Cardinality(Askers(S)')
             = Cardinality(Askers(S)) + In(asking'[r].at, S) - In(asking[r].at, S)
    BY <1>5, AskersMove
  <2>2. In(asking[r].at, S) = In(asking'[r].at, S) /\ In(asking[r].at, S) \in Nat
    <3>1. CASE verdict = "completed"
      BY <1>1, <1>5, <3>1 DEF In
    <3>2. CASE verdict = "failed"
      BY <1>1, <1>5, <3>2 DEF In
    <3> QED BY <3>1, <3>2
  <2> HIDE DEF S
  <2>3. Cardinality(Askers(S)') = Cardinality(Askers(S))
    BY <2>1, <2>2
  <2> QED BY <1>2, <1>3, <2>3 DEF LedgerFits, S
<1>11. WithConsumer' = WithConsumer
  BY <1>2 DEF WithConsumer
<1> QED BY <1>2, <1>3, <1>7, <1>8, <1>9, <1>10, <1>11, SameMeter, SameMessages DEF CountInv

(* A runner turns from a trade: counted, or never heard of again.          *)
LEMMA AskerLeaves ==
  ASSUME CountTypes, TradesFit, LedgerFits, NEW r \in Counters!Runners,
         asking' = [asking EXCEPT ![r] = Counters!NoRequest],
         UNCHANGED <<tradeRow, settlements, restarts, rolledBack>>,
         market' \in [OfMarket -> Nat], market'["reserved"] = market["reserved"], unheard' \in Nat,
         market'["settled"] + market'["rejected"] + unheard'
           >= market["settled"] + market["rejected"] + unheard + In(asking[r].at, {"completed", "failed"}),
         market'["settled"] <= market["settled"] + In(asking[r].at, {"recorded", "completed"})
  PROVE  /\ TradesFit' /\ LedgerFits'
         /\ asking' \in [Counters!Runners -> [trade : CountedTrades \cup {None}, at : AskerStages]]
         /\ asking'[r] = Counters!NoRequest
         /\ \A q \in Counters!Runners : q # r => asking'[q] = asking[q]
<1>1. /\ asking' \in [Counters!Runners -> [trade : CountedTrades \cup {None}, at : AskerStages]]
      /\ asking'[r] = Counters!NoRequest /\ asking'[r].at = "none"
      /\ \A q \in Counters!Runners : q # r => asking'[q] = asking[q]
  <2>1. Counters!NoRequest \in [trade : CountedTrades \cup {None}, at : AskerStages]
    BY DEF Counters!NoRequest, AskerStages
  <2>2. asking \in [Counters!Runners -> [trade : CountedTrades \cup {None}, at : AskerStages]]
    BY DEF CountTypes
  <2>3. Counters!NoRequest.at = "none"
    BY DEF Counters!NoRequest
  <2> QED BY <2>1, <2>2, <2>3
<1>2. /\ market["settled"] \in Nat /\ market["rejected"] \in Nat /\ unheard \in Nat
      /\ market'["settled"] \in Nat /\ market'["rejected"] \in Nat
      /\ settlements["recorded"] \in Nat /\ settlements["replayed"] \in Nat
  BY DEF CountTypes, OfMarket, OfSettlements
<1>3. \A S : In("none", S) = 0 \/ "none" \in S
  BY DEF In
<1>4. TradesFit'
  <2> DEFINE S == {"completed", "failed"}
  <2>1. /\ Cardinality(Askers(S)) \in Nat /\ Cardinality(Askers(S)') \in Nat
        /\ Cardinality(Askers(S)')
             = Cardinality(Askers(S)) + In(asking'[r].at, S) - In(asking[r].at, S)
    BY <1>1, AskersMove
  <2>2. In(asking'[r].at, S) = 0 /\ In(asking[r].at, S) \in Nat
    BY <1>1 DEF In
  <2>3. MadeTrades' = MadeTrades /\ DoneTrades' = DoneTrades /\ Cardinality(DoneTrades) \in Nat
    BY TradeSetsFinite DEF MadeTrades, DoneTrades
  <2>4. Cardinality(Askers(S)') = Cardinality(Askers(S)) - In(asking[r].at, S)
    BY <2>1, <2>2
  <2>5. market'["settled"] + market'["rejected"] + unheard'
          >= market["settled"] + market["rejected"] + unheard + In(asking[r].at, S)
    OBVIOUS
  <2> HIDE DEF S
  <2>6. Cardinality(DoneTrades) <= market["settled"] + market["rejected"] + Cardinality(Askers(S)) + unheard
        => Cardinality(DoneTrades')
             <= market'["settled"] + market'["rejected"] + Cardinality(Askers(S)') + unheard'
    BY <1>2, <2>1, <2>2, <2>3, <2>4, <2>5
  <2> QED BY <2>3, <2>6 DEF TradesFit, S
<1>5. LedgerFits'
  <2> DEFINE S == {"recorded", "completed"}
  <2>1. /\ Cardinality(Askers(S)) \in Nat /\ Cardinality(Askers(S)') \in Nat
        /\ Cardinality(Askers(S)')
             = Cardinality(Askers(S)) + In(asking'[r].at, S) - In(asking[r].at, S)
    BY <1>1, AskersMove
  <2>2. In(asking'[r].at, S) = 0 /\ In(asking[r].at, S) \in Nat
    BY <1>1 DEF In
  <2>3. Cardinality(Askers(S)') = Cardinality(Askers(S)) - In(asking[r].at, S)
    BY <2>1, <2>2
  <2>4. market'["settled"] <= market["settled"] + In(asking[r].at, S)
    OBVIOUS
  <2> HIDE DEF S
  <2>5. market'["settled"] + Cardinality(Askers(S)') <= market["settled"] + Cardinality(Askers(S))
    BY <1>2, <2>1, <2>2, <2>3, <2>4
  <2>6. settlements'["recorded"] + settlements'["replayed"] = settlements["recorded"] + settlements["replayed"]
    OBVIOUS
  <2>7. market["settled"] + Cardinality(Askers(S)) <= settlements["recorded"] + settlements["replayed"]
        => market'["settled"] + Cardinality(Askers(S)') <= settlements'["recorded"] + settlements'["replayed"]
    BY <1>2, <2>1, <2>5, <2>6
  <2> QED BY <2>7 DEF LedgerFits, S
<1> QED BY <1>1, <1>4, <1>5

LEMMA AnsweredSteps ==
  ASSUME CountInv, NEW r \in Counters!Runners, Counters!CountAnswer(r) \/ Counters!NoAnswer(r)
  PROVE  CountInv'
<1>1. CountTypes /\ WorkFits /\ MeterFits /\ MessagesFit /\ TradesFit /\ LedgerFits
  BY DEF CountInv
<1>2. market \in [OfMarket -> Nat] /\ unheard \in Nat
  BY <1>1 DEF CountTypes
<1> DEFINE was == asking[r].at
<1>3. /\ was # "none" /\ asking' = [asking EXCEPT ![r] = Counters!NoRequest]
      /\ \E outcome \in {"settled", "rejected", "unknown"} :
           /\ market' = [market EXCEPT ![outcome] = @ + 1]
           /\ unheard' = IF outcome = "unknown" /\ was = "completed" THEN unheard + 1 ELSE unheard
           /\ was \in {"completed", "failed"} => outcome # "unknown" \/ was = "completed"
           /\ outcome = "settled" => was = "completed"
      /\ UNCHANGED <<row, toCount, queued, hand, offers, run, tradeRow, entries, meter, messages,
                     settlements, restarts, again, unseen, rolledBack>>
  <2>1. CASE Counters!CountAnswer(r)
    <3> DEFINE outcome == IF was = "completed" THEN "settled" ELSE "rejected"
    <3>1. /\ was \in {"completed", "failed"}
          /\ market' = [market EXCEPT ![outcome] = @ + 1] /\ unheard' = unheard
          /\ asking' = [asking EXCEPT ![r] = Counters!NoRequest]
          /\ UNCHANGED <<row, toCount, queued, hand, offers, run, tradeRow, entries, meter, messages,
                         settlements, restarts, again, unseen, rolledBack>>
      BY <2>1 DEF Counters!CountAnswer, Counters!Answered, Counters!eventVars, Counters!Count
    <3>2. /\ outcome \in {"settled", "rejected", "unknown"} /\ outcome # "unknown"
          /\ outcome = "settled" => was = "completed"
      OBVIOUS
    <3> HIDE DEF outcome, was
    <3>3. /\ market' = [market EXCEPT ![outcome] = @ + 1]
          /\ unheard' = IF outcome = "unknown" /\ was = "completed" THEN unheard + 1 ELSE unheard
          /\ was \in {"completed", "failed"} => outcome # "unknown" \/ was = "completed"
          /\ outcome = "settled" => was = "completed"
      BY <3>1, <3>2
    <3> QED BY <3>1, <3>2, <3>3 DEF was
  <2>2. CASE Counters!NoAnswer(r)
    <3>1. /\ was \in {"sent", "recorded", "refused", "completed", "gone"}
          /\ market' = [market EXCEPT !["unknown"] = @ + 1]
          /\ unheard' = IF was = "completed" THEN unheard + 1 ELSE unheard
          /\ asking' = [asking EXCEPT ![r] = Counters!NoRequest]
          /\ UNCHANGED <<row, toCount, queued, hand, offers, run, tradeRow, entries, meter, messages,
                         settlements, restarts, again, unseen, rolledBack>>
      BY <2>2 DEF Counters!NoAnswer, Counters!Answered, Counters!eventVars, Counters!Count
    <3> QED BY <3>1
  <2> QED BY <2>1, <2>2
<1>4. PICK outcome \in {"settled", "rejected", "unknown"} :
        /\ market' = [market EXCEPT ![outcome] = @ + 1]
        /\ unheard' = IF outcome = "unknown" /\ was = "completed" THEN unheard + 1 ELSE unheard
        /\ was \in {"completed", "failed"} => outcome # "unknown" \/ was = "completed"
        /\ outcome = "settled" => was = "completed"
  BY <1>3
<1> HIDE DEF was
<1>5. /\ market' \in [OfMarket -> Nat] /\ market'["reserved"] = market["reserved"] /\ unheard' \in Nat
      /\ market["settled"] \in Nat /\ market["rejected"] \in Nat
      /\ market'["settled"] = market["settled"] + (IF outcome = "settled" THEN 1 ELSE 0)
      /\ market'["rejected"] = market["rejected"] + (IF outcome = "rejected" THEN 1 ELSE 0)
  BY <1>2, <1>4 DEF OfMarket
<1>6. /\ market'["settled"] + market'["rejected"] + unheard'
           >= market["settled"] + market["rejected"] + unheard + In(was, {"completed", "failed"})
      /\ market'["settled"] <= market["settled"] + In(was, {"recorded", "completed"})
  <2>1. /\ In(was, {"completed", "failed"}) = (IF was \in {"completed", "failed"} THEN 1 ELSE 0)
        /\ In(was, {"recorded", "completed"}) = (IF was \in {"recorded", "completed"} THEN 1 ELSE 0)
    BY DEF In
  <2>2. CASE outcome = "settled"
    BY <1>2, <1>4, <1>5, <2>1, <2>2
  <2>3. CASE outcome = "rejected"
    BY <1>2, <1>4, <1>5, <2>1, <2>3
  <2>4. CASE outcome = "unknown"
    BY <1>2, <1>4, <1>5, <2>1, <2>4
  <2> QED BY <2>2, <2>3, <2>4
<1>7. /\ TradesFit' /\ LedgerFits'
      /\ asking' \in [Counters!Runners -> [trade : CountedTrades \cup {None}, at : AskerStages]]
      /\ asking'[r] = Counters!NoRequest
      /\ \A q \in Counters!Runners : q # r => asking'[q] = asking[q]
  BY <1>1, <1>3, <1>5, <1>6, AskerLeaves DEF was
<1>8. CountTypes'
  BY <1>1, <1>3, <1>5, <1>7 DEF CountTypes
<1>9. WorkFits'
  <2>1. /\ \A q \in Counters!Runners : q # r => asking'[q] = asking[q] /\ run'[q] = run[q]
        /\ hand'.stage = "none" <=> hand' = Counters!NoMessage
        /\ hand'.stage # "none" => hand'.event \in CountedEvents
        /\ run'["consumer"] <=> hand'.stage = "matching"
    BY <1>1, <1>3, <1>7 DEF WorkFits
  <2> QED BY <1>1, <1>3, <1>7, <2>1, WorkAfterRun
<1>10. WithConsumer' = WithConsumer
  BY <1>3 DEF WithConsumer
<1> QED BY <1>1, <1>3, <1>7, <1>8, <1>9, <1>10, SameMeter, SameMessages DEF CountInv

LEMMA ReleaseFailsStep ==
  ASSUME CountInv, NEW r \in Counters!Runners, Counters!ReleaseFails(r)
  PROVE  CountInv'
<1>1. CountTypes /\ WorkFits /\ MeterFits /\ MessagesFit /\ TradesFit /\ LedgerFits
  BY DEF CountInv
<1>2. /\ asking[r].at \in {"refused", "failed"}
      /\ unheard' = IF asking[r].at = "failed" THEN unheard + 1 ELSE unheard
      /\ asking' = [asking EXCEPT ![r] = Counters!NoRequest]
      /\ Counters!EndRun(r, market, "failed")
      /\ UNCHANGED <<row, toCount, queued, offers, tradeRow, entries, meter, messages,
                     settlements, restarts, again, unseen, rolledBack>>
  BY DEF Counters!ReleaseFails
<1>3. market \in [OfMarket -> Nat] /\ unheard \in Nat /\ run[r]
  BY <1>1, <1>2 DEF CountTypes, WorkFits
<1>4. /\ run' \in [Counters!Runners -> BOOLEAN] /\ ~ run'[r]
      /\ \A q \in Counters!Runners : q # r => run'[q] = run[q]
      /\ market' \in [OfMarket -> Nat]
      /\ \A n \in {"reserved", "settled", "rejected", "unknown"} : market'[n] = market[n]
      /\ hand' \in [event : CountedEvents \cup {None}, retries : 0 .. MaxRetries,
                    stage : HandStages, created : BOOLEAN]
      /\ WithConsumer' = WithConsumer
      /\ hand'.stage = "none" <=> hand' = Counters!NoMessage
      /\ hand'.stage # "none" => hand'.event \in CountedEvents
      /\ run'["consumer"] <=> hand'.stage = "matching"
  BY <1>1, <1>2, <1>3, RunIsOver
<1>5. /\ market'["reserved"] = market["reserved"] /\ unheard' \in Nat
      /\ market'["settled"] = market["settled"] /\ market'["rejected"] = market["rejected"]
      /\ market["settled"] \in Nat /\ market["rejected"] \in Nat
  BY <1>2, <1>3, <1>4 DEF OfMarket
<1>6. /\ market'["settled"] + market'["rejected"] + unheard'
           >= market["settled"] + market["rejected"] + unheard + In(asking[r].at, {"completed", "failed"})
      /\ market'["settled"] <= market["settled"] + In(asking[r].at, {"recorded", "completed"})
  BY <1>2, <1>3, <1>5 DEF In
<1>7. /\ TradesFit' /\ LedgerFits'
      /\ asking' \in [Counters!Runners -> [trade : CountedTrades \cup {None}, at : AskerStages]]
      /\ asking'[r] = Counters!NoRequest
      /\ \A q \in Counters!Runners : q # r => asking'[q] = asking[q]
  BY <1>1, <1>2, <1>4, <1>5, <1>6, AskerLeaves
<1>8. CountTypes'
  BY <1>1, <1>2, <1>4, <1>5, <1>7 DEF CountTypes
<1>9. WorkFits'
  BY <1>1, <1>2, <1>4, <1>7, WorkAfterRun
<1> QED BY <1>1, <1>2, <1>4, <1>7, <1>8, <1>9, SameMeter, SameMessages DEF CountInv

(* Restarts: a service counts from zero, and what it was at is gone.       *)
LEMMA TradingRestartStep ==
  ASSUME CountInv, Counters!TradingRestarts
  PROVE  CountInv'
<1>1. CountTypes /\ WorkFits /\ MeterFits /\ MessagesFit /\ TradesFit /\ LedgerFits
  BY DEF CountInv
<1>2. /\ restarts' = [restarts EXCEPT !["trading"] = @ + 1]
      /\ hand' = Counters!NoMessage
      /\ queued' = IF hand = Counters!NoMessage THEN queued ELSE Counters!Back(1)
      /\ run' = [r \in Counters!Runners |-> FALSE]
      /\ asking' = [r \in Counters!Runners |-> Counters!NoRequest]
      /\ messages' = Counters!NoMessages /\ market' = Counters!NoMarket
      /\ UNCHANGED <<row, toCount, offers, tradeRow, entries, meter, settlements, again, unseen,
                     rolledBack, unheard>>
  BY DEF Counters!TradingRestarts, Counters!MayRestart, Counters!history
<1>3. /\ restarts' \in [{"trading", "billing"} -> Nat] /\ restarts'["trading"] # 0
      /\ restarts'["billing"] = restarts["billing"]
  BY <1>1, <1>2 DEF CountTypes
<1>4. queued' \in [Counters!Copies -> Nat]
  <2>1. CASE hand = Counters!NoMessage
    BY <1>1, <1>2, <2>1 DEF CountTypes
  <2>2. CASE hand # Counters!NoMessage
    <3>1. hand.event \in CountedEvents
      BY <1>1, <2>2 DEF WorkFits
    <3>2. queued' = IF TRUE THEN Counters!Back(1) ELSE queued
      BY <1>2, <2>2
    <3> QED BY <1>1, <3>1, <3>2, BackInQueue
  <2> QED BY <2>1, <2>2
<1>5. /\ messages' \in [OfMessages -> Nat] /\ market' \in [OfMarket -> Nat] /\ market'["settled"] = 0
      /\ asking' \in [Counters!Runners -> [trade : CountedTrades \cup {None}, at : AskerStages]]
      /\ hand' \in [event : CountedEvents \cup {None}, retries : 0 .. MaxRetries,
                    stage : HandStages, created : BOOLEAN]
  <2>1. messages' \in [OfMessages -> Nat]
    BY <1>2 DEF Counters!NoMessages, OfMessages
  <2>2. market' \in [OfMarket -> Nat] /\ market'["settled"] = 0
    BY <1>2 DEF Counters!NoMarket, OfMarket
  <2>3. asking' \in [Counters!Runners -> [trade : CountedTrades \cup {None}, at : AskerStages]]
    BY <1>2 DEF Counters!NoRequest, AskerStages
  <2>4. hand' \in [event : CountedEvents \cup {None}, retries : 0 .. MaxRetries,
                   stage : HandStages, created : BOOLEAN]
    BY <1>2, CountersFinite DEF Counters!NoMessage, HandStages
  <2> QED BY <2>1, <2>2, <2>3, <2>4
<1>6. CountTypes'
  BY <1>1, <1>2, <1>3, <1>4, <1>5 DEF CountTypes
<1>7. WorkFits'
  <2>1. Counters!NoMessage.stage = "none" /\ Counters!NoRequest.at = "none"
    BY DEF Counters!NoMessage, Counters!NoRequest
  <2> QED BY <1>2, <2>1, RunnersAre DEF WorkFits
<1>8. MessagesFit' /\ TradesFit'
  BY <1>3 DEF MessagesFit, TradesFit
<1>9. LedgerFits'
  <2>1. Askers({"recorded", "completed"})' = {}
    BY <1>2 DEF Askers, Counters!NoRequest
  <2>2. settlements'["recorded"] \in Nat /\ settlements'["replayed"] \in Nat
    BY <1>1, <1>2 DEF CountTypes, OfSettlements
  <2>3. Cardinality(Askers({"recorded", "completed"})') = 0
    BY <2>1, FS_EmptySet
  <2> QED BY <1>5, <2>2, <2>3 DEF LedgerFits
<1> QED BY <1>1, <1>2, <1>6, <1>7, <1>8, <1>9, SameMeter DEF CountInv

LEMMA BillingRestartStep ==
  ASSUME CountInv, Counters!BillingRestarts
  PROVE  CountInv'
<1>1. CountTypes /\ WorkFits /\ MeterFits /\ MessagesFit /\ TradesFit /\ LedgerFits
  BY DEF CountInv
<1>2. /\ restarts' = [restarts EXCEPT !["billing"] = @ + 1]
      /\ settlements' = Counters!NoSettlements
      /\ asking' = [r \in Counters!Runners |->
                      IF asking[r].at \notin {"sent", "recorded", "refused"} THEN asking[r]
                      ELSE [asking[r] EXCEPT !.at = "gone"]]
      /\ UNCHANGED <<row, toCount, queued, hand, offers, run, tradeRow, entries, meter, messages, market,
                     again, unseen, rolledBack, unheard>>
  BY DEF Counters!BillingRestarts, Counters!MayRestart, Counters!history, Counters!eventVars
<1>3. /\ restarts' \in [{"trading", "billing"} -> Nat] /\ restarts'["billing"] # 0
      /\ restarts'["trading"] = restarts["trading"]
  BY <1>1, <1>2 DEF CountTypes
<1>4. ASSUME NEW r \in Counters!Runners
      PROVE  /\ asking'[r] \in [trade : CountedTrades \cup {None}, at : AskerStages]
             /\ asking'[r].trade = asking[r].trade
             /\ asking'[r] = asking[r] \/ (asking[r].at # "none" /\ asking'[r].at = "gone")
             /\ asking'[r].at \in {"completed", "failed"} <=> asking[r].at \in {"completed", "failed"}
  <2>1. asking[r] \in [trade : CountedTrades \cup {None}, at : AskerStages]
    BY <1>1 DEF CountTypes
  <2>2. CASE asking[r].at \notin {"sent", "recorded", "refused"}
    BY <1>2, <2>1, <2>2
  <2>3. CASE asking[r].at \in {"sent", "recorded", "refused"}
    <3>1. asking'[r] = [asking[r] EXCEPT !.at = "gone"]
      BY <1>2, <2>3
    <3> QED BY <2>1, <2>3, <3>1 DEF AskerStages
  <2> QED BY <2>2, <2>3
<1>5. CountTypes'
  <2>1. asking' \in [Counters!Runners -> [trade : CountedTrades \cup {None}, at : AskerStages]]
    BY <1>2, <1>4
  <2>2. settlements' \in [OfSettlements -> Nat]
    BY <1>2 DEF Counters!NoSettlements, OfSettlements
  <2> QED BY <1>1, <1>2, <1>3, <2>1, <2>2 DEF CountTypes
<1>6. WorkFits'
  <2>1. ASSUME NEW r \in Counters!Runners
        PROVE  /\ asking'[r].at = "none" <=> asking'[r] = Counters!NoRequest
               /\ asking'[r].at # "none" => /\ run'[r] /\ asking'[r].trade \in CountedTrades
                                            /\ tradeRow'[asking'[r].trade] # "none"
    <3>1. Counters!NoRequest.at = "none"
      BY DEF Counters!NoRequest
    <3> QED BY <1>1, <1>2, <1>4, <3>1 DEF WorkFits
  <2> QED BY <1>1, <1>2, <2>1 DEF WorkFits
<1>7. Askers({"completed", "failed"})' = Askers({"completed", "failed"})
  BY <1>4 DEF Askers
<1>8. MessagesFit' /\ TradesFit'
  BY <1>1, <1>2, <1>3, <1>7 DEF MessagesFit, TradesFit, EventsDelivered, WithConsumer, MadeTrades,
                                DoneTrades
<1>9. LedgerFits'
  BY <1>3 DEF LedgerFits
<1> QED BY <1>1, <1>2, <1>5, <1>6, <1>8, <1>9, SameMeter DEF CountInv

LEMMA CountStep == CountInv /\ [Counters!Next]_countersVars => CountInv'
<1> SUFFICES ASSUME CountInv, [Counters!Next]_countersVars PROVE CountInv'
  OBVIOUS
<1>1. CASE Counters!Next
  <2>1. CASE \E e \in CountedEvents :
               \/ Counters!ReadingStored(e) \/ Counters!Published(e)
               \/ \E what \in {"created", "published"} : Counters!CountCommitted(e, what)
               \/ \E taken \in BOOLEAN : Counters!PublishFails(e, taken)
    BY <2>1, ReadingStoredStep, PublishedStep, CountCommittedStep, PublishFailsStep
  <2>2. CASE \/ \E c \in Counters!Copies : Counters!Receive(c)
             \/ Counters!Store \/ Counters!StoreFails \/ Counters!PublishOfCopyFails
             \/ \E dropped \in BOOLEAN : Counters!Handled(dropped) \/ Counters!HandlingFailed(dropped)
    BY <2>2, ReceiveStep, StoreSteps, PublishOfCopyFailsStep, HandledStep, HandlingFailedStep
  <2>3. CASE \/ Counters!OperatorRun
             \/ \E r \in Counters!Runners :
                  \/ Counters!RunEnds(r)
                  \/ \E outcome \in {"pricing_unavailable", "failed"} : Counters!RunStops(r, outcome)
                  \/ \E t \in CountedTrades :
                       Counters!Reserve(r, t) \/ Counters!CommitFails(r, t) \/ Counters!Send(r, t)
    BY <2>3, OperatorRunStep, RunOverSteps, ReserveStep, CommitFailsStep, SendStep
  <2>4. CASE \E r \in Counters!Runners :
               \/ Counters!BillingRecords(r)
               \/ \E byRule \in BOOLEAN : Counters!BillingRefuses(r, byRule)
               \/ Counters!Settle(r) \/ Counters!Release(r) \/ Counters!CountAnswer(r)
               \/ Counters!NoAnswer(r) \/ Counters!ReleaseFails(r)
    BY <2>4, BillingSteps, WrittenStep, AnsweredSteps, ReleaseFailsStep
  <2>5. CASE Counters!TradingRestarts \/ Counters!BillingRestarts
    BY <2>5, TradingRestartStep, BillingRestartStep
  <2> QED BY <1>1, <2>1, <2>2, <2>3, <2>4, <2>5 DEF Counters!Next
<1>2. CASE UNCHANGED countersVars
  BY <1>2 DEF countersVars, CountInv, CountTypes, WorkFits, MeterFits, MessagesFit, TradesFit, LedgerFits,
              EventsStored, EventsDelivered, Uncounted, WithConsumer, MadeTrades, DoneTrades, Askers
<1> QED BY <1>1, <1>2

(* The steps of the counters in MCServices. *)
LEMMA CountersInServices ==
  ASSUME MCNext \/ UNCHANGED <<allVars, part>>
  PROVE  [Counters!Next]_countersVars
BY DEF MCNext, OutboxSteps, LifecycleSteps, StartupSteps, PipelineSteps, PricesSteps,
       CountersSteps, allVars

LEMMA BrokerSum ==
  ASSUME CountTypes
  PROVE  Counters!SumFunction(queued) = SumOver(queued, Counters!Copies)
<1>1. DOMAIN queued = Counters!Copies
  BY DEF CountTypes
<1>2. Counters!SumFunction(queued) = SumOver(queued, DOMAIN queued)
  BY DEF Counters!SumFunction, Counters!SumFunctionOnSet, Counters!FoldFunctionOnSet,
         Counters!MapThenFoldSet, SumOver, SumStep, Chosen
<1> QED BY <1>1, <1>2

LEMMA StagesDoAddUp ==
  ASSUME CountInv
  PROVE  Counters!StagesAddUp
<1>1. CountTypes /\ WorkFits /\ MeterFits /\ MessagesFit
  BY DEF CountInv
<1> SUFFICES ASSUME toCount = {}
             PROVE  /\ meter.created = meter.published
                                         + Cardinality({e \in CountedEvents : row[e] = "pending"})
                    /\ restarts["trading"] = 0 =>
                         meter.published + again
                           = messages.processed + messages.duplicate + messages.dead_lettered
                               + unseen + Counters!InBroker
  BY CountersBridge DEF Counters!StagesAddUp, Counters!EventPipeline, Counters!MeterPipeline,
                        Counters!EventProcessing, Counters!TradingCounts
<1>2. Uncounted("created") = {} /\ Uncounted("published") = {}
  BY DEF Uncounted
<1>3. meter.created \in Nat /\ meter.published \in Nat
  BY <1>1 DEF CountTypes, OfMeter
<1>4. meter.created = Cardinality(EventsStored) /\ meter.published = Cardinality(EventsDelivered)
  BY <1>1, <1>2, <1>3, FS_EmptySet DEF MeterFits
<1> DEFINE pending == {e \in CountedEvents : row[e] = "pending"}
<1>5. Cardinality(EventsStored) = Cardinality(EventsDelivered) + Cardinality(pending)
  <2>1. EventsDelivered \in SUBSET CountedEvents /\ pending \in SUBSET CountedEvents
    BY DEF EventsDelivered
  <2>2. EventsStored = EventsDelivered \cup pending /\ EventsDelivered \cap pending = {}
    BY <1>1 DEF CountTypes, EventsStored, EventsDelivered
  <2>3. IsFiniteSet(EventsDelivered) /\ IsFiniteSet(pending)
    BY <2>1, CountSetsFinite
  <2> HIDE DEF pending
  <2>4. Cardinality(EventsDelivered) \in Nat /\ Cardinality(pending) \in Nat
        /\ Cardinality(EventsDelivered \cap pending) = 0
    BY <2>2, <2>3, FS_CardinalityType, FS_EmptySet
  <2>5. Cardinality(EventsDelivered \cup pending)
          = Cardinality(EventsDelivered) + Cardinality(pending) - Cardinality(EventsDelivered \cap pending)
    BY <2>3, FS_Union
  <2> QED BY <2>2, <2>4, <2>5
<1>6. Counters!InBroker = SumOver(queued, Counters!Copies) + WithConsumer
  <2>1. WithConsumer = IF hand = Counters!NoMessage THEN 0 ELSE 1
    BY <1>1 DEF WithConsumer, WorkFits
  <2> QED BY <1>1, <2>1, BrokerSum DEF Counters!InBroker
<1>7. /\ messages.processed \in Nat /\ messages.duplicate \in Nat /\ messages.dead_lettered \in Nat
      /\ unseen \in Nat /\ WithConsumer \in Nat /\ SumOver(queued, Counters!Copies) \in Int
  <2>1. \A c \in Counters!Copies : queued[c] \in Int
    BY <1>1 DEF CountTypes
  <2>2. SumOver(queued, Counters!Copies) \in Int
    BY <2>1, CountersFinite, SumOverType
  <2> QED BY <1>1, <2>2 DEF CountTypes, OfMessages, WithConsumer
<1> HIDE DEF pending
<1>8. meter.created = meter.published + Cardinality(pending)
  BY <1>4, <1>5
<1>9. restarts["trading"] = 0 =>
        meter.published + again
          = messages.processed + messages.duplicate + messages.dead_lettered + unseen + Counters!InBroker
  BY <1>1, <1>4, <1>6, <1>7 DEF MessagesFit
<1> QED BY <1>8, <1>9 DEF pending

LEMMA TradesDoAddUp ==
  ASSUME CountInv
  PROVE  Counters!TradesAreAccountedFor
<1>1. CountTypes /\ TradesFit
  BY DEF CountInv
<1> DEFINE pending == {t \in CountedTrades : tradeRow[t] = "pending"}
           toldOf == {r \in Counters!Runners : asking[r].at \in {"completed", "failed"}}
<1> SUFFICES ASSUME restarts["trading"] = 0
             PROVE  /\ Cardinality(MadeTrades) + rolledBack = market.reserved
                    /\ Cardinality(MadeTrades)
                         <= market.settled + market.rejected + Cardinality(pending)
                              + Cardinality(toldOf) + unheard
  BY CountersBridge DEF Counters!TradesAreAccountedFor, Counters!OperationsPage,
                        Counters!MarketOperations, Counters!TradingCounts, Counters!Made, MadeTrades
<1>2. toldOf = Askers({"completed", "failed"})
  BY DEF Askers
<1>3. Cardinality(MadeTrades) = Cardinality(DoneTrades) + Cardinality(pending)
      /\ Cardinality(pending) \in Nat
  <2>1. DoneTrades \in SUBSET CountedTrades /\ pending \in SUBSET CountedTrades
    BY DEF DoneTrades
  <2>2. MadeTrades = DoneTrades \cup pending /\ DoneTrades \cap pending = {}
    BY <1>1 DEF CountTypes, MadeTrades, DoneTrades
  <2>3. IsFiniteSet(DoneTrades) /\ IsFiniteSet(pending)
    BY <2>1, CountSetsFinite
  <2> HIDE DEF pending
  <2>4. Cardinality(DoneTrades) \in Nat /\ Cardinality(pending) \in Nat
        /\ Cardinality(DoneTrades \cap pending) = 0
    BY <2>2, <2>3, FS_CardinalityType, FS_EmptySet
  <2>5. Cardinality(DoneTrades \cup pending)
          = Cardinality(DoneTrades) + Cardinality(pending) - Cardinality(DoneTrades \cap pending)
    BY <2>3, FS_Union
  <2> QED BY <2>2, <2>4, <2>5
<1>4. /\ market.settled \in Nat /\ market.rejected \in Nat /\ unheard \in Nat
      /\ Cardinality(Askers({"completed", "failed"})) \in Nat /\ Cardinality(DoneTrades) \in Nat
  <2>1. Askers({"completed", "failed"}) \in SUBSET Counters!Runners
    BY DEF Askers
  <2> QED BY <1>1, <2>1, CountSetsFinite, TradeSetsFinite DEF CountTypes, OfMarket
<1> HIDE DEF pending, toldOf
<1> QED BY <1>1, <1>2, <1>3, <1>4 DEF TradesFit

LEMMA LedgerDoesExplain ==
  ASSUME CountInv
  PROVE  Counters!LedgerExplainsSettled
<1>1. CountTypes /\ LedgerFits
  BY DEF CountInv
<1>2. Askers({"recorded", "completed"}) \in SUBSET Counters!Runners
  BY DEF Askers
<1>3. /\ Cardinality(Askers({"recorded", "completed"})) \in Nat /\ market.settled \in Nat
      /\ settlements.recorded \in Nat /\ settlements.replayed \in Nat
  BY <1>1, <1>2, CountSetsFinite DEF CountTypes, OfMarket, OfSettlements
<1>4. restarts["billing"] = 0 => market.settled <= settlements.recorded + settlements.replayed
  BY <1>1, <1>3 DEF LedgerFits
<1> QED BY <1>4 DEF Counters!LedgerExplainsSettled, Counters!OperationsPage,
                    Counters!MarketOperations, Counters!LedgerOperations

LEMMA CountInvSays == CountInv => FiguresAddUp
<1> SUFFICES ASSUME CountInv PROVE FiguresAddUp
  OBVIOUS
<1>1. Counters!TypeOK
  <2>1. ASSUME NEW r \in Counters!Runners, asking[r] # Counters!NoRequest PROVE run[r]
    BY <2>1 DEF CountInv, WorkFits
  <2> QED BY <2>1 DEF CountInv, CountTypes, WorkFits, HandStages, Counters!TypeOK
<1> QED BY <1>1, StagesDoAddUp, TradesDoAddUp, LedgerDoesExplain DEF FiguresAddUp

(* The figures of the operations page account for every event and every    *)
(* trade, whatever is retried, repeated, lost or restarted, for any        *)
(* number of events, trades, retries, faults and restarts, and whatever    *)
(* goes wrong at the same time.  (the services' metrics, SystemViews)      *)
THEOREM AnyFiguresAddUp == Counters!Spec => []FiguresAddUp
<1>1. CountInv /\ [Counters!Next]_(Counters!vars) => CountInv'
  BY CountStep DEF Counters!vars, Counters!eventVars, Counters!runVars, Counters!counters,
                   Counters!history, countersVars
<1> QED BY <1>1, CountInit, CountInvSays, PTL DEF Counters!Spec

(* The same of the figures among the services' other parts.                *)
(* (the services' metrics, SystemViews)                                    *)
THEOREM FiguresAlwaysAddUp == MCSpec => []FiguresAddUp
<1>1. MCInit => CountInv
  BY CountInit DEF MCInit
<1>2. CountInv /\ [MCNext]_<<allVars, part>> => CountInv'
  BY CountersInServices, CountStep
<1> QED BY <1>1, <1>2, CountInvSays, PTL DEF MCSpec
=============================================================================
