--------------------------- MODULE DashboardSession ---------------------------
(***************************************************************************)
(* One tab of the dashboard: the operator's session, the control center    *)
(* with the period and the refresh counter its data is loaded for, and the *)
(* requests of every useResource hook, which are cancelled and started     *)
(* again when their key changes and may answer whenever they like.         *)
(***************************************************************************)
EXTENDS Integers, FiniteSets

CONSTANTS
    Resources,   \* the hooks of the control center
    Periodic,    \* those whose key names the period
    Public,      \* those that send no token
    Gathers,     \* those that keep a failing part's error beside the other parts
    Parts,       \* requests that one load sends
    Windows, FirstWindow,
    Tokens,
    Services,    \* services a new token may be checked with
    None,
    MaxStarts,   \* bound: times requests are started
    MaxRotations,\* bound: times the operator token changes on the services
    MaxRefreshes \* bound: refreshes

DashboardAssumption ==
    /\ Periodic \cup Public \cup Gathers \subseteq Resources
    /\ Parts \in Nat \ {0} /\ Services \in Nat \ {0} /\ FirstWindow \in Windows
    /\ {MaxStarts, MaxRotations, MaxRefreshes} \subseteq Nat
    /\ None \notin Windows \cup Tokens

VARIABLES
    valid,       \* the operator token of the services
    token,       \* the token store, and the tab's session storage
    login,       \* the check of a new token
    app,         \* what is on screen: "signin" or "open"
    want,        \* the control center's state: period and refresh counter
    running,     \* the same, as the last commit rendered it
    settled,     \* the settled state of each hook
    requests,    \* the loads in progress, cancelled ones included
    auto, hidden,\* auto refresh is on; the tab is hidden
    refreshedBy, \* history: who asked for the last refresh
    starts, rotations

sessionVars == <<valid, token, login, rotations>>
viewVars == <<auto, hidden, refreshedBy>>
loadVars == <<settled, requests, starts>>
vars == <<sessionVars, app, want, running, viewVars, loadVars>>

KeyOf(r, w) == [window |-> IF r \in Periodic THEN w.window ELSE None, refresh |-> w.refresh]
Wanted == [window : Windows, refresh : 0..MaxRefreshes]
Keys == [window : Windows \cup {None}, refresh : 0..MaxRefreshes]
NotAsking == [at |-> "idle"]
Unsettled == [data |-> None, error |-> FALSE, for |-> None, by |-> 0]
First == [window |-> FirstWindow, refresh |-> 0]

TypeOK ==
    /\ valid \in Tokens /\ token \in Tokens \cup {None}
    /\ login \in {NotAsking} \cup [at : {"asking"}, token : Tokens, service : 1..Services]
    /\ app \in {"signin", "open"} /\ want \in Wanted /\ running \in Wanted
    /\ settled \in [Resources -> [data : Keys \cup {None}, error : BOOLEAN,
                                  for : Keys \cup {None}, by : 0..MaxStarts]]
    /\ requests \subseteq [of : Resources, by : 1..MaxStarts, key : Keys,
                           token : Tokens \cup {None}, wasValid : BOOLEAN,
                           left : 1..Parts, aborted : BOOLEAN]
    /\ auto \in BOOLEAN /\ hidden \in BOOLEAN
    /\ app = "signin" => \A q \in requests : q.aborted

Init ==
    /\ valid \in Tokens /\ token = None /\ login = NotAsking /\ app = "signin"
    /\ want = First /\ running = First
    /\ settled = [r \in Resources |-> Unsettled] /\ requests = {}
    /\ auto = TRUE /\ hidden = FALSE /\ refreshedBy = "operator"
    /\ starts = 0 /\ rotations = 0

-----------------------------------------------------------------------------
(* The session *)

SignIn(t) ==
    /\ app = "signin" /\ token = None /\ login = NotAsking /\ starts < MaxStarts
    /\ login' = [at |-> "asking", token |-> t, service |-> 1]
    /\ UNCHANGED <<valid, token, rotations, app, want, running, viewVars, loadVars>>

(* The first definite answer decides; a service that gives none passes the *)
(* question on to the next.                                                *)
Checked ==
    /\ login # NotAsking
    /\ \/ login.token = valid /\ token' = login.token /\ login' = NotAsking
       \/ login.token # valid /\ login' = NotAsking /\ UNCHANGED token
       \/ /\ login' = IF login.service < Services THEN [login EXCEPT !.service = @ + 1]
                      ELSE NotAsking
          /\ UNCHANGED token
    /\ UNCHANGED <<valid, rotations, app, want, running, viewVars, loadVars>>

SignOut ==
    /\ app = "open" /\ token # None
    /\ token' = None
    /\ UNCHANGED <<valid, login, rotations, app, want, running, viewVars, loadVars>>

RotateToken ==
    /\ rotations < MaxRotations /\ rotations' = rotations + 1
    /\ valid' \in Tokens \ {valid}
    /\ UNCHANGED <<token, login, app, want, running, viewVars, loadVars>>

(* The tab is reloaded: the session storage keeps the token. *)
Reload ==
    /\ app = "open"
    /\ app' = "signin" /\ requests' = {} /\ login' = NotAsking
    /\ UNCHANGED <<valid, token, rotations, want, running, viewVars, settled, starts>>

-----------------------------------------------------------------------------
(* The control center.  Setting state and rendering it are two steps; the  *)
(* effects of a commit cancel and start requests at once.                  *)

Busy == \E r \in Resources : settled[r].for # KeyOf(r, running)

DoRefresh(who) ==
    /\ want.refresh < MaxRefreshes
    /\ want' = [want EXCEPT !.refresh = @ + 1] /\ refreshedBy' = who
    /\ UNCHANGED <<sessionVars, app, running, auto, loadVars>>

Refresh == app = "open" /\ DoRefresh("operator") /\ UNCHANGED hidden
Tick == /\ app = "open" /\ auto /\ ~ Busy /\ ~ hidden
        /\ DoRefresh("timer") /\ UNCHANGED hidden
(* Back to a tab that was hidden for longer than an interval. *)
TickOnReturn == /\ app = "open" /\ auto /\ hidden /\ ~ Busy
                /\ DoRefresh("timer") /\ hidden' = FALSE

ChoosePeriod(w) ==
    /\ app = "open" /\ want' = [want EXCEPT !.window = w] /\ want' # want
    /\ UNCHANGED <<sessionVars, app, running, viewVars, loadVars>>

ToggleAuto ==
    /\ app = "open" /\ ~ hidden /\ auto' = ~ auto
    /\ UNCHANGED <<sessionVars, app, want, running, hidden, refreshedBy, loadVars>>

HideOrShow ==
    /\ app = "open" /\ hidden' = ~ hidden
    /\ UNCHANGED <<sessionVars, app, want, running, auto, refreshedBy, loadVars>>

Load(r, key) ==
    LET sent == IF r \in Public THEN None ELSE token
    IN  [of |-> r, by |-> starts + 1, key |-> key, token |-> sent,
         wasValid |-> (sent = valid), left |-> Parts, aborted |-> FALSE]

Cancelled(S) == {[q EXCEPT !.aborted = (@ \/ q \in S)] : q \in requests}

StartOver(S, w) ==
    /\ starts < MaxStarts /\ starts' = starts + 1
    /\ requests' = Cancelled({q \in requests : q.of \in S}) \cup {Load(r, KeyOf(r, w)) : r \in S}

Open ==
    /\ app = "signin" /\ token # None
    /\ app' = "open" /\ want' = First /\ running' = First
    /\ settled' = [r \in Resources |-> Unsettled]
    /\ auto' = TRUE /\ StartOver(Resources, First)
    /\ UNCHANGED <<sessionVars, hidden, refreshedBy>>

Close ==
    /\ app = "open" /\ token = None
    /\ app' = "signin" /\ requests' = Cancelled(requests)
    /\ UNCHANGED <<sessionVars, want, running, viewVars, settled, starts>>

Rerender ==
    /\ app = "open" /\ token # None /\ running # want
    /\ running' = want
    /\ StartOver({r \in Resources : KeyOf(r, want) # KeyOf(r, running)}, want)
    /\ UNCHANGED <<sessionVars, app, want, viewVars, settled>>

-----------------------------------------------------------------------------
(* Answers *)

(* Mutants: an old answer is shown like any other; an error keeps the data *)
(* of before on screen; an error leaves the request unsettled.             *)
SettleAnyway(q, ok) ==
    settled' = [settled EXCEPT ![q.of] = [data |-> IF ok THEN q.key ELSE None,
                                          error |-> ~ ok, for |-> q.key, by |-> q.by]]
SettleSuccessOnly(q, ok) ==
    settled' = IF q.aborted THEN settled
               ELSE [settled EXCEPT ![q.of] =
                       IF ok THEN [data |-> q.key, error |-> FALSE, for |-> q.key, by |-> q.by]
                       ELSE [@ EXCEPT !.data = None, !.error = TRUE]]

Settle(q, ok) ==
    settled' = IF q.aborted THEN settled
               ELSE [settled EXCEPT ![q.of] = [data |-> IF ok THEN q.key ELSE None,
                                               error |-> ~ ok, for |-> q.key, by |-> q.by]]

Drop(q) == requests' = requests \ {q}

(* One part of a load is in; the last one settles it. *)
PartDone(q) ==
    /\ q.of \in Public \cup Gathers \/ q.token = valid \/ q.wasValid
    /\ IF q.left > 1
       THEN requests' = (requests \ {q}) \cup {[q EXCEPT !.left = @ - 1]} /\ UNCHANGED settled
       ELSE Drop(q) /\ Settle(q, TRUE)
    /\ UNCHANGED token

PartFailed(q) ==
    /\ q.of \notin Gathers
    /\ Drop(q) /\ Settle(q, FALSE) /\ UNCHANGED token

(* 401 or 403 *)
PartRefused(q) ==
    /\ q.of \notin Public
    /\ q.token # valid \/ ~ q.wasValid
    /\ Drop(q) /\ Settle(q, FALSE)
    /\ token' = IF q.aborted THEN token ELSE None

Answer ==
    /\ \E q \in requests : PartDone(q) \/ PartFailed(q) \/ PartRefused(q)
    /\ UNCHANGED <<valid, login, rotations, app, want, running, viewVars, starts>>

-----------------------------------------------------------------------------
Commit == Open \/ Close \/ Rerender
Operator ==
    \/ \E t \in Tokens : SignIn(t)
    \/ \E w \in Windows : ChoosePeriod(w)
    \/ SignOut \/ Refresh \/ ToggleAuto \/ HideOrShow \/ Reload
Next == Operator \/ Checked \/ RotateToken \/ Tick \/ TickOnReturn \/ Commit \/ Answer

Spec == Init /\ [][Next]_vars
(* Every request is answered or runs into its timeout, and React renders.  *)
FairSpec == Spec /\ WF_vars(Commit) /\ WF_vars(Answer)

-----------------------------------------------------------------------------
(* What a hook shows never goes back: an answer that replaces what is on   *)
(* screen is newer than it and than every request the hook has started.    *)
(* (useResource: "an old answer can never overwrite a new one")            *)
NewestAnswerShown ==
    [][\A r \in Resources : app = "open" /\ app' = "open" /\ settled'[r] # settled[r] =>
         /\ settled'[r].by > settled[r].by
         /\ \A q \in requests : q.of = r => q.by <= settled'[r].by]_vars

(* Once nothing is on its way, everything on screen is for the period that *)
(* is chosen and for the same refresh.  (docs/dashboard.md: "every page    *)
(* shows the same moment")                                                 *)
SameMoment ==
    app = "open" /\ ~ Busy /\ running = want =>
        \A r \in Resources : settled[r].data \in {None, KeyOf(r, want)}

(* Only a request that carried the token of this very session ends it: an  *)
(* answer to the session before cannot.  (endSession)                      *)
OwnRefusalEnds ==
    [][token # None /\ token' = None =>
         SignOut \/ \E q \in requests \ requests' : q.token = token]_vars

(* The control center does not wait for ever, whatever fails; auto refresh *)
(* would wait with it.  (useAutoRefresh: busy)                             *)
WaitingEnds == app = "open" /\ Busy ~> app # "open" \/ ~ Busy

(* The timer never cancels a request that is still running.                *)
(* (useAutoRefresh: "not while the previous refresh is still running")     *)
TimerWaits ==
    [][want'.refresh > want.refresh /\ refreshedBy' = "timer" =>
         \A q \in requests : q.aborted]_vars
=============================================================================
