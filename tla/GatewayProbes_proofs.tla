------------------------ MODULE GatewayProbes_proofs ------------------------
(***************************************************************************)
(* What holds of GatewayProbes for any viewers and any answers of the      *)
(* gateway.  The invariant says that a page is the report of the answers   *)
(* its viewer read, and that a viewer between its two reads still holds    *)
(* the answer of a gateway that has not changed.                           *)
(***************************************************************************)
EXTENDS GatewayProbes, TLAPS

Asked == Answers \cup {Refused}

(* A viewer of check_status asked /ready exactly when /health was 200.     *)
StatusShown(v) ==
    IF ~Configured(client)
    THEN shown[v] = StatusReport("not_configured") /\ health[v] = NotAsked /\ ready[v] = NotAsked
    ELSE /\ health[v] \in Asked
         /\ IF Ok(health[v])
            THEN ready[v] \in Asked /\ shown[v] = StatusReport(ReadyStatus(ready[v]))
            ELSE ready[v] = NotAsked /\ shown[v] = StatusReport(HealthStatus(health[v]))

(* A viewer of the diagnostics asked both.                                 *)
DiagnosticsShown(v) ==
    /\ shown[v] = DiagnosticsReport(Configured(client), health[v], ready[v])
    /\ IF Configured(client) THEN health[v] \in Asked /\ ready[v] \in Asked
       ELSE health[v] = NotAsked /\ ready[v] = NotAsked

ViewerInv ==
    \A v \in Viewers :
        /\ step[v] \in {"start", "ready"} => shown[v] = NoReport /\ ready[v] = NotAsked
        /\ step[v] = "start" => health[v] = NotAsked
        /\ step[v] = "ready" =>
              /\ Configured(client)
              /\ health[v] \in Asked
              /\ v \in StatusViewers => Ok(health[v])
              /\ stable[v] => health[v] = gateway["health"]
        /\ step[v] = "done" =>
              IF v \in StatusViewers THEN StatusShown(v) ELSE DiagnosticsShown(v)

VarTypes ==
    /\ client \in [base_url : BOOLEAN, token : BOOLEAN]
    /\ gateway \in [Endpoints -> Asked]
    /\ step \in [Viewers -> {"start", "ready", "done"}]
    /\ health \in [Viewers -> Asked \cup {NotAsked}]
    /\ ready \in [Viewers -> Asked \cup {NotAsked}]
    /\ stable \in [Viewers -> BOOLEAN]
    /\ DOMAIN shown = Viewers /\ shown = [v \in Viewers |-> shown[v]]

Inv == VarTypes /\ ViewerInv

----------------------------------------------------------------------------
(* How an exchange may fail.                                               *)
LEMMA Failures ==
    /\ \A a \in Answers : a.failure \in {"none", "timeout", "contact"}
    /\ Refused.failure = "unexpected" /\ NotAsked.failure = "not_asked"
    /\ \A a \in Asked : a.failure \in {"none", "timeout", "contact", "unexpected"}
BY ProbesAssumption DEF Refused, NotAsked, Asked

(* The state of a report is one of the glossary's five, and its two        *)
(* computations agree on the answers that both classify alike.             *)
LEMMA HealthStates ==
    ASSUME NEW h \in Asked
    PROVE  /\ HealthStatus(h) \in {"unreachable", "error", "up"}
           /\ HealthStatus(h) = "up" <=> Ok(h)
<1>1. h.failure \in {"none", "timeout", "contact", "unexpected"} BY Failures
<1> QED BY <1>1 DEF HealthStatus, HttpError, Reached, Ok

LEMMA StatusStates ==
    ASSUME NEW r \in Asked
    PROVE  ReadyStatus(r) \in {"reachable", "error", "ready"}
<1>1. r.failure \in {"none", "timeout", "contact", "unexpected"} BY Failures
<1> QED BY <1>1 DEF ReadyStatus, HttpError

LEMMA DiagnosticStates ==
    ASSUME NEW h, NEW r, NEW configured \in BOOLEAN
    PROVE  ConnectionState(configured, h, r) \in States
BY DEF ConnectionState, States

LEMMA SameState ==
    ASSUME NEW h \in Asked, NEW r \in Asked, h.failure # "unexpected",
           Ok(h) => r.failure # "unexpected"
    PROVE  ConnectionState(TRUE, h, r) =
              IF Ok(h) THEN ReadyStatus(r) ELSE HealthStatus(h)
<1>1. h.failure \in {"none", "timeout", "contact"} BY Failures
<1>2. r.failure \in {"none", "timeout", "contact", "unexpected"} BY Failures
<1>3. CASE Ok(h)
  BY <1>1, <1>2, <1>3 DEF ConnectionState, ReadyStatus, HttpError, Ok, Reached
<1>4. CASE ~Ok(h)
  BY <1>1, <1>4 DEF ConnectionState, HealthStatus, HttpError, Ok, Reached
<1> QED BY <1>3, <1>4

----------------------------------------------------------------------------
LEMMA InitInv == Init => Inv
<1> SUFFICES ASSUME Init PROVE Inv OBVIOUS
<1>1. gateway \in [Endpoints -> Asked] BY DEF Init, Asked
<1>2. VarTypes BY <1>1 DEF Init, VarTypes
<1>3. ViewerInv BY DEF Init, ViewerInv
<1> QED BY <1>2, <1>3 DEF Inv

(* The gateway changes: no viewer holds a stable answer any more.          *)
LEMMA ChangeStep == Inv /\ GatewayChanges => Inv'
<1> SUFFICES ASSUME Inv, GatewayChanges PROVE Inv' OBVIOUS
<1>1. gateway' \in [Endpoints -> Asked]
  <2> PICK e \in Endpoints, a \in Answers : gateway' = [gateway EXCEPT ![e] = a]
    BY DEF GatewayChanges
  <2> QED BY DEF Inv, VarTypes, Asked
<1>2. \A v \in Viewers : step[v] = "ready" => ~stable'[v]
  BY DEF GatewayChanges, Inv, VarTypes
<1>3. VarTypes' BY <1>1 DEF GatewayChanges, Inv, VarTypes
<1>4. \A v \in Viewers : StatusShown(v)' = StatusShown(v) /\ DiagnosticsShown(v)' = DiagnosticsShown(v)
  BY DEF GatewayChanges, StatusShown, DiagnosticsShown
<1>5. ViewerInv' BY <1>2, <1>4 DEF GatewayChanges, Inv, ViewerInv
<1> QED BY <1>3, <1>5 DEF Inv

(* A viewer's step, when what it changes is its own and the viewer's part  *)
(* of the invariant holds afterwards.                                      *)
LEMMA OtherViewers ==
    ASSUME Inv, NEW v \in Viewers, UNCHANGED <<client, gateway, stable>>,
           NEW s \in {"ready", "done"}, step' = [step EXCEPT ![v] = s],
           NEW h \in Asked \cup {NotAsked}, health' = [health EXCEPT ![v] = h],
           NEW r \in Asked \cup {NotAsked}, ready' = [ready EXCEPT ![v] = r],
           NEW g, shown' = [shown EXCEPT ![v] = g],
           s = "ready" => /\ Configured(client) /\ g = NoReport /\ r = NotAsked /\ h \in Asked
                          /\ v \in StatusViewers => Ok(h)
                          /\ stable[v] => h = gateway["health"],
           s = "done" => IF v \in StatusViewers THEN StatusShown(v)' ELSE DiagnosticsShown(v)'
    PROVE  Inv'
<1>1. VarTypes' BY DEF Inv, VarTypes
<1>2. step'[v] = s /\ health'[v] = h /\ ready'[v] = r /\ shown'[v] = g
  BY DEF Inv, VarTypes
<1>3. \A w \in Viewers : w # v => /\ step'[w] = step[w] /\ health'[w] = health[w]
                                 /\ ready'[w] = ready[w] /\ shown'[w] = shown[w]
  BY DEF Inv, VarTypes
<1>4. \A w \in Viewers : w # v => StatusShown(w)' = StatusShown(w)
                               /\ DiagnosticsShown(w)' = DiagnosticsShown(w)
  BY <1>3 DEF StatusShown, DiagnosticsShown
<1>5. ViewerInv' BY <1>2, <1>3, <1>4 DEF Inv, ViewerInv
<1> QED BY <1>1, <1>5 DEF Inv

LEMMA ViewerStep ==
    ASSUME Inv, NEW v \in Viewers, NotConfigured(v) \/ ReadHealth(v) \/ ReadReady(v)
    PROVE  Inv'
<1>t. /\ gateway["health"] \in Asked /\ gateway["ready"] \in Asked
      /\ health = [health EXCEPT ![v] = health[v]] /\ ready = [ready EXCEPT ![v] = ready[v]]
      /\ health[v] \in Asked \cup {NotAsked} /\ ready[v] \in Asked \cup {NotAsked}
      /\ shown = [shown EXCEPT ![v] = shown[v]]
      /\ DOMAIN shown = Viewers /\ DOMAIN health = Viewers /\ DOMAIN ready = Viewers
      /\ NotAsked \notin Asked
  BY Failures DEF Inv, VarTypes, Endpoints
<1>1. CASE NotConfigured(v)
  <2> DEFINE g == IF v \in StatusViewers THEN StatusReport("not_configured")
                  ELSE DiagnosticsReport(FALSE, NotAsked, NotAsked)
  <2>1. shown' = [shown EXCEPT ![v] = g] /\ step' = [step EXCEPT ![v] = "done"]
    BY <1>1 DEF NotConfigured, Show
  <2>2. UNCHANGED <<client, gateway, health, ready, stable>> BY <1>1 DEF NotConfigured
  <2>3. health[v] = NotAsked /\ ready[v] = NotAsked /\ ~Configured(client)
    BY <1>1 DEF NotConfigured, Inv, ViewerInv
  <2>4. shown'[v] = g BY <1>t, <2>1
  <2>a. Configured(client) = FALSE BY <2>3 DEF Configured, Inv, VarTypes
  <2>5. IF v \in StatusViewers THEN StatusShown(v)' ELSE DiagnosticsShown(v)'
    BY <2>2, <2>3, <2>4, <2>a DEF StatusShown, DiagnosticsShown, Configured
  <2> HIDE DEF g
  <2>6. health' = [health EXCEPT ![v] = NotAsked] /\ ready' = [ready EXCEPT ![v] = NotAsked]
    BY <1>t, <2>2, <2>3
  <2> QED BY <2>1, <2>2, <2>5, <2>6, OtherViewers
<1>2. CASE ReadHealth(v)
  <2> DEFINE h == gateway["health"]
  <2>1. /\ health' = [health EXCEPT ![v] = h] /\ Configured(client)
        /\ UNCHANGED <<client, gateway, ready, stable>> /\ ready[v] = NotAsked
        /\ shown[v] = NoReport
    BY <1>2 DEF ReadHealth, Inv, ViewerInv
  <2>2. ready' = [ready EXCEPT ![v] = NotAsked] BY <1>t, <2>1
  <2>3. CASE v \in StatusViewers /\ HealthStatus(h) # "up"
    <3> DEFINE g == StatusReport(HealthStatus(h))
    <3>1. shown' = [shown EXCEPT ![v] = g] /\ step' = [step EXCEPT ![v] = "done"]
      BY <1>2, <2>3 DEF ReadHealth, Show
    <3>2. shown'[v] = g /\ health'[v] = h /\ ready'[v] = NotAsked BY <1>t, <2>1, <2>2, <3>1
    <3>3. ~Ok(h) BY <1>t, <2>3, HealthStates
    <3>4. StatusShown(v)' BY <1>t, <2>1, <3>2, <3>3 DEF StatusShown
    <3> HIDE DEF g
    <3> QED BY <1>t, <2>1, <2>2, <2>3, <3>1, <3>4, OtherViewers
  <2>4. CASE ~(v \in StatusViewers /\ HealthStatus(h) # "up")
    <3>1. step' = [step EXCEPT ![v] = "ready"] /\ shown' = shown
      BY <1>2, <2>4 DEF ReadHealth
    <3>2. shown' = [shown EXCEPT ![v] = NoReport] BY <1>t, <2>1, <3>1
    <3>3. v \in StatusViewers => Ok(h) BY <1>t, <2>4, HealthStates
    <3> QED BY <1>t, <2>1, <2>2, <3>1, <3>2, <3>3, OtherViewers
  <2> QED BY <2>3, <2>4
<1>3. CASE ReadReady(v)
  <2> DEFINE r == gateway["ready"]
             g == IF v \in StatusViewers THEN StatusReport(ReadyStatus(r))
                  ELSE DiagnosticsReport(TRUE, health[v], r)
  <2>1. /\ ready' = [ready EXCEPT ![v] = r] /\ step' = [step EXCEPT ![v] = "done"]
        /\ shown' = [shown EXCEPT ![v] = g]
        /\ UNCHANGED <<client, gateway, health, stable>> /\ step[v] = "ready"
    BY <1>3 DEF ReadReady, Show
  <2>2. Configured(client) /\ health[v] \in Asked /\ (v \in StatusViewers => Ok(health[v]))
    BY <2>1 DEF Inv, ViewerInv
  <2>3. shown'[v] = g /\ ready'[v] = r /\ health'[v] = health[v] BY <1>t, <2>1
  <2>4. Configured(client) = TRUE BY <2>2 DEF Configured
  <2>5. IF v \in StatusViewers THEN StatusShown(v)' ELSE DiagnosticsShown(v)'
    BY <1>t, <2>1, <2>2, <2>3, <2>4 DEF StatusShown, DiagnosticsShown
  <2>6. health' = [health EXCEPT ![v] = health[v]] BY <1>t, <2>1
  <2> HIDE DEF g
  <2> QED BY <1>t, <2>1, <2>2, <2>5, <2>6, OtherViewers
<1> QED BY <1>1, <1>2, <1>3

LEMMA InvInductive == Inv /\ [Next]_vars => Inv'
<1> SUFFICES ASSUME Inv, [Next]_vars PROVE Inv' OBVIOUS
<1>1. CASE UNCHANGED vars
  BY <1>1 DEF vars, Inv, VarTypes, ViewerInv, StatusShown, DiagnosticsShown
<1> QED BY <1>1, ChangeStep, ViewerStep DEF Next, Rest

LEMMA InvHolds == Spec => []Inv
BY InitInv, InvInductive, PTL DEF Spec

----------------------------------------------------------------------------
(* A report has one of the five states, and nothing is shown before it.    *)
THEOREM ProbesTypes == Spec => []TypeOK
<1>1. Inv => TypeOK
  <2> SUFFICES ASSUME Inv PROVE TypeOK OBVIOUS
  <2>1. ASSUME NEW v \in Viewers, step[v] = "done" PROVE shown[v].state \in States
    <3>1. CASE v \in StatusViewers
      <4>1. StatusShown(v) BY <2>1, <3>1 DEF Inv, ViewerInv
      <4>2. HealthStatus(health[v]) \in {"unreachable", "error"} \/ Ok(health[v]) \/ ~Configured(client)
        BY <4>1, HealthStates DEF StatusShown
      <4>3. ReadyStatus(ready[v]) \in {"reachable", "error", "ready"}
            \/ ~Ok(health[v]) \/ ~Configured(client)
        BY <4>1, StatusStates DEF StatusShown
      <4> QED BY <4>1, <4>2, <4>3 DEF StatusShown, StatusReport, States
    <3>2. CASE v \notin StatusViewers
      <4>1. shown[v] = DiagnosticsReport(Configured(client), health[v], ready[v])
        BY <2>1, <3>2 DEF Inv, ViewerInv, DiagnosticsShown
      <4>2. Configured(client) \in BOOLEAN BY DEF Inv, VarTypes, Configured
      <4> QED BY <4>1, <4>2, DiagnosticStates DEF DiagnosticsReport
    <3> QED BY <3>1, <3>2
  <2>2. ASSUME NEW v \in Viewers, step[v] # "done" PROVE shown[v] = NoReport
    BY <2>2 DEF Inv, VarTypes, ViewerInv
  <2> QED BY <2>1, <2>2 DEF Inv, VarTypes, TypeOK, Asked
<1> QED BY InvHolds, <1>1, PTL

(* Pages that read the same answers name the same state, whichever of the  *)
(* two functions computed it.                                              *)
THEOREM PagesNameOneState == Spec => []PagesAgree
<1>1. Inv => PagesAgree
  <2> SUFFICES ASSUME Inv, NEW v \in StatusViewers, NEW w \in DiagnosticViewers,
                      step[v] = "done", step[w] = "done", health[v] = health[w],
                      ready[v] \in {ready[w], NotAsked},
                      "unexpected" \notin {health[v].failure, ready[v].failure}
               PROVE  shown[v].state = shown[w].state
    BY DEF PagesAgree
  <2>1. StatusShown(v) BY DEF Inv, ViewerInv, Viewers
  <2>2. DiagnosticsShown(w) BY ProbesAssumption DEF Inv, ViewerInv, Viewers
  <2>3. Configured(client) \in BOOLEAN BY DEF Inv, VarTypes, Configured
  <2>4. shown[w].state = ConnectionState(Configured(client), health[w], ready[w])
    BY <2>2 DEF DiagnosticsShown, DiagnosticsReport
  <2>5. CASE ~Configured(client)
    BY <2>1, <2>4, <2>5 DEF StatusShown, StatusReport, ConnectionState
  <2>6. CASE Configured(client)
    <3>1. health[w] \in Asked /\ ready[w] \in Asked /\ NotAsked \notin Asked
      BY <2>2, <2>6, Failures DEF DiagnosticsShown
    <3>2. Ok(health[v]) => ready[v] = ready[w]
      BY <2>1, <2>6, <3>1 DEF StatusShown
    <3>3. ConnectionState(TRUE, health[w], ready[w]) =
             IF Ok(health[w]) THEN ReadyStatus(ready[w]) ELSE HealthStatus(health[w])
      BY <3>1, <3>2, SameState
    <3>4. Configured(client) = TRUE BY <2>3, <2>6
    <3>5. shown[w].state = IF Ok(health[v]) THEN ReadyStatus(ready[w]) ELSE HealthStatus(health[v])
      BY <2>4, <3>3, <3>4
    <3>6. CASE Ok(health[v])
      <4>1. shown[v] = StatusReport(ReadyStatus(ready[w])) BY <2>1, <2>6, <3>2, <3>6 DEF StatusShown
      <4> QED BY <3>5, <3>6, <4>1 DEF StatusReport
    <3>7. CASE ~Ok(health[v])
      <4>1. shown[v] = StatusReport(HealthStatus(health[v])) BY <2>1, <2>6, <3>7 DEF StatusShown
      <4> QED BY <3>5, <3>7, <4>1 DEF StatusReport
    <3> QED BY <3>6, <3>7
  <2> QED BY <2>5, <2>6
<1> QED BY InvHolds, <1>1, PTL

(* "Overall: ready" takes a 200 of /ready and a body that says so.         *)
THEOREM ReadyIsRead == Spec => []OverallReadyIsRead
<1>1. Inv => OverallReadyIsRead
  <2> SUFFICES ASSUME Inv, NEW w \in DiagnosticViewers, step[w] = "done",
                      shown[w].overall_ready = "yes"
               PROVE  /\ shown[w].last_successful_ready
                      /\ ready[w].status = "ready"
                      /\ Ok(health[w]) => shown[w].state = "ready"
    BY DEF OverallReadyIsRead
  <2>1. DiagnosticsShown(w) BY ProbesAssumption DEF Inv, ViewerInv, Viewers
  <2>2. /\ shown[w].overall_ready = OverallReady(Configured(client), ready[w])
        /\ shown[w].last_successful_ready = Ok(ready[w])
        /\ shown[w].state = ConnectionState(Configured(client), health[w], ready[w])
    BY <2>1 DEF DiagnosticsShown, DiagnosticsReport
  <2>3. Configured(client) /\ Ok(ready[w]) /\ ready[w].status = "ready"
    BY <2>2 DEF OverallReady, Null
  <2> QED BY <2>2, <2>3 DEF ConnectionState, Ok
<1> QED BY InvHolds, <1>1, PTL

(* A gateway that stayed as it is during both reads is shown in the state  *)
(* it is in.                                                               *)
THEOREM StableStateIsShown == Spec => StableGatewayIsSeen
<1> DEFINE Seen(v) ==
      /\ step[v] # "done" /\ step'[v] = "done"
      /\ Configured(client)
      /\ stable[v]
      /\ \A e \in Endpoints : gateway[e].failure # "unexpected"
      => shown'[v].state = StateOfGateway
<1>1. Inv /\ [Next]_vars => [\A v \in Viewers : Seen(v)]_vars
  <2> SUFFICES ASSUME Inv, Next, NEW v \in Viewers,
                      step[v] # "done", step'[v] = "done", Configured(client), stable[v],
                      \A e \in Endpoints : gateway[e].failure # "unexpected"
               PROVE  shown'[v].state = StateOfGateway
    OBVIOUS
  <2>a. /\ DOMAIN step = Viewers /\ DOMAIN shown = Viewers
        /\ gateway["health"] \in Asked /\ gateway["ready"] \in Asked
    BY DEF Inv, VarTypes, Endpoints
  <2>b. /\ gateway["health"].failure \in {"none", "timeout", "contact"}
        /\ gateway["ready"].failure \in {"none", "timeout", "contact"}
    BY <2>a, Failures DEF Endpoints
  <2>c. StateOfGateway = IF Ok(gateway["health"]) THEN ReadyStatus(gateway["ready"])
                         ELSE HealthStatus(gateway["health"])
    BY <2>b DEF StateOfGateway, ReadyStatus, HealthStatus, HttpError, Ok, Reached
  <2>1. PICK w \in Viewers : ReadHealth(w) \/ ReadReady(w)
    BY DEF Next, Rest, GatewayChanges, NotConfigured, vars
  <2>2. w = v
    <3>1. CASE w # v
      <4>1. step'[v] = step[v] BY <2>1, <2>a, <3>1 DEF ReadHealth, ReadReady, Show
      <4> QED BY <4>1
    <3> QED BY <3>1
  <2>3. CASE ReadHealth(v)
    <3>1. v \in StatusViewers /\ HealthStatus(gateway["health"]) # "up"
      BY <2>3, <2>a DEF ReadHealth
    <3>2. shown'[v] = StatusReport(HealthStatus(gateway["health"]))
      BY <2>3, <2>a, <3>1 DEF ReadHealth, Show
    <3> QED BY <2>a, <2>c, <3>1, <3>2, HealthStates DEF StatusReport
  <2>4. CASE ReadReady(v)
    <3>1. shown'[v] = IF v \in StatusViewers THEN StatusReport(ReadyStatus(gateway["ready"]))
                      ELSE DiagnosticsReport(TRUE, health[v], gateway["ready"])
      BY <2>4, <2>a DEF ReadReady, Show
    <3>2. health[v] = gateway["health"] /\ (v \in StatusViewers => Ok(health[v]))
      BY <2>4 DEF ReadReady, Inv, ViewerInv
    <3>3. ConnectionState(TRUE, health[v], gateway["ready"]) = StateOfGateway
      BY <2>a, <2>b, <2>c, <3>2, SameState
    <3>4. CASE v \in StatusViewers 
      <4>1. shown'[v] = StatusReport(ReadyStatus(gateway["ready"])) BY <3>1, <3>4
      <4>2. StateOfGateway = ReadyStatus(gateway["ready"]) BY <2>c, <3>2, <3>4
      <4> QED BY <4>1, <4>2 DEF StatusReport
    <3>5. CASE v \notin StatusViewers
      <4>1. shown'[v] = DiagnosticsReport(TRUE, health[v], gateway["ready"]) BY <3>1, <3>5
      <4>2. shown'[v].state = ConnectionState(TRUE, health[v], gateway["ready"])
        BY <4>1 DEF DiagnosticsReport
      <4> QED BY <3>3, <4>2
    <3> QED BY <3>4, <3>5
  <2> QED BY <2>1, <2>2, <2>3, <2>4
<1> QED BY InvHolds, <1>1, PTL DEF Spec, StableGatewayIsSeen

----------------------------------------------------------------------------
(* Every page keeps the promise of StatusPages.  An address httpx refuses  *)
(* is refused at both endpoints and for good, and a viewer between its     *)
(* reads has seen as much: that is what AddressInv adds.                   *)
AddressInv ==
    /\ gateway["health"] = Refused <=> gateway["ready"] = Refused
    /\ \A v \in Viewers : step[v] = "ready" => (health[v] = Refused <=> gateway["health"] = Refused)

(* It is kept, given Inv: a refused answer is none the gateway may give.   *)
LEMMA AddressInductive == Inv /\ AddressInv /\ [Next]_vars => AddressInv'
<1> SUFFICES ASSUME Inv, AddressInv, [Next]_vars PROVE AddressInv' OBVIOUS
<1>1. CASE UNCHANGED vars
  BY <1>1 DEF vars, AddressInv
<1>2. CASE GatewayChanges
  <2>1. PICK e \in Endpoints : \E a \in Answers :
           gateway[e] # Refused /\ gateway' = [gateway EXCEPT ![e] = a]
    BY <1>2 DEF GatewayChanges
  <2>2. PICK a \in Answers : gateway[e] # Refused /\ gateway' = [gateway EXCEPT ![e] = a]
    BY <2>1
  <2>3. a # Refused
    BY Failures
  <2>4. gateway["health"] # Refused /\ gateway["ready"] # Refused
    BY <2>2 DEF AddressInv, Endpoints
  <2>5. gateway'["health"] # Refused /\ gateway'["ready"] # Refused
    BY <2>2, <2>3, <2>4 DEF Inv, VarTypes, Endpoints
  <2> QED BY <1>2, <2>4, <2>5 DEF GatewayChanges, AddressInv
<1>3. ASSUME NEW v \in Viewers, NotConfigured(v) \/ ReadHealth(v) \/ ReadReady(v)
      PROVE  AddressInv'
  <2>1. gateway' = gateway
    BY <1>3 DEF NotConfigured, ReadHealth, ReadReady
  <2>2. ASSUME NEW w \in Viewers, step'[w] = "ready"
        PROVE  (health'[w] = health[w] /\ step[w] = "ready") \/ health'[w] = gateway["health"]
    BY <1>3, <2>2 DEF NotConfigured, ReadHealth, ReadReady, Show, Inv, VarTypes
  <2> QED BY <2>1, <2>2 DEF AddressInv
<1> QED BY <1>1, <1>2, <1>3 DEF Next, Rest

(* The state a report names is one the glossary gives to its two answers.  *)
LEMMA NamedByGlossary ==
    ASSUME Inv, AddressInv, NEW h \in Asked, NEW r \in Asked, Configured(client),
           h = Refused <=> gateway["health"] = Refused,
           r = Refused <=> gateway["health"] = Refused
    PROVE  /\ ConnectionState(TRUE, h, r) \in Promise!Names(ConditionOf(h), ConditionOf(r))
           /\ Ok(h) => ReadyStatus(r) \in Promise!Names(ConditionOf(h), ConditionOf(r))
           /\ ~Ok(h) => HealthStatus(h) \in Promise!Names(ConditionOf(h), ConditionOf(r))
<1>1. /\ h.failure \in {"none", "timeout", "contact", "unexpected"}
      /\ r.failure \in {"none", "timeout", "contact", "unexpected"}
      /\ h.failure = "unexpected" <=> h = Refused
      /\ r.failure = "unexpected" <=> r = Refused
  BY Failures DEF Asked
<1>2. CASE gateway["health"] = Refused
  <2>1. Promise!Names(ConditionOf(h), ConditionOf(r)) = {"unreachable", "error"}
    BY <1>2 DEF Promise!Names
  <2>2. h.failure = "unexpected"
    BY <1>1, <1>2
  <2>3. ConnectionState(TRUE, h, r) = "unreachable" /\ HealthStatus(h) = "error" /\ ~Ok(h)
    BY <2>2 DEF ConnectionState, HealthStatus, HttpError, Reached, Ok
  <2> QED BY <2>1, <2>3
<1>3. CASE gateway["health"] # Refused
  <2>1. Promise!Names(ConditionOf(h), ConditionOf(r)) =
           IF ~Reached(h) THEN {"unreachable"} ELSE IF ~Ok(h) THEN {"error"}
           ELSE {IF Ok(r) THEN "ready" ELSE "reachable"}
    BY <1>3 DEF Promise!Names, ConditionOf, Ok
  <2>2. h.failure # "unexpected" /\ r.failure # "unexpected"
    BY <1>1, <1>3
  <2>3. ConnectionState(TRUE, h, r) = IF Ok(h) THEN ReadyStatus(r) ELSE HealthStatus(h)
    BY <2>2, SameState
  <2>4. ConnectionState(TRUE, h, r) =
           IF ~Reached(h) THEN "unreachable" ELSE IF ~Ok(h) THEN "error"
           ELSE IF Ok(r) THEN "ready" ELSE "reachable"
    BY DEF ConnectionState
  <2> QED BY <2>1, <2>3, <2>4 DEF Ok
<1> QED BY <1>2, <1>3

(* The step that writes the page of a viewer.                              *)
LEMMA WrittenPage ==
    ASSUME Inv, NEW v \in Viewers, NEW report,
           shown' = [shown EXCEPT ![v] = report], step' = [step EXCEPT ![v] = "done"],
           \A w \in Viewers \ {v} : health'[w] = health[w]
    PROVE  /\ [w \in Viewers |-> shown'[w].state] =
                 [[w \in Viewers |-> shown[w].state] EXCEPT ![v] = report.state]
           /\ [w \in Viewers |-> IF step'[w] = "ready" THEN ConditionOf(health'[w]) ELSE "unseen"] =
                 [[w \in Viewers |-> IF step[w] = "ready" THEN ConditionOf(health[w]) ELSE "unseen"]
                     EXCEPT ![v] = "unseen"]
<1>t. DOMAIN shown = Viewers /\ step \in [Viewers -> {"start", "ready", "done"}]
  BY DEF Inv, VarTypes
<1>1. shown'[v] = report /\ \A w \in Viewers \ {v} : shown'[w] = shown[w]
  BY <1>t
<1>2. step'[v] = "done" /\ \A w \in Viewers \ {v} : step'[w] = step[w]
  BY <1>t
<1>3. [w \in Viewers |-> shown'[w].state] =
         [[w \in Viewers |-> shown[w].state] EXCEPT ![v] = report.state]
  <2> DEFINE now(w) == shown[w].state
             next(w) == shown'[w].state
             named == report.state
  <2>1. next(v) = named /\ \A w \in Viewers \ {v} : next(w) = now(w)
    BY <1>1
  <2> HIDE DEF now, next, named
  <2>2. [w \in Viewers |-> next(w)] = [[w \in Viewers |-> now(w)] EXCEPT ![v] = named]
    BY <2>1
  <2> QED BY <2>2 DEF now, next, named
<1>4. [w \in Viewers |-> IF step'[w] = "ready" THEN ConditionOf(health'[w]) ELSE "unseen"] =
         [[w \in Viewers |-> IF step[w] = "ready" THEN ConditionOf(health[w]) ELSE "unseen"]
             EXCEPT ![v] = "unseen"]
  <2> DEFINE now(w) == IF step[w] = "ready" THEN ConditionOf(health[w]) ELSE "unseen"
             next(w) == IF step'[w] = "ready" THEN ConditionOf(health'[w]) ELSE "unseen"
  <2>1. next(v) = "unseen" /\ \A w \in Viewers \ {v} : next(w) = now(w)
    BY <1>2
  <2> HIDE DEF now, next
  <2>2. [w \in Viewers |-> next(w)] = [[w \in Viewers |-> now(w)] EXCEPT ![v] = "unseen"]
    BY <2>1
  <2> QED BY <2>2 DEF now, next
<1> QED BY <1>3, <1>4

(* Each step is one of StatusPages or a stutter: the step that reads the   *)
(* last answer a page needs is the one that writes it.                     *)
LEMMA StepKeepsPromise ==
    ASSUME Inv, AddressInv, [Next]_vars
    PROVE  [Promise!Next]_(Promise!vars)
<1> DEFINE address == IF ~Configured(client) THEN "missing"
                      ELSE IF gateway["health"] = Refused THEN "refused" ELSE "usable"
           endpoints == [e \in Endpoints |-> ConditionOf(gateway[e])]
           glimpse == [v \in Viewers |-> IF step[v] = "ready" THEN ConditionOf(health[v]) ELSE "unseen"]
           page == [v \in Viewers |-> shown[v].state]
<1>t. /\ gateway["health"] \in Asked /\ gateway["ready"] \in Asked
      /\ endpoints["health"] = ConditionOf(gateway["health"])
      /\ endpoints["ready"] = ConditionOf(gateway["ready"])
      /\ \A v \in Viewers : step[v] # "done" => page[v] = Promise!Blank
      /\ \A v \in Viewers : step[v] = "start" => glimpse[v] = Promise!Unseen
      /\ \A v \in Viewers : step[v] = "ready" => glimpse[v] # Promise!Unseen
  BY DEF Inv, VarTypes, ViewerInv, Endpoints, NoReport, ConditionOf, Promise!Blank, Promise!Unseen
<1>1. CASE UNCHANGED vars
  BY <1>1 DEF vars, Promise!vars
<1>2. ASSUME GatewayChanges PROVE Promise!GatewayChanges
  <2>1. PICK e \in Endpoints : \E a \in Answers :
           gateway[e] # Refused /\ gateway' = [gateway EXCEPT ![e] = a]
    BY <1>2 DEF GatewayChanges
  <2>2. PICK a \in Answers : gateway[e] # Refused /\ gateway' = [gateway EXCEPT ![e] = a]
    BY <2>1
  <2>3. gateway["health"] # Refused /\ gateway'["health"] # Refused
    BY <2>2, Failures DEF AddressInv, Inv, VarTypes, Endpoints
  <2>4. endpoints' \in [Endpoints -> Promise!Conditions]
    BY DEF ConditionOf, Promise!Conditions
  <2>5. UNCHANGED <<client, step, health, shown>>
    BY <1>2 DEF GatewayChanges
  <2>6. UNCHANGED <<address, glimpse, page>>
    BY <2>3, <2>5 DEF Configured
  <2> QED BY <2>4, <2>6 DEF Promise!GatewayChanges, Endpoints
<1>3. ASSUME NEW v \in Viewers, NotConfigured(v) PROVE Promise!NameAtOnce(v)
  <2> DEFINE report == IF v \in StatusViewers THEN StatusReport("not_configured")
                       ELSE DiagnosticsReport(FALSE, NotAsked, NotAsked)
  <2>1. /\ shown' = [shown EXCEPT ![v] = report] /\ step' = [step EXCEPT ![v] = "done"]
        /\ UNCHANGED <<client, gateway, health, ready>>
        /\ step[v] = "start" /\ ~Configured(client)
    BY <1>3 DEF NotConfigured, Show
  <2>2. report.state = "not_configured"
    BY DEF StatusReport, DiagnosticsReport, ConnectionState
  <2> HIDE DEF report
  <2>a. \A w \in Viewers \ {v} : health'[w] = health[w]
    BY <2>1
  <2>b. page' = [page EXCEPT ![v] = report.state] /\ glimpse' = [glimpse EXCEPT ![v] = "unseen"]
    BY <2>1, <2>a, WrittenPage
  <2>3. page' = [page EXCEPT ![v] = "not_configured"] /\ glimpse' = [glimpse EXCEPT ![v] = "unseen"]
    BY <2>2, <2>b
  <2>4. glimpse' = glimpse
    BY <1>t, <2>1, <2>3 DEF Promise!Unseen
  <2>5. address = "missing" /\ UNCHANGED <<address, endpoints>>
    BY <2>1 DEF Configured
  <2> QED BY <1>t, <2>1, <2>3, <2>4, <2>5 DEF Promise!NameAtOnce, Promise!Names
<1>4. ASSUME NEW v \in Viewers, ReadHealth(v) PROVE Promise!Look(v) \/ Promise!NameAtOnce(v)
  <2> DEFINE h == gateway["health"]
  <2>1. /\ step[v] = "start" /\ Configured(client)
        /\ health' = [health EXCEPT ![v] = h]
        /\ UNCHANGED <<client, gateway, ready>>
    BY <1>4 DEF ReadHealth
  <2>2. address # "missing" /\ UNCHANGED <<address, endpoints>>
    BY <2>1 DEF Configured
  <2>3. CASE v \in StatusViewers /\ HealthStatus(h) # "up"
    <3>1. /\ shown' = [shown EXCEPT ![v] = StatusReport(HealthStatus(h))]
          /\ step' = [step EXCEPT ![v] = "done"]
      BY <1>4, <2>3 DEF ReadHealth, Show
    <3>2. \A w \in Viewers \ {v} : health'[w] = health[w]
      BY <2>1 DEF Inv, VarTypes
    <3> DEFINE report == StatusReport(HealthStatus(h))
    <3>a. report.state = HealthStatus(h)
      BY DEF StatusReport
    <3> HIDE DEF report
    <3>b. /\ page' = [page EXCEPT ![v] = report.state]
          /\ glimpse' = [glimpse EXCEPT ![v] = "unseen"]
      BY <3>1, <3>2, WrittenPage DEF report
    <3>3. /\ page' = [page EXCEPT ![v] = HealthStatus(h)]
          /\ glimpse' = [glimpse EXCEPT ![v] = "unseen"]
      BY <3>a, <3>b
    <3>4. glimpse' = glimpse
      BY <1>t, <2>1, <3>3 DEF Promise!Unseen
    <3>5. ~Ok(h)
      BY <1>t, <2>3, HealthStates
    <3>6. HealthStatus(h) \in Promise!Names(ConditionOf(h), ConditionOf(gateway["ready"]))
      BY <1>t, <2>1, <3>5, NamedByGlossary DEF AddressInv
    <3>7. endpoints["health"] # "fine"
      BY <1>t, <3>5 DEF ConditionOf
    <3> QED BY <1>t, <2>1, <2>2, <3>3, <3>4, <3>6, <3>7 DEF Promise!NameAtOnce
  <2>4. CASE ~(v \in StatusViewers /\ HealthStatus(h) # "up")
    <3>1. step' = [step EXCEPT ![v] = "ready"] /\ shown' = shown
      BY <1>4, <2>4 DEF ReadHealth
    <3>2. glimpse' = [glimpse EXCEPT ![v] = ConditionOf(h)]
      BY <2>1, <3>1 DEF Inv, VarTypes
    <3>3. page' = page
      BY <3>1
    <3> QED BY <1>t, <2>1, <2>2, <3>2, <3>3 DEF Promise!Look
  <2> QED BY <2>3, <2>4
<1>5. ASSUME NEW v \in Viewers, ReadReady(v) PROVE Promise!NameAfterReady(v)
  <2> DEFINE h == health[v]
             r == gateway["ready"]
             report == IF v \in StatusViewers THEN StatusReport(ReadyStatus(r))
                       ELSE DiagnosticsReport(TRUE, h, r)
  <2>1. /\ shown' = [shown EXCEPT ![v] = report] /\ step' = [step EXCEPT ![v] = "done"]
        /\ UNCHANGED <<client, gateway, health>> /\ step[v] = "ready"
    BY <1>5 DEF ReadReady, Show
  <2>2. Configured(client) /\ h \in Asked /\ (v \in StatusViewers => Ok(h))
    BY <2>1 DEF Inv, ViewerInv
  <2>3. report.state = IF v \in StatusViewers THEN ReadyStatus(r) ELSE ConnectionState(TRUE, h, r)
    BY DEF StatusReport, DiagnosticsReport
  <2>4. report.state \in Promise!Names(ConditionOf(h), ConditionOf(r))
    BY <1>t, <2>1, <2>2, <2>3, NamedByGlossary DEF AddressInv
  <2> HIDE DEF report
  <2>5. page' = [page EXCEPT ![v] = report.state] /\ glimpse' = [glimpse EXCEPT ![v] = "unseen"]
    BY <2>1, WrittenPage
  <2>6. glimpse[v] = ConditionOf(h)
    BY <2>1
  <2>7. UNCHANGED <<address, endpoints>>
    BY <2>1 DEF Configured
  <2> QED BY <1>t, <2>1, <2>4, <2>5, <2>6, <2>7 DEF Promise!NameAfterReady, Promise!Unseen
<1>6. CASE Next
  BY <1>1, <1>2, <1>3, <1>4, <1>5, <1>6 DEF Next, Rest, Promise!Next
<1> QED BY <1>1, <1>6

(* The home page and the diagnostics page, whose states two functions      *)
(* compute from two exchanges each, implement StatusPages.                 *)
THEOREM ProbesImplementStatusPages == Spec => ImplementsStatusPages
<1>1. Init => Promise!Init
  <2> SUFFICES ASSUME Init PROVE Promise!Init OBVIOUS
  <2>1. [e \in Endpoints |-> ConditionOf(gateway[e])] \in [{"health", "ready"} -> Promise!Conditions]
    BY DEF ConditionOf, Endpoints, Promise!Conditions
  <2> QED BY <2>1 DEF Init, NoReport, Promise!Init, Promise!Addresses, Promise!Unseen, Promise!Blank
<1>2. Init => AddressInv
  <2> SUFFICES ASSUME Init PROVE AddressInv OBVIOUS
  <2>1. CASE gateway = [e \in Endpoints |-> Refused]
    BY <2>1 DEF Init, AddressInv, Endpoints
  <2>2. CASE gateway \in [Endpoints -> Answers]
    BY <2>2, Failures DEF Init, AddressInv, Endpoints
  <2> QED BY <2>1, <2>2 DEF Init
<1>3. Inv /\ AddressInv /\ [Next]_vars => [Promise!Next]_(Promise!vars)
  BY StepKeepsPromise
<1> QED
  BY <1>1, <1>2, <1>3, InvHolds, AddressInductive, PTL DEF Spec, ImplementsStatusPages, Promise!Spec

=============================================================================
