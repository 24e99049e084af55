--------------------------- MODULE GatewayProbes ---------------------------
(***************************************************************************)
(* How the console finds out whether basis-gateway is up: check_status,    *)
(* behind the home page and GET /ready, and gather_gateway_diagnostics,    *)
(* behind the workspace and the diagnostics page.  Each reads /health and  *)
(* then /ready, on a worker thread of its own, from a gateway that may     *)
(* change between the two reads.                                           *)
(*                                                                         *)
(* An answer is [failure, code, status, components]: how the exchange      *)
(* failed (or "none"), the HTTP status, the body's "status" and the        *)
(* readiness components it reports, as a function from names to booleans.  *)
(* A base URL httpx refuses (InvalidURL, no HTTPError) fails every         *)
(* exchange in the "unexpected" way.                                       *)
(***************************************************************************)
EXTENDS GatewayClient

CONSTANTS StatusViewers,       \* requests served from check_status
          DiagnosticViewers,   \* requests served from the diagnostics aggregator
          Answers,             \* what an endpoint of the gateway may answer
          CapabilityComponents \* _POLICY_CAPABILITY_COMPONENTS

Viewers == StatusViewers \cup DiagnosticViewers

ASSUME ProbesAssumption ==
    /\ StatusViewers \cap DiagnosticViewers = {}
    /\ \A a \in Answers : a.failure \in {"none", "timeout", "contact"}

VARIABLES client,   \* the gateway client
          gateway,  \* what each endpoint answers now (external)
          step,     \* start -> ready -> done, per viewer
          health,   \* the answer of /health a viewer read
          ready,    \* the answer of /ready a viewer read
          stable,   \* has the gateway stayed the same since the viewer began?
          shown     \* the report on the viewer's page

vars == <<client, gateway, step, health, ready, stable, shown>>

Endpoints == {"health", "ready"}
NotAsked == [failure |-> "not_asked", code |-> NoCode, status |-> Absent, components |-> <<>>]
Refused == [NotAsked EXCEPT !.failure = "unexpected"]
NoReport == [state |-> "none"]

Reached(a) == a.failure = "none"
Ok(a) == Reached(a) /\ a.code = 200
HttpError(a) == a.failure \in {"timeout", "contact"}

----------------------------------------------------------------------------
(* check_status: the state after /health, and after /ready when /health    *)
(* was 200.  An exception that is not an HTTPError leaves _probe.          *)

(* Mutated form: the failure is reported by its own name.                  *)
HealthStatus_RawFailure(h) == IF Ok(h) THEN "up" ELSE IF Reached(h) THEN "error" ELSE h.failure

HealthStatus(h) ==
    CASE HttpError(h)              -> "unreachable"
      [] h.failure = "unexpected"  -> "error"
      [] Reached(h) /\ h.code # 200 -> "error"
      [] OTHER                     -> "up"

(* Mutated form: a /ready that is not 200 is an error, as for /health.     *)
ReadyStatus_Strict(r) == IF Ok(r) THEN "ready" ELSE "error"

ReadyStatus(r) ==
    CASE HttpError(r)             -> "reachable"
      [] r.failure = "unexpected" -> "error"
      [] OTHER                    -> IF Ok(r) THEN "ready" ELSE "reachable"

StatusReport(state) ==
    [state |-> state, configured |-> state # "not_configured",
     reachable |-> state \in {"reachable", "ready"}, ready |-> state = "ready"]

----------------------------------------------------------------------------
(* gather_gateway_diagnostics.                                             *)

(* Mutated form: /ready that cannot be read makes the gateway unreachable. *)
ConnectionState_ReadyUnread(configured, h, r) ==
    CASE ~configured           -> "not_configured"
      [] configured /\ (~Reached(h) \/ ~Reached(r)) -> "unreachable"
      [] OTHER                 -> IF ~Ok(h) THEN "error" ELSE IF Ok(r) THEN "ready" ELSE "reachable"

ConnectionState(configured, h, r) ==
    CASE ~configured                -> "not_configured"
      [] configured /\ ~Reached(h)  -> "unreachable"
      [] OTHER                      -> IF ~Ok(h) THEN "error"
                                       ELSE IF Ok(r) THEN "ready" ELSE "reachable"

(* The components of a readiness body that was read, whatever its status.  *)
ExtractComponents(r) == IF Reached(r) THEN r.components ELSE <<>>

PolicyCapability(components) ==
    [name \in DOMAIN components \cap CapabilityComponents |-> components[name]]

(* Mutated form: only the HTTP status counts.                              *)
OverallReady_CodeOnly(configured, r) ==
    IF ~configured \/ ~Reached(r) THEN Null ELSE IF Ok(r) THEN "yes" ELSE "no"

OverallReady(configured, r) ==
    IF ~configured \/ ~Reached(r) THEN Null
    ELSE IF Ok(r) /\ r.status = "ready" THEN "yes" ELSE "no"

DiagnosticsReport(configured, h, r) ==
    [state |-> ConnectionState(configured, h, r),
     components |-> ExtractComponents(r),
     policy |-> PolicyCapability(ExtractComponents(r)),
     overall_ready |-> OverallReady(configured, r),
     last_successful_health |-> Ok(h),
     last_successful_ready |-> Ok(r)]

----------------------------------------------------------------------------

Init ==
    /\ client \in [base_url : BOOLEAN, token : BOOLEAN]
    /\ gateway \in [Endpoints -> Answers] \cup {[e \in Endpoints |-> Refused]}
    /\ step = [v \in Viewers |-> "start"]
    /\ health = [v \in Viewers |-> NotAsked]
    /\ ready = [v \in Viewers |-> NotAsked]
    /\ stable = [v \in Viewers |-> TRUE]
    /\ shown = [v \in Viewers |-> NoReport]

(* An endpoint of the gateway answers something else from now on.          *)
GatewayChanges ==
    /\ \E e \in Endpoints : \E a \in Answers \ {gateway[e]} :
          /\ gateway[e] # Refused
          /\ gateway' = [gateway EXCEPT ![e] = a]
    /\ stable' = [v \in Viewers |-> stable[v] /\ step[v] # "ready"]
    /\ UNCHANGED <<client, step, health, ready, shown>>

Show(v, report) ==
    /\ shown' = [shown EXCEPT ![v] = report]
    /\ step' = [step EXCEPT ![v] = "done"]

(* No base URL: neither function contacts anything.                        *)
NotConfigured(v) ==
    /\ step[v] = "start"
    /\ ~Configured(client)
    /\ Show(v, IF v \in StatusViewers THEN StatusReport("not_configured")
               ELSE DiagnosticsReport(FALSE, NotAsked, NotAsked))
    /\ UNCHANGED <<client, gateway, health, ready, stable>>

(* GET /health.  check_status stops here unless the answer is 200; the     *)
(* diagnostics page always goes on.                                        *)
ReadHealth(v) ==
    LET answer == gateway["health"] IN
    /\ step[v] = "start"
    /\ Configured(client)
    /\ health' = [health EXCEPT ![v] = answer]
    /\ IF v \in StatusViewers /\ HealthStatus(answer) # "up"
       THEN Show(v, StatusReport(HealthStatus(answer)))
       ELSE step' = [step EXCEPT ![v] = "ready"] /\ UNCHANGED shown
    /\ UNCHANGED <<client, gateway, ready, stable>>

(* Mutated form: get_ready asks for /health.                               *)
ReadReady_AsksHealth(v) ==
    LET answer == gateway["health"] IN
    /\ step[v] = "ready"
    /\ ready' = [ready EXCEPT ![v] = answer]
    /\ Show(v, IF v \in StatusViewers THEN StatusReport(ReadyStatus(answer))
               ELSE DiagnosticsReport(TRUE, health[v], answer))
    /\ UNCHANGED <<client, gateway, health, stable>>

(* GET /ready, and the report.                                             *)
ReadReady(v) ==
    LET answer == gateway["ready"] IN
    /\ step[v] = "ready"
    /\ ready' = [ready EXCEPT ![v] = answer]
    /\ Show(v, IF v \in StatusViewers THEN StatusReport(ReadyStatus(answer))
               ELSE DiagnosticsReport(TRUE, health[v], answer))
    /\ UNCHANGED <<client, gateway, health, stable>>

(* Every page is rendered.                                                 *)
Rest == (\A v \in Viewers : step[v] = "done") /\ UNCHANGED vars

Next ==
    \/ GatewayChanges \/ Rest
    \/ \E v \in Viewers : NotConfigured(v) \/ ReadHealth(v) \/ ReadReady(v)

Spec == Init /\ [][Next]_vars

----------------------------------------------------------------------------

(* The types of the variables; a state is one of the five of the glossary. *)
States == {"not_configured", "unreachable", "error", "reachable", "ready"}

TypeOK ==
    /\ gateway \in [Endpoints -> Answers \cup {Refused}]
    /\ step \in [Viewers -> {"start", "ready", "done"}]
    /\ health \in [Viewers -> Answers \cup {Refused, NotAsked}]
    /\ ready \in [Viewers -> Answers \cup {Refused, NotAsked}]
    /\ stable \in [Viewers -> BOOLEAN]
    /\ \A v \in Viewers : IF step[v] = "done" THEN shown[v].state \in States ELSE shown[v] = NoReport

(* Two pages that read the same answers name the same connection state     *)
(* (docs/architecture.md, "Consistent connection state"), although they    *)
(* are computed by two functions and one may not have asked for /ready.    *)
(* The answers the two functions classify differently are left to          *)
(* SameStateOnEveryPage.                                                   *)
PagesAgree ==
    \A v \in StatusViewers, w \in DiagnosticViewers :
        /\ step[v] = "done" /\ step[w] = "done"
        /\ health[v] = health[w]
        /\ ready[v] \in {ready[w], NotAsked}
        /\ "unexpected" \notin {health[v].failure, ready[v].failure}
        => shown[v].state = shown[w].state

(* When the gateway stays as it is during the two reads, the state shown   *)
(* is the one it is in, read off the glossary: unreachable when /health    *)
(* cannot be had, error when it is not 200, ready when both are 200.       *)
StateOfGateway ==
    CASE HttpError(gateway["health"])                    -> "unreachable"
      [] Reached(gateway["health"]) /\ ~Ok(gateway["health"]) -> "error"
      [] Ok(gateway["health"]) /\ Ok(gateway["ready"])   -> "ready"
      [] OTHER                                           -> "reachable"

StableGatewayIsSeen ==
    [][\A v \in Viewers :
         /\ step[v] # "done" /\ step'[v] = "done"
         /\ Configured(client)
         /\ stable[v]
         /\ \A e \in Endpoints : gateway[e].failure # "unexpected"
         => shown'[v].state = StateOfGateway]_vars

(* "Overall: ready" on the diagnostics page takes both a 200 and a body    *)
(* that says so, read in this very request.                                *)
OverallReadyIsRead ==
    \A w \in DiagnosticViewers :
        step[w] = "done" /\ shown[w].overall_ready = "yes" =>
            /\ shown[w].last_successful_ready
            /\ ready[w].status = "ready"
            /\ Ok(health[w]) => shown[w].state = "ready"

(* Every page keeps the promise of StatusPages: whatever the gateway does  *)
(* between the two reads, the state named is the glossary's for /health as *)
(* it was and /ready as it is, at two moments of this one request.         *)
ConditionOf(a) == IF ~Reached(a) THEN "silent" ELSE IF Ok(a) THEN "fine" ELSE "failing"

Promise == INSTANCE StatusPages WITH
    address <- IF ~Configured(client) THEN "missing"
               ELSE IF gateway["health"] = Refused THEN "refused" ELSE "usable",
    gateway <- [e \in Endpoints |-> ConditionOf(gateway[e])],
    glimpse <- [v \in Viewers |-> IF step[v] = "ready" THEN ConditionOf(health[v]) ELSE "unseen"],
    page    <- [v \in Viewers |-> shown[v].state]

ImplementsStatusPages == Promise!Spec

----------------------------------------------------------------------------
(* What the docs say and the code does not do.                             *)

(* index.html: "The same connection state is shown there" (on the          *)
(* diagnostics page).                                                      *)
SameStateOnEveryPage ==
    \A v \in StatusViewers, w \in DiagnosticViewers :
        /\ step[v] = "done" /\ step[w] = "done"
        /\ health[v] = health[w]
        /\ ready[v] \in {ready[w], NotAsked}
        => shown[v].state = shown[w].state

(* diagnostics.py and docs/architecture.md: configured and unreachable,    *)
(* "the console surfaces no live state".                                   *)
UnreachableShowsNoLiveState ==
    \A w \in DiagnosticViewers :
        step[w] = "done" /\ shown[w].state = "unreachable" =>
            shown[w].overall_ready = Null /\ shown[w].components = <<>>

=============================================================================
