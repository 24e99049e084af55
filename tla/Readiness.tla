----------------------------- MODULE Readiness -----------------------------
(***************************************************************************)
(* The console's own life: the lifespan of main.py with the settings it    *)
(* leaves in app.state, the readiness singleton of readiness.py (one lock  *)
(* per read or write, so a handler that reads it twice may see two         *)
(* states), GET /ready, which probes the gateway first and reads the       *)
(* singleton up to three times afterwards, and the pages, which read the   *)
(* presentation mode and the gateway client from app.state one after the   *)
(* other.                                                                  *)
(*                                                                         *)
(* What app.state holds is named by the lifespan that put it there; 0 is   *)
(* the fallback of the readers (operator mode, an unconfigured client).    *)
(*                                                                         *)
(* External: when the server starts and stops the application.  It need    *)
(* not let requests in flight finish before it runs the shutdown: their    *)
(* worker threads go on, through the next startup too.                     *)
(***************************************************************************)
EXTENDS Naturals

CONSTANTS Requests,    \* GET /ready requests
          Viewers,     \* requests for a page that shows the gateway's status
          Reports,     \* what check_status may report: [configured, reachable]
          Lifespans    \* how often the process runs the lifespan

ASSUME ReadinessAssumption == Lifespans \in Nat

VARIABLES phase,       \* down, configured, built, serving
          runs,        \* lifespans entered so far
          loaded,      \* the lifespans whose configuration loaded
          config,      \* app.state.config
          client,      \* app.state.gateway_client
          components,  \* _components; a component not registered is Unknown
          handler,     \* the handler of each GET /ready
          answer,      \* its response
          page         \* what each page shows

appState == <<config, client>>
vars == <<phase, runs, loaded, appState, components, handler, answer, page>>

Names == {"configuration_loaded", "app"}
Unknown == "unknown"
Up == "up"
NotUp == "not_up"

NoReport == [configured |-> FALSE, reachable |-> FALSE]
NoneRegistered == [n \in Names |-> Unknown]
Idle == [at |-> "idle", born |-> 0, report |-> NoReport, snapshot |-> NoneRegistered]
NoAnswer == [code |-> 0, components |-> NoneRegistered, report |-> NoReport, reason |-> "none",
             settled |-> FALSE]
NoPage == [at |-> "idle", born |-> 0, mode |-> 0, client |-> 0, settled |-> FALSE]

(* Has the lifespan a request came in served without a break until now?    *)
Settled(born) == phase = "serving" /\ runs = born

----------------------------------------------------------------------------
(* ReadinessState.                                                         *)

Registered == {n \in Names : components[n] # Unknown}

(* Mutated form: no component at all counts as ready, as does any one.     *)
IsReady_Any == Registered = {} \/ \E n \in Registered : components[n] = Up

IsReady == Registered # {} /\ \A n \in Registered : components[n] = Up

(* The first component that is not ready, in registration order: the       *)
(* configuration is always registered before "app".                        *)
Reason ==
    IF components["configuration_loaded"] = NotUp THEN "startup_failed"
    ELSE IF components["app"] = NotUp THEN "shutting_down" ELSE "none"

MarkReady(n) == components' = [components EXCEPT ![n] = Up]

(* Mutated form: the reason is stored in place of the state.               *)
MarkNotReady_Reason(n) == components' = [components EXCEPT ![n] = "shutting_down"]

MarkNotReady(n) == components' = [components EXCEPT ![n] = NotUp]

----------------------------------------------------------------------------
(* The lifespan.  Its steps run on the event loop, but threads of requests *)
(* of an earlier lifespan may run between them.                            *)

Init ==
    /\ phase = "down"
    /\ runs = 0
    /\ loaded = {}
    /\ config = 0 /\ client = 0
    /\ components = NoneRegistered
    /\ handler = [q \in Requests |-> Idle]
    /\ answer = [q \in Requests |-> NoAnswer]
    /\ page = [v \in Viewers |-> NoPage]

(* load_config, and app.state.config.  A configuration that does not load  *)
(* is logged, and the application is served all the same, with whatever    *)
(* app.state holds.                                                        *)
LoadConfig ==
    /\ phase = "down"
    /\ runs < Lifespans
    /\ runs' = runs + 1
    /\ \/ /\ config' = runs + 1
          /\ loaded' = loaded \cup {runs + 1}
          /\ phase' = "configured"
          /\ UNCHANGED components
       \/ /\ MarkNotReady("configuration_loaded")
          /\ phase' = "serving"
          /\ UNCHANGED <<config, loaded>>
    /\ UNCHANGED <<client, handler, answer, page>>

(* Mutated form: the client is built once in the life of the process.      *)
BuildClient_Once ==
    /\ phase = "configured"
    /\ phase' = "built"
    /\ client' = IF client = 0 THEN runs ELSE client
    /\ UNCHANGED <<runs, loaded, config, components, handler, answer, page>>

(* app.state.gateway_client                                                *)
BuildClient ==
    /\ phase = "configured"
    /\ phase' = "built"
    /\ client' = runs
    /\ UNCHANGED <<runs, loaded, config, components, handler, answer, page>>

(* mark_ready, and the yield.                                              *)
Serve ==
    /\ phase = "built"
    /\ phase' = "serving"
    /\ MarkReady("configuration_loaded")
    /\ UNCHANGED <<runs, loaded, appState, handler, answer, page>>

(* After the yield.                                                        *)
Shutdown ==
    /\ phase = "serving"
    /\ phase' = "down"
    /\ MarkNotReady("app")
    /\ UNCHANGED <<runs, loaded, appState, handler, answer, page>>

----------------------------------------------------------------------------
(* GET /ready.                                                             *)

(* The request arrives; check_status comes back with its report.           *)
Probe(q) ==
    /\ phase = "serving"
    /\ handler[q].at = "idle"
    /\ \E r \in Reports :
          /\ client = 0 => ~r.configured
          /\ handler' = [handler EXCEPT
                ![q] = [Idle EXCEPT !.at = "probed", !.born = runs, !.report = r]]
    /\ UNCHANGED <<phase, runs, loaded, appState, components, answer, page>>

(* components = dict(state.components)                                     *)
Snapshot(q) ==
    /\ handler[q].at = "probed"
    /\ handler' = [handler EXCEPT ![q].at = "read", ![q].snapshot = components]
    /\ UNCHANGED <<phase, runs, loaded, appState, components, answer, page>>

Respond(q, code, reason) ==
    /\ answer' = [answer EXCEPT ![q] =
                    [code |-> code, components |-> handler[q].snapshot,
                     report |-> handler[q].report, reason |-> reason,
                     settled |-> Settled(handler[q].born)]]
    /\ handler' = [handler EXCEPT ![q].at = "done"]

(* Mutated form: an unreachable gateway makes the console unready.         *)
CheckReady_WithGateway(q) ==
    /\ handler[q].at = "read"
    /\ IF IsReady /\ handler[q].report.reachable THEN Respond(q, 200, "none")
       ELSE handler' = [handler EXCEPT ![q].at = "not_ready"] /\ UNCHANGED answer
    /\ UNCHANGED <<phase, runs, loaded, appState, components, page>>

(* if state.is_ready: ...                                                  *)
CheckReady(q) ==
    /\ handler[q].at = "read"
    /\ IF IsReady THEN Respond(q, 200, "none")
       ELSE handler' = [handler EXCEPT ![q].at = "not_ready"] /\ UNCHANGED answer
    /\ UNCHANGED <<phase, runs, loaded, appState, components, page>>

(* Mutated form: only the shutdown is thought of as a reason.              *)
RespondNotReady_AppOnly(q) ==
    /\ handler[q].at = "not_ready"
    /\ Respond(q, 503, IF components["app"] = NotUp THEN "shutting_down" ELSE "none")
    /\ UNCHANGED <<phase, runs, loaded, appState, components, page>>

(* reason=state.reason or "console not initialized"                        *)
RespondNotReady(q) ==
    /\ handler[q].at = "not_ready"
    /\ Respond(q, 503, IF Reason = "none" THEN "not_initialized" ELSE Reason)
    /\ UNCHANGED <<phase, runs, loaded, appState, components, page>>

----------------------------------------------------------------------------
(* A page: _console_mode for the base context, then _gateway_client.       *)

ReadMode(v) ==
    /\ phase = "serving"
    /\ page[v].at = "idle"
    /\ page' = [page EXCEPT ![v] = [NoPage EXCEPT !.at = "mode", !.born = runs, !.mode = config]]
    /\ UNCHANGED <<phase, runs, loaded, appState, components, handler, answer>>

ReadClient(v) ==
    /\ page[v].at = "mode"
    /\ page' = [page EXCEPT ![v].at = "done", ![v].client = client,
                            ![v].settled = Settled(page[v].born)]
    /\ UNCHANGED <<phase, runs, loaded, appState, components, handler, answer>>

(* The last lifespan is over and every request that came is answered.      *)
Exit ==
    /\ phase = "down" /\ runs = Lifespans
    /\ \A q \in Requests : handler[q].at \in {"idle", "done"}
    /\ \A v \in Viewers : page[v].at \in {"idle", "done"}
    /\ UNCHANGED vars

Next ==
    \/ LoadConfig \/ BuildClient \/ Serve \/ Shutdown \/ Exit
    \/ \E q \in Requests : Probe(q) \/ Snapshot(q) \/ CheckReady(q) \/ RespondNotReady(q)
    \/ \E v \in Viewers : ReadMode(v) \/ ReadClient(v)

Spec == Init /\ [][Next]_vars

----------------------------------------------------------------------------

States == {Unknown, Up, NotUp}

HandlerType == [at : {"idle", "probed", "read", "not_ready", "done"}, born : Nat,
                report : Reports \cup {NoReport}, snapshot : [Names -> States]]

AnswerType == [code : {0, 200, 503}, components : [Names -> States],
               report : Reports \cup {NoReport},
               reason : {"none", "startup_failed", "shutting_down", "not_initialized"},
               settled : BOOLEAN]

PageType == [at : {"idle", "mode", "done"}, born : Nat, mode : Nat, client : Nat,
             settled : BOOLEAN]

(* The types of the variables; a request is answered exactly when done.    *)
TypeOK ==
    /\ phase \in {"down", "configured", "built", "serving"}
    /\ runs \in 0..Lifespans
    /\ loaded \subseteq 1..runs
    /\ config \in 0..runs /\ client \in 0..runs
    /\ components \in [Names -> States]
    /\ handler \in [Requests -> HandlerType]
    /\ answer \in [Requests -> AnswerType]
    /\ page \in [Viewers -> PageType]
    /\ \A q \in Requests : handler[q].born <= runs
    /\ \A v \in Viewers : page[v].born <= runs /\ page[v].mode <= runs /\ page[v].client <= runs
    /\ \A q \in Requests : answer[q].code # 0 <=> handler[q].at = "done"

(* routes.py: "gateway connectivity is reported additively".  An answer    *)
(* given within one lifespan says what its startup came to, whatever the   *)
(* gateway reported; and a shutdown earlier in the process is never        *)
(* forgotten, so that only the first lifespan is ever ready.               *)
AnswerIsTheStartups ==
    \A q \in Requests :
        answer[q].settled =>
            (answer[q].code = 200 <=> handler[q].born = 1 /\ 1 \in loaded)

(* A 503 says why: the reason it carries is that of a component which was  *)
(* not ready, although the reason is read after the decision and without   *)
(* the lock in between, perhaps in another lifespan.                       *)
UnreadyHasReason ==
    \A q \in Requests : answer[q].code = 503 =>
        answer[q].reason \in {"startup_failed", "shutting_down"}

(* An answer of 200 never tells of a component that is not ready.          *)
ReadyBodyIsReady ==
    \A q \in Requests : answer[q].code = 200 =>
        \A n \in Names : answer[q].components[n] # NotUp

(* A page rendered within one lifespan never mixes two configurations: its *)
(* mode and its gateway client are both of the newest lifespan that loaded *)
(* one, which after a failed startup is an earlier one, or both are the    *)
(* fallbacks.                                                              *)
PageIsOfOneStartup ==
    \A v \in Viewers :
        page[v].settled =>
            /\ page[v].client = page[v].mode
            /\ page[v].mode \in loaded \cup {0}
            /\ \A r \in loaded : r <= page[v].born => r <= page[v].mode

=============================================================================
