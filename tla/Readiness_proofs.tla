-------------------------- MODULE Readiness_proofs --------------------------
(***************************************************************************)
(* What holds of Readiness for any requests, viewers, gateway reports and  *)
(* number of lifespans.  The invariant of the lifespan says what app.state *)
(* and the singleton hold in each phase; the invariants of the handlers    *)
(* say how much of what a request has read is still true.                  *)
(***************************************************************************)
EXTENDS Readiness, TLAPS

(* What the lifespan has written, by phase: the client follows the         *)
(* configuration, the configuration is the newest that loaded, and one     *)
(* shutdown marks "app" for good.                                          *)
LifespanInv ==
    /\ runs = 0 => phase = "down"
    /\ phase \in {"configured", "built"} => runs \in loaded /\ config = runs
    /\ phase \in {"built", "down", "serving"} => client = config
    /\ config \in loaded \cup {0}
    /\ \A r \in loaded : r <= config
    /\ components["app"] # Up
    /\ components["app"] = NotUp <=> (runs > 1 \/ (runs = 1 /\ phase = "down"))
    /\ components["configuration_loaded"] = Unknown <=>
          runs = 0 \/ (runs = 1 /\ phase \in {"configured", "built"})
    /\ phase = "serving" =>
          components["configuration_loaded"] = IF runs \in loaded THEN Up ELSE NotUp

(* A request came while a lifespan served, and no later than now.          *)
Came(born) ==
    /\ born >= 1
    /\ phase \in {"configured", "built"} => born < runs
    /\ components["configuration_loaded"] # Unknown

(* Something in the singleton is not ready.                                *)
SomeNotUp == components["configuration_loaded"] = NotUp \/ components["app"] = NotUp

(* What a handler of GET /ready has read is still true enough.             *)
Holds(h) ==
    /\ h.at # "idle" => Came(h.born)
    /\ h.at \in {"read", "not_ready"} =>
          /\ h.snapshot["app"] = NotUp => components["app"] = NotUp
          /\ h.snapshot["configuration_loaded"] = NotUp => SomeNotUp
    /\ h.at = "not_ready" =>
          /\ SomeNotUp
          /\ Settled(h.born) => ~(runs = 1 /\ 1 \in loaded)

HandlerInv == \A q \in Requests : Holds(handler[q])

(* What a page has read so far.                                            *)
PageInv ==
    \A v \in Viewers :
        page[v].at # "idle" =>
            /\ page[v].born >= 1
            /\ phase \in {"configured", "built"} => page[v].born < runs
            /\ page[v].at = "mode" /\ Settled(page[v].born) => page[v].mode = config

Answers ==
    /\ AnswerIsTheStartups /\ UnreadyHasReason /\ ReadyBodyIsReady
    /\ \A q \in Requests : answer[q].settled => answer[q].code # 0

Inv == TypeOK /\ LifespanInv /\ HandlerInv /\ PageInv /\ Answers /\ PageIsOfOneStartup

(* The records a request starts with are of their types.                   *)
LEMMA InitialRecords ==
    /\ Idle \in HandlerType /\ NoAnswer \in AnswerType /\ NoPage \in PageType
    /\ NoneRegistered \in [Names -> States]
<1>1. NoneRegistered \in [Names -> States] BY DEF NoneRegistered, States
<1>2. Idle \in HandlerType BY <1>1 DEF Idle, HandlerType
<1>3. NoAnswer \in AnswerType BY <1>1 DEF NoAnswer, AnswerType
<1>4. NoPage \in PageType BY DEF NoPage, PageType
<1> QED BY <1>1, <1>2, <1>3, <1>4

LEMMA InitInv == Init => Inv
<1> SUFFICES ASSUME Init PROVE Inv OBVIOUS
<1> USE DEF Init
<1>1. TypeOK
  <2>1. handler \in [Requests -> HandlerType] BY InitialRecords
  <2>2. answer \in [Requests -> AnswerType] BY InitialRecords
  <2>3. page \in [Viewers -> PageType] BY InitialRecords
  <2>4. \A q \in Requests : answer[q].code = 0 /\ handler[q].at = "idle" /\ handler[q].born = 0
    BY DEF NoAnswer, Idle
  <2>5. \A v \in Viewers : page[v] = NoPage OBVIOUS
  <2> QED BY <2>1, <2>2, <2>3, <2>4, <2>5, InitialRecords, ReadinessAssumption DEF TypeOK, NoPage
<1>2. LifespanInv
  BY DEF LifespanInv, NoneRegistered, Names, Unknown, Up, NotUp
<1>3. HandlerInv BY DEF HandlerInv, Holds, Idle
<1>4. PageInv BY DEF PageInv, NoPage
<1>5. Answers
  <2>1. \A q \in Requests : answer[q].code = 0 /\ answer[q].settled = FALSE BY DEF NoAnswer
  <2> QED BY <2>1 DEF Answers, AnswerIsTheStartups, UnreadyHasReason, ReadyBodyIsReady
<1>6. PageIsOfOneStartup BY DEF PageIsOfOneStartup, NoPage
<1> QED BY <1>1, <1>2, <1>3, <1>4, <1>5, <1>6 DEF Inv

(* A step that changes one handler, and perhaps its answer, keeps the      *)
(* types when what it writes is typed and done means answered.             *)
LEMMA HandlerTyped ==
    ASSUME TypeOK, NEW q \in Requests, NEW h \in HandlerType, NEW a \in AnswerType,
           handler' = [handler EXCEPT ![q] = h], answer' = [answer EXCEPT ![q] = a],
           h.born <= runs, a.code # 0 <=> h.at = "done",
           UNCHANGED <<phase, runs, loaded, appState, components, page>>
    PROVE  TypeOK'
<1>1. handler' \in [Requests -> HandlerType] /\ answer' \in [Requests -> AnswerType]
  BY DEF TypeOK
<1>2. handler'[q] = h /\ answer'[q] = a
  BY DEF TypeOK
<1>3. \A p \in Requests : p # q => handler'[p] = handler[p] /\ answer'[p] = answer[p]
  BY DEF TypeOK
<1> QED BY <1>1, <1>2, <1>3 DEF TypeOK, appState

(* The same for a page.                                                    *)
LEMMA PageTyped ==
    ASSUME TypeOK, NEW v \in Viewers, NEW g \in PageType, page' = [page EXCEPT ![v] = g],
           g.born <= runs, g.mode <= runs, g.client <= runs,
           UNCHANGED <<phase, runs, loaded, appState, components, handler, answer>>
    PROVE  TypeOK'
<1>1. page' \in [Viewers -> PageType] /\ page'[v] = g
  BY DEF TypeOK
<1>2. \A w \in Viewers : w # v => page'[w] = page[w]
  BY DEF TypeOK
<1> QED BY <1>1, <1>2 DEF TypeOK, appState

(* Each action keeps the variables in their types.                         *)
LEMMA TypeStep == TypeOK /\ [Next]_vars => TypeOK'
<1> SUFFICES ASSUME TypeOK, [Next]_vars PROVE TypeOK' OBVIOUS
<1>a. /\ \A q \in Requests : handler[q].born \in Nat
      /\ \A v \in Viewers : page[v].born \in Nat /\ page[v].mode \in Nat /\ page[v].client \in Nat
  BY DEF TypeOK, HandlerType, PageType
<1>b. \A q \in Requests : handler[q] \in HandlerType /\ answer[q] \in AnswerType
  BY DEF TypeOK
<1>c. runs \in Nat /\ config \in Nat /\ client \in Nat
  BY ReadinessAssumption DEF TypeOK
<1>1. CASE LoadConfig
  <2>1. /\ runs' \in 0..Lifespans /\ runs' = runs + 1
        /\ loaded' \subseteq 1..runs' /\ config' \in 0..runs' /\ client' \in 0..runs'
    <3>1. runs' = runs + 1 /\ runs' \in 0..Lifespans /\ config \in 0..runs' /\ client' \in 0..runs'
      BY <1>1, ReadinessAssumption DEF LoadConfig, TypeOK
    <3>2. loaded \subseteq 1..runs' /\ loaded \cup {runs'} \subseteq 1..runs'
      BY <3>1, <1>c DEF TypeOK
    <3>3. loaded' \in {loaded, loaded \cup {runs'}} /\ config' \in {config, runs'}
      BY <1>1 DEF LoadConfig
    <3> QED BY <1>c, <3>1, <3>2, <3>3
  <2>2. /\ phase' \in {"down", "configured", "built", "serving"}
        /\ components' \in [Names -> States]
    BY <1>1 DEF LoadConfig, MarkNotReady, States, TypeOK
  <2>3. /\ \A q \in Requests : handler[q].born <= runs'
        /\ \A v \in Viewers : page[v].born <= runs' /\ page[v].mode <= runs' /\ page[v].client <= runs'
    BY <1>a, <1>c, <2>1 DEF TypeOK
  <2> QED BY <1>1, <2>1, <2>2, <2>3 DEF LoadConfig, TypeOK
<1>2. CASE BuildClient BY <1>2, <1>c DEF BuildClient, TypeOK
<1>3. CASE Serve BY <1>3 DEF Serve, MarkReady, States, appState, TypeOK
<1>4. CASE Shutdown BY <1>4 DEF Shutdown, MarkNotReady, States, appState, TypeOK
<1>5. ASSUME NEW q \in Requests, Probe(q) PROVE TypeOK'
  <2> PICK r \in Reports : handler' = [handler EXCEPT
                ![q] = [Idle EXCEPT !.at = "probed", !.born = runs, !.report = r]]
    BY <1>5 DEF Probe
  <2> DEFINE h == [Idle EXCEPT !.at = "probed", !.born = runs, !.report = r]
  <2>1. h \in HandlerType /\ h.born = runs /\ h.at = "probed"
    BY InitialRecords, <1>c DEF HandlerType, Idle
  <2>2. answer' = [answer EXCEPT ![q] = answer[q]] BY <1>5 DEF Probe, TypeOK
  <2>3. answer[q].code = 0 BY <1>5, <1>b DEF Probe, TypeOK, AnswerType
  <2>4. handler' = [handler EXCEPT ![q] = h] OBVIOUS
  <2>5. h.born <= runs BY <2>1, <1>c
  <2> HIDE DEF h
  <2> QED BY <1>5, <1>b, <2>1, <2>2, <2>3, <2>4, <2>5, HandlerTyped DEF Probe
<1>6. ASSUME NEW q \in Requests, Snapshot(q) PROVE TypeOK'
  <2> DEFINE h == [handler[q] EXCEPT !.at = "read", !.snapshot = components]
  <2>1. h \in HandlerType /\ h.born = handler[q].born /\ h.at = "read"
    BY <1>b DEF HandlerType, TypeOK
  <2>2. handler' = [handler EXCEPT ![q] = h] BY <1>6 DEF Snapshot
  <2>3. answer' = [answer EXCEPT ![q] = answer[q]] BY <1>6 DEF Snapshot, TypeOK
  <2>4. answer[q].code = 0 BY <1>6, <1>b DEF Snapshot, TypeOK, AnswerType
  <2>5. handler[q].born <= runs BY DEF TypeOK
  <2> QED BY <1>6, <1>b, <2>1, <2>2, <2>3, <2>4, <2>5, HandlerTyped DEF Snapshot
<1>7. ASSUME NEW q \in Requests, handler[q].at = "read",
             UNCHANGED <<phase, runs, loaded, appState, components, page>>,
             handler' = [handler EXCEPT ![q].at = "not_ready"], UNCHANGED answer
      PROVE  TypeOK'
  <2> DEFINE h == [handler[q] EXCEPT !.at = "not_ready"]
  <2>1. h \in HandlerType /\ h.born = handler[q].born /\ h.at = "not_ready"
    BY <1>b DEF HandlerType
  <2>2. handler' = [handler EXCEPT ![q] = h] BY <1>7
  <2>3. answer' = [answer EXCEPT ![q] = answer[q]] BY <1>7 DEF TypeOK
  <2>4. answer[q].code = 0 BY <1>7, <1>b DEF TypeOK, AnswerType
  <2>5. handler[q].born <= runs BY DEF TypeOK
  <2> QED BY <1>7, <1>b, <2>1, <2>2, <2>3, <2>4, <2>5, HandlerTyped
<1>8. ASSUME NEW q \in Requests, NEW code \in {200, 503},
             NEW reason \in {"none", "startup_failed", "shutting_down", "not_initialized"},
             Respond(q, code, reason),
             UNCHANGED <<phase, runs, loaded, appState, components, page>>
      PROVE  TypeOK'
  <2> DEFINE h == [handler[q] EXCEPT !.at = "done"]
             a == [code |-> code, components |-> handler[q].snapshot,
                   report |-> handler[q].report, reason |-> reason,
                   settled |-> Settled(handler[q].born)]
  <2>1. h \in HandlerType /\ h.born = handler[q].born /\ h.at = "done"
    BY <1>b DEF HandlerType
  <2>2. handler' = [handler EXCEPT ![q] = h] BY <1>8 DEF Respond
  <2>3. answer' = [answer EXCEPT ![q] = a] BY <1>8 DEF Respond
  <2>4. a \in AnswerType
    <3>1. handler[q].snapshot \in [Names -> States] /\ handler[q].report \in Reports \cup {NoReport}
      BY <1>b DEF HandlerType
    <3>2. Settled(handler[q].born) \in BOOLEAN BY DEF Settled
    <3> QED BY <3>1, <3>2 DEF AnswerType
  <2>5. a.code # 0 OBVIOUS
  <2>6. h.born <= runs BY <2>1 DEF TypeOK
  <2> HIDE DEF h, a
  <2>7. /\ handler' \in [Requests -> HandlerType] /\ answer' \in [Requests -> AnswerType]
        /\ handler'[q] = h /\ answer'[q] = a
    BY <2>1, <2>2, <2>3, <2>4 DEF TypeOK
  <2>8. \A p \in Requests : p # q => handler'[p] = handler[p] /\ answer'[p] = answer[p]
    BY <2>2, <2>3 DEF TypeOK
  <2>9. /\ \A p \in Requests : handler'[p].born <= runs
        /\ \A p \in Requests : answer'[p].code # 0 <=> handler'[p].at = "done"
    BY <2>1, <2>5, <2>6, <2>7, <2>8 DEF TypeOK
  <2> QED BY <1>8, <2>7, <2>9 DEF TypeOK, appState
<1>9. ASSUME NEW q \in Requests, CheckReady(q) PROVE TypeOK'
  BY <1>7, <1>8, <1>9 DEF CheckReady
<1>10. ASSUME NEW q \in Requests, RespondNotReady(q) PROVE TypeOK'
  BY <1>8, <1>10 DEF RespondNotReady, Reason
<1>11. ASSUME NEW v \in Viewers, ReadMode(v) PROVE TypeOK'
  <2> DEFINE g == [NoPage EXCEPT !.at = "mode", !.born = runs, !.mode = config]
  <2>1. g \in PageType /\ g.born = runs /\ g.mode = config /\ g.client = 0
    BY <1>c DEF PageType, NoPage
  <2>2. page' = [page EXCEPT ![v] = g] BY <1>11 DEF ReadMode
  <2>3. g.born <= runs /\ g.mode <= runs /\ g.client <= runs
    BY <2>1, <1>c DEF TypeOK
  <2> HIDE DEF g
  <2> QED BY <1>11, <2>1, <2>2, <2>3, PageTyped DEF ReadMode
<1>12. ASSUME NEW v \in Viewers, ReadClient(v) PROVE TypeOK'
  <2> DEFINE g == [page[v] EXCEPT !.at = "done", !.client = client,
                                  !.settled = Settled(page[v].born)]
  <2>0. page[v] \in PageType /\ Settled(page[v].born) \in BOOLEAN
    BY DEF TypeOK, Settled
  <2>1. g \in PageType /\ g.born = page[v].born /\ g.mode = page[v].mode /\ g.client = client
    BY <1>c, <2>0 DEF PageType
  <2>2. page' = [page EXCEPT ![v] = g] BY <1>12 DEF ReadClient
  <2>3. g.born <= runs /\ g.mode <= runs /\ g.client <= runs
    BY <2>1, <1>c DEF TypeOK
  <2> HIDE DEF g
  <2> QED BY <1>12, <2>1, <2>2, <2>3, PageTyped DEF ReadClient
<1>13. CASE UNCHANGED vars BY <1>13 DEF vars, appState, TypeOK
<1> QED
  BY <1>1, <1>2, <1>3, <1>4, <1>5, <1>6, <1>9, <1>10, <1>11, <1>12, <1>13 DEF Next, Exit

(* The lifespan writes in order: configuration, client, component.         *)
LEMMA LifespanStep == TypeOK /\ LifespanInv /\ [Next]_vars => LifespanInv'
<1> SUFFICES ASSUME TypeOK, LifespanInv, [Next]_vars PROVE LifespanInv' OBVIOUS
<1>t. /\ runs \in Nat /\ config \in Nat /\ client \in Nat /\ \A r \in loaded : r \in Nat /\ r <= runs
      /\ components \in [Names -> States]
  BY ReadinessAssumption DEF TypeOK
<1> USE DEF LifespanInv
<1>1. CASE LoadConfig
  <2>1. CASE components' = components /\ config' = runs + 1 /\ loaded' = loaded \cup {runs + 1}
             /\ phase' = "configured"
    BY <1>1, <1>t, <2>1 DEF LoadConfig, Up
  <2>2. CASE MarkNotReady("configuration_loaded") /\ phase' = "serving" /\ UNCHANGED <<config, loaded>>
    <3>1. /\ components'["configuration_loaded"] = NotUp
          /\ components'["app"] = components["app"]
      BY <1>t, <2>2 DEF MarkNotReady, Names
    <3>2. runs' \notin loaded' BY <1>1, <1>t, <2>2 DEF LoadConfig
    <3> QED BY <1>1, <1>t, <2>2, <3>1, <3>2 DEF LoadConfig, Unknown, Up, NotUp
  <2> QED BY <1>1, <2>1, <2>2 DEF LoadConfig
<1>2. CASE BuildClient BY <1>2, <1>t DEF BuildClient
<1>3. CASE Serve
  <2>1. /\ components'["configuration_loaded"] = Up
        /\ components'["app"] = components["app"]
    BY <1>3, <1>t DEF Serve, MarkReady, Names
  <2> QED BY <1>3, <1>t, <2>1 DEF Serve, appState, Unknown, Up, NotUp
<1>4. CASE Shutdown
  <2>1. /\ components'["configuration_loaded"] = components["configuration_loaded"]
        /\ components'["app"] = NotUp
    BY <1>4, <1>t DEF Shutdown, MarkNotReady, Names
  <2>2. runs >= 1 BY <1>4, <1>t DEF Shutdown
  <2> QED BY <1>4, <1>t, <2>1, <2>2 DEF Shutdown, appState, Unknown, Up, NotUp
<1>5. ASSUME UNCHANGED <<phase, runs, loaded, appState, components>> PROVE LifespanInv'
  BY <1>5 DEF appState
<1>6. ASSUME NEW q \in Requests, Probe(q) \/ Snapshot(q) \/ CheckReady(q) \/ RespondNotReady(q)
      PROVE  LifespanInv'
  BY <1>5, <1>6 DEF Probe, Snapshot, CheckReady, RespondNotReady
<1>7. ASSUME NEW v \in Viewers, ReadMode(v) \/ ReadClient(v) PROVE LifespanInv'
  BY <1>5, <1>7 DEF ReadMode, ReadClient
<1>8. CASE UNCHANGED vars BY <1>5, <1>8 DEF vars
<1> QED BY <1>1, <1>2, <1>3, <1>4, <1>6, <1>7, <1>8 DEF Next, Exit

(* What the singleton says, once any request has come.                     *)
LEMMA ReadyMeans ==
    ASSUME TypeOK, LifespanInv
    PROVE  /\ IsReady => /\ components["configuration_loaded"] = Up
                          /\ components["app"] # NotUp
           /\ ~IsReady /\ components["configuration_loaded"] # Unknown => SomeNotUp
           /\ phase = "serving" => (IsReady <=> runs = 1 /\ 1 \in loaded)
           /\ SomeNotUp => Reason \in {"startup_failed", "shutting_down"}
<1>1. components \in [Names -> States] /\ runs \in Nat
  BY ReadinessAssumption DEF TypeOK
<1>2. IsReady <=> /\ components["configuration_loaded"] = Up \/ components["app"] = Up
                  /\ components["configuration_loaded"] \in {Unknown, Up}
                  /\ components["app"] \in {Unknown, Up}
  BY <1>1 DEF IsReady, Registered, Names, States, Unknown, Up, NotUp
<1>3. components["app"] # Up BY DEF LifespanInv
<1>4. IsReady <=> components["configuration_loaded"] = Up /\ components["app"] = Unknown
  BY <1>2, <1>3 DEF Unknown, Up
<1>5. components["app"] \in States /\ components["configuration_loaded"] \in States
  BY <1>1 DEF Names
<1>6. IsReady => components["configuration_loaded"] = Up /\ components["app"] # NotUp
  BY <1>4 DEF Unknown, NotUp
<1>7. ~IsReady /\ components["configuration_loaded"] # Unknown => SomeNotUp
  BY <1>3, <1>4, <1>5 DEF SomeNotUp, States
<1>8. phase = "serving" => (IsReady <=> runs = 1 /\ 1 \in loaded)
  <2> SUFFICES ASSUME phase = "serving" PROVE IsReady <=> runs = 1 /\ 1 \in loaded OBVIOUS
  <2>1. runs >= 1 BY <1>1 DEF LifespanInv
  <2>2. components["app"] = Unknown <=> runs = 1
    BY <1>1, <1>3, <1>5, <2>1 DEF LifespanInv, States, Unknown, NotUp
  <2>3. components["configuration_loaded"] = Up <=> runs \in loaded
    BY DEF LifespanInv, Up, NotUp
  <2> QED BY <1>4, <2>2, <2>3
<1>9. SomeNotUp => Reason \in {"startup_failed", "shutting_down"}
  BY DEF SomeNotUp, Reason
<1> QED BY <1>6, <1>7, <1>8, <1>9

(* A step of the lifespan never takes back that something is not ready,    *)
(* nor that a request came, nor lets an earlier lifespan be settled again. *)
LEMMA LifespanMonotone ==
    ASSUME TypeOK, LifespanInv, LoadConfig \/ BuildClient \/ Serve \/ Shutdown
    PROVE  /\ UNCHANGED <<handler, answer, page>>
           /\ components["app"] = NotUp => components'["app"] = NotUp
           /\ SomeNotUp => SomeNotUp'
           /\ \A b \in Nat : b <= runs /\ Came(b) => Came(b)'
           /\ \A b \in Nat : b <= runs /\ Came(b) => ~Settled(b)'
           /\ runs' >= runs /\ loaded \subseteq loaded' /\ loaded' \subseteq loaded \cup {runs + 1}
<1>t. runs \in Nat /\ components \in [Names -> States]
  BY ReadinessAssumption DEF TypeOK
<1>1. CASE LoadConfig
  <2>1. runs' = runs + 1 /\ components'["app"] = components["app"]
    BY <1>1, <1>t DEF LoadConfig, MarkNotReady, Names
  <2>2. \/ phase' = "configured" /\ UNCHANGED components
        \/ phase' = "serving" /\ components'["configuration_loaded"] = NotUp
    BY <1>1, <1>t DEF LoadConfig, MarkNotReady, Names
  <2> QED BY <1>1, <1>t, <2>1, <2>2 DEF LoadConfig, SomeNotUp, Came, Settled, Unknown, NotUp
<1>2. CASE BuildClient BY <1>2, <1>t DEF BuildClient, SomeNotUp, Came, Settled
<1>3. CASE Serve
  <2>1. /\ components'["app"] = components["app"]
        /\ components'["configuration_loaded"] = Up
    BY <1>3, <1>t DEF Serve, MarkReady, Names
  <2>2. components["configuration_loaded"] = NotUp => components["app"] = NotUp
    <3>1. phase = "built" /\ runs >= 1 BY <1>3, <1>t DEF Serve, LifespanInv
    <3>2. CASE runs > 1 BY <3>2 DEF LifespanInv
    <3>3. CASE runs = 1 BY <1>3, <3>1, <3>3 DEF LifespanInv, Unknown, NotUp
    <3> QED BY <1>t, <3>1, <3>2, <3>3
  <2> QED BY <1>3, <1>t, <2>1, <2>2 DEF Serve, appState, SomeNotUp, Came, Settled, Unknown, Up
<1>4. CASE Shutdown
  <2>1. /\ components'["app"] = NotUp
        /\ components'["configuration_loaded"] = components["configuration_loaded"]
    BY <1>4, <1>t DEF Shutdown, MarkNotReady, Names
  <2> QED BY <1>4, <1>t, <2>1 DEF Shutdown, appState, SomeNotUp, Came, Settled
<1> QED BY <1>1, <1>2, <1>3, <1>4

(* What a handler has read stays true enough until it answers.             *)
LEMMA HandlerStep ==
    TypeOK /\ LifespanInv /\ HandlerInv /\ [Next]_vars => HandlerInv'
<1> SUFFICES ASSUME TypeOK, LifespanInv, HandlerInv, [Next]_vars PROVE HandlerInv' OBVIOUS
<1>t. /\ runs \in Nat /\ handler \in [Requests -> HandlerType]
      /\ components \in [Names -> States]
      /\ \A q \in Requests : handler[q].born \in Nat /\ handler[q].born <= runs
  BY ReadinessAssumption DEF TypeOK, HandlerType
<1>1. CASE LoadConfig \/ BuildClient \/ Serve \/ Shutdown
  <2>1. UNCHANGED handler BY <1>1, LifespanMonotone
  <2>2. \A q \in Requests : Came(handler[q].born) =>
           Came(handler[q].born)' /\ ~Settled(handler[q].born)'
    BY <1>1, <1>t, <2>1, LifespanMonotone
  <2>3. /\ components["app"] = NotUp => components'["app"] = NotUp
        /\ SomeNotUp => SomeNotUp'
    BY <1>1, LifespanMonotone
  <2> QED BY <2>1, <2>2, <2>3 DEF HandlerInv, Holds
<1>2. ASSUME NEW q \in Requests, NEW h \in HandlerType, handler' = [handler EXCEPT ![q] = h],
             UNCHANGED <<phase, runs, loaded, appState, components>>, Holds(h)
      PROVE  HandlerInv'
  <2>1. handler'[q] = h /\ \A p \in Requests : p # q => handler'[p] = handler[p]
    BY <1>2, <1>t
  <2>2. \A g \in HandlerType : Holds(g) => Holds(g)'
    BY <1>2 DEF Holds, SomeNotUp, Came, Settled
  <2>3. \A p \in Requests : Holds(handler[p]) /\ handler[p] \in HandlerType
    BY <1>t DEF HandlerInv
  <2> QED BY <1>2, <2>1, <2>2, <2>3 DEF HandlerInv
<1>3. ASSUME NEW q \in Requests, Probe(q) PROVE HandlerInv'
  <2> PICK r \in Reports : handler' = [handler EXCEPT
                ![q] = [Idle EXCEPT !.at = "probed", !.born = runs, !.report = r]]
    BY <1>3 DEF Probe
  <2> DEFINE h == [Idle EXCEPT !.at = "probed", !.born = runs, !.report = r]
  <2>1. h \in HandlerType /\ h.born = runs /\ h.at = "probed"
    BY InitialRecords, <1>t DEF HandlerType, Idle
  <2>2. Came(runs)
    BY <1>3, <1>t DEF Probe, Came, LifespanInv, Up, NotUp, Unknown
  <2>3. handler' = [handler EXCEPT ![q] = h] OBVIOUS
  <2>4. Holds(h) BY <2>1, <2>2 DEF Holds
  <2> HIDE DEF h
  <2> QED BY <1>2, <1>3, <2>1, <2>3, <2>4 DEF Probe
<1>4. ASSUME NEW q \in Requests, Snapshot(q) PROVE HandlerInv'
  <2> DEFINE h == [handler[q] EXCEPT !.at = "read", !.snapshot = components]
  <2>1. h \in HandlerType /\ h.born = handler[q].born /\ h.at = "read" /\ h.snapshot = components
    BY <1>t DEF HandlerType
  <2>2. handler' = [handler EXCEPT ![q] = h] BY <1>4 DEF Snapshot
  <2>3. Came(h.born) BY <1>4, <2>1 DEF Snapshot, HandlerInv, Holds
  <2>4. Holds(h) BY <2>1, <2>3 DEF Holds, SomeNotUp
  <2> HIDE DEF h
  <2> QED BY <1>2, <1>4, <2>1, <2>2, <2>4 DEF Snapshot
<1>5. ASSUME NEW q \in Requests, NEW at \in {"not_ready", "done"}, handler[q].at # "idle",
             handler' = [handler EXCEPT ![q].at = at],
             UNCHANGED <<phase, runs, loaded, appState, components>>,
             at = "not_ready" => handler[q].at = "read" /\ ~IsReady
      PROVE  HandlerInv'
  <2> DEFINE h == [handler[q] EXCEPT !.at = at]
  <2>1. /\ h \in HandlerType /\ h.born = handler[q].born /\ h.at = at
        /\ h.snapshot = handler[q].snapshot
    BY <1>t DEF HandlerType
  <2>2. handler' = [handler EXCEPT ![q] = h] BY <1>5
  <2>3. Came(h.born) BY <1>5, <2>1 DEF HandlerInv, Holds
  <2>4. at = "not_ready" => SomeNotUp /\ (Settled(h.born) => ~(runs = 1 /\ 1 \in loaded))
    BY <1>5, <2>3, ReadyMeans DEF Came, Settled
  <2>5. at = "not_ready" =>
           /\ h.snapshot["app"] = NotUp => components["app"] = NotUp
           /\ h.snapshot["configuration_loaded"] = NotUp => SomeNotUp
    BY <1>5, <2>1 DEF HandlerInv, Holds
  <2>6. Holds(h) BY <2>1, <2>3, <2>4, <2>5 DEF Holds
  <2> HIDE DEF h
  <2> QED BY <1>2, <1>5, <2>1, <2>2, <2>6
<1>6. ASSUME NEW q \in Requests, CheckReady(q) PROVE HandlerInv'
  BY <1>5, <1>6 DEF CheckReady, Respond
<1>7. ASSUME NEW q \in Requests, RespondNotReady(q) PROVE HandlerInv'
  BY <1>5, <1>7 DEF RespondNotReady, Respond
<1>8. ASSUME UNCHANGED <<phase, runs, loaded, appState, components, handler>> PROVE HandlerInv'
  BY <1>8 DEF HandlerInv, Holds, Came, SomeNotUp, Settled
<1>9. ASSUME NEW v \in Viewers, ReadMode(v) \/ ReadClient(v) PROVE HandlerInv'
  BY <1>8, <1>9 DEF ReadMode, ReadClient
<1>10. CASE UNCHANGED vars BY <1>8, <1>10 DEF vars
<1> QED BY <1>1, <1>3, <1>4, <1>6, <1>7, <1>9, <1>10 DEF Next, Exit

(* What the answers say was true when they were given, and a later step    *)
(* neither changes it nor makes it false.                                  *)
LEMMA AnswersStep ==
    TypeOK /\ LifespanInv /\ HandlerInv /\ Answers /\ [Next]_vars => Answers'
<1> SUFFICES ASSUME TypeOK, LifespanInv, HandlerInv, Answers, [Next]_vars PROVE Answers' OBVIOUS
<1>t. /\ runs \in Nat /\ handler \in [Requests -> HandlerType]
      /\ answer \in [Requests -> AnswerType]
      /\ \A q \in Requests : handler[q].born \in Nat /\ handler[q].born <= runs
      /\ \A q \in Requests : answer[q].code # 0 <=> handler[q].at = "done"
  BY ReadinessAssumption DEF TypeOK, HandlerType
<1> DEFINE Right(a, born) ==
             /\ a.settled => (a.code = 200 <=> born = 1 /\ 1 \in loaded)
             /\ a.code = 503 => a.reason \in {"startup_failed", "shutting_down"}
             /\ a.code = 200 => \A n \in Names : a.components[n] # NotUp
             /\ a.settled => a.code # 0
<1>a. Answers <=> \A q \in Requests : Right(answer[q], handler[q].born)
  BY DEF Answers, AnswerIsTheStartups, UnreadyHasReason, ReadyBodyIsReady
<1>b. Answers' <=> \A q \in Requests : Right(answer[q], handler[q].born)'
  BY DEF Answers, AnswerIsTheStartups, UnreadyHasReason, ReadyBodyIsReady
<1>c. ASSUME UNCHANGED loaded, UNCHANGED answer,
             \A q \in Requests : handler'[q].born = handler[q].born \/ ~answer[q].settled
      PROVE  Answers'
  <2> SUFFICES ASSUME NEW q \in Requests PROVE Right(answer[q], handler[q].born)' BY <1>b
  <2>1. Right(answer[q], handler[q].born) BY <1>a
  <2> QED BY <1>c, <2>1
<1>1. CASE LoadConfig \/ BuildClient \/ Serve \/ Shutdown
  <2>1. /\ UNCHANGED <<handler, answer>>
        /\ loaded \subseteq loaded' /\ loaded' \subseteq loaded \cup {runs + 1}
    BY <1>1, LifespanMonotone
  <2>2. ASSUME NEW q \in Requests PROVE Right(answer[q], handler[q].born)'
    <3>1. Right(answer[q], handler[q].born) BY <1>a
    <3>2. handler[q].at # "done" => answer[q].code = 0 BY <1>t
    <3>3. CASE handler[q].born = 1
      <4>1. runs + 1 # 1 BY <1>t, <3>3
      <4> QED BY <2>1, <3>1, <4>1
    <3>4. CASE handler[q].born # 1 BY <2>1, <3>1, <3>4
    <3> QED BY <3>3, <3>4
  <2> QED BY <1>b, <2>2
<1>2. ASSUME NEW q \in Requests, Probe(q) PROVE Answers'
  <2>1. \A p \in Requests : p # q => handler'[p] = handler[p] BY <1>2, <1>t DEF Probe
  <2>2. UNCHANGED <<answer, loaded>> BY <1>2 DEF Probe
  <2>3. ~answer[q].settled BY <1>2, <1>t, <1>a DEF Probe
  <2> QED BY <1>c, <2>1, <2>2, <2>3
<1>3. ASSUME NEW q \in Requests, Snapshot(q) PROVE Answers'
  <2>1. \A p \in Requests : handler'[p].born = handler[p].born
    BY <1>3, <1>t DEF Snapshot, HandlerType
  <2> QED BY <1>3, <1>c, <2>1 DEF Snapshot
<1>4. ASSUME NEW q \in Requests, NEW code \in {200, 503}, NEW reason,
             Respond(q, code, reason), UNCHANGED loaded,
             Right([code |-> code, components |-> handler[q].snapshot,
                    report |-> handler[q].report, reason |-> reason,
                    settled |-> Settled(handler[q].born)], handler[q].born)
      PROVE  Answers'
  <2> DEFINE a == [code |-> code, components |-> handler[q].snapshot,
                   report |-> handler[q].report, reason |-> reason,
                   settled |-> Settled(handler[q].born)]
  <2>1. /\ handler' = [handler EXCEPT ![q] = [handler[q] EXCEPT !.at = "done"]]
        /\ answer' = [answer EXCEPT ![q] = a]
    BY <1>4 DEF Respond
  <2>2. \A p \in Requests : handler'[p].born = handler[p].born
    BY <1>t, <2>1 DEF HandlerType
  <2>3. answer'[q] = a /\ \A p \in Requests : p # q => answer'[p] = answer[p]
    BY <1>t, <2>1
  <2>4. Right(a, handler[q].born) BY <1>4
  <2> HIDE DEF a
  <2>5. ASSUME NEW p \in Requests PROVE Right(answer[p], handler[p].born)'
    <3>1. CASE p = q BY <1>4, <2>2, <2>3, <2>4, <3>1
    <3>2. CASE p # q BY <1>4, <1>a, <2>2, <2>3, <3>2
    <3> QED BY <3>1, <3>2
  <2> QED BY <1>b, <2>5
<1>5. ASSUME NEW q \in Requests, CheckReady(q) PROVE Answers'
  <2>1. CASE IsReady
    <3>1. Respond(q, 200, "none") /\ UNCHANGED loaded /\ handler[q].at = "read"
      BY <1>5, <2>1 DEF CheckReady
    <3>2. Holds(handler[q]) BY DEF HandlerInv
    <3>3. \A n \in Names : handler[q].snapshot[n] # NotUp
      BY <2>1, <3>1, <3>2, ReadyMeans DEF Holds, Names, SomeNotUp, Up, NotUp
    <3>4. Settled(handler[q].born) => handler[q].born = 1 /\ 1 \in loaded
      BY <2>1, ReadyMeans DEF Settled
    <3> QED BY <1>4, <3>1, <3>3, <3>4
  <2>2. CASE ~IsReady
    <3>1. \A p \in Requests : handler'[p].born = handler[p].born
      BY <1>5, <1>t, <2>2 DEF CheckReady, HandlerType
    <3>2. UNCHANGED <<answer, loaded>> BY <1>5, <2>2 DEF CheckReady
    <3> QED BY <1>c, <3>1, <3>2
  <2> QED BY <2>1, <2>2
<1>6. ASSUME NEW q \in Requests, RespondNotReady(q) PROVE Answers'
  <2>1. Holds(handler[q]) /\ handler[q].at = "not_ready" BY <1>6 DEF HandlerInv, RespondNotReady
  <2>2. Reason \in {"startup_failed", "shutting_down"} BY <2>1, ReadyMeans DEF Holds
  <2>3. Respond(q, 503, Reason) /\ UNCHANGED loaded BY <1>6, <2>2 DEF RespondNotReady
  <2>4. Settled(handler[q].born) => ~(handler[q].born = 1 /\ 1 \in loaded)
    BY <2>1 DEF Holds, Settled
  <2> QED BY <1>4, <2>2, <2>3, <2>4
<1>7. ASSUME UNCHANGED <<handler, answer, loaded>> PROVE Answers'
  BY <1>7, <1>c
<1>8. ASSUME NEW v \in Viewers, ReadMode(v) \/ ReadClient(v) PROVE Answers'
  BY <1>7, <1>8 DEF ReadMode, ReadClient
<1>9. CASE UNCHANGED vars BY <1>7, <1>9 DEF vars
<1> QED BY <1>1, <1>2, <1>3, <1>5, <1>6, <1>8, <1>9 DEF Next, Exit

(* A page's mode is that of the settings in force as long as its lifespan  *)
(* serves, so that the client read later is of the same startup.           *)
LEMMA PageStep ==
    TypeOK /\ LifespanInv /\ PageInv /\ PageIsOfOneStartup /\ [Next]_vars
        => PageInv' /\ PageIsOfOneStartup'
<1> SUFFICES ASSUME TypeOK, LifespanInv, PageInv, PageIsOfOneStartup, [Next]_vars
             PROVE  PageInv' /\ PageIsOfOneStartup'
  OBVIOUS
<1>t. /\ runs \in Nat /\ page \in [Viewers -> PageType] /\ config \in Nat
      /\ loaded \subseteq Nat
      /\ \A v \in Viewers : page[v].born \in Nat /\ page[v].born <= runs /\ page[v].mode \in Nat
  BY ReadinessAssumption DEF TypeOK, PageType
<1> DEFINE Read(g) ==
             g.at # "idle" =>
                /\ g.born >= 1
                /\ phase \in {"configured", "built"} => g.born < runs
                /\ g.at = "mode" /\ Settled(g.born) => g.mode = config
           Right(g) ==
             g.settled =>
                /\ g.client = g.mode
                /\ g.mode \in loaded \cup {0}
                /\ \A r \in loaded : r <= g.born => r <= g.mode
<1>a. \A v \in Viewers : Read(page[v]) /\ Right(page[v])
  BY DEF PageInv, PageIsOfOneStartup
<1>b. (\A v \in Viewers : Read(page[v])' /\ Right(page[v])') => PageInv' /\ PageIsOfOneStartup'
  BY DEF PageInv, PageIsOfOneStartup
<1>1. CASE LoadConfig \/ BuildClient \/ Serve \/ Shutdown
  <2>1. /\ UNCHANGED page /\ runs' >= runs
        /\ loaded \subseteq loaded' /\ loaded' \subseteq loaded \cup {runs + 1}
    BY <1>1, LifespanMonotone
  <2>2. \/ LoadConfig /\ runs' = runs + 1
        \/ UNCHANGED <<runs, config>> /\ ~(phase \notin {"configured", "built"} /\ phase' \in {"configured", "built"})
           /\ (phase' = "serving" => phase \in {"configured", "built"})
    BY <1>1 DEF LoadConfig, BuildClient, Serve, Shutdown, appState
  <2>3. ASSUME NEW v \in Viewers PROVE Read(page[v])'
    BY <1>a, <1>t, <2>1, <2>2 DEF Settled
  <2>4. ASSUME NEW v \in Viewers PROVE Right(page[v])'
    <3>1. runs + 1 > page[v].born BY <1>t
    <3> QED BY <1>a, <1>t, <2>1, <3>1
  <2> QED BY <1>b, <2>3, <2>4
<1>2. ASSUME NEW v \in Viewers, NEW g \in PageType, page' = [page EXCEPT ![v] = g],
             UNCHANGED <<phase, runs, loaded, appState>>, Read(g), Right(g)
      PROVE  PageInv' /\ PageIsOfOneStartup'
  <2>1. page'[v] = g /\ \A w \in Viewers : w # v => page'[w] = page[w]
    BY <1>2, <1>t
  <2>2. ASSUME NEW w \in Viewers PROVE Read(page[w])' /\ Right(page[w])'
    <3>1. Read(page'[w]) /\ Right(page'[w]) BY <1>2, <1>a, <2>1
    <3> QED BY <1>2, <3>1 DEF Settled, appState
  <2> QED BY <1>b, <2>2
<1>3. ASSUME NEW v \in Viewers, ReadMode(v) PROVE PageInv' /\ PageIsOfOneStartup'
  <2> DEFINE g == [NoPage EXCEPT !.at = "mode", !.born = runs, !.mode = config]
  <2>1. g \in PageType /\ g.born = runs /\ g.mode = config /\ g.settled = FALSE
    BY <1>t, InitialRecords DEF PageType, NoPage
  <2>2. page' = [page EXCEPT ![v] = g] BY <1>3 DEF ReadMode
  <2>3. runs >= 1 /\ phase = "serving" BY <1>3, <1>t DEF ReadMode, LifespanInv
  <2>4. Read(g) /\ Right(g) BY <2>1, <2>3
  <2> HIDE DEF g
  <2> QED BY <1>2, <1>3, <2>1, <2>2, <2>4 DEF ReadMode
<1>4. ASSUME NEW v \in Viewers, ReadClient(v) PROVE PageInv' /\ PageIsOfOneStartup'
  <2> DEFINE g == [page[v] EXCEPT !.at = "done", !.client = client,
                                  !.settled = Settled(page[v].born)]
  <2>0. page[v] \in PageType /\ Settled(page[v].born) \in BOOLEAN /\ client \in Nat
    BY <1>t, ReadinessAssumption DEF TypeOK, Settled
  <2>1. /\ g \in PageType /\ g.at = "done" /\ g.born = page[v].born
        /\ g.mode = page[v].mode /\ g.client = client
        /\ g.settled = Settled(page[v].born)
    BY <2>0 DEF PageType
  <2>2. page' = [page EXCEPT ![v] = g] BY <1>4 DEF ReadClient
  <2>3. Read(g) BY <1>4, <1>a, <2>1 DEF ReadClient
  <2>4. Right(g)
    <3> SUFFICES ASSUME Settled(page[v].born) PROVE Right(g) BY <2>1
    <3>1. page[v].mode = config /\ client = config
      BY <1>4, <1>a DEF ReadClient, Settled, LifespanInv
    <3> QED BY <2>1, <3>1 DEF LifespanInv
  <2> HIDE DEF g
  <2> QED BY <1>2, <1>4, <2>1, <2>2, <2>3, <2>4 DEF ReadClient
<1>5. ASSUME UNCHANGED <<phase, runs, loaded, appState, page>>
      PROVE  PageInv' /\ PageIsOfOneStartup'
  BY <1>5 DEF PageInv, PageIsOfOneStartup, Settled, appState
<1>6. ASSUME NEW q \in Requests, Probe(q) \/ Snapshot(q) \/ CheckReady(q) \/ RespondNotReady(q)
      PROVE  PageInv' /\ PageIsOfOneStartup'
  BY <1>5, <1>6 DEF Probe, Snapshot, CheckReady, RespondNotReady
<1>7. CASE UNCHANGED vars BY <1>5, <1>7 DEF vars
<1> QED BY <1>1, <1>3, <1>4, <1>6, <1>7 DEF Next, Exit

LEMMA InvInductive == Inv /\ [Next]_vars => Inv'
BY TypeStep, LifespanStep, HandlerStep, PageStep, AnswersStep DEF Inv

LEMMA InvHolds == Spec => []Inv
BY InitInv, InvInductive, PTL DEF Spec

(* The type invariant, for any requests, viewers and number of lifespans.  *)
THEOREM ReadinessTypes == Spec => []TypeOK
BY InvHolds, PTL DEF Inv

(* GET /ready answers 200 in the first lifespan whose configuration        *)
(* loaded, and never again in the life of the process, whatever the        *)
(* gateway's probe reported.                                               *)
THEOREM ReadyIsTheFirstStartup == Spec => []AnswerIsTheStartups
<1>1. Inv => AnswerIsTheStartups BY DEF Inv, Answers
<1> QED BY InvHolds, <1>1, PTL

(* Reads without the lock between them never leave a 503 without its       *)
(* reason.                                                                 *)
THEOREM UnreadyIsExplained == Spec => []UnreadyHasReason
<1>1. Inv => UnreadyHasReason BY DEF Inv, Answers
<1> QED BY InvHolds, <1>1, PTL

(* Nor a 200 beside a component that is not ready, although the components *)
(* are read before the decision.                                           *)
THEOREM ReadyIsTheWholeBody == Spec => []ReadyBodyIsReady
<1>1. Inv => ReadyBodyIsReady BY DEF Inv, Answers
<1> QED BY InvHolds, <1>1, PTL

(* A page served within one lifespan takes mode and client from the same   *)
(* startup, the newest whose configuration loaded.                         *)
THEOREM PagesOfOneStartup == Spec => []PageIsOfOneStartup
<1>1. Inv => PageIsOfOneStartup BY DEF Inv
<1> QED BY InvHolds, <1>1, PTL

=============================================================================
