--------------------------- MODULE SimulateHandler ---------------------------
(***************************************************************************)
(* ui/views.py: what simulate_submit makes of a decoded form, of the       *)
(* configuration of the gateway client and of what the call returned, as   *)
(* functions.  When they happen, and what happens around them, is in       *)
(* Submission (one submission among others) and SimulateSession (one form  *)
(* after the other).                                                       *)
(*                                                                         *)
(* A page is [view, request, result]: which of the template's panels is    *)
(* shown, the request it displays and the client's result it displays.  A  *)
(* server_error page is the plain 500 of an exception nobody catches.      *)
(***************************************************************************)
EXTENDS Simulator, OperationAwareTraining

Undecided == "undecided"
Decisions == Outcomes \cup FailureReasons

NoResult == [status |-> "none"]
NoPage == [view |-> "none", request |-> NoRequest, result |-> NoResult]
ServerError == [NoPage EXCEPT !.view = "server_error"]

(* _parse_form_body raises on bytes that are not UTF-8.                    *)
Decodable(f) == f.encoding = "utf8"

Endpoint(f) == ParseEvaluationType(f.evaluation_type)

Built(f) ==
    IF Endpoint(f) = "operation_aware" THEN BuildOperationAwareSimulation(f) ELSE BuildSimulation(f)

(* The gates in front of the network, of the view and of the client.       *)
CallsGateway(f, c) ==
    /\ Decodable(f)
    /\ Endpoint(f) # "none"
    /\ f.mode = "gateway"
    /\ Built(f).ok
    /\ EvaluationEnabled(c)

WireBody(f) ==
    IF Endpoint(f) = "operation_aware" THEN OperationAwareBody(Built(f).request)
    ELSE EvaluateBody(Built(f).request)

(* The result the client returns, or the state the view shows, when a gate *)
(* stops the call.                                                         *)
Gate(c) == IF Configured(c) THEN "token_missing" ELSE "not_configured"

(* Mutated form: the legacy gate states are rendered for both endpoints.   *)
LocalView_LegacyGates(f, c) ==
    IF ~Decodable(f) THEN "server_error"
    ELSE IF Endpoint(f) = "none" THEN "invalid_type"
    ELSE IF ~Built(f).ok THEN "invalid_input"
    ELSE IF f.mode # "gateway" THEN "preview" ELSE Gate(c)

(* The view of a submission that makes no call.                            *)
LocalView(f, c) ==
    IF ~Decodable(f) THEN "server_error"
    ELSE IF Endpoint(f) = "none" THEN "invalid_type"
    ELSE IF ~Built(f).ok THEN "invalid_input"
    ELSE IF f.mode # "gateway" THEN "preview"
    ELSE IF Endpoint(f) = "legacy" THEN Gate(c) ELSE "presentation"

LocalPage(f, c) ==
    LET view == LocalView(f, c) IN
    [view |-> view,
     request |-> IF view \in {"server_error", "invalid_type"} THEN NoRequest ELSE Built(f).request,
     result |-> IF view = "presentation" THEN OperationAwareResult(Gate(c)) ELSE NoResult]

(* The page made from the result of a call.                                *)
ResultPage(f, legacyResult, operationAwareResult) ==
    IF Endpoint(f) = "legacy"
    THEN [view |-> "evaluation", request |-> Built(f).request, result |-> legacyResult]
    ELSE IF BuildRaises(operationAwareResult) THEN ServerError
    ELSE [view |-> "presentation", request |-> Built(f).request, result |-> operationAwareResult]

(* An object that is too deep raises in redact_json, in the client of the  *)
(* operation-aware endpoint, or in json.dumps, in the legacy view.         *)
ReadingRaises(f, reply) ==
    IF Endpoint(f) = "legacy" THEN reply.kind = "bottomless" ELSE RedactionRaises(reply)

ReplyPage(f, reply) ==
    IF ReadingRaises(f, reply) THEN ServerError
    ELSE ResultPage(f, InterpretEvaluation(reply), InterpretOperationAware(reply))

FailurePage(f, failure) == ResultPage(f, LegacyFailure(failure), OperationAwareFailure(failure))

----------------------------------------------------------------------------
(* What the page says.                                                     *)

Presentation(p) == BuildPresentation(p.request, p.result)

(* The decision a page puts in front of the operator.                      *)
DecisionShown(p) ==
    CASE p.view = "presentation" ->
           LET shown == Presentation(p).evaluation_result IN
           IF shown.outcome.present THEN shown.outcome.value
           ELSE IF shown.failure_reason.present THEN shown.failure_reason.value ELSE Undecided
      [] p.view = "evaluation" ->
           IF p.result.outcome \in {Null, ""} THEN Undecided ELSE p.result.outcome
      [] OTHER -> Undecided

(* Mutated form: the flag is set for every valid request.                  *)
PreviewOnly_AnyMode(f) ==
    Decodable(f) /\ Endpoint(f) = "operation_aware" /\ Built(f).ok

(* oa_preview_only.                                                        *)
PreviewOnly(f) ==
    Decodable(f) /\ Endpoint(f) = "operation_aware" /\ Built(f).ok /\ f.mode # "gateway"

(* The teaching texts of a page of the operation-aware panel, in training  *)
(* mode.                                                                   *)
Taught(f, p) ==
    (IF PreviewOnly(f) THEN {Text("preview_education_points")} ELSE {})
    \cup (IF p.view = "presentation" THEN TrainingTexts(Presentation(p)) ELSE {})

=============================================================================
