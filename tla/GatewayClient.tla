--------------------------- MODULE GatewayClient ---------------------------
(***************************************************************************)
(* gateway/client.py: what GatewayClient.evaluate and                      *)
(* GatewayClient.evaluate_operation_aware return, as functions of the      *)
(* client's configuration and of what the HTTP exchange produced.  The     *)
(* exchange itself (who may answer what, and when) is in Submission.       *)
(*                                                                         *)
(* A reply is [code, kind, body, header]: the HTTP status, whether the     *)
(* payload was a JSON object, other JSON or not JSON, the object, and the  *)
(* X-Correlation-ID header.  An object may be nested deeper than Python    *)
(* may recurse: "deep" is too deep for redact_json, "bottomless" also for  *)
(* json.dumps with an indent, although the JSON parser read it.  Redaction *)
(* changes values that are only shown raw (module Redaction), so a result  *)
(* keeps only whether a raw body / headers are attached.                   *)
(***************************************************************************)
EXTENDS OperationAwareContract, Naturals

NoCode == 0
DeepKinds == {"deep", "bottomless"}
ObjectKinds == {"object"} \cup DeepKinds
ReplyKinds == ObjectKinds \cup {"non_object", "malformed"}
TransportFailures == {"timeout", "contact", "unexpected"}

(* body.get(...) on a payload that is not an object finds nothing.         *)
BodyOf(reply) == IF reply.kind \in ObjectKinds THEN reply.body ELSE EmptyBody

(* The client as the lifespan builds it: base_url and token present or not.*)
Configured(client) == client.base_url
HasToken(client) == client.token
EvaluationEnabled(client) == Configured(client) /\ HasToken(client)

----------------------------------------------------------------------------
(* evaluate: POST /v1/evaluate.                                            *)

(* A falsy optional field is left out of the posted JSON.                  *)
Truthy(v) == IF v = "" THEN Absent ELSE v

EvaluateBody(request) ==
    [action |-> request.action, resource_type |-> Truthy(request.resource_type),
     resource_id |-> Truthy(request.resource_id), request_id |-> Absent,
     context |-> request.context]

LegacyResult(status) ==
    [status |-> status, http_status |-> NoCode, outcome |-> Null, reason |-> Null,
     policy_version |-> Null, request_id |-> Null, correlation_id |-> Null,
     error_code |-> Null, error_message |-> Null, detail |-> Null,
     timed_out |-> FALSE, response_json |-> FALSE]

LegacyFailure(failure) ==
    [LegacyResult(IF failure = "unexpected" THEN "gateway_error" ELSE "unavailable")
        EXCEPT !.detail = failure, !.timed_out = (failure = "timeout")]

LegacyStatusOf(code) ==
    CASE code = 200 -> "success"
      [] code = 403 -> "denied"
      [] code = 401 -> "unauthorized"
      [] code = 400 -> "validation_error"
      [] code = 503 -> "unavailable"
      [] OTHER      -> "gateway_error"

(* The str the body holds under a key, or None.                            *)
StrOf(body, f) == IF IsText(body[f]) THEN body[f] ELSE Null

(* A non-empty body value wins; otherwise the header.  Nothing compares    *)
(* the two.                                                                *)
LegacyCorrelation(body, header) ==
    IF StrOf(body, "correlation_id") \in {Null, ""} THEN header ELSE body["correlation_id"]

InterpretEvaluation(reply) ==
    LET body == BodyOf(reply) IN
    [LegacyResult(LegacyStatusOf(reply.code)) EXCEPT
        !.http_status    = reply.code,
        !.outcome        = StrOf(body, "outcome"),
        !.reason         = StrOf(body, "reason"),
        !.policy_version = StrOf(body, "policy_version"),
        !.request_id     = StrOf(body, "request_id"),
        !.correlation_id = LegacyCorrelation(body, reply.header),
        !.error_code     = StrOf(body, "error"),
        !.error_message  = StrOf(body, "message"),
        !.response_json  = (reply.kind \in DeepKinds \/ body # EmptyBody)]

----------------------------------------------------------------------------
(* evaluate_operation_aware: POST /v1/evaluate/operation-aware.            *)

(* Mutated form: the optional request id is not serialized.                *)
OperationAwareBody_NoRequestId(request) ==
    [action |-> request.action, resource_type |-> Truthy(request.resource_type),
     resource_id |-> Truthy(request.resource_id), request_id |-> Absent, context |-> {}]

(* _serialize_operation_aware_request: there is no context to send.        *)
OperationAwareBody(request) ==
    [action |-> request.action, resource_type |-> Truthy(request.resource_type),
     resource_id |-> Truthy(request.resource_id), request_id |-> Truthy(request.request_id),
     context |-> {}]

GovernedStatuses == {"evaluation_completed", "evaluation_failed"}

OperationAwareResult(status) ==
    [status |-> status, http_status |-> NoCode, response |-> NoResponse,
     correlation_id |-> Null, error_code |-> Null, error_message |-> Null,
     detail |-> Null, timed_out |-> FALSE, response_json |-> FALSE, headers |-> FALSE]

OperationAwareFailure(failure) ==
    [OperationAwareResult(IF failure = "unexpected" THEN "gateway_error" ELSE "unavailable")
        EXCEPT !.detail = failure, !.timed_out = (failure = "timeout")]

(* Every result made from a reply carries its code, its redacted body when *)
(* it was an object, and its headers.                                      *)
Received(status, reply) ==
    [OperationAwareResult(status) EXCEPT
        !.http_status = reply.code, !.response_json = (reply.kind \in ObjectKinds),
        !.headers = TRUE]

(* redact_json runs before the body is looked at, and outside the try.     *)
RedactionRaises(reply) == reply.kind \in DeepKinds

(* _OPERATION_AWARE_GENERIC_STATUS_MAP and its default.                    *)
GenericStatusOf(code) ==
    CASE code = 400 -> "request_rejected"
      [] code = 401 -> "unauthorized"
      [] code = 404 -> "capability_unavailable"
      [] code = 503 -> "evaluator_unavailable"
      [] OTHER      -> "gateway_error"

(* A body is taken for a governed one by its evaluation_status key, never  *)
(* by the HTTP status.                                                     *)
LooksGoverned(reply) == BodyOf(reply)["evaluation_status"] # Absent

(* Mutated form: a response that breaks the contract is kept as a response.*)
InterpretGoverned_KeepsResponse(reply) ==
    LET response == ParsedResponse(reply.body, reply.header) IN
    [Received(IF ~ContractValid(reply.body, reply.header) THEN "contract_invalid"
              ELSE IF response["evaluation_status"] = "completed"
              THEN "evaluation_completed" ELSE "evaluation_failed", reply)
        EXCEPT !.response = response, !.correlation_id = response["correlation_id"]]

InterpretGoverned(reply) ==
    IF ContractValid(reply.body, reply.header)
    THEN LET response == ParsedResponse(reply.body, reply.header) IN
         [Received(IF response["evaluation_status"] = "completed"
                   THEN "evaluation_completed" ELSE "evaluation_failed", reply)
            EXCEPT !.response = response, !.correlation_id = response["correlation_id"]]
    ELSE [Received("contract_invalid", reply) EXCEPT !.detail = "contract"]

InterpretGeneric(reply) ==
    LET body == BodyOf(reply)
        mismatch == CorrelationRejected(body["correlation_id"], reply.header)
        correlation == ReconciledCorrelation(body["correlation_id"], reply.header)
    IN  CASE reply.code = 403 ->
               [Received("contract_invalid", reply) EXCEPT
                  !.detail = "ungoverned_403",
                  !.correlation_id = IF mismatch THEN Null ELSE correlation]
          [] reply.code # 403 /\ mismatch ->
               [Received("contract_invalid", reply) EXCEPT !.detail = "contract"]
          [] OTHER ->
               [Received(GenericStatusOf(reply.code), reply) EXCEPT
                  !.correlation_id = correlation,
                  !.error_code = StrOf(body, "error"),
                  !.error_message = StrOf(body, "message")]

(* Mutated form: only the statuses of a decision are read as governed.     *)
InterpretOperationAware_ByCode(reply) ==
    IF LooksGoverned(reply) /\ reply.code \in {200, 403}
    THEN InterpretGoverned(reply) ELSE InterpretGeneric(reply)

InterpretOperationAware(reply) ==
    IF LooksGoverned(reply) THEN InterpretGoverned(reply) ELSE InterpretGeneric(reply)

(* Mutated form: the gate on the token is forgotten.                       *)
CalledGateway_AnyToken(result) == result.status # "not_configured"

(* called_gateway of both result types.                                    *)
CalledGateway(result) == result.status \notin {"not_configured", "token_missing"}

=============================================================================
