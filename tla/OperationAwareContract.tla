---------------------- MODULE OperationAwareContract ----------------------
(***************************************************************************)
(* The operation-aware response contract of gateway/operation_aware_models *)
(* as the console checks it: the closed vocabularies, the value checks,    *)
(* the reconciliation of the two correlation ids, and the strict parse of  *)
(* a governed body.                                                        *)
(*                                                                         *)
(* A JSON value is a string here: a text stands for itself, and three      *)
(* reserved strings stand for a missing key, for null, and for any value   *)
(* that is not text (a number, a list, an object).  A JSON object is a     *)
(* function from Fields to such values.  Errors are one outcome (the text  *)
(* that names the first broken rule is left out).                          *)
(***************************************************************************)

Absent == "absent"
Null == "null"
NotText == "not_text"

IsText(v) == v \notin {Absent, Null, NotText}
Missing(v) == v \in {Absent, Null}
OrNull(v) == IF Missing(v) THEN Null ELSE v

----------------------------------------------------------------------------
(* Closed vocabularies.                                                    *)

EvaluationStates == {"completed", "failed"}
Outcomes == {"allow", "deny", "not_applicable"}
Dispositions == {"allow", "deny"}
FailureReasons == {"invalid_request", "unsupported_schema_version",
                   "invalid_policy_bundle", "policy_validation_failure",
                   "condition_evaluation_error", "internal_evaluation_error"}

(* The fields the console reads from any gateway body, both endpoints.     *)
OptionalTexts == {"bundle_id", "bundle_version", "trace_id", "reason_code", "explanation"}
GovernedFields == {"request_id", "evaluation_status", "disposition", "outcome",
                   "failure_reason", "correlation_id"} \cup OptionalTexts
Fields == GovernedFields \cup {"evaluation_trace", "error", "message", "reason", "policy_version"}

EmptyBody == [f \in Fields |-> Absent]

----------------------------------------------------------------------------
(* _reconcile_correlation_id: the body value and the X-Correlation-ID      *)
(* header (Null when there is none).                                       *)

(* Mutated form: the two ids are not compared.                             *)
CorrelationRejected_NotCompared(bodyValue, header) == bodyValue = NotText

CorrelationRejected(bodyValue, header) ==
    \/ bodyValue = NotText
    \/ /\ IsText(bodyValue)
       /\ header # Null
       /\ bodyValue # header

ReconciledCorrelation(bodyValue, header) ==
    IF IsText(bodyValue) THEN bodyValue ELSE header

----------------------------------------------------------------------------
(* _parse_operation_aware_response.                                        *)

(* Every field has the type and vocabulary the contract gives it.          *)
WellTyped(body) ==
    /\ IsText(body["request_id"])
    /\ body["disposition"] \in Dispositions
    /\ body["evaluation_status"] \in EvaluationStates
    /\ Missing(body["outcome"]) \/ body["outcome"] \in Outcomes
    /\ Missing(body["failure_reason"]) \/ body["failure_reason"] \in FailureReasons
    /\ \A f \in OptionalTexts : body[f] # NotText
    /\ Missing(body["evaluation_trace"])

(* Mutated form: the disposition is not derived from the outcome.          *)
Coherent_AnyDisposition(body) ==
    \/ /\ body["evaluation_status"] = "completed"
       /\ ~Missing(body["outcome"])
       /\ Missing(body["failure_reason"])
    \/ /\ body["evaluation_status"] = "failed"
       /\ ~Missing(body["failure_reason"])
       /\ Missing(body["outcome"])

(* A completed evaluation has an outcome, no failure, and the disposition  *)
(* of that outcome; a failed one has a failure, no outcome, and is denied. *)
Coherent(body) ==
    \/ /\ body["evaluation_status"] = "completed"
       /\ ~Missing(body["outcome"])
       /\ Missing(body["failure_reason"])
       /\ body["disposition"] = IF body["outcome"] = "allow" THEN "allow" ELSE "deny"
    \/ /\ body["evaluation_status"] = "failed"
       /\ ~Missing(body["failure_reason"])
       /\ Missing(body["outcome"])
       /\ body["disposition"] = "deny"

ContractValid(body, header) ==
    /\ WellTyped(body)
    /\ Coherent(body)
    /\ ~CorrelationRejected(body["correlation_id"], header)

(* The typed response, copied field by field.                              *)
ParsedResponse(body, header) ==
    [f \in GovernedFields |->
        IF f = "correlation_id"
        THEN ReconciledCorrelation(body[f], header)
        ELSE OrNull(body[f])]

(* OperationAwareEvaluationResult.response is None.                        *)
NoResponse == [f \in GovernedFields |-> Absent]

=============================================================================
