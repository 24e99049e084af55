-------------------- MODULE OperationAwarePresentation --------------------
(***************************************************************************)
(* operation_aware_presentation.py: the mode-independent content built     *)
(* from one typed request and one typed result.  An item keeps what the    *)
(* page tells apart (its value, whether it applies, whether it is present, *)
(* where it comes from); labels and prose are left out, a console note is  *)
(* named by what it says.                                                  *)
(***************************************************************************)
EXTENDS GatewayClient

(* ContentSource.                                                          *)
Sources == {"submitted_input", "returned_evidence", "console_explanation", "future_capability"}

Item(value, source, applicable) ==
    LET effective == IF applicable THEN value ELSE Null IN
    [value |-> effective, source |-> source, applicable |-> applicable,
     present |-> applicable /\ effective # Null]

Evidence(value, applicable) == Item(value, "returned_evidence", applicable)
ConsoleNote(value, applicable) == Item(value, "console_explanation", applicable)

(* The defensive check: the builder raises when the status and the         *)
(* presence of a governed response disagree.                               *)
BuildRaises(result) ==
    (result.status \in GovernedStatuses) # (result.response # NoResponse)

----------------------------------------------------------------------------

RequestSummary(request) ==
    [action        |-> Item(request.action, "submitted_input", TRUE),
     resource_type |-> Item(OrNull(request.resource_type), "submitted_input", TRUE),
     resource_id   |-> Item(OrNull(request.resource_id), "submitted_input", TRUE),
     request_id    |-> Item(OrNull(request.request_id), "submitted_input", TRUE)]

(* http_status is an applicable item exactly when a code was received; the *)
(* code is kept as a number beside the items.                              *)
EvaluationResult(result) ==
    LET response  == result.response
        governed  == response # NoResponse
        completed == governed /\ response["evaluation_status"] = "completed"
        failed    == governed /\ ~completed
    IN  [client_status            |-> Evidence(result.status, TRUE),
         kernel_evaluation_status |-> Evidence(response["evaluation_status"], governed),
         outcome                  |-> Evidence(response["outcome"], completed),
         disposition              |-> Evidence(response["disposition"], governed),
         failure_reason           |-> Evidence(response["failure_reason"], failed),
         failure_reason_note      |-> ConsoleNote(response["failure_reason"], failed),
         reason_code              |-> Evidence(response["reason_code"], governed),
         explanation              |-> Evidence(response["explanation"], governed),
         explanation_note         |-> ConsoleNote(IF response["explanation"] = Null
                                                  THEN "null_explanation" ELSE Null, governed)]

PolicyBundle(result) ==
    LET response == result.response
        governed == response # NoResponse
        uncovered == governed /\ response["outcome"] = "not_applicable"
    IN  [bundle_id          |-> Evidence(response["bundle_id"], governed),
         bundle_version     |-> Evidence(response["bundle_version"], governed),
         applicability_note |-> ConsoleNote("no_bundle_applied", uncovered)]

(* Mutated form: the kernel's null correlation id is filled with the       *)
(* request id it returned.                                                 *)
EvidenceSection_FilledIn(result) ==
    LET response == result.response
        governed == response # NoResponse
    IN  [request_id       |-> Evidence(response["request_id"], governed),
         correlation_id   |-> Evidence(IF governed /\ result.correlation_id = Null
                                       THEN response["request_id"] ELSE result.correlation_id, TRUE),
         trace_id         |-> Evidence(response["trace_id"], governed),
         evaluation_trace |-> Item(Null, "future_capability", governed)]

EvidenceSection(result) ==
    LET response == result.response
        governed == response # NoResponse
    IN  [request_id       |-> Evidence(response["request_id"], governed),
         correlation_id   |-> Evidence(result.correlation_id, TRUE),
         trace_id         |-> Evidence(response["trace_id"], governed),
         evaluation_trace |-> Item(Null, "future_capability", governed)]

(* Mutated form: the raw body and headers are always attached.             *)
Transport_AlwaysRaw(result) ==
    [called_gateway |-> CalledGateway(result),
     timed_out      |-> result.timed_out,
     http_status    |-> result.http_status,
     error_code     |-> Evidence(result.error_code, TRUE),
     error_message  |-> Evidence(result.error_message, TRUE),
     detail         |-> ConsoleNote(result.detail, TRUE),
     diagnostics    |-> result.response_json \/ result.headers]

(* diagnostics: the raw body and headers, only without a governed response.*)
Transport(result) ==
    [called_gateway |-> CalledGateway(result),
     timed_out      |-> result.timed_out,
     http_status    |-> result.http_status,
     error_code     |-> Evidence(result.error_code, TRUE),
     error_message  |-> Evidence(result.error_message, TRUE),
     detail         |-> ConsoleNote(result.detail, TRUE),
     diagnostics    |-> /\ result.response = NoResponse
                        /\ result.response_json \/ result.headers]

(* The identity note is shown only with a governed result.                 *)
IdentityNotes(result) == result.status \in GovernedStatuses

BuildPresentation(request, result) ==
    [request_summary   |-> RequestSummary(request),
     evaluation_result |-> EvaluationResult(result),
     policy_bundle     |-> PolicyBundle(result),
     evidence          |-> EvidenceSection(result),
     transport         |-> Transport(result),
     identity_processing_notes |-> IdentityNotes(result)]

=============================================================================
