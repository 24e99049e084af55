----------------------- MODULE OperationAwareTraining -----------------------
(***************************************************************************)
(* operation_aware_training.py and the partial that shows it in training   *)
(* mode: which of the fixed teaching texts stand beside a presentation.    *)
(* A text is [text, about]: its name in TRAINING_CONTENT and the key it is *)
(* looked up by, if it has one.  Texts shown on every page are left out.   *)
(***************************************************************************)
EXTENDS OperationAwarePresentation

NoKey == "no_key"
Text(name) == [text |-> name, about |-> NoKey]

(* The texts that are looked up by a value; a key without a text shows     *)
(* nothing.                                                                *)
OUTCOME_TRAINING_COPY == {"allow", "deny", "not_applicable"}
FAILURE_REASON_TRAINING_COPY ==
    {"invalid_request", "unsupported_schema_version", "invalid_policy_bundle",
     "policy_validation_failure", "condition_evaluation_error", "internal_evaluation_error"}

OutcomeCopy(item) ==
    {[text |-> "outcome_copy", about |-> key] :
        key \in {k \in OUTCOME_TRAINING_COPY : item.present /\ item.value = k}}

FailureReasonCopy(item) ==
    {[text |-> "failure_reason_copy", about |-> key] :
        key \in {k \in FAILURE_REASON_TRAINING_COPY : item.present /\ item.value = k}}

(* Mutated form: what is not a completed evaluation is a governed failure. *)
ResultTexts_NoGeneric(shown) ==
    LET status == shown.evaluation_result.kernel_evaluation_status IN
    IF status.present /\ status.value = "completed"
    THEN OutcomeCopy(shown.evaluation_result.outcome)
    ELSE {Text("governed_failure_intro")} \cup FailureReasonCopy(shown.evaluation_result.failure_reason)

(* "What this result means".                                               *)
ResultTexts(shown) ==
    LET status == shown.evaluation_result.kernel_evaluation_status IN
    IF ~status.applicable THEN {Text("generic_failure_intro")}
    ELSE IF status.present /\ status.value = "completed"
         THEN OutcomeCopy(shown.evaluation_result.outcome)
    ELSE {Text("governed_failure_intro")} \cup FailureReasonCopy(shown.evaluation_result.failure_reason)

(* Mutated form: whatever is not there is explained.                       *)
IsAbsent_Inapplicable(item) == ~item.present

IsAbsent(item) == item.applicable /\ ~item.present

(* "Why some evidence fields are absent here": the guidance and the item   *)
(* it is about.                                                            *)
Guidance(shown) ==
    [null_explanation_guidance       |-> shown.evaluation_result.explanation,
     absent_reason_code_guidance     |-> shown.evaluation_result.reason_code,
     absent_bundle_identity_guidance |-> shown.policy_bundle.bundle_id,
     absent_trace_id_guidance        |-> shown.evidence.trace_id]

AbsenceTexts(shown) ==
    {Text(name) : name \in {n \in DOMAIN Guidance(shown) : IsAbsent(Guidance(shown)[n])}}

TrainingTexts(shown) == ResultTexts(shown) \cup AbsenceTexts(shown)

=============================================================================
