--------------------------- MODULE MCSubmission ---------------------------
(***************************************************************************)
(* Values for the constants of Submission: the vocabulary, the forms an    *)
(* operator submits, and the replies other than the evaluator's own.       *)
(***************************************************************************)
EXTENDS Submission

MC_ACTION_VERBS == {"read", "write"}
MC_RESOURCE_TYPES == {"ahu"}
MC_LongTexts == {"long"}
MC_UnsafeTexts == {"roof top", "<b>"}
MC_UnsafeValues == {"<b>"}
MC_NonSlugTexts == {"", "roof top", "<b>", "ahu:1", "read:ahu"}
MC_TypedTexts == {"ahu:1", "read:ahu"}

FullClient == [base_url |-> TRUE, token |-> TRUE]
NoToken == [base_url |-> TRUE, token |-> FALSE]
NoBaseUrl == [base_url |-> FALSE, token |-> TRUE]
AllDecisions == Decisions
SomeDecisions == {"allow", "deny", "policy_validation_failure"}
OneDecision == {"deny"}
TwoDecisions == {"allow", "deny"}

AllClients == [base_url : BOOLEAN, token : BOOLEAN]
OneClient == {FullClient}
FlowClients == {FullClient, NoToken}

----------------------------------------------------------------------------
(* Forms.                                                                  *)

LegacyForm ==
    [encoding |-> "utf8", evaluation_type |-> "legacy", mode |-> "gateway", action_verb |-> "read",
     resource_type |-> "ahu", resource_id |-> "1", subject_id |-> "op", subject_type |-> "user",
     request_id |-> "", context |-> <<>>]

OperationAwareForm ==
    [LegacyForm EXCEPT !.evaluation_type = "operation_aware",
                       !.subject_id = "", !.subject_type = ""]

OneForm == {OperationAwareForm}
GatewayForms == {LegacyForm, OperationAwareForm}
ReplyForms == GatewayForms \cup {[LegacyForm EXCEPT !.encoding = "latin1"]}
FlowForms == GatewayForms \cup {[OperationAwareForm EXCEPT !.mode = "preview"]}

(* Context lines: good ones, a duplicate key, and each way to be broken.   *)
Line(form_, key, value) == [form |-> form_, key |-> key, value |-> value]
Lines == {Line("blank", "", ""), Line("no_equals", "", ""), Line("pair", "site", "a b"),
          Line("pair", "site", ""), Line("pair", "zone", "<b>"), Line("pair", "ahu:1", "a"),
          Line("pair", "zone", "roof top"), Line("pair", "mode", "long"), Line("pair", "unit", "1")}

Contexts == UNION {[1..n -> Lines] : n \in 0..3}

(* Every context on a valid form; every value of each other field beside   *)
(* the valid ones, two fields at a time, on both endpoints.                *)
ContextForms ==
    {[base EXCEPT !.context = context, !.mode = mode] :
        base \in GatewayForms, context \in Contexts, mode \in {"preview", "gateway"}}

Texts == {"", "1", "long", "roof top", "ahu:1", "read", "ahu"}

FieldForms ==
    {[base EXCEPT !.action_verb = verb, !.resource_type = type, !.resource_id = id,
                  !.subject_id = subject, !.request_id = req, !.mode = mode] :
        base \in GatewayForms, verb \in {"read", "", "read:ahu"}, type \in {"ahu", "", "vav"},
        id \in Texts, subject \in {"", "op"}, req \in {"", "r1"}, mode \in {"preview", "gateway"}}

TypeForms ==
    {[base EXCEPT !.evaluation_type = type, !.subject_type = subject, !.mode = mode] :
        base \in GatewayForms, type \in {"", "legacy", "operation_aware", "other"},
        subject \in {"", "user", "roof top", "long"}, mode \in {"", "preview", "gateway"}}

(* Bytes that are not UTF-8: the fields are never read.                    *)
Undecodable == {[f EXCEPT !.encoding = "latin1"] : f \in FlowForms}

AllForms == ContextForms \cup FieldForms \cup TypeForms \cup Undecodable

----------------------------------------------------------------------------
(* Replies.                                                                *)

Reply(code, body, header) == [code |-> code, kind |-> "object", body |-> body, header |-> header]
Page502 == [code |-> 502, kind |-> "malformed", body |-> EmptyBody, header |-> Null]
Page200 == [Page502 EXCEPT !.code = 200]

ErrorBody == [EmptyBody EXCEPT !["error"] = "unauthorized", !["message"] = "no",
                               !["correlation_id"] = "c1"]
AllowBody ==
    [EmptyBody EXCEPT !["request_id"] = "g1", !["evaluation_status"] = "completed",
                      !["disposition"] = "allow", !["outcome"] = "allow",
                      !["correlation_id"] = "c1", !["bundle_id"] = "b", !["trace_id"] = "t"]
DenyBody == [AllowBody EXCEPT !["disposition"] = "deny", !["outcome"] = "deny"]
UncoveredBody == [DenyBody EXCEPT !["outcome"] = "not_applicable"]
FailedBody == [DenyBody EXCEPT !["evaluation_status"] = "failed", !["outcome"] = Null,
                               !["failure_reason"] = "invalid_policy_bundle"]

(* Replies that carry no decision: an ingress page, an error, a governed   *)
(* body that breaks the contract, and one with two correlation ids.        *)
Undeciding == {Page502, Reply(401, ErrorBody, "c1"),
               Reply(403, [DenyBody EXCEPT !["outcome"] = Null], "c1")}
BrokenReply == {Reply(403, [DenyBody EXCEPT !["outcome"] = Null], "c1")}
FlowReplies == Undeciding \cup {Reply(200, AllowBody, "c1"), Reply(403, DenyBody, "c2")}

(* Every governed body, with one field at a time set to every kind of      *)
(* value, and every combination of the four fields that carry a decision.  *)
FieldValues(f) ==
    {Absent, Null, NotText, "", "other"} \cup
    (CASE f = "evaluation_status" -> EvaluationStates
       [] f = "outcome"           -> Outcomes
       [] f = "disposition"       -> Dispositions
       [] f = "failure_reason"    -> {"invalid_policy_bundle"}
       [] f = "correlation_id"    -> {"c1"}
       [] OTHER                   -> {})

BaseBodies == {AllowBody, DenyBody, UncoveredBody, FailedBody, ErrorBody, EmptyBody}

NearBodies == UNION {{[b EXCEPT ![f] = v] : b \in BaseBodies, v \in FieldValues(f)} : f \in Fields}

CombinedBodies ==
    {[AllowBody EXCEPT !["evaluation_status"] = status, !["outcome"] = outcome,
                       !["disposition"] = disposition, !["failure_reason"] = failure] :
        status \in {Absent, "completed", "failed"}, outcome \in Outcomes \cup {Absent, Null},
        disposition \in {Absent, "allow", "deny"}, failure \in {Null, "invalid_policy_bundle", "other"}}

ManyReplies ==
    {Reply(code, body, header) : code \in {200, 400, 403, 503}, body \in NearBodies,
                                 header \in {Null, "c1", "c2"}}
    \cup {Reply(code, body, "c1") : code \in {200, 403, 500}, body \in CombinedBodies}
    \cup {[Reply(code, EmptyBody, header) EXCEPT !.kind = kind] :
            code \in ReplyCodes, header \in {Null, "c1"}, kind \in {"non_object", "malformed"}}
    \cup {[Reply(code, body, "c1") EXCEPT !.kind = kind] :
            code \in {200, 403, 503}, body \in {AllowBody, FailedBody, EmptyBody}, kind \in DeepKinds}
    \cup {Reply(code, ErrorBody, header) : code \in {401, 404, 500, 502}, header \in {Null, "c1", "c2"}}

SpoiledPages == {Page502, Page200}

=============================================================================
