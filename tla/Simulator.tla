----------------------------- MODULE Simulator -----------------------------
(***************************************************************************)
(* simulator.py: how a submitted form becomes a request.  Both request     *)
(* builders, the shared gateway-request builder under them, and the        *)
(* context block parser.                                                   *)
(*                                                                         *)
(* A text is a token already stripped of blanks; the constants say what    *)
(* the regular expressions and the length test say of it.  Every error     *)
(* message is reduced to the field it is about.                            *)
(***************************************************************************)
EXTENDS OperationAwareContract, Sequences, Naturals, FiniteSets

CONSTANTS ACTION_VERBS,          \* the verbs of the console vocabulary
          RESOURCE_TYPES,        \* its resource types
          LongTexts,             \* texts longer than MAX_FIELD_LEN
          UnsafeTexts,           \* texts _ID_RE does not match
          UnsafeValues,          \* texts _CTX_VALUE_RE does not match
          NonSlugTexts,          \* texts _SLUG_RE does not match
          TypedTexts,            \* texts with a colon in them
          MAX_CONTEXT_ENTRIES

ASSUME VocabularyAssumption ==
    /\ "" \notin ACTION_VERBS \cup RESOURCE_TYPES
    /\ (ACTION_VERBS \cup RESOURCE_TYPES) \cap TypedTexts = {}
    /\ Absent \notin ACTION_VERBS \cup RESOURCE_TYPES \cup LongTexts \cup UnsafeTexts \cup TypedTexts
    /\ MAX_CONTEXT_ENTRIES \in Nat

OrAbsent(v) == IF v = "" THEN Absent ELSE v

----------------------------------------------------------------------------
(* _parse_context.  A line is [form, key, value] with form "blank",        *)
(* "no_equals" or "pair".  The parsed context is a set of <<key, value>>.  *)

ContextLine == [form : {"blank", "no_equals", "pair"}, key : STRING, value : STRING]

LineBroken(line) ==
    \/ line.form = "no_equals"
    \/ line.key \in NonSlugTexts \cup LongTexts
    \/ line.value \in LongTexts \cup UnsafeValues

Keys(context) == {pair[1] : pair \in context}

(* Mutated form: the cap ends the loop without reporting an error.         *)
ParseLine_SilentCap(state, line) ==
    IF line.form = "blank" \/ Cardinality(state.context) >= MAX_CONTEXT_ENTRIES THEN state
    ELSE IF LineBroken(line) \/ line.key \in Keys(state.context)
         THEN [state EXCEPT !.errors = @ + 1]
    ELSE [state EXCEPT !.context = @ \cup {<<line.key, line.value>>}]

(* One turn of the loop.  The cap is tested before the line is looked at,  *)
(* and ends the loop; every other error only skips the line.               *)
ParseLine(state, line) ==
    IF state.stopped \/ line.form = "blank" THEN state
    ELSE IF Cardinality(state.context) >= MAX_CONTEXT_ENTRIES
         THEN [state EXCEPT !.errors = @ + 1, !.stopped = TRUE]
    ELSE IF LineBroken(line) \/ line.key \in Keys(state.context)
         THEN [state EXCEPT !.errors = @ + 1]
    ELSE [state EXCEPT !.context = @ \cup {<<line.key, line.value>>}]

ParseContext(lines) ==
    LET parsed[i \in 0..Len(lines)] ==
            IF i = 0 THEN [context |-> {}, errors |-> 0, stopped |-> FALSE]
            ELSE ParseLine(parsed[i - 1], lines[i])
    IN  parsed[Len(lines)]

----------------------------------------------------------------------------
(* A request body.  A field that is not sent is Absent; an empty context   *)
(* is not sent.                                                            *)

NoRequest == [action |-> Absent, resource_type |-> Absent, resource_id |-> Absent,
              request_id |-> Absent, context |-> {}]

(* build_gateway_request: a bare verb with a resource type and a local id  *)
(* (normalized), or a typed action with a typed id (direct).               *)
GatewayRequestOk(action, type, id) ==
    /\ action # ""
    /\ \/ /\ type # ""
          /\ action \notin TypedTexts
          /\ id \notin TypedTexts
       \/ /\ type = ""
          /\ action \in TypedTexts
          /\ id = "" \/ id \in TypedTexts

GatewayPayload(action, type, id, context) ==
    [NoRequest EXCEPT !.action = action, !.resource_type = OrAbsent(type),
                      !.resource_id = OrAbsent(id), !.context = context]

----------------------------------------------------------------------------
(* The fields both builders validate the same way.                         *)

(* Mutated form: the resource id is not matched against _ID_RE.            *)
RequestFieldErrors_AnyId(form) ==
    {f \in {"action_verb"} : form.action_verb \notin ACTION_VERBS}
    \cup {f \in {"resource_type"} : form.resource_type \notin RESOURCE_TYPES}
    \cup {f \in {"resource_id"} : form.resource_id \in LongTexts \cup TypedTexts}

RequestFieldErrors(form) ==
    {f \in {"action_verb"} : form.action_verb \notin ACTION_VERBS}
    \cup {f \in {"resource_type"} : form.resource_type \notin RESOURCE_TYPES}
    \cup {f \in {"resource_id"} : form.resource_id \in LongTexts \cup UnsafeTexts \cup TypedTexts}

(* build_simulation: the subject is required although it is never sent.    *)
SimulationErrors(form) ==
    RequestFieldErrors(form)
    \cup {f \in {"subject_id"} : form.subject_id \in {""} \cup LongTexts \cup UnsafeTexts}
    \cup {f \in {"subject_type"} : form.subject_type \in {""} \cup LongTexts \cup NonSlugTexts}
    \cup {f \in {"context"} : ParseContext(form.context).errors > 0}

BuildSimulation(form) ==
    LET ok == /\ SimulationErrors(form) = {}
              /\ GatewayRequestOk(form.action_verb, form.resource_type, form.resource_id)
    IN  [ok |-> ok,
         request |-> IF ok THEN GatewayPayload(form.action_verb, form.resource_type,
                                               form.resource_id, ParseContext(form.context).context)
                           ELSE NoRequest]

(* _reject_legacy_only_fields.                                             *)
LegacyOnlyFieldErrors(form) ==
    {f \in {"subject_id"} : form.subject_id # ""}
    \cup {f \in {"subject_type"} : form.subject_type # ""}
    \cup {f \in {"context"} : \E i \in DOMAIN form.context : form.context[i].form # "blank"}

(* build_operation_aware_simulation: a legacy-only field ends validation.  *)
OperationAwareErrors(form) ==
    IF LegacyOnlyFieldErrors(form) # {} THEN LegacyOnlyFieldErrors(form) ELSE RequestFieldErrors(form)

BuildOperationAwareSimulation(form) ==
    LET ok == /\ OperationAwareErrors(form) = {}
              /\ GatewayRequestOk(form.action_verb, form.resource_type, form.resource_id)
    IN  [ok |-> ok,
         request |-> IF ok THEN [GatewayPayload(form.action_verb, form.resource_type, form.resource_id, {})
                                   EXCEPT !.request_id = OrAbsent(form.request_id)]
                           ELSE NoRequest]

(* parse_evaluation_type: blank means legacy, anything unknown is refused. *)
ParseEvaluationType(raw) ==
    IF raw = "" THEN "legacy"
    ELSE IF raw \in {"legacy", "operation_aware"} THEN raw ELSE "none"

=============================================================================
