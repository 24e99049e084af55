----------------------- MODULE SimulateSession_proofs -----------------------
(***************************************************************************)
(* What holds of SimulateSession for any scenarios, anything an operator   *)
(* types, and any replies.                                                 *)
(***************************************************************************)
EXTENDS SimulateSession, Requests_proofs, Redaction_proofs, SequenceTheorems

(* A page of the legacy contract has no error about the field it hides,    *)
(* and the page script keeps what is submitted to the chosen contract.     *)
Contracts == {"legacy", "operation_aware"}

(* Submitted as it arrived, the page is accepted and makes this request.   *)
RepeatsRequest(p, request) ==
    \A mode \in {"preview", "gateway"} :
        LET g == FormOf(Rendered(p), mode) IN
        Built(g).ok /\ ErrorsOf(g) = {} /\ Built(g).request = request

PageInv(p) ==
    /\ p.view \in Views
    /\ p.type \in Contracts
    /\ p.errors \subseteq ValueFields
    /\ p.button \in BOOLEAN
    /\ DOMAIN p.values = ValueFields
    /\ p.type = "legacy" => "request_id" \notin p.errors
    /\ p.values["context"] \in Seq(ContextLine)
    /\ p.view = "preview" => RepeatsRequest(p, p.request)
    /\ p.view = "presentation" /\ p.raw # NoRaw => p.body \in JsonValues /\ p.raw = redact_json[p.body]
    /\ p.example =>
          LET request == BuildSimulation(p.values).request IN
          /\ RepeatsRequest(p, request)
          /\ request.action = p.values["action_verb"]
          /\ request.resource_id = p.values["resource_id"]

DomInv(d) ==
    /\ d = [type |-> d.type, values |-> d.values, visible |-> d.visible, enabled |-> d.enabled]
    /\ d.type \in Contracts
    /\ DOMAIN d.values = ValueFields
    /\ d.values["context"] \in Seq(ContextLine)
    /\ d.visible \subseteq ValueFields
    /\ d.enabled \subseteq ValueFields

SessionInv ==
    /\ client \in Clients
    /\ PageInv(page)
    /\ DomInv(dom)
    /\ script => dom.enabled = FieldsOf(dom.type)

----------------------------------------------------------------------------
(* Forms and their errors.                                                 *)

(* What a browser submits, field by field.                                 *)
LEMMA SubmittedForm ==
    ASSUME NEW d, NEW mode
    PROVE  LET f == FormOf(d, mode) IN
           /\ f.evaluation_type = d.type /\ f.encoding = "utf8" /\ f.mode = mode
           /\ \A field \in ValueFields :
                 f[field] = IF field \in d.enabled THEN d.values[field] ELSE Blank(field)
BY DEF FormOf, ValueFields, LegacyFields, OperationAwareFields

LEMMA ContractsAreEndpoints ==
    ASSUME NEW f, f.evaluation_type \in Contracts
    PROVE  Endpoint(f) = f.evaluation_type
BY DEF Contracts, Endpoint, ParseEvaluationType

(* Only fields of the form have errors; the legacy contract has no request *)
(* id to complain about.                                                   *)
LEMMA ErrorFields ==
    ASSUME NEW f, f.evaluation_type \in Contracts
    PROVE  /\ ErrorsOf(f) \subseteq ValueFields
           /\ f.evaluation_type = "legacy" => "request_id" \notin ErrorsOf(f)
<1>1. Endpoint(f) = f.evaluation_type
  BY ContractsAreEndpoints
<1>2. /\ SimulationErrors(f) \subseteq ValueFields \ {"request_id"}
      /\ RequestFieldErrors(f) \subseteq ValueFields
      /\ LegacyOnlyFieldErrors(f) \subseteq ValueFields
  BY DEF SimulationErrors, RequestFieldErrors, LegacyOnlyFieldErrors, ValueFields, LegacyFields,
         OperationAwareFields
<1> QED BY <1>1, <1>2 DEF ErrorsOf, OperationAwareErrors, Contracts

(* With the fields of the other contract disabled, none of them is         *)
(* submitted, and none of them is rejected.                                *)
LEMMA DisabledLegacyFields ==
    ASSUME NEW d, NEW mode, d.type = "operation_aware", d.enabled = FieldsOf(d.type)
    PROVE  LegacyOnlyFieldErrors(FormOf(d, mode)) = {}
<1> DEFINE f == FormOf(d, mode)
<1>1. \A field \in LegacyFields : field \in ValueFields /\ field \notin d.enabled
  BY DEF FieldsOf, ValueFields
<1>2. f.subject_id = "" /\ f.subject_type = "" /\ f.context = <<>>
  <2>1. f.subject_id = "" /\ f.subject_type = ""
    BY <1>1 DEF FormOf, LegacyFields, Blank
  <2>2. "context" \in ValueFields /\ "context" \notin d.enabled
    BY <1>1 DEF LegacyFields
  <2>3. f.context = Blank("context")
    BY <2>2 DEF FormOf
  <2> QED BY <2>1, <2>3 DEF Blank
<1>3. ~\E i \in DOMAIN f.context : (f.context)[i].form # "blank"
  <2>1. \A i : i \notin DOMAIN << >>
    BY SMT
  <2> QED BY <1>2, <2>1
<1> HIDE DEF f
<1>4. LegacyOnlyFieldErrors(f) = {}
  BY <1>2, <1>3 DEF LegacyOnlyFieldErrors
<1> QED BY <1>4 DEF f

LEMMA DisabledFieldsAreAccepted ==
    ASSUME NEW d, NEW mode, d.type = "operation_aware", d.enabled = FieldsOf(d.type)
    PROVE  ErrorsOf(FormOf(d, mode)) \cap LegacyFields = {}
<1> DEFINE f == FormOf(d, mode)
<1>1. f.evaluation_type = "operation_aware" /\ Endpoint(f) = "operation_aware"
  BY SubmittedForm, ContractsAreEndpoints DEF Contracts
<1>2. LegacyOnlyFieldErrors(f) = {}
  BY DisabledLegacyFields
<1>3. RequestFieldErrors(f) \cap LegacyFields = {}
  BY DEF RequestFieldErrors, LegacyFields
<1> QED BY <1>1, <1>2, <1>3 DEF ErrorsOf, OperationAwareErrors

----------------------------------------------------------------------------
(* A form submitted again.                                                 *)

(* Stripping a block leaves a block.                                       *)
LEMMA StrippedLines ==
    ASSUME NEW T, NEW lines \in Seq(T)
    PROVE  Stripped(lines) \in Seq(T)
<1> DEFINE said == {i \in DOMAIN lines : lines[i].form # "blank"}
<1>1. CASE said = {}
  BY <1>1 DEF Stripped
<1>2. CASE said # {}
  <2>1. said \subseteq 1..Len(lines) /\ Len(lines) \in Nat
    OBVIOUS
  <2> HIDE DEF said
  <2>2. said \subseteq Nat /\ said \subseteq 0..Len(lines)
    BY <2>1
  <2>3. Min(said) \in said
    <3>1. \E m \in said : \A n \in said : m <= n
      BY <1>2, <2>2, LeastNumber, Zenon
    <3> QED BY <3>1, Zenon DEF Min
  <2>4. Max(said) \in said
    <3>1. PICK m \in said : \A n \in said : n <= m
      BY <1>2, <2>1, <2>2, GreatestNumber, Zenon
    <3>2. \A n \in said : m >= n
      BY <2>2, <3>1
    <3> QED BY <3>2, Zenon DEF Max
  <2> DEFINE first == Min(said)
             last == Max(said)
  <2>5. first \in 1..Len(lines) /\ last \in 1..Len(lines)
    BY <2>1, <2>3, <2>4
  <2> HIDE DEF first, last
  <2>6. first \in Int /\ last \in Int /\ \A i \in first..last : lines[i] \in T
    BY <2>1, <2>5
  <2>7. SubSeq(lines, first, last) \in Seq(T)
    BY <2>6, SubSeqProperties
  <2> QED BY <1>2, <2>7, Zenon DEF Stripped, said, first, last
<1> QED BY <1>1, <1>2

LEMMA ShownLines ==
    ASSUME NEW T, NEW lines \in Seq(T)
    PROVE  Textarea(lines) \in Seq(T)
BY DEF Textarea

(* The newline that HTML drops is not part of the context.                 *)
LEMMA ParsedTextarea ==
    ASSUME NEW T, NEW lines \in Seq(T)
    PROVE  ParseContext(Textarea(lines)) = ParseContext(lines)
BY LeadingBlankLine DEF Textarea

(* What an untouched page submits, field by field.                         *)
LEMMA UntouchedForm ==
    ASSUME NEW p, p.type \in Contracts, DOMAIN p.values = ValueFields, NEW mode
    PROVE  LET g == FormOf(Rendered(p), mode) IN
           /\ g.evaluation_type = p.type /\ g.encoding = "utf8" /\ g.mode = mode
           /\ g.action_verb = Offered(p.values["action_verb"], ACTION_VERBS)
           /\ g.resource_type = Offered(p.values["resource_type"], RESOURCE_TYPES)
           /\ g.resource_id = p.values["resource_id"]
           /\ p.type = "legacy" =>
                 /\ g.subject_id = p.values["subject_id"]
                 /\ g.subject_type = p.values["subject_type"]
                 /\ g.context = Textarea(p.values["context"])
           /\ p.type = "operation_aware" => g.request_id = p.values["request_id"]
<1> DEFINE d == Rendered(p)
           g == FormOf(d, mode)
<1>1. d.type = p.type /\ d.values = ShownValues(p.values) /\ d.enabled = FieldsOf(p.type)
  BY DEF Rendered, Contracts
<1> HIDE DEF d
<1>2. /\ g.evaluation_type = d.type /\ g.encoding = "utf8" /\ g.mode = mode
      /\ \A field \in ValueFields : field \in d.enabled => g[field] = d.values[field]
  BY SubmittedForm
<1> HIDE DEF g
<1>3. /\ d.values["action_verb"] = Offered(p.values["action_verb"], ACTION_VERBS)
      /\ d.values["resource_type"] = Offered(p.values["resource_type"], RESOURCE_TYPES)
      /\ d.values["context"] = Textarea(p.values["context"])
      /\ \A field \in ValueFields \ {"action_verb", "resource_type", "context"} :
            d.values[field] = p.values[field]
  BY <1>1 DEF ShownValues, ValueFields, LegacyFields, OperationAwareFields
<1>4. {"action_verb", "resource_type", "resource_id"} \subseteq ValueFields \cap d.enabled
  BY <1>1 DEF FieldsOf, ValueFields, LegacyFields, OperationAwareFields
<1>5. p.type = "legacy" => LegacyFields \subseteq ValueFields \cap d.enabled
  BY <1>1 DEF FieldsOf, ValueFields, LegacyFields, OperationAwareFields
<1>6. p.type = "operation_aware" => OperationAwareFields \subseteq ValueFields \cap d.enabled
  BY <1>1 DEF FieldsOf, ValueFields, LegacyFields, OperationAwareFields
<1>7. /\ g["action_verb"] = d.values["action_verb"]
      /\ g["resource_type"] = d.values["resource_type"]
      /\ g["resource_id"] = d.values["resource_id"]
      /\ d.values["resource_id"] = p.values["resource_id"]
  BY <1>2, <1>3, <1>4
<1>8. p.type = "legacy" =>
         /\ g["subject_id"] = p.values["subject_id"]
         /\ g["subject_type"] = p.values["subject_type"]
         /\ g["context"] = d.values["context"]
  BY <1>2, <1>3, <1>5 DEF LegacyFields
<1>9. p.type = "operation_aware" => g["request_id"] = p.values["request_id"]
  BY <1>2, <1>3, <1>6 DEF OperationAwareFields
<1>10. /\ g.action_verb = g["action_verb"] /\ g.resource_type = g["resource_type"]
       /\ g.resource_id = g["resource_id"] /\ g.subject_id = g["subject_id"]
       /\ g.subject_type = g["subject_type"] /\ g.context = g["context"]
       /\ g.request_id = g["request_id"]
  OBVIOUS
<1>11. /\ g.evaluation_type = p.type /\ g.encoding = "utf8" /\ g.mode = mode
       /\ g.action_verb = Offered(p.values["action_verb"], ACTION_VERBS)
       /\ g.resource_type = Offered(p.values["resource_type"], RESOURCE_TYPES)
       /\ g.resource_id = p.values["resource_id"]
       /\ p.type = "legacy" =>
             /\ g.subject_id = p.values["subject_id"]
             /\ g.subject_type = p.values["subject_type"]
             /\ g.context = Textarea(p.values["context"])
       /\ p.type = "operation_aware" => g.request_id = p.values["request_id"]
  BY <1>1, <1>2, <1>3, <1>7, <1>8, <1>9, <1>10
<1> QED BY <1>11 DEF g, d

(* The legacy builder does not see the newline that HTML drops.            *)
LEMMA SameLegacyForm ==
    ASSUME NEW f, f.context \in Seq(ContextLine), NEW g,
           g.subject_id = f.subject_id, g.subject_type = f.subject_type,
           g.action_verb = f.action_verb, g.resource_type = f.resource_type,
           g.resource_id = f.resource_id, g.context = Textarea(f.context)
    PROVE  SimulationErrors(g) = SimulationErrors(f) /\ BuildSimulation(g) = BuildSimulation(f)
<1>1. ParseContext(g.context) = ParseContext(f.context)
  BY ParsedTextarea
<1>2. RequestFieldErrors(g) = RequestFieldErrors(f)
  BY DEF RequestFieldErrors
<1>3. SimulationErrors(g) = SimulationErrors(f)
  BY <1>1, <1>2, Zenon DEF SimulationErrors
<1> QED BY <1>1, <1>3, Zenon DEF BuildSimulation

(* What is echoed of an accepted form and submitted again makes the same   *)
(* request; the selects offer its verb and its resource type.              *)
LEMMA Resubmitted ==
    ASSUME NEW p, p.type \in Contracts, NEW f, f.evaluation_type = p.type,
           f.context \in Seq(ContextLine), Built(f).ok, p.values = Echo(f)
    PROVE  RepeatsRequest(p, Built(f).request)
<1> SUFFICES ASSUME NEW mode \in {"preview", "gateway"}
             PROVE  LET g == FormOf(Rendered(p), mode) IN
                    Built(g).ok /\ ErrorsOf(g) = {} /\ Built(g).request = Built(f).request
  BY DEF RepeatsRequest
<1> DEFINE g == FormOf(Rendered(p), mode)
<1>1. DOMAIN p.values = ValueFields
  BY DEF Echo
<1>2. /\ g.evaluation_type = p.type
      /\ g.action_verb = Offered(p.values["action_verb"], ACTION_VERBS)
      /\ g.resource_type = Offered(p.values["resource_type"], RESOURCE_TYPES)
      /\ g.resource_id = p.values["resource_id"]
      /\ p.type = "legacy" =>
            /\ g.subject_id = p.values["subject_id"]
            /\ g.subject_type = p.values["subject_type"]
            /\ g.context = Textarea(p.values["context"])
      /\ p.type = "operation_aware" => g.request_id = p.values["request_id"]
  BY <1>1, UntouchedForm
<1>3. Endpoint(f) = p.type /\ Endpoint(g) = p.type
  BY <1>2, ContractsAreEndpoints
<1>4. f.action_verb \in ACTION_VERBS /\ f.resource_type \in RESOURCE_TYPES
  BY <1>3, AcceptedForm DEF Contracts
<1>5. /\ p.values["action_verb"] = f.action_verb /\ p.values["resource_type"] = f.resource_type
      /\ p.values["resource_id"] = f.resource_id /\ p.values["subject_id"] = f.subject_id
      /\ p.values["subject_type"] = f.subject_type
      /\ p.type = "legacy" => p.values["context"] = f.context
      /\ p.type = "operation_aware" => p.values["request_id"] = f.request_id
  <2> DEFINE Echoed(field) ==
               CASE field = "request_id" /\ Endpoint(f) = "legacy" -> ""
                 [] field = "context" -> EchoedContext(f)
                 [] OTHER -> f[field]
  <2>1. \A field \in ValueFields : p.values[field] = Echoed(field)
    BY DEF Echo
  <2>2. {"action_verb", "resource_type", "resource_id", "subject_id", "subject_type", "context",
         "request_id"} \subseteq ValueFields
    BY DEF ValueFields, LegacyFields, OperationAwareFields
  <2>3. /\ Echoed("action_verb") = f.action_verb /\ Echoed("resource_type") = f.resource_type
        /\ Echoed("resource_id") = f.resource_id /\ Echoed("subject_id") = f.subject_id
        /\ Echoed("subject_type") = f.subject_type
    OBVIOUS
  <2>4. p.type = "legacy" => Echoed("context") = f.context
    BY <1>3, Zenon DEF EchoedContext
  <2>5. p.type = "operation_aware" => Echoed("request_id") = f.request_id
    BY <1>3
  <2> HIDE DEF Echoed
  <2> QED BY <2>1, <2>2, <2>3, <2>4, <2>5
<1>6. g.action_verb = f.action_verb /\ g.resource_type = f.resource_type
  BY <1>2, <1>4, <1>5, Zenon DEF Offered
<1>7. CASE p.type = "legacy"
  <2>1. SimulationErrors(g) = SimulationErrors(f) /\ BuildSimulation(g) = BuildSimulation(f)
    <3> HIDE DEF g
    <3> QED BY <1>2, <1>5, <1>6, <1>7, SameLegacyForm
  <2>2. SimulationErrors(f) = {}
    BY <1>3, <1>7, AcceptedForm
  <2> HIDE DEF g
  <2>3. Built(g) = Built(f)
    BY <1>3, <1>7, <2>1 DEF Built
  <2>4. ErrorsOf(g) = {}
    BY <1>3, <1>7, <2>1, <2>2 DEF ErrorsOf
  <2> QED BY <2>3, <2>4 DEF g
<1>8. CASE p.type = "operation_aware"
  <2>1. OperationAwareErrors(f) = {} /\ LegacyOnlyFieldErrors(f) = {}
    BY <1>3, <1>8, AcceptedForm
  <2>2. LegacyOnlyFieldErrors(g) = {}
    <3>1. Rendered(p).type = "operation_aware" /\ Rendered(p).enabled = FieldsOf(Rendered(p).type)
      BY <1>8 DEF Rendered
    <3> QED BY <3>1, DisabledLegacyFields
  <2> HIDE DEF g
  <2>3. RequestFieldErrors(g) = RequestFieldErrors(f)
    BY <1>2, <1>5, <1>6 DEF RequestFieldErrors
  <2>4. OperationAwareErrors(g) = {}
    BY <2>1, <2>2, <2>3 DEF OperationAwareErrors
  <2>5. BuildOperationAwareSimulation(g) = BuildOperationAwareSimulation(f)
    <3>1. /\ g.action_verb = f.action_verb /\ g.resource_type = f.resource_type
          /\ g.resource_id = f.resource_id /\ g.request_id = f.request_id
      BY <1>2, <1>5, <1>6, <1>8
    <3>2. OperationAwareErrors(g) = OperationAwareErrors(f)
      BY <2>1, <2>4
    <3> QED BY <3>1, <3>2, Zenon DEF BuildOperationAwareSimulation
  <2>6. Built(g) = Built(f)
    BY <1>3, <1>8, <2>5 DEF Built
  <2>7. ErrorsOf(g) = {}
    BY <1>3, <1>8, <2>4 DEF ErrorsOf
  <2> QED BY <2>6, <2>7 DEF g
<1> QED BY <1>7, <1>8 DEF Contracts

(* A sample scenario makes the request of its values.                      *)
LEMMA ScenarioRepeated ==
    ASSUME NEW values \in Scenarios, NEW p, p.type = "legacy", p.values = values
    PROVE  LET request == BuildSimulation(p.values).request IN
           /\ RepeatsRequest(p, request)
           /\ request.action = p.values["action_verb"]
           /\ request.resource_id = p.values["resource_id"]
<1> DEFINE request == BuildSimulation(values).request
<1>1. /\ DOMAIN values = ValueFields /\ values["context"] \in Seq(ContextLine)
      /\ BuildSimulation(values).ok
  BY SessionAssumption, ScenarioAssumption
<1>2. values["resource_id"] # ""
  BY ScenarioAssumption
<1>3. SimulationErrors(values) = {}
  BY <1>1 DEF BuildSimulation
<1>4. values.action_verb \in ACTION_VERBS /\ values.resource_type \in RESOURCE_TYPES
  <2>1. RequestFieldErrors(values) = {}
    BY <1>3, Zenon DEF SimulationErrors
  <2> QED BY <2>1, Zenon DEF RequestFieldErrors
<1>5. request.action = values["action_verb"] /\ request.resource_id = values["resource_id"]
  <2>1. request = GatewayPayload(values.action_verb, values.resource_type, values.resource_id,
                                 ParseContext(values.context).context)
    BY <1>1 DEF BuildSimulation
  <2>2. request.action = values.action_verb /\ request.resource_id = OrAbsent(values.resource_id)
    <3> HIDE DEF request
    <3> QED BY <2>1 DEF GatewayPayload, NoRequest
  <2>3. OrAbsent(values.resource_id) = values.resource_id
    BY <1>2, Zenon DEF OrAbsent
  <2> QED BY <2>2, <2>3
<1>6. ASSUME NEW mode \in {"preview", "gateway"}
      PROVE  LET g == FormOf(Rendered(p), mode) IN
             Built(g).ok /\ ErrorsOf(g) = {} /\ Built(g).request = request
  <2> DEFINE g == FormOf(Rendered(p), mode)
  <2>1. /\ g.evaluation_type = "legacy"
        /\ g.action_verb = Offered(values["action_verb"], ACTION_VERBS)
        /\ g.resource_type = Offered(values["resource_type"], RESOURCE_TYPES)
        /\ g.resource_id = values["resource_id"] /\ g.subject_id = values["subject_id"]
        /\ g.subject_type = values["subject_type"] /\ g.context = Textarea(values["context"])
    BY <1>1, UntouchedForm DEF Contracts
  <2>2. g.action_verb = values.action_verb /\ g.resource_type = values.resource_type
    BY <1>4, <2>1, Zenon DEF Offered
  <2> HIDE DEF g
  <2>3. SimulationErrors(g) = SimulationErrors(values) /\ BuildSimulation(g) = BuildSimulation(values)
    BY <1>1, <2>1, <2>2, SameLegacyForm
  <2>4. Endpoint(g) = "legacy"
    BY <2>1, ContractsAreEndpoints DEF Contracts
  <2>5. Built(g) = BuildSimulation(values) /\ ErrorsOf(g) = {}
    BY <1>3, <2>3, <2>4 DEF Built, ErrorsOf
  <2> QED BY <1>1, <2>5 DEF g
<1>7. RepeatsRequest(p, request)
  <2> HIDE DEF request
  <2> QED BY <1>6 DEF RepeatsRequest
<1> QED BY <1>5, <1>7

----------------------------------------------------------------------------
(* Pages and what the browser makes of them.                               *)

LEMMA FieldsOfAContract == \A type : FieldsOf(type) \subseteq ValueFields
BY DEF FieldsOf

(* Every page arrives as a form whose enabled fields are its contract's.   *)
LEMMA RenderedForm ==
    ASSUME NEW p, PageInv(p)
    PROVE  LET d == Rendered(p) IN
           /\ DomInv(d) /\ DomInv(Scripted(d))
           /\ d.enabled = FieldsOf(d.type)
           /\ Scripted(d).enabled = FieldsOf(Scripted(d).type)
<1> DEFINE d == Rendered(p)
<1>1. /\ p.type \in Contracts /\ DOMAIN ShownValues(p.values) = ValueFields
      /\ ShownValues(p.values)["context"] \in Seq(ContextLine)
  <2>1. p.values["context"] \in Seq(ContextLine) /\ DOMAIN p.values = ValueFields
    BY DEF PageInv
  <2>2. Textarea(p.values["context"]) \in Seq(ContextLine)
    BY <2>1, ShownLines
  <2>3. ShownValues(p.values)["context"] = Textarea(p.values["context"])
    BY <2>1 DEF ShownValues, ValueFields, LegacyFields
  <2> QED BY <2>2, <2>3 DEF PageInv, ShownValues
<1>2. DomInv(d) /\ d.type = p.type /\ d.enabled = FieldsOf(p.type)
  <2>1. /\ d.type = p.type /\ d.values = ShownValues(p.values)
        /\ d.visible = FieldsOf(p.type) /\ d.enabled = FieldsOf(p.type)
    BY <1>1 DEF Rendered, Contracts
  <2>2. d = [type |-> d.type, values |-> d.values, visible |-> d.visible, enabled |-> d.enabled]
    BY DEF Rendered
  <2> QED BY <1>1, <2>1, <2>2, FieldsOfAContract DEF DomInv
<1>3. Scripted(d) = [type |-> d.type, values |-> d.values,
                     visible |-> FieldsOf(d.type), enabled |-> FieldsOf(d.type)]
  BY DEF Scripted
<1>4. DomInv(Scripted(d)) /\ Scripted(d).enabled = FieldsOf(Scripted(d).type)
  <2> HIDE DEF d
  <2> QED BY <1>2, <1>3, FieldsOfAContract DEF DomInv
<1> QED BY <1>2, <1>4

(* Whatever the clients: a page without values, or with a scenario's.      *)
LEMMA FreshPages ==
    ASSUME NEW c \in Clients, NEW values, NEW example \in BOOLEAN,
           IF example THEN values \in Scenarios ELSE values = EMPTY_VALUES
    PROVE  PageInv(FreshPage(c, values, example))
<1> DEFINE p == FreshPage(c, values, example)
<1>1. DOMAIN values = ValueFields /\ values["context"] \in Seq(ContextLine)
  <2>1. CASE values = EMPTY_VALUES
    <3>1. EMPTY_VALUES["context"] = <<>>
      BY DEF EMPTY_VALUES, ValueFields, LegacyFields, Blank
    <3>2. DOMAIN EMPTY_VALUES = ValueFields
      BY DEF EMPTY_VALUES
    <3>3. EMPTY_VALUES["context"] \in Seq(ContextLine)
      BY <3>1
    <3> QED BY <2>1, <3>2, <3>3
  <2> QED BY <2>1, SessionAssumption
<1>2. /\ p.view = "none" /\ p.type = "legacy" /\ p.errors = {} /\ p.values = values
      /\ p.button = EvaluationEnabled(c) /\ p.example = example
  BY DEF FreshPage
<1>3. EvaluationEnabled(c) \in BOOLEAN
  BY SessionAssumption DEF EvaluationEnabled, Configured, HasToken
<1> HIDE DEF p
<1>4. example =>
         LET request == BuildSimulation(p.values).request IN
         /\ RepeatsRequest(p, request)
         /\ request.action = p.values["action_verb"]
         /\ request.resource_id = p.values["resource_id"]
  BY <1>2, ScenarioRepeated
<1>5. PageInv(p)
  BY <1>1, <1>2, <1>3, <1>4 DEF PageInv, Views, Contracts
<1> QED BY <1>5 DEF p

(* The handler answers a form of the page with one of the views; a preview *)
(* shows the request of an accepted form.                                  *)
LEMMA AnswerViews ==
    ASSUME NEW f, f.encoding = "utf8", f.evaluation_type \in Contracts, NEW c
    PROVE  /\ LocalPage(f, c).view \in Views
           /\ LocalPage(f, c).request = Built(f).request
           /\ LocalPage(f, c).view = "preview" <=> Built(f).ok /\ f.mode # "gateway"
           /\ \A failure : FailurePage(f, failure).view \in Views \ {"preview"}
           /\ \A reply : ReplyPage(f, reply).view \in Views \ {"preview"}
<1>1. Endpoint(f) \in Contracts /\ Decodable(f)
  BY ContractsAreEndpoints DEF Decodable
<1>2. /\ LocalView(f, c) \in Views \ {"server_error"}
      /\ LocalView(f, c) = "preview" <=> Built(f).ok /\ f.mode # "gateway"
  BY <1>1 DEF LocalView, Gate, Views, Contracts
<1>3. /\ LocalPage(f, c).view = LocalView(f, c)
      /\ LocalPage(f, c).request = Built(f).request
  BY <1>2 DEF LocalPage, Views
<1>4. ServerError.view \in Views \ {"preview"}
  BY DEF ServerError, NoPage, Views
<1>5. \A a, b : ResultPage(f, a, b).view \in Views \ {"preview"}
  BY <1>4 DEF ResultPage, Views
<1> QED BY <1>2, <1>3, <1>4, <1>5 DEF FailurePage, ReplyPage

LEMMA AnswerPages ==
    ASSUME NEW c \in Clients, NEW d, DomInv(d), NEW mode, NEW shown, shown.view \in Views,
           shown.view = "preview" => LET f == FormOf(d, mode) IN
                                     Built(f).ok /\ shown.request = Built(f).request,
           NEW sent, NEW body \in JsonValues \cup {NoRaw}
    PROVE  PageInv(AnswerPage(FormOf(d, mode), c, shown, sent, body))
<1> DEFINE f == FormOf(d, mode)
           p == AnswerPage(f, c, shown, sent, body)
<1>1. /\ f.evaluation_type = d.type /\ f.evaluation_type \in Contracts
      /\ f.context \in Seq(ContextLine)
  <2>1. "context" \in ValueFields /\ <<>> \in Seq(ContextLine)
    BY DEF ValueFields, LegacyFields
  <2>2. f["context"] = IF "context" \in d.enabled THEN d.values["context"] ELSE Blank("context")
    BY <2>1, SubmittedForm
  <2>3. Blank("context") = <<>>
    BY DEF Blank
  <2> QED BY <2>1, <2>2, <2>3, SubmittedForm DEF DomInv
<1>2. /\ p.view = shown.view /\ p.type = f.evaluation_type /\ p.errors = ErrorsOf(f)
      /\ p.button = EvaluationEnabled(c) /\ p.values = Echo(f) /\ p.request = shown.request
      /\ p.example = FALSE /\ p.body = body
      /\ p.raw = IF shown.view = "server_error" THEN NoRaw ELSE RawShown(shown, body)
  BY DEF AnswerPage
<1>3. DOMAIN Echo(f) = ValueFields /\ Echo(f)["context"] \in Seq(ContextLine)
  <2>1. Echo(f)["context"] = EchoedContext(f)
    BY DEF Echo, ValueFields, LegacyFields
  <2>2. EchoedContext(f) \in Seq(ContextLine)
    BY <1>1, StrippedLines DEF EchoedContext
  <2> QED BY <2>1, <2>2 DEF Echo
<1>4. EvaluationEnabled(c) \in BOOLEAN
  BY SessionAssumption DEF EvaluationEnabled, Configured, HasToken
<1>5. shown.view = "preview" => RepeatsRequest(p, shown.request)
  <2> HIDE DEF p
  <2> QED BY <1>1, <1>2, Resubmitted
<1>6. p.view = "presentation" /\ p.raw # NoRaw => p.body \in JsonValues /\ p.raw = redact_json[p.body]
  <2> HIDE DEF f, p
  <2> QED BY <1>2, Zenon DEF RawShown
<1>7. PageInv(p)
  <2> HIDE DEF f, p
  <2> QED BY <1>1, <1>2, <1>3, <1>4, <1>5, <1>6, ErrorFields DEF PageInv
<1> QED BY <1>7

----------------------------------------------------------------------------
(* The invariant.                                                          *)

LEMMA InitInv == Init => SessionInv
<1> SUFFICES ASSUME Init PROVE SessionInv
  OBVIOUS
<1>1. client \in Clients /\ PageInv(page)
  BY FreshPages DEF Init
<1> QED BY <1>1, RenderedForm DEF Init, SessionInv

(* A new page in the browser.                                              *)
LEMMA ShowStep ==
    ASSUME SessionInv, NEW p, PageInv(p), Show(p), UNCHANGED <<client, script>>
    PROVE  SessionInv'
<1>1. client' \in Clients /\ page' = p /\ PageInv(page')
  BY DEF SessionInv, Show
<1>2. DomInv(dom') /\ (script' => (dom').enabled = FieldsOf((dom').type))
  BY RenderedForm DEF Show
<1> QED BY <1>1, <1>2 DEF SessionInv, PageInv, DomInv

(* The same page, and another form in it.                                  *)
LEMMA ChangeStep ==
    ASSUME SessionInv, UNCHANGED <<client, page, script>>, DomInv(dom'),
           script => (dom').enabled = FieldsOf((dom').type)
    PROVE  SessionInv'
BY DEF SessionInv, PageInv, DomInv, RepeatsRequest

LEMMA InvInductive == SessionInv /\ [Next]_vars => SessionInv'
<1> SUFFICES ASSUME SessionInv, [Next]_vars PROVE SessionInv'
  OBVIOUS
<1> USE DEF SessionInv
<1>1. CASE Open
  BY <1>1, FreshPages, ShowStep DEF Open
<1>2. ASSUME NEW values \in Scenarios, LoadExample(values) PROVE SessionInv'
  BY <1>2, FreshPages, ShowStep DEF LoadExample
<1>3. ASSUME NEW field \in ValueFields, NEW v \in Inputs[field], Edit(field, v) PROVE SessionInv'
  <2> DEFINE values == [dom.values EXCEPT ![field] = v]
  <2>1. dom' = [type |-> dom.type, values |-> values,
                visible |-> dom.visible, enabled |-> dom.enabled]
    BY <1>3 DEF Edit, DomInv
  <2>2. DOMAIN values = ValueFields /\ values["context"] \in Seq(ContextLine)
    <3>1. field = "context" => v \in Seq(ContextLine)
      BY SessionAssumption
    <3>2. "context" \in ValueFields
      BY DEF ValueFields, LegacyFields
    <3> QED BY <3>1, <3>2 DEF DomInv
  <2> HIDE DEF values
  <2> QED BY <1>3, <2>1, <2>2, ChangeStep DEF Edit, DomInv
<1>4. ASSUME NEW type \in Contracts, Choose(type) PROVE SessionInv'
  <2>1. [dom EXCEPT !.type = type]
           = [type |-> type, values |-> dom.values, visible |-> dom.visible, enabled |-> dom.enabled]
    BY DEF DomInv
  <2>2. Scripted([dom EXCEPT !.type = type])
           = [type |-> type, values |-> dom.values,
              visible |-> FieldsOf(type), enabled |-> FieldsOf(type)]
    BY <2>1 DEF Scripted
  <2> QED BY <1>4, <2>1, <2>2, FieldsOfAContract, ChangeStep DEF Choose, DomInv
<1>5. ASSUME NEW mode, SubmitLocally(mode) PROVE SessionInv'
  <2> DEFINE f == FormOf(dom, mode)
             shown == LocalPage(f, client)
  <2>1. shown.view \in Views /\ (shown.view = "preview" => Built(f).ok /\ shown.request = Built(f).request)
    BY SubmittedForm, AnswerViews DEF DomInv
  <2>2. PageInv(AnswerPage(f, client, shown, NoRequest, NoRaw))
    <3> HIDE DEF shown
    <3> QED BY <2>1, AnswerPages
  <2>3. Show(AnswerPage(f, client, shown, NoRequest, NoRaw)) /\ UNCHANGED <<client, script>>
    BY <1>5 DEF SubmitLocally
  <2> QED BY <2>2, <2>3, ShowStep
<1>6. CASE Evaluate
  <2> DEFINE f == FormOf(dom, "gateway")
  <2>1. /\ \A failure : FailurePage(f, failure).view \in Views \ {"preview"}
        /\ \A reply : ReplyPage(f, reply).view \in Views \ {"preview"}
    BY SubmittedForm, AnswerViews DEF DomInv
  <2>2. PICK shown, sent, body :
           /\ shown.view \in Views \ {"preview"} /\ body \in JsonValues \cup {NoRaw}
           /\ Show(AnswerPage(f, client, shown, sent, body))
    BY <1>6, <2>1, SessionAssumption DEF Evaluate
  <2>3. PageInv(AnswerPage(f, client, shown, sent, body))
    BY <2>2, AnswerPages
  <2> QED BY <1>6, <2>2, <2>3, ShowStep DEF Evaluate
<1>7. CASE Restart
  BY <1>7 DEF Restart, PageInv, DomInv, RepeatsRequest
<1>8. CASE UNCHANGED vars
  BY <1>8 DEF vars, PageInv, DomInv, RepeatsRequest
<1> QED BY <1>1, <1>2, <1>3, <1>4, <1>5, <1>6, <1>7, <1>8 DEF Next, Submit, Contracts

LEMMA InvHolds == Spec => []SessionInv
BY InitInv, InvInductive, PTL DEF Spec

----------------------------------------------------------------------------

(* The type invariant of pages and forms, after any sequence of pages,     *)
(* edits, switches, submissions and restarts.                              *)
THEOREM SessionTypes == Spec => []TypeOK
<1>1. SessionInv => TypeOK
  BY DEF SessionInv, PageInv, DomInv, TypeOK, Contracts
<1> QED BY <1>1, InvHolds, PTL

(* No operator is left with an error about a field that the page hides.    *)
THEOREM HiddenErrorsGoAway == Spec => []ErrorsCanBeFixed
<1>1. SessionInv => ErrorsCanBeFixed
  <2> SUFFICES ASSUME SessionInv, NEW field \in page.errors, field \notin Rendered(page).visible
               PROVE  field \notin ErrorsOf(FormOf(Rendered(page), "preview"))
    BY DEF ErrorsCanBeFixed
  <2> DEFINE d == Rendered(page)
  <2>1. d.visible = FieldsOf(page.type) /\ d.type = page.type /\ d.enabled = FieldsOf(d.type)
    BY DEF Rendered, SessionInv, PageInv, Contracts
  <2>2. field \in ValueFields /\ field \notin FieldsOf(page.type)
    BY <2>1 DEF SessionInv, PageInv
  <2>3. page.type = "operation_aware" /\ field \in LegacyFields
    BY <2>2 DEF FieldsOf, SessionInv, PageInv, Contracts, OperationAwareFields
  <2> QED BY <2>1, <2>3, DisabledFieldsAreAccepted
<1> QED BY <1>1, InvHolds, PTL

(* The script keeps every legacy-only value out of what is submitted to    *)
(* the operation-aware contract.                                           *)
THEOREM ScriptHoldsBack == Spec => ScriptKeepsLegacyFieldsBack
<1>1. ASSUME SessionInv, NEW mode, Submit(mode), script, dom.type = "operation_aware"
      PROVE  page'.errors \cap LegacyFields = {}
  <2> DEFINE f == FormOf(dom, mode)
  <2>1. ErrorsOf(f) \cap LegacyFields = {}
    BY <1>1, DisabledFieldsAreAccepted DEF SessionInv
  <2>2. \A c, shown, sent, body : AnswerPage(f, c, shown, sent, body).errors = ErrorsOf(f)
    BY DEF AnswerPage
  <2>3. PICK c, shown, sent, body : page' = AnswerPage(f, c, shown, sent, body)
    <3>1. CASE SubmitLocally(mode)
      BY <3>1 DEF SubmitLocally, Show
    <3>2. CASE mode = "gateway" /\ Evaluate
      BY <3>2 DEF Evaluate, Show
    <3> QED BY <1>1, <3>1, <3>2 DEF Submit
  <2> HIDE DEF f
  <2> QED BY <2>1, <2>2, <2>3
<1>2. SessionInv /\ [Next]_vars =>
        [\A mode \in {"preview", "gateway"} :
           Submit(mode) /\ script /\ dom.type = "operation_aware"
              => page'.errors \cap LegacyFields = {}]_vars
  BY <1>1
<1> QED BY <1>2, InvHolds, PTL DEF Spec, ScriptKeepsLegacyFieldsBack

(* From an untouched preview either button shows the same request again,   *)
(* without an error, and Evaluate sends what was previewed or nothing,     *)
(* whatever the operator typed, scenario, context or contract.             *)
THEOREM PreviewsAreKept == Spec => PreviewIsKept
<1>1. ASSUME SessionInv, NEW mode \in {"preview", "gateway"}, Submit(mode), Untouched,
             page.view = "preview"
      PROVE  /\ page'.errors = {}
             /\ page'.view # "server_error" => page'.request = page.request
             /\ page'.sent = IF mode = "gateway" /\ EvaluationEnabled(client)
                             THEN page.request ELSE NoRequest
  <2> DEFINE f == FormOf(dom, mode)
  <2>1. Built(f).ok /\ ErrorsOf(f) = {} /\ Built(f).request = page.request
    BY <1>1 DEF SessionInv, PageInv, RepeatsRequest, Untouched
  <2>2. f.encoding = "utf8" /\ f.evaluation_type \in Contracts /\ f.mode = mode
    BY <1>1, SubmittedForm DEF SessionInv, DomInv
  <2>3. Decodable(f) /\ Endpoint(f) \in Contracts
    BY <2>2, ContractsAreEndpoints DEF Decodable
  <2>4. CallsGateway(f, client) <=> mode = "gateway" /\ EvaluationEnabled(client)
    BY <2>1, <2>2, <2>3 DEF CallsGateway, Contracts
  <2>5. \A shown, sent, body :
           LET p == AnswerPage(f, client, shown, sent, body) IN
           /\ p.errors = ErrorsOf(f) /\ p.sent = sent
           /\ p.view = shown.view /\ p.request = shown.request
    BY DEF AnswerPage
  <2>6. CASE SubmitLocally(mode)
    <3>1. ~CallsGateway(f, client)
      BY <2>6 DEF SubmitLocally
    <3>2. page' = AnswerPage(f, client, LocalPage(f, client), NoRequest, NoRaw)
      BY <2>6 DEF SubmitLocally, Show
    <3>3. LocalPage(f, client).request = Built(f).request
      BY <2>2, AnswerViews
    <3> HIDE DEF f
    <3> QED BY <2>1, <2>4, <2>5, <3>1, <3>2, <3>3
  <2>7. CASE mode = "gateway" /\ Evaluate
    <3>1. CallsGateway(f, client)
      BY <2>7 DEF Evaluate
    <3>2. WireBody(f) = Built(f).request
      BY <2>1, <2>3, WireBodyIsTheRequest DEF Contracts
    <3>3. PICK shown, body :
             /\ page' = AnswerPage(f, client, shown, WireBody(f), body)
             /\ \/ \E failure : shown = FailurePage(f, failure)
                \/ \E reply : shown = ReplyPage(f, reply)
      BY <2>7 DEF Evaluate, Show
    <3>4. shown.view # "server_error" => shown.request = Built(f).request
      <4>1. \A a, b : ResultPage(f, a, b).view # "server_error" =>
                         ResultPage(f, a, b).request = Built(f).request
        BY DEF ResultPage, ServerError, NoPage
      <4>2. ServerError.view = "server_error"
        BY DEF ServerError, NoPage
      <4> HIDE DEF f
      <4> QED BY <3>3, <4>1, <4>2 DEF FailurePage, ReplyPage
    <3> HIDE DEF f
    <3> QED BY <2>1, <2>4, <2>5, <3>1, <3>2, <3>3, <3>4
  <2> QED BY <1>1, <2>6, <2>7 DEF Submit
<1>2. SessionInv /\ [Next]_vars =>
        [\A mode \in {"preview", "gateway"} :
           Submit(mode) /\ Untouched /\ page.view = "preview" =>
              /\ page'.errors = {}
              /\ page'.view # "server_error" => page'.request = page.request
              /\ page'.sent = IF mode = "gateway" /\ EvaluationEnabled(client)
                              THEN page.request ELSE NoRequest]_vars
  BY <1>1
<1> QED BY <1>2, InvHolds, PTL DEF Spec, PreviewIsKept

(* A sample scenario submitted as it was loaded is previewed, for any      *)
(* scenarios that are valid requests: neither the selects nor the text     *)
(* area nor the hidden fields change it.                                   *)
THEOREM ScenariosAreAccepted == Spec => ExamplesAreAccepted
<1>1. ASSUME SessionInv, SubmitLocally("preview"), Untouched, page.example
      PROVE  /\ page'.view = "preview"
             /\ page'.request.action = page.values["action_verb"]
             /\ page'.request.resource_id = page.values["resource_id"]
  <2> DEFINE f == FormOf(dom, "preview")
             shown == LocalPage(f, client)
  <2>1. /\ Built(f).ok
        /\ Built(f).request.action = page.values["action_verb"]
        /\ Built(f).request.resource_id = page.values["resource_id"]
    BY <1>1 DEF SessionInv, PageInv, RepeatsRequest, Untouched
  <2>2. f.encoding = "utf8" /\ f.evaluation_type \in Contracts /\ f.mode = "preview"
    BY <1>1, SubmittedForm DEF SessionInv, DomInv
  <2>3. shown.view = "preview" /\ shown.request = Built(f).request
    BY <2>1, <2>2, AnswerViews
  <2>4. page' = AnswerPage(f, client, shown, NoRequest, NoRaw)
    BY <1>1 DEF SubmitLocally, Show
  <2>5. page'.view = shown.view /\ page'.request = shown.request
    <3> HIDE DEF f, shown
    <3> QED BY <2>4 DEF AnswerPage
  <2> HIDE DEF f, shown
  <2> QED BY <2>1, <2>3, <2>5
<1>2. SessionInv /\ [Next]_vars =>
        [SubmitLocally("preview") /\ Untouched /\ page.example =>
           /\ page'.view = "preview"
           /\ page'.request.action = page.values["action_verb"]
           /\ page'.request.resource_id = page.values["resource_id"]]_vars
  BY <1>1
<1> QED BY <1>2, InvHolds, PTL DEF Spec, ExamplesAreAccepted

(* The raw body that the operation-aware panel shows hides what is under a *)
(* sensitive key of the reply, and nothing else, for any JSON values.      *)
THEOREM RawHidesOnlySensitive == Spec => []RawIsTheReplyRedacted
<1>1. SessionInv => RawIsTheReplyRedacted
  BY RedactionHidesOnlySensitive DEF SessionInv, PageInv, RawIsTheReplyRedacted
<1> QED BY <1>1, InvHolds, PTL

=============================================================================
