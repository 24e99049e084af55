--------------------------- MODULE SimulateSession ---------------------------
(***************************************************************************)
(* One operator's browser on /simulate: pages are served, the operator     *)
(* changes the form, the browser submits what its page lets it submit, and *)
(* the handler answers with the next page.  The console may be restarted   *)
(* with another gateway configuration while a page stays open.             *)
(*                                                                         *)
(* The page script may be off; then the form stays as the server rendered  *)
(* it.  Submission has the same handler among other submissions; here it   *)
(* answers at once.                                                        *)
(***************************************************************************)
EXTENDS SimulateHandler, Redaction, FiniteSetsExt

CONSTANTS Clients,        \* the gateway client configurations
          Scenarios,      \* the form values of the sample scenarios
          Inputs,         \* what the operator may type or pick, by field
          Replies         \* replies to a call, with the JSON they are: .raw

VARIABLES client,   \* app.state.gateway_client
          page,     \* the page in the browser
          dom,      \* the state of its form
          script    \* does the page script run?

vars == <<client, page, dom, script>>

----------------------------------------------------------------------------
(* Fields and what is echoed of them.                                      *)

LegacyFields == {"subject_id", "subject_type", "context"}
OperationAwareFields == {"request_id"}
ValueFields == LegacyFields \cup OperationAwareFields \cup {"action_verb", "resource_type", "resource_id"}

ASSUME SessionAssumption ==
    /\ Clients \subseteq [base_url : BOOLEAN, token : BOOLEAN]
    /\ \A values \in Scenarios :
          DOMAIN values = ValueFields /\ values["context"] \in Seq(ContextLine)
    /\ Inputs["context"] \subseteq Seq(ContextLine)
    /\ \A reply \in Replies : reply.raw \in JsonValues

(* The sample scenarios are valid requests, each for one resource.         *)
ASSUME ScenarioAssumption ==
    \A values \in Scenarios : BuildSimulation(values).ok /\ values["resource_id"] # ""

Blank(field) == IF field = "context" THEN <<>> ELSE ""

(* Mutated form: the field of the newer contract is forgotten.             *)
EMPTY_VALUES_NoRequestId == [field \in ValueFields \ {"request_id"} |-> Blank(field)]

EMPTY_VALUES == [field \in ValueFields |-> Blank(field)]

(* The fields a contract can use are shown and enabled, the others hidden  *)
(* and disabled.                                                           *)
FieldsOf(type) ==
    ValueFields \ IF type = "operation_aware" THEN LegacyFields ELSE OperationAwareFields

(* str.strip() of the context: its first and last blank lines go.          *)
Stripped(lines) ==
    LET said == {i \in DOMAIN lines : lines[i].form # "blank"}
    IN  IF said = {} THEN <<>> ELSE SubSeq(lines, Min(said), Max(said))

EchoedContext(f) == IF Endpoint(f) = "legacy" THEN f.context ELSE Stripped(f.context)

(* Mutated form: the operation-aware echo has no request id.               *)
Echo_NoRequestId(f) ==
    [field \in ValueFields |->
        IF field = "request_id" THEN "" ELSE IF field = "context" THEN EchoedContext(f) ELSE f[field]]

(* The values a page repeats: build_simulation has no request id to echo.  *)
Echo(f) ==
    [field \in ValueFields |->
        CASE field = "request_id" /\ Endpoint(f) = "legacy" -> ""
          [] field = "context" -> EchoedContext(f)
          [] OTHER -> f[field]]

ErrorsOf(f) ==
    CASE Endpoint(f) = "operation_aware" -> OperationAwareErrors(f)
      [] Endpoint(f) = "legacy"          -> SimulationErrors(f)
      [] OTHER                           -> {"evaluation_type"}

----------------------------------------------------------------------------
(* The template.                                                           *)

(* A select without the echoed option falls back to its first, "".         *)
Offered(v, options) == IF v \in options THEN v ELSE ""

(* HTML drops a newline right after <textarea>.                            *)
Textarea(lines) == IF lines # <<>> /\ lines[1].form = "blank" THEN Tail(lines) ELSE lines

ShownValues(values) ==
    [values EXCEPT !["action_verb"] = Offered(@, ACTION_VERBS),
                   !["resource_type"] = Offered(@, RESOURCE_TYPES),
                   !["context"] = Textarea(@)]

(* Mutated form: what the contract cannot use is hidden and not disabled.  *)
Rendered_HiddenOnly(p) ==
    [type |-> IF p.type = "operation_aware" THEN "operation_aware" ELSE "legacy",
     values |-> ShownValues(p.values), visible |-> FieldsOf(p.type), enabled |-> ValueFields]

(* The form as the browser shows it when the page arrives.                 *)
Rendered(p) ==
    [type |-> IF p.type = "operation_aware" THEN "operation_aware" ELSE "legacy",
     values |-> ShownValues(p.values), visible |-> FieldsOf(p.type), enabled |-> FieldsOf(p.type)]

(* Mutated form: the script hides and does not disable.                    *)
Scripted_HidesOnly(d) == [d EXCEPT !.visible = FieldsOf(d.type)]

(* update() of the script.                                                 *)
Scripted(d) ==
    [type |-> d.type, values |-> d.values, visible |-> FieldsOf(d.type), enabled |-> FieldsOf(d.type)]

(* A disabled control is never part of what a browser submits.             *)
FormOf(d, mode) ==
    [field \in ValueFields \cup {"encoding", "evaluation_type", "mode"} |->
        CASE field = "encoding"        -> "utf8"
          [] field = "evaluation_type" -> d.type
          [] field = "mode"            -> mode
          [] OTHER -> IF field \in d.enabled THEN d.values[field] ELSE Blank(field)]

Untouched == dom = Rendered(page)

----------------------------------------------------------------------------
(* The pages.                                                              *)

NoRaw == Leaf("none")

(* GET /simulate, with the values of a scenario or none.                   *)
FreshPage(c, values, example) ==
    [type |-> "legacy", values |-> values, example |-> example,
     button |-> EvaluationEnabled(c), view |-> "none", errors |-> {},
     request |-> NoRequest, sent |-> NoRequest, body |-> NoRaw, raw |-> NoRaw]

(* Mutated form: the raw body is shown as it came.                         *)
RawShown_AsReceived(shown, body) ==
    IF shown.view = "presentation" /\ shown.result.response # NoResponse THEN NoRaw ELSE body

(* The raw body on the page: as received on the legacy panel, redacted,    *)
(* and only without a governed response, on the other.                     *)
RawShown(shown, body) ==
    IF shown.view # "presentation" \/ body = NoRaw THEN body
    ELSE IF shown.result.response # NoResponse THEN NoRaw ELSE redact_json[body]

(* The page the handler makes of a form: shown is its [view, request,      *)
(* result], sent what went to the gateway, body what came back.            *)
AnswerPage(f, c, shown, sent, body) ==
    [type |-> f.evaluation_type, values |-> Echo(f), example |-> FALSE,
     button |-> EvaluationEnabled(c), view |-> shown.view, errors |-> ErrorsOf(f),
     request |-> shown.request, sent |-> sent, body |-> body,
     raw |-> IF shown.view = "server_error" THEN NoRaw ELSE RawShown(shown, body)]

Show(p) ==
    /\ page' = p
    /\ dom' = IF script THEN Scripted(Rendered(p)) ELSE Rendered(p)

----------------------------------------------------------------------------

Init ==
    /\ client \in Clients
    /\ script \in BOOLEAN
    /\ page = FreshPage(client, EMPTY_VALUES, FALSE)
    /\ dom = Rendered(page)

Open ==
    /\ Show(FreshPage(client, EMPTY_VALUES, FALSE))
    /\ UNCHANGED <<client, script>>

(* Mutated form: the typed id of the composition is loaded.                *)
LoadExample_Typed(values) ==
    /\ Show(FreshPage(client, [values EXCEPT !["resource_id"] = "ahu:1"], TRUE))
    /\ UNCHANGED <<client, script>>

LoadExample(values) ==
    /\ Show(FreshPage(client, values, TRUE))
    /\ UNCHANGED <<client, script>>

Edit(field, v) ==
    /\ page.view # "server_error"
    /\ field \in dom.enabled
    /\ dom' = [dom EXCEPT !.values[field] = v]
    /\ UNCHANGED <<client, page, script>>

Choose(type) ==
    /\ page.view # "server_error"
    /\ dom' = IF script THEN Scripted([dom EXCEPT !.type = type]) ELSE [dom EXCEPT !.type = type]
    /\ UNCHANGED <<client, page, script>>

(* The handler answers without a call.                                     *)
SubmitLocally(mode) ==
    LET f == FormOf(dom, mode) IN
    /\ page.view # "server_error"
    /\ mode = "gateway" => page.button
    /\ ~CallsGateway(f, client)
    /\ Show(AnswerPage(f, client, LocalPage(f, client), NoRequest, NoRaw))
    /\ UNCHANGED <<client, script>>

(* The handler calls the gateway, which answers or not.                    *)
Evaluate ==
    LET f == FormOf(dom, "gateway") IN
    /\ page.view # "server_error"
    /\ page.button
    /\ CallsGateway(f, client)
    /\ \/ \E failure \in TransportFailures :
             Show(AnswerPage(f, client, FailurePage(f, failure), WireBody(f), NoRaw))
       \/ \E reply \in Replies :
             Show(AnswerPage(f, client, ReplyPage(f, reply), WireBody(f), reply.raw))
    /\ UNCHANGED <<client, script>>

(* The console is restarted with another configuration.                    *)
Restart ==
    /\ client' \in Clients \ {client}
    /\ UNCHANGED <<page, dom, script>>

Submit(mode) ==
    \/ SubmitLocally(mode)
    \/ mode = "gateway" /\ Evaluate

Next ==
    \/ Open \/ Restart
    \/ \E values \in Scenarios : LoadExample(values)
    \/ \E field \in ValueFields : \E v \in Inputs[field] : Edit(field, v)
    \/ \E type \in {"legacy", "operation_aware"} : Choose(type)
    \/ \E mode \in {"preview", "gateway"} : Submit(mode)

Spec == Init /\ [][Next]_vars

----------------------------------------------------------------------------

Views == {"none", "server_error", "invalid_input", "preview", "not_configured", "token_missing",
          "presentation", "evaluation"}

(* Every page of the session has one of the views (never the one for an    *)
(* unknown evaluation type), the form of a page offers and submits only    *)
(* known fields, and its radio button names a contract.                    *)
TypeOK ==
    /\ client \in Clients
    /\ page.view \in Views
    /\ page.type \in {"legacy", "operation_aware"}
    /\ page.errors \subseteq ValueFields
    /\ page.button \in BOOLEAN
    /\ dom.type \in {"legacy", "operation_aware"}
    /\ DOMAIN page.values = ValueFields /\ DOMAIN dom.values = ValueFields
    /\ dom.visible \subseteq ValueFields /\ dom.enabled \subseteq ValueFields

(* From a preview that the operator leaves as it is, pressing either       *)
(* button never meets a validation error and shows the same request again; *)
(* Evaluate sends exactly the request that was previewed, or, after a      *)
(* restart without gateway access, nothing (simulator.py: "the preview and *)
(* the submitted request can never diverge").                              *)
PreviewIsKept ==
    [][\A mode \in {"preview", "gateway"} :
         Submit(mode) /\ Untouched /\ page.view = "preview" =>
            /\ page'.errors = {}
            /\ page'.view # "server_error" => page'.request = page.request
            /\ page'.sent = IF mode = "gateway" /\ EvaluationEnabled(client)
                            THEN page.request ELSE NoRequest]_vars

(* A rejection never traps the operator: a field an error is about is one  *)
(* the page lets the operator edit, or pressing the button again no longer *)
(* submits it (the legacy-only fields of an operation-aware form, which    *)
(* the page that rejects them hides).                                      *)
ErrorsCanBeFixed ==
    \A field \in page.errors :
        \/ field \in Rendered(page).visible
        \/ field \notin ErrorsOf(FormOf(Rendered(page), "preview"))

(* With the page script running, no operator meets the rejection of the    *)
(* legacy-only fields, however they switch between the contracts and       *)
(* whatever they typed before (simulate.html: "the browser won't submit    *)
(* their values while operation-aware is selected").                       *)
ScriptKeepsLegacyFieldsBack ==
    [][\A mode \in {"preview", "gateway"} :
         Submit(mode) /\ script /\ dom.type = "operation_aware"
            => page'.errors \cap LegacyFields = {}]_vars

(* A sample scenario, loaded and submitted as it is, is accepted and       *)
(* previews the request it describes.                                      *)
ExamplesAreAccepted ==
    [][SubmitLocally("preview") /\ Untouched /\ page.example =>
         /\ page'.view = "preview"
         /\ page'.request.action = page.values["action_verb"]
         /\ page'.request.resource_id = page.values["resource_id"]]_vars

(* The raw body on the operation-aware panel is the reply's, except that   *)
(* no sensitive key, at any depth, in lists or objects, has its value, and *)
(* that nothing else is changed or lost.                                  *)
RawIsTheReplyRedacted ==
    page.view = "presentation" /\ page.raw # NoRaw =>
        HidesOnlySensitive(Leaves[page.body], Leaves[page.raw])

=============================================================================
