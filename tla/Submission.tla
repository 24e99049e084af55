---------------------------- MODULE Submission ----------------------------
(***************************************************************************)
(* POST /simulate of basis-console, from the operator's form to the page,  *)
(* with basis-gateway and the network in between.                          *)
(*                                                                         *)
(* simulate_submit is a coroutine on the one event loop.  It awaits only   *)
(* the request body; after that it validates, calls the synchronous        *)
(* gateway client and renders without giving the loop back, so the loop is *)
(* held by the submission for as long as the gateway call lasts.  Plain    *)
(* handlers (GET /health here) run on a worker thread, but the loop hands  *)
(* them over and sends their responses.                                    *)
(*                                                                         *)
(* External: the gateway decides and replies, and the network may lose a   *)
(* message, cut a connection, or let a reverse proxy or a gateway of       *)
(* another version answer with any of ForeignReplies.  Each call opens its *)
(* own connection, named after its submission.                             *)
(***************************************************************************)
EXTENDS SimulateHandler

CONSTANTS Submissions,      \* the POSTs the operators make
          Probes,           \* GET /health requests of an orchestrator
          Forms,            \* the forms an operator may submit
          Clients,          \* the gateway client configurations
          KernelDecisions,  \* the decisions the kernel may come to
          ForeignReplies,   \* replies the gateway's evaluator did not write
          DribblingPeers    \* may a peer send a byte just before each timeout?

ASSUME SubmissionAssumption ==
    /\ \A s \in Submissions : IsText(s) /\ s # "free"
    /\ KernelDecisions \subseteq Outcomes \cup FailureReasons
    /\ DribblingPeers \in BOOLEAN

(* The context block of a form is a sequence of lines.                     *)
ASSUME FormAssumption ==
    \A f \in Forms : f.context \in Seq(ContextLine)

(* A reply has an HTTP status, one of the kinds, a body and a header.      *)
ASSUME ForeignReplyAssumption ==
    \A r \in ForeignReplies :
        /\ DOMAIN r = {"code", "kind", "body", "header"}
        /\ r.code # NoCode /\ r.kind \in ReplyKinds

VARIABLES client,    \* app.state.gateway_client, fixed at startup
          form,      \* the submitted form of each submission
          stage,     \* idle -> posted -> (waiting ->) done
          loop,      \* the submission that holds the event loop, or Free
          page,      \* the rendered page
          sent,      \* the bodies POSTed to the gateway, in order
          silent,    \* has the read timeout run out without a byte?
          requests,  \* connections whose request has not been served
          replies,   \* replies on the wire
          received,  \* the reply the client read
          kernel,    \* the gateway's decision on each connection
          probe      \* stage of each GET /health

consoleVars == <<client, form, stage, loop, page, sent, silent, received>>
gatewayVars == <<requests, replies, kernel>>
vars == <<client, form, stage, loop, page, sent, silent, requests, replies, received, kernel, probe>>

Free == "free"
NoReply == [code |-> NoCode, kind |-> "malformed", body |-> EmptyBody, header |-> Null]
NothingReceived == [conn |-> Free, origin |-> "nobody", reply |-> NoReply]

----------------------------------------------------------------------------
(* What the gateway writes (external): the documented body and status of   *)
(* each decision, with a correlation id of its own in body and header.     *)

StatusOfDecision(d) ==
    CASE d = "allow"                                              -> 200
      [] d \in {"deny", "not_applicable"}                         -> 403
      [] d \in {"invalid_request", "unsupported_schema_version"}  -> 400
      [] d \in {"invalid_policy_bundle", "policy_validation_failure"} -> 503
      [] OTHER                                                    -> 500

GatewayReply(s, f, d) ==
    LET body == [EmptyBody EXCEPT
                   !["request_id"] = IF IsText(Built(f).request.request_id)
                                     THEN Built(f).request.request_id ELSE s,
                   !["correlation_id"] = s,
                   !["outcome"] = IF d \in Outcomes THEN d ELSE Null]
    IN  [code |-> StatusOfDecision(d), kind |-> "object", header |-> s,
         body |-> IF Endpoint(f) = "legacy" THEN body
                  ELSE [body EXCEPT
                          !["evaluation_status"] = IF d \in Outcomes THEN "completed" ELSE "failed",
                          !["failure_reason"] = IF d \in Outcomes THEN Null ELSE d,
                          !["disposition"] = IF d = "allow" THEN "allow" ELSE "deny"]]

----------------------------------------------------------------------------

Init ==
    /\ client \in Clients
    /\ form \in [Submissions -> Forms]
    /\ stage = [s \in Submissions |-> "idle"]
    /\ loop = Free
    /\ page = [s \in Submissions |-> NoPage]
    /\ sent = [s \in Submissions |-> <<>>]
    /\ silent = [s \in Submissions |-> FALSE]
    /\ requests = {}
    /\ replies = {}
    /\ received = [s \in Submissions |-> NothingReceived]
    /\ kernel = [s \in Submissions |-> Undecided]
    /\ probe = [p \in Probes |-> "idle"]

(* The body of the POST is complete; the coroutine is ready to resume.     *)
Post(s) ==
    /\ stage[s] = "idle"
    /\ stage' = [stage EXCEPT ![s] = "posted"]
    /\ UNCHANGED <<client, form, loop, page, sent, silent, received, gatewayVars, probe>>

(* The handler renders without calling the gateway.                        *)
AnswerLocally(s) ==
    /\ stage[s] = "posted"
    /\ loop = Free
    /\ ~CallsGateway(form[s], client)
    /\ page' = [page EXCEPT ![s] = LocalPage(form[s], client)]
    /\ stage' = [stage EXCEPT ![s] = "done"]
    /\ UNCHANGED <<client, form, loop, sent, silent, received, gatewayVars, probe>>

(* Mutated form: the call does not wait for the loop to be free.           *)
CallGateway_Concurrent(s) ==
    /\ stage[s] = "posted"
    /\ CallsGateway(form[s], client)
    /\ loop' = s
    /\ stage' = [stage EXCEPT ![s] = "waiting"]
    /\ sent' = [sent EXCEPT ![s] = Append(@, WireBody(form[s]))]
    /\ requests' = requests \cup {s}
    /\ UNCHANGED <<client, form, page, silent, received, replies, kernel, probe>>

(* The handler enters the synchronous client and blocks, holding the loop. *)
CallGateway(s) ==
    /\ stage[s] = "posted"
    /\ loop = Free
    /\ CallsGateway(form[s], client)
    /\ loop' = s
    /\ stage' = [stage EXCEPT ![s] = "waiting"]
    /\ sent' = [sent EXCEPT ![s] = Append(@, WireBody(form[s]))]
    /\ requests' = requests \cup {s}
    /\ UNCHANGED <<client, form, page, silent, received, replies, kernel, probe>>

(* The page is rendered and the loop is given back.                        *)
Finish(s, p) ==
    /\ page' = [page EXCEPT ![s] = p]
    /\ stage' = [stage EXCEPT ![s] = "done"]
    /\ loop' = Free

(* Mutated forms: a pooled connection hands over whatever reply comes      *)
(* first; a reply is also read after the call gave up.                     *)
ReadReply_AnyConnection(s) ==
    /\ stage[s] = "waiting"
    /\ \E m \in replies :
          /\ replies' = replies \ {m}
          /\ received' = [received EXCEPT ![s] = m]
          /\ Finish(s, ReplyPage(form[s], m.reply))
    /\ UNCHANGED <<client, form, sent, silent, requests, kernel, probe>>

ReadReply_Late(s) ==
    /\ stage[s] = "waiting" \/ (stage[s] = "done" /\ loop = Free)
    /\ \E m \in replies :
          /\ m.conn = s
          /\ replies' = replies \ {m}
          /\ received' = [received EXCEPT ![s] = m]
          /\ Finish(s, ReplyPage(form[s], m.reply))
    /\ UNCHANGED <<client, form, sent, silent, requests, kernel, probe>>

ReadReply(s) ==
    /\ stage[s] = "waiting"
    /\ \E m \in replies :
          /\ m.conn = s
          /\ replies' = replies \ {m}
          /\ received' = [received EXCEPT ![s] = m]
          /\ Finish(s, ReplyPage(form[s], m.reply))
    /\ UNCHANGED <<client, form, sent, silent, requests, kernel, probe>>

(* Mutated forms: a failed contact is tried once more; the client has no   *)
(* timeout; a failed call does not give the loop back.                     *)
CallFails_Retries(s, failure) ==
    \/ /\ stage[s] = "waiting"
       /\ failure = "contact"
       /\ Len(sent[s]) = 1
       /\ sent' = [sent EXCEPT ![s] = Append(@, WireBody(form[s]))]
       /\ requests' = requests \cup {s}
       /\ UNCHANGED <<client, form, stage, loop, page, silent, received, replies, kernel, probe>>
    \/ /\ stage[s] = "waiting"
       /\ failure = "timeout" => silent[s]
       /\ Finish(s, FailurePage(form[s], failure))
       /\ UNCHANGED <<client, form, sent, silent, received, gatewayVars, probe>>

CallFails_NoTimeout(s, failure) ==
    /\ stage[s] = "waiting"
    /\ failure # "timeout"
    /\ Finish(s, FailurePage(form[s], failure))
    /\ UNCHANGED <<client, form, sent, silent, received, gatewayVars, probe>>

CallFails_KeepsLoop(s, failure) ==
    /\ stage[s] = "waiting"
    /\ failure = "timeout" => silent[s]
    /\ page' = [page EXCEPT ![s] = FailurePage(form[s], failure)]
    /\ stage' = [stage EXCEPT ![s] = "done"]
    /\ UNCHANGED <<client, form, loop, sent, silent, received, gatewayVars, probe>>

(* The exchange fails.  The request may still be on its way.               *)
CallFails(s, failure) ==
    /\ stage[s] = "waiting"
    /\ failure = "timeout" => silent[s]
    /\ Finish(s, FailurePage(form[s], failure))
    /\ UNCHANGED <<client, form, sent, silent, received, gatewayVars, probe>>

(* The read timer: it runs out, and any byte from the peer rearms it.      *)
Silence(s) ==
    /\ stage[s] = "waiting"
    /\ ~silent[s]
    /\ silent' = [silent EXCEPT ![s] = TRUE]
    /\ UNCHANGED <<client, form, stage, loop, page, sent, received, gatewayVars, probe>>

Dribble(s) ==
    /\ DribblingPeers
    /\ stage[s] = "waiting"
    /\ silent[s]
    /\ silent' = [silent EXCEPT ![s] = FALSE]
    /\ UNCHANGED <<client, form, stage, loop, page, sent, received, gatewayVars, probe>>

----------------------------------------------------------------------------
(* The gateway and the network.                                            *)

KernelDecides(s) ==
    /\ s \in requests
    /\ requests' = requests \ {s}
    /\ \E d \in KernelDecisions :
          /\ Endpoint(form[s]) = "legacy" => d \in Outcomes
          /\ kernel' = [kernel EXCEPT ![s] = d]
          /\ replies' = replies \cup
                {[conn |-> s, origin |-> "gateway", reply |-> GatewayReply(s, form[s], d)]}
    /\ UNCHANGED <<consoleVars, probe>>

(* Somebody else answers the request, which the kernel never sees.         *)
AnsweredElsewhere(s) ==
    /\ s \in requests
    /\ requests' = requests \ {s}
    /\ \E r \in ForeignReplies :
          replies' = replies \cup {[conn |-> s, origin |-> "other", reply |-> r]}
    /\ UNCHANGED <<consoleVars, kernel, probe>>

(* The gateway's reply is replaced on its way back.                        *)
ReplyReplaced(m) ==
    /\ m.origin = "gateway"
    /\ \E r \in ForeignReplies :
          replies' = (replies \ {m}) \cup {[conn |-> m.conn, origin |-> "other", reply |-> r]}
    /\ UNCHANGED <<consoleVars, requests, kernel, probe>>

RequestLost(s) ==
    /\ s \in requests
    /\ requests' = requests \ {s}
    /\ UNCHANGED <<consoleVars, replies, kernel, probe>>

ReplyLost(m) ==
    /\ replies' = replies \ {m}
    /\ UNCHANGED <<consoleVars, requests, kernel, probe>>

----------------------------------------------------------------------------
(* GET /health: accepted and answered on the loop, run on a thread.        *)

ProbeStep(p, from, to) ==
    /\ probe[p] = from
    /\ probe' = [probe EXCEPT ![p] = to]
    /\ UNCHANGED <<consoleVars, gatewayVars>>

ProbeArrives(p) == ProbeStep(p, "idle", "queued")
ProbeDispatched(p) == loop = Free /\ ProbeStep(p, "queued", "thread")
ProbeRuns(p) == ProbeStep(p, "thread", "ready")
ProbeAnswered(p) == loop = Free /\ ProbeStep(p, "ready", "answered")

----------------------------------------------------------------------------

Handle(s) == AnswerLocally(s) \/ CallGateway(s)
CallEnds(s) == ReadReply(s) \/ CallFails(s, "timeout")

(* Every submission and probe is answered: nothing is left to do.          *)
Rest ==
    /\ \A s \in Submissions : stage[s] = "done"
    /\ \A p \in Probes : probe[p] = "answered"
    /\ UNCHANGED vars

Next ==
    \/ \E s \in Submissions :
          \/ Post(s) \/ AnswerLocally(s) \/ CallGateway(s) \/ ReadReply(s)
          \/ Silence(s) \/ Dribble(s)
          \/ \E failure \in TransportFailures : CallFails(s, failure)
          \/ KernelDecides(s) \/ AnsweredElsewhere(s) \/ RequestLost(s)
    \/ \E m \in replies : ReplyReplaced(m) \/ ReplyLost(m)
    \/ \E p \in Probes :
          ProbeArrives(p) \/ ProbeDispatched(p) \/ ProbeRuns(p) \/ ProbeAnswered(p)
    \/ Rest

Spec == Init /\ [][Next]_vars

(* Fairness.  A ready coroutine gets the loop (asyncio runs its ready      *)
(* queue in order), the timeout handed to httpx runs out and raises, a     *)
(* worker thread runs.  Nothing is asked of the gateway, the network or a  *)
(* peer, nor that the other failures ever happen.                          *)
Fairness ==
    /\ \A s \in Submissions :
          SF_vars(Handle(s)) /\ WF_vars(Silence(s)) /\ WF_vars(CallEnds(s))
    /\ \A p \in Probes :
          SF_vars(ProbeDispatched(p)) /\ WF_vars(ProbeRuns(p)) /\ SF_vars(ProbeAnswered(p))

FairSpec == Spec /\ Fairness

----------------------------------------------------------------------------
(* Type invariant.                                                         *)

ViewsOf(f) ==
    {"none", "server_error"} \cup
    (IF Endpoint(f) = "none" THEN {"invalid_type"}
     ELSE {"invalid_input", "preview"} \cup
          IF Endpoint(f) = "legacy" THEN {"not_configured", "token_missing", "evaluation"}
          ELSE {"presentation"})

(* The types of the variables; a page shows only what its endpoint shows.  *)
TypeOK ==
    /\ client \in Clients
    /\ form \in [Submissions -> Forms]
    /\ stage \in [Submissions -> {"idle", "posted", "waiting", "done"}]
    /\ loop \in Submissions \cup {Free}
    /\ DOMAIN page = Submissions
    /\ \A s \in Submissions : page[s].view \in ViewsOf(form[s])
    /\ DOMAIN sent = Submissions
    /\ silent \in [Submissions -> BOOLEAN]
    /\ requests \subseteq Submissions
    /\ \A m \in replies :
          /\ m.conn \in Submissions
          /\ m.origin \in {"gateway", "other"}
          /\ m.origin = "other" => m.reply \in ForeignReplies
    /\ DOMAIN received = Submissions
    /\ \A s \in Submissions : received[s].origin \in {"nobody", "gateway", "other"}
    /\ kernel \in [Submissions -> Decisions \cup {Undecided}]
    /\ probe \in [Probes -> {"idle", "queued", "thread", "ready", "answered"}]

----------------------------------------------------------------------------
(* The flow of one POST among others.                                      *)

(* The event loop is held by exactly the submission whose gateway call is  *)
(* in flight: two calls never overlap, and no call leaves the loop behind  *)
(* (simulate_submit calls the synchronous client without awaiting).        *)
LoopDiscipline == \A s \in Submissions : loop = s <=> stage[s] = "waiting"

(* However a call ends, and whatever the gateway still does with it, the   *)
(* gateway has been sent one request, the one built from the form, or none *)
(* when a gate or an error forbids the call: nothing retries.              *)
OneCallPerSubmission ==
    \A s \in Submissions :
        sent[s] = IF stage[s] \in {"waiting", "done"} /\ CallsGateway(form[s], client)
                  THEN <<WireBody(form[s])>> ELSE <<>>

(* A page made from the gateway's own reply shows the decision the kernel  *)
(* made for that submission (a denial sent with HTTP 403 included), a page *)
(* made without a reply shows none, even when the kernel decided and the   *)
(* reply came too late, and a page shows nothing before it is rendered.    *)
FaithfulRelay ==
    \A s \in Submissions :
        /\ received[s].origin = "gateway" =>
              /\ kernel[s] # Undecided
              /\ DecisionShown(page[s]) = kernel[s]
        /\ received[s].origin = "nobody" => DecisionShown(page[s]) = Undecided

(* Where pages come from.  Until a submission is asked nothing about it is *)
(* in flight; a page is a local page, the report of a failed exchange, or  *)
(* the reading of a reply to this very submission; and what is read as the *)
(* gateway's is what the evaluator wrote for the kernel's decision.        *)
KernelWrote(s, m) ==
    /\ kernel[s] \in Decisions
    /\ Endpoint(form[s]) = "legacy" => kernel[s] \in Outcomes
    /\ m.reply = GatewayReply(s, form[s], kernel[s])

Provenance ==
    \A s \in Submissions :
        /\ stage[s] \in {"idle", "posted"} =>
              /\ s \notin requests
              /\ kernel[s] = Undecided
              /\ \A m \in replies : m.conn # s
        /\ stage[s] # "done" => page[s] = NoPage /\ received[s] = NothingReceived
        /\ stage[s] = "waiting" => CallsGateway(form[s], client)
        /\ s \in requests => kernel[s] = Undecided /\ sent[s] # <<>>
        /\ kernel[s] # Undecided => sent[s] # <<>>
        /\ \A m \in replies : m.conn = s /\ m.origin = "gateway" => KernelWrote(s, m)
        /\ received[s].origin = "gateway" => KernelWrote(s, received[s])
        /\ received[s].origin = "other" => received[s].reply \in ForeignReplies
        /\ received[s].origin = "nobody" => received[s] = NothingReceived
        /\ stage[s] = "done" =>
              IF ~CallsGateway(form[s], client)
              THEN received[s] = NothingReceived /\ page[s] = LocalPage(form[s], client)
              ELSE IF received[s].origin = "nobody"
              THEN \E failure \in TransportFailures : page[s] = FailurePage(form[s], failure)
              ELSE page[s] = ReplyPage(form[s], received[s].reply)

(* A submission is answered once: no later event (a late reply, a late     *)
(* decision, another submission) changes the page or what it was made of.  *)
PageIsKept ==
    \A s \in Submissions : stage[s] = "done" =>
        /\ stage'[s] = "done"
        /\ page'[s] = page[s]
        /\ received'[s] = received[s]

PageIsFinal == [][PageIsKept]_vars

(* Liveness of simulate_submit, whatever the gateway and the network do.   *)
EverySubmissionIsAnswered ==
    \A s \in Submissions : stage[s] = "posted" ~> stage[s] = "done"

(* GET /health is answered although it waits for gateway calls to end      *)
(* (routes.py: "liveness probe (always 200 while the process is up)").     *)
EveryProbeIsAnswered ==
    \A p \in Probes : probe[p] = "queued" ~> probe[p] = "answered"

(* POST /simulate implements what it promises (DecisionRelay), as long as  *)
(* nobody but the gateway's evaluator writes a decision.                   *)
NoForeignDecision ==
    \A f \in Forms : \A r \in ForeignReplies : DecisionShown(ReplyPage(f, r)) = Undecided

Relay == INSTANCE DecisionRelay WITH
    asked   <- {s \in Submissions : sent[s] # <<>>},
    decided <- kernel,
    answer  <- [s \in Submissions |->
                  IF stage[s] # "done" THEN "pending"
                  ELSE IF DecisionShown(page[s]) = Undecided THEN "no_decision"
                  ELSE DecisionShown(page[s])]

ImplementsDecisionRelay == Relay!Spec

----------------------------------------------------------------------------
(* From the form to the wire.                                              *)

(* What went over the wire is the request the page shows and the preview   *)
(* of the same form showed (simulator.py: "the preview and the submitted   *)
(* request can never diverge"), although it is taken apart and assembled   *)
(* again in the view and in the client.                                    *)
WireIsWhatThePageShows ==
    \A s \in Submissions : stage[s] = "done" /\ page[s].view # "server_error" =>
        \A i \in DOMAIN sent[s] : sent[s][i] = page[s].request

(* Only the normalized shape ever leaves the console: a vocabulary verb, a *)
(* vocabulary type, a safe local id or none; no more context entries than  *)
(* the cap, one per key, and none to the operation-aware endpoint.         *)
WireShape ==
    \A s \in Submissions : \A i \in DOMAIN sent[s] :
        LET body == sent[s][i] IN
        /\ body.action \in ACTION_VERBS
        /\ body.resource_type \in RESOURCE_TYPES
        /\ body.resource_id \notin UnsafeTexts \cup LongTexts \cup TypedTexts \cup {""}
        /\ Cardinality(body.context) <= MAX_CONTEXT_ENTRIES
        /\ Cardinality(Keys(body.context)) = Cardinality(body.context)
        /\ Endpoint(form[s]) = "operation_aware" => body.context = {}
        /\ Endpoint(form[s]) = "legacy" => body.request_id = Absent

(* An accepted context block loses no line: every line that is not blank   *)
(* is an entry of the request (dropped, duplicate or surplus lines make    *)
(* the whole form invalid).                                                *)
ContextLossless ==
    \A s \in Submissions :
        page[s].view \in {"preview", "evaluation"} =>
            {<<line.key, line.value>> : line \in
                {form[s].context[i] : i \in {j \in DOMAIN form[s].context :
                                               form[s].context[j].form # "blank"}}}
            = page[s].request.context

(* What the page shows through the presentation.                           *)
ShownOf(s) == Presentation(page[s])
Presented == {s \in Submissions : page[s].view = "presentation"}

(* The page says the gateway was called exactly when it was: the flag is   *)
(* computed from the status alone, the call from the gates.                *)
CalledGatewayIsTrue ==
    \A s \in Presented : ShownOf(s).transport.called_gateway <=> sent[s] # <<>>

(* The preview lesson says "what the console would send", "has not been    *)
(* sent", "no outcome ... exists": it stands on exactly the previews of    *)
(* operation-aware requests, whose request gateway mode would send as      *)
(* shown, and which nobody has received or evaluated.                      *)
PreviewLessonIsTrue ==
    \A s \in Submissions : stage[s] = "done" =>
        LET lesson == Text("preview_education_points") \in Taught(form[s], page[s]) IN
        /\ lesson <=> page[s].view = "preview" /\ Endpoint(form[s]) = "operation_aware"
        /\ lesson => /\ page[s].request = WireBody(form[s])
                     /\ sent[s] = <<>>
                     /\ kernel[s] = Undecided

----------------------------------------------------------------------------
(* From a reply, whoever wrote it, to the page.                            *)

(* A page shows a correlation id only when body and header, where both     *)
(* have one, agree on it; on a disagreement neither is shown.              *)
CorrelationNeverGuessed ==
    \A s \in Presented :
        LET inBody == BodyOf(received[s].reply)["correlation_id"]
            inHeader == received[s].reply.header
            shown == ShownOf(s).evidence.correlation_id
        IN  shown.present =>
                /\ IsText(inBody) \/ inHeader # Null
                /\ IsText(inBody) => shown.value = inBody
                /\ inHeader # Null => shown.value = inHeader

(* A page tells one story: a decision, a governed failure, a raw reply to  *)
(* diagnose, or that there was no reply.                                   *)
OneStoryPerPage ==
    \A s \in Presented :
        LET shown == ShownOf(s)
            told == [decision |-> shown.evaluation_result.outcome.present,
                     failure  |-> shown.evaluation_result.failure_reason.present,
                     raw      |-> shown.transport.diagnostics,
                     no_reply |-> shown.transport.http_status = NoCode]
        IN  Cardinality({story \in DOMAIN told : told[story]}) = 1

(* Returned evidence is the reply's, word for word: with a governed result *)
(* every shown field is the body's field and none is dropped; without one  *)
(* no governed field is shown.  The submitted request fills nothing in.    *)
EvidenceIsReturned ==
    \A s \in Presented :
        LET shown == ShownOf(s)
            body == BodyOf(received[s].reply)
            governed == page[s].result.status \in GovernedStatuses
            verbatim(item, f) == item.value = IF governed THEN OrNull(body[f]) ELSE Null
        IN  /\ verbatim(shown.evaluation_result.kernel_evaluation_status, "evaluation_status")
            /\ \A f \in {"outcome", "disposition", "failure_reason", "reason_code", "explanation"} :
                  verbatim(shown.evaluation_result[f], f)
            /\ \A f \in {"bundle_id", "bundle_version"} : verbatim(shown.policy_bundle[f], f)
            /\ \A f \in {"request_id", "trace_id"} : verbatim(shown.evidence[f], f)
            /\ shown.evidence.correlation_id.value
                  \in {Null, body["correlation_id"], received[s].reply.header}
            /\ shown.transport.error_code.value \in {Null, body["error"]}
            /\ shown.transport.error_message.value \in {Null, body["message"]}
            /\ shown.transport.http_status = received[s].reply.code

(* The pieces of a shown decision agree: a disposition to allow comes only *)
(* with an allow, a failure is denied and has no outcome, and the note that *)
(* no policy applied comes only with not_applicable.                       *)
DecisionsCohere ==
    \A s \in Presented :
        LET shown == ShownOf(s).evaluation_result
            governed == page[s].result.status \in GovernedStatuses
        IN  /\ governed <=> shown.disposition.present
            /\ shown.disposition.value = "allow" <=> shown.outcome.value = "allow"
            /\ shown.failure_reason.present => shown.disposition.value = "deny" /\ ~shown.outcome.present
            /\ ShownOf(s).policy_bundle.applicability_note.present
                  <=> shown.outcome.value = "not_applicable"

(* The HTTP status never decides: the same body under any other status is  *)
(* read as the same governed response, or as none.                         *)
ReplyCodes == {200, 400, 401, 403, 404, 500, 503}

BodyDecidesNotTheCode ==
    \A s \in Presented : received[s].origin # "nobody" =>
        \A code \in ReplyCodes :
            InterpretOperationAware([received[s].reply EXCEPT !.code = code]).response
                = page[s].result.response

(* The operator meets a bare 500 in two cases only: a form that is not     *)
(* UTF-8 (views.py line 341), and a JSON reply nested deeper than Python   *)
(* recurses (client.py line 515).  No other reply makes the client, the    *)
(* strict parse or the presentation builder raise: a status is never       *)
(* paired with a response the builder refuses.                             *)
ServerErrorsAccountedFor ==
    \A s \in Submissions : stage[s] = "done" =>
        (page[s].view = "server_error" <=>
            \/ ~Decodable(form[s])
            \/ received[s].origin # "nobody" /\ ReadingRaises(form[s], received[s].reply))

(* In training mode the lesson is about the decision that is shown: the    *)
(* outcome's text exactly with that outcome, the reason's text (and the    *)
(* warning that a failure is no denial) exactly with that failure, and     *)
(* without a decision neither, although the partial goes by other items    *)
(* than the panel.                                                         *)
LessonMatchesDecision ==
    \A s \in Presented :
        LET decision == DecisionShown(page[s]) IN
        ResultTexts(ShownOf(s)) =
            CASE decision \in Outcomes       -> {[text |-> "outcome_copy", about |-> decision]}
              [] decision \in FailureReasons -> {Text("governed_failure_intro"),
                                                 [text |-> "failure_reason_copy", about |-> decision]}
              [] OTHER                       -> {Text("generic_failure_intro")}

(* Guidance on an absent field is given exactly when a governed reply left *)
(* that field out, never for a reply without a governed response.          *)
GuidedField ==
    [null_explanation_guidance       |-> "explanation",
     absent_reason_code_guidance     |-> "reason_code",
     absent_bundle_identity_guidance |-> "bundle_id",
     absent_trace_id_guidance        |-> "trace_id"]

AbsenceIsTheReplys ==
    \A s \in Presented :
        \A name \in DOMAIN GuidedField :
            Text(name) \in AbsenceTexts(ShownOf(s)) <=>
                /\ page[s].result.status \in GovernedStatuses
                /\ Missing(BodyOf(received[s].reply)[GuidedField[name]])

----------------------------------------------------------------------------
(* What the comments say and the code does not do.                         *)

(* gateway/models.py on SUCCESS: "the gateway returned an ALLOW decision". *)
SuccessIsAnAllow ==
    \A s \in Submissions :
        page[s].view = "evaluation" /\ page[s].result.status = "success"
            => page[s].result.outcome = "allow"

(* gateway/operation_aware_models.py on CONTRACT_INVALID: malformed JSON   *)
(* is one of its cases.                                                    *)
MalformedJsonIsContractInvalid ==
    \A s \in Presented :
        received[s].origin # "nobody" /\ received[s].reply.kind = "malformed"
            => page[s].result.status = "contract_invalid"

=============================================================================
