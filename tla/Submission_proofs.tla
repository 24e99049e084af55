------------------------- MODULE Submission_proofs -------------------------
(***************************************************************************)
(* Theorems about Submission, for every set of submissions, probes, forms, *)
(* clients, foreign replies, and every vocabulary.                         *)
(*                                                                         *)
(* The inductive invariant is IInv: the types, who holds the event loop,   *)
(* the one call of each submission, and where pages come from.  The pages  *)
(* themselves enter only through the three lemmas on what a page shows.    *)
(***************************************************************************)
EXTENDS Submission, TLAPS

IInv == TypeOK /\ LoopDiscipline /\ OneCallPerSubmission /\ Provenance

----------------------------------------------------------------------------
(* What a page shows.                                                      *)

(* An item that applies and has a value is present with that value.        *)
LEMMA ItemShown ==
    ASSUME NEW value, NEW source, value # Null
    PROVE  /\ Item(value, source, TRUE).present = TRUE
           /\ Item(value, source, TRUE).value = value
  BY DEF Item

(* An item that does not apply is absent.                                  *)
LEMMA ItemNotApplicable ==
    ASSUME NEW value, NEW source
    PROVE  Item(value, source, FALSE).present = FALSE
  BY DEF Item

(* A result without a governed response presents neither an outcome nor a  *)
(* failure.                                                                *)
LEMMA UngovernedShowsNothing ==
    ASSUME NEW request, NEW result, result.response = NoResponse
    PROVE  /\ BuildPresentation(request, result).evaluation_result.outcome.present = FALSE
           /\ BuildPresentation(request, result).evaluation_result.failure_reason.present = FALSE
  BY DEF BuildPresentation, EvaluationResult, Evidence, Item

(* A page rendered without a call shows no decision.                       *)
LEMMA LocalPageShowsNothing ==
    ASSUME NEW f, NEW c
    PROVE  DecisionShown(LocalPage(f, c)) = Undecided
<1> DEFINE p == LocalPage(f, c)
<1>1. p.view \in {"invalid_type", "invalid_input", "preview", "not_configured",
                  "token_missing", "presentation", "server_error"}
  BY DEF LocalPage, LocalView, Gate
<1>2. CASE p.view = "presentation"
  <2>1. p.result = OperationAwareResult(Gate(c))
    BY <1>2 DEF LocalPage
  <2>2. p.result.response = NoResponse
    BY <2>1 DEF OperationAwareResult
  <2> QED
    BY <1>2, <2>2, UngovernedShowsNothing DEF DecisionShown, Presentation
<1>3. CASE p.view # "presentation"
  BY <1>1, <1>3 DEF DecisionShown
<1> QED
  BY <1>2, <1>3

(* A page that reports a failed exchange shows no decision.                *)
LEMMA FailurePageShowsNothing ==
    ASSUME NEW f, NEW failure \in TransportFailures
    PROVE  DecisionShown(FailurePage(f, failure)) = Undecided
<1> DEFINE p == FailurePage(f, failure)
<1>1. CASE Endpoint(f) = "legacy"
  <2>1. p.view = "evaluation" /\ p.result.outcome = Null
    BY <1>1 DEF FailurePage, ResultPage, LegacyFailure, LegacyResult
  <2> QED
    BY <2>1 DEF DecisionShown
<1>2. CASE Endpoint(f) # "legacy" /\ BuildRaises(OperationAwareFailure(failure))
  BY <1>2 DEF FailurePage, ResultPage, ServerError, NoPage, DecisionShown
<1>3. CASE Endpoint(f) # "legacy" /\ ~BuildRaises(OperationAwareFailure(failure))
  <2>1. p.result = OperationAwareFailure(failure) /\ p.view = "presentation"
    BY <1>3 DEF FailurePage, ResultPage
  <2>2. p.result.response = NoResponse
    BY <2>1 DEF OperationAwareFailure, OperationAwareResult
  <2> QED
    BY <2>1, <2>2, UngovernedShowsNothing DEF DecisionShown, Presentation
<1> QED
  BY <1>1, <1>2, <1>3

(* What the body of the gateway's reply holds in the fields of a decision. *)
LEMMA GatewayReplyFields ==
    ASSUME NEW s, NEW f, NEW d \in Decisions, IsText(s),
           NEW body, body = GatewayReply(s, f, d).body
    PROVE  /\ IsText(body["request_id"])
           /\ body["correlation_id"] = s
           /\ body["outcome"] = IF d \in Outcomes THEN d ELSE Null
           /\ Endpoint(f) # "legacy" =>
                /\ body["evaluation_status"] = IF d \in Outcomes THEN "completed" ELSE "failed"
                /\ body["failure_reason"] = IF d \in Outcomes THEN Null ELSE d
                /\ body["disposition"] = IF d = "allow" THEN "allow" ELSE "deny"
                /\ \A x \in OptionalTexts \cup {"evaluation_trace"} : body[x] = Absent
  BY DEF GatewayReply, EmptyBody, Fields, GovernedFields, OptionalTexts

(* The gateway's own operation-aware reply satisfies the contract.         *)
LEMMA GatewayReplyIsValid ==
    ASSUME NEW s, NEW f, NEW d \in Decisions, IsText(s), Endpoint(f) # "legacy"
    PROVE  ContractValid(GatewayReply(s, f, d).body, s)
<1> DEFINE body == GatewayReply(s, f, d).body
<1>1. /\ IsText(body["request_id"])
      /\ body["correlation_id"] = s
      /\ body["outcome"] = IF d \in Outcomes THEN d ELSE Null
      /\ body["evaluation_status"] = IF d \in Outcomes THEN "completed" ELSE "failed"
      /\ body["failure_reason"] = IF d \in Outcomes THEN Null ELSE d
      /\ body["disposition"] = IF d = "allow" THEN "allow" ELSE "deny"
      /\ \A x \in OptionalTexts \cup {"evaluation_trace"} : body[x] = Absent
  BY GatewayReplyFields
<1> HIDE DEF body
<1>2. d \in Outcomes \/ d \in FailureReasons
  BY DEF Decisions
<1>3. WellTyped(body)
  BY <1>1, <1>2 DEF WellTyped, Missing, Absent, Null, NotText, Dispositions, EvaluationStates,
                    OptionalTexts
<1>4. Coherent(body)
  BY <1>1, <1>2 DEF Coherent, Missing, Absent, Null, Outcomes, FailureReasons
<1>5. ~CorrelationRejected(body["correlation_id"], s)
  BY <1>1 DEF CorrelationRejected, IsText
<1> QED
  BY <1>3, <1>4, <1>5 DEF ContractValid, body

(* A page made from the gateway's own reply shows the kernel's decision.   *)
LEMMA ReplyPageShowsDecision ==
    ASSUME NEW s, NEW f, NEW d \in Decisions, IsText(s),
           Endpoint(f) = "legacy" => d \in Outcomes
    PROVE  DecisionShown(ReplyPage(f, GatewayReply(s, f, d))) = d
<1> DEFINE reply == GatewayReply(s, f, d)
           body == reply.body
           p == ReplyPage(f, reply)
<1>0. reply.kind = "object" /\ reply.header = s
  BY DEF GatewayReply
<1>1. BodyOf(reply) = body /\ ~ReadingRaises(f, reply)
  BY <1>0 DEF BodyOf, ObjectKinds, DeepKinds, ReadingRaises, RedactionRaises
<1>2. CASE Endpoint(f) = "legacy"
  <2>1. body["outcome"] = d /\ d \in {"allow", "deny", "not_applicable"}
    BY <1>2, GatewayReplyFields DEF Outcomes
  <2>2. p.view = "evaluation" /\ p.result = InterpretEvaluation(reply)
    BY <1>1, <1>2 DEF ReplyPage, ResultPage
  <2>3. InterpretEvaluation(reply).outcome = StrOf(body, "outcome")
    BY <1>1 DEF InterpretEvaluation, LegacyResult
  <2>4. p.result.outcome = d /\ d \notin {Null, ""}
    BY <2>1, <2>2, <2>3 DEF StrOf, IsText, Absent, Null, NotText
  <2> QED
    BY <2>2, <2>4 DEF DecisionShown
<1>3. CASE Endpoint(f) # "legacy"
  <2> DEFINE response == ParsedResponse(body, s)
             result == InterpretOperationAware(reply)
  <2>1. /\ body["outcome"] = IF d \in Outcomes THEN d ELSE Null
        /\ body["evaluation_status"] = IF d \in Outcomes THEN "completed" ELSE "failed"
        /\ body["failure_reason"] = IF d \in Outcomes THEN Null ELSE d
    BY <1>3, GatewayReplyFields
  <2>2. ContractValid(body, s)
    BY <1>3, GatewayReplyIsValid
  <2>3. LooksGoverned(reply)
    BY <1>1, <2>1 DEF LooksGoverned, Absent
  <2>4. /\ response["outcome"] = IF d \in Outcomes THEN d ELSE Null
        /\ response["evaluation_status"] = IF d \in Outcomes THEN "completed" ELSE "failed"
        /\ response["failure_reason"] = IF d \in Outcomes THEN Null ELSE d
    BY <2>1 DEF ParsedResponse, GovernedFields, OrNull, Missing, Absent, Null, Decisions,
                Outcomes, FailureReasons
  <2>5. response # NoResponse
    BY <2>4 DEF NoResponse, GovernedFields, Absent
  <2>6. /\ result.response = response
        /\ result.status = IF d \in Outcomes THEN "evaluation_completed" ELSE "evaluation_failed"
    <3>1. result = InterpretGoverned(reply)
      BY <2>3 DEF InterpretOperationAware
    <3> QED
      BY <3>1, <1>0, <2>2, <2>4 DEF InterpretGoverned, Received, OperationAwareResult
  <2> HIDE DEF response, result
  <2>7. p.view = "presentation" /\ p.result = result
    BY <1>1, <1>3, <2>5, <2>6 DEF ReplyPage, ResultPage, BuildRaises, GovernedStatuses, result
  <2> DEFINE shown == BuildPresentation(p.request, p.result).evaluation_result
  <2>8. shown = EvaluationResult(result)
    BY <2>7 DEF BuildPresentation
  <2> DEFINE governed == response # NoResponse
             completed == governed /\ response["evaluation_status"] = "completed"
             failed == governed /\ ~completed
  <2>9. /\ shown.outcome = Item(response["outcome"], "returned_evidence", completed)
        /\ shown.failure_reason = Item(response["failure_reason"], "returned_evidence", failed)
    BY <2>6, <2>8 DEF EvaluationResult, Evidence
  <2>10. DecisionShown(p) = IF shown.outcome.present THEN shown.outcome.value
                            ELSE IF shown.failure_reason.present
                            THEN shown.failure_reason.value ELSE Undecided
    BY <2>7 DEF DecisionShown, Presentation
  <2> HIDE DEF shown, p
  <2>11. CASE d \in Outcomes
    <3>1. d # Null /\ response["outcome"] = d
      BY <2>4, <2>11 DEF Outcomes, Null
    <3>2. completed = TRUE
      BY <2>4, <2>5, <2>11
    <3> HIDE DEF completed, failed
    <3>3. shown.outcome = Item(d, "returned_evidence", TRUE)
      BY <2>9, <3>1, <3>2
    <3>4. shown.outcome.present = TRUE /\ shown.outcome.value = d
      BY <3>1, <3>3, ItemShown
    <3> QED
      BY <2>10, <3>4 DEF p
  <2>12. CASE d \notin Outcomes
    <3>1. d # Null /\ response["failure_reason"] = d
      BY <2>4, <2>12 DEF Decisions, FailureReasons, Null
    <3>2. completed = FALSE /\ failed = TRUE
      BY <2>4, <2>5, <2>12
    <3> HIDE DEF completed, failed
    <3>3. /\ shown.outcome = Item(response["outcome"], "returned_evidence", FALSE)
          /\ shown.failure_reason = Item(d, "returned_evidence", TRUE)
      BY <2>9, <3>1, <3>2
    <3>4. shown.outcome.present = FALSE
      BY <3>3, ItemNotApplicable
    <3>5. shown.failure_reason.present = TRUE /\ shown.failure_reason.value = d
      BY <3>1, <3>3, ItemShown
    <3> QED
      BY <2>10, <3>4, <3>5 DEF p
  <2> QED
    BY <2>11, <2>12 DEF p
<1> QED
  BY <1>2, <1>3

(* What a page shows is what its endpoint may show.                        *)
LEMMA LocalPageView ==
    ASSUME NEW f, NEW c
    PROVE  LocalPage(f, c).view \in ViewsOf(f)
  BY DEF LocalPage, LocalView, ViewsOf, Gate, Endpoint, ParseEvaluationType

LEMMA ResultPageView ==
    ASSUME NEW f, Endpoint(f) # "none", NEW legacyResult, NEW operationAwareResult
    PROVE  ResultPage(f, legacyResult, operationAwareResult).view \in ViewsOf(f)
  BY DEF ResultPage, ViewsOf, ServerError, NoPage

LEMMA ReplyPageView ==
    ASSUME NEW f, Endpoint(f) # "none", NEW reply
    PROVE  ReplyPage(f, reply).view \in ViewsOf(f)
  BY ResultPageView DEF ReplyPage, ViewsOf, ServerError, NoPage

----------------------------------------------------------------------------
(* The invariant is inductive.                                             *)

LEMMA InitEstablishesIInv == Init => IInv
<1> SUFFICES ASSUME Init PROVE IInv
  OBVIOUS
<1> USE SubmissionAssumption DEF Init
<1>1. TypeOK
  BY DEF TypeOK, NoPage, ViewsOf, NothingReceived, Undecided
<1>2. LoopDiscipline
  BY DEF LoopDiscipline, Free
<1>3. OneCallPerSubmission
  BY DEF OneCallPerSubmission
<1>4. Provenance
  BY DEF Provenance, NothingReceived
<1> QED
  BY <1>1, <1>2, <1>3, <1>4 DEF IInv

(* Giving the page of a call and the loop back.                            *)
LEMMA FinishKeepsIInv ==
    ASSUME IInv, NEW s \in Submissions, NEW p,
           stage[s] = "waiting", Finish(s, p), p.view \in ViewsOf(form[s]),
           UNCHANGED <<client, form, sent, silent, requests, kernel, probe>>,
           replies' \subseteq replies,
           \A t \in Submissions \ {s} : received'[t] = received[t],
           DOMAIN received' = Submissions,
           received'[s].origin \in {"nobody", "gateway", "other"},
           received'[s].origin = "gateway" => KernelWrote(s, received'[s]),
           received'[s].origin = "other" => received'[s].reply \in ForeignReplies,
           received'[s].origin = "nobody" => received'[s] = NothingReceived,
           IF received'[s].origin = "nobody"
           THEN \E failure \in TransportFailures : p = FailurePage(form[s], failure)
           ELSE p = ReplyPage(form[s], received'[s].reply)
    PROVE  IInv'
<1> USE DEF IInv, Finish
<1>1. TypeOK'
  BY DEF TypeOK
<1>2. LoopDiscipline'
  BY SubmissionAssumption DEF LoopDiscipline, TypeOK, Free
<1>3. OneCallPerSubmission'
  BY DEF OneCallPerSubmission, TypeOK, Provenance
<1>4. Provenance'
  <2> SUFFICES ASSUME NEW t \in Submissions
               PROVE  /\ stage'[t] \in {"idle", "posted"} =>
                            /\ t \notin requests'
                            /\ kernel'[t] = Undecided
                            /\ \A m \in replies' : m.conn # t
                      /\ stage'[t] # "done" => page'[t] = NoPage /\ received'[t] = NothingReceived
                      /\ stage'[t] = "waiting" => CallsGateway(form'[t], client')
                      /\ t \in requests' => kernel'[t] = Undecided /\ sent'[t] # <<>>
                      /\ kernel'[t] # Undecided => sent'[t] # <<>>
                      /\ \A m \in replies' : m.conn = t /\ m.origin = "gateway" => KernelWrote(t, m)'
                      /\ received'[t].origin = "gateway" => KernelWrote(t, received[t])'
                      /\ received'[t].origin = "other" => received'[t].reply \in ForeignReplies
                      /\ received'[t].origin = "nobody" => received'[t] = NothingReceived
                      /\ stage'[t] = "done" =>
                            IF ~CallsGateway(form'[t], client')
                            THEN /\ received'[t] = NothingReceived
                                 /\ page'[t] = LocalPage(form'[t], client')
                            ELSE IF received'[t].origin = "nobody"
                            THEN \E failure \in TransportFailures :
                                    page'[t] = FailurePage(form'[t], failure)
                            ELSE page'[t] = ReplyPage(form'[t], received'[t].reply)
    BY DEF Provenance
  <2>1. CASE t = s
    BY <2>1 DEF Provenance, TypeOK, KernelWrote
  <2>2. CASE t # s
    BY <2>2 DEF Provenance, TypeOK, KernelWrote
  <2> QED
    BY <2>1, <2>2
<1> QED
  BY <1>1, <1>2, <1>3, <1>4

(* Every step keeps the invariant.                                         *)
LEMMA NextKeepsIInv == IInv /\ [Next]_vars => IInv'
<1> SUFFICES ASSUME IInv, [Next]_vars PROVE IInv'
  OBVIOUS
<1> USE DEF IInv
<1>1. ASSUME NEW s \in Submissions, Post(s) PROVE IInv'
  <2>1. TypeOK'
    BY <1>1, SubmissionAssumption DEF Post, gatewayVars, TypeOK
  <2>2. LoopDiscipline'
    BY <1>1, SubmissionAssumption DEF Post, gatewayVars, TypeOK, LoopDiscipline, Free
  <2>3. OneCallPerSubmission'
    BY <1>1 DEF Post, gatewayVars, TypeOK, OneCallPerSubmission, Provenance
  <2>4. Provenance'
    BY <1>1 DEF Post, gatewayVars, TypeOK, Provenance, KernelWrote
  <2> QED
    BY <2>1, <2>2, <2>3, <2>4
<1>2. ASSUME NEW s \in Submissions, AnswerLocally(s) PROVE IInv'
  <2>1. TypeOK'
    BY <1>2, LocalPageView DEF AnswerLocally, gatewayVars, TypeOK
  <2>2. LoopDiscipline'
    BY <1>2, SubmissionAssumption DEF AnswerLocally, gatewayVars, TypeOK, LoopDiscipline, Free
  <2>3. OneCallPerSubmission'
    BY <1>2 DEF AnswerLocally, gatewayVars, TypeOK, OneCallPerSubmission, Provenance
  <2>4. Provenance'
    BY <1>2 DEF AnswerLocally, gatewayVars, TypeOK, Provenance, KernelWrote, NothingReceived
  <2> QED
    BY <2>1, <2>2, <2>3, <2>4
<1>3. ASSUME NEW s \in Submissions, CallGateway(s) PROVE IInv'
  <2>1. TypeOK'
    BY <1>3, SubmissionAssumption DEF CallGateway, TypeOK
  <2>2. LoopDiscipline'
    BY <1>3, SubmissionAssumption DEF CallGateway, TypeOK, LoopDiscipline, Free
  <2>3. OneCallPerSubmission'
    <3>1. sent[s] = <<>>
      BY <1>3 DEF CallGateway, OneCallPerSubmission
    <3>2. sent' = [sent EXCEPT ![s] = <<WireBody(form[s])>>]
      BY <1>3, <3>1 DEF CallGateway
    <3> QED
      BY <1>3, <3>2 DEF CallGateway, TypeOK, OneCallPerSubmission
  <2>4. Provenance'
    <3>1. sent'[s] # <<>> /\ \A t \in Submissions \ {s} : sent'[t] = sent[t]
      BY <1>3, <2>3 DEF CallGateway, TypeOK, OneCallPerSubmission
    <3> QED
      BY <1>3, <3>1 DEF CallGateway, TypeOK, Provenance, KernelWrote
  <2> QED
    BY <2>1, <2>2, <2>3, <2>4
<1>4. ASSUME NEW s \in Submissions, ReadReply(s) PROVE IInv'
  <2>1. PICK m \in replies : /\ m.conn = s
                             /\ replies' = replies \ {m}
                             /\ received' = [received EXCEPT ![s] = m]
                             /\ Finish(s, ReplyPage(form[s], m.reply))
    BY <1>4 DEF ReadReply
  <2>2. /\ stage[s] = "waiting"
        /\ UNCHANGED <<client, form, sent, silent, requests, kernel, probe>>
    BY <1>4 DEF ReadReply
  <2>3. DOMAIN received' = Submissions /\ received'[s] = m
        /\ \A t \in Submissions \ {s} : received'[t] = received[t]
    BY <2>1 DEF TypeOK
  <2>4. ReplyPage(form[s], m.reply).view \in ViewsOf(form[s])
    BY <2>2, ReplyPageView DEF Provenance, CallsGateway
  <2>5. /\ m.origin \in {"gateway", "other"}
        /\ m.origin = "gateway" => KernelWrote(s, m)
        /\ m.origin = "other" => m.reply \in ForeignReplies
    BY <2>1 DEF TypeOK, Provenance
  <2> QED
    BY <2>1, <2>2, <2>3, <2>4, <2>5, FinishKeepsIInv
<1>5. ASSUME NEW s \in Submissions, NEW failure \in TransportFailures, CallFails(s, failure)
      PROVE  IInv'
  <2>1. /\ stage[s] = "waiting"
        /\ Finish(s, FailurePage(form[s], failure))
        /\ UNCHANGED <<client, form, sent, silent, received, requests, replies, kernel, probe>>
    BY <1>5 DEF CallFails, gatewayVars
  <2>2. FailurePage(form[s], failure).view \in ViewsOf(form[s])
    BY <2>1, ResultPageView DEF FailurePage, Provenance, CallsGateway
  <2>3. received[s] = NothingReceived /\ received[s].origin = "nobody"
    BY <2>1 DEF Provenance, NothingReceived
  <2> QED
    BY <2>1, <2>2, <2>3, FinishKeepsIInv DEF TypeOK
<1>6. ASSUME NEW s \in Submissions, Silence(s) PROVE IInv'
  <2>1. TypeOK'
    BY <1>6, SubmissionAssumption DEF Silence, gatewayVars, TypeOK
  <2>2. LoopDiscipline'
    BY <1>6, SubmissionAssumption DEF Silence, gatewayVars, TypeOK, LoopDiscipline, Free
  <2>3. OneCallPerSubmission'
    BY <1>6 DEF Silence, gatewayVars, TypeOK, OneCallPerSubmission, Provenance
  <2>4. Provenance'
    BY <1>6 DEF Silence, gatewayVars, TypeOK, Provenance, KernelWrote
  <2> QED
    BY <2>1, <2>2, <2>3, <2>4
<1>7. ASSUME NEW s \in Submissions, Dribble(s) PROVE IInv'
  <2>1. TypeOK'
    BY <1>7, SubmissionAssumption DEF Dribble, gatewayVars, TypeOK
  <2>2. LoopDiscipline'
    BY <1>7, SubmissionAssumption DEF Dribble, gatewayVars, TypeOK, LoopDiscipline, Free
  <2>3. OneCallPerSubmission'
    BY <1>7 DEF Dribble, gatewayVars, TypeOK, OneCallPerSubmission, Provenance
  <2>4. Provenance'
    BY <1>7 DEF Dribble, gatewayVars, TypeOK, Provenance, KernelWrote
  <2> QED
    BY <2>1, <2>2, <2>3, <2>4
<1>8. ASSUME NEW s \in Submissions, KernelDecides(s) PROVE IInv'
  <2>1. TypeOK'
    BY <1>8, SubmissionAssumption DEF KernelDecides, consoleVars, TypeOK, Decisions
  <2>2. LoopDiscipline'
    BY <1>8, SubmissionAssumption DEF KernelDecides, consoleVars, TypeOK, LoopDiscipline, Free
  <2>3. OneCallPerSubmission'
    BY <1>8 DEF KernelDecides, consoleVars, TypeOK, OneCallPerSubmission, Provenance
  <2>4. Provenance'
    <3>1. PICK d \in KernelDecisions :
            /\ Endpoint(form[s]) = "legacy" => d \in Outcomes
            /\ kernel' = [kernel EXCEPT ![s] = d]
            /\ replies' = replies \cup
                  {[conn |-> s, origin |-> "gateway", reply |-> GatewayReply(s, form[s], d)]}
      BY <1>8 DEF KernelDecides
    <3>2. /\ s \in requests /\ requests' = requests \ {s}
          /\ UNCHANGED <<client, form, stage, page, sent, received>>
      BY <1>8 DEF KernelDecides, consoleVars
    <3>3. kernel[s] = Undecided /\ d \in Decisions /\ d # Undecided
      BY <3>2, SubmissionAssumption DEF Provenance, Decisions, Outcomes, FailureReasons, Undecided
    <3>4. \A t \in Submissions : \A m \in replies' :
            m.conn = t /\ m.origin = "gateway" => KernelWrote(t, m)'
      BY <3>1, <3>2, <3>3 DEF Provenance, KernelWrote, TypeOK, Decisions, Undecided, Outcomes, FailureReasons
    <3>5. \A t \in Submissions :
            received'[t].origin = "gateway" => KernelWrote(t, received[t])'
      BY <3>1, <3>2, <3>3 DEF Provenance, KernelWrote, TypeOK, Decisions, Undecided, Outcomes, FailureReasons
    <3> QED
      BY <3>1, <3>2, <3>3, <3>4, <3>5 DEF Provenance, TypeOK
  <2> QED
    BY <2>1, <2>2, <2>3, <2>4
<1>9. ASSUME NEW s \in Submissions, AnsweredElsewhere(s) PROVE IInv'
  <2>1. TypeOK'
    BY <1>9, SubmissionAssumption DEF AnsweredElsewhere, consoleVars, TypeOK
  <2>2. LoopDiscipline'
    BY <1>9, SubmissionAssumption DEF AnsweredElsewhere, consoleVars, TypeOK, LoopDiscipline, Free
  <2>3. OneCallPerSubmission'
    BY <1>9 DEF AnsweredElsewhere, consoleVars, TypeOK, OneCallPerSubmission, Provenance
  <2>4. Provenance'
    BY <1>9 DEF AnsweredElsewhere, consoleVars, TypeOK, Provenance, KernelWrote
  <2> QED
    BY <2>1, <2>2, <2>3, <2>4
<1>10. ASSUME NEW s \in Submissions, RequestLost(s) PROVE IInv'
  <2>1. TypeOK'
    BY <1>10, SubmissionAssumption DEF RequestLost, consoleVars, TypeOK
  <2>2. LoopDiscipline'
    BY <1>10, SubmissionAssumption DEF RequestLost, consoleVars, TypeOK, LoopDiscipline, Free
  <2>3. OneCallPerSubmission'
    BY <1>10 DEF RequestLost, consoleVars, TypeOK, OneCallPerSubmission, Provenance
  <2>4. Provenance'
    BY <1>10 DEF RequestLost, consoleVars, TypeOK, Provenance, KernelWrote
  <2> QED
    BY <2>1, <2>2, <2>3, <2>4
<1>11. ASSUME NEW m \in replies, ReplyReplaced(m) PROVE IInv'
  <2>1. TypeOK'
    BY <1>11, SubmissionAssumption DEF ReplyReplaced, consoleVars, TypeOK
  <2>2. LoopDiscipline'
    BY <1>11, SubmissionAssumption DEF ReplyReplaced, consoleVars, TypeOK, LoopDiscipline, Free
  <2>3. OneCallPerSubmission'
    BY <1>11 DEF ReplyReplaced, consoleVars, TypeOK, OneCallPerSubmission, Provenance
  <2>4. Provenance'
    BY <1>11 DEF ReplyReplaced, consoleVars, TypeOK, Provenance, KernelWrote
  <2> QED
    BY <2>1, <2>2, <2>3, <2>4
<1>12. ASSUME NEW m \in replies, ReplyLost(m) PROVE IInv'
  <2>1. TypeOK'
    BY <1>12, SubmissionAssumption DEF ReplyLost, consoleVars, TypeOK
  <2>2. LoopDiscipline'
    BY <1>12, SubmissionAssumption DEF ReplyLost, consoleVars, TypeOK, LoopDiscipline, Free
  <2>3. OneCallPerSubmission'
    BY <1>12 DEF ReplyLost, consoleVars, TypeOK, OneCallPerSubmission, Provenance
  <2>4. Provenance'
    BY <1>12 DEF ReplyLost, consoleVars, TypeOK, Provenance, KernelWrote
  <2> QED
    BY <2>1, <2>2, <2>3, <2>4
<1>13. ASSUME NEW p \in Probes, 
             ProbeArrives(p) \/ ProbeDispatched(p) \/ ProbeRuns(p) \/ ProbeAnswered(p)
      PROVE IInv'
  <2>1. TypeOK'
    BY <1>13, SubmissionAssumption DEF ProbeArrives, ProbeDispatched, ProbeRuns, ProbeAnswered,
                         ProbeStep, consoleVars, gatewayVars, TypeOK
  <2>2. LoopDiscipline'
    BY <1>13, SubmissionAssumption DEF ProbeArrives, ProbeDispatched, ProbeRuns, ProbeAnswered,
                         ProbeStep, consoleVars, gatewayVars, TypeOK, LoopDiscipline, Free
  <2>3. OneCallPerSubmission'
    BY <1>13 DEF ProbeArrives, ProbeDispatched, ProbeRuns, ProbeAnswered,
                         ProbeStep, consoleVars, gatewayVars, TypeOK, OneCallPerSubmission, Provenance
  <2>4. Provenance'
    BY <1>13 DEF ProbeArrives, ProbeDispatched, ProbeRuns, ProbeAnswered,
                         ProbeStep, consoleVars, gatewayVars, TypeOK, Provenance, KernelWrote
  <2> QED
    BY <2>1, <2>2, <2>3, <2>4
<1>14. ASSUME Rest \/ UNCHANGED vars PROVE IInv'
  <2>1. TypeOK'
    BY <1>14, SubmissionAssumption DEF Rest, vars, TypeOK
  <2>2. LoopDiscipline'
    BY <1>14, SubmissionAssumption DEF Rest, vars, TypeOK, LoopDiscipline, Free
  <2>3. OneCallPerSubmission'
    BY <1>14 DEF Rest, vars, TypeOK, OneCallPerSubmission, Provenance
  <2>4. Provenance'
    BY <1>14 DEF Rest, vars, TypeOK, Provenance, KernelWrote
  <2> QED
    BY <2>1, <2>2, <2>3, <2>4
<1> QED
  BY <1>1, <1>2, <1>3, <1>4, <1>5, <1>6, <1>7, <1>8, <1>9, <1>10, <1>11, <1>12, <1>13, <1>14
     DEF Next

----------------------------------------------------------------------------
(* Theorems.                                                               *)

(* The inductive invariant holds of every behaviour.                       *)
THEOREM InvariantHolds == Spec => []IInv
  BY InitEstablishesIInv, NextKeepsIInv, PTL DEF Spec

(* The variables keep their types, and a page shows only views of its own  *)
(* endpoint, in every execution of POST /simulate.                         *)
THEOREM TypeCorrect == Spec => []TypeOK
<1>1. IInv => TypeOK
  BY DEF IInv
<1> QED
  BY <1>1, InvariantHolds, PTL

(* At most one gateway call is in flight, it holds the event loop, and the *)
(* loop is never left behind by a call that ended.                         *)
THEOREM LoopIsHeldByTheCall == Spec => []LoopDiscipline
<1>1. IInv => LoopDiscipline
  BY DEF IInv
<1> QED
  BY <1>1, InvariantHolds, PTL

(* No failure, timeout or late reply makes the console send a second       *)
(* request for a submission, and what it sends is built from the form.     *)
THEOREM CalledOnce == Spec => []OneCallPerSubmission
<1>1. IInv => OneCallPerSubmission
  BY DEF IInv
<1> QED
  BY <1>1, InvariantHolds, PTL

(* Every page is a local page, a report of a failed exchange or the        *)
(* reading of the reply to its own submission.                             *)
THEOREM PagesAreAccountedFor == Spec => []Provenance
<1>1. IInv => Provenance
  BY DEF IInv
<1> QED
  BY <1>1, InvariantHolds, PTL

(* The kernel's decision, and only it, reaches the page made from the      *)
(* gateway's reply; without a reply the page shows no decision.            *)
THEOREM KernelsDecisionIsShown == Spec => []FaithfulRelay
<1>1. IInv => FaithfulRelay
  <2> SUFFICES ASSUME IInv, NEW s \in Submissions
               PROVE  /\ received[s].origin = "gateway" =>
                            /\ kernel[s] # Undecided
                            /\ DecisionShown(page[s]) = kernel[s]
                      /\ received[s].origin = "nobody" => DecisionShown(page[s]) = Undecided
    BY DEF FaithfulRelay
  <2> USE DEF IInv
  <2>1. ASSUME received[s].origin = "gateway"
        PROVE  kernel[s] # Undecided /\ DecisionShown(page[s]) = kernel[s]
    <3>1. stage[s] = "done" /\ KernelWrote(s, received[s])
      BY <2>1 DEF Provenance, NothingReceived
    <3>2. page[s] = ReplyPage(form[s], GatewayReply(s, form[s], kernel[s]))
      BY <2>1, <3>1 DEF Provenance, KernelWrote, NothingReceived
    <3>3. kernel[s] \in Decisions /\ (Endpoint(form[s]) = "legacy" => kernel[s] \in Outcomes)
      BY <3>1 DEF KernelWrote
    <3>4. kernel[s] # Undecided
      BY <3>3 DEF Decisions, Outcomes, FailureReasons, Undecided
    <3> QED
      BY <3>2, <3>3, <3>4, ReplyPageShowsDecision, SubmissionAssumption
  <2>2. ASSUME received[s].origin = "nobody"
        PROVE  DecisionShown(page[s]) = Undecided
    <3>1. CASE stage[s] # "done"
      <4>1. page[s] = NoPage
        BY <3>1 DEF Provenance
      <4>2. page[s].view = "none"
        BY <4>1 DEF NoPage
      <4> QED
        BY <4>2 DEF DecisionShown
    <3>2. CASE stage[s] = "done"
      BY <2>2, <3>2, LocalPageShowsNothing, FailurePageShowsNothing DEF Provenance
    <3> QED
      BY <3>1, <3>2
  <2> QED
    BY <2>1, <2>2
<1> QED
  BY <1>1, InvariantHolds, PTL

(* A submission is answered once and for all.                              *)
THEOREM AnsweredOnce == Spec => PageIsFinal
<1>1. IInv /\ [Next]_vars => [PageIsKept]_vars
  <2> SUFFICES ASSUME IInv, [Next]_vars, NEW t \in Submissions, stage[t] = "done"
               PROVE  stage'[t] = "done" /\ page'[t] = page[t] /\ received'[t] = received[t]
    BY DEF PageIsKept
  <2>1. TypeOK
    BY DEF IInv
  <2>2. CASE UNCHANGED <<stage, page, received>>
    BY <2>2
  <2>3. ASSUME NEW s \in Submissions,
               Post(s) \/ AnswerLocally(s) \/ CallGateway(s) \/ ReadReply(s)
                  \/ \E failure \in TransportFailures : CallFails(s, failure)
        PROVE  stage'[t] = "done" /\ page'[t] = page[t] /\ received'[t] = received[t]
    <3>1. s # t
      BY <2>3 DEF Post, AnswerLocally, CallGateway, ReadReply, CallFails
    <3> QED
      BY <2>1, <2>3, <3>1 DEF TypeOK, Post, AnswerLocally, CallGateway, ReadReply, CallFails, Finish
  <2>4. CASE Next
    BY <2>2, <2>3, <2>4
       DEF Next, Silence, Dribble, KernelDecides, AnsweredElsewhere, RequestLost, ReplyReplaced,
           ReplyLost, ProbeArrives, ProbeDispatched, ProbeRuns, ProbeAnswered, ProbeStep, Rest,
           consoleVars, gatewayVars, vars
  <2> QED
    BY <2>2, <2>4 DEF vars
<1> QED
  BY <1>1, InvariantHolds, PTL DEF Spec, PageIsFinal

----------------------------------------------------------------------------
(* POST /simulate implements DecisionRelay.                                *)

(* Answering a submission, seen from the abstract specification.           *)
LEMMA AnswerIsAnAnswer ==
    ASSUME IInv, NEW s \in Submissions, stage[s] # "done", NEW p,
           page' = [page EXCEPT ![s] = p], stage' = [stage EXCEPT ![s] = "done"],
           DecisionShown(p) \in {Undecided, kernel[s]},
           UNCHANGED <<sent, kernel>>
    PROVE  Relay!Answer(s)
<1> DEFINE told(t) == IF stage[t] # "done" THEN "pending"
                      ELSE IF DecisionShown(page[t]) = Undecided THEN "no_decision"
                      ELSE DecisionShown(page[t])
           a == IF DecisionShown(p) = Undecided THEN "no_decision" ELSE DecisionShown(p)
<1>1. stage'[s] = "done" /\ page'[s] = p
      /\ \A t \in Submissions \ {s} : stage'[t] = stage[t] /\ page'[t] = page[t]
  BY DEF IInv, TypeOK
<1>2. told(s)' = a
  BY <1>1
<1>3. \A t \in Submissions \ {s} : told(t)' = told(t)
  BY <1>1
<1>4. told(s) = "pending"
  OBVIOUS
<1>5. a \in {"no_decision", kernel[s]} \ {"undecided"}
  BY DEF Undecided
<1> HIDE DEF told, a
<1>6. [t \in Submissions |-> told(t)'] = [[t \in Submissions |-> told(t)] EXCEPT ![s] = a]
  BY <1>2, <1>3
<1> QED
  BY <1>4, <1>5, <1>6 DEF Relay!Answer, Relay!Pending, Relay!NoDecision, Relay!Undecided, told

(* A step that changes neither what was sent, decided nor shown.           *)
LEMMA OtherStepsStutter ==
    ASSUME IInv, UNCHANGED <<sent, kernel, page>>,
           \A t \in Submissions : stage'[t] = "done" <=> stage[t] = "done"
    PROVE  UNCHANGED Relay!vars
  BY DEF Relay!vars

LEMMA StepImplementsRelay ==
    ASSUME NoForeignDecision, IInv, [Next]_vars
    PROVE  [Relay!Next]_(Relay!vars)
<1> USE DEF IInv
<1>1. ASSUME NEW s \in Submissions, AnswerLocally(s) PROVE Relay!Answer(s)
  BY <1>1, LocalPageShowsNothing, AnswerIsAnAnswer DEF AnswerLocally, gatewayVars
<1>2. ASSUME NEW s \in Submissions, CallGateway(s) PROVE Relay!Ask(s)
  <2>1. stage[s] = "posted" /\ stage' = [stage EXCEPT ![s] = "waiting"]
        /\ sent[s] = <<>> /\ UNCHANGED <<page, kernel>>
    BY <1>2 DEF CallGateway, OneCallPerSubmission
  <2>2. sent' = [sent EXCEPT ![s] = <<WireBody(form[s])>>]
    BY <1>2, <2>1 DEF CallGateway
  <2>3. {t \in Submissions : sent'[t] # <<>>} = {t \in Submissions : sent[t] # <<>>} \cup {s}
    BY <2>2 DEF TypeOK
  <2>4. \A t \in Submissions : (stage'[t] = "done") = (stage[t] = "done")
    BY <2>1 DEF TypeOK
  <2> QED
    BY <2>1, <2>3, <2>4 DEF Relay!Ask, Relay!Pending
<1>3. ASSUME NEW s \in Submissions, ReadReply(s) PROVE Relay!Answer(s)
  <2>1. PICK m \in replies : m.conn = s /\ Finish(s, ReplyPage(form[s], m.reply))
    BY <1>3 DEF ReadReply
  <2>2. stage[s] = "waiting" /\ UNCHANGED <<sent, kernel>>
    BY <1>3 DEF ReadReply
  <2>3. CASE m.origin = "gateway"
    <3>1. KernelWrote(s, m)
      BY <2>1, <2>3 DEF Provenance
    <3>2. DecisionShown(ReplyPage(form[s], m.reply)) = kernel[s]
      BY <3>1, ReplyPageShowsDecision, SubmissionAssumption DEF KernelWrote
    <3> QED
      BY <2>1, <2>2, <3>2, AnswerIsAnAnswer DEF Finish
  <2>4. CASE m.origin = "other"
    <3>1. DecisionShown(ReplyPage(form[s], m.reply)) = Undecided
      BY <2>4 DEF NoForeignDecision, TypeOK
    <3> QED
      BY <2>1, <2>2, <3>1, AnswerIsAnAnswer DEF Finish
  <2> QED
    BY <2>3, <2>4 DEF TypeOK
<1>4. ASSUME NEW s \in Submissions, NEW failure \in TransportFailures, CallFails(s, failure)
      PROVE  Relay!Answer(s)
  BY <1>4, FailurePageShowsNothing, AnswerIsAnAnswer DEF CallFails, Finish, gatewayVars
<1>5. ASSUME NEW s \in Submissions, KernelDecides(s)
      PROVE  \E d \in Decisions : Relay!Decide(s, d)
  <2>1. PICK d \in KernelDecisions : kernel' = [kernel EXCEPT ![s] = d]
    BY <1>5 DEF KernelDecides
  <2>2. s \in requests /\ UNCHANGED <<stage, page, sent>>
    BY <1>5 DEF KernelDecides, consoleVars
  <2>3. kernel[s] = Undecided /\ sent[s] # <<>> /\ d \in Decisions
    BY <2>2, SubmissionAssumption DEF Provenance, Decisions
  <2> QED
    BY <2>1, <2>2, <2>3 DEF Relay!Decide, Relay!Undecided, Undecided
<1>6. ASSUME NEW s \in Submissions, Post(s) PROVE UNCHANGED Relay!vars
  <2>1. \A t \in Submissions : stage'[t] = "done" <=> stage[t] = "done"
    BY <1>6 DEF Post, TypeOK
  <2> QED
    BY <1>6, <2>1, OtherStepsStutter DEF Post, gatewayVars
<1>7. CASE UNCHANGED <<stage, page, sent, kernel>>
  BY <1>7, OtherStepsStutter
<1>8. CASE Next
  BY <1>1, <1>2, <1>3, <1>4, <1>5, <1>6, <1>7, <1>8
     DEF Next, Relay!Next, Silence, Dribble, AnsweredElsewhere, RequestLost, ReplyReplaced,
         ReplyLost, ProbeArrives, ProbeDispatched, ProbeRuns, ProbeAnswered, ProbeStep, Rest,
         consoleVars, gatewayVars, vars
<1> QED
  BY <1>7, <1>8 DEF vars

(* The refinement: with no decision written by anybody but the gateway's   *)
(* evaluator, POST /simulate asks once, is answered once, and the answer   *)
(* is the kernel's decision or none.                                       *)
THEOREM SubmissionImplementsRelay ==
    ASSUME NoForeignDecision
    PROVE  Spec => ImplementsDecisionRelay
<1>1. Init => Relay!Init
  BY DEF Init, Relay!Init, Relay!Undecided, Relay!Pending, Undecided
<1>2. IInv /\ [Next]_vars => [Relay!Next]_(Relay!vars)
  BY StepImplementsRelay
<1> QED
  BY <1>1, <1>2, InvariantHolds, PTL DEF Spec, ImplementsDecisionRelay, Relay!Spec

=============================================================================
