---------------------------- MODULE Pages_proofs ----------------------------
(***************************************************************************)
(* Theorems about the pages of POST /simulate.  Provenance says what each  *)
(* page was made of, so that what a page shows is a matter of the          *)
(* functions that made it: the gates, the reading of a reply, the          *)
(* presentation.  They hold for every reply anybody may send.              *)
(***************************************************************************)
EXTENDS Submission_proofs, Requests_proofs

----------------------------------------------------------------------------
(* The reading of a reply.                                                 *)

GovernedReading(reply, r) ==
    LET body == BodyOf(reply) IN
    /\ ContractValid(body, reply.header)
    /\ body["evaluation_status"] # Absent
    /\ r.status = IF body["evaluation_status"] = "completed"
                  THEN "evaluation_completed" ELSE "evaluation_failed"
    /\ r.response = ParsedResponse(body, reply.header)
    /\ r.correlation_id = ReconciledCorrelation(body["correlation_id"], reply.header)
    /\ r.error_code = Null /\ r.error_message = Null

UngovernedReading(reply, r) ==
    LET body == BodyOf(reply) IN
    /\ body["evaluation_status"] = Absent \/ ~ContractValid(body, reply.header)
    /\ r.status \notin GovernedStatuses
    /\ r.response = NoResponse
    /\ \/ r.correlation_id = Null
       \/ /\ r.correlation_id = ReconciledCorrelation(body["correlation_id"], reply.header)
          /\ ~CorrelationRejected(body["correlation_id"], reply.header)
    /\ r.error_code \in {Null, body["error"]}
    /\ r.error_message \in {Null, body["message"]}

(* A reply is read as governed, or as not governed, and never in between.  *)
LEMMA ReadingOfAReply ==
    ASSUME NEW reply, NEW r, r = InterpretOperationAware(reply)
    PROVE  /\ GovernedReading(reply, r) \/ UngovernedReading(reply, r)
           /\ r.http_status = reply.code
           /\ r.headers = TRUE
           /\ r.status \notin {"not_configured", "token_missing"}
<1> DEFINE body == BodyOf(reply)
<1>1. CASE LooksGoverned(reply)
  <2>1. body = reply.body /\ body["evaluation_status"] # Absent
    BY <1>1 DEF LooksGoverned, BodyOf, EmptyBody, Fields, GovernedFields
  <2>2. r = InterpretGoverned(reply)
    BY <1>1 DEF InterpretOperationAware
  <2>3. CASE ContractValid(body, reply.header)
    <3> DEFINE response == ParsedResponse(body, reply.header)
               status == IF response["evaluation_status"] = "completed"
                         THEN "evaluation_completed" ELSE "evaluation_failed"
               base == Received(status, reply)
    <3>1. r = [base EXCEPT !.response = response, !.correlation_id = response["correlation_id"]]
      BY <2>1, <2>2, <2>3 DEF InterpretGoverned
    <3>2. /\ response["evaluation_status"] = OrNull(body["evaluation_status"])
          /\ response["correlation_id"] = ReconciledCorrelation(body["correlation_id"], reply.header)
      BY DEF ParsedResponse, GovernedFields
    <3>3. /\ base.status = status /\ base.http_status = reply.code /\ base.headers = TRUE
          /\ base.error_code = Null /\ base.error_message = Null
      BY DEF Received, OperationAwareResult
    <3>4. /\ r.status = status /\ r.http_status = reply.code /\ r.headers = TRUE
          /\ r.error_code = Null /\ r.error_message = Null
          /\ r.response = response /\ r.correlation_id = response["correlation_id"]
      BY <3>1, <3>3 DEF Received, OperationAwareResult
    <3>5. status = IF body["evaluation_status"] = "completed"
                   THEN "evaluation_completed" ELSE "evaluation_failed"
      BY <3>2 DEF OrNull, Missing, Null, Absent
    <3> HIDE DEF status
    <3> QED
      BY <2>1, <2>3, <3>2, <3>4, <3>5 DEF GovernedReading
  <2>4. CASE ~ContractValid(body, reply.header)
    <3>1. r = [Received("contract_invalid", reply) EXCEPT !.detail = "contract"]
      BY <2>1, <2>2, <2>4 DEF InterpretGoverned
    <3>2. /\ r.status = "contract_invalid" /\ r.http_status = reply.code /\ r.headers = TRUE
          /\ r.response = NoResponse /\ r.correlation_id = Null
          /\ r.error_code = Null /\ r.error_message = Null
      BY <3>1 DEF Received, OperationAwareResult
    <3> QED
      BY <2>4, <3>2 DEF UngovernedReading, GovernedStatuses
  <2> QED
    BY <2>3, <2>4
<1>2. CASE ~LooksGoverned(reply)
  <2>1. r = InterpretGeneric(reply) /\ body["evaluation_status"] = Absent
    BY <1>2 DEF InterpretOperationAware, LooksGoverned
  <2> DEFINE mismatch == CorrelationRejected(body["correlation_id"], reply.header)
             correlation == ReconciledCorrelation(body["correlation_id"], reply.header)
  <2>2. CASE reply.code = 403
    <3>1. r = [Received("contract_invalid", reply) EXCEPT
                  !.detail = "ungoverned_403",
                  !.correlation_id = IF mismatch THEN Null ELSE correlation]
      BY <2>1, <2>2 DEF InterpretGeneric
    <3>2. /\ r.status = "contract_invalid" /\ r.http_status = reply.code /\ r.headers = TRUE
          /\ r.response = NoResponse /\ r.correlation_id = IF mismatch THEN Null ELSE correlation
          /\ r.error_code = Null /\ r.error_message = Null
      BY <3>1 DEF Received, OperationAwareResult
    <3> QED
      BY <2>1, <3>2 DEF UngovernedReading, GovernedStatuses
  <2>3. CASE reply.code # 403 /\ mismatch
    <3>1. r = [Received("contract_invalid", reply) EXCEPT !.detail = "contract"]
      BY <2>1, <2>3 DEF InterpretGeneric
    <3>2. /\ r.status = "contract_invalid" /\ r.http_status = reply.code /\ r.headers = TRUE
          /\ r.response = NoResponse /\ r.correlation_id = Null
          /\ r.error_code = Null /\ r.error_message = Null
      BY <3>1 DEF Received, OperationAwareResult
    <3> QED
      BY <2>1, <3>2 DEF UngovernedReading, GovernedStatuses
  <2>4. CASE reply.code # 403 /\ ~mismatch
    <3>1. r = [Received(GenericStatusOf(reply.code), reply) EXCEPT
                  !.correlation_id = correlation,
                  !.error_code = StrOf(body, "error"),
                  !.error_message = StrOf(body, "message")]
      BY <2>1, <2>4 DEF InterpretGeneric
    <3>2. /\ r.status = GenericStatusOf(reply.code) /\ r.http_status = reply.code
          /\ r.headers = TRUE /\ r.response = NoResponse /\ r.correlation_id = correlation
          /\ r.error_code = StrOf(body, "error") /\ r.error_message = StrOf(body, "message")
      BY <3>1 DEF Received, OperationAwareResult
    <3>3. GenericStatusOf(reply.code) \in {"request_rejected", "unauthorized",
              "capability_unavailable", "evaluator_unavailable", "gateway_error"}
      BY DEF GenericStatusOf
    <3>4. /\ StrOf(body, "error") \in {Null, body["error"]}
          /\ StrOf(body, "message") \in {Null, body["message"]}
      BY DEF StrOf
    <3> QED
      BY <2>1, <2>4, <3>2, <3>3, <3>4 DEF UngovernedReading, GovernedStatuses
  <2> QED
    BY <2>2, <2>3, <2>4
<1> QED
  BY <1>1, <1>2

----------------------------------------------------------------------------
(* Where a presented result comes from.                                    *)

NoReading(r) ==
    /\ r.response = NoResponse /\ r.correlation_id = Null
    /\ r.error_code = Null /\ r.error_message = Null
    /\ r.http_status = NoCode
    /\ r.response_json = FALSE /\ r.headers = FALSE
    /\ r.status \notin GovernedStatuses

LEMMA GateResult ==
    ASSUME NEW c, NEW r, r = OperationAwareResult(Gate(c))
    PROVE  NoReading(r) /\ r.status \in {"not_configured", "token_missing"}
  BY DEF OperationAwareResult, Gate, NoReading, GovernedStatuses

LEMMA FailureResult ==
    ASSUME NEW failure, NEW r, r = OperationAwareFailure(failure)
    PROVE  NoReading(r) /\ r.status \notin {"not_configured", "token_missing"}
  BY DEF OperationAwareFailure, OperationAwareResult, NoReading, GovernedStatuses

(* A result without a governed response never makes the builder raise.     *)
LEMMA BuilderAcceptsFailures ==
    ASSUME NEW failure
    PROVE  ~BuildRaises(OperationAwareFailure(failure))
<1>1. NoReading(OperationAwareFailure(failure))
  BY FailureResult
<1> QED
  BY <1>1 DEF NoReading, BuildRaises

(* Nor does any reading of a reply: status and response always agree.      *)
LEMMA BuilderAcceptsReadings ==
    ASSUME NEW reply
    PROVE  ~BuildRaises(InterpretOperationAware(reply))
<1> DEFINE r == InterpretOperationAware(reply)
<1>1. CASE GovernedReading(reply, r)
  <2>1. r.status \in GovernedStatuses
    BY <1>1 DEF GovernedReading, GovernedStatuses
  <2>2. r.response["evaluation_status"] # Absent
    BY <1>1 DEF GovernedReading, ParsedResponse, GovernedFields, OrNull, Missing, Null, Absent
  <2>3. r.response # NoResponse
    BY <2>2 DEF NoResponse, GovernedFields
  <2> QED
    BY <2>1, <2>3 DEF BuildRaises
<1>2. CASE UngovernedReading(reply, r)
  BY <1>2 DEF UngovernedReading, BuildRaises
<1> QED
  BY <1>1, <1>2, ReadingOfAReply

(* Somebody's reply has an HTTP status.                                    *)
LEMMA RepliesHaveCodes ==
    ASSUME IInv, NEW s \in Submissions, received[s].origin # "nobody"
    PROVE  received[s].reply.code # NoCode
<1>1. CASE received[s].origin = "gateway"
  <2>0. received[s].reply = GatewayReply(s, form[s], kernel[s])
    BY <1>1 DEF IInv, Provenance, KernelWrote
  <2>1. received[s].reply.code = StatusOfDecision(kernel[s])
    BY <2>0 DEF GatewayReply
  <2> QED
    BY <2>1 DEF StatusOfDecision, NoCode
<1>2. CASE received[s].origin = "other"
  BY <1>2, ForeignReplyAssumption DEF IInv, Provenance
<1> QED
  BY <1>1, <1>2 DEF IInv, TypeOK

(* A page of the operation-aware panel was made by a gate, from a failed   *)
(* exchange, or from a reply.                                              *)
LEMMA PresentedPages ==
    ASSUME IInv, NEW s \in Submissions, page[s].view = "presentation"
    PROVE  /\ stage[s] = "done"
           /\ \/ /\ received[s] = NothingReceived
                 /\ NoReading(page[s].result)
                 /\ sent[s] = <<>> <=> page[s].result.status \in {"not_configured", "token_missing"}
              \/ /\ received[s].origin # "nobody"
                 /\ page[s].result = InterpretOperationAware(received[s].reply)
                 /\ sent[s] # <<>>
                 /\ received[s].reply.code # NoCode
<1>1. stage[s] = "done"
  <2>1. stage[s] # "done" => page[s] = NoPage
    BY DEF IInv, Provenance
  <2> QED
    BY <2>1 DEF NoPage
<1>2. sent[s] = <<>> <=> ~CallsGateway(form[s], client)
  <2>1. sent[s] = IF CallsGateway(form[s], client) THEN <<WireBody(form[s])>> ELSE <<>>
    BY <1>1 DEF IInv, OneCallPerSubmission
  <2>2. <<WireBody(form[s])>> # <<>>
    OBVIOUS
  <2>3. CASE CallsGateway(form[s], client)
    BY <2>1, <2>2, <2>3
  <2>4. CASE ~CallsGateway(form[s], client)
    BY <2>1, <2>4
  <2> QED
    BY <2>3, <2>4
<1>3. CASE ~CallsGateway(form[s], client)
  <2>1. received[s] = NothingReceived /\ page[s] = LocalPage(form[s], client)
    BY <1>1, <1>3 DEF IInv, Provenance
  <2>2. page[s].result = OperationAwareResult(Gate(client))
    BY <2>1 DEF LocalPage
  <2> QED
    BY <1>1, <1>2, <1>3, <2>1, <2>2, GateResult
<1>4. CASE CallsGateway(form[s], client) /\ received[s].origin = "nobody"
  <2>1. PICK failure \in TransportFailures : page[s] = FailurePage(form[s], failure)
    BY <1>1, <1>4 DEF IInv, Provenance
  <2>2. page[s].result = OperationAwareFailure(failure)
    BY <2>1, BuilderAcceptsFailures DEF FailurePage, ResultPage
  <2>3. received[s] = NothingReceived
    BY <1>4 DEF IInv, Provenance
  <2> QED
    BY <1>1, <1>2, <1>4, <2>2, <2>3, FailureResult
<1>5. CASE CallsGateway(form[s], client) /\ received[s].origin # "nobody"
  <2>1. page[s] = ReplyPage(form[s], received[s].reply)
    BY <1>1, <1>5 DEF IInv, Provenance, NothingReceived
  <2>2. page[s].result = InterpretOperationAware(received[s].reply)
    BY <2>1 DEF ReplyPage, ResultPage, ServerError, NoPage
  <2> QED
    BY <1>1, <1>2, <1>5, <2>2, RepliesHaveCodes
<1> QED
  BY <1>3, <1>4, <1>5

----------------------------------------------------------------------------
(* What the presentation shows of a result.                                *)

LEMMA ItemFields ==
    ASSUME NEW value, NEW source, NEW applicable \in BOOLEAN
    PROVE  /\ Item(value, source, applicable).value = IF applicable THEN value ELSE Null
           /\ Item(value, source, applicable).applicable = applicable
           /\ Item(value, source, applicable).present <=> applicable /\ value # Null
  BY DEF Item

LEMMA PresentationParts ==
    ASSUME NEW p
    PROVE  /\ Presentation(p).evaluation_result = EvaluationResult(p.result)
           /\ Presentation(p).policy_bundle = PolicyBundle(p.result)
           /\ Presentation(p).evidence = EvidenceSection(p.result)
           /\ Presentation(p).transport = Transport(p.result)
  BY DEF Presentation, BuildPresentation

(* What an operation-aware page says of the call is true: it names the     *)
(* gateway as called exactly when a request left for it.                   *)
THEOREM CalledGatewayHolds == Spec => []CalledGatewayIsTrue
<1>1. IInv => CalledGatewayIsTrue
  <2> SUFFICES ASSUME IInv, NEW s \in Submissions, page[s].view = "presentation"
               PROVE  ShownOf(s).transport.called_gateway <=> sent[s] # <<>>
    BY DEF CalledGatewayIsTrue, Presented
  <2>1. ShownOf(s).transport.called_gateway
          <=> page[s].result.status \notin {"not_configured", "token_missing"}
    <3>1. ShownOf(s).transport = Transport(page[s].result)
      BY PresentationParts DEF ShownOf
    <3>2. Transport(page[s].result).called_gateway = CalledGateway(page[s].result)
      BY DEF Transport
    <3> QED
      BY <3>1, <3>2 DEF CalledGateway
  <2>2. CASE received[s] = NothingReceived /\ NoReading(page[s].result)
             /\ (sent[s] = <<>> <=> page[s].result.status \in {"not_configured", "token_missing"})
    BY <2>1, <2>2
  <2>3. CASE page[s].result = InterpretOperationAware(received[s].reply) /\ sent[s] # <<>>
    <3>1. page[s].result.status \notin {"not_configured", "token_missing"}
      BY <2>3, ReadingOfAReply
    <3> QED
      BY <2>1, <2>3, <3>1
  <2> QED
    BY <2>2, <2>3, PresentedPages
<1> QED
  BY <1>1, InvariantHolds, PTL

LEMMA ReconciledIsBoth ==
    ASSUME NEW b, NEW h, ~CorrelationRejected(b, h),
           NEW c, c = ReconciledCorrelation(b, h), c # Null
    PROVE  /\ IsText(b) \/ h # Null
           /\ IsText(b) => c = b
           /\ h # Null => c = h
  BY DEF CorrelationRejected, ReconciledCorrelation

(* No reply, governed or not, makes a page show one of two correlation ids *)
(* that disagree.                                                          *)
THEOREM CorrelationIsNeverGuessed == Spec => []CorrelationNeverGuessed
<1>1. IInv => CorrelationNeverGuessed
  <2> SUFFICES ASSUME IInv, NEW s \in Submissions, page[s].view = "presentation",
                      NEW b, b = BodyOf(received[s].reply)["correlation_id"],
                      NEW h, h = received[s].reply.header,
                      NEW shown, shown = ShownOf(s).evidence.correlation_id, shown.present
               PROVE  /\ IsText(b) \/ h # Null
                      /\ IsText(b) => shown.value = b
                      /\ h # Null => shown.value = h
    BY DEF CorrelationNeverGuessed, Presented
  <2> DEFINE r == page[s].result
  <2>1. shown = Item(r.correlation_id, "returned_evidence", TRUE)
    <3>1. ShownOf(s).evidence = EvidenceSection(r)
      BY PresentationParts DEF ShownOf
    <3>2. EvidenceSection(r).correlation_id = Item(r.correlation_id, "returned_evidence", TRUE)
      BY DEF EvidenceSection, Evidence
    <3> QED
      BY <3>1, <3>2
  <2>2. shown.value = r.correlation_id /\ r.correlation_id # Null
    <3> DEFINE item == Item(r.correlation_id, "returned_evidence", TRUE)
    <3>1. item.value = r.correlation_id /\ (item.present <=> r.correlation_id # Null)
      BY ItemFields
    <3> HIDE DEF item
    <3>2. shown = item
      BY <2>1 DEF item
    <3> QED
      BY <3>1, <3>2
  <2>3. r = InterpretOperationAware(received[s].reply)
    BY <2>2, PresentedPages DEF NoReading
  <2>4. r.correlation_id = ReconciledCorrelation(b, h) /\ ~CorrelationRejected(b, h)
    <3>1. GovernedReading(received[s].reply, r) \/ UngovernedReading(received[s].reply, r)
      BY <2>3, ReadingOfAReply
    <3> QED
      BY <2>2, <3>1 DEF GovernedReading, UngovernedReading, ContractValid
  <2> QED
    BY <2>2, <2>4, ReconciledIsBoth
<1> QED
  BY <1>1, InvariantHolds, PTL

(* What a reply is read as depends on its body and header alone.           *)
LEMMA ResponseRead ==
    ASSUME NEW reply
    PROVE  InterpretOperationAware(reply).response =
             IF /\ BodyOf(reply)["evaluation_status"] # Absent
                /\ ContractValid(BodyOf(reply), reply.header)
             THEN ParsedResponse(BodyOf(reply), reply.header) ELSE NoResponse
<1> DEFINE r == InterpretOperationAware(reply)
<1>1. GovernedReading(reply, r) \/ UngovernedReading(reply, r)
  BY ReadingOfAReply
<1> QED
  BY <1>1 DEF GovernedReading, UngovernedReading

(* A received reply is a record of code, kind, body and header.            *)
LEMMA ReplyIsARecord ==
    ASSUME IInv, NEW s \in Submissions, received[s].origin # "nobody"
    PROVE  {"kind", "body", "header"} \subseteq DOMAIN received[s].reply
<1>1. CASE received[s].origin = "gateway"
  <2>0. received[s].reply = GatewayReply(s, form[s], kernel[s])
    BY <1>1 DEF IInv, Provenance, KernelWrote
  <2> QED
    BY <2>0 DEF GatewayReply
<1>2. CASE received[s].origin = "other"
  BY <1>2, ForeignReplyAssumption DEF IInv, Provenance
<1> QED
  BY <1>1, <1>2 DEF IInv, TypeOK

(* The HTTP status of a reply never changes what governed response is      *)
(* read from it.                                                           *)
THEOREM BodyDecides == Spec => []BodyDecidesNotTheCode
<1>1. IInv => BodyDecidesNotTheCode
  <2> SUFFICES ASSUME IInv, NEW s \in Submissions, page[s].view = "presentation",
                      received[s].origin # "nobody", NEW code \in ReplyCodes
               PROVE  InterpretOperationAware([received[s].reply EXCEPT !.code = code]).response
                        = page[s].result.response
    BY DEF BodyDecidesNotTheCode, Presented
  <2> DEFINE reply == received[s].reply
             other == [reply EXCEPT !.code = code]
  <2>1. page[s].result = InterpretOperationAware(reply)
    BY PresentedPages DEF NothingReceived
  <2>2. other.kind = reply.kind /\ other.body = reply.body /\ other.header = reply.header
    BY ReplyIsARecord
  <2>3. BodyOf(other) = BodyOf(reply)
    BY <2>2 DEF BodyOf
  <2> HIDE DEF other, reply
  <2>4. InterpretOperationAware(other).response = InterpretOperationAware(reply).response
    BY <2>2, <2>3, ResponseRead
  <2> QED
    BY <2>1, <2>4 DEF other, reply
<1> QED
  BY <1>1, InvariantHolds, PTL

----------------------------------------------------------------------------
(* Where a bare 500 comes from.                                            *)

LEMMA LocalServerErrors ==
    ASSUME NEW f, NEW c
    PROVE  LocalPage(f, c).view = "server_error" <=> ~Decodable(f)
<1>1. LocalPage(f, c).view = LocalView(f, c)
  BY DEF LocalPage
<1>2. LocalView(f, c) = "server_error" <=> ~Decodable(f)
  BY DEF LocalView, Gate
<1> QED
  BY <1>1, <1>2

(* The page of a result is a 500 only for a result the builder refuses.    *)
LEMMA ResultServerErrors ==
    ASSUME NEW f, NEW legacy, NEW result, ~BuildRaises(result)
    PROVE  ResultPage(f, legacy, result).view \in {"evaluation", "presentation"}
  BY DEF ResultPage

(* An operator meets a bare 500 after an undecodable form or a reply too   *)
(* deep for Python, and never otherwise: the client's results and the      *)
(* builder's check agree on every reply.                                   *)
THEOREM ServerErrorsHold == Spec => []ServerErrorsAccountedFor
<1>1. IInv => ServerErrorsAccountedFor
  <2> SUFFICES ASSUME IInv, NEW s \in Submissions, stage[s] = "done"
               PROVE  page[s].view = "server_error" <=>
                        \/ ~Decodable(form[s])
                        \/ /\ received[s].origin # "nobody"
                           /\ ReadingRaises(form[s], received[s].reply)
    BY DEF ServerErrorsAccountedFor
  <2>1. CASE ~CallsGateway(form[s], client)
    <3>1. received[s].origin = "nobody" /\ page[s] = LocalPage(form[s], client)
      BY <2>1 DEF IInv, Provenance, NothingReceived
    <3> QED
      BY <3>1, LocalServerErrors
  <2>2. CASE CallsGateway(form[s], client) /\ received[s].origin = "nobody"
    <3>1. PICK failure \in TransportFailures : page[s] = FailurePage(form[s], failure)
      BY <2>2 DEF IInv, Provenance
    <3>2. page[s].view \in {"evaluation", "presentation"}
      BY <3>1, BuilderAcceptsFailures, ResultServerErrors DEF FailurePage
    <3>3. Decodable(form[s])
      BY <2>2 DEF CallsGateway
    <3> QED
      BY <2>2, <3>2, <3>3
  <2>3. CASE CallsGateway(form[s], client) /\ received[s].origin # "nobody"
    <3>1. page[s] = ReplyPage(form[s], received[s].reply)
      BY <2>3 DEF IInv, Provenance
    <3>2. Decodable(form[s])
      BY <2>3 DEF CallsGateway
    <3>3. CASE ReadingRaises(form[s], received[s].reply)
      BY <2>3, <3>1, <3>3 DEF ReplyPage, ServerError, NoPage
    <3>4. CASE ~ReadingRaises(form[s], received[s].reply)
      <4>1. page[s].view \in {"evaluation", "presentation"}
        BY <3>1, <3>4, BuilderAcceptsReadings, ResultServerErrors DEF ReplyPage
      <4> QED
        BY <3>2, <3>4, <4>1
    <3> QED
      BY <3>3, <3>4
  <2> QED
    BY <2>1, <2>2, <2>3
<1> QED
  BY <1>1, InvariantHolds, PTL

----------------------------------------------------------------------------
(* What a presentation shows, item by item.                                *)

(* What was never received reads as a reply that carries nothing.          *)
LEMMA PresentedReading ==
    ASSUME IInv, NEW s \in Submissions, page[s].view = "presentation"
    PROVE  /\ \/ GovernedReading(received[s].reply, page[s].result)
              \/ UngovernedReading(received[s].reply, page[s].result)
           /\ page[s].result.http_status = received[s].reply.code
<1> DEFINE r == page[s].result
<1>1. CASE received[s] = NothingReceived /\ NoReading(r)
  <2>1. received[s].reply = NoReply
    BY <1>1 DEF NothingReceived
  <2>2. BodyOf(NoReply)["evaluation_status"] = Absent /\ NoReply.code = NoCode
    BY DEF NoReply, BodyOf, ObjectKinds, DeepKinds, EmptyBody, Fields, GovernedFields
  <2> QED
    BY <1>1, <2>1, <2>2 DEF NoReading, UngovernedReading
<1>2. CASE r = InterpretOperationAware(received[s].reply)
  BY <1>2, ReadingOfAReply
<1> QED
  BY <1>1, <1>2, PresentedPages

(* The response of a governed reading is the body, field by field.         *)
LEMMA GovernedResponse ==
    ASSUME NEW reply, NEW r, GovernedReading(reply, r)
    PROVE  /\ r.status \in GovernedStatuses
           /\ r.response # NoResponse
           /\ \A f \in GovernedFields \ {"correlation_id"} :
                 r.response[f] = OrNull(BodyOf(reply)[f])
           /\ r.response["evaluation_status"] = BodyOf(reply)["evaluation_status"]
<1>1. r.status \in GovernedStatuses
  BY DEF GovernedReading, GovernedStatuses
<1>2. \A f \in GovernedFields \ {"correlation_id"} : r.response[f] = OrNull(BodyOf(reply)[f])
  BY DEF GovernedReading, ParsedResponse
<1>3. BodyOf(reply)["evaluation_status"] \in EvaluationStates
  BY DEF GovernedReading, ContractValid, WellTyped
<1>4. r.response["evaluation_status"] = BodyOf(reply)["evaluation_status"]
  BY <1>2, <1>3 DEF GovernedFields, OrNull, Missing, Absent, Null, EvaluationStates
<1>5. NoResponse["evaluation_status"] = Absent
  BY DEF NoResponse, GovernedFields
<1> QED
  BY <1>1, <1>2, <1>3, <1>4, <1>5 DEF EvaluationStates, Absent

LEMMA EvidenceValue ==
    ASSUME NEW value, NEW applicable \in BOOLEAN
    PROVE  /\ Evidence(value, applicable).value = IF applicable THEN value ELSE Null
           /\ Evidence(value, applicable).present <=> applicable /\ value # Null
           /\ Evidence(value, applicable).applicable = applicable
  BY DEF Evidence, Item

IsGoverned(r) == r.response # NoResponse
IsCompleted(r) == IsGoverned(r) /\ r.response["evaluation_status"] = "completed"

(* When each item of the evaluation section applies.                       *)
LEMMA EvaluationItems ==
    ASSUME NEW r
    PROVE  LET shown == EvaluationResult(r) IN
           /\ shown.kernel_evaluation_status = Evidence(r.response["evaluation_status"], IsGoverned(r))
           /\ shown.outcome = Evidence(r.response["outcome"], IsCompleted(r))
           /\ shown.disposition = Evidence(r.response["disposition"], IsGoverned(r))
           /\ shown.failure_reason
                = Evidence(r.response["failure_reason"], IsGoverned(r) /\ ~IsCompleted(r))
           /\ shown.reason_code = Evidence(r.response["reason_code"], IsGoverned(r))
           /\ shown.explanation = Evidence(r.response["explanation"], IsGoverned(r))
<1> DEFINE completed == r.response # NoResponse /\ r.response["evaluation_status"] = "completed"
           failed == r.response # NoResponse /\ ~completed
<1>1. /\ completed = IsCompleted(r)
      /\ failed = (IsGoverned(r) /\ ~IsCompleted(r))
  BY DEF IsGoverned, IsCompleted
<1> QED
  BY <1>1 DEF EvaluationResult, IsGoverned, IsCompleted

LEMMA OtherItems ==
    ASSUME NEW r
    PROVE  /\ PolicyBundle(r).bundle_id = Evidence(r.response["bundle_id"], IsGoverned(r))
           /\ PolicyBundle(r).bundle_version = Evidence(r.response["bundle_version"], IsGoverned(r))
           /\ PolicyBundle(r).applicability_note
                = ConsoleNote("no_bundle_applied",
                              IsGoverned(r) /\ r.response["outcome"] = "not_applicable")
           /\ EvidenceSection(r).request_id = Evidence(r.response["request_id"], IsGoverned(r))
           /\ EvidenceSection(r).trace_id = Evidence(r.response["trace_id"], IsGoverned(r))
           /\ EvidenceSection(r).correlation_id = Evidence(r.correlation_id, TRUE)
           /\ Transport(r).error_code = Evidence(r.error_code, TRUE)
           /\ Transport(r).error_message = Evidence(r.error_message, TRUE)
           /\ Transport(r).http_status = r.http_status
           /\ Transport(r).diagnostics
                <=> ~IsGoverned(r) /\ (r.response_json \/ r.headers)
  BY DEF PolicyBundle, EvidenceSection, Transport, IsGoverned

(* The values of a governed presentation: the body's, whether an item      *)
(* applies or not, because an item that does not apply is missing from a   *)
(* body that keeps the contract.                                           *)
LEMMA GovernedValues ==
    ASSUME NEW reply, NEW r, GovernedReading(reply, r)
    PROVE  LET shown == EvaluationResult(r)
               body == BodyOf(reply)
           IN  /\ shown.kernel_evaluation_status.value = OrNull(body["evaluation_status"])
               /\ shown.outcome.value = OrNull(body["outcome"])
               /\ shown.disposition.value = OrNull(body["disposition"])
               /\ shown.failure_reason.value = OrNull(body["failure_reason"])
               /\ shown.reason_code.value = OrNull(body["reason_code"])
               /\ shown.explanation.value = OrNull(body["explanation"])
<1> DEFINE body == BodyOf(reply)
<1>1. IsGoverned(r) /\ (IsCompleted(r) <=> body["evaluation_status"] = "completed")
  BY GovernedResponse DEF IsGoverned, IsCompleted
<1>2. /\ r.response["evaluation_status"] = OrNull(body["evaluation_status"])
      /\ r.response["outcome"] = OrNull(body["outcome"])
      /\ r.response["disposition"] = OrNull(body["disposition"])
      /\ r.response["failure_reason"] = OrNull(body["failure_reason"])
      /\ r.response["reason_code"] = OrNull(body["reason_code"])
      /\ r.response["explanation"] = OrNull(body["explanation"])
  BY GovernedResponse DEF GovernedFields, OptionalTexts
<1>3. /\ body["evaluation_status"] = "completed" => OrNull(body["failure_reason"]) = Null
      /\ body["evaluation_status"] # "completed" => OrNull(body["outcome"]) = Null
  BY DEF GovernedReading, ContractValid, Coherent, OrNull
<1>4. IsGoverned(r) \in BOOLEAN /\ IsCompleted(r) \in BOOLEAN
  BY DEF IsGoverned, IsCompleted
<1>5. (IsGoverned(r) /\ ~IsCompleted(r)) \in BOOLEAN
  OBVIOUS
<1> HIDE DEF body
<1>6. EvaluationResult(r).outcome.value = OrNull(body["outcome"])
  BY <1>1, <1>2, <1>3, <1>4, EvaluationItems, EvidenceValue
<1>7. EvaluationResult(r).failure_reason.value = OrNull(body["failure_reason"])
  <2> DEFINE failed == IsGoverned(r) /\ ~IsCompleted(r)
  <2>1. EvaluationResult(r).failure_reason = Evidence(r.response["failure_reason"], failed)
    BY EvaluationItems
  <2>2. failed \in BOOLEAN /\ (failed <=> body["evaluation_status"] # "completed")
    BY <1>1, <1>5
  <2> HIDE DEF failed
  <2>3. EvaluationResult(r).failure_reason.value
          = IF failed THEN r.response["failure_reason"] ELSE Null
    BY <2>1, <2>2, EvidenceValue
  <2> QED
    BY <1>2, <1>3, <2>2, <2>3
<1>8. /\ EvaluationResult(r).kernel_evaluation_status.value = OrNull(body["evaluation_status"])
      /\ EvaluationResult(r).disposition.value = OrNull(body["disposition"])
      /\ EvaluationResult(r).reason_code.value = OrNull(body["reason_code"])
      /\ EvaluationResult(r).explanation.value = OrNull(body["explanation"])
  <2>1. IsGoverned(r) = TRUE /\ \A value : Evidence(value, TRUE).value = value
    BY <1>1, <1>4, EvidenceValue
  <2>2. /\ EvaluationResult(r).kernel_evaluation_status = Evidence(r.response["evaluation_status"], TRUE)
        /\ EvaluationResult(r).disposition = Evidence(r.response["disposition"], TRUE)
        /\ EvaluationResult(r).reason_code = Evidence(r.response["reason_code"], TRUE)
        /\ EvaluationResult(r).explanation = Evidence(r.response["explanation"], TRUE)
    BY <2>1, EvaluationItems
  <2> QED
    BY <1>2, <2>1, <2>2
<1> QED
  BY <1>6, <1>7, <1>8 DEF body

(* Without a governed response nothing governed is shown.                  *)
LEMMA UngovernedValues ==
    ASSUME NEW r, r.response = NoResponse
    PROVE  LET shown == EvaluationResult(r) IN
           /\ shown.kernel_evaluation_status.value = Null
           /\ shown.outcome.value = Null
           /\ shown.disposition.value = Null
           /\ shown.failure_reason.value = Null
           /\ shown.reason_code.value = Null
           /\ shown.explanation.value = Null
           /\ ~shown.kernel_evaluation_status.applicable
<1>1. ~IsGoverned(r) /\ ~IsCompleted(r)
  BY DEF IsGoverned, IsCompleted
<1>2. \A value : Evidence(value, FALSE).value = Null /\ Evidence(value, FALSE).applicable = FALSE
  BY EvidenceValue
<1>3. IsGoverned(r) = FALSE /\ IsCompleted(r) = FALSE
  BY <1>1 DEF IsGoverned, IsCompleted
<1> QED
  BY <1>2, <1>3, EvaluationItems

LEMMA BundleValues ==
    ASSUME NEW reply, NEW r, GovernedReading(reply, r)
    PROVE  LET body == BodyOf(reply) IN
           /\ PolicyBundle(r).bundle_id.value = OrNull(body["bundle_id"])
           /\ PolicyBundle(r).bundle_version.value = OrNull(body["bundle_version"])
           /\ EvidenceSection(r).request_id.value = OrNull(body["request_id"])
           /\ EvidenceSection(r).trace_id.value = OrNull(body["trace_id"])
<1> DEFINE body == BodyOf(reply)
<1>1. IsGoverned(r) = TRUE /\ \A value : Evidence(value, TRUE).value = value
  BY GovernedResponse, EvidenceValue DEF IsGoverned
<1>2. /\ r.response["bundle_id"] = OrNull(body["bundle_id"])
      /\ r.response["bundle_version"] = OrNull(body["bundle_version"])
      /\ r.response["request_id"] = OrNull(body["request_id"])
      /\ r.response["trace_id"] = OrNull(body["trace_id"])
  BY GovernedResponse DEF GovernedFields, OptionalTexts
<1> HIDE DEF body
<1>3. /\ PolicyBundle(r).bundle_id = Evidence(r.response["bundle_id"], TRUE)
      /\ PolicyBundle(r).bundle_version = Evidence(r.response["bundle_version"], TRUE)
      /\ EvidenceSection(r).request_id = Evidence(r.response["request_id"], TRUE)
      /\ EvidenceSection(r).trace_id = Evidence(r.response["trace_id"], TRUE)
  BY <1>1, OtherItems
<1> QED
  BY <1>1, <1>2, <1>3 DEF body

LEMMA NoBundleValues ==
    ASSUME NEW r, r.response = NoResponse
    PROVE  /\ PolicyBundle(r).bundle_id.value = Null
           /\ PolicyBundle(r).bundle_version.value = Null
           /\ EvidenceSection(r).request_id.value = Null
           /\ EvidenceSection(r).trace_id.value = Null
<1>1. IsGoverned(r) = FALSE /\ \A value : Evidence(value, FALSE).value = Null
  BY EvidenceValue DEF IsGoverned
<1> QED
  BY <1>1, OtherItems

(* Every item of returned evidence is the reply's own, word for word, and  *)
(* without a governed response there is none.                              *)
THEOREM EvidenceHolds == Spec => []EvidenceIsReturned
<1>1. IInv => EvidenceIsReturned
  <2> SUFFICES ASSUME IInv, NEW s \in Submissions, page[s].view = "presentation"
               PROVE  LET shown == ShownOf(s)
                          body == BodyOf(received[s].reply)
                          governed == page[s].result.status \in GovernedStatuses
                          verbatim(item, f) ==
                              item.value = IF governed THEN OrNull(body[f]) ELSE Null
                      IN  /\ verbatim(shown.evaluation_result.kernel_evaluation_status,
                                      "evaluation_status")
                          /\ \A f \in {"outcome", "disposition", "failure_reason",
                                       "reason_code", "explanation"} :
                                verbatim(shown.evaluation_result[f], f)
                          /\ \A f \in {"bundle_id", "bundle_version"} :
                                verbatim(shown.policy_bundle[f], f)
                          /\ \A f \in {"request_id", "trace_id"} : verbatim(shown.evidence[f], f)
                          /\ shown.evidence.correlation_id.value
                                \in {Null, body["correlation_id"], received[s].reply.header}
                          /\ shown.transport.error_code.value \in {Null, body["error"]}
                          /\ shown.transport.error_message.value \in {Null, body["message"]}
                          /\ shown.transport.http_status = received[s].reply.code
    BY DEF EvidenceIsReturned, Presented
  <2> DEFINE r == page[s].result
             reply == received[s].reply
             body == BodyOf(reply)
  <2>1. /\ ShownOf(s).evaluation_result = EvaluationResult(r)
        /\ ShownOf(s).policy_bundle = PolicyBundle(r)
        /\ ShownOf(s).evidence = EvidenceSection(r)
        /\ ShownOf(s).transport = Transport(r)
    BY PresentationParts DEF ShownOf
  <2>2. /\ EvidenceSection(r).correlation_id.value = r.correlation_id
        /\ Transport(r).error_code.value = r.error_code
        /\ Transport(r).error_message.value = r.error_message
        /\ Transport(r).http_status = r.http_status
    <3>1. \A value : Evidence(value, TRUE).value = value
      BY EvidenceValue
    <3> QED
      BY <3>1, OtherItems
  <2>3. r.http_status = reply.code
    BY PresentedReading
  <2>4. CASE GovernedReading(reply, r)
    <3>1. r.correlation_id \in {body["correlation_id"], reply.header}
      BY <2>4 DEF GovernedReading, ReconciledCorrelation
    <3>2. r.error_code = Null /\ r.error_message = Null /\ r.status \in GovernedStatuses
      BY <2>4, GovernedResponse DEF GovernedReading
    <3>3. /\ EvaluationResult(r).kernel_evaluation_status.value = OrNull(body["evaluation_status"])
          /\ EvaluationResult(r).outcome.value = OrNull(body["outcome"])
          /\ EvaluationResult(r).disposition.value = OrNull(body["disposition"])
          /\ EvaluationResult(r).failure_reason.value = OrNull(body["failure_reason"])
          /\ EvaluationResult(r).reason_code.value = OrNull(body["reason_code"])
          /\ EvaluationResult(r).explanation.value = OrNull(body["explanation"])
      BY <2>4, GovernedValues
    <3>4. /\ PolicyBundle(r).bundle_id.value = OrNull(body["bundle_id"])
          /\ PolicyBundle(r).bundle_version.value = OrNull(body["bundle_version"])
          /\ EvidenceSection(r).request_id.value = OrNull(body["request_id"])
          /\ EvidenceSection(r).trace_id.value = OrNull(body["trace_id"])
      BY <2>4, BundleValues
    <3> HIDE DEF r, reply, body
    <3> QED
      BY <2>1, <2>2, <2>3, <3>1, <3>2, <3>3, <3>4 DEF r, reply, body
  <2>5. CASE UngovernedReading(reply, r)
    <3>1. r.correlation_id \in {Null, body["correlation_id"], reply.header}
      BY <2>5 DEF UngovernedReading, ReconciledCorrelation
    <3>2. /\ r.error_code \in {Null, body["error"]} /\ r.error_message \in {Null, body["message"]}
          /\ r.status \notin GovernedStatuses
          /\ r.response = NoResponse
      BY <2>5 DEF UngovernedReading
    <3>3. /\ EvaluationResult(r).kernel_evaluation_status.value = Null
          /\ EvaluationResult(r).outcome.value = Null
          /\ EvaluationResult(r).disposition.value = Null
          /\ EvaluationResult(r).failure_reason.value = Null
          /\ EvaluationResult(r).reason_code.value = Null
          /\ EvaluationResult(r).explanation.value = Null
      BY <3>2, UngovernedValues
    <3>4. /\ PolicyBundle(r).bundle_id.value = Null
          /\ PolicyBundle(r).bundle_version.value = Null
          /\ EvidenceSection(r).request_id.value = Null
          /\ EvidenceSection(r).trace_id.value = Null
      BY <3>2, NoBundleValues
    <3> HIDE DEF r, reply, body
    <3> QED
      BY <2>1, <2>2, <2>3, <3>1, <3>2, <3>3, <3>4 DEF r, reply, body
  <2> QED
    BY <2>4, <2>5, PresentedReading
<1> QED
  BY <1>1, InvariantHolds, PTL

----------------------------------------------------------------------------
(* The decision a presentation shows.                                      *)

LEMMA PresenceIsValue ==
    ASSUME NEW value, NEW applicable \in BOOLEAN
    PROVE  LET item == Evidence(value, applicable) IN item.present <=> item.value # Null
<1>1. /\ Evidence(value, applicable).value = IF applicable THEN value ELSE Null
      /\ Evidence(value, applicable).present <=> applicable /\ value # Null
  BY EvidenceValue
<1> QED
  BY <1>1

LEMMA ItemsPresent ==
    ASSUME NEW r
    PROVE  LET shown == EvaluationResult(r) IN
           /\ shown.kernel_evaluation_status.present <=> shown.kernel_evaluation_status.value # Null
           /\ shown.outcome.present <=> shown.outcome.value # Null
           /\ shown.disposition.present <=> shown.disposition.value # Null
           /\ shown.failure_reason.present <=> shown.failure_reason.value # Null
           /\ shown.reason_code.present <=> shown.reason_code.value # Null
           /\ shown.explanation.present <=> shown.explanation.value # Null
<1>1. /\ IsGoverned(r) \in BOOLEAN /\ IsCompleted(r) \in BOOLEAN
      /\ (IsGoverned(r) /\ ~IsCompleted(r)) \in BOOLEAN
  BY DEF IsGoverned, IsCompleted
<1>2. EvaluationResult(r).failure_reason.present <=> EvaluationResult(r).failure_reason.value # Null
  <2> DEFINE failed == IsGoverned(r) /\ ~IsCompleted(r)
  <2>1. EvaluationResult(r).failure_reason = Evidence(r.response["failure_reason"], failed)
    BY EvaluationItems
  <2>2. failed \in BOOLEAN
    BY <1>1
  <2> HIDE DEF failed
  <2> QED
    BY <2>1, <2>2, PresenceIsValue
<1> QED
  BY <1>1, <1>2, EvaluationItems, PresenceIsValue

(* A decision is an outcome with its disposition, or a failure, denied;    *)
(* without one every item of the section is empty.                         *)
Completed(e) ==
    /\ e.kernel_evaluation_status.present /\ e.kernel_evaluation_status.value = "completed"
    /\ e.outcome.present /\ e.outcome.value \in Outcomes
    /\ ~e.failure_reason.present
    /\ e.disposition.present
    /\ e.disposition.value = IF e.outcome.value = "allow" THEN "allow" ELSE "deny"

Failed(e) ==
    /\ e.kernel_evaluation_status.present /\ e.kernel_evaluation_status.value = "failed"
    /\ e.failure_reason.present /\ e.failure_reason.value \in FailureReasons
    /\ ~e.outcome.present /\ e.outcome.value = Null
    /\ e.disposition.present /\ e.disposition.value = "deny"

Nothing(e) ==
    /\ ~e.kernel_evaluation_status.present /\ ~e.kernel_evaluation_status.applicable
    /\ ~e.outcome.present /\ e.outcome.value = Null
    /\ ~e.failure_reason.present
    /\ ~e.disposition.present /\ e.disposition.value = Null

LEMMA GovernedSection ==
    ASSUME NEW reply, NEW r, GovernedReading(reply, r)
    PROVE  LET e == EvaluationResult(r) IN
           /\ Completed(e) \/ Failed(e)
           /\ e.kernel_evaluation_status.applicable
<1> DEFINE body == BodyOf(reply)
           e == EvaluationResult(r)
<1>1. WellTyped(body) /\ Coherent(body)
  BY DEF GovernedReading, ContractValid
<1>2. e.kernel_evaluation_status.applicable
  <2>1. IsGoverned(r) = TRUE /\ \A value : Evidence(value, TRUE).applicable = TRUE
    BY GovernedResponse, EvidenceValue DEF IsGoverned
  <2>2. e.kernel_evaluation_status = Evidence(r.response["evaluation_status"], TRUE)
    BY <2>1, EvaluationItems
  <2> QED
    BY <2>1, <2>2
<1>3. /\ e.kernel_evaluation_status.value = OrNull(body["evaluation_status"])
      /\ e.outcome.value = OrNull(body["outcome"])
      /\ e.disposition.value = OrNull(body["disposition"])
      /\ e.failure_reason.value = OrNull(body["failure_reason"])
  BY GovernedValues
<1>4. /\ e.kernel_evaluation_status.present <=> e.kernel_evaluation_status.value # Null
      /\ e.outcome.present <=> e.outcome.value # Null
      /\ e.disposition.present <=> e.disposition.value # Null
      /\ e.failure_reason.present <=> e.failure_reason.value # Null
  BY ItemsPresent
<1> HIDE DEF body, e
<1>5. CASE body["evaluation_status"] = "completed"
  <2>1. /\ body["outcome"] \in Outcomes /\ Missing(body["failure_reason"])
        /\ body["disposition"] = IF body["outcome"] = "allow" THEN "allow" ELSE "deny"
    BY <1>1, <1>5 DEF WellTyped, Coherent
  <2>2. /\ OrNull(body["outcome"]) = body["outcome"] /\ body["outcome"] # Null
        /\ OrNull(body["failure_reason"]) = Null
        /\ OrNull(body["disposition"]) = body["disposition"] /\ body["disposition"] # Null
        /\ OrNull(body["evaluation_status"]) = "completed"
    BY <1>5, <2>1 DEF OrNull, Missing, Null, Absent, Outcomes
  <2> QED
    BY <1>2, <1>3, <1>4, <2>1, <2>2 DEF Completed, Null, e
<1>6. CASE body["evaluation_status"] # "completed"
  <2>1. /\ body["failure_reason"] \in FailureReasons /\ Missing(body["outcome"])
        /\ body["disposition"] = "deny" /\ body["evaluation_status"] = "failed"
    BY <1>1, <1>6 DEF WellTyped, Coherent
  <2>2. /\ OrNull(body["failure_reason"]) = body["failure_reason"] /\ body["failure_reason"] # Null
        /\ OrNull(body["outcome"]) = Null
        /\ OrNull(body["disposition"]) = "deny"
        /\ OrNull(body["evaluation_status"]) = "failed"
    BY <2>1 DEF OrNull, Missing, Null, Absent, FailureReasons
  <2> QED
    BY <1>2, <1>3, <1>4, <2>1, <2>2 DEF Failed, Null, e
<1> QED
  BY <1>5, <1>6

LEMMA UngovernedSection ==
    ASSUME NEW r, r.response = NoResponse
    PROVE  Nothing(EvaluationResult(r))
  BY UngovernedValues, ItemsPresent DEF Nothing

LEMMA PresentedSection ==
    ASSUME IInv, NEW s \in Submissions, page[s].view = "presentation"
    PROVE  LET e == ShownOf(s).evaluation_result
               governed == page[s].result.status \in GovernedStatuses
           IN  /\ governed <=> IsGoverned(page[s].result)
               /\ \/ governed /\ (Completed(e) \/ Failed(e))
                             /\ e.kernel_evaluation_status.applicable
                             /\ GovernedReading(received[s].reply, page[s].result)
                  \/ ~governed /\ Nothing(e)
<1> DEFINE r == page[s].result
<1>1. ShownOf(s).evaluation_result = EvaluationResult(r)
  BY PresentationParts DEF ShownOf
<1>2. CASE GovernedReading(received[s].reply, r)
  BY <1>1, <1>2, GovernedSection, GovernedResponse DEF IsGoverned
<1>3. CASE UngovernedReading(received[s].reply, r)
  BY <1>1, <1>3, UngovernedSection DEF IsGoverned, UngovernedReading
<1> QED
  BY <1>2, <1>3, PresentedReading

(* The pieces of a shown decision never contradict each other.             *)
THEOREM DecisionsHold == Spec => []DecisionsCohere
<1>1. IInv => DecisionsCohere
  <2> SUFFICES ASSUME IInv, NEW s \in Submissions, page[s].view = "presentation"
               PROVE  LET shown == ShownOf(s).evaluation_result
                          governed == page[s].result.status \in GovernedStatuses
                      IN  /\ governed <=> shown.disposition.present
                          /\ shown.disposition.value = "allow" <=> shown.outcome.value = "allow"
                          /\ shown.failure_reason.present
                                => shown.disposition.value = "deny" /\ ~shown.outcome.present
                          /\ ShownOf(s).policy_bundle.applicability_note.present
                                <=> shown.outcome.value = "not_applicable"
    BY DEF DecisionsCohere, Presented
  <2> DEFINE r == page[s].result
             e == ShownOf(s).evaluation_result
             note == ShownOf(s).policy_bundle.applicability_note
  <2>1. note.present <=> IsGoverned(r) /\ r.response["outcome"] = "not_applicable"
    <3> DEFINE uncovered == IsGoverned(r) /\ r.response["outcome"] = "not_applicable"
    <3>1. note = ConsoleNote("no_bundle_applied", uncovered)
      <4>1. ShownOf(s).policy_bundle = PolicyBundle(r)
        BY PresentationParts DEF ShownOf
      <4> QED
        BY <4>1, OtherItems
    <3>2. uncovered \in BOOLEAN
      OBVIOUS
    <3> HIDE DEF uncovered
    <3>3. ConsoleNote("no_bundle_applied", uncovered).present <=> uncovered
      BY <3>2 DEF ConsoleNote, Item, Null
    <3> QED
      BY <3>1, <3>3 DEF uncovered
  <2>2. IsGoverned(r) => e.outcome.value = r.response["outcome"]
    <3> HAVE IsGoverned(r)
    <3>1. GovernedReading(received[s].reply, r)
      BY PresentedReading DEF IsGoverned, UngovernedReading
    <3>2. e.outcome.value = OrNull(BodyOf(received[s].reply)["outcome"])
      BY <3>1, GovernedValues, PresentationParts DEF ShownOf
    <3> QED
      BY <3>1, <3>2, GovernedResponse DEF GovernedFields
  <2> HIDE DEF r, e, note
  <2>3. /\ r.status \in GovernedStatuses <=> IsGoverned(r)
        /\ \/ r.status \in GovernedStatuses /\ (Completed(e) \/ Failed(e))
           \/ r.status \notin GovernedStatuses /\ Nothing(e)
    BY PresentedSection DEF r, e
  <2> QED
    BY <2>1, <2>2, <2>3 DEF Completed, Failed, Nothing, Null, r, e, note
<1> QED
  BY <1>1, InvariantHolds, PTL

----------------------------------------------------------------------------
(* The lessons beside a page.                                              *)

LEMMA OutcomeLesson ==
    ASSUME NEW item, item.present, item.value \in Outcomes
    PROVE  OutcomeCopy(item) = {[text |-> "outcome_copy", about |-> item.value]}
<1>1. item.value \in OUTCOME_TRAINING_COPY
  BY DEF Outcomes, OUTCOME_TRAINING_COPY
<1>2. {k \in OUTCOME_TRAINING_COPY : item.present /\ item.value = k} = {item.value}
  BY <1>1
<1> QED
  BY <1>2 DEF OutcomeCopy

LEMMA FailureLesson ==
    ASSUME NEW item, item.present, item.value \in FailureReasons
    PROVE  FailureReasonCopy(item) = {[text |-> "failure_reason_copy", about |-> item.value]}
<1>1. item.value \in FAILURE_REASON_TRAINING_COPY
  BY DEF FailureReasons, FAILURE_REASON_TRAINING_COPY
<1>2. {k \in FAILURE_REASON_TRAINING_COPY : item.present /\ item.value = k} = {item.value}
  BY <1>1
<1> QED
  BY <1>2 DEF FailureReasonCopy

LEMMA PresentedDecision ==
    ASSUME NEW p, p.view = "presentation"
    PROVE  LET e == Presentation(p).evaluation_result IN
           DecisionShown(p) = IF e.outcome.present THEN e.outcome.value
                              ELSE IF e.failure_reason.present THEN e.failure_reason.value
                              ELSE Undecided
  BY DEF DecisionShown

(* The lesson beside a result is the one about the decision that is shown, *)
(* whatever the reply.                                                     *)
THEOREM LessonsHold == Spec => []LessonMatchesDecision
<1>1. IInv => LessonMatchesDecision
  <2> SUFFICES ASSUME IInv, NEW s \in Submissions, page[s].view = "presentation"
               PROVE  LET decision == DecisionShown(page[s]) IN
                      ResultTexts(ShownOf(s)) =
                        CASE decision \in Outcomes       -> {[text |-> "outcome_copy", about |-> decision]}
                          [] decision \in FailureReasons -> {Text("governed_failure_intro"),
                                                             [text |-> "failure_reason_copy", about |-> decision]}
                          [] OTHER                       -> {Text("generic_failure_intro")}
    BY DEF LessonMatchesDecision, Presented
  <2> DEFINE e == ShownOf(s).evaluation_result
             decision == DecisionShown(page[s])
             status == e.kernel_evaluation_status
  <2>1. decision = IF e.outcome.present THEN e.outcome.value
                   ELSE IF e.failure_reason.present THEN e.failure_reason.value
                   ELSE Undecided
    BY PresentedDecision DEF ShownOf
  <2>2. ResultTexts(ShownOf(s)) =
          IF ~status.applicable THEN {Text("generic_failure_intro")}
          ELSE IF status.present /\ status.value = "completed" THEN OutcomeCopy(e.outcome)
          ELSE {Text("governed_failure_intro")} \cup FailureReasonCopy(e.failure_reason)
    BY DEF ResultTexts
  <2>3. \/ (Completed(e) \/ Failed(e)) /\ status.applicable
        \/ Nothing(e)
    BY PresentedSection
  <2> HIDE DEF e, decision, status
  <2>4. CASE Completed(e) /\ status.applicable
    <3>1. decision = e.outcome.value /\ decision \in Outcomes /\ decision \notin FailureReasons
      BY <2>1, <2>4 DEF Completed, FailureReasons, Outcomes
    <3>2. ResultTexts(ShownOf(s)) = OutcomeCopy(e.outcome)
      BY <2>2, <2>4 DEF Completed, status
    <3>3. OutcomeCopy(e.outcome) = {[text |-> "outcome_copy", about |-> decision]}
      BY <2>4, <3>1, OutcomeLesson DEF Completed
    <3> QED
      BY <3>1, <3>2, <3>3 DEF decision
  <2>5. CASE Failed(e) /\ status.applicable
    <3>1. decision = e.failure_reason.value /\ decision \in FailureReasons /\ decision \notin Outcomes
      BY <2>1, <2>5 DEF Failed, FailureReasons, Outcomes
    <3>2. ResultTexts(ShownOf(s))
            = {Text("governed_failure_intro")} \cup FailureReasonCopy(e.failure_reason)
      BY <2>2, <2>5 DEF Failed, status
    <3>3. FailureReasonCopy(e.failure_reason) = {[text |-> "failure_reason_copy", about |-> decision]}
      BY <2>5, <3>1, FailureLesson DEF Failed
    <3>4. ResultTexts(ShownOf(s)) = {Text("governed_failure_intro"),
                                     [text |-> "failure_reason_copy", about |-> decision]}
      BY <3>2, <3>3
    <3> QED
      BY <3>1, <3>4 DEF decision
  <2>6. CASE Nothing(e)
    <3>1. decision = Undecided /\ decision \notin Outcomes /\ decision \notin FailureReasons
      BY <2>1, <2>6 DEF Nothing, Undecided, FailureReasons, Outcomes
    <3>2. ResultTexts(ShownOf(s)) = {Text("generic_failure_intro")}
      BY <2>2, <2>6 DEF Nothing, status
    <3> QED
      BY <3>1, <3>2 DEF decision
  <2> QED
    BY <2>3, <2>4, <2>5, <2>6
<1> QED
  BY <1>1, InvariantHolds, PTL

LEMMA AbsenceText ==
    ASSUME NEW shown, NEW name \in DOMAIN GuidedField
    PROVE  Text(name) \in AbsenceTexts(shown) <=> IsAbsent(Guidance(shown)[name])
<1>1. DOMAIN Guidance(shown) = DOMAIN GuidedField
  BY DEF Guidance, GuidedField
<1>2. \A n : Text(n) = Text(name) => n = name
  BY DEF Text
<1> QED
  BY <1>1, <1>2 DEF AbsenceTexts

(* Guidance about a missing field is about what the reply left out.        *)
THEOREM AbsencesHold == Spec => []AbsenceIsTheReplys
<1>1. IInv => AbsenceIsTheReplys
  <2> SUFFICES ASSUME IInv, NEW s \in Submissions, page[s].view = "presentation",
                      NEW name \in DOMAIN GuidedField
               PROVE  Text(name) \in AbsenceTexts(ShownOf(s)) <=>
                        /\ page[s].result.status \in GovernedStatuses
                        /\ Missing(BodyOf(received[s].reply)[GuidedField[name]])
    BY DEF AbsenceIsTheReplys, Presented
  <2> DEFINE r == page[s].result
             body == BodyOf(received[s].reply)
             item == Guidance(ShownOf(s))[name]
             field == GuidedField[name]
  <2>1. field \in GovernedFields \ {"correlation_id"}
    BY DEF GuidedField, GovernedFields, OptionalTexts
  <2>2. item = Evidence(r.response[field], IsGoverned(r))
    <3>1. /\ ShownOf(s).evaluation_result = EvaluationResult(r)
          /\ ShownOf(s).policy_bundle = PolicyBundle(r)
          /\ ShownOf(s).evidence = EvidenceSection(r)
      BY PresentationParts DEF ShownOf
    <3>2. /\ EvaluationResult(r).explanation = Evidence(r.response["explanation"], IsGoverned(r))
          /\ EvaluationResult(r).reason_code = Evidence(r.response["reason_code"], IsGoverned(r))
          /\ PolicyBundle(r).bundle_id = Evidence(r.response["bundle_id"], IsGoverned(r))
          /\ EvidenceSection(r).trace_id = Evidence(r.response["trace_id"], IsGoverned(r))
      BY EvaluationItems, OtherItems
    <3> HIDE DEF r
    <3> QED
      BY <3>1, <3>2 DEF Guidance, GuidedField
  <2>3. IsGoverned(r) \in BOOLEAN
    BY DEF IsGoverned
  <2>4. Text(name) \in AbsenceTexts(ShownOf(s)) <=> IsAbsent(item)
    BY AbsenceText
  <2>5. item.applicable = IsGoverned(r) /\ (item.present <=> IsGoverned(r) /\ r.response[field] # Null)
    <3> HIDE DEF item, field, r
    <3> QED
      BY <2>2, <2>3, EvidenceValue
  <2>6. r.status \in GovernedStatuses <=> IsGoverned(r)
    BY PresentedSection
  <2>7. IsGoverned(r) => (r.response[field] = Null <=> Missing(body[field]))
    <3> HAVE IsGoverned(r)
    <3>1. GovernedReading(received[s].reply, r)
      BY PresentedReading DEF IsGoverned, UngovernedReading
    <3>2. r.response[field] = OrNull(body[field])
      BY <2>1, <3>1, GovernedResponse
    <3> HIDE DEF r, body, field
    <3> QED
      BY <3>2 DEF OrNull, Missing
  <2> HIDE DEF r, body, item, field
  <2>8. IsAbsent(item) <=> r.status \in GovernedStatuses /\ Missing(body[field])
    BY <2>5, <2>6, <2>7 DEF IsAbsent
  <2> QED
    BY <2>4, <2>8 DEF r, body, item, field
<1> QED
  BY <1>1, InvariantHolds, PTL

----------------------------------------------------------------------------
(* From the form to the wire.                                              *)

(* What a page made of an answered call displays is the built request.     *)
LEMMA CalledPagesShowTheRequest ==
    ASSUME IInv, NEW s \in Submissions, stage[s] = "done", CallsGateway(form[s], client),
           page[s].view # "server_error"
    PROVE  page[s].request = Built(form[s]).request
<1>1. \A legacy, result :
         LET shown == ResultPage(form[s], legacy, result)
         IN  shown.view # "server_error" => shown.request = Built(form[s]).request
  BY DEF ResultPage, ServerError, NoPage
<1>2. CASE received[s].origin = "nobody"
  <2>1. PICK failure \in TransportFailures : page[s] = FailurePage(form[s], failure)
    BY <1>2 DEF IInv, Provenance
  <2> QED
    BY <1>1, <2>1 DEF FailurePage
<1>3. CASE received[s].origin # "nobody"
  <2>1. page[s] = ReplyPage(form[s], received[s].reply)
    BY <1>3 DEF IInv, Provenance
  <2> QED
    BY <1>1, <2>1 DEF ReplyPage, ServerError, NoPage
<1> QED
  BY <1>2, <1>3

(* The request that left is the request the page shows.                    *)
THEOREM WireHolds == Spec => []WireIsWhatThePageShows
<1>1. IInv => WireIsWhatThePageShows
  <2> SUFFICES ASSUME IInv, NEW s \in Submissions, stage[s] = "done",
                      page[s].view # "server_error", NEW i \in DOMAIN sent[s]
               PROVE  sent[s][i] = page[s].request
    BY DEF WireIsWhatThePageShows
  <2>1. sent[s] = IF CallsGateway(form[s], client) THEN <<WireBody(form[s])>> ELSE <<>>
    BY DEF IInv, OneCallPerSubmission
  <2>2. CallsGateway(form[s], client)
    BY <2>1
  <2>3. sent[s][i] = WireBody(form[s])
    BY <2>1, <2>2
  <2>4. Built(form[s]).ok /\ Endpoint(form[s]) # "none"
    BY <2>2 DEF CallsGateway
  <2> QED
    BY <2>2, <2>3, <2>4, WireBodyIsTheRequest, CalledPagesShowTheRequest
<1> QED
  BY <1>1, InvariantHolds, PTL

(* The request that left has the shape both endpoints accept, however the  *)
(* form was filled in and however long its context block is.               *)
THEOREM WireShapeHolds == Spec => []WireShape
<1>1. IInv => WireShape
  <2> SUFFICES ASSUME IInv, NEW s \in Submissions, NEW i \in DOMAIN sent[s]
               PROVE  LET body == sent[s][i] IN
                      /\ body.action \in ACTION_VERBS
                      /\ body.resource_type \in RESOURCE_TYPES
                      /\ body.resource_id \notin UnsafeTexts \cup LongTexts \cup TypedTexts \cup {""}
                      /\ Cardinality(body.context) <= MAX_CONTEXT_ENTRIES
                      /\ Cardinality(Keys(body.context)) = Cardinality(body.context)
                      /\ Endpoint(form[s]) = "operation_aware" => body.context = {}
                      /\ Endpoint(form[s]) = "legacy" => body.request_id = Absent
    BY DEF WireShape
  <2> DEFINE f == form[s]
             body == Built(f).request
  <2>1. sent[s] = IF stage[s] \in {"waiting", "done"} /\ CallsGateway(f, client)
                  THEN <<WireBody(f)>> ELSE <<>>
    BY DEF IInv, OneCallPerSubmission
  <2>2. CallsGateway(f, client) /\ sent[s][i] = WireBody(f)
    BY <2>1
  <2>3. Built(f).ok /\ Endpoint(f) # "none"
    BY <2>2 DEF CallsGateway
  <2>4. sent[s][i] = body
    BY <2>2, <2>3, WireBodyIsTheRequest
  <2>5. f \in Forms
    BY DEF IInv, TypeOK
  <2>6. /\ Cardinality(body.context) <= MAX_CONTEXT_ENTRIES
        /\ Cardinality(Keys(body.context)) = Cardinality(body.context)
    BY <2>3, <2>5, FormAssumption, AcceptedContext
  <2> HIDE DEF body, f
  <2>7. /\ f.action_verb \in ACTION_VERBS /\ body.action = f.action_verb
        /\ f.resource_type \in RESOURCE_TYPES /\ body.resource_type = f.resource_type
        /\ f.resource_id \notin LongTexts \cup UnsafeTexts \cup TypedTexts
        /\ body.resource_id = OrAbsent(f.resource_id)
        /\ Endpoint(f) = "legacy" => body.request_id = Absent
        /\ Endpoint(f) = "operation_aware" => body.context = {}
    BY <2>3, AcceptedForm DEF body
  <2>8. body.resource_id \notin UnsafeTexts \cup LongTexts \cup TypedTexts \cup {""}
    <3>1. Absent \notin UnsafeTexts \cup LongTexts \cup TypedTexts
      BY VocabularyAssumption, Zenon
    <3>2. Absent # ""
      BY Zenon DEF Absent
    <3> QED BY <2>7, <3>1, <3>2, Zenon DEF OrAbsent
  <2> QED BY <2>4, <2>6, <2>7, <2>8 DEF f
<1> QED
  BY <1>1, InvariantHolds, PTL

(* No line of an accepted context block is lost, however long the block.   *)
THEOREM ContextHolds == Spec => []ContextLossless
<1>1. IInv => ContextLossless
  <2> SUFFICES ASSUME IInv, NEW s \in Submissions, page[s].view \in {"preview", "evaluation"}
               PROVE  {<<line.key, line.value>> : line \in
                          {form[s].context[i] : i \in {j \in DOMAIN form[s].context :
                                                         form[s].context[j].form # "blank"}}}
                      = page[s].request.context
    BY DEF ContextLossless
  <2> DEFINE f == form[s]
             lines == f.context
  <2>1. stage[s] = "done"
    <3>1. stage[s] # "done" => page[s].view = "none"
      BY DEF IInv, Provenance, NoPage
    <3> QED BY <3>1
  <2>2. Built(f).ok /\ Endpoint(f) # "none" /\ page[s].request = Built(f).request
    <3>1. CASE CallsGateway(f, client)
      <4>1. Built(f).ok /\ Endpoint(f) # "none"
        BY <3>1 DEF CallsGateway
      <4> QED BY <2>1, <3>1, <4>1, CalledPagesShowTheRequest
    <3>2. CASE ~CallsGateway(f, client)
      <4>1. page[s] = LocalPage(f, client)
        BY <2>1, <3>2 DEF IInv, Provenance
      <4>2. LocalView(f, client) \in {"preview", "evaluation"}
        BY <4>1 DEF LocalPage
      <4>3. LocalView(f, client) = "preview" /\ Built(f).ok /\ Endpoint(f) # "none"
        BY <4>2 DEF LocalView, Gate
      <4>4. page[s].request = Built(f).request
        BY <4>1, <4>3 DEF LocalPage
      <4> QED BY <4>3, <4>4
    <3> QED BY <3>1, <3>2
  <2>3. f \in Forms
    BY DEF IInv, TypeOK
  <2>4. DOMAIN lines = 1..Len(lines)
    BY <2>3, FormAssumption
  <2>5. page[s].request.context = EntriesTo(lines, Len(lines))
    BY <2>2, <2>3, FormAssumption, AcceptedContext
  <2> HIDE DEF lines
  <2>6. EntriesTo(lines, Len(lines)) =
           {<<line.key, line.value>> : line \in
               {lines[i] : i \in {j \in DOMAIN lines : lines[j].form # "blank"}}}
    BY <2>4 DEF EntriesTo
  <2> QED BY <2>5, <2>6 DEF lines
<1> QED
  BY <1>1, InvariantHolds, PTL

(* The preview lesson stands on previews only, and is true of them.        *)
THEOREM PreviewLessonHolds == Spec => []PreviewLessonIsTrue
<1>1. IInv => PreviewLessonIsTrue
  <2> SUFFICES ASSUME IInv, NEW s \in Submissions, stage[s] = "done"
               PROVE  LET lesson == Text("preview_education_points") \in Taught(form[s], page[s]) IN
                      /\ lesson <=> page[s].view = "preview" /\ Endpoint(form[s]) = "operation_aware"
                      /\ lesson => /\ page[s].request = WireBody(form[s])
                                   /\ sent[s] = <<>>
                                   /\ kernel[s] = Undecided
    BY DEF PreviewLessonIsTrue
  <2> DEFINE lesson == Text("preview_education_points") \in Taught(form[s], page[s])
  <2>1. lesson <=> PreviewOnly(form[s])
    <3>1. \A shown : Text("preview_education_points") \notin TrainingTexts(shown)
      BY DEF TrainingTexts, ResultTexts, AbsenceTexts, Guidance, OutcomeCopy, FailureReasonCopy, Text
    <3> QED
      BY <3>1 DEF Taught
  <2>2. CASE CallsGateway(form[s], client)
    <3>1. ~PreviewOnly(form[s])
      BY <2>2 DEF CallsGateway, PreviewOnly
    <3>2. page[s].view # "preview"
      <4>1. \A legacy, result : ResultPage(form[s], legacy, result).view # "preview"
        BY DEF ResultPage, ServerError, NoPage
      <4>2. \A failure : FailurePage(form[s], failure).view # "preview"
        BY <4>1 DEF FailurePage
      <4>3. \A reply : ReplyPage(form[s], reply).view # "preview"
        BY <4>1 DEF ReplyPage, ServerError, NoPage
      <4> QED
        BY <2>2, <4>2, <4>3 DEF IInv, Provenance
    <3> QED
      BY <2>1, <3>1, <3>2
  <2>3. CASE ~CallsGateway(form[s], client)
    <3>1. page[s] = LocalPage(form[s], client) /\ sent[s] = <<>>
      BY <2>3 DEF IInv, Provenance, OneCallPerSubmission
    <3>2. kernel[s] = Undecided
      BY <3>1 DEF IInv, Provenance
    <3>3. page[s].view = LocalView(form[s], client)
      BY <3>1 DEF LocalPage
    <3>4. LocalView(form[s], client) = "preview"
            <=> /\ Decodable(form[s]) /\ Endpoint(form[s]) # "none"
                /\ Built(form[s]).ok /\ form[s].mode # "gateway"
      BY DEF LocalView, Gate
    <3>5. PreviewOnly(form[s])
            <=> page[s].view = "preview" /\ Endpoint(form[s]) = "operation_aware"
      BY <3>3, <3>4 DEF PreviewOnly
    <3>6. PreviewOnly(form[s]) => page[s].request = Built(form[s]).request
      BY <3>1, <3>3, <3>5 DEF LocalPage
    <3>7. PreviewOnly(form[s]) => Built(form[s]).request = WireBody(form[s])
      BY WireBodyIsTheRequest DEF PreviewOnly
    <3> HIDE DEF lesson
    <3>8. /\ lesson <=> page[s].view = "preview" /\ Endpoint(form[s]) = "operation_aware"
          /\ lesson => page[s].request = WireBody(form[s])
      BY <2>1, <3>5, <3>6, <3>7
    <3> QED
      BY <3>1, <3>2, <3>8 DEF lesson
  <2> QED
    BY <2>2, <2>3
<1> QED
  BY <1>1, InvariantHolds, PTL

----------------------------------------------------------------------------
(* A page of the operation-aware panel tells of a decision, of a failure,  *)
(* of a raw reply or of no reply, never of two of them and never of none.  *)
THEOREM OneStoryHolds == Spec => []OneStoryPerPage
<1>1. IInv => OneStoryPerPage
  <2> SUFFICES ASSUME IInv, NEW s \in Submissions, page[s].view = "presentation"
               PROVE  LET shown == ShownOf(s)
                          told == [decision |-> shown.evaluation_result.outcome.present,
                                   failure  |-> shown.evaluation_result.failure_reason.present,
                                   raw      |-> shown.transport.diagnostics,
                                   no_reply |-> shown.transport.http_status = NoCode]
                      IN  Cardinality({story \in DOMAIN told : told[story]}) = 1
    BY DEF OneStoryPerPage, Presented
  <2> DEFINE r == page[s].result
             e == ShownOf(s).evaluation_result
             transport == ShownOf(s).transport
             told == [decision |-> e.outcome.present,
                      failure  |-> e.failure_reason.present,
                      raw      |-> transport.diagnostics,
                      no_reply |-> transport.http_status = NoCode]
             stories == {story \in {"decision", "failure", "raw", "no_reply"} : told[story]}
  <2>1. /\ transport.diagnostics <=> ~IsGoverned(r) /\ (r.response_json \/ r.headers)
        /\ transport.http_status = r.http_status
    <3>1. transport = Transport(r)
      BY PresentationParts DEF ShownOf
    <3> QED
      BY <3>1, OtherItems
  <2>2. \/ ~r.response_json /\ ~r.headers /\ r.http_status = NoCode /\ ~IsGoverned(r)
        \/ r.headers /\ r.http_status # NoCode
    <3>1. CASE NoReading(r)
      BY <3>1 DEF NoReading, IsGoverned
    <3>2. CASE /\ r = InterpretOperationAware(received[s].reply)
               /\ received[s].reply.code # NoCode
      BY <3>2, ReadingOfAReply
    <3> QED
      BY <3>1, <3>2, PresentedPages
  <2>3. \/ (Completed(e) \/ Failed(e)) /\ IsGoverned(r)
        \/ Nothing(e) /\ ~IsGoverned(r)
    BY PresentedSection
  <2> HIDE DEF r, e, transport
  <2>4. /\ told["decision"] <=> e.outcome.present
        /\ told["failure"] <=> e.failure_reason.present
        /\ told["raw"] <=> transport.diagnostics
        /\ told["no_reply"] <=> transport.http_status = NoCode
    OBVIOUS
  <2> HIDE DEF told
  <2>5. \E story : stories = {story}
    <3>1. CASE Completed(e) /\ IsGoverned(r)
      <4>1. told["decision"] /\ ~told["failure"] /\ ~told["raw"] /\ ~told["no_reply"]
        BY <2>1, <2>2, <2>4, <3>1 DEF Completed
      <4>2. stories = {"decision"}
        BY <4>1
      <4> QED
        BY <4>2
    <3>2. CASE Failed(e) /\ IsGoverned(r)
      <4>1. ~told["decision"] /\ told["failure"] /\ ~told["raw"] /\ ~told["no_reply"]
        BY <2>1, <2>2, <2>4, <3>2 DEF Failed
      <4>2. stories = {"failure"}
        BY <4>1
      <4> QED
        BY <4>2
    <3>3. CASE Nothing(e) /\ ~IsGoverned(r)
      <4>1. ~told["decision"] /\ ~told["failure"] /\ (told["raw"] <=> ~told["no_reply"])
        BY <2>1, <2>2, <2>4, <3>3 DEF Nothing
      <4>2. stories = {"raw"} \/ stories = {"no_reply"}
        BY <4>1
      <4> QED
        BY <4>2
    <3> QED
      BY <2>3, <3>1, <3>2, <3>3
  <2>6. Cardinality(stories) = 1
    BY <2>5, FS_Singleton
  <2> QED
    BY <2>6 DEF told, e, transport
<1> QED
  BY <1>1, InvariantHolds, PTL

=============================================================================
