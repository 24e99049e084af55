-------------------------- MODULE MCGatewayProbes --------------------------
(***************************************************************************)
(* The answers of the gateway's operational endpoints: up and ready, up    *)
(* with a body that says otherwise, not ready with the components that are *)
(* missing, an error page of a proxy, and the two ways not to answer.      *)
(***************************************************************************)
EXTENDS GatewayProbes

Answer(code_, status_, components_) ==
    [failure |-> "none", code |-> code_, status |-> status_, components |-> components_]
NoAnswer(failure_) == [NotAsked EXCEPT !.failure = failure_]

EngineUp == [engine |-> TRUE, store |-> TRUE]
EngineDown == [engine |-> FALSE]

MC_Answers ==
    {Answer(200, "ready", EngineUp), Answer(200, "not_ready", EngineDown),
     Answer(503, "ready", EngineDown), Answer(502, Absent, <<>>),
     NoAnswer("timeout"), NoAnswer("contact")}

MC_CapabilityComponents == {"engine"}

=============================================================================
