---------------------------- MODULE StatusPages ----------------------------
(***************************************************************************)
(* What the pages that name the gateway's connection state promise,        *)
(* without clients, bodies or the two functions that compute the state: a  *)
(* page is written once; it names the state that the glossary (diagnostics *)
(* .py, _STATE_GUIDE) gives to the two endpoints, each as it was at some   *)
(* moment while the page was made, /health no later than /ready.  What the *)
(* endpoints were before or after does not matter, nor do other pages.     *)
(***************************************************************************)
CONSTANT Viewers

VARIABLES address,  \* the base URL: missing, refused by httpx, or usable
          gateway,  \* the condition of each endpoint
          glimpse,  \* what an unfinished page saw of /health
          page      \* the state a page names

vars == <<address, gateway, glimpse, page>>

Addresses == {"missing", "refused", "usable"}
Conditions == {"silent", "failing", "fine"}
Unseen == "unseen"
Blank == "none"

(* The glossary.  For an address httpx refuses it has no entry: such a     *)
(* gateway is in error or unreachable, each page as it likes.              *)
Names(health, ready) ==
    CASE address = "missing" -> {"not_configured"}
      [] address = "refused" -> {"unreachable", "error"}
      [] address = "usable" /\ health = "silent"  -> {"unreachable"}
      [] address = "usable" /\ health = "failing" -> {"error"}
      [] address = "usable" /\ health = "fine"    -> {IF ready = "fine" THEN "ready" ELSE "reachable"}

Init ==
    /\ address \in Addresses
    /\ gateway \in [{"health", "ready"} -> Conditions]
    /\ glimpse = [v \in Viewers |-> Unseen]
    /\ page = [v \in Viewers |-> Blank]

GatewayChanges ==
    /\ gateway' \in [{"health", "ready"} -> Conditions]
    /\ UNCHANGED <<address, glimpse, page>>

(* /health is seen, and remembered until the page is written.              *)
Look(v) ==
    /\ address # "missing"
    /\ page[v] = Blank /\ glimpse[v] = Unseen
    /\ glimpse' = [glimpse EXCEPT ![v] = gateway["health"]]
    /\ UNCHANGED <<address, gateway, page>>

(* A page that needs nothing of /ready: without it the state is settled.   *)
NameAtOnce(v) ==
    /\ page[v] = Blank /\ glimpse[v] = Unseen
    /\ address = "usable" => gateway["health"] # "fine"
    /\ \E state \in Names(gateway["health"], gateway["ready"]) :
          page' = [page EXCEPT ![v] = state]
    /\ UNCHANGED <<address, gateway, glimpse>>

(* The page is written from what was seen and from what /ready says now.   *)
NameAfterReady(v) ==
    /\ page[v] = Blank /\ glimpse[v] # Unseen
    /\ \E state \in Names(glimpse[v], gateway["ready"]) :
          page' = [page EXCEPT ![v] = state]
    /\ glimpse' = [glimpse EXCEPT ![v] = Unseen]
    /\ UNCHANGED <<address, gateway>>

Next == GatewayChanges \/ \E v \in Viewers : Look(v) \/ NameAtOnce(v) \/ NameAfterReady(v)

Spec == Init /\ [][Next]_vars

=============================================================================
