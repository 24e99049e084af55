SPECIFICATION Spec
CONSTANTS
    Requests = {"q1", "q2"}
    Reports <- MC_Reports
    Viewers = {"page"}
    Lifespans = 2
INVARIANT TypeOK
 
INVARIANT UnreadyHasReason
INVARIANT ReadyBodyIsReady
INVARIANT PageIsOfOneStartup
