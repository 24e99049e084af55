SPECIFICATION Spec
CONSTANTS
    ACTION_VERBS <- MC_ACTION_VERBS
    RESOURCE_TYPES <- MC_RESOURCE_TYPES
    LongTexts <- MC_LongTexts
    UnsafeTexts <- MC_UnsafeTexts
    UnsafeValues <- MC_UnsafeValues
    NonSlugTexts <- MC_NonSlugTexts
    TypedTexts <- MC_TypedTexts
    MAX_CONTEXT_ENTRIES = 2
    Submissions = {"s1"}
    Probes = {}
    Forms <- GatewayForms
    Clients <- OneClient
    KernelDecisions <- OneDecision
    ForeignReplies <- SpoiledPages
    DribblingPeers = FALSE
INVARIANT MalformedJsonIsContractInvalid
