SPECIFICATION Spec
CONSTANTS
    ACTION_VERBS <- MC_ACTION_VERBS
    RESOURCE_TYPES <- MC_RESOURCE_TYPES
    LongTexts <- MC_LongTexts
    UnsafeTexts <- MC_UnsafeTexts
    UnsafeValues <- MC_UnsafeValues
    NonSlugTexts <- MC_NonSlugTexts
    TypedTexts <- MC_TypedTexts
    MAX_CONTEXT_ENTRIES = 2
    Submissions = {"s1"}
    Probes = {}
    Forms <- AllForms
    Clients <- AllClients
    KernelDecisions <- OneDecision
    ForeignReplies <- SpoiledPages
    DribblingPeers = FALSE
INVARIANT WireIsWhatThePageShows
INVARIANT WireShape
INVARIANT ContextLossless
INVARIANT CalledGatewayIsTrue
INVARIANT PreviewLessonIsTrue
