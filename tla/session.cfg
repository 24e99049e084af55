SPECIFICATION Spec
CONSTANTS
    ACTION_VERBS <- MC_ACTION_VERBS
    RESOURCE_TYPES <- MC_RESOURCE_TYPES
    LongTexts <- MC_LongTexts
    UnsafeTexts <- MC_UnsafeTexts
    UnsafeValues <- MC_UnsafeValues
    NonSlugTexts <- MC_NonSlugTexts
    TypedTexts <- MC_TypedTexts
    MAX_CONTEXT_ENTRIES = 2
    Clients <- TwoClients
    Scenarios <- SampleScenarios
    Inputs <- TypedInputs
    Replies <- SessionReplies
    JsonValues <- MC_JsonValues
    SensitiveKeys <- MC_SensitiveKeys
    MaxNesting = 4
INVARIANT TypeOK
INVARIANT ErrorsCanBeFixed
INVARIANT RawIsTheReplyRedacted
PROPERTY PreviewIsKept
PROPERTY ScriptKeepsLegacyFieldsBack
PROPERTY ExamplesAreAccepted
