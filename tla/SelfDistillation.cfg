SPECIFICATION Spec
CONSTANTS
    NumPrompts = 2
    RolloutN = 2
    NumWorkers = 2
    Modules = {"math", "llm"}
    Timeouts = TRUE
    Raises = TRUE
    Configs <- MCAllConfigs
INVARIANTS DemonstrationFits FeedbackAboutOwnAnswer MaskTellsReprompted AdvantageWithinPrompt
\* A step whose scorers return different keys fails.
CHECK_DEADLOCK FALSE
