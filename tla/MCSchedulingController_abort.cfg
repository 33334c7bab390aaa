CONSTANTS
    num_blocks = 4
    Request <- MCRequest
    AgentType <- MCAgentType
    TypeOf <- MCTypeOf
    NumPromptTokens <- TightPrompt
    MaxTokens <- TightMaxTokens
    Sharing = {1, 2, 3}
    SharedTokens = 1
    Loading = {1}
    Abortable = {1}
    ReserveModes = {"all", "progress", "reclaim", "inputs"}
    Scores <- MCScores
    TypeScores <- MCTypeScores
    long_prefill_token_threshold = 1
    max_num_running_reqs = 3
    critical_ratio = 75
    reserve_ratio_min = 20
    reserve_ratio_max = 60
    reserve_adjustment_step = 20
    gpu_usage_low = 40
    gpu_usage_high = 75
    priority_borrow_score_margin = 2
    cache_affinity_score_band = 1
    AdjustmentWindow = 2
    PreemptionScoreBand = 1
SPECIFICATION Spec
INVARIANTS
    AdmissionCovers
