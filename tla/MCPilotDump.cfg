SPECIFICATION MCSpec
CONSTANTS
    MIN_SEQ_0 = 1
    seq_0 = 2
    round_0 = 0
    total_rounds = 2
    None = None
    Verified <- MCVerified
    Drafts <- MCDrafts
INVARIANTS
    DumpLosesNothing
