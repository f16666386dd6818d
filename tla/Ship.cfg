CONSTANTS
    Operators = {a, b}
    a = a
    b = b
    Tags <- MCTags
    Prereleases = {2}
    CommitOf <- MCCommitOf
    Deployable = {1}
    Pushed <- MCPushed
    May <- MCMay
    Interrupted = {a}
    MaxJobs = 2
    MaxBuilds = 1
    MaxTokens = 2
    MaxAttempts = 2
SPECIFICATION Spec
INVARIANTS DeployedIsLive CredentialGoes StoredIsProven
PROPERTY InterruptEnds
CHECK_DEADLOCK FALSE
