SPECIFICATION Spec
CONSTANTS
    j1 = j1
    j2 = j2
    j3 = j3
    x1 = x1
    v1 = v1
    Nobody = Nobody
    Listing <- ThreeJobs
    Own <- OneOwn
    Extension <- OneExtension
    Vault <- OneVault
    PageSize = 1
    MaxPages = 3
    Window = 2
    MaxTime = 4
    MaxClicks = 2
    MaxScans = 1
INVARIANTS
    CompleteScanCoversDays
    ApplicationMatchesTask
    VaultCoversQuietHistory
PROPERTY NegativeExcused
