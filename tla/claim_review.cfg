\* Every card within the bounds, and every edit of it.
SPECIFICATION SpecReview
CONSTANTS
    Cards <- MCCards
    Items <- MCItems
    Findings <- MCFindings
    Upgrades <- MCUpgrades
    MaxBlockers = 2
    MaxDebt = 1
INVARIANTS
    SupportedIsUnblocked
    NothingAboveTier
PROPERTIES
    DoubtNeverHelps
    EvidenceNeverHurts
