\* Two articles of one domain.
SPECIFICATION Spec
CONSTANTS
    Records = {r1, r2}
    Domains = {d1}
    PerDomain = 2
INVARIANTS
    PartialResultsSaved
CHECK_DEADLOCK FALSE
