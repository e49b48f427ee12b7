\* Two nodes asking around window boundaries, with late and repeated deltas;
\* the larger request needs a fresh window.
CONSTANTS
    Nodes = {n1, n2}
    RequestsPerMinute = 2
    TokensPerMinute = 3
    Costs = {1, 3}
    Window = 2
    MaxCount = 1
    MaxDeltas = 1
SPECIFICATION LimiterFairSpec
INVARIANTS
    SpendIsBounded
PROPERTY Replenished
