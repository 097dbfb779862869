\* Three deliveries, a store for two, five requests that overlap freely.
SPECIFICATION Spec
CONSTANTS
    d1 = d1
    d2 = d2
    d3 = d3
    Deliveries = {d1, d2, d3}
    MAX_SEEN_DELIVERIES = 2
    MaxRequests = 5
SYMMETRY Names
INVARIANTS
    TypeOK
    SeenIsAnLru
PROPERTIES
    RefusedLeavesNoTrace
    ProcessedOncePerWindow
