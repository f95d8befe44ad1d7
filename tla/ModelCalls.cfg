SPECIFICATION RunsSpec
CONSTANTS
    Proc = {p1, p2}
    Request = {r1, r2}
    None = None
    Candidates = 2
    MaxWanting = 1
    Batches = 2
    MaxStops = 2
INVARIANTS
    CallIsBacked
    LoopsHold
PROPERTIES
    EndedRunsStay
    RunsSettle
