SPECIFICATION Spec
CONSTANTS
    Proc = {p}
    Request = {composition}
    Flow = {}
    Temp = {t1, t2}
    None = None
INVARIANTS
    PublishedTrialIsReused
