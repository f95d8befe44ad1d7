\* Two valid answers that differ and one invalid answer.
SPECIFICATION Spec
CONSTANTS
    Proc = {p1, p2}
    Response = {good, fine, bad}
    Valid = {good, fine}
    Limit = 3
    None = None
    Original = Original
INVARIANTS
    DirectoryHolds
