\* good and fine are valid; bad is an object that fails its check and junk
\* bytes that do not decode.
SPECIFICATION FairSpec
CONSTANTS
    Proc = {p1}
    Response = {good, fine, bad, junk}
    Valid = {good, fine}
    Limit = 3
    None = None
    Original = Original
INVARIANTS
    RecordsAgree
PROPERTIES
    RecordsMoveForward
    KeepsPromise
    AnswersAreRecovered
