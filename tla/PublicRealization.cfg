SPECIFICATION RealizationSpec
CONSTANTS
    N = 2
    None = None
    Proc = {p, q}
    First = p
    Request = {flow, composition}
    Flow = {flow}
    Temp = {t1, t2}
INVARIANTS
    PhaseIsWhole
    RequestsStayApart
PROPERTIES
    KeepsPhasePromise
    PublishedIsFinal
    AcceptedRunsEnd
