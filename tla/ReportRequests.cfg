SPECIFICATION Spec
CONSTANTS
    c1 = c1
    g1 = g1
    f1 = f1
    f2 = f2
    f3 = f3
    e1 = e1
    a1 = a1
    a2 = a2
    Cases = {c1}
    Generators = {g1}
    Finalizers = {f1, f2, f3}
    Exporters = {e1}
    Analyses = {a1, a2}
    Analysts = {f3}
    Formats = {"json", "txt"}
    Failing = {"bucket", "database", "ack", "crash"}
CHECK_DEADLOCK FALSE
SYMMETRY Interchangeable
INVARIANT TypeOK
INVARIANT ObjectsMatchRows
INVARIANT ExportsItsReport
INVARIANT TrailTellsReports
PROPERTY ImplementsArchive
