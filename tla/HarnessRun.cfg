\* A session with two helpers; three items, one exporter that may lose events.
CONSTANTS
    Session = Session
    Finalizer = Finalizer
    Nobody = Nobody
    Helpers = {h1, h2}
    Exporters = {atif, legacy}
    Lossy = {legacy}
    Events = {e1, e2, "thread.completed", "turn.failed", "thread.completed with an error"}
SPECIFICATION Spec
INVARIANTS
    TypeOK
    SuccessIsComplete
    ExportersFollow
    LastOwnerFinalizes
    ClosedSinkIsLeftAlone
    CompletedOnce
CHECK_DEADLOCK FALSE
