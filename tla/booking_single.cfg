\* One worker, no failures, and a client that queries; dates with a fraction of a ms.
CONSTANTS
    w1 = w1  u1 = u1  c1 = c1  r0 = r0  r1 = r1  r2 = r2
    noId = noId  none = none
    Workers = {w1}
    Users = {u1}
    Cars = {c1}
    UnknownId = noId
    RentalIds = {r0, r1, r2}
    Loaded <- LoadedCancelled
    Listed = {c1}
    Instants = {0, 1, 2, 4}
    TicksPerMs = 2
    Operations = {"create", "complete"}
    Faulty = FALSE
    None = none
SPECIFICATION QuerySpec
SYMMETRY Symmetry
INVARIANTS
    NoDoubleBooking
    ListsMissNothing
    CompletedForGood
PROPERTY ImplementsLedger
