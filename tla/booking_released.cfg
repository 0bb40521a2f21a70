\* One worker completes one of two rentals of a car.
CONSTANTS
    w1 = w1  w2 = w2  u1 = u1  c1 = c1  c2 = c2  r0 = r0  r1 = r1  r2 = r2
    noId = noId  none = none
    Workers = {w1}
    Users = {u1}
    Cars = {c1}
    UnknownId = noId
    RentalIds = {r0, r1, r2}
    Loaded <- LoadedActive
    Listed = {c1}
    Instants = {0, 1, 2}
    TicksPerMs = 1
    Operations = {"create", "complete"}
    Faulty = FALSE
    None = none
SPECIFICATION SafetySpec
INVARIANT AvailableHasNoActiveRental
