\* Two clients create cars, with a stored one, while another client scans listings.
CONSTANTS
    w1 = w1
    w2 = w2
    id1 = id1
    id2 = id2
    id3 = id3
    None = none
    Garbled = garbled
    Workers = {w1, w2}
    CarIds = {id1, id2, id3}
    Vins = {1, 2, 3}
    Plates = {1, 2, 3}
    Offers <- CrossedOffers
    Classes = {"suv"}
    Stamps = {1, 2}
    Seed <- OneCar
    DefaultLimit = 1
    MaxLimit = 2
    RawLimits <- SomeLimits
    RawOffsets <- SomeOffsets
    MaxHides = 1
    Listings = {"suv", "available", "boat"}
    Faulty = TRUE
SPECIFICATION Spec
INVARIANTS
    TypeOK
    OkIsCatalogued
    CreatedForOneClient
    ScanMissesOnlyHidden
    TotalCoversPage
PROPERTY ImplementsRegistry
SYMMETRY Symmetry
