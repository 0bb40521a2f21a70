\* A client creates a car while the database may fail.
CONSTANTS
    w1 = w1
    w2 = w2
    id1 = id1
    id2 = id2
    id3 = id3
    None = none
    Workers = {w1}
    CarIds = {id1, id2, id3}
    Vins = {1, 2, 3}
    Plates = {1, 2, 3}
    Offers <- CrossedOffers
    Classes = {"suv"}
    Stamps = {1}
    Seed <- OneCar
    DefaultLimit = 1
    MaxLimit = 2
    RawLimits = {}
    RawOffsets = {}
    Garbled = garbled
    MaxHides = 1
    Listings = {}
    Faulty = TRUE
SPECIFICATION Spec
INVARIANT ConflictMeansDuplicate
