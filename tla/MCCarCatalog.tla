---- MODULE MCCarCatalog ----
(* CarCatalog on top of cars of the test data. *)
EXTENDS CarCatalog, TLC

CONSTANTS w1, w2, id1, id2, id3

SeedCar(n, created) ==
    [vin |-> n, plate |-> n, class |-> "suv", available |-> TRUE, created |-> created]

OneCar == id1 :> SeedCar(1, 1)

\* Two cars that differ, and one that has the VIN of one and the plate of the other.
CrossedOffers == {<<2, 2>>, <<3, 3>>, <<2, 3>>}

\* No parameter, the largest page, and more than that.
SomeLimits == {None, 2, 3}

\* No parameter, and what is no number.
SomeOffsets == {None, Garbled}

Symmetry == Permutations({id2, id3}) \cup Permutations(Workers)

====
