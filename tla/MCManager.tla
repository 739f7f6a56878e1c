----------------------------- MODULE MCManager -----------------------------
EXTENDS Manager

Way(refs, highway, oneway, speed) == [refs |-> refs, highway |-> highway, oneway |-> oneway, speed |-> speed]

\* A ring with a bend in one street, a one-way street in it and one that leads
\* away from it to a dead end, whose number in the file is among the others.
RingAt == 1 :> 0 @@ 2 :> 20 @@ 3 :> 10 @@ 5 :> 60 @@ 6 :> 50 @@ 7 :> 40
Ring == [order |-> <<1, 5, 3, 2, 6, 7>>, at |-> RingAt,
         ways |-> <<Way(<<1, 2, 3>>, "residential", FALSE, 18), Way(<<3, 6>>, "residential", TRUE, 36),
                    Way(<<6, 7, 1>>, "primary", FALSE, 36), Way(<<7, 5>>, "trunk", FALSE, 36),
                    Way(<<5, 1>>, "footway", FALSE, 18)>>]

\* Two parts, the smaller one first, and a street of 300 metres in the other.
PartsAt == 1 :> 0 @@ 3 :> 10 @@ 4 :> 310 @@ 8 :> 400 @@ 9 :> 420
Parts == [order |-> <<8, 9, 1, 3, 4>>, at |-> PartsAt,
          ways |-> <<Way(<<8, 9>>, "primary", FALSE, 36), Way(<<1, 3, 4>>, "primary", FALSE, 36),
                     Way(<<3, 1>>, "residential", TRUE, 36), Way(<<3, 8>>, "residential", TRUE, 36)>>]

Timetable == [stops |-> <<9, 12, 95, 52>>, connections |-> <<[a |-> 1, b |-> 2], [a |-> 2, b |-> 1]>>, schedule |-> <<<<[departure |-> 8, arrival |-> 9, trip |-> 1], [departure |-> 10, arrival |-> 12, trip |-> 2]>>, <<>>>>]

MCExtracts == "ring" :> [osm |-> Ring, timetable |-> Timetable] @@ "parts" :> [osm |-> Parts, timetable |-> Timetable]

Profile(type, vehicle, metric, prep) == [type |-> type, vehicle |-> vehicle, metric |-> metric, prep |-> prep]
MCConfigs ==
  {[build |-> FALSE, source |-> "ring",
    profiles |-> "car" :> Profile("driving", "car", "fastest", "contraction") @@ "foot" :> Profile("walking", "foot", "fastest", "none")],
   [build |-> TRUE, source |-> "parts",
    profiles |-> "car" :> Profile("driving", "car", "shortest", "overlay") @@ "bike" :> Profile("cycling", "bike", "fastest", "none")],
   [build |-> TRUE, source |-> "ring",
    profiles |-> "bus" :> Profile("transit", "foot", "fastest", "none") @@ "car" :> Profile("driving", "truck", "shortest", "contraction")],
   [build |-> TRUE, source |-> "ring",
    profiles |-> "tram" :> Profile("transit", "car", "fastest", "none") @@ "car" :> Profile("driving", "car", "shortest", "none")],
   [build |-> TRUE, source |-> "parts",
    profiles |-> "bus" :> Profile("transit", "bike", "fastest", "none")]}
=============================================================================
