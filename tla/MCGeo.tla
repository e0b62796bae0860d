------------------------------- MODULE MCGeo -------------------------------
(* A small globe for TLC: a quarter turn is eight units, a cell is four.   *)
EXTENDS Geo

P(lat, lon) == [lat |-> lat, lon |-> lon]

\* A loop by the antimeridian; a ride across it, past its finish and back; one
\* that stands still; one without a polyline, and one whose polyline is broken.
MCRidden ==
  [loop |-> <<P(0, 11), P(0, 16), P(5, 16), P(5, 11), P(0, 11)>>,
   past |-> <<P(0, 9), P(0, -8), P(0, -9)>>,
   still |-> <<P(0, 4)>>, indoor |-> <<>>, broken |-> <<>>]
MCRides == DOMAIN MCRidden

\* The encoder of the format.
Zigzag(v) == IF v < 0 THEN -2 * v - 1 ELSE 2 * v
Encode(v) ==
  LET bits == Zigzag(v)
  IN  IF bits < 32 THEN <<bits + 63>> ELSE <<(bits % 32) + 95, (bits \div 32) + 63>>
EncodeTrack(track) ==
  FlattenSeq([i \in DOMAIN track |->
    IF i = 1 THEN Encode(track[1].lat) \o Encode(track[1].lon)
    ELSE Encode(track[i].lat - track[i - 1].lat) \o Encode(track[i].lon - track[i - 1].lon)])

\* The broken one ends within a value.
MCEncoded ==
  [r \in MCRides |-> IF r = "broken" THEN <<63, 63, 100>> ELSE EncodeTrack(MCRidden[r])]

\* By the antimeridian a village of a town; north of it a river and a
\* city district of one name in two spellings; a lake that nothing is known of; and
\* a cafe elsewhere.
MCReport(zoom, cell) ==
  LET base == [address |-> [county |-> "Au"], country |-> "DE",
               feature |-> <<"amenity", "cafe">>, name |-> "Kiosk", error |-> FALSE]
  IN  CASE cell = P(0, 4) ->
             [base EXCEPT !.address = [village |-> "Au", town |-> "Ort", state |-> "BY"]]
        [] cell = P(1, 4) -> [base EXCEPT !.address = [city_district |-> "a.d.Ort"]]
        [] cell = P(1, 3) -> [base EXCEPT !.feature = <<"waterway", "river">>,
                                              !.name = "a. d. Ort"]
        [] cell = P(0, -3) -> [base EXCEPT !.error = TRUE]
        [] OTHER -> base
MCNormal(name) == IF name = "a.d.Ort" THEN "a. d. Ort" ELSE name

MCAddress == <<"village", "hamlet", "town", "city_district">>
MCKinds ==
  [f \in Range(MCAddress) |-> IF f = "city_district" THEN "district" ELSE f]
MCFeatures ==
  <<"waterway", "river">> :> "river" @@ <<"natural", "wood">> :> "wood"
MCDefaultOrder == <<"hamlet", "village">>
MCRegions == <<"state">>

\* The default, towns first, and one that is refused.
Fine == [zoom |-> 0, order |-> <<>>, base |-> "osm"]
TownsFirst == [zoom |-> 16, order |-> <<"town">>, base |-> "osm"]
Twice == [zoom |-> 16, order |-> <<"town", "town">>, base |-> "osm"]
MCConfigs == {Fine, TownsFirst, Twice}

\* An earlier release listed cafes.
MCEarlier ==
  <<Scope(Fine), P(0, -3)>> :>
    [name |-> "Kiosk", kind |-> "cafe", region |-> "", country |-> "DE"]
=============================================================================
