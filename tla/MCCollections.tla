--------------------------- MODULE MCCollections ---------------------------
(***************************************************************************)
(* Instances of the structures of src/src/database, and of the commands on *)
(* values, in one run.  A behaviour uses one of them, and the state of the *)
(* others does not change.                                                 *)
(***************************************************************************)
EXTENDS Dict, SmartHash, SkipList, SharedLists, QuickList, Commands, GeoSet, Hll,
        Sds, Timed

CONSTANTS va, vb, Parts

\* The hashes of 1 and 4 are the same, and other keys meet in the smaller
\* tables.
MCHashOf == [k \in Keys |-> (k * 3) % 9]
MCShardOfKey == [k \in Keys |-> k % 2]

\* Numbers of each width, and numbers that a cast would take for one another
MCLimit == <<2, 4, 8>>
MCNumbers == {-8, -5, -3, 1, 3, 5}

\* Elements of one, two and three bytes.  The first two hold a byte like the
\* terminator; the lengths of the others take two bytes, and that of the last
\* begins with the terminator.
MCBytes == va :> <<3>> @@ vb :> <<0, 3>> @@ "long" :> <<0, 1, 0>>

\* A digit, and a character of two bytes
MCTexts == {<<1>>, <<Lead, Trail>>}
MCMinInt == -1

\* Units of 22.5 degrees.  Points on the 180th meridian, at a pole, near the
\* equator and outside the world; centres across that meridian from the first,
\* on the equator, and at latitudes where a degree is shorter
MCCosines == 0 :> 100 @@ 1 :> 92 @@ 2 :> 71 @@ 3 :> 38 @@ 4 :> 0
MCPlaces == {<<-8, 1>>, <<3, 4>>, <<1, -1>>, <<9, 0>>}
MCCentres == {<<8, 0>>, <<0, 0>>, <<2, -1>>, <<-4, 3>>}
MCRadiusSteps == <<<<4, 2>>, <<1, 3>>>>

\* Digits, signs, a letter, and one longer than the inline buffer
MCSdsPieces == {<<MinusSign>>, <<PlusSign, 1>>, <<Letter>>, <<1, 0, 0, 1>>}

VARIABLE part   \* the structure in use

Init ==
    /\ part \in Parts
    /\ DictInit /\ SmartHashInit /\ IntSetInit /\ SkipListInit /\ SharedInit
    /\ QuickListInit /\ ListPackInit /\ CommandsInit
    /\ GeoInit /\ HllInit /\ SdsInit /\ ExpireInit /\ StreamInit
    /\ part # "shared" => kind = "concurrent"
    /\ part # "geo" => gs = Loaded(<<>>)
    /\ part # "hll" => \A n \in Sketches : hll[n].threshold = Min(Thresholds)

mapsVars == <<dictVars, hashVars, intVars, skipVars>>
listsVars == <<quickVars, packVars>>
typesVars == <<geoVars, hllVars, sdsVars, expireVars, streamVars>>
restVars == <<sharedVars, listsVars, cmdVars, typesVars>>

NextMap ==
    /\ UNCHANGED restVars
    /\ \/ part = "dict" /\ DictNext /\ UNCHANGED <<hashVars, intVars, skipVars>>
       \/ part = "smarthash" /\ SmartHashNext /\ UNCHANGED <<dictVars, intVars, skipVars>>
       \/ part = "intset" /\ IntSetNext /\ UNCHANGED <<dictVars, hashVars, skipVars>>
       \/ part = "skiplist" /\ SkipListNext /\ UNCHANGED <<dictVars, hashVars, intVars>>

NextRest ==
    /\ UNCHANGED <<mapsVars, typesVars>>
    /\ \/ part = "shared" /\ SharedNext /\ UNCHANGED <<listsVars, cmdVars>>
       \/ part = "quicklist" /\ QuickListNext /\ UNCHANGED <<sharedVars, packVars, cmdVars>>
       \/ part = "listpack" /\ ListPackNext /\ UNCHANGED <<sharedVars, quickVars, cmdVars>>
       \/ part = "commands" /\ CommandsNext /\ UNCHANGED <<sharedVars, listsVars>>

NextType ==
    /\ UNCHANGED <<mapsVars, sharedVars, listsVars, cmdVars>>
    /\ \/ part = "geo" /\ GeoNext /\ UNCHANGED <<hllVars, sdsVars, expireVars, streamVars>>
       \/ part = "hll" /\ HllNext /\ UNCHANGED <<geoVars, sdsVars, expireVars, streamVars>>
       \/ part = "sds" /\ SdsNext /\ UNCHANGED <<geoVars, hllVars, expireVars, streamVars>>
       \/ part = "expire" /\ ExpireNext /\ UNCHANGED <<geoVars, hllVars, sdsVars, streamVars>>
       \/ part = "stream" /\ StreamNext /\ UNCHANGED <<geoVars, hllVars, sdsVars, expireVars>>

Next == UNCHANGED part /\ (NextMap \/ NextRest \/ NextType)

vars == <<part, mapsVars, restVars>>
Spec == Init /\ [][Next]_vars

\* The keys of the commands are interchangeable, and so are the fields.
Symmetry == Permutations(CmdKeys) \cup Permutations(Fields)

\* Whatever their representation and wherever a change of it stands, the
\* dictionary, the hash value, the integer set and the skip list act as a map,
\* the quick list and the list pack act as a list, and what they are made of
\* stays in order.
ContainersRefine ==
    /\ DictIsMap /\ SmartHashIsMap /\ IntSetIsMap /\ SkipListIsMap
    /\ QuickListIsList /\ ListPackIsList
    /\ [](/\ DictTablesOK /\ SmartHashSizes /\ IterRangeExact /\ SkipListLinked
          /\ QuickListValid /\ ListPackBounds)
=============================================================================
