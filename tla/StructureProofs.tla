--------------------------- MODULE StructureProofs ---------------------------
(***************************************************************************)
(* What the structures of src/src/database keep right for any keys, values *)
(* and number of calls: the hash in its two representations, the skip      *)
(* lists that threads share, and the structures that read a clock.         *)
(***************************************************************************)
EXTENDS Timed, SharedLists, SmartHash, FiniteSetTheorems, TLAPS

(***************************************************************************)
(* The hash                                                                *)
(***************************************************************************)
\* A vector of pairs with no field twice
GoodZip(z) ==
    z \in Seq(Keys \X Values) /\ \A i, j \in 1..Len(z) : z[i][1] = z[j][1] => i = j

\* What z and y hold of field k is the same.
SamePairs(z, y, k) ==
    /\ \A i \in 1..Len(z) : z[i][1] = k => \E j \in 1..Len(y) : y[j] = z[i]
    /\ \A j \in 1..Len(y) : y[j][1] = k => \E i \in 1..Len(z) : y[j] = z[i]

\* y is z with x under k, None for no pair.
ZipChanged(z, y, k, x) ==
    GoodZip(y) /\ ZipGet(y, k) = x /\ \A j \in Keys \ {k} : ZipGet(y, j) = ZipGet(z, j)

HashInv ==
    /\ repr \in {"Zip", "Map"} /\ pending \in BOOLEAN
    /\ GoodZip(zip) /\ hmap \in [Keys -> Values \cup {None}]
    /\ repr = "Zip" => hmap = Vacant /\ ~pending /\ Len(zip) < Threshold
    /\ repr = "Map" => zip = <<>>
    /\ pending => Cardinality(Present(hmap)) < Threshold \div 2

\* A pair of the vector is what a search for its field finds.
LEMMA ZipFinds ==
    ASSUME NEW z, GoodZip(z), NEW i \in 1..Len(z)
    PROVE  /\ z[i] \in Keys \X Values /\ z[i] = <<z[i][1], z[i][2]>>
           /\ InZip(z, z[i][1]) /\ Position(z, z[i][1]) = i /\ ZipGet(z, z[i][1]) = z[i][2]
<1>1. z[i] \in Keys \X Values
  BY DEF GoodZip
<1>2. InZip(z, z[i][1])
  BY DEF InZip
<1>3. Position(z, z[i][1]) = i
  BY DEF Position, GoodZip
<1>4. QED
  BY <1>1, <1>2, <1>3 DEF ZipGet

\* A field that is found is found at its position, and has a value.
LEMMA ZipPlace ==
    ASSUME NEW z, GoodZip(z), NEW k \in Keys
    PROVE  /\ InZip(z, k) => /\ Position(z, k) \in 1..Len(z) /\ z[Position(z, k)][1] = k
                             /\ ZipGet(z, k) = z[Position(z, k)][2] /\ ZipGet(z, k) \in Values
           /\ ~ InZip(z, k) => ZipGet(z, k) = None
           /\ ZipGet(z, k) = None <=> ~ InZip(z, k)
<1>1. ASSUME InZip(z, k)
      PROVE  /\ Position(z, k) \in 1..Len(z) /\ z[Position(z, k)][1] = k
             /\ ZipGet(z, k) = z[Position(z, k)][2] /\ ZipGet(z, k) \in Values
  <2>1. PICK i \in 1..Len(z) : z[i][1] = k
    BY <1>1 DEF InZip
  <2>2. QED
    BY <2>1, ZipFinds
<1>2. ~ InZip(z, k) => ZipGet(z, k) = None
  BY DEF ZipGet
<1>3. QED
  BY <1>1, <1>2, KeyValueAssumption

\* Two vectors agree on a field when they hold the same pair of it, or none.
LEMMA ZipSame ==
    ASSUME NEW z, GoodZip(z), NEW y, GoodZip(y), NEW k \in Keys, SamePairs(z, y, k)
    PROVE  ZipGet(y, k) = ZipGet(z, k) /\ (InZip(y, k) <=> InZip(z, k))
<1>1. ASSUME NEW i \in 1..Len(z), z[i][1] = k
      PROVE  ZipGet(y, k) = ZipGet(z, k) /\ InZip(y, k) /\ InZip(z, k)
  <2>1. PICK j \in 1..Len(y) : y[j] = z[i]
    BY <1>1 DEF SamePairs
  <2>2. QED
    BY <1>1, <2>1, ZipFinds
<1>2. ASSUME \A i \in 1..Len(z) : z[i][1] # k
      PROVE  ZipGet(y, k) = ZipGet(z, k) /\ ~InZip(y, k) /\ ~InZip(z, k)
  BY <1>2 DEF ZipGet, InZip, SamePairs
<1>3. QED
  BY <1>1, <1>2

\* A value of a field is replaced in its place.
LEMMA ZipReplaced ==
    ASSUME NEW z, GoodZip(z), NEW k \in Keys, NEW v \in Values, InZip(z, k)
    PROVE  /\ ZipChanged(z, [z EXCEPT ![Position(z, k)] = <<k, v>>], k, v)
           /\ Len([z EXCEPT ![Position(z, k)] = <<k, v>>]) = Len(z)
<1> DEFINE y == [z EXCEPT ![Position(z, k)] = <<k, v>>]
<1>1. PICK p \in 1..Len(z) : p = Position(z, k) /\ z[p][1] = k
  BY ZipPlace
<1>2. /\ y \in Seq(Keys \X Values) /\ Len(y) = Len(z) /\ y[p] = <<k, v>>
      /\ \A i \in 1..Len(z) : i # p => y[i] = z[i]
  BY <1>1 DEF GoodZip
<1> HIDE DEF y
<1>3. \A i \in 1..Len(z) : y[i][1] = z[i][1]
  <2>1. y[p][1] = k
    BY <1>2
  <2>2. QED
    BY <1>1, <1>2, <2>1, Zenon
<1>4. GoodZip(y)
  BY <1>2, <1>3 DEF GoodZip
<1>5. ZipGet(y, k) = v
  <2>1. p \in 1..Len(y) /\ y[p][1] = k /\ y[p][2] = v
    BY <1>2
  <2>2. ZipGet(y, y[p][1]) = y[p][2]
    BY <1>4, <2>1, ZipFinds
  <2>3. QED
    BY <2>1, <2>2
<1>6. ASSUME NEW j \in Keys \ {k}
      PROVE  ZipGet(y, j) = ZipGet(z, j)
  <2>1. \A i \in 1..Len(z) : z[i][1] = j \/ y[i][1] = j => y[i] = z[i]
    BY <1>1, <1>2, <1>3
  <2>2. SamePairs(z, y, j)
    BY <1>2, <2>1 DEF SamePairs
  <2>3. QED
    BY <1>4, <2>2, ZipSame
<1>7. ZipChanged(z, y, k, v) /\ Len(y) = Len(z)
  BY <1>2, <1>4, <1>5, <1>6 DEF ZipChanged
<1>8. QED
  BY <1>7 DEF y

\* A new field goes to the end.
LEMMA ZipPushed ==
    ASSUME NEW z, GoodZip(z), NEW k \in Keys, NEW v \in Values, ~ InZip(z, k)
    PROVE  ZipChanged(z, Append(z, <<k, v>>), k, v) /\ Len(Append(z, <<k, v>>)) = Len(z) + 1
<1> DEFINE y == Append(z, <<k, v>>)
<1>1. /\ y \in Seq(Keys \X Values) /\ Len(y) = Len(z) + 1 /\ y[Len(z) + 1] = <<k, v>>
      /\ \A i \in 1..Len(z) : y[i] = z[i]
      /\ Len(z) \in Nat
  BY DEF GoodZip
<1> HIDE DEF y
<1>2. \A i \in 1..Len(z) : z[i][1] # k
  BY DEF InZip
<1>3. y[Len(z) + 1][1] = k
  BY <1>1
<1>4. ASSUME NEW i \in 1..Len(y), NEW j \in 1..Len(y), y[i][1] = y[j][1]
      PROVE  i = j
  <2>1. CASE i \in 1..Len(z) /\ j \in 1..Len(z)
    BY <1>1, <1>4, <2>1 DEF GoodZip
  <2>2. CASE i \in 1..Len(z) /\ j = Len(z) + 1
    BY <1>1, <1>2, <1>3, <1>4, <2>2
  <2>3. CASE j \in 1..Len(z) /\ i = Len(z) + 1
    BY <1>1, <1>2, <1>3, <1>4, <2>3
  <2>4. QED
    BY <1>1, <2>1, <2>2, <2>3
<1>5. GoodZip(y)
  BY <1>1, <1>4 DEF GoodZip
<1>6. ZipGet(y, k) = v
  <2>1. Len(z) + 1 \in 1..Len(y)
    BY <1>1
  <2>2. ZipGet(y, y[Len(z) + 1][1]) = y[Len(z) + 1][2]
    BY <1>5, <2>1, ZipFinds
  <2>3. QED
    BY <1>1, <2>2
<1>7. ASSUME NEW j \in Keys \ {k}
      PROVE  ZipGet(y, j) = ZipGet(z, j)
  <2>1. \A i \in 1..Len(z) : i \in 1..Len(y) /\ y[i] = z[i]
    BY <1>1
  <2>2. \A h \in 1..Len(y) : y[h][1] = j => h \in 1..Len(z)
    BY <1>1, <1>3
  <2>3. SamePairs(z, y, j)
    BY <2>1, <2>2 DEF SamePairs
  <2>4. QED
    BY <1>5, <2>3, ZipSame
<1>8. ZipChanged(z, y, k, v) /\ Len(y) = Len(z) + 1
  BY <1>1, <1>5, <1>6, <1>7 DEF ZipChanged
<1>9. QED
  BY <1>8 DEF y

\* A field is taken out and the others close up.
LEMMA ZipRemoved ==
    ASSUME NEW z, GoodZip(z), NEW k \in Keys, InZip(z, k)
    PROVE  ZipChanged(z, ZipWithout(z, k), k, None) /\ Len(ZipWithout(z, k)) = Len(z) - 1
<1> DEFINE y == ZipWithout(z, k)
<1>1. PICK p \in 1..Len(z) : p = Position(z, k) /\ z[p][1] = k
  BY ZipPlace
<1>2. z \in Seq(Keys \X Values) /\ Len(z) \in Nat /\ Len(z) - 1 \in Nat
  BY <1>1 DEF GoodZip
<1>3. y = [i \in 1..(Len(z) - 1) |-> IF i < p THEN z[i] ELSE z[i + 1]]
  BY <1>1 DEF ZipWithout
<1> HIDE DEF y
<1>4. \A i \in 1..(Len(z) - 1) : (IF i < p THEN z[i] ELSE z[i + 1]) \in Keys \X Values
  <2> SUFFICES ASSUME NEW i \in 1..(Len(z) - 1) PROVE z[i] \in Keys \X Values /\ z[i + 1] \in Keys \X Values
    OBVIOUS
  <2>1. i \in 1..Len(z) /\ i + 1 \in 1..Len(z)
    BY <1>2
  <2>2. QED
    BY <1>2, <2>1
<1>5. y \in Seq(Keys \X Values) /\ Len(y) = Len(z) - 1
  BY <1>2, <1>3, <1>4
<1>6. ASSUME NEW i \in 1..Len(y)
      PROVE  \E h \in 1..Len(z) : h = (IF i < p THEN i ELSE i + 1) /\ h # p /\ y[i] = z[h]
  BY <1>1, <1>2, <1>3, <1>5
<1>7. ASSUME NEW h \in 1..Len(z), h # p
      PROVE  \E i \in 1..Len(y) : y[i] = z[h]
  <2>1. CASE h < p
    <3>1. h \in 1..Len(y) /\ y[h] = z[h]
      BY <1>1, <1>2, <1>3, <1>5, <2>1
    <3>2. QED
      BY <3>1
  <2>2. CASE h > p
    <3>1. h - 1 \in 1..Len(y) /\ y[h - 1] = z[h]
      BY <1>1, <1>2, <1>3, <1>5, <2>2
    <3>2. QED
      BY <3>1
  <2>3. QED
    BY <1>1, <1>2, <1>7, <2>1, <2>2
<1>8. GoodZip(y)
  <2> SUFFICES ASSUME NEW i \in 1..Len(y), NEW j \in 1..Len(y), y[i][1] = y[j][1]
               PROVE  i = j
    BY <1>5 DEF GoodZip
  <2>1. PICK h \in 1..Len(z) : h = (IF i < p THEN i ELSE i + 1) /\ y[i] = z[h]
    BY <1>6
  <2>2. PICK g \in 1..Len(z) : g = (IF j < p THEN j ELSE j + 1) /\ y[j] = z[g]
    BY <1>6
  <2>3. h = g
    BY <2>1, <2>2 DEF GoodZip
  <2>4. QED
    BY <1>1, <1>2, <1>5, <2>1, <2>2, <2>3
<1>9. ZipGet(y, k) = None
  <2>1. \A i \in 1..Len(y) : y[i][1] # k
    BY <1>1, <1>6 DEF GoodZip
  <2>2. QED
    BY <2>1 DEF ZipGet, InZip
<1>10. ASSUME NEW j \in Keys \ {k}
       PROVE  ZipGet(y, j) = ZipGet(z, j)
  <2>1. SamePairs(z, y, j)
    BY <1>1, <1>6, <1>7 DEF SamePairs
  <2>2. QED
    BY <1>8, <2>1, ZipSame
<1>11. QED
  BY <1>5, <1>8, <1>9, <1>10 DEF y, ZipChanged

\* Whatever the order in which a map is drained, the vector holds each of its
\* entries once.
LEMMA DrainedGood ==
    ASSUME NEW m \in [Keys -> Values \cup {None}], NEW z \in Drained(m)
    PROVE  /\ GoodZip(z) /\ Len(z) = Cardinality(Present(m))
           /\ \A k \in Keys : ZipGet(z, k) = m[k]
<1> DEFINE n == Cardinality(Present(m))
           f == [i \in 1..n |-> z[i][1]]
<1>1. IsFiniteSet(Present(m)) /\ n \in Nat
  <2>1. Present(m) \subseteq Keys
    BY DEF Present
  <2>2. QED
    BY <2>1, SmartHashAssumption, FS_Subset, FS_CardinalityType
<1>2. IsFiniteSet(1..n) /\ Cardinality(1..n) = n
  BY <1>1, FS_Interval
<1>3. /\ z \in [1..n -> {<<k, m[k]>> : k \in Present(m)}]
      /\ \A k \in Present(m) : \E i \in 1..Len(z) : z[i][1] = k
  BY DEF Drained, InZip
<1> HIDE DEF n
<1>4. ASSUME NEW i \in 1..n
      PROVE  /\ z[i][1] \in Present(m) /\ z[i] = <<z[i][1], m[z[i][1]]>>
             /\ z[i] \in Keys \X Values
  <2>1. PICK k \in Present(m) : z[i] = <<k, m[k]>>
    BY <1>3
  <2>2. k \in Keys /\ m[k] \in Values
    BY DEF Present
  <2>3. QED
    BY <2>1, <2>2
<1>5. z \in [1..n -> Keys \X Values]
  BY <1>3, <1>4
<1>6. z \in Seq(Keys \X Values) /\ Len(z) = n
  BY <1>1, <1>5
<1>7. f \in Surjection(1..n, Present(m))
  <2>1. f \in [1..n -> Present(m)]
    BY <1>4
  <2>2. \A k \in Present(m) : \E i \in 1..n : f[i] = k
    BY <1>3, <1>6
  <2>3. QED
    BY <2>1, <2>2 DEF Surjection
<1>8. f \in Injection(1..n, Present(m))
  BY <1>1, <1>2, <1>7, FS_SurjSameCardinalityImpliesInj DEF n
<1>9. \A i, j \in 1..n : z[i][1] = z[j][1] => i = j
  <2>1. \A i, j \in 1..n : f[i] = f[j] => i = j
    BY <1>8 DEF Injection, IsInjective
  <2>2. QED
    BY <2>1
<1>10. GoodZip(z)
  BY <1>6, <1>9 DEF GoodZip
<1>11. ASSUME NEW k \in Keys
       PROVE  ZipGet(z, k) = m[k]
  <2>1. CASE k \in Present(m)
    <3>1. PICK i \in 1..n : z[i][1] = k
      BY <1>3, <1>6, <2>1
    <3>2. z[i][2] = m[k]
      BY <1>4, <3>1
    <3>3. QED
      BY <1>6, <1>10, <3>1, <3>2, ZipFinds
  <2>2. CASE k \notin Present(m)
    <3>1. ~ InZip(z, k)
      BY <1>4, <1>6, <2>2 DEF InZip
    <3>2. QED
      BY <2>2, <3>1 DEF ZipGet, Present
  <2>3. QED
    BY <2>1, <2>2
<1>12. QED
  BY <1>6, <1>10, <1>11 DEF n

\* The empty vector has no field.
LEMMA ZipEmpty == GoodZip(<<>>) /\ \A k \in Keys : ZipGet(<<>>, k) = None
  BY DEF GoodZip, ZipGet, InZip

\* The hash now holds x under k, and the rest as before.
Holds(k, x) == \A j \in Keys : HashContents'[j] = IF j = k THEN x ELSE HashContents[j]

\* In the form of a vector the hash holds what the vector does.
LEMMA ZipRead ==
    ASSUME repr' = "Zip", NEW j \in Keys
    PROVE  HashContents'[j] = ZipGet(zip', j)
  BY DEF HashContents, ZipGet, InZip, Position

\* A hash in the form of vector z takes a field, and becomes a map when it is
\* then too long for a vector.
LEMMA HashTakes ==
    ASSUME NEW z, GoodZip(z), Len(z) < Threshold, NEW k \in Keys, NEW v \in Values, InsertZip(z, k, v),
           \A j \in Keys : HashContents[j] = ZipGet(z, j)
    PROVE  /\ HashInv' /\ Holds(k, v)
           /\ hashReply' = <<k, IF HashContents[k] = None THEN "new" ELSE "replaced">>
<1>1. pending' = FALSE
  BY DEF InsertZip
<1>2. CASE InZip(z, k)
  <2>1. zip' = [z EXCEPT ![Position(z, k)] = <<k, v>>] /\ repr' = "Zip" /\ hmap' = Vacant
        /\ hashReply' = <<k, "replaced">>
    BY <1>2 DEF InsertZip
  <2>2. ZipChanged(z, zip', k, v) /\ Len(zip') = Len(z)
    BY <1>2, <2>1, ZipReplaced
  <2>3. HashInv'
    BY <1>1, <2>1, <2>2 DEF HashInv, Vacant, GoodZip, ZipChanged
  <2>4. Holds(k, v)
    BY <2>1, <2>2, ZipRead DEF Holds, ZipChanged
  <2>5. QED
    BY <1>2, <2>1, <2>3, <2>4, ZipPlace
<1>3. CASE ~ InZip(z, k)
  <2> DEFINE y == Append(z, <<k, v>>)
  <2>1. ZipChanged(z, y, k, v) /\ Len(y) = Len(z) + 1
    BY <1>3, ZipPushed
  <2>2. /\ hashReply' = <<k, "new">>
        /\ Len(z) + 1 >= Threshold => repr' = "Map" /\ zip' = <<>> /\ hmap' = [j \in Keys |-> ZipGet(y, j)]
        /\ ~ (Len(z) + 1 >= Threshold) => repr' = "Zip" /\ zip' = y /\ hmap' = Vacant
    BY <1>3 DEF InsertZip
  <2> HIDE DEF y
  <2>3. CASE Len(z) + 1 >= Threshold
    <3>1. repr' = "Map" /\ zip' = <<>> /\ hmap' = [j \in Keys |-> ZipGet(y, j)]
      BY <2>2, <2>3
    <3>2. hmap' \in [Keys -> Values \cup {None}]
      BY <2>1, <3>1, ZipPlace DEF ZipChanged
    <3>3. HashInv'
      BY <1>1, <3>1, <3>2, ZipEmpty, Zenon DEF HashInv, GoodZip
    <3>4. Holds(k, v)
      BY <2>1, <3>1 DEF Holds, HashContents, ZipChanged
    <3>5. QED
      BY <1>3, <2>2, <3>3, <3>4, ZipPlace
  <2>4. CASE ~ (Len(z) + 1 >= Threshold)
    <3>1. repr' = "Zip" /\ zip' = y /\ hmap' = Vacant
      BY <2>2, <2>4
    <3>2. Len(y) < Threshold
      BY <2>1, <2>4, SmartHashAssumption DEF GoodZip, ZipChanged
    <3>3. HashInv'
      BY <1>1, <2>1, <3>1, <3>2 DEF HashInv, Vacant, GoodZip, ZipChanged
    <3>4. Holds(k, v)
      BY <2>1, <3>1, ZipRead DEF Holds, ZipChanged
    <3>5. QED
      BY <1>3, <2>2, <3>3, <3>4, ZipPlace
  <2>5. QED
    BY <2>3, <2>4
<1>4. QED
  BY <1>2, <1>3

\* What a map drained for a pending downgrade gives is the hash in the form of
\* a vector that is short enough.
LEMMA HashDrains ==
    ASSUME HashInv, pending, NEW z \in Drained(hmap)
    PROVE  /\ GoodZip(z) /\ Len(z) < Threshold
           /\ \A j \in Keys : HashContents[j] = ZipGet(z, j)
<1>1. repr = "Map" /\ hmap \in [Keys -> Values \cup {None}]
      /\ Cardinality(Present(hmap)) < Threshold \div 2
  BY DEF HashInv
<1>2. GoodZip(z) /\ Len(z) = Cardinality(Present(hmap)) /\ \A k \in Keys : ZipGet(z, k) = hmap[k]
  BY <1>1, DrainedGood
<1>3. Threshold \div 2 <= Threshold /\ Threshold \div 2 \in Nat
  BY SmartHashAssumption
<1>4. Len(z) \in Nat
  BY <1>2 DEF GoodZip
<1>5. QED
  BY <1>1, <1>2, <1>3, <1>4, SmartHashAssumption DEF HashContents

\* The contents are a map.
LEMMA HashTyped ==
    ASSUME HashInv
    PROVE  /\ HashContents \in [Keys -> Values \cup {None}]
           /\ repr = "Zip" => \A j \in Keys : HashContents[j] = ZipGet(zip, j)
           /\ repr # "Zip" => \A j \in Keys : HashContents[j] = hmap[j]
<1>1. \A j \in Keys : ZipGet(zip, j) \in Values \cup {None}
  BY ZipPlace DEF HashInv
<1>2. QED
  BY <1>1 DEF HashContents, HashInv

\* insert
LEMMA HashInserts ==
    ASSUME HashInv, NEW k \in Keys, NEW v \in Values, SmartHashInsert(k, v)
    PROVE  /\ HashInv' /\ Holds(k, v)
           /\ hashReply' = <<k, IF HashContents[k] = None THEN "new" ELSE "replaced">>
<1>1. CASE repr = "Zip" /\ InsertZip(zip, k, v)
  BY <1>1, HashTakes, HashTyped DEF HashInv
<1>2. CASE repr = "Map" /\ pending /\ \E z \in Drained(hmap) : InsertZip(z, k, v)
  BY <1>2, HashDrains, HashTakes
<1>3. CASE repr = "Map" /\ ~pending /\ InsertMap(k, v)
  <2>1. /\ hmap' = [hmap EXCEPT ![k] = v] /\ UNCHANGED <<repr, zip, pending>>
        /\ hashReply' = <<k, IF hmap[k] = None THEN "new" ELSE "replaced">>
    BY <1>3 DEF InsertMap
  <2>2. HashInv'
    BY <1>3, <2>1 DEF HashInv
  <2>3. Holds(k, v)
    BY <1>3, <2>1 DEF Holds, HashContents, HashInv
  <2>4. QED
    BY <1>3, <2>1, <2>2, <2>3, HashTyped
<1>4. QED
  BY <1>1, <1>2, <1>3 DEF SmartHashInsert

\* remove
LEMMA HashRemoves ==
    ASSUME HashInv, NEW k \in Keys, SmartHashRemove(k)
    PROVE  /\ HashInv' /\ Holds(k, None)
           /\ hashReply' = <<k, IF HashContents[k] = None THEN "absent" ELSE "removed">>
<1>1. CASE RemoveZip(k) /\ InZip(zip, k)
  <2>1. /\ repr = "Zip" /\ zip' = ZipWithout(zip, k) /\ hashReply' = <<k, "removed">>
        /\ UNCHANGED <<repr, hmap, pending>>
    BY <1>1 DEF RemoveZip
  <2>2. GoodZip(zip) /\ Len(zip) < Threshold /\ Len(zip) \in Nat
    BY <2>1 DEF HashInv, GoodZip
  <2>3. ZipChanged(zip, zip', k, None) /\ Len(zip') = Len(zip) - 1
    BY <1>1, <2>1, <2>2, ZipRemoved
  <2>4. Len(zip') < Threshold
    BY <2>2, <2>3, SmartHashAssumption
  <2>5. HashInv'
    BY <2>1, <2>3, <2>4 DEF HashInv, GoodZip, Vacant, ZipChanged
  <2>6. Holds(k, None)
    BY <2>1, <2>3, HashTyped, ZipRead DEF Holds, ZipChanged
  <2>7. HashContents[k] # None
    BY <1>1, <2>1, <2>2, HashTyped, ZipPlace
  <2>8. QED
    BY <2>1, <2>5, <2>6, <2>7
<1>2. CASE RemoveZip(k) /\ ~ InZip(zip, k)
  <2>1. repr = "Zip" /\ hashReply' = <<k, "absent">> /\ UNCHANGED <<repr, zip, hmap, pending>>
    BY <1>2 DEF RemoveZip
  <2>2. HashContents[k] = None
    BY <1>2, <2>1, HashTyped, ZipPlace DEF HashInv
  <2>3. Holds(k, None)
    BY <2>1, <2>2 DEF Holds, HashContents, ZipGet, InZip, Position
  <2>4. HashInv'
    BY <2>1 DEF HashInv, GoodZip, Present, Vacant
  <2>5. QED
    BY <2>1, <2>2, <2>3, <2>4
<1>3. CASE RemoveMap(k)
  <2>1. /\ repr = "Map" /\ hmap' = [hmap EXCEPT ![k] = None] /\ UNCHANGED <<repr, zip>>
        /\ hashReply' = <<k, IF hmap[k] = None THEN "absent" ELSE "removed">>
        /\ pending' = (pending \/ (hmap[k] # None /\ Cardinality(Present(hmap')) < Threshold \div 2))
    BY <1>3 DEF RemoveMap
  <2>2. hmap' \in [Keys -> Values \cup {None}]
    BY <2>1 DEF HashInv
  <2>3. pending' \in BOOLEAN
    BY <2>1, Zenon
  <2>4. Present(hmap') \subseteq Present(hmap) /\ Present(hmap) \subseteq Keys
    BY <2>1 DEF Present, HashInv
  <2>5. /\ Cardinality(Present(hmap')) \in Nat /\ Cardinality(Present(hmap)) \in Nat
        /\ Cardinality(Present(hmap')) <= Cardinality(Present(hmap))
    BY <2>4, SmartHashAssumption, FS_Subset, FS_CardinalityType
  <2>6. pending' => Cardinality(Present(hmap')) < Threshold \div 2
    <3>1. CASE pending
      <4>1. Cardinality(Present(hmap)) < Threshold \div 2 /\ Threshold \div 2 \in Nat
        BY <3>1, SmartHashAssumption DEF HashInv
      <4>2. QED
        BY <2>5, <4>1
    <3>2. CASE ~pending
      BY <2>1, <3>2, Zenon
    <3>3. QED
      BY <3>1, <3>2
  <2>7. HashInv'
    BY <2>1, <2>2, <2>3, <2>6 DEF HashInv, GoodZip, Present
  <2>8. Holds(k, None)
    BY <2>1 DEF Holds, HashContents, HashInv
  <2>9. QED
    BY <2>1, <2>7, <2>8, HashTyped
<1>4. QED
  BY <1>1, <1>2, <1>3 DEF SmartHashRemove, RemoveZip

\* The steps that change no field
LEMMA HashRests ==
    ASSUME HashInv, SmartHashIter \/ SmartHashReload
    PROVE  HashInv' /\ hashReply' = <<None, "done">> /\ \A j \in Keys : HashContents'[j] = HashContents[j]
<1>1. hashReply' = <<None, "done">>
  BY DEF SmartHashIter, SmartHashReload
<1>2. CASE Downgrade
  <2>1. pending /\ repr' = "Zip" /\ zip' \in Drained(hmap) /\ hmap' = Vacant /\ pending' = FALSE
    BY <1>2 DEF Downgrade
  <2>2. GoodZip(zip') /\ Len(zip') < Threshold /\ \A j \in Keys : HashContents[j] = ZipGet(zip', j)
    BY <2>1, HashDrains
  <2>3. HashInv'
    BY <2>1, <2>2, Zenon DEF HashInv, GoodZip, Vacant
  <2>4. \A j \in Keys : HashContents'[j] = ZipGet(zip', j)
    BY <2>1 DEF HashContents, ZipGet, InZip, Position
  <2>5. QED
    BY <1>1, <2>2, <2>3, <2>4
<1>3. CASE UNCHANGED <<repr, zip, hmap>> /\ (pending' = FALSE \/ UNCHANGED pending)
  <2>1. HashInv'
    <3>1. CASE pending' = FALSE
      BY <1>3, <3>1 DEF HashInv, GoodZip, Vacant
    <3>2. CASE UNCHANGED pending
      BY <1>3, <3>2 DEF HashInv, GoodZip, Present, Vacant
    <3>3. QED
      BY <1>3, <3>1, <3>2
  <2>2. HashContents' = HashContents
    BY <1>3 DEF HashContents, ZipGet, InZip, Position
  <2>3. QED
    BY <1>1, <2>1, <2>2
<1>4. QED
  BY <1>2, <1>3, Zenon DEF SmartHashIter, SmartHashReload

\* The steps of the hash are steps of a map.
LEMMA HashMapStep ==
    ASSUME HashInv, [SmartHashNext]_hashVars
    PROVE  HashInv' /\ [HashAsMap!Next]_(HashAsMap!mapVars)
<1>1. HashContents \in [Keys -> Values \cup {None}] /\ HashContents' = [j \in Keys |-> HashContents'[j]]
  BY HashTyped DEF HashContents
<1>2. ASSUME NEW k \in Keys, NEW v \in Values, SmartHashInsert(k, v)
      PROVE  HashInv' /\ HashAsMap!Next
  <2>1. /\ HashInv' /\ Holds(k, v)
        /\ hashReply' = <<k, IF HashContents[k] = None THEN "new" ELSE "replaced">>
    BY <1>2, HashInserts
  <2>2. HashContents' = [HashContents EXCEPT ![k] = v]
    BY <1>1, <2>1 DEF Holds
  <2>3. HashAsMap!Put(k, v)
    BY <2>1, <2>2 DEF HashAsMap!Put
  <2>4. QED
    BY <2>1, <2>3 DEF HashAsMap!Next
<1>3. ASSUME NEW k \in Keys, SmartHashRemove(k)
      PROVE  HashInv' /\ HashAsMap!Next
  <2>1. /\ HashInv' /\ Holds(k, None)
        /\ hashReply' = <<k, IF HashContents[k] = None THEN "absent" ELSE "removed">>
    BY <1>3, HashRemoves
  <2>2. HashContents' = [HashContents EXCEPT ![k] = None]
    BY <1>1, <2>1 DEF Holds
  <2>3. HashAsMap!Take(k)
    BY <2>1, <2>2 DEF HashAsMap!Take
  <2>4. QED
    BY <2>1, <2>3 DEF HashAsMap!Next
<1>4. ASSUME NEW k \in Keys, SmartHashGet(k)
      PROVE  HashInv' /\ HashAsMap!Next
  <2>1. UNCHANGED <<repr, zip, hmap, pending>> /\ hashReply' = <<k, HashContents[k]>>
    BY <1>4 DEF SmartHashGet, HashContents
  <2>2. HashInv'
    BY <2>1 DEF HashInv, GoodZip, Present, Vacant
  <2>3. HashContents' = HashContents
    BY <2>1 DEF HashContents, ZipGet, InZip, Position
  <2>4. HashAsMap!Look(k)
    BY <2>1, <2>3 DEF HashAsMap!Look
  <2>5. QED
    BY <2>2, <2>4 DEF HashAsMap!Next
<1>5. CASE SmartHashClear
  <2>1. repr' = "Zip" /\ zip' = <<>> /\ hmap' = Vacant /\ pending' = FALSE /\ hashReply' = <<None, "cleared">>
    BY <1>5 DEF SmartHashClear
  <2>2. GoodZip(zip') /\ Len(zip') < Threshold /\ \A j \in Keys : ZipGet(zip', j) = None
    BY <2>1, ZipEmpty, SmartHashAssumption
  <2>3. HashInv'
    BY <2>1, <2>2 DEF HashInv, GoodZip, Vacant
  <2>4. \A j \in Keys : HashContents'[j] = ZipGet(zip', j)
    BY <2>1 DEF HashContents, ZipGet, InZip, Position
  <2>5. HashAsMap!Clear
    BY <1>1, <2>1, <2>2, <2>4 DEF HashAsMap!Clear, HashAsMap!Empty
  <2>6. QED
    BY <2>3, <2>5 DEF HashAsMap!Next
<1>6. CASE SmartHashIter \/ SmartHashReload
  <2>1. HashInv' /\ hashReply' = <<None, "done">> /\ \A j \in Keys : HashContents'[j] = HashContents[j]
    BY <1>6, HashRests
  <2>2. HashContents' = HashContents
    BY <1>1, <2>1
  <2>3. HashAsMap!Tidy
    BY <2>1, <2>2 DEF HashAsMap!Tidy
  <2>4. QED
    BY <2>1, <2>3 DEF HashAsMap!Next
<1>7. CASE UNCHANGED hashVars
  <2>1. HashInv' /\ hashReply' = hashReply
    BY <1>7 DEF hashVars, HashInv, GoodZip, Present, Vacant
  <2>2. HashContents' = HashContents
    BY <1>7 DEF hashVars, HashContents, ZipGet, InZip, Position
  <2>3. QED
    BY <2>1, <2>2 DEF HashAsMap!mapVars
<1>8. QED
  BY <1>2, <1>3, <1>4, <1>5, <1>6, <1>7 DEF SmartHashNext

\* A SmartHash starts as an empty vector, which is an empty map.
LEMMA HashMapInit ==
    ASSUME SmartHashInit
    PROVE  HashInv /\ HashAsMap!Init
<1>1. repr = "Zip" /\ zip = <<>> /\ hmap = Vacant /\ pending = FALSE /\ hashReply = <<None, "done">>
  BY DEF SmartHashInit
<1>2. GoodZip(zip) /\ Len(zip) < Threshold /\ \A j \in Keys : ZipGet(zip, j) = None
  BY <1>1, ZipEmpty, SmartHashAssumption
<1>3. HashInv
  BY <1>1, <1>2 DEF HashInv, Vacant
<1>4. HashContents = [k \in Keys |-> None]
  BY <1>1, <1>2 DEF HashContents
<1>5. QED
  BY <1>1, <1>3, <1>4 DEF HashAsMap!Init, HashAsMap!Empty

\* For any fields, values and threshold: a SmartHash answers as a map does, in
\* whatever order a HashMap gives its entries up, and its two representations
\* keep to their sizes.
THEOREM SmartHashImplementsMap == SmartHashSpec => SmartHashIsMap /\ []SmartHashSizes
<1>1. HashInv => SmartHashSizes
  BY DEF HashInv, SmartHashSizes, GoodZip
<1>2. SmartHashSpec => []HashInv
  BY HashMapInit, HashMapStep, PTL DEF SmartHashSpec
<1>3. SmartHashSpec => HashAsMap!Spec
  BY <1>2, HashMapInit, HashMapStep, PTL DEF SmartHashSpec, HashAsMap!Spec
<1>4. QED
  BY <1>1, <1>2, <1>3, PTL DEF SmartHashIsMap

(***************************************************************************)
(* The shared skip lists                                                   *)
(***************************************************************************)
AtWork == {"apply", "count"}

\* An update that has changed whether its key is there, and has not counted it
Uncounted(k) == \E t \in Tasks : step[t] = "count" /\ call[t][1] = k /\ delta[t] # 0

\* The keys that the counter counts: the ones that are there, but for updates
\* under way
Counted == {k \in Keys : entries[k] # None <=> ~ Uncounted(k)}

\* A thread at work has the lock of its key's shard, so no two are at one key.
LocksHeld ==
    \A t \in Tasks : step[t] \in AtWork =>
        call[t] \in Keys \X (Values \cup {None}) /\ holder[ShardFor(call[t][1])] = t

DeltasTrue ==
    \A t \in Tasks : step[t] = "count" =>
        /\ delta[t] = 1 => entries[call[t][1]] # None
        /\ delta[t] = -1 => entries[call[t][1]] = None

\* A clear of the sharded list that nobody met is alone, and has emptied the
\* shards before the one it is at.
ClearsAlone ==
    (kind = "sharded" /\ ~missed /\ Clearing # {}) =>
        /\ Updating = {}
        /\ \A t, u \in Clearing : t = u
        /\ \A t \in Tasks : step[t] = "clear" => \A k \in Keys : ShardOfKey[k] < call[t] => entries[k] = None
        /\ \A t \in Tasks : step[t] = "reset" => \A k \in Keys : entries[k] = None

LengthCounted ==
    (~missed /\ (kind = "concurrent" \/ Clearing = {})) => total = Cardinality(Counted)

SharedTypes ==
    /\ kind \in {"sharded", "concurrent"} /\ missed \in BOOLEAN
    /\ entries \in [Keys -> Values \cup {None}]
    /\ holder \in [Shards -> Tasks \cup {None}]
    /\ step \in [Tasks -> {"idle", "apply", "count", "clear", "reset"}]
    /\ DOMAIN call = Tasks /\ delta \in [Tasks -> {-1, 0, 1}]
    /\ \A t \in Tasks : step[t] = "clear" => call[t] \in Shards
    /\ \A t \in Tasks : step[t] = "reset" => kind = "sharded"

SharedInv == SharedTypes /\ LocksHeld /\ DeltasTrue /\ ClearsAlone /\ LengthCounted

\* A counter that has not reached its width does not wrap.
LEMMA SmallMod ==
    ASSUME NEW x \in Nat, NEW w \in Nat, x < w
    PROVE  x % w = x
  OBVIOUS

\* The shard of a key is one of the shards.
LEMMA ShardOf ==
    ASSUME SharedTypes, NEW k \in Keys
    PROVE  ShardFor(k) \in Shards
  BY SharedListsAssumption DEF SharedTypes, ShardFor, Shards

\* Two threads at work in one shard are one.
LEMMA OneAtWork ==
    ASSUME LocksHeld, NEW t \in Tasks, NEW u \in Tasks, step[t] \in AtWork, step[u] \in AtWork,
           ShardFor(call[t][1]) = ShardFor(call[u][1])
    PROVE  t = u
  BY DEF LocksHeld

\* The counted keys are finitely many and fewer than the counter can count.
LEMMA CountedFits ==
    ASSUME NEW S \in SUBSET Keys
    PROVE  IsFiniteSet(S) /\ Cardinality(S) \in Nat /\ Cardinality(S) < Wrap
  BY SharedListsAssumption, FS_Subset, FS_CardinalityType

\* An update begins: it takes the lock and changes nothing that is counted.
LEMMA SharedBegins ==
    ASSUME SharedInv, NEW t \in Tasks, BeginUpdate(t)
    PROVE  SharedInv'
<1>1. SharedTypes /\ LocksHeld /\ DeltasTrue /\ ClearsAlone /\ LengthCounted
  BY DEF SharedInv
<1>2. PICK k \in Keys, v \in Values \cup {None} :
        /\ holder[ShardFor(k)] = None
        /\ holder' = [holder EXCEPT ![ShardFor(k)] = t]
        /\ call' = [call EXCEPT ![t] = <<k, v>>]
  BY DEF BeginUpdate
<1>3. /\ step[t] = "idle" /\ step' = [step EXCEPT ![t] = "apply"]
      /\ missed' = (missed \/ (kind = "sharded" /\ Clearing # {}))
      /\ UNCHANGED <<kind, entries, total, delta>>
  BY DEF BeginUpdate
<1>4. /\ call'[t] = <<k, v>> /\ \A u \in Tasks \ {t} : call'[u] = call[u] /\ step'[u] = step[u]
      /\ step'[t] = "apply" /\ DOMAIN call' = Tasks
  BY <1>1, <1>2, <1>3 DEF SharedTypes
<1>5. SharedTypes'
  BY <1>1, <1>2, <1>3, <1>4, ShardOf DEF SharedTypes
<1>6. LocksHeld'
  <2> SUFFICES ASSUME NEW u \in Tasks, step'[u] \in AtWork
               PROVE  /\ call'[u] \in Keys \X (Values \cup {None})
                      /\ holder'[ShardFor(call'[u][1])] = u
    BY <1>3 DEF LocksHeld, ShardFor
  <2>1. CASE u = t
    BY <1>1, <1>2, <1>4, <2>1, ShardOf DEF SharedTypes
  <2>2. CASE u # t
    <3>1. step[u] \in AtWork /\ call'[u] = call[u]
      BY <1>4, <2>2
    <3>2. call[u] \in Keys \X (Values \cup {None}) /\ holder[ShardFor(call[u][1])] = u
      BY <1>1, <3>1 DEF LocksHeld
    <3>3. ShardFor(call[u][1]) # ShardFor(k) /\ ShardFor(call[u][1]) \in Shards
      BY <1>1, <1>2, <3>2, ShardOf, SharedListsAssumption
    <3>4. QED
      BY <1>1, <1>2, <3>1, <3>2, <3>3 DEF SharedTypes
  <2>3. QED
    BY <2>1, <2>2
<1>7. DeltasTrue'
  BY <1>1, <1>3, <1>4 DEF DeltasTrue
<1>8. Clearing' = Clearing
  BY <1>3, <1>4 DEF Clearing
<1>9. ClearsAlone'
  BY <1>1, <1>3, <1>4, <1>8, Zenon DEF ClearsAlone
<1>10. Counted' = Counted
  BY <1>3, <1>4 DEF Counted, Uncounted
<1>11. LengthCounted'
  BY <1>1, <1>3, <1>8, <1>10, Zenon DEF LengthCounted
<1>12. QED
  BY <1>5, <1>6, <1>7, <1>9, <1>11 DEF SharedInv

\* The list is changed: whatever the key was counted as, it still is.
LEMMA SharedApplies ==
    ASSUME SharedInv, NEW t \in Tasks, Apply(t)
    PROVE  SharedInv'
<1>1. SharedTypes /\ LocksHeld /\ DeltasTrue /\ ClearsAlone /\ LengthCounted
  BY DEF SharedInv
<1>0. PICK k \in Keys, v \in Values \cup {None} : call[t] = <<k, v>> /\ holder[ShardFor(k)] = t
  <2>1. call[t] \in Keys \X (Values \cup {None}) /\ holder[ShardFor(call[t][1])] = t
    BY <1>1 DEF LocksHeld, AtWork, Apply
  <2>2. QED
    BY <2>1
<1>2. /\ step[t] = "apply" /\ entries' = [entries EXCEPT ![k] = v]
      /\ delta' = [delta EXCEPT ![t] = IF v = None THEN (IF entries[k] = None THEN 0 ELSE -1)
                                       ELSE (IF entries[k] = None THEN 1 ELSE 0)]
      /\ step' = [step EXCEPT ![t] = "count"]
      /\ UNCHANGED <<kind, holder, total, call, missed>>
  BY <1>0 DEF Apply
<1>3. call[t][1] = k /\ holder[ShardFor(k)] = t
  BY <1>0
<1>4. /\ step'[t] = "count" /\ \A u \in Tasks \ {t} : step'[u] = step[u] /\ delta'[u] = delta[u]
      /\ delta'[t] = IF v = None THEN (IF entries[k] = None THEN 0 ELSE -1)
                     ELSE (IF entries[k] = None THEN 1 ELSE 0)
      /\ entries'[k] = v /\ \A j \in Keys \ {k} : entries'[j] = entries[j]
  BY <1>1, <1>2, <1>3 DEF SharedTypes
<1>5. \A u \in Tasks \ {t} : step[u] \in AtWork => call[u][1] # k
  BY <1>1, <1>3 DEF LocksHeld
<1>6. SharedTypes'
  BY <1>1, <1>2, <1>3, <1>4 DEF SharedTypes
<1>7. LocksHeld'
  BY <1>1, <1>2, <1>4 DEF LocksHeld, ShardFor, AtWork
<1>8. DeltasTrue'
  <2> SUFFICES ASSUME NEW u \in Tasks, step'[u] = "count"
               PROVE  /\ delta'[u] = 1 => entries'[call[u][1]] # None
                      /\ delta'[u] = -1 => entries'[call[u][1]] = None
    BY <1>2 DEF DeltasTrue
  <2>1. CASE u = t
    BY <1>3, <1>4, <2>1
  <2>2. CASE u # t
    <3>1. step[u] = "count" /\ delta'[u] = delta[u] /\ call[u][1] # k
      BY <1>4, <1>5, <2>2 DEF AtWork
    <3>2. call[u][1] \in Keys
      BY <1>1, <3>1 DEF LocksHeld, AtWork
    <3>3. QED
      BY <1>1, <1>4, <3>1, <3>2 DEF DeltasTrue
  <2>3. QED
    BY <2>1, <2>2
<1>9. Clearing' = Clearing /\ t \in Updating
  BY <1>2, <1>4 DEF Clearing, Updating
<1>10. ClearsAlone'
  BY <1>1, <1>2, <1>9 DEF ClearsAlone
<1>11. Counted' = Counted
  <2>1. ~ Uncounted(k)
    BY <1>2, <1>5 DEF Uncounted, AtWork
  <2>2. Uncounted(k)' <=> (entries[k] = None <=> v # None)
    <3>1. Uncounted(k)' <=> delta'[t] # 0
      BY <1>2, <1>3, <1>4, <1>5 DEF Uncounted, AtWork
    <3>2. QED
      BY <1>4, <3>1
  <2>3. \A j \in Keys \ {k} : Uncounted(j)' <=> Uncounted(j)
    BY <1>2, <1>3, <1>4 DEF Uncounted
  <2>4. \A j \in Keys : j \in Counted' <=> j \in Counted
    <3> TAKE j \in Keys
    <3>1. CASE j = k
      BY <1>3, <1>4, <2>1, <2>2, <3>1 DEF Counted
    <3>2. CASE j # k
      BY <1>4, <2>3, <3>2 DEF Counted
    <3>3. QED
      BY <3>1, <3>2
  <2>5. QED
    BY <2>4 DEF Counted
<1>12. LengthCounted'
  BY <1>1, <1>2, <1>9, <1>11 DEF LengthCounted
<1>13. QED
  BY <1>6, <1>7, <1>8, <1>10, <1>12 DEF SharedInv

\* A thread gives its lock back; the others keep theirs.
LEMMA SharedReleases ==
    ASSUME SharedInv, NEW t \in Tasks, step[t] = "count", Release(t), UNCHANGED <<kind, entries>>,
           missed' \in BOOLEAN, missed => missed'
    PROVE  /\ SharedTypes' /\ LocksHeld' /\ DeltasTrue' /\ ClearsAlone'
           /\ Clearing' = Clearing /\ step'[t] = "idle"
           /\ \A u \in Tasks \ {t} : step'[u] = step[u] /\ call'[u] = call[u] /\ delta'[u] = delta[u]
<1>1. SharedTypes /\ LocksHeld /\ DeltasTrue /\ ClearsAlone
  BY DEF SharedInv
<1>0. PICK k \in Keys : k = call[t][1] /\ holder[ShardFor(k)] = t
  BY <1>1 DEF LocksHeld, AtWork
<1>2. /\ holder' = [holder EXCEPT ![ShardFor(k)] = None]
      /\ step' = [step EXCEPT ![t] = "idle"]
      /\ call' = [call EXCEPT ![t] = None] /\ delta' = [delta EXCEPT ![t] = 0]
  BY <1>0 DEF Release
<1>3. k \in Keys /\ holder[ShardFor(k)] = t
  BY <1>0
<1>4. /\ step'[t] = "idle" /\ DOMAIN call' = Tasks
      /\ \A u \in Tasks \ {t} : step'[u] = step[u] /\ call'[u] = call[u] /\ delta'[u] = delta[u]
  BY <1>1, <1>2 DEF SharedTypes
<1>5. SharedTypes'
  BY <1>1, <1>2, <1>4, Zenon DEF SharedTypes
<1>6. LocksHeld'
  <2> SUFFICES ASSUME NEW u \in Tasks, step'[u] \in AtWork
               PROVE  /\ call'[u] \in Keys \X (Values \cup {None})
                      /\ holder'[ShardFor(call'[u][1])] = u
    BY DEF LocksHeld, ShardFor
  <2>1. u # t /\ step[u] \in AtWork /\ call'[u] = call[u]
    BY <1>4 DEF AtWork
  <2>2. call[u] \in Keys \X (Values \cup {None}) /\ holder[ShardFor(call[u][1])] = u
    BY <1>1, <2>1 DEF LocksHeld
  <2>3. ShardFor(call[u][1]) # ShardFor(k) /\ ShardFor(call[u][1]) \in Shards
    BY <1>1, <1>3, <2>1, <2>2, ShardOf, SMTT(30)
  <2>4. QED
    BY <1>1, <1>2, <2>1, <2>2, <2>3 DEF SharedTypes
<1>7. DeltasTrue'
  BY <1>1, <1>4 DEF DeltasTrue
<1>8. Clearing' = Clearing /\ t \in Updating
  BY <1>4 DEF Clearing, Updating
<1>9. ClearsAlone'
  BY <1>1, <1>8 DEF ClearsAlone
<1>10. QED
  BY <1>4, <1>5, <1>6, <1>7, <1>8, <1>9

\* The key is counted as what it is now.
LEMMA SharedCounts ==
    ASSUME SharedInv, NEW t \in Tasks, Count(t)
    PROVE  SharedInv'
<1>1. SharedTypes /\ LocksHeld /\ DeltasTrue /\ LengthCounted
  BY DEF SharedInv
<1>0. PICK k \in Keys : k = call[t][1]
  BY <1>1 DEF LocksHeld, AtWork, Count
<1>2. /\ step[t] = "count" /\ Release(t) /\ UNCHANGED <<kind, entries, missed>>
      /\ total' = IF kind = "sharded" THEN (total + delta[t]) % Wrap
                  ELSE IF delta[t] = 0 THEN total ELSE Cardinality(Live)
  BY DEF Count
<1>3. missed' \in BOOLEAN
  BY <1>1, <1>2, SMTT(30) DEF SharedTypes
<1>4. /\ SharedTypes' /\ LocksHeld' /\ DeltasTrue' /\ ClearsAlone'
      /\ Clearing' = Clearing /\ step'[t] = "idle"
      /\ \A u \in Tasks \ {t} : step'[u] = step[u] /\ call'[u] = call[u] /\ delta'[u] = delta[u]
  BY <1>2, <1>3, SharedReleases
<1>5. k \in Keys /\ delta[t] \in {-1, 0, 1}
  BY <1>1 DEF SharedTypes
<1>6. \A u \in Tasks \ {t} : step[u] = "count" => call[u][1] # k
  BY <1>0, <1>1, <1>2 DEF LocksHeld, AtWork
<1>7. /\ Uncounted(k) <=> delta[t] # 0
      /\ ~ Uncounted(k)'
      /\ \A j \in Keys \ {k} : Uncounted(j)' <=> Uncounted(j)
  <2>1. Uncounted(k) <=> delta[t] # 0
    BY <1>0, <1>2, <1>6 DEF Uncounted
  <2>2. ~ Uncounted(k)'
    BY <1>4, <1>6, SMTT(30) DEF Uncounted
  <2>3. \A j \in Keys \ {k} : Uncounted(j)' <=> Uncounted(j)
    BY <1>0, <1>2, <1>4, SMTT(30) DEF Uncounted
  <2>4. QED
    BY <2>1, <2>2, <2>3
<1>8. /\ delta[t] = 1 => entries[k] # None
      /\ delta[t] = -1 => entries[k] = None
  BY <1>0, <1>1, <1>2 DEF DeltasTrue
<1>9. Counted \in SUBSET Keys /\ Counted' \in SUBSET Keys
  BY DEF Counted
<1>10. /\ delta[t] = 0 => Counted' = Counted
       /\ delta[t] = 1 => k \notin Counted /\ Counted' = Counted \cup {k}
       /\ delta[t] = -1 => k \in Counted /\ Counted' = Counted \ {k}
  <2>1. k \in Counted' <=> entries[k] # None
    BY <1>2, <1>5, <1>7 DEF Counted
  <2>2. k \in Counted <=> (entries[k] # None <=> delta[t] = 0)
    BY <1>5, <1>7 DEF Counted
  <2>3. \A j \in Keys \ {k} : j \in Counted' <=> j \in Counted
    BY <1>2, <1>7 DEF Counted
  <2>4. QED
    BY <1>5, <1>8, <1>9, <2>1, <2>2, <2>3, SMTT(30)
<1>11. ASSUME ~missed, kind = "concurrent" \/ Clearing = {}
       PROVE  total' = Cardinality(Counted')
  <2>1. total = Cardinality(Counted) /\ total \in Nat /\ IsFiniteSet(Counted)
    BY <1>1, <1>9, <1>11, CountedFits DEF LengthCounted
  <2>2. Cardinality(Counted') \in Nat /\ Cardinality(Counted') < Wrap /\ Wrap \in Nat
    BY <1>9, CountedFits, SharedListsAssumption
  <2>3. Cardinality(Counted') = total + delta[t]
    BY <1>5, <1>10, <2>1, FS_AddElement, FS_RemoveElement
  <2>4. CASE kind = "sharded"
    BY <1>2, <2>2, <2>3, <2>4, SmallMod
  <2>5. CASE kind # "sharded" /\ delta[t] = 0
    BY <1>2, <2>1, <2>3, <2>5
  <2>6. CASE kind # "sharded" /\ delta[t] # 0
    <3>1. \A u \in Tasks \ {t} : step[u] # "count"
      BY <1>1, <1>2, <2>6 DEF LocksHeld, AtWork, SharedTypes, ShardFor
    <3>2. \A j \in Keys : ~ Uncounted(j)'
      BY <1>4, <3>1 DEF Uncounted
    <3>3. Counted' = Live
      BY <1>2, <3>2 DEF Counted, Live
    <3>4. QED
      BY <1>2, <2>6, <3>3
  <2>7. QED
    BY <2>4, <2>5, <2>6
<1>12. LengthCounted'
  BY <1>2, <1>4, <1>11, Zenon DEF LengthCounted
<1>13. QED
  BY <1>4, <1>12 DEF SharedInv

\* A closure that panics leaves the counter behind, and that is noted.
LEMMA SharedPanics ==
    ASSUME SharedInv, NEW t \in Tasks, ClosurePanics(t)
    PROVE  SharedInv'
<1>1. /\ kind = "concurrent" /\ step[t] = "count" /\ missed' = TRUE /\ Release(t)
      /\ UNCHANGED <<kind, entries>>
  BY DEF ClosurePanics
<1>2. SharedTypes' /\ LocksHeld' /\ DeltasTrue' /\ ClearsAlone'
  BY <1>1, SharedReleases, Zenon
<1>3. LengthCounted'
  BY <1>1 DEF LengthCounted
<1>4. QED
  BY <1>2, <1>3 DEF SharedInv

\* A clear begins.
LEMMA SharedClears ==
    ASSUME SharedInv, NEW t \in Tasks, BeginClear(t)
    PROVE  SharedInv'
<1>1. SharedTypes /\ LocksHeld /\ DeltasTrue /\ ClearsAlone /\ LengthCounted
  BY DEF SharedInv
<1>2. /\ step[t] = "idle" /\ step' = [step EXCEPT ![t] = "clear"] /\ call' = [call EXCEPT ![t] = 0]
      /\ missed' = IF kind = "sharded" THEN Updating # {} \/ Clearing # {} ELSE missed
      /\ UNCHANGED <<kind, entries, holder, total, delta>>
  BY DEF BeginClear
<1>3. /\ step'[t] = "clear" /\ call'[t] = 0 /\ DOMAIN call' = Tasks
      /\ \A u \in Tasks \ {t} : step'[u] = step[u] /\ call'[u] = call[u]
  BY <1>1, <1>2 DEF SharedTypes
<1>4. SharedTypes'
  <2>1. 0 \in Shards
    BY SharedListsAssumption DEF Shards
  <2>2. missed' \in BOOLEAN
    BY <1>1, <1>2, Zenon DEF SharedTypes
  <2>3. QED
    BY <1>1, <1>2, <1>3, <2>1, <2>2 DEF SharedTypes
<1>5. LocksHeld' /\ DeltasTrue'
  BY <1>1, <1>2, <1>3 DEF LocksHeld, DeltasTrue, AtWork, ShardFor
<1>6. Updating' = Updating /\ Clearing' = Clearing \cup {t}
  BY <1>2, <1>3 DEF Updating, Clearing
<1>7. ClearsAlone'
  <2> SUFFICES ASSUME kind = "sharded", Updating = {}, Clearing = {}
               PROVE  ClearsAlone'
    BY <1>2, Zenon DEF ClearsAlone
  <2>1. Clearing' = {t} /\ Updating' = {}
    BY <1>6
  <2>2. \A u \in Tasks : u # t => step'[u] \notin {"clear", "reset"}
    BY <2>1 DEF Clearing
  <2>3. \A k \in Keys : ~ (ShardOfKey[k] < 0)
    BY SharedListsAssumption
  <2>4. QED
    BY <1>3, <2>1, <2>2, <2>3 DEF ClearsAlone
<1>8. Counted' = Counted
  BY <1>2, <1>3 DEF Counted, Uncounted
<1>9. LengthCounted'
  BY <1>1, <1>2, <1>6, <1>8 DEF LengthCounted, SharedTypes
<1>10. QED
  BY <1>4, <1>5, <1>7, <1>9 DEF SharedInv

\* A clear of the sharded list empties a shard that nobody is at work in.
LEMMA SharedClearsShard ==
    ASSUME SharedInv, NEW t \in Tasks, ClearShard(t)
    PROVE  SharedInv'
<1>1. SharedTypes /\ LocksHeld /\ DeltasTrue /\ ClearsAlone
  BY SMTT(30) DEF SharedInv
<1> DEFINE s == call[t]
<1>2. /\ kind = "sharded" /\ step[t] = "clear" /\ holder[s] = None
      /\ entries' = [k \in Keys |-> IF ShardOfKey[k] = s THEN None ELSE entries[k]]
      /\ UNCHANGED <<kind, holder, total, delta, missed>>
  BY DEF ClearShard
<1>3. /\ s + 1 < ShardCount => call' = [call EXCEPT ![t] = s + 1] /\ UNCHANGED step
      /\ ~ (s + 1 < ShardCount) => /\ call' = [call EXCEPT ![t] = None]
                                   /\ step' = [step EXCEPT ![t] = "reset"]
  BY SMTT(30) DEF ClearShard
<1>4. s \in Shards /\ s \in Nat /\ ShardCount \in Nat
  BY <1>1, <1>2, SharedListsAssumption DEF SharedTypes, Shards
<1> HIDE DEF s
<1>5. /\ s + 1 < ShardCount => step'[t] = "clear" /\ call'[t] = s + 1 /\ s + 1 \in Shards
      /\ ~ (s + 1 < ShardCount) => step'[t] = "reset"
      /\ DOMAIN call' = Tasks /\ DOMAIN step' = Tasks
      /\ \A u \in Tasks \ {t} : step'[u] = step[u] /\ call'[u] = call[u]
  BY <1>1, <1>2, <1>3, <1>4 DEF SharedTypes, Shards
<1>6. SharedTypes'
  <2>1. entries' \in [Keys -> Values \cup {None}]
    BY <1>1, <1>2 DEF SharedTypes
  <2>2. step' \in [Tasks -> {"idle", "apply", "count", "clear", "reset"}]
    BY <1>1, <1>3 DEF SharedTypes
  <2>3. QED
    BY <1>1, <1>2, <1>5, <2>1, <2>2 DEF SharedTypes
<1>7. ASSUME NEW u \in Tasks, step'[u] \in AtWork
      PROVE  /\ u # t /\ step[u] = step'[u] /\ call'[u] = call[u]
             /\ call[u] \in Keys \X (Values \cup {None})
             /\ holder[ShardOfKey[call[u][1]]] = u
             /\ entries'[call[u][1]] = entries[call[u][1]]
  <2>1. u # t /\ step[u] = step'[u] /\ call'[u] = call[u]
    <3>1. u # t
      BY <1>5, <1>7 DEF AtWork
    <3>2. QED
      BY <1>5, <3>1, Zenon
  <2>2. call[u] \in Keys \X (Values \cup {None}) /\ holder[ShardOfKey[call[u][1]]] = u
    <3>1. call[u] \in Keys \X (Values \cup {None}) /\ holder[ShardFor(call[u][1])] = u
      BY <1>1, <1>7, <2>1, Zenon DEF LocksHeld
    <3>2. ShardFor(call[u][1]) = ShardOfKey[call[u][1]]
      BY <1>2 DEF ShardFor
    <3>3. QED
      BY <3>1, <3>2, Zenon
  <2>3. ShardOfKey[call[u][1]] # s
    BY <1>2, <2>2, SharedListsAssumption
  <2>4. QED
    BY <1>2, <2>1, <2>2, <2>3
<1>8. LocksHeld'
  BY <1>2, <1>7 DEF LocksHeld, ShardFor
<1>9. DeltasTrue'
  BY <1>1, <1>2, <1>7 DEF DeltasTrue, AtWork
<1>10. Updating' = Updating /\ Clearing' = Clearing /\ t \in Clearing
  BY <1>2, <1>5 DEF Updating, Clearing
<1>11. ClearsAlone'
  <2> SUFFICES ASSUME ~missed
               PROVE  ClearsAlone'
    BY <1>2 DEF ClearsAlone
  <2>1. /\ Updating = {} /\ \A u \in Clearing : u = t
        /\ \A k \in Keys : ShardOfKey[k] < s => entries[k] = None
    BY <1>1, <1>2, <1>10 DEF ClearsAlone, s
  <2>2. \A u \in Tasks : step'[u] \in {"clear", "reset"} => u = t
    BY <1>10, <2>1 DEF Clearing
  <2>3. \A k \in Keys : ShardOfKey[k] < s + 1 => entries'[k] = None
    BY <1>2, <1>4, <2>1, SharedListsAssumption
  <2>4. ~ (s + 1 < ShardCount) => \A k \in Keys : ShardOfKey[k] < s + 1
    BY <1>4, SharedListsAssumption
  <2>5. QED
    BY <1>5, <1>10, <2>1, <2>2, <2>3, <2>4, SMTT(30) DEF ClearsAlone
<1>12. LengthCounted'
  BY <1>2, <1>10 DEF LengthCounted
<1>13. QED
  BY <1>6, <1>8, <1>9, <1>11, <1>12 DEF SharedInv

\* Without a thread at work an empty list has nothing that is counted.
LEMMA NothingCounted ==
    ASSUME \A k \in Keys : entries[k] = None, \A t \in Tasks : step[t] # "count"
    PROVE  Cardinality(Counted) = 0
<1>1. Counted = {}
  BY DEF Counted, Uncounted
<1>2. QED
  BY <1>1, FS_EmptySet

\* The counter of the sharded list is reset.
LEMMA SharedResets ==
    ASSUME SharedInv, NEW t \in Tasks, ResetTotal(t)
    PROVE  SharedInv'
<1>1. SharedTypes /\ LocksHeld /\ DeltasTrue /\ ClearsAlone
  BY DEF SharedInv
<1>2. /\ step[t] = "reset" /\ total' = 0 /\ step' = [step EXCEPT ![t] = "idle"]
      /\ UNCHANGED <<kind, entries, holder, call, delta, missed>>
  BY DEF ResetTotal
<1>3. step'[t] = "idle" /\ \A u \in Tasks \ {t} : step'[u] = step[u]
  BY <1>1, <1>2 DEF SharedTypes
<1>4. SharedTypes' /\ LocksHeld' /\ DeltasTrue'
  BY <1>1, <1>2, <1>3 DEF SharedTypes, LocksHeld, DeltasTrue, ShardFor, AtWork
<1>5. kind = "sharded" /\ t \in Clearing /\ Clearing' = Clearing \ {t} /\ Updating' = Updating
  BY <1>1, <1>2, <1>3 DEF SharedTypes, Clearing, Updating
<1>6. ClearsAlone'
  BY <1>1, <1>2, <1>5 DEF ClearsAlone
<1>7. LengthCounted'
  <2> SUFFICES ASSUME ~missed PROVE 0 = Cardinality(Counted)'
    BY <1>2 DEF LengthCounted
  <2>1. Updating' = {} /\ \A k \in Keys : entries'[k] = None
    BY <1>1, <1>2, <1>5 DEF ClearsAlone
  <2>2. \A u \in Tasks : step'[u] # "count"
    BY <2>1 DEF Updating
  <2>3. Counted' = {}
    BY <2>1, <2>2 DEF Counted, Uncounted
  <2>4. QED
    BY <2>3, FS_EmptySet
<1>8. QED
  BY <1>4, <1>6, <1>7 DEF SharedInv

\* The concurrent list is cleared under its lock, with its counter.
LEMMA SharedClearsLocked ==
    ASSUME SharedInv, NEW t \in Tasks, ClearLocked(t)
    PROVE  SharedInv'
<1>1. SharedTypes /\ LocksHeld /\ DeltasTrue
  BY DEF SharedInv
<1>2. /\ kind = "concurrent" /\ step[t] = "clear" /\ holder[0] = None
      /\ entries' = [k \in Keys |-> None] /\ total' = 0
      /\ step' = [step EXCEPT ![t] = "idle"] /\ call' = [call EXCEPT ![t] = None]
      /\ missed' = FALSE /\ UNCHANGED <<kind, holder, delta>>
  BY DEF ClearLocked
<1>3. /\ step'[t] = "idle" /\ DOMAIN call' = Tasks
      /\ \A u \in Tasks \ {t} : step'[u] = step[u] /\ call'[u] = call[u]
  BY <1>1, <1>2 DEF SharedTypes
<1>4. \A u \in Tasks : step'[u] \notin AtWork
  BY <1>1, <1>2, <1>3, SharedListsAssumption DEF LocksHeld, ShardFor, AtWork
<1>5. SharedTypes'
  <2>1. entries' \in [Keys -> Values \cup {None}] /\ step' \in [Tasks -> {"idle", "apply", "count", "clear", "reset"}]
    BY <1>1, <1>2 DEF SharedTypes
  <2>2. QED
    BY <1>1, <1>2, <1>3, <2>1, Zenon DEF SharedTypes
<1>6. LocksHeld' /\ DeltasTrue' /\ ClearsAlone'
  BY <1>2, <1>4 DEF LocksHeld, DeltasTrue, ClearsAlone, AtWork
<1>7. Counted' = {}
  BY <1>2, <1>4 DEF Counted, Uncounted, AtWork
<1>8. LengthCounted'
  BY <1>2, <1>7, FS_EmptySet DEF LengthCounted
<1>9. QED
  BY <1>5, <1>6, <1>8 DEF SharedInv

\* len of either list is the number of its elements whenever no call is in
\* progress, for any number of threads, keys and shards; unless, since the last
\* clear, an update met a clear of the sharded list or a closure panicked in
\* the concurrent one.
THEOREM SharedLenIsExact == SharedSpec => []SharedLenExact
<1>1. SharedInit => SharedInv
  <2> SUFFICES ASSUME SharedInit PROVE SharedInv
    OBVIOUS
  <2>1. SharedTypes
    BY SharedListsAssumption DEF SharedInit, SharedTypes
  <2>2. LocksHeld /\ DeltasTrue /\ ClearsAlone
    BY DEF SharedInit, LocksHeld, DeltasTrue, ClearsAlone, Clearing, AtWork
  <2>3. Cardinality(Counted) = 0
    BY NothingCounted DEF SharedInit
  <2>4. QED
    BY <2>1, <2>2, <2>3 DEF SharedInv, LengthCounted, SharedInit
<1>2. SharedInv /\ [SharedNext]_sharedVars => SharedInv'
  <2> SUFFICES ASSUME SharedInv, [SharedNext]_sharedVars PROVE SharedInv'
    OBVIOUS
  <2>1. CASE SharedNext
    BY <2>1, SharedBegins, SharedApplies, SharedCounts, SharedPanics, SharedClears, SharedClearsShard,
       SharedResets, SharedClearsLocked DEF SharedNext
  <2>2. CASE UNCHANGED sharedVars
    <3>1. SharedTypes' /\ DeltasTrue'
      BY <2>2 DEF sharedVars, SharedInv, SharedTypes, DeltasTrue
    <3>2. LocksHeld'
      BY <2>2 DEF sharedVars, SharedInv, LocksHeld, ShardFor
    <3>3. ClearsAlone'
      BY <2>2 DEF sharedVars, SharedInv, ClearsAlone, Updating, Clearing
    <3>4. LengthCounted'
      BY <2>2 DEF sharedVars, SharedInv, LengthCounted, Counted, Uncounted, Clearing
    <3>5. QED
      BY <3>1, <3>2, <3>3, <3>4 DEF SharedInv
  <2>3. QED
    BY <2>1, <2>2
<1>3. SharedInv => SharedLenExact
  <2> SUFFICES ASSUME SharedInv, Updating = {}, Clearing = {}, ~missed
               PROVE  total = Cardinality(Live)
    BY DEF SharedLenExact
  <2>1. \A k \in Keys : ~ Uncounted(k)
    BY DEF Updating, Uncounted
  <2>2. Counted = Live
    BY <2>1 DEF Counted, Live
  <2>3. QED
    BY <2>2 DEF SharedInv, LengthCounted
<1>4. QED
  BY <1>1, <1>2, <1>3, PTL DEF SharedSpec

(***************************************************************************)
(* ExpireMap and Stream                                                    *)
(***************************************************************************)
\* A deadline is the one of the last set and is in the heap; a key whose last
\* deadline is still to come has not been dropped.
ExpireInv ==
    /\ now \in Nat
    /\ DOMAIN deadlines \subseteq TimedKeys /\ DOMAIN lasts \subseteq TimedKeys
    /\ \A k \in DOMAIN lasts : lasts[k] \in Nat
    /\ \A k \in DOMAIN deadlines :
          k \in DOMAIN lasts /\ deadlines[k] = lasts[k] /\ <<deadlines[k], k>> \in queue
    /\ \A k \in DOMAIN lasts : lasts[k] > now => k \in DOMAIN deadlines

\* What purge drops is what has run out, whatever else the heap holds.
LEMMA OverdueExact ==
    ASSUME ExpireInv, NEW k \in DOMAIN deadlines
    PROVE  /\ k \in Overdue <=> deadlines[k] <= now
           /\ deadlines[k] = lasts[k] /\ k \in DOMAIN lasts /\ lasts[k] \in Nat /\ now \in Nat
<1>1. <<deadlines[k], k>> \in queue
  BY DEF ExpireInv
<1>2. ASSUME deadlines[k] <= now
      PROVE  k \in {e[2] : e \in {q \in queue : q[1] <= now}}
  <2>1. <<deadlines[k], k>>[1] <= now /\ <<deadlines[k], k>>[2] = k
    BY <1>2
  <2>2. QED
    BY <1>1, <2>1
<1>3. k \in Overdue <=> deadlines[k] <= now
  BY <1>2 DEF Overdue
<1>4. QED
  BY <1>3, Zenon DEF ExpireInv

\* Every call and the clock keep the deadlines and the heap in step.
LEMMA ExpireStep ==
    ASSUME ExpireInv, [ExpireNext]_expireVars
    PROVE  ExpireInv'
<1>1. CASE ClockTicks
  BY <1>1 DEF ClockTicks, ExpireInv
<1>2. ASSUME NEW key \in TimedKeys, NEW ttl \in Ttls, ExpireSet(key, ttl)
      PROVE  ExpireInv'
  <2>1. now + ttl \in Nat /\ now' = now
    BY <1>2, TimedAssumption DEF ExpireSet, ExpireInv
  <2>2. /\ DOMAIN deadlines' = DOMAIN deadlines \cup {key}
        /\ deadlines'[key] = now + ttl
        /\ \A k \in DOMAIN deadlines \ {key} : deadlines'[k] = deadlines[k]
    BY <1>2 DEF ExpireSet, SetKey
  <2>3. /\ DOMAIN lasts' = DOMAIN lasts \cup {key}
        /\ lasts'[key] = now + ttl
        /\ \A k \in DOMAIN lasts \ {key} : lasts'[k] = lasts[k]
    BY <1>2 DEF ExpireSet, SetKey
  <2>4. queue' = queue \cup {<<now + ttl, key>>}
    BY <1>2 DEF ExpireSet
  <2>5. QED
    BY <1>2, <2>1, <2>2, <2>3, <2>4 DEF ExpireInv
<1>3. ASSUME NEW key \in TimedKeys, ExpireRemove(key)
      PROVE  ExpireInv'
  BY <1>3, SMTT(30) DEF ExpireRemove, ForgetKeys, ExpireInv
<1>4. CASE ExpirePurge
  <2>1. /\ DOMAIN deadlines' = DOMAIN deadlines \ Overdue
        /\ \A k \in DOMAIN deadlines' : deadlines'[k] = deadlines[k]
    BY <1>4 DEF ExpirePurge, ForgetKeys
  <2>2. UNCHANGED <<now, lasts>> /\ queue' = {e \in queue : e[1] > now}
    BY <1>4 DEF ExpirePurge
  <2>3. ASSUME NEW k \in DOMAIN deadlines'
        PROVE  k \in DOMAIN lasts /\ deadlines'[k] = lasts[k] /\ <<deadlines'[k], k>> \in queue'
    <3>1. k \in DOMAIN deadlines /\ deadlines[k] > now
      BY <2>1, OverdueExact
    <3>2. QED
      BY <2>1, <2>2, <3>1 DEF ExpireInv
  <2>4. ASSUME NEW k \in DOMAIN lasts, lasts[k] > now
        PROVE  k \in DOMAIN deadlines'
    <3>1. k \in DOMAIN deadlines
      BY <2>4 DEF ExpireInv
    <3>2. QED
      BY <2>1, <2>4, <3>1, OverdueExact
  <2>5. QED
    BY <2>1, <2>2, <2>3, <2>4 DEF ExpireInv
<1>5. CASE UNCHANGED expireVars
  BY <1>5 DEF expireVars, ExpireInv
<1>6. QED
  BY <1>1, <1>2, <1>3, <1>4, <1>5 DEF ExpireNext

\* The sequence numbers grow, and so do the times while the clock does not go
\* back.
StreamInv ==
    /\ wall \in Nat /\ steady \in BOOLEAN /\ nextSequence \in Nat /\ stream \in Seq(Nat \X Nat)
    /\ \A i \in 1..Len(stream) :
          stream[i][2] < nextSequence /\ (steady => stream[i][1] <= wall)
    /\ \A i, j \in 1..Len(stream) : i < j =>
          stream[i][2] < stream[j][2] /\ (steady => stream[i][1] <= stream[j][1])

\* xadd and a clock that moves either way keep the numbers in order.
LEMMA StreamStep ==
    ASSUME StreamInv, [StreamNext]_streamVars
    PROVE  StreamInv'
<1>1. ASSUME NEW t \in 0..MaxWall, WallMoves(t)
      PROVE  StreamInv'
  <2>1. /\ t \in Nat /\ wall' = t /\ UNCHANGED <<stream, nextSequence>>
        /\ steady' \in BOOLEAN /\ (steady' => steady /\ t >= wall)
    <3>1. t \in Nat /\ wall' = t /\ UNCHANGED <<stream, nextSequence>>
      BY <1>1, TimedAssumption DEF WallMoves
    <3>2. steady' = (steady /\ t >= wall)
      BY <1>1 DEF WallMoves
    <3>3. steady' \in BOOLEAN /\ (steady' => steady /\ t >= wall)
      BY <3>2, Zenon
    <3>4. QED
      BY <3>1, <3>3
  <2>2. ASSUME NEW i \in 1..Len(stream) PROVE stream[i] \in Nat \X Nat
    BY DEF StreamInv
  <2>3. ASSUME NEW i \in 1..Len(stream) PROVE stream[i][2] < nextSequence /\ (steady' => stream[i][1] <= t)
    BY <2>1, <2>2 DEF StreamInv
  <2>4. QED
    BY <2>1, <2>3 DEF StreamInv
<1>2. CASE StreamAdd
  <2> DEFINE id == <<wall, nextSequence>>
  <2>1. stream' = Append(stream, id) /\ nextSequence' = nextSequence + 1 /\ UNCHANGED <<wall, steady>>
    BY <1>2 DEF StreamAdd
  <2>2. id \in Nat \X Nat /\ id[1] = wall /\ id[2] = nextSequence /\ stream \in Seq(Nat \X Nat)
    BY DEF StreamInv
  <2> HIDE DEF id
  <2>3. /\ stream' \in Seq(Nat \X Nat) /\ Len(stream') = Len(stream) + 1
        /\ stream'[Len(stream) + 1] = id
        /\ \A i \in 1..Len(stream) : stream'[i] = stream[i]
    BY <2>1, <2>2
  <2>4. ASSUME NEW i \in 1..Len(stream')
        PROVE  stream'[i][2] < nextSequence' /\ (steady => stream'[i][1] <= wall)
    BY <2>1, <2>2, <2>3 DEF StreamInv
  <2>5. ASSUME NEW i \in 1..Len(stream'), NEW j \in 1..Len(stream'), i < j
        PROVE  stream'[i][2] < stream'[j][2] /\ (steady => stream'[i][1] <= stream'[j][1])
    <3>1. i \in 1..Len(stream)
      BY <2>2, <2>3, <2>5
    <3>2. CASE j \in 1..Len(stream)
      BY <2>3, <2>5, <3>1, <3>2, Zenon DEF StreamInv
    <3>3. CASE j = Len(stream) + 1
      BY <2>2, <2>3, <3>1, <3>3 DEF StreamInv
    <3>4. QED
      BY <2>2, <2>3, <3>2, <3>3
  <2>6. QED
    BY <2>1, <2>3, <2>4, <2>5 DEF StreamInv
<1>3. CASE UNCHANGED streamVars
  BY <1>3 DEF streamVars, StreamInv
<1>4. QED
  BY <1>1, <1>2, <1>3 DEF StreamNext

\* A key of an ExpireMap is found exactly until the time of its last set runs
\* out, and a stream gives no id twice and, while the clock does not go back,
\* growing ones; for any keys, times and number of calls.
THEOREM TimesAreRight == ExpireSpec /\ StreamSpec => []TimedExact
<1>1. ExpireInit => ExpireInv
  BY DEF ExpireInit, ExpireInv
<1>2. StreamInit => StreamInv
  BY DEF StreamInit, StreamInv
<1>3. ExpireInv => ExpiryExact
  <2> SUFFICES ASSUME ExpireInv, NEW k \in TimedKeys
               PROVE  ExpireGet(k) <=> k \in DOMAIN lasts /\ lasts[k] > now
    BY DEF ExpiryExact
  <2>1. ExpireGet(k) <=> k \in DOMAIN deadlines /\ k \notin Overdue
    BY DEF ExpireGet, ForgetKeys
  <2>2. k \in DOMAIN lasts /\ lasts[k] > now => k \in DOMAIN deadlines
    BY DEF ExpireInv
  <2>3. QED
    BY <2>1, <2>2, OverdueExact
<1>4. StreamInv => StreamIds
  <2> SUFFICES ASSUME StreamInv, NEW i \in DOMAIN stream, NEW j \in DOMAIN stream, i < j
               PROVE  /\ stream[i] # stream[j]
                      /\ steady => \/ stream[i][1] < stream[j][1]
                                   \/ stream[i][1] = stream[j][1] /\ stream[i][2] < stream[j][2]
    BY DEF StreamIds
  <2>1. stream[i] \in Nat \X Nat /\ stream[j] \in Nat \X Nat
    BY DEF StreamInv
  <2>2. stream[i][2] < stream[j][2] /\ (steady => stream[i][1] <= stream[j][1])
    <3>1. i \in 1..Len(stream) /\ j \in 1..Len(stream)
      BY DEF StreamInv
    <3>2. QED
      BY <3>1 DEF StreamInv
  <2>3. QED
    BY <2>1, <2>2
<1>5. ExpireSpec => []ExpireInv
  BY <1>1, ExpireStep, PTL DEF ExpireSpec
<1>6. StreamSpec => []StreamInv
  BY <1>2, StreamStep, PTL DEF StreamSpec
<1>7. ExpireInv /\ StreamInv => TimedExact
  BY <1>3, <1>4 DEF TimedExact
<1>8. QED
  BY <1>5, <1>6, <1>7, PTL
==============================================================================
