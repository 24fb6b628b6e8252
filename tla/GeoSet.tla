------------------------------- MODULE GeoSet -------------------------------
(***************************************************************************)
(* A set of named places and its three indexes (src/src/database/geo): the *)
(* map of the members (member_index), the R-tree of the entries ever added *)
(* since it was last rebuilt, and the members by geohash cell.  Angles are *)
(* whole numbers of Quarter to the right angle: longitudes go round the    *)
(* sphere from -180 to 180 degrees, latitudes from pole to pole.  A radius *)
(* is the angle its metres take up on the sphere.  A geohash character     *)
(* holds one bit here, five in the code.                                   *)
(***************************************************************************)
EXTENDS Integers, Sequences, FiniteSets, SequencesExt, FiniteSetsExt

CONSTANTS
    Members,           \* names, as numbers: knn orders equal distances by name
    Places,            \* the points added, <<lon, lat>>
    Centres,           \* the centres of the queries
    Radii,             \* their radii
    Quarter,           \* the units of a right angle
    Cosines,           \* the cosines of 0..Quarter, in hundredths
    MaxEntries,        \* MAX_ENTRIES of a node
    High, Medium,      \* characters of two geohash precisions
    RadiusSteps,       \* from_radius: <<radius, precision>>, the largest first
    Finest,            \* and the precision of smaller radii
    MaxTree            \* bound: entries in the tree

VARIABLE gs

geoVars == gs

--------------------------------------------------------------------------------
(* BoundingBox: <<min_lon, max_lon, min_lat, max_lat>>                     *)

Square(x) == x * x
Least(a, b) == IF a < b THEN a ELSE b
Greatest(a, b) == IF a < b THEN b ELSE a
Abs(x) == IF x < 0 THEN - x ELSE x

BoxOf(p) == <<p[1], p[1], p[2], p[2]>>
Expand(a, b) == <<Least(a[1], b[1]), Greatest(a[2], b[2]), Least(a[3], b[3]), Greatest(a[4], b[4])>>
Area(b) == (b[2] - b[1]) * (b[4] - b[3])
Intersects(a, b) == ~ (a[2] < b[1] \/ a[1] > b[2] \/ a[4] < b[3] \/ a[3] > b[4])
Inside(b, p) == p[1] \in b[1]..b[2] /\ p[2] \in b[3]..b[4]

\* Degrees are compared by their squares.
Degrees(p, q) == Square(p[1] - q[1]) + Square(p[2] - q[2])

Hundred == 100

Cos(a) ==
    LET x == Abs(a)
    IN  CASE x <= Quarter     -> Cosines[x]
          [] x > 3 * Quarter  -> Cosines[4 * Quarter - x]
          [] OTHER            -> - Cosines[Abs(2 * Quarter - x)]

\* Twice sin^2(a / 2), from 0 to 200
Versine(a) == Hundred - Cos(a)

\* Twice the `a` of the haversine formula, which grows with the distance.  It
\* is periodic in the longitude.
Haversine(p, q) ==
    Square(Hundred) * Versine(q[2] - p[2]) + Cos(p[2]) * Cos(q[2]) * Versine(q[1] - p[1])

\* The distance in metres where it meets one in degrees: places that are not
\* the same are further apart in metres than any two are in degrees.
Metres(p, q) ==
    IF Haversine(p, q) = 0 THEN 0
    ELSE Degrees(<<0, 0>>, <<4 * Quarter, 2 * Quarter>>) + Haversine(p, q)

\* Twice the centre, so that it stays a whole number
Middle(b) == <<b[1] + b[2], b[3] + b[4]>>

\* min_distance_to_point
BoxDistance(b, p) ==
    Degrees(<<0, 0>>, <<Greatest(0, Greatest(b[1] - p[1], p[1] - b[2])),
                        Greatest(0, Greatest(b[3] - p[2], p[2] - b[4]))>>)

--------------------------------------------------------------------------------
(* The R-tree.  A node has its box cached; a leaf's items are entries.     *)

NoTree == [leaf |-> TRUE, items |-> <<>>, box |-> <<>>]

ItemBox(leaf, x) == IF leaf THEN BoxOf(x.point) ELSE x.box

BoxOfAll(leaf, items) ==
    FoldLeft(LAMBDA b, x: Expand(b, ItemBox(leaf, x)), ItemBox(leaf, items[1]), items)

\* A node after update_bbox
Node(leaf, items) == [leaf |-> leaf, items |-> items, box |-> BoxOfAll(leaf, items)]

Enlargement(b, c) == Area(Expand(b, c)) - Area(b)

\* The first child whose area grows least
ChooseSubtree(children, e) ==
    LET grows(i) == Enlargement(children[i].box, BoxOf(e.point))
    IN  CHOOSE i \in DOMAIN children :
            \A j \in DOMAIN children : grows(i) < grows(j) \/ (grows(i) = grows(j) /\ i <= j)

\* pick_seeds: the first of the pairs that are furthest apart
PickSeeds(leaf, items) ==
    LET far(s) == Degrees(Middle(ItemBox(leaf, items[s[1]])), Middle(ItemBox(leaf, items[s[2]])))
        pairs == {s \in (1..Len(items)) \X (1..Len(items)) : s[1] < s[2]}
        best == {s \in pairs : \A t \in pairs : far(t) <= far(s)}
    IN  CHOOSE s \in best : \A t \in best : s[1] < t[1] \/ (s[1] = t[1] /\ s[2] <= t[2])

\* Mutant of SplitNode: the entry that started the second group is forgotten.
SplitNodeForgets(leaf, items) ==
    LET seeds == PickSeeds(leaf, items)
    IN  <<Node(leaf, RemoveAt(items, seeds[1])), Node(leaf, <<items[seeds[2]]>>)>>

\* The two nodes an overfull one becomes: the seeds found two groups, and the
\* other items go where they enlarge the box less.
SplitNode(leaf, items) ==
    LET seeds == PickSeeds(leaf, items)
        rest == RemoveAt(RemoveAt(items, seeds[2]), seeds[1])
        place(groups, x) ==
            LET grows(i) == Enlargement(BoxOfAll(leaf, groups[i]), ItemBox(leaf, x))
            IN  IF grows(1) < grows(2)
                THEN <<Append(groups[1], x), groups[2]>>
                ELSE <<groups[1], Append(groups[2], x)>>
        groups == FoldLeft(place, << <<items[seeds[2]]>>, <<items[seeds[1]]>> >>, rest)
    IN  <<Node(leaf, groups[1]), Node(leaf, groups[2])>>

\* A node with its new items, split if they are too many
Grown(node, items) ==
    IF Len(items) <= MaxEntries THEN <<Node(node.leaf, items)>> ELSE SplitNode(node.leaf, items)

RECURSIVE InsertInto(_, _)
InsertInto(node, e) ==
    IF node.leaf
    THEN Grown(node, Append(node.items, e))
    ELSE LET best == ChooseSubtree(node.items, e)
             new == InsertInto(node.items[best], e)
         IN  Grown(node, [node.items EXCEPT ![best] = new[1]] \o Tail(new))

\* RTree::insert
Insert(tree, e) ==
    LET new == InsertInto(tree, e)
    IN  IF tree = NoTree THEN Node(TRUE, <<e>>)
        ELSE IF Len(new) = 1 THEN new[1]
        ELSE Node(FALSE, new)

\* A stable sort by one coordinate
SortBy(entries, axis) ==
    LET before(i, j) == LET a == entries[i].point[axis]
                            b == entries[j].point[axis]
                        IN  a < b \/ (a = b /\ i < j)
        order == SetToSortSeq(DOMAIN entries, before)
    IN  [n \in DOMAIN entries |-> entries[order[n]]]

CeilDiv(a, b) == (a + b - 1) \div b
CeilSqrt(n) == CHOOSE r \in 0..n : r * r >= n /\ \A q \in 0..(r - 1) : q * q < n

\* build_str_tree
RECURSIVE StrTree(_)
StrTree(entries) ==
    LET n == Len(entries)
        size == CeilDiv(n, Greatest(2, CeilSqrt(n)))
        slice(i) == SubSeq(entries, size * (i - 1) + 1, Least(size * i, n))
    IN  IF n <= MaxEntries
        THEN Node(TRUE, entries)
        ELSE Node(FALSE, [i \in 1..CeilDiv(n, size) |-> StrTree(SortBy(slice(i), 2))])

BulkLoad(entries) == IF entries = <<>> THEN NoTree ELSE StrTree(SortBy(entries, 1))

\* range_query_recursive
RECURSIVE RangeQuery(_, _)
RangeQuery(node, box) ==
    IF node = NoTree \/ ~ Intersects(node.box, box) THEN <<>>
    ELSE IF node.leaf THEN SelectSeq(node.items, LAMBDA e: Inside(box, e.point))
    ELSE FlattenSeq([i \in DOMAIN node.items |-> RangeQuery(node.items[i], box)])

(***************************************************************************)
(* The loop of knn.  The queue holds nodes at their distance in degrees    *)
(* and entries at theirs in metres.  An item further than the worst of k   *)
(* results is passed over; otherwise an entry becomes a result, in the     *)
(* place of the worst, and a node is replaced by what it holds.            *)
(***************************************************************************)
RECURSIVE KnnLoop(_, _, _, _)
KnnLoop(queue, results, p, k) ==
    LET first == CHOOSE i \in DOMAIN queue : \A j \in DOMAIN queue : queue[i].dist <= queue[j].dist
        item == queue[first]
        rest == RemoveAt(queue, first)
        worst == CHOOSE i \in DOMAIN results : \A j \in DOMAIN results : results[j].dist <= results[i].dist
        more == Append(results, [entry |-> item.what, dist |-> item.dist])
        last == CHOOSE i \in DOMAIN more : \A j \in DOMAIN more : more[j].dist <= more[i].dist
        below == [i \in DOMAIN item.what.items |->
                    LET x == item.what.items[i]
                    IN  IF item.what.leaf
                        THEN [dist |-> Metres(p, x.point), what |-> x, isEntry |-> TRUE]
                        ELSE [dist |-> BoxDistance(x.box, p), what |-> x, isEntry |-> FALSE]]
    IN  IF queue = <<>> THEN results
        ELSE IF Len(results) >= k /\ item.dist > results[worst].dist
             THEN KnnLoop(rest, results, p, k)
        ELSE IF item.isEntry
             THEN KnnLoop(rest, IF Len(more) > k THEN RemoveAt(more, last) ELSE more, p, k)
        ELSE KnnLoop(rest \o below, results, p, k)

Knn(tree, p, k) ==
    IF tree = NoTree \/ k = 0 THEN <<>>
    ELSE SortSeq(KnnLoop(<<[dist |-> 0, what |-> tree, isEntry |-> FALSE]>>, <<>>, p, k),
                 LAMBDA a, b: a.dist < b.dist \/ (a.dist = b.dist /\ a.entry.member < b.entry.member))

--------------------------------------------------------------------------------
(* Geohashes                                                               *)

\* The bits of a coordinate: each halves what is left of lo..hi.
RECURSIVE Refine(_, _, _, _)
Refine(v, lo, hi, bits) ==
    LET mid == (lo + hi) \div 2
    IN  IF bits = 0 THEN <<>>
        ELSE IF v >= mid THEN <<1>> \o Refine(v, mid, hi, bits - 1)
        ELSE <<0>> \o Refine(v, lo, mid, bits - 1)

\* encode_base32: the bits of the longitude and of the latitude in turn
Geohash(p, chars) ==
    LET lon == Refine(p[1], -2 * Quarter, 2 * Quarter, (chars + 1) \div 2)
        lat == Refine(p[2], -Quarter, Quarter, chars \div 2)
    IN  [i \in 1..chars |-> IF i % 2 = 1 THEN lon[(i + 1) \div 2] ELSE lat[i \div 2]]

\* decode_bbox
DecodeBox(hash) ==
    LET halve(b, i) ==
            LET lo == IF i % 2 = 1 THEN 1 ELSE 3
                mid == (b[lo] + b[lo + 1]) \div 2
            IN  IF hash[i] = 1 THEN [b EXCEPT ![lo] = mid] ELSE [b EXCEPT ![lo + 1] = mid]
    IN  FoldLeft(halve, <<-2 * Quarter, 2 * Quarter, -Quarter, Quarter>>, [i \in DOMAIN hash |-> i])

\* all_neighbors: the cells a step north, south, east and west of its centre.
\* At the edge of the map a step ends in the cell itself.
Neighbours(hash) ==
    LET b == DecodeBox(hash)
        x == (b[1] + b[2]) \div 2   w == b[2] - b[1]
        y == (b[3] + b[4]) \div 2   h == b[4] - b[3]
    IN  {Geohash(q, Len(hash)) : q \in {<<x, y + h>>, <<x, y - h>>, <<x + w, y>>, <<x - w, y>>}}

\* geohash_ranges_for_bbox: every hash of `chars` that continues the prefix the
\* corners share; the empty prefix when they share none.
BoxRanges(b, chars) ==
    LET sw == Geohash(<<b[1], b[3]>>, chars)
        ne == Geohash(<<b[2], b[4]>>, chars)
        common == LongestCommonPrefix({sw, ne})
    IN  IF common = <<>> THEN {<<>>}
        ELSE {common \o more : more \in [1..(chars - Len(common)) -> {0, 1}]}

\* GeohashPrecision::from_radius
FromRadius(r) ==
    LET over == {i \in DOMAIN RadiusSteps : r > RadiusSteps[i][1]}
    IN  IF over = {} THEN Finest ELSE RadiusSteps[Min(over)][2]

--------------------------------------------------------------------------------
(* GeoSet                                                                  *)

Known == DOMAIN gs.index

\* The members filed under one geohash
Bucket(cell) == IF cell \in DOMAIN gs.cells THEN gs.cells[cell] ELSE <<>>

File(cells, m, p) ==
    LET cell == Geohash(p, High)
    IN  [c \in DOMAIN cells \cup {cell} |->
            LET old == IF c \in DOMAIN cells THEN cells[c] ELSE <<>>
            IN  IF c = cell THEN Append(old, m) ELSE old]

FileAll(entries) ==
    FoldLeft(LAMBDA cells, e: File(cells, e.member, e.point), [c \in {} |-> <<>>], entries)

Loaded(entries) ==
    [tree  |-> BulkLoad(entries), size |-> Len(entries), stale |-> FALSE,
     index |-> [m \in {entries[i].member : i \in DOMAIN entries} |->
                    entries[CHOOSE i \in DOMAIN entries : entries[i].member = m].point],
     cells |-> FileAll(entries)]

ValidCoords(p) == Abs(p[1]) <= 2 * Quarter /\ Abs(p[2]) <= Quarter

\* new(), or from_entries() with one place for each of the members.  It does
\* not check the places as add does: valid ones are given.
GeoInit ==
    \/ gs = Loaded(<<>>)
    \/ \E at \in [Members -> {p \in Places : ValidCoords(p)}] :
           gs = Loaded(SetToSeq({[member |-> m, point |-> at[m]] : m \in Members}))

\* add: a place of a known member is added to the tree a second time, and its
\* cell is left as it was.
Add(m, p) ==
    /\ gs.size < MaxTree
    /\ IF ~ ValidCoords(p) THEN UNCHANGED gs
       ELSE gs' = [gs EXCEPT !.index = [n \in Known \cup {m} |-> IF n = m THEN p ELSE gs.index[n]],
                             !.stale = @ \/ (m \in Known /\ gs.index[m] # p),
                             !.cells = IF m \in Known THEN @ ELSE File(@, m, p),
                             !.tree = Insert(@, [member |-> m, point |-> p]),
                             !.size = @ + 1]

\* rebuild_index, which a radius query calls first: the members in any order
RebuildIndex ==
    /\ gs.stale
    /\ \E entries \in SetToSeqs({[member |-> m, point |-> gs.index[m]] : m \in Known}) :
           gs' = Loaded(entries)

GeoNext ==
    \/ \E m \in Members, p \in Places : Add(m, p)
    \/ RebuildIndex

GeoSpec == GeoInit /\ [][GeoNext]_geoVars

\* The whole units in a radius' degrees, at 111000 metres to the degree where
\* the sphere has 111195, and at the cosine of a latitude, 0.01 or more
LatDelta(r) == (r * 111195) \div 111000
LonDelta(lat, r) == (r * 111195 * Hundred) \div (111000 * Greatest(Cos(lat), 1))

\* radius_to_bbox: the box ends at the 180th meridian and at the poles.
RadiusBox(c, r) ==
    LET lon == LonDelta(c[2], r)
        lat == LatDelta(r)
    IN  <<Greatest(c[1] - lon, -2 * Quarter), Least(c[1] + lon, 2 * Quarter),
          Greatest(c[2] - lat, -Quarter), Least(c[2] + lat, Quarter)>>

WithinRadius(c, r, p) == Haversine(c, p) <= Square(Hundred) * Versine(r)

\* radius_with_options without geohashes, once the indexes are rebuilt
RadiusByTree(c, r) ==
    SelectSeq(RangeQuery(gs.tree, RadiusBox(c, r)), LAMBDA e: WithinRadius(c, r, e.point))

\* radius_with_geohash
RadiusByCells(c, r, chars) ==
    LET cell == Geohash(c, chars)
        found == UNION {ToSet(Bucket(h)) : h \in {cell} \cup Neighbours(cell)}
    IN  {m \in found : m \in Known /\ WithinRadius(c, r, gs.index[m])}

\* radius: the default options
Radius(c, r) == RadiusByCells(c, r, FromRadius(r))

BboxQuery(b) ==
    LET prefixes == BoxRanges(b, Medium)
    IN  {m \in Known : /\ Inside(b, gs.index[m])
                       /\ \E h \in DOMAIN gs.cells, x \in prefixes :
                              IsPrefix(x, h) /\ m \in ToSet(gs.cells[h])}

Nearest(p, k) == Knn(gs.tree, p, k)

--------------------------------------------------------------------------------
(* Properties                                                              *)

RECURSIVE Entries(_)
Entries(node) ==
    IF node.leaf THEN node.items
    ELSE FlattenSeq([i \in DOMAIN node.items |-> Entries(node.items[i])])

RECURSIVE Covered(_)
Covered(node) ==
    /\ node.box = BoxOfAll(node.leaf, node.items)
    /\ node.leaf => Len(node.items) <= MaxEntries
    /\ ~ node.leaf => \A i \in DOMAIN node.items : Covered(node.items[i])

InRadius(c, r) == {m \in Known : WithinRadius(c, r, gs.index[m])}

(***************************************************************************)
(* Through every split of insert and every bulk load, the tree holds size  *)
(* entries, the box of a node is exactly that of what is below it (the     *)
(* queries prune by it), and no leaf is overfull.                          *)
(***************************************************************************)
TreeCovers ==
    /\ Len(Entries(gs.tree)) = gs.size
    /\ gs.tree # NoTree => Covered(gs.tree)

(***************************************************************************)
(* Every member's place is in the tree, and unless a member moved since    *)
(* the last rebuild nothing else is, and a member is filed exactly once,   *)
(* under the cell of its place.                                            *)
(***************************************************************************)
IndexesAgree ==
    LET here == {[member |-> m, point |-> gs.index[m]] : m \in Known}
    IN  /\ here \subseteq ToSet(Entries(gs.tree))
        /\ ~ gs.stale =>
               /\ ToSet(Entries(gs.tree)) = here
               /\ \A m \in Known, c \in DOMAIN gs.cells :
                      Cardinality({i \in DOMAIN gs.cells[c] : gs.cells[c][i] = m})
                        = IF c = Geohash(gs.index[m], High) THEN 1 ELSE 0

(***************************************************************************)
(* A radius query through the tree answers with members in the radius and  *)
(* no others, wherever members were added or moved before it.  It misses   *)
(* one only beyond the longitudes of the box it searches: across the 180th *)
(* meridian, or away from the equator, where a circle is wider than the    *)
(* box is made.  Around a centre on the equator it misses nobody this side *)
(* of that meridian.                                                       *)
(***************************************************************************)
RadiusExact ==
    (~ gs.stale /\ Known # {}) => \A c \in Centres, r \in Radii :
        LET found == {e.member : e \in ToSet(RadiusByTree(c, r))}
            box == RadiusBox(c, r)
        IN  /\ found \subseteq InRadius(c, r)
            /\ \A m \in InRadius(c, r) \ found : gs.index[m][1] \notin box[1]..box[2]
            /\ (c[2] = 0 /\ r <= Quarter /\ Abs(c[1]) + r <= 2 * Quarter) => found = InRadius(c, r)

(***************************************************************************)
(* The search for neighbours prunes nodes by degrees against results in    *)
(* metres; still, among places hundreds of metres apart, it returns as     *)
(* many entries as there are, up to k, and no entry left out is nearer     *)
(* than one returned, at the poles and across the 180th meridian too.      *)
(***************************************************************************)
NearestExact ==
    Known # {} => \A c \in Centres, k \in 1..3 :
        LET found == Nearest(c, k)
            all == Entries(gs.tree)
            dist(es, d) == Cardinality({i \in DOMAIN es : Metres(c, es[i].point) <= d})
        IN  /\ Len(found) = Least(k, Len(all))
            /\ \A i \in DOMAIN found : dist(all, found[i].dist - 1) < k
            /\ \A d \in {found[i].dist : i \in DOMAIN found} :
                   Least(k, dist(all, d)) = Cardinality({i \in DOMAIN found : found[i].dist <= d})

(***************************************************************************)
(* A query by box through the common prefix of the corners' geohashes      *)
(* misses no member in the box, unless a member moved since the indexes    *)
(* were last rebuilt (bbox_query does not rebuild them).                   *)
(***************************************************************************)
BboxComplete ==
    (~ gs.stale /\ Known # {}) => \A sw \in Centres, ne \in Centres :
        (sw[1] <= ne[1] /\ sw[2] <= ne[2]) =>
            LET b == <<sw[1], ne[1], sw[2], ne[2]>>
            IN  BboxQuery(b) = {m \in Known : Inside(b, gs.index[m])}

(***************************************************************************)
(* With cells of the precision they are filed under and a radius whose box *)
(* reaches no further than a cell, a query by geohash misses, of the       *)
(* members in the box, only those in a diagonal cell (all_neighbors:       *)
(* "Соседи по диагонали пока намеренно исключены").                        *)
(***************************************************************************)
OnlyDiagonalMissed ==
    (~ gs.stale /\ Known # {}) => \A c \in Centres, r \in Radii :
        LET b == DecodeBox(Geohash(c, High))
        IN  (LonDelta(c[2], r) <= b[2] - b[1] /\ LatDelta(r) <= b[4] - b[3]) =>
                \A m \in InRadius(c, r) \ RadiusByCells(c, r, High) :
                    LET d == DecodeBox(Geohash(gs.index[m], High))
                    IN  Inside(RadiusBox(c, r), gs.index[m]) => b[1] # d[1] /\ b[3] # d[3]

(***************************************************************************)
(* radius(): "Возвращает всех членов в радиусе" (geo_base.rs:186).  It     *)
(* looks up cells of a precision that depends on the radius, and they are  *)
(* filed under one precision.                                              *)
(***************************************************************************)
RadiusFindsAll ==
    ~ gs.stale => \A c \in Centres, r \in Radii : Radius(c, r) = InRadius(c, r)

(***************************************************************************)
(* The three indexes of a GeoSet describe the same members, whatever was   *)
(* added, moved and rebuilt, and the queries through them answer exactly   *)
(* what they say they look for.                                            *)
(***************************************************************************)
GeoExact ==
    TreeCovers /\ IndexesAgree /\ RadiusExact /\ NearestExact /\ BboxComplete /\ OnlyDiagonalMissed
=============================================================================
