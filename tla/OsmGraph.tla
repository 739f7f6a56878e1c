------------------------------ MODULE OsmGraph ------------------------------
(***************************************************************************)
(* parser/parser.go: the road graph that is cut out of an OSM extract, as   *)
(* operators on it.  An extract [order, at, ways] gives its nodes in the    *)
(* order of the file, the place of each (a number on a line that stands for *)
(* the coordinate), and ways [refs, highway, oneway, speed].  Arrays begin  *)
(* with 1 here and with 0 in the code.                                     *)
(***************************************************************************)
EXTENDS Integers, SequencesExt

CONSTANTS DrivingTypes,  \* the values of "highway" that can be driven on
          OnewayTypes    \* motorways and trunk roads with their links

Gap(p, q) == IF p < q THEN q - p ELSE p - q

\* DrivingDecoder, and with the same types the decoders for walking and cycling.
IsValidHighway(way) == way.highway \in DrivingTypes

\* _IsOneway
IsOneway(way) == way.highway \in OnewayTypes \/ way.oneway

ValidWays(osm) == SelectSeq(osm.ways, IsValidHighway)

\* _InitWayHandler: how often a way passes a node, its ends once more.
NodeCounts(osm) ==
  LET count(id) == FoldLeft(LAMBDA n, way :
        n + Cardinality({i \in DOMAIN way.refs : way.refs[i] = id})
          + (IF id \in {Head(way.refs), Last(way.refs)} THEN 1 ELSE 0),
        0, ValidWays(osm))
  IN [id \in ToSet(osm.order) |-> count(id)]

\* _NodeHandler: a node where ways meet or end is a node of the graph.
Junctions(osm) == LET counts == NodeCounts(osm) IN SelectSeq(osm.order, LAMBDA id : counts[id] > 1)

\* index_mapping: a node that the file does not hold has index 0 there, the
\* first node of the graph.
Index(junctions, id) == IF Contains(junctions, id) THEN SelectInSeq(junctions, LAMBDA o : o = id) ELSE 1

\* _WayHandler for one way.  An edge ends at the next junction that is not the
\* node it began with.
SplitWay(osm, junctions, way) ==
  LET first == [start |-> Head(way.refs), line |-> <<>>, edges |-> <<>>]
      length(line) == FoldLeft(LAMBDA sum, i : sum + Gap(line[i], line[i + 1]), 0, [i \in 1..(Len(line) - 1) |-> i])
      pass(e, id) ==
        LET line == Append(e.line, osm.at[id]) IN
        IF Contains(junctions, id) /\ id # e.start
          THEN [start |-> id, line |-> <<osm.at[id]>>,
                edges |-> Append(e.edges, [a |-> Index(junctions, e.start), b |-> Index(junctions, id), line |-> line,
                                           length |-> length(line), speed |-> way.speed, oneway |-> IsOneway(way)])]
          ELSE [e EXCEPT !.line = line]
  IN FoldLeft(pass, first, way.refs).edges

\* _ParseOsm and _CreateGraphBase: each edge, and unless it is one-way the
\* one back after it, with the same line.
BothWays(cut) ==
  FlattenSeq([i \in DOMAIN cut |->
    IF cut[i].oneway THEN <<cut[i]>> ELSE <<cut[i], [cut[i] EXCEPT !.a = cut[i].b, !.b = cut[i].a]>>])
GraphOf(nodes, all) ==
  [nodes |-> nodes,
   edges |-> [i \in DOMAIN all |-> [a |-> all[i].a, b |-> all[i].b]],
   attribs |-> [i \in DOMAIN all |-> [length |-> all[i].length, speed |-> all[i].speed, line |-> all[i].line]]]
ParsedWays(osm, junctions, ways) ==
  GraphOf([i \in DOMAIN junctions |-> osm.at[junctions[i]]],
          BothWays(FlattenSeq([w \in DOMAIN ways |-> SplitWay(osm, junctions, ways[w])])))
ParseGraph(osm) == ParsedWays(osm, Junctions(osm), ValidWays(osm))
=============================================================================
