------------------------------- MODULE Files -------------------------------
(***************************************************************************)
(* What the parts of a profile leave in their files and what is read from  *)
(* them again: structs/, comps/, attr/graph_attributes.go and util/io.go.  *)
(* A file is the sequence of the numbers in it; a point is one number.     *)
(* Ids begin with 1 here and with 0 in the code.                           *)
(***************************************************************************)
EXTENDS GraphData

Written(arr, Row(_)) == FlattenSeq([i \in DOMAIN arr |-> Row(arr[i])])

\* binary.Read leaves a zero past the end, and nobody looks at its error.
NumberAt(file, i) == IF i \in DOMAIN file THEN file[i] ELSE 0

\* count records of so many numbers each, behind the first ones of the file.
Table(file, first, count, width, Record(_)) ==
  LET row(i) == Made([j \in 1..width |-> NumberAt(file, first + (i - 1) * width + j)])
  IN Made([i \in 1..count |-> Record(row(i))])

\* Tables one after the other, each behind a head that ends with its length.
Tables(file, first, count, head, width, Record(_)) ==
  LET next(r, i) ==
        LET length == NumberAt(file, r.at + head) IN
        [at |-> r.at + head + length * width,
         tables |-> Append(r.tables, [key |-> NumberAt(file, r.at + 1),
                                      rows |-> Table(file, r.at + head, length, width, Record)])]
  IN FoldLeft(next, [at |-> first, tables |-> <<>>], [i \in 1..count |-> i]).tables

-----------------------------------------------------------------------------
StoreArray(arr) == <<Len(arr)>> \o arr
LoadArray(file) == Table(file, 1, NumberAt(file, 1), 1, Head)

StoreEdges(edges) == <<Len(edges)>> \o Written(edges, LAMBDA e : <<e.a, e.b>>)
LoadEdges(file) == Table(file, 1, NumberAt(file, 1), 2, LAMBDA r : [a |-> r[1], b |-> r[2]])

StoreIDMapping(mapping) == <<Len(mapping)>> \o Written(mapping, LAMBDA m : <<m.target, m.source>>)
LoadIDMapping(file) == Table(file, 1, NumberAt(file, 1), 2, LAMBDA r : [target |-> r[1], source |-> r[2]])

\* A weight is written as uint8.
StoreWeights(weights) == <<Len(weights)>> \o [i \in DOMAIN weights |-> weights[i] % 256]
LoadWeights(file) == LoadArray(file)

\* TransitWeighting: of each connection the departures of a day.
StoreSchedules(schedules) ==
  <<Len(schedules)>>
  \o Written(schedules, LAMBDA s : <<Len(s)>> \o Written(s, LAMBDA w : <<w.departure, w.arrival, w.trip>>))
LoadSchedules(file) ==
  LET tables == Tables(file, 1, NumberAt(file, 1), 1, 3,
                       LAMBDA r : [departure |-> r[1], arrival |-> r[2], trip |-> r[3]])
  IN Made([i \in DOMAIN tables |-> tables[i].rows])

-----------------------------------------------------------------------------
(* A topology is stored with the types of its entries or without them.     *)

StoreAdjacency(top, typed) ==
  LET row(e) == IF typed THEN <<e.id, e.type, e.other>> ELSE <<e.id, e.other>>
      refs(n) == <<top.fwd.refs[n].start, top.fwd.refs[n].count, top.bwd.refs[n].start, top.bwd.refs[n].count>>
  IN <<Len(top.fwd.refs), Len(top.fwd.entries), Len(top.bwd.entries)>>
     \o Written(Ids(top.fwd.refs), refs) \o Written(top.fwd.entries, row) \o Written(top.bwd.entries, row)

LoadAdjacency(file, typed) ==
  LET nodes == NumberAt(file, 1)
      width == IF typed THEN 3 ELSE 2
      entry(r) == [id |-> r[1], other |-> r[width], type |-> IF typed THEN r[2] ELSE 0]
      refs(k) == Table(file, 3, nodes, 4, LAMBDA r : [start |-> r[k], count |-> r[k + 1]])
      entries(first, count) == Table(file, 3 + 4 * nodes + width * first, count, width, entry)
  IN [fwd |-> [entries |-> entries(0, NumberAt(file, 2)), refs |-> refs(1)],
      bwd |-> [entries |-> entries(NumberAt(file, 2), NumberAt(file, 3)), refs |-> refs(3)]]

\* Those of a hierarchy are static and name their two parts; the edges of the
\* others are left out.
StoreShortcuts(shcs, static) ==
  LET part(p) == <<p.id, IF p.shc THEN 1 ELSE 0>> IN
  <<Len(shcs), IF static THEN 1 ELSE 0, 0>>
  \o Written(shcs, LAMBDA s : <<s.from, s.to, s.weight>>)
  \o IF static THEN Written(shcs, LAMBDA s : part(s.parts[1]) \o part(s.parts[2])) ELSE <<>>

LoadShortcuts(file) ==
  LET count == NumberAt(file, 1)
      shcs == Table(file, 3, count, 3, LAMBDA r : [from |-> r[1], to |-> r[2], weight |-> r[3]])
      part(id, is_s) == [id |-> id, shc |-> is_s = 1]
      parts == Table(file, 3 + 3 * count, count, 4, LAMBDA r : <<part(r[1], r[2]), part(r[3], r[4])>>)
  IN IF NumberAt(file, 2) = 1
       THEN Made([i \in 1..count |-> [from |-> shcs[i].from, to |-> shcs[i].to, weight |-> shcs[i].weight,
                                      parts |-> parts[i]]])
       ELSE shcs

\* CellIndex: the ways inward of each tile; none are made for the other direction.
StoreCellIndex(index) ==
  LET tiles == Sorted(DOMAIN index) IN
  <<Len(tiles), 0>>
  \o Written(tiles, LAMBDA t : <<t, Len(index[t])>> \o Written(index[t], LAMBDA w : <<w.from, w.to, w.weight>>))
LoadCellIndex(file) ==
  LET tables == Tables(file, 2, NumberAt(file, 1), 2, 3, LAMBDA r : [from |-> r[1], to |-> r[2], weight |-> r[3]])
  IN [t \in {tables[i].key : i \in DOMAIN tables} |->
        tables[CHOOSE i \in DOMAIN tables : tables[i].key = t /\ \A j \in DOMAIN tables : tables[j].key = t => j <= i].rows]

-----------------------------------------------------------------------------
(* Attributes: one file with those of the edges, one with all points.      *)

StoreAttribs(edges, nodes) ==
  <<Len(nodes), Len(edges)>> \o Written(edges, LAMBDA e : <<e.length, e.speed>>)

\* A line is cut behind its first 255 points.
Line255(edge) == SubSeq(edge.line, 1, IF Len(edge.line) > 255 THEN 255 ELSE Len(edge.line))

StoreGraphGeom(edges, nodes) ==
  LET start(i) == FoldLeft(LAMBDA c, e : c + Len(Line255(e)), 0, SubSeq(edges, 1, i - 1)) IN
  nodes \o Written(Ids(edges), LAMBDA i : <<start(i), Len(Line255(edges[i]))>>) \o Written(edges, Line255)

\* geomdata[startindex:] panics when the file ends before it.
GeomIsShort(attrib, geom) == NumberAt(attrib, 1) + 2 * NumberAt(attrib, 2) > Len(geom)

\* The lines follow each other: where one begins is written but not used.
LoadGraphGeom(geom, nodes, edges) ==
  LET lengths == Table(geom, nodes, edges, 2, LAMBDA r : r[2])
      start(i) == nodes + 2 * edges + FoldLeft(+, 0, SubSeq(lengths, 1, i - 1))
  IN [points |-> Table(geom, 0, nodes, 1, Head),
      lines |-> Made([i \in 1..edges |-> Table(geom, start(i), lengths[i], 1, Head)])]

LoadAttribs(attrib, geom) ==
  LET nodes == NumberAt(attrib, 1)
      count == NumberAt(attrib, 2)
      edges == Table(attrib, 2, count, 2, LAMBDA r : [length |-> r[1], speed |-> r[2]])
      geoms == LoadGraphGeom(geom, nodes, count)
  IN [edges |-> Made([i \in DOMAIN edges |->
                        [length |-> edges[i].length, speed |-> edges[i].speed, line |-> geoms.lines[i]]]),
      geoms |-> geoms.points]
=============================================================================
