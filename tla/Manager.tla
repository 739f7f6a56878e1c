------------------------------ MODULE Manager ------------------------------
(***************************************************************************)
(* manager.go and profile.go: at its start the program builds the profiles *)
(* of its configuration from the OSM extract, or loads the ones that lie   *)
(* in its directory, and then serves them.  A build writes each profile     *)
(* file by file as soon as it is made, then the attributes, then the file  *)
(* "meta" that names them all; a load reads what "meta" names.  Nothing is *)
(* written beside and moved: a second build overwrites the files of the    *)
(* first one under its meta.  The program may crash at any point.          *)
(***************************************************************************)
EXTENDS Files, TLC

CONSTANTS
  Extracts,    \* the OSM file and the timetable by their name in the configuration
  Configs,     \* config.yml: [build, source, profiles]
  Preparations, \* of ids: the node that is contracted first, or the node by whose
               \* place the partition is cut
  MaxTransferRange, \* of every transit profile, in seconds
  Known,       \* the names of vehicles that VehicleTypeFromString knows
  Nothing,     \* nil
  Torn,        \* a "meta" that was not written to its end
  MaxBuilds    \* bound: how often profiles are built

\* Of a profile UnmarshalYAML takes these types and preparations.
ASSUME ManagerAssumption ==
  /\ \A c \in Configs :
       /\ c.build \in BOOLEAN /\ c.source \in DOMAIN Extracts
       /\ \A n \in DOMAIN c.profiles :
            /\ c.profiles[n].type \in {"driving", "walking", "transit", "cycling"}
            /\ c.profiles[n].prep \in {"none", "contraction", "overlay"}
  /\ Preparations \subseteq Nat \ {0} /\ MaxBuilds \in Nat /\ Infinite \in Nat

\* The parser makes arrays of edges, each with an array of points.
ASSUME ParserAssumption ==
  \A e \in DOMAIN Extracts :
    LET att == Parsed(Extracts[e].osm).attributes
    IN att.geoms \in Seq(Int) /\ att.edges \in Seq([length : Int, speed : Int, line : Seq(Int)])

VARIABLES
  config,             \* as it was read at the start, nil while the program is down
  exists, dir,        \* the directory: can it be read, and the files by <<name, suffix>>
  place,              \* "down", "building", "failed" to build, "loading", "serving" or "panicked"
  todo, writing,      \* profiles and attributes to come, files of the current one
  prep_cache, profiles, attributes,
  builds,  \* so far
  written  \* the configuration whose build the directory holds, none when it holds parts of several

memory == <<prep_cache, profiles, attributes>>
vars == <<config, exists, dir, place, todo, writing, memory, builds, written>>

NoFunction == [x \in {} |-> 0]
META == <<"", "meta">>

\* A map with one more entry, or another value for one.
Put(f, key, value) == [x \in DOMAIN f \cup {key} |-> IF x = key THEN value ELSE f[x]]

-----------------------------------------------------------------------------
(* Configuration.  An error ends the reading of a profile: what comes after *)
(* the vehicle keeps its zero value.                                       *)

Options(raw) ==
  LET given(field, zero) == IF raw.vehicle \in Known THEN raw[field] ELSE zero
      vehicle == given("vehicle", "car")
  IN CASE raw.type = "driving" -> [type |-> "driving", vehicle |-> vehicle, metric |-> given("metric", "fastest"),
                                   prep |-> given("prep", "none")]
       [] raw.type = "walking" -> [type |-> "walking", vehicle |-> vehicle, metric |-> given("metric", "fastest"),
                                   prep |-> "none"]
       [] raw.type = "transit" -> [type |-> "transit", vehicle |-> vehicle, metric |-> "fastest", prep |-> "none"]
       [] raw.type = "cycling" -> Nothing

ToBuild(c) == {<<name, "profile">> : name \in {n \in DOMAIN c.profiles : Options(c.profiles[n]) # Nothing}}

-----------------------------------------------------------------------------
(* Profiles: [type, vehicle, metric, prep, data], data by the suffix of the *)
(* file that holds it.                                                     *)

BaseFiles == <<"base-nodes", "base-edges", "base-graph">>
PrepFiles(prep) ==
  CASE prep = "none" -> <<>>
    [] prep = "contraction" -> <<"ch-shortcut", "ch-ch_graph", "ch-level">>
    [] prep = "overlay" -> <<"overlay-skip_shortcuts", "overlay-skip_topology", "overlay-tiles_types",
                             "cell_index-tileranges", "partition-tiles">>
DrivingFiles(prep) == <<"attr_node_mapping">> \o BaseFiles \o <<"weight">> \o PrepFiles(prep)
WalkingFiles == BaseFiles \o <<"weight">>
TransitFiles == BaseFiles \o <<"weight", "transit-id_mapping", "transit-shortcut", "transit-transit_graph",
                              "transit-stops", "transit-connections", "transit-weight">>
FilesOf(p) ==
  CASE p.type = "driving" -> DrivingFiles(p.prep) [] p.type = "walking" -> WalkingFiles [] p.type = "transit" -> TransitFiles

MetaOf(p) == [type |-> p.type, vehicle |-> p.vehicle, metric |-> p.metric, prep |-> p.prep]
ProfileOf(opt, data) ==
  [type |-> opt.type, vehicle |-> opt.vehicle, metric |-> opt.metric, prep |-> opt.prep, data |-> data]

\* Whose graph and attributes a profile is made of.
PrepType(opt) ==
  IF opt.type = "transit" THEN (IF opt.vehicle = "car" THEN "driving" ELSE IF opt.vehicle = "bike" THEN "cycling" ELSE "walking")
  ELSE opt.type

\* BuildDrivingProfile, BuildWalkingProfile, BuildTransitProfile: the metric.
Weighting(opt, edges) ==
  IF opt.metric = "shortest" THEN BuildShortestWeighting(edges)
  ELSE IF opt.type = "driving" \/ (opt.type = "transit" /\ opt.vehicle = "car") THEN BuildCarWeighting(edges)
  ELSE IF opt.type = "transit" /\ opt.vehicle = "bike" THEN BuildBikeWeighting(edges)
  ELSE BuildFootWeighting(edges)

BaseData(base) == "base-nodes" :> base.nodes @@ "base-edges" :> base.edges @@ "base-graph" :> base.topology

\* CreatePartition gives any tiles; here the line is cut behind a node.
Cut(base, n) == [v \in DOMAIN base.nodes |-> IF base.nodes[v] <= base.nodes[n] THEN 1 ELSE 2]

BuildDrivingProfile(opt, item, pick) ==
  LET mapping == IdentityMapping(Len(item.base.nodes))
      with_ch(ch) ==
        "attr_node_mapping" :> ReorderTargets(mapping, ch.ordering) @@ "ch-shortcut" :> ch.ch.shortcuts
        @@ "ch-ch_graph" :> ch.ch.topology @@ "ch-level" :> ch.ch.levels @@ BaseData(ch.base)
      with_grasp(grasp) ==
        "attr_node_mapping" :> ReorderTargets(mapping, grasp.ordering)
        @@ "overlay-skip_shortcuts" :> grasp.overlay.shortcuts
        @@ "overlay-skip_topology" :> grasp.overlay.topology
        @@ "overlay-tiles_types" :> grasp.overlay.types @@ "cell_index-tileranges" :> grasp.cell_index
        @@ "partition-tiles" :> grasp.partition @@ BaseData(grasp.base)
      with(weights) ==
        "weight" :> weights @@
        CASE opt.prep = "contraction" -> with_ch(CreateCH(item.base, weights, pick))
          [] opt.prep = "overlay" -> with_grasp(CreateGRASP(item.base, weights, Cut(item.base, pick)))
          [] opt.prep = "none" -> "attr_node_mapping" :> mapping @@ BaseData(item.base)
  IN with(Weighting(opt, item.attributes.edges))

BuildWalkingProfile(opt, item) == "weight" :> Weighting(opt, item.attributes.edges) @@ BaseData(item.base)

BuildTransitProfile(opt, item, timetable) ==
  LET with(weights, transit) ==
        "weight" :> weights @@ "transit-id_mapping" :> transit.mapping @@ "transit-shortcut" :> transit.shortcuts
        @@ "transit-transit_graph" :> transit.topology @@ "transit-stops" :> timetable.stops
        @@ "transit-connections" :> timetable.connections @@ "transit-weight" :> timetable.schedule @@ BaseData(item.base)
      on_foot(weights) == with(weights, PrepareTransit(item.base, weights, timetable, MaxTransferRange))
  IN on_foot(Weighting(opt, item.attributes.edges))

BuiltData(opt, source, item, pick) ==
  CASE opt.type = "driving" -> BuildDrivingProfile(opt, item, pick)
    [] opt.type = "walking" -> BuildWalkingProfile(opt, item)
    [] opt.type = "transit" -> BuildTransitProfile(opt, item, Extracts[source].timetable)

\* IDMapping.GetSource: the mapping of the stops is as long as the nodes.
StopsFit(opt, item, timetable) == opt.type = "transit" => Len(timetable.stops) <= Len(item.base.nodes)

\* Only a prepared profile depends on it.
Picks(opt, base) == IF opt.prep = "none" THEN {1} ELSE Preparations \cap DOMAIN base.nodes

Stored(suffix, content) ==
  CASE suffix = "base-edges" -> StoreEdges(content)
    [] suffix \in {"base-graph", "ch-ch_graph"} -> StoreAdjacency(content, FALSE)
    [] suffix \in {"overlay-skip_topology", "transit-transit_graph"} -> StoreAdjacency(content, TRUE)
    [] suffix \in {"ch-shortcut", "overlay-skip_shortcuts", "transit-shortcut"} ->
         StoreShortcuts(content, suffix = "ch-shortcut")
    [] suffix \in {"attr_node_mapping", "transit-id_mapping"} -> StoreIDMapping(content)
    [] suffix = "transit-connections" -> StoreEdges(content)
    [] suffix = "transit-weight" -> StoreSchedules(content)
    [] suffix = "cell_index-tileranges" -> StoreCellIndex(content)
    [] suffix = "weight" -> StoreWeights(content)
    [] OTHER -> StoreArray(content)

Read(suffix, file) ==
  CASE suffix = "base-edges" -> LoadEdges(file)
    [] suffix \in {"base-graph", "ch-ch_graph"} -> LoadAdjacency(file, FALSE)
    [] suffix \in {"overlay-skip_topology", "transit-transit_graph"} -> LoadAdjacency(file, TRUE)
    [] suffix \in {"ch-shortcut", "overlay-skip_shortcuts", "transit-shortcut"} -> LoadShortcuts(file)
    [] suffix \in {"attr_node_mapping", "transit-id_mapping"} -> LoadIDMapping(file)
    [] suffix = "transit-connections" -> LoadEdges(file)
    [] suffix = "transit-weight" -> LoadSchedules(file)
    [] suffix = "cell_index-tileranges" -> LoadCellIndex(file)
    [] suffix = "weight" -> LoadWeights(file)
    [] OTHER -> LoadArray(file)

-----------------------------------------------------------------------------
Init ==
  /\ config = Nothing
  /\ exists \in BOOLEAN
  /\ dir = NoFunction
  /\ place = "down" /\ todo = {} /\ writing = <<>>
  /\ prep_cache = NoFunction /\ profiles = NoFunction /\ attributes = NoFunction
  /\ builds = 0 /\ written = Nothing

\* main, ReadConfig, and NewRoutingManager up to its loops.
Start ==
  /\ place = "down"
  /\ config' \in Configs
  /\ LET building == config'.build \/ (exists /\ DOMAIN dir = {})
         meta == IF dir[META] = Torn THEN [profiles |-> NoFunction, attributes |-> {}] ELSE dir[META]
     IN \/ /\ building /\ builds < MaxBuilds
           /\ builds' = builds + 1
           /\ place' = "building" /\ todo' = ToBuild(config')
        \/ /\ ~building /\ META \notin DOMAIN dir
           /\ place' = "panicked" /\ UNCHANGED <<todo, builds>>
        \/ /\ ~building /\ META \in DOMAIN dir
           /\ todo' = {<<n, "profile">> : n \in DOMAIN meta.profiles} \cup {<<t, "attributes">> : t \in meta.attributes}
           /\ place' = IF todo' = {} THEN "serving" ELSE "loading"
           /\ UNCHANGED builds
  /\ UNCHANGED <<exists, dir, writing, memory, written>>

FilesToWrite(name, profile, order) ==
  Made([i \in DOMAIN order |-> [file |-> <<name, order[i]>>, content |-> Stored(order[i], profile.data[order[i]])]])

\* One turn of the loop over the configured profiles, in the order of a map.
BuildProfile(name) ==
  /\ place = "building" /\ writing = <<>>
  /\ <<name, "profile">> \in todo
  /\ \E opt \in {Options(config.profiles[name])} : \E typ \in {PrepType(opt)} :
     \E item \in {IF typ \in DOMAIN prep_cache THEN prep_cache[typ] ELSE Parsed(Extracts[config.source].osm)} :
        /\ prep_cache' = Put(prep_cache, typ, item)
        /\ \/ /\ StopsFit(opt, item, Extracts[config.source].timetable)
              /\ \E pick \in Picks(opt, item.base) :
                 \E profile \in {ProfileOf(opt, BuiltData(opt, config.source, item, pick))} :
                   /\ profiles' = Put(profiles, name, profile)
                   /\ writing' = FilesToWrite(name, profile, FilesOf(profile))
              /\ UNCHANGED place
           \/ /\ ~StopsFit(opt, item, Extracts[config.source].timetable)
              /\ writing' = FilesToWrite(name, [data |-> BuildWalkingProfile(opt, item)], WalkingFiles)
              /\ place' = "failed" /\ UNCHANGED profiles
  /\ todo' = todo \ {<<name, "profile">>}
  /\ UNCHANGED <<config, exists, dir, attributes, builds, written>>

\* os.Create fails without a directory, and nobody looks at its error.
WriteFile ==
  /\ writing # <<>>
  /\ writing' = Tail(writing)
  /\ dir' = IF exists THEN Put(dir, Head(writing).file, Head(writing).content) ELSE dir
  /\ written' = Nothing
  /\ UNCHANGED <<config, exists, place, todo, memory, builds>>

Built == place = "building" /\ todo = {} /\ writing = <<>>

StoreAttributes(typ) ==
  /\ Built
  /\ typ \in DOMAIN prep_cache \ DOMAIN attributes
  /\ LET att == prep_cache[typ].attributes IN
     /\ attributes' = Put(attributes, typ, att)
     /\ writing' = <<[file |-> <<typ, "attrib">>, content |-> StoreAttribs(att.edges, att.geoms)],
                     [file |-> <<typ, "geom">>, content |-> StoreGraphGeom(att.edges, att.geoms)]>>
  /\ UNCHANGED <<config, exists, dir, place, todo, prep_cache, profiles, builds, written>>

\* Mutant: the meta is written before the attributes.
StoreMetaEarly ==
  /\ Built
  /\ dir' = IF exists THEN Put(dir, META, [profiles |-> [n \in DOMAIN profiles |-> MetaOf(profiles[n])],
                                          attributes |-> DOMAIN prep_cache])
            ELSE dir
  /\ place' = IF DOMAIN prep_cache \subseteq DOMAIN attributes THEN "serving" ELSE place
  /\ written' = IF exists THEN config ELSE Nothing
  /\ UNCHANGED <<config, exists, todo, writing, memory, builds>>

StoreMeta ==
  /\ Built
  /\ DOMAIN prep_cache \subseteq DOMAIN attributes
  /\ dir' = IF exists THEN Put(dir, META, [profiles |-> [n \in DOMAIN profiles |-> MetaOf(profiles[n])],
                                          attributes |-> DOMAIN attributes])
            ELSE dir
  /\ place' = "serving"
  /\ written' = IF exists THEN config ELSE Nothing
  /\ UNCHANGED <<config, exists, todo, writing, memory, builds>>

\* LoadDrivingProfile, LoadWalkingProfile, LoadTransitProfile.
LoadProfile(name) ==
  /\ place = "loading" /\ <<name, "profile">> \in todo
  /\ LET item == dir[META].profiles[name]
         files == ToSet(FilesOf(item))
     IN IF \A s \in files : <<name, s>> \in DOMAIN dir
          THEN /\ profiles' = Put(profiles, name, ProfileOf(item, [s \in files |-> Read(s, dir[<<name, s>>])]))
               /\ todo' = todo \ {<<name, "profile">>}
               /\ place' = IF todo' = {} THEN "serving" ELSE "loading"
          ELSE place' = "panicked" /\ UNCHANGED <<profiles, todo>>
  /\ UNCHANGED <<config, exists, dir, writing, prep_cache, attributes, builds, written>>

\* attr.Load.
LoadAttributes(typ) ==
  /\ place = "loading" /\ <<typ, "attributes">> \in todo
  /\ \A n \in DOMAIN dir[META].profiles : <<n, "profile">> \notin todo
  /\ LET attrib == dir[<<typ, "attrib">>]
         geom == dir[<<typ, "geom">>]
         lost == ~({<<typ, "attrib">>, <<typ, "geom">>} \subseteq DOMAIN dir) \/ GeomIsShort(attrib, geom)
     IN \/ /\ ~lost
           /\ attributes' = Put(attributes, typ, LoadAttribs(attrib, geom))
           /\ todo' = todo \ {<<typ, "attributes">>}
           /\ place' = IF todo' = {} THEN "serving" ELSE "loading"
        \/ /\ lost
           /\ place' = "panicked" /\ UNCHANGED <<attributes, todo>>
  /\ UNCHANGED <<config, exists, dir, writing, prep_cache, profiles, builds, written>>

\* What is there of the file that is being written when the program ends.
CutOff(writes) ==
  LET content == Head(writes).content IN
  {[file |-> Head(writes).file, content |-> SubSeq(content, 1, n)] : n \in {0, Len(content) \div 2}}

\* The program ends, from outside or after a panic.
Crash ==
  /\ place # "down"
  /\ LET cut == IF writing # <<>> THEN CutOff(writing)
                ELSE IF Built /\ DOMAIN prep_cache \subseteq DOMAIN attributes THEN {[file |-> META, content |-> Torn]}
                ELSE {}
     IN \/ dir' = dir /\ UNCHANGED written
        \/ /\ exists
           /\ \E part \in cut : dir' = Put(dir, part.file, part.content)
           /\ written' = Nothing
  /\ place' = "down" /\ config' = Nothing /\ todo' = {} /\ writing' = <<>>
  /\ prep_cache' = NoFunction /\ profiles' = NoFunction /\ attributes' = NoFunction
  /\ UNCHANGED <<exists, builds>>

Next ==
  \/ Start \/ WriteFile \/ StoreMeta \/ Crash
  \/ \E x \in todo : BuildProfile(x[1])
  \/ \E t \in DOMAIN prep_cache : StoreAttributes(t)
  \/ \E x \in todo : LoadProfile(x[1]) \/ LoadAttributes(x[1])

Spec == Init /\ [][Next]_vars

-----------------------------------------------------------------------------
(* What a profile offers.                                                  *)

GetAttributes(p) ==
  LET typ == IF p.type = "driving" THEN "driving" ELSE "walking"
  IN IF typ \in DOMAIN attributes THEN attributes[typ] ELSE Nothing

\* MappedAttributes.GetClosestNode
ClosestNode(p, p_attributes, at) ==
  LET n == GetClosestNode(p_attributes.geoms, at)
  IN IF p.type = "driving" THEN p.data["attr_node_mapping"][n].target ELSE n

\* GetGraph: the arcs an explorer sees at the nodes.
GraphArcs(p) ==
  UNION {{[from |-> n, to |-> e.other, weight |-> p.data["weight"][e.id]] :
            e \in ToSet(Entries(p.data["base-graph"].fwd, n))} : n \in DOMAIN p.data["base-nodes"]}

\* GetCHGraph with ADJACENT_UPWARDS, forwards and backwards.
UpwardArcs(p, way) ==
  LET up(n, e) == p.data["ch-level"][n] < p.data["ch-level"][e.other]
      edges(n) == {[from |-> n, to |-> e.other, weight |-> p.data["weight"][e.id]] :
                     e \in {d \in ToSet(Entries(p.data["base-graph"][way], n)) : up(n, d)}}
      shcs(n) == {[from |-> n, to |-> e.other, weight |-> p.data["ch-shortcut"][e.id].weight] :
                    e \in {d \in ToSet(Entries(p.data["ch-ch_graph"][way], n)) : up(n, d)}}
  IN UNION {edges(n) \cup shcs(n) : n \in DOMAIN p.data["base-nodes"]}

-----------------------------------------------------------------------------
(* The map, read without the program: every stretch of a way between two    *)
(* of its nodes is a street.                                               *)

StreetLength(opt, way, gap) ==
  Weighting(opt, <<[length |-> gap, speed |-> way.speed]>>)[1]

Streets(osm, opt) ==
  LET stretch(way, i, j) == [from |-> way.refs[i], to |-> way.refs[j],
                             weight |-> StreetLength(opt, way, Gap(osm.at[way.refs[i]], osm.at[way.refs[j]]))]
      ways == ToSet(ValidWays(osm))
  IN UNION {{stretch(w, i, i + 1) : i \in 1..(Len(w.refs) - 1)} : w \in ways}
     \cup UNION {{stretch(w, i + 1, i) : i \in 1..(Len(w.refs) - 1)} : w \in {v \in ways : ~IsOneway(v)}}

StreetDistances(osm, opt, id) == DistancesFrom(id, ToSet(osm.order), Streets(osm, opt), Infinite)

\* The build a profile that is served comes from, if it is a single one.
Loaded == prep_cache = NoFunction
Origin == IF Loaded THEN written ELSE config

\* The profiles of which something can be said: those that come of one build, and
\* whose attributes are there.
Sound == IF place = "serving" /\ Origin # Nothing
           THEN {n \in DOMAIN profiles : GetAttributes(profiles[n]) # Nothing} ELSE {}
Osm == Extracts[Origin.source].osm
Opt(name) == Options(Origin.profiles[name])

\* A weight that does not fit into a byte of the file.
Wide(name) == \E w \in ToSet(Weighting(Opt(name), Parsed(Osm).attributes.edges)) : w > 255

Served(p) == {id \in ToSet(Junctions(Osm)) : \E n \in DOMAIN p.data["base-nodes"] : p.data["base-nodes"][n] = Osm.at[id]}

(***************************************************************************)
(* A profile that was built, or loaded from the files of one build, gives   *)
(* between any two junctions, found by their places, the distance they     *)
(* have on the streets of the map, on its graph and on its contraction      *)
(* hierarchy.  It would be lost by a mapping turned the wrong way round in  *)
(* any of the arrays that reordering, removing, storing and loading pass    *)
(* through (comps/, structs/, attr/, profile.go).  Left out: weights that   *)
(* do not fit into a byte are stored modulo 256 (weighting.go:90).          *)
(***************************************************************************)
DistancesAreOfTheMap ==
  \A name \in Sound : ~(Loaded /\ Wide(name)) =>
    LET p == profiles[name]
        nodes == DOMAIN p.data["base-nodes"]
        node == [id \in Served(p) |-> ClosestNode(p, GetAttributes(p), Osm.at[id])]
        on_graph == GraphArcs(p)
        up == UpwardArcs(p, "fwd")
        down == UpwardArcs(p, "bwd")
        there == [n \in nodes |-> DistancesFrom(n, nodes, up, Infinite)]
        back == [n \in nodes |-> DistancesFrom(n, nodes, down, Infinite)]
    IN \A a \in Served(p) :
         LET street == StreetDistances(Osm, Opt(name), a)
             dist == DistancesFrom(node[a], nodes, on_graph, Infinite)
         IN \A b \in Served(p) :
              /\ dist[node[b]] = street[b]
              /\ p.prep = "contraction" =>
                   Least({there[node[a]][n] + back[node[b]][n] : n \in nodes}) = street[b]

(***************************************************************************)
(* The junctions that are left after RemoveConnectedComponents are a       *)
(* largest set of junctions that can all be reached from each other: no    *)
(* request is sent to a part of the net it cannot leave, and nothing of     *)
(* the main part is lost.  The two searches of CalcBidirectBFS stop early   *)
(* for each other's sake, and the groups are counted in one pass.          *)
(***************************************************************************)
MainPartIsServed ==
  \A name \in Sound :
    LET dist == [id \in ToSet(Junctions(Osm)) |-> StreetDistances(Osm, Opt(name), id)]
        class(a) == {b \in DOMAIN dist : dist[a][b] < Infinite /\ dist[b][a] < Infinite}
        largest == {a \in DOMAIN dist : \A b \in DOMAIN dist : Cardinality(class(b)) <= Cardinality(class(a))}
    IN \E a \in largest : Served(profiles[name]) = class(a)

EdgeEnds(p, part) ==
  IF part.shc THEN [a |-> p.data["ch-shortcut"][part.id].from, b |-> p.data["ch-shortcut"][part.id].to]
  ELSE p.data["base-edges"][part.id]
PartWeight(p, part) ==
  IF part.shc THEN p.data["ch-shortcut"][part.id].weight ELSE p.data["weight"][part.id]

\* The entries of a topology at node n and the things they name agree.
Listed(flat, n, ids, own(_), other(_)) ==
  LET of == ToSet(Entries(flat, n)) IN
  /\ {e.id : e \in of} = {i \in ids : own(i) = n}
  /\ \A e \in of : e.other = other(e.id)

(***************************************************************************)
(* The arrays of a profile still belong together when they are served:      *)
(* topologies list the edges and shortcuts that begin and end at a node,    *)
(* the line of an edge leads from one of its nodes to the other,           *)
(* a shortcut is made of parts that meet and add up to it, nodes of higher  *)
(* level come first (the sweeps of PHAST rely on it), borders come before    *)
(* the insides of tiles, an edge is of type 10 just when it crosses, and two    *)
(* stops have a transfer as long as the way between the junctions next to   *)
(* them when it is within the range.                                       *)
(* Every array is reordered by code of its own, and some are not.          *)
(***************************************************************************)
PreparationFits ==
  \A name \in Sound :
    LET p == profiles[name]
        nodes == DOMAIN p.data["base-nodes"]
        edges == p.data["base-edges"]
        shcs == p.data["ch-shortcut"]
        level == p.data["ch-level"]
        skips == p.data["overlay-skip_shortcuts"]
        types == p.data["overlay-tiles_types"]
        tile == p.data["partition-tiles"]
        base == [nodes |-> p.data["base-nodes"], topology |-> p.data["base-graph"]]
        border(n) == IsBorderNode(base, tile, n)
    IN /\ \A n \in nodes :
            /\ Listed(p.data["base-graph"].fwd, n, DOMAIN edges, LAMBDA i : edges[i].a, LAMBDA i : edges[i].b)
            /\ Listed(p.data["base-graph"].bwd, n, DOMAIN edges, LAMBDA i : edges[i].b, LAMBDA i : edges[i].a)
            /\ p.prep = "contraction" =>
                 /\ Listed(p.data["ch-ch_graph"].fwd, n, DOMAIN shcs, LAMBDA i : shcs[i].from, LAMBDA i : shcs[i].to)
                 /\ Listed(p.data["ch-ch_graph"].bwd, n, DOMAIN shcs, LAMBDA i : shcs[i].to, LAMBDA i : shcs[i].from)
                 /\ \A m \in nodes : level[n] > level[m] => n < m
            /\ p.prep = "overlay" =>
                 \A m \in nodes : /\ border(n) /\ ~border(m) => n < m
                                 /\ ~border(n) /\ ~border(m) /\ tile[n] < tile[m] => n < m
       /\ p.type # "transit" =>
            \A i \in DOMAIN edges :
              LET line == GetAttributes(p).edges[i].line
              IN {Head(line), Last(line)} = {p.data["base-nodes"][edges[i].a], p.data["base-nodes"][edges[i].b]}
       /\ p.prep = "contraction" =>
            \A i \in DOMAIN shcs :
              LET first == EdgeEnds(p, shcs[i].parts[1]) last == EdgeEnds(p, shcs[i].parts[2]) IN
              /\ first.a = shcs[i].from /\ first.b = last.a /\ last.b = shcs[i].to
              /\ \/ Loaded /\ Wide(name)
                 \/ shcs[i].weight = PartWeight(p, shcs[i].parts[1]) + PartWeight(p, shcs[i].parts[2])
       /\ p.type = "transit" =>
            \A i, j \in DOMAIN p.data["transit-stops"] :
              LET put(k) == {id \in Served(p) : Gap(Osm.at[id], p.data["transit-stops"][k]) <= StopReach}
                  near(k) == CHOOSE id \in put(k) : \A o \in put(k) :
                               Gap(Osm.at[id], p.data["transit-stops"][k]) <= Gap(Osm.at[o], p.data["transit-stops"][k])
                  way == StreetDistances(Osm, Opt(name), near(i))[near(j)]
              IN i # j => {s.weight : s \in {t \in ToSet(p.data["transit-shortcut"]) : t.from = i /\ t.to = j}}
                            = IF put(i) # {} /\ put(j) # {} /\ way <= MaxTransferRange THEN {way} ELSE {}
       /\ p.prep = "overlay" =>
            /\ \A i \in DOMAIN edges : types[i] = 10 <=> tile[edges[i].a] # tile[edges[i].b]
            /\ \A i \in DOMAIN skips : /\ tile[skips[i].from] = tile[skips[i].to]
                                       /\ border(skips[i].from) /\ border(skips[i].to)
            /\ \A n \in nodes :
                 {e \in ToSet(Entries(p.data["overlay-skip_topology"].fwd, n)) : e.type = 100}
                   = {[id |-> i, other |-> skips[i].to, type |-> 100] : i \in {j \in DOMAIN skips : skips[j].from = n}}

(***************************************************************************)
(* A directory that holds one complete build is always loaded.  A start     *)
(* fails when there is no "meta", or when files of several builds lie       *)
(* under it and the geometry is shorter than the attributes say; but        *)
(* never for a file that is not there: what a "meta" names has been written *)
(* before it, and is overwritten but not taken away by later builds.       *)
(***************************************************************************)
CompleteBuildsLoad ==
  place = "panicked" =>
    \/ META \notin DOMAIN dir
    \/ /\ written = Nothing
       /\ \A n \in DOMAIN dir[META].profiles : \A s \in ToSet(FilesOf(dir[META].profiles[n])) : <<n, s>> \in DOMAIN dir
       /\ \E t \in dir[META].attributes :
            {<<t, "attrib">>, <<t, "geom">>} \subseteq DOMAIN dir /\ GeomIsShort(dir[<<t, "attrib">>], dir[<<t, "geom">>])

(***************************************************************************)
(* The cell index of a tile leads from the nodes of its border to those      *)
(* inside it.  The code computes it on the reordered graph with the         *)
(* partition of the old numbers.                                           *)
(***************************************************************************)
CellIndexFits ==
  \A name \in Sound : profiles[name].prep = "overlay" =>
    LET p == profiles[name]
        tile == p.data["partition-tiles"]
    IN \A t \in DOMAIN p.data["cell_index-tileranges"] :
         \A w \in ToSet(p.data["cell_index-tileranges"][t]) : tile[w.from] = t /\ tile[w.to] = t
=============================================================================
