--------------------------- MODULE ManagerProofs ---------------------------
(***************************************************************************)
(* What a start finds in the directory, for any extracts, configurations   *)
(* and number of builds, and crashes at any write: every file that a       *)
(* "meta" names is there, and of the files of one complete build the       *)
(* geometry is as long as the attributes say.                              *)
(***************************************************************************)
EXTENDS Manager, SequenceTheorems, WellFoundedInduction, TLAPS

-----------------------------------------------------------------------------
(* Arrays. *)

LEMMA LeastNumber ==
  ASSUME NEW T \in SUBSET Nat, T # {}
  PROVE  \E n \in T : \A m \in T : n <= m
<1> DEFINE R == OpToRel(<, Nat)
<1>1. IsWellFoundedOn(R, Nat)
  BY NatLessThanWellFounded
<1> HIDE DEF R
<1>2. PICK x \in T : \A y \in T : ~(<<y, x>> \in R)
  BY <1>1, WFMin
<1>3. \A y \in T : ~(y < x)
  BY <1>2 DEF R, OpToRel
<1> QED
  BY <1>3

\* Induction, for a set in place of a predicate.
LEMMA Counting ==
  ASSUME NEW S \in SUBSET Nat, 0 \in S, \A n \in S : n + 1 \in S
  PROVE  \A n \in Nat : n \in S
<1> SUFFICES ASSUME Nat \ S # {} PROVE FALSE
  OBVIOUS
<1>1. PICK n \in Nat \ S : \A m \in Nat \ S : n <= m
  BY LeastNumber
<1>2. n # 0
  OBVIOUS
<1>3. n - 1 \in S
  BY <1>1, <1>2
<1> QED
  BY <1>1, <1>3

\* The arrays of an array, one behind the other.
LEMMA FlattenSeqIs ==
  ASSUME NEW S, NEW seqs \in Seq(Seq(S))
  PROVE  /\ FlattenSeq(seqs) \in Seq(S)
         /\ (\A i \in DOMAIN seqs : Len(seqs[i]) = 2) => Len(FlattenSeq(seqs)) = 2 * Len(seqs)
<1> DEFINE Fits(g, n) == g = [i \in 1..n |-> IF i = 1 THEN seqs[i] ELSE g[i - 1] \o seqs[i]]
           Sized(g, n) == \A i \in 1..n :
             /\ g[i] \in Seq(S)
             /\ (\A j \in DOMAIN seqs : Len(seqs[j]) = 2) => Len(g[i]) = 2 * i
           T == {n \in Nat : n <= Len(seqs) => \E g : Fits(g, n) /\ Sized(g, n)}
<1>1. Len(seqs) \in Nat /\ DOMAIN seqs = 1..Len(seqs) /\ \A i \in 1..Len(seqs) : seqs[i] \in Seq(S)
  OBVIOUS
<1>2. 0 \in T
  <2> DEFINE g == [i \in 1..0 |-> seqs[i]]
  <2>1. Fits(g, 0) /\ Sized(g, 0)
    OBVIOUS
  <2> HIDE DEF g, Fits, Sized
  <2> QED
    BY <2>1
<1>3. \A n \in T : n + 1 \in T
  <2> SUFFICES ASSUME NEW n \in Nat, n + 1 <= Len(seqs), \E g : Fits(g, n) /\ Sized(g, n)
               PROVE  \E g : Fits(g, n + 1) /\ Sized(g, n + 1)
    <3> HIDE DEF Fits, Sized
    <3> QED
      BY <1>1
  <2>1. PICK g : Fits(g, n) /\ Sized(g, n)
    OBVIOUS
  <2> DEFINE h == [i \in 1..(n + 1) |-> IF i = 1 THEN seqs[i] ELSE g[i - 1] \o seqs[i]]
  <2>2. \A i \in 1..n : h[i] = g[i]
    <3> HIDE DEF Sized, T
    <3>1. g = [i \in 1..n |-> IF i = 1 THEN seqs[i] ELSE g[i - 1] \o seqs[i]]
      BY <2>1
    <3>2. \A i \in 1..n : g[i] = IF i = 1 THEN seqs[i] ELSE g[i - 1] \o seqs[i]
      <4> HIDE DEF h, Fits
      <4> QED
        BY <3>1
    <3>3. \A i \in 1..n : h[i] = IF i = 1 THEN seqs[i] ELSE g[i - 1] \o seqs[i]
      <4>1. \A i \in 1..n : i \in 1..(n + 1)
        OBVIOUS
      <4> HIDE DEF Fits
      <4> QED
        BY <4>1
    <3> HIDE DEF h, Fits
    <3> QED
      BY <3>2, <3>3
  <2>3. \A i \in 1..(n + 1) : i # 1 => i - 1 \in 1..n /\ h[i - 1] = g[i - 1]
    <3> HIDE DEF h, Fits, Sized
    <3>1. \A i \in 1..(n + 1) : i # 1 => i - 1 \in 1..n
      OBVIOUS
    <3> QED
      BY <2>2, <3>1
  <2>4. Fits(h, n + 1)
    <3> HIDE DEF Sized
    <3> QED
      BY <2>3
  <2>5. ASSUME NEW i \in 1..(n + 1)
        PROVE  /\ h[i] \in Seq(S)
               /\ (\A j \in DOMAIN seqs : Len(seqs[j]) = 2) => Len(h[i]) = 2 * i
    <3>1. i \in 1..Len(seqs) /\ seqs[i] \in Seq(S)
      BY <1>1
    <3>2. CASE i = 1
      <4>1. h[i] = seqs[i]
        BY <3>2
      <4> QED
        BY <1>1, <3>1, <3>2, <4>1
    <3>3. CASE i # 1
      <4>1. h[i] = g[i - 1] \o seqs[i] /\ i - 1 \in 1..n
        BY <2>3, <3>3
      <4>2. /\ g[i - 1] \in Seq(S)
            /\ (\A j \in DOMAIN seqs : Len(seqs[j]) = 2) => Len(g[i - 1]) = 2 * (i - 1)
        BY <2>1, <4>1
      <4> HIDE DEF h
      <4>3. Len(h[i]) = Len(g[i - 1]) + Len(seqs[i]) /\ h[i] \in Seq(S)
        BY <3>1, <4>1, <4>2
      <4>4. ASSUME \A j \in DOMAIN seqs : Len(seqs[j]) = 2 PROVE Len(h[i]) = 2 * i
        <5> HIDE DEF Fits, Sized, T
        <5>1. Len(g[i - 1]) = 2 * (i - 1)
          BY <4>2, <4>4
        <5>2. Len(seqs[i]) = 2
          BY <1>1, <3>1, <4>4
        <5> QED
          BY <4>3, <5>1, <5>2
      <4> QED
        BY <4>3, <4>4
    <3> QED
      BY <3>2, <3>3
  <2> HIDE DEF h, Fits
  <2>6. Sized(h, n + 1)
    BY <2>5
  <2> HIDE DEF Sized
  <2> QED
    BY <2>4, <2>6
<1>4. Len(seqs) \in T
  <2>1. T \in SUBSET Nat
    OBVIOUS
  <2> HIDE DEF T
  <2> QED
    BY <1>1, <1>2, <1>3, <2>1, Counting
<1>5. CASE Len(seqs) = 0
  <2>1. FlattenSeq(seqs) = seqs /\ seqs = <<>>
    BY <1>5 DEF FlattenSeq
  <2> QED
    BY <1>5, <2>1
<1>6. CASE Len(seqs) # 0
  <2> DEFINE end == Len(seqs)
  <2>1. PICK g : Fits(g, end) /\ Sized(g, end)
    <3> HIDE DEF Fits, Sized
    <3> QED
      BY <1>1, <1>4
  <2> DEFINE flatten == CHOOSE f : Fits(f, end)
  <2>2. FlattenSeq(seqs) = flatten[end]
    BY <1>6 DEF FlattenSeq
  <2>3. Fits(flatten, end)
    BY <2>1
  <2>4. flatten = g
    <3> DEFINE Same == {i \in Nat : i \in 1..end => flatten[i] = g[i]}
    <3> HIDE DEF Sized, T, flatten
    <3>0. \A i \in 1..end : /\ g[i] = IF i = 1 THEN seqs[i] ELSE g[i - 1] \o seqs[i]
                            /\ flatten[i] = IF i = 1 THEN seqs[i] ELSE flatten[i - 1] \o seqs[i]
      BY <2>1, <2>3
    <3> HIDE DEF Fits
    <3>1. 0 \in Same /\ Same \in SUBSET Nat
      OBVIOUS
    <3>2. \A i \in Same : i + 1 \in Same
      <4> SUFFICES ASSUME NEW i \in Nat, i + 1 \in 1..end, i \in 1..end => flatten[i] = g[i]
                   PROVE  flatten[i + 1] = g[i + 1]
        OBVIOUS
      <4>1. CASE i = 0
        BY <1>1, <3>0, <4>1
      <4>2. CASE i # 0
        <5>1. i \in 1..end /\ (i + 1) - 1 = i /\ i + 1 # 1
          BY <1>1, <4>2
        <5> QED
          BY <3>0, <5>1
      <4> QED
        BY <4>1, <4>2
    <3> HIDE DEF Same
    <3>3. \A i \in Nat : i \in Same
      BY <3>1, <3>2, Counting
    <3>4. \A i \in 1..end : flatten[i] = g[i]
      <4>1. \A i \in 1..end : i \in Nat
        BY <1>1
      <4> QED
        BY <3>3, <4>1 DEF Same
    <3> QED
      BY <2>1, <2>3, <3>4 DEF Fits
  <2> HIDE DEF Fits, flatten
  <2>5. end \in 1..end
    BY <1>1, <1>6
  <2> QED
    BY <2>1, <2>2, <2>4, <2>5
<1> QED
  BY <1>5, <1>6

LEMMA MadeIs ==
  ASSUME NEW S, NEW arr \in Seq(S)
  PROVE  Made(arr) = arr
BY DEF Made

-----------------------------------------------------------------------------
(* Files. *)

Edge == [length : Int, speed : Int, line : Seq(Int)]

\* What one Store writes for the geometry is as long as what it writes for the
\* attributes says.
LEMMA StoredTogether ==
  ASSUME NEW edges \in Seq(Edge), NEW points \in Seq(Int)
  PROVE  ~GeomIsShort(StoreAttribs(edges, points), StoreGraphGeom(edges, points))
<1>1. /\ Len(edges) \in Nat /\ DOMAIN edges = 1..Len(edges) /\ Len(points) \in Nat
      /\ \A i \in DOMAIN edges : edges[i].length \in Int /\ edges[i].speed \in Int /\ edges[i].line \in Seq(Int)
  <2>1. \A i \in DOMAIN edges : edges[i] \in Edge
    OBVIOUS
  <2> QED
    BY <2>1 DEF Edge
<1>2. PICK rest \in Seq(Int) : StoreAttribs(edges, points) = <<Len(points), Len(edges)>> \o rest
  <2> DEFINE rows == [i \in DOMAIN edges |-> <<edges[i].length, edges[i].speed>>]
  <2>1. StoreAttribs(edges, points) = <<Len(points), Len(edges)>> \o FlattenSeq(rows)
    BY DEF StoreAttribs, Written
  <2>2. rows \in Seq(Seq(Int))
    BY <1>1
  <2> HIDE DEF rows
  <2> QED
    BY <2>1, <2>2, FlattenSeqIs
<1>3. PICK S : \E heads \in Seq(S) : \E lines \in Seq(Int) :
        StoreGraphGeom(edges, points) = points \o heads \o lines /\ Len(heads) = 2 * Len(edges)
  <2> DEFINE start(i) == FoldLeft(LAMBDA c, e : c + Len(Line255(e)), 0, SubSeq(edges, 1, i - 1))
             heads == [i \in DOMAIN Ids(edges) |-> <<start(Ids(edges)[i]), Len(Line255(edges[Ids(edges)[i]]))>>]
             lines == [i \in DOMAIN edges |-> Line255(edges[i])]
             S == {heads[i][1] : i \in DOMAIN edges} \cup {heads[i][2] : i \in DOMAIN edges}
  <2>1. StoreGraphGeom(edges, points) = points \o FlattenSeq(heads) \o FlattenSeq(lines)
    BY DEF StoreGraphGeom, Written
  <2>2. lines \in Seq(Seq(Int))
    <3>1. \A i \in DOMAIN edges : Line255(edges[i]) \in Seq(Int)
      BY <1>1 DEF Line255
    <3> QED
      BY <1>1, <3>1
  <2> HIDE DEF start, lines
  <2>3. heads \in Seq(Seq(S)) /\ Len(heads) = Len(edges) /\ \A i \in DOMAIN heads : Len(heads[i]) = 2
    <3>1. heads = [i \in 1..Len(edges) |-> <<start(i), Len(Line255(edges[i]))>>]
      BY <1>1 DEF Ids
    <3>2. \A i \in 1..Len(edges) : heads[i][1] = start(i) /\ heads[i][2] = Len(Line255(edges[i]))
      BY <3>1
    <3>3. \A i \in 1..Len(edges) : start(i) \in S /\ Len(Line255(edges[i])) \in S
      <4> HIDE DEF heads
      <4> QED
        BY <1>1, <3>2
    <3> HIDE DEF S, heads
    <3> QED
      BY <1>1, <3>1, <3>3
  <2> HIDE DEF S, heads
  <2>4. FlattenSeq(heads) \in Seq(S) /\ Len(FlattenSeq(heads)) = 2 * Len(edges)
    BY <2>3, FlattenSeqIs
  <2>5. FlattenSeq(lines) \in Seq(Int)
    BY <2>2, FlattenSeqIs
  <2> QED
    BY <2>1, <2>4, <2>5
<1>4. PICK heads \in Seq(S) : \E lines \in Seq(Int) :
        StoreGraphGeom(edges, points) = points \o heads \o lines /\ Len(heads) = 2 * Len(edges)
  BY <1>3
<1>5. PICK lines \in Seq(Int) : StoreGraphGeom(edges, points) = points \o heads \o lines
  BY <1>4
<1>6. Len(StoreGraphGeom(edges, points)) = Len(points) + 2 * Len(edges) + Len(lines) /\ Len(lines) \in Nat
  <2>1. points \in Seq(S \cup Int) /\ heads \in Seq(S \cup Int) /\ lines \in Seq(S \cup Int)
    OBVIOUS
  <2>2. points \o heads \in Seq(S \cup Int) /\ Len(points \o heads) = Len(points) + Len(heads)
    BY <2>1
  <2>3. Len(heads) = 2 * Len(edges) /\ Len(heads) \in Nat
    BY <1>4
  <2>4. Len((points \o heads) \o lines) = Len(points \o heads) + Len(lines) /\ Len(lines) \in Nat
    BY <2>1, <2>2
  <2> QED
    BY <1>5, <2>2, <2>3, <2>4
<1>7. NumberAt(StoreAttribs(edges, points), 1) = Len(points) /\ NumberAt(StoreAttribs(edges, points), 2) = Len(edges)
  <2> DEFINE file == <<Len(points), Len(edges)>> \o rest
  <2>1. 1 \in DOMAIN file /\ 2 \in DOMAIN file /\ file[1] = Len(points) /\ file[2] = Len(edges)
    BY <1>1
  <2> HIDE DEF file
  <2>2. StoreAttribs(edges, points) = file
    BY <1>2 DEF file
  <2> QED
    BY <2>1, <2>2 DEF NumberAt
<1> QED
  BY <1>1, <1>6, <1>7 DEF GeomIsShort

ProfileSuffixes ==
  {"attr_node_mapping", "base-nodes", "base-edges", "base-graph", "weight", "ch-shortcut", "ch-ch_graph", "ch-level",
   "overlay-skip_shortcuts", "overlay-skip_topology", "overlay-tiles_types", "cell_index-tileranges",
   "partition-tiles", "transit-id_mapping", "transit-shortcut", "transit-transit_graph", "transit-stops",
   "transit-connections", "transit-weight"}

\* No file of a profile is taken for one of attributes or for the meta.
LEMMA SuffixesAre == "meta" \notin ProfileSuffixes /\ "attrib" \notin ProfileSuffixes /\ "geom" \notin ProfileSuffixes
BY DEF ProfileSuffixes

LEMMA FilesAre ==
  ASSUME NEW p, p.type \in {"driving", "walking", "transit"}, p.prep \in {"none", "contraction", "overlay"}
  PROVE  FilesOf(p) \in Seq(ProfileSuffixes)
<1>1. BaseFiles \in Seq(ProfileSuffixes)
  BY DEF BaseFiles, ProfileSuffixes
<1>2. PrepFiles(p.prep) \in Seq(ProfileSuffixes)
  <2>1. CASE p.prep = "none"
    BY <2>1 DEF PrepFiles
  <2>2. CASE p.prep = "contraction"
    BY <2>2 DEF PrepFiles, ProfileSuffixes
  <2>3. CASE p.prep = "overlay"
    BY <2>3 DEF PrepFiles, ProfileSuffixes
  <2> QED
    BY <2>1, <2>2, <2>3
<1>3. /\ "weight" \in ProfileSuffixes /\ <<"attr_node_mapping">> \in Seq(ProfileSuffixes) /\ <<"weight">> \in Seq(ProfileSuffixes)
      /\ <<"weight", "transit-id_mapping", "transit-shortcut", "transit-transit_graph",
           "transit-stops", "transit-connections", "transit-weight">> \in Seq(ProfileSuffixes)
  BY DEF ProfileSuffixes
<1>4. DrivingFiles(p.prep) \in Seq(ProfileSuffixes)
  BY <1>1, <1>2, <1>3 DEF DrivingFiles
<1>5. WalkingFiles \in Seq(ProfileSuffixes) /\ TransitFiles \in Seq(ProfileSuffixes)
  BY <1>1, <1>3 DEF WalkingFiles, TransitFiles
<1> QED
  BY <1>4, <1>5 DEF FilesOf

FilesIn(writes) == {w.file : w \in ToSet(writes)}

LEMMA FilesToWriteAre ==
  ASSUME NEW name, NEW profile, NEW S, NEW order \in Seq(S)
  PROVE  /\ FilesToWrite(name, profile, order) \in Seq(ToSet(FilesToWrite(name, profile, order)))
         /\ FilesIn(FilesToWrite(name, profile, order)) = {<<name, s>> : s \in ToSet(order)}
<1> DEFINE row(i) == [file |-> <<name, order[i]>>, content |-> Stored(order[i], profile.data[order[i]])]
           writes == [i \in DOMAIN order |-> row(i)]
           W == {row(i) : i \in DOMAIN order}
<1>1. \A i \in DOMAIN order : row(i).file = <<name, order[i]>>
  OBVIOUS
<1> HIDE DEF row
<1>2. ToSet(writes) = W
  BY DEF ToSet
<1>3. writes \in Seq(W)
  OBVIOUS
<1>4. FilesToWrite(name, profile, order) = writes
  BY <1>3, MadeIs DEF FilesToWrite, row
<1>5. {w.file : w \in W} = {<<name, order[i]>> : i \in DOMAIN order}
  BY <1>1
<1>6. {<<name, order[i]>> : i \in DOMAIN order} = {<<name, s>> : s \in ToSet(order)}
  BY DEF ToSet
<1> HIDE DEF writes, W
<1> QED
  BY <1>2, <1>3, <1>4, <1>5, <1>6 DEF FilesIn

-----------------------------------------------------------------------------
(* The invariant.  Files are only added: what was named once stays there.  *)

\* What is still to be written is of profiles or attributes, and a program that
\* is down, loads, serves or has panicked writes nothing.
Writing ==
  /\ writing \in Seq(ToSet(writing))
  /\ META \notin FilesIn(writing)
  /\ place \notin {"building", "failed"} => writing = <<>>

Empty == place = "down" => prep_cache = NoFunction /\ profiles = NoFunction /\ attributes = NoFunction

MetaIsMet ==
  META \in DOMAIN dir /\ dir[META] # Torn =>
    /\ \A n \in DOMAIN dir[META].profiles : \A s \in ToSet(FilesOf(dir[META].profiles[n])) : <<n, s>> \in DOMAIN dir
    /\ \A t \in dir[META].attributes : <<t, "attrib">> \in DOMAIN dir /\ <<t, "geom">> \in DOMAIN dir

\* While the files are those of one build.
BuildIsWhole ==
  written # Nothing =>
    /\ META \in DOMAIN dir
    /\ \A t \in dir[META].attributes : ~GeomIsShort(dir[<<t, "attrib">>], dir[<<t, "geom">>])

\* The content is in the file, or will be.
Comes(file, content) ==
  /\ \A w \in ToSet(writing) : w.file = file => w.content = content
  /\ file \in FilesIn(writing) \/ (file \in DOMAIN dir /\ dir[file] = content)

Building ==
  place = "building" =>
    /\ config \in Configs /\ todo \subseteq ToBuild(config)
    /\ \A t \in DOMAIN prep_cache : prep_cache[t] = Parsed(Extracts[config.source].osm)
    /\ \A t \in DOMAIN attributes : attributes[t] = Parsed(Extracts[config.source].osm).attributes
    /\ exists =>
         /\ \A n \in DOMAIN profiles : \A s \in ToSet(FilesOf(profiles[n])) :
              <<n, s>> \in FilesIn(writing) \cup DOMAIN dir
         /\ \A t \in DOMAIN attributes :
              /\ Comes(<<t, "attrib">>, StoreAttribs(attributes[t].edges, attributes[t].geoms))
              /\ Comes(<<t, "geom">>, StoreGraphGeom(attributes[t].edges, attributes[t].geoms))

Loading ==
  place = "loading" =>
    /\ META \in DOMAIN dir /\ dir[META] # Torn
    /\ \A x \in todo : /\ x[2] = "profile" => x[1] \in DOMAIN dir[META].profiles
                       /\ x[2] = "attributes" => x[1] \in dir[META].attributes

IInv == Writing /\ Empty /\ MetaIsMet /\ BuildIsWhole /\ Building /\ Loading /\ CompleteBuildsLoad

LEMMA OtherFiles ==
  /\ \A n : \A s \in ProfileSuffixes : <<n, s>> # META
  /\ \A t : \A n : \A s \in ProfileSuffixes : <<n, s>> # <<t, "attrib">> /\ <<n, s>> # <<t, "geom">>
  /\ \A t : <<t, "attrib">> # META /\ <<t, "geom">> # META
BY SuffixesAre DEF META

LEMMA NothingIsWritten ==
  /\ <<>> \in Seq(ToSet(<<>>)) /\ FilesIn(<<>>) = {} /\ ToSet(<<>>) = {}
BY DEF ToSet, FilesIn

LEMMA InvInit == Init => IInv
<1> SUFFICES ASSUME Init PROVE IInv
  OBVIOUS
<1>1. META \notin DOMAIN dir
  BY DEF Init, NoFunction
<1>2. writing = <<>> /\ place = "down" /\ written = Nothing
  BY DEF Init
<1> QED
  BY <1>1, <1>2, NothingIsWritten DEF Init, IInv, Writing, Empty, MetaIsMet, BuildIsWhole, Building, Loading, CompleteBuildsLoad

LEMMA StartKeeps == ASSUME IInv, Start PROVE IInv'
<1>1. /\ place = "down" /\ config' \in Configs /\ exists' = exists /\ dir' = dir /\ writing' = writing
      /\ prep_cache' = prep_cache /\ profiles' = profiles /\ attributes' = attributes /\ written' = written
  BY DEF Start, memory
<1>2. writing = <<>>
  BY <1>1 DEF IInv, Writing
<1>3. DOMAIN prep_cache = {} /\ DOMAIN profiles = {} /\ DOMAIN attributes = {}
  BY <1>1 DEF IInv, Empty, NoFunction
<1>4. Writing' /\ MetaIsMet' /\ BuildIsWhole'
  BY <1>1, <1>2, NothingIsWritten DEF IInv, Writing, MetaIsMet, BuildIsWhole
<1>5. CASE place' = "building" /\ todo' = ToBuild(config')
  <2>1. Building'
    BY <1>1, <1>3, <1>5 DEF Building
  <2> QED
    BY <1>4, <1>5, <2>1 DEF IInv, Empty, Loading, CompleteBuildsLoad
<1>6. CASE META \notin DOMAIN dir /\ place' = "panicked"
  BY <1>1, <1>4, <1>6 DEF IInv, Empty, Building, Loading, CompleteBuildsLoad
<1>7. ASSUME NEW meta, meta = IF dir[META] = Torn THEN [profiles |-> NoFunction, attributes |-> {}] ELSE dir[META],
             META \in DOMAIN dir,
             todo' = {<<n, "profile">> : n \in DOMAIN meta.profiles} \cup {<<t, "attributes">> : t \in meta.attributes},
             place' = IF todo' = {} THEN "serving" ELSE "loading"
      PROVE  IInv'
  <2>1. dir[META] = Torn => todo' = {}
    BY <1>7 DEF NoFunction
  <2>2. Loading'
    <3> SUFFICES ASSUME place' = "loading" PROVE Loading'
      BY DEF Loading
    <3>1. dir[META] # Torn /\ meta = dir[META]
      BY <1>7, <2>1
    <3> QED
      BY <1>1, <1>7, <3>1 DEF Loading
  <2>3. place' \in {"serving", "loading"}
    BY <1>7
  <2> QED
    BY <1>4, <2>2, <2>3 DEF IInv, Empty, Building, CompleteBuildsLoad
<1> QED
  <2> DEFINE meta == IF dir[META] = Torn THEN [profiles |-> NoFunction, attributes |-> {}] ELSE dir[META]
  <2>1. \/ place' = "building" /\ todo' = ToBuild(config')
        \/ META \notin DOMAIN dir /\ place' = "panicked"
        \/ /\ META \in DOMAIN dir
           /\ todo' = {<<n, "profile">> : n \in DOMAIN meta.profiles} \cup {<<t, "attributes">> : t \in meta.attributes}
           /\ place' = IF todo' = {} THEN "serving" ELSE "loading"
    BY DEF Start
  <2> HIDE DEF meta
  <2>2. ASSUME NEW m, m = meta PROVE m = IF dir[META] = Torn THEN [profiles |-> NoFunction, attributes |-> {}] ELSE dir[META]
    BY <2>2 DEF meta
  <2> QED
    BY <1>5, <1>6, <1>7, <2>1, <2>2

\* A file that is not the meta is written or cut off.
LEMMA MetaStaysMet ==
  ASSUME MetaIsMet, NEW file, file # META, NEW content, dir' = Put(dir, file, content)
  PROVE  MetaIsMet'
<1>1. DOMAIN dir' = DOMAIN dir \cup {file} /\ (META \in DOMAIN dir => dir'[META] = dir[META])
  BY DEF Put
<1>2. META \in DOMAIN dir' => META \in DOMAIN dir
  BY <1>1
<1> QED
  BY <1>1, <1>2 DEF MetaIsMet

LEMMA WriteFileKeeps == ASSUME IInv, WriteFile PROVE IInv'
<1>1. /\ writing # <<>> /\ writing' = Tail(writing) /\ written' = Nothing
      /\ config' = config /\ exists' = exists /\ place' = place /\ todo' = todo
      /\ prep_cache' = prep_cache /\ profiles' = profiles /\ attributes' = attributes
  BY DEF WriteFile, memory
<1>2. PICK w : w = Head(writing)
  OBVIOUS
<1>3. dir' = IF exists THEN Put(dir, w.file, w.content) ELSE dir
  BY <1>2 DEF WriteFile
<1>4. place \in {"building", "failed"} /\ writing \in Seq(ToSet(writing))
  BY <1>1 DEF IInv, Writing
<1>5. /\ writing' \in Seq(ToSet(writing')) /\ w \in ToSet(writing)
      /\ ToSet(writing) = {w} \cup ToSet(writing')
  <2>1. PICK rest : rest = Tail(writing)
    OBVIOUS
  <2>2. Len(writing) \in Nat \ {0} /\ DOMAIN writing = 1..Len(writing)
    BY <1>1, <1>4
  <2>3. /\ Len(rest) = Len(writing) - 1 /\ DOMAIN rest = 1..(Len(writing) - 1)
        /\ \A i \in 1..(Len(writing) - 1) : rest[i] = writing[i + 1]
    BY <1>1, <1>4, <2>1
  <2>4. w = writing[1]
    BY <1>1, <1>2, <1>4
  <2>5. \A i \in DOMAIN writing : i = 1 \/ (i - 1 \in DOMAIN rest /\ rest[i - 1] = writing[i])
    BY <2>2, <2>3
  <2>6. \A i \in DOMAIN rest : i + 1 \in DOMAIN writing /\ rest[i] = writing[i + 1]
    BY <2>2, <2>3
  <2>7. ToSet(writing) = {w} \cup ToSet(rest)
    BY <2>2, <2>4, <2>5, <2>6 DEF ToSet
  <2>8. rest \in Seq(ToSet(rest))
    <3>1. rest \in Seq(ToSet(writing))
      BY <1>1, <1>4, <2>1
    <3>2. \A i \in 1..Len(rest) : rest[i] \in ToSet(rest)
      BY <3>1 DEF ToSet
    <3>3. rest \in [1..Len(rest) -> ToSet(rest)]
      BY <3>1, <3>2
    <3> QED
      BY <3>1, <3>3
  <2> QED
    BY <1>1, <2>1, <2>7, <2>8
<1>6. FilesIn(writing) = {w.file} \cup FilesIn(writing)'
  BY <1>5 DEF FilesIn
<1>7. w.file # META /\ Writing'
  BY <1>1, <1>4, <1>5, <1>6 DEF IInv, Writing
<1>8. MetaIsMet'
  BY <1>3, <1>7, MetaStaysMet DEF IInv, MetaIsMet
<1>9. ASSUME NEW file, NEW content, Comes(file, content), exists
      PROVE  Comes(file, content)'
  <2>1. \A v \in ToSet(writing)' : v.file = file => v.content = content
    BY <1>5, <1>9 DEF Comes
  <2>2. DOMAIN dir' = DOMAIN dir \cup {w.file} /\ dir'[w.file] = w.content
    BY <1>3, <1>9 DEF Put
  <2>3. \A x \in DOMAIN dir : x # w.file => dir'[x] = dir[x]
    BY <1>3, <1>9 DEF Put
  <2>4. CASE file = w.file
    BY <1>5, <1>9, <2>1, <2>2, <2>4 DEF Comes
  <2>5. CASE file # w.file
    BY <1>6, <1>9, <2>1, <2>2, <2>3, <2>5 DEF Comes
  <2> QED
    BY <2>4, <2>5
<1>10. Building'
  <2> SUFFICES ASSUME place = "building" PROVE Building'
    BY <1>1 DEF Building
  <2>1. /\ config' \in Configs /\ todo' \subseteq ToBuild(config')
        /\ \A t \in DOMAIN prep_cache' : prep_cache'[t] = Parsed(Extracts[config'.source].osm)
        /\ \A t \in DOMAIN attributes' : attributes'[t] = Parsed(Extracts[config'.source].osm).attributes
    BY <1>1 DEF IInv, Building
  <2>2. ASSUME exists, NEW n \in DOMAIN profiles, NEW s \in ToSet(FilesOf(profiles[n]))
        PROVE  <<n, s>> \in FilesIn(writing)' \cup DOMAIN dir'
    <3>1. DOMAIN dir' = DOMAIN dir \cup {w.file}
      BY <1>3, <2>2 DEF Put
    <3> QED
      BY <1>6, <2>2, <3>1 DEF IInv, Building
  <2>3. ASSUME exists, NEW t \in DOMAIN attributes, NEW a, a = attributes[t]
        PROVE  /\ Comes(<<t, "attrib">>, StoreAttribs(a.edges, a.geoms))'
               /\ Comes(<<t, "geom">>, StoreGraphGeom(a.edges, a.geoms))'
    BY <1>9, <2>3 DEF IInv, Building
  <2> QED
    BY <1>1, <2>1, <2>2, <2>3 DEF Building
<1> QED
  BY <1>1, <1>4, <1>7, <1>8, <1>10 DEF IInv, Empty, BuildIsWhole, Loading, CompleteBuildsLoad

\* The options that a profile of the configuration is built with.
LEMMA OptionsAre ==
  ASSUME config \in Configs, NEW name, <<name, "profile">> \in ToBuild(config), NEW opt, opt = Options(config.profiles[name])
  PROVE  opt.type \in {"driving", "walking", "transit"} /\ opt.prep \in {"none", "contraction", "overlay"}
<1>1. name \in DOMAIN config.profiles /\ opt # Nothing
  <2>1. PICK n \in DOMAIN config.profiles : <<name, "profile">> = <<n, "profile">> /\ Options(config.profiles[n]) # Nothing
    BY DEF ToBuild
  <2> QED
    BY <2>1
<1>2. PICK raw : raw = config.profiles[name]
  OBVIOUS
<1>3. raw.type \in {"driving", "walking", "transit", "cycling"} /\ raw.prep \in {"none", "contraction", "overlay"}
  BY <1>1, <1>2, ManagerAssumption
<1>4. opt = Options(raw)
  BY <1>2
<1>5. CASE raw.type = "driving"
  <2>1. \E v, m : opt = [type |-> "driving", vehicle |-> v, metric |-> m,
                       prep |-> IF raw.vehicle \in Known THEN raw.prep ELSE "none"]
    BY <1>4, <1>5, Zenon DEF Options
  <2> QED
    BY <1>3, <2>1
<1>6. CASE raw.type = "walking"
  <2>1. \E v, m : opt = [type |-> "walking", vehicle |-> v, metric |-> m, prep |-> "none"]
    BY <1>4, <1>6, Zenon DEF Options
  <2> QED
    BY <2>1
<1>7. CASE raw.type = "transit"
  <2>1. \E v, m : opt = [type |-> "transit", vehicle |-> v, metric |-> m, prep |-> "none"]
    BY <1>4, <1>7, Zenon DEF Options
  <2> QED
    BY <2>1
<1>8. CASE raw.type = "cycling"
  BY <1>1, <1>4, <1>8 DEF Options
<1> QED
  BY <1>3, <1>5, <1>6, <1>7, <1>8

LEMMA BuildProfileKeeps == ASSUME IInv, NEW name, BuildProfile(name) PROVE IInv'
<1>1. /\ place = "building" /\ writing = <<>> /\ <<name, "profile">> \in todo /\ todo' = todo \ {<<name, "profile">>}
      /\ config' = config /\ exists' = exists /\ dir' = dir /\ attributes' = attributes /\ written' = written
  BY DEF BuildProfile
<1>2. PICK osm : osm = Extracts[config.source].osm
  OBVIOUS
<1>3. PICK opt : opt = Options(config.profiles[name])
  OBVIOUS
<1>4. PICK item : /\ item = IF PrepType(opt) \in DOMAIN prep_cache THEN prep_cache[PrepType(opt)] ELSE Parsed(osm)
                  /\ prep_cache' = Put(prep_cache, PrepType(opt), item)
                  /\ \/ /\ place' = place
                        /\ \E data : /\ profiles' = Put(profiles, name, ProfileOf(opt, data))
                                      /\ writing' = FilesToWrite(name, ProfileOf(opt, data), FilesOf(ProfileOf(opt, data)))
                     \/ /\ place' = "failed"
                        /\ \E profile : writing' = FilesToWrite(name, profile, WalkingFiles)
  BY <1>2, <1>3 DEF BuildProfile
<1>5. /\ config \in Configs /\ todo \subseteq ToBuild(config)
      /\ \A t \in DOMAIN prep_cache : prep_cache[t] = Parsed(osm)
  BY <1>1, <1>2 DEF IInv, Building
<1>6. opt.type \in {"driving", "walking", "transit"} /\ opt.prep \in {"none", "contraction", "overlay"}
  BY <1>1, <1>3, <1>5, OptionsAre
<1>7. PICK order \in Seq(ProfileSuffixes) :
        /\ place' = place => \E data : /\ profiles' = Put(profiles, name, ProfileOf(opt, data))
                                       /\ order = FilesOf(ProfileOf(opt, data))
        /\ \E profile : writing' = FilesToWrite(name, profile, order)
  <2>1. CASE place' = place
    <3>1. PICK data : /\ profiles' = Put(profiles, name, ProfileOf(opt, data))
                      /\ writing' = FilesToWrite(name, ProfileOf(opt, data), FilesOf(ProfileOf(opt, data)))
      BY <1>1, <1>4, <2>1
    <3>2. FilesOf(ProfileOf(opt, data)) \in Seq(ProfileSuffixes)
      BY <1>6, FilesAre DEF ProfileOf
    <3> QED
      BY <3>1, <3>2
  <2>2. CASE place' = "failed"
    <3>1. WalkingFiles \in Seq(ProfileSuffixes)
      BY DEF WalkingFiles, BaseFiles, ProfileSuffixes
    <3>2. PICK profile : writing' = FilesToWrite(name, profile, WalkingFiles)
      BY <1>1, <1>4, <2>2
    <3> QED
      BY <1>1, <2>2, <3>1, <3>2
  <2> QED
    BY <1>4, <2>1, <2>2
<1>8. place' \in {"building", "failed"}
  BY <1>1, <1>4
<1>9. /\ writing' \in Seq(ToSet(writing'))
      /\ FilesIn(writing') = {<<name, s>> : s \in ToSet(order)}
      /\ ToSet(order) \subseteq ProfileSuffixes
  <2>1. PICK profile : writing' = FilesToWrite(name, profile, order)
    BY <1>7
  <2>2. ToSet(order) \subseteq ProfileSuffixes
    BY DEF ToSet
  <2> QED
    BY <2>1, <2>2, FilesToWriteAre
<1>10. Writing' /\ Empty' /\ MetaIsMet' /\ BuildIsWhole'
  BY <1>1, <1>8, <1>9, OtherFiles DEF IInv, Writing, Empty, MetaIsMet, BuildIsWhole, FilesIn
<1>11. Building'
  <2> SUFFICES ASSUME place' = "building" PROVE Building'
    BY DEF Building
  <2>1. /\ config' \in Configs /\ todo' \subseteq ToBuild(config')
        /\ \A t \in DOMAIN prep_cache' : prep_cache'[t] = Parsed(osm)
        /\ \A t \in DOMAIN attributes' : attributes'[t] = Parsed(osm).attributes
    <3>1. item = Parsed(osm)
      BY <1>4, <1>5
    <3>2. \A t \in DOMAIN prep_cache' : prep_cache'[t] = Parsed(osm)
      BY <1>4, <1>5, <3>1 DEF Put
    <3> QED
      BY <1>1, <1>2, <1>5, <3>2 DEF IInv, Building
  <2>2. FilesIn(writing) = {} /\ ToSet(writing) = {}
    BY <1>1, NothingIsWritten
  <2>3. ASSUME exists, NEW n \in DOMAIN profiles', NEW s \in ToSet(FilesOf(profiles'[n]))
        PROVE  <<n, s>> \in FilesIn(writing') \cup DOMAIN dir'
    <3>1. PICK data : /\ profiles' = Put(profiles, name, ProfileOf(opt, data)) /\ order = FilesOf(ProfileOf(opt, data))
      BY <1>1, <1>7
    <3>2. CASE n = name
      <4>1. profiles'[n] = ProfileOf(opt, data)
        BY <3>1, <3>2 DEF Put
      <4> QED
        BY <1>9, <2>3, <3>1, <3>2, <4>1
    <3>3. CASE n # name
      <4>1. n \in DOMAIN profiles /\ profiles'[n] = profiles[n]
        BY <2>3, <3>1, <3>3 DEF Put
      <4> QED
        BY <1>1, <2>2, <2>3, <4>1 DEF IInv, Building
    <3> QED
      BY <3>2, <3>3
  <2>4. ASSUME exists, NEW t \in DOMAIN attributes, NEW file \in {<<t, "attrib">>, <<t, "geom">>}, NEW content,
               Comes(file, content)
        PROVE  Comes(file, content)'
    <3>1. file \in DOMAIN dir /\ dir[file] = content
      BY <2>2, <2>4 DEF Comes
    <3>2. file \notin FilesIn(writing')
      BY <1>9, OtherFiles
    <3> QED
      BY <1>1, <3>1, <3>2 DEF Comes, FilesIn
  <2>5. ASSUME exists, NEW t \in DOMAIN attributes, NEW a, a = attributes[t]
        PROVE  /\ Comes(<<t, "attrib">>, StoreAttribs(a.edges, a.geoms))'
               /\ Comes(<<t, "geom">>, StoreGraphGeom(a.edges, a.geoms))'
    BY <1>1, <2>4, <2>5 DEF IInv, Building
  <2>6. \A n \in DOMAIN profiles' : \A s \in ToSet(FilesOf(profiles'[n])) :
          exists => <<n, s>> \in FilesIn(writing)' \cup DOMAIN dir'
    BY <2>3 DEF FilesIn
  <2> QED
    BY <1>1, <1>2, <2>1, <2>5, <2>6 DEF Building
<1> QED
  BY <1>8, <1>10, <1>11 DEF IInv, Loading, CompleteBuildsLoad

LEMMA StoreAttributesKeeps == ASSUME IInv, NEW typ, StoreAttributes(typ) PROVE IInv'
<1>1. /\ place = "building" /\ writing = <<>> /\ typ \in DOMAIN prep_cache \ DOMAIN attributes
      /\ config' = config /\ exists' = exists /\ dir' = dir /\ place' = place /\ todo' = todo
      /\ prep_cache' = prep_cache /\ profiles' = profiles /\ written' = written
  BY DEF StoreAttributes, Built
<1>2. PICK att : att = prep_cache[typ].attributes
  OBVIOUS
<1>3. PICK one, two : /\ one = [file |-> <<typ, "attrib">>, content |-> StoreAttribs(att.edges, att.geoms)]
                      /\ two = [file |-> <<typ, "geom">>, content |-> StoreGraphGeom(att.edges, att.geoms)]
  OBVIOUS
<1>4. attributes' = Put(attributes, typ, att) /\ writing' = <<one, two>>
  BY <1>2, <1>3 DEF StoreAttributes
<1>5. ToSet(writing') = {one, two} /\ writing' \in Seq(ToSet(writing'))
  <2>1. ToSet(<<one, two>>) = {one, two} /\ <<one, two>> \in Seq({one, two})
    BY DEF ToSet
  <2> QED
    BY <1>4, <2>1
<1>6. one.file = <<typ, "attrib">> /\ two.file = <<typ, "geom">>
  BY <1>3
<1>7. Writing' /\ Empty' /\ MetaIsMet' /\ BuildIsWhole'
  BY <1>1, <1>5, <1>6, OtherFiles DEF IInv, Writing, Empty, MetaIsMet, BuildIsWhole, FilesIn
<1>8. Building'
  <2>1. FilesIn(writing) = {} /\ ToSet(writing) = {}
    BY <1>1, NothingIsWritten
  <2>2. /\ config' \in Configs /\ todo' \subseteq ToBuild(config')
        /\ \A t \in DOMAIN prep_cache' : prep_cache'[t] = Parsed(Extracts[config'.source].osm)
        /\ \A t \in DOMAIN attributes' : attributes'[t] = Parsed(Extracts[config'.source].osm).attributes
    <3>1. /\ config \in Configs /\ todo \subseteq ToBuild(config)
          /\ \A t \in DOMAIN prep_cache : prep_cache[t] = Parsed(Extracts[config.source].osm)
          /\ \A t \in DOMAIN attributes : attributes[t] = Parsed(Extracts[config.source].osm).attributes
      BY <1>1 DEF IInv, Building
    <3>2. \A t \in DOMAIN attributes' : attributes'[t] = Parsed(Extracts[config.source].osm).attributes
      BY <1>1, <1>2, <1>4, <3>1 DEF Put
    <3> QED
      BY <1>1, <3>1, <3>2
  <2>3. \A n \in DOMAIN profiles' : \A s \in ToSet(FilesOf(profiles'[n])) :
          exists => <<n, s>> \in FilesIn(writing)' \cup DOMAIN dir'
    BY <1>1, <2>1 DEF IInv, Building
  <2>4. ASSUME exists, NEW t \in DOMAIN attributes', NEW a, a = attributes'[t]
        PROVE  /\ Comes(<<t, "attrib">>, StoreAttribs(a.edges, a.geoms))'
               /\ Comes(<<t, "geom">>, StoreGraphGeom(a.edges, a.geoms))'
    <3>1. CASE t = typ
      <4>1. a = att
        BY <1>4, <2>4, <3>1 DEF Put
      <4>2. one.content = StoreAttribs(a.edges, a.geoms) /\ two.content = StoreGraphGeom(a.edges, a.geoms)
        BY <1>3, <4>1
      <4>3. one.file # two.file
        BY <1>6
      <4> QED
        BY <1>5, <1>6, <3>1, <4>2, <4>3 DEF Comes, FilesIn
    <3>2. CASE t # typ
      <4>1. t \in DOMAIN attributes /\ a = attributes[t]
        BY <1>4, <2>4, <3>2 DEF Put
      <4>2. Comes(<<t, "attrib">>, StoreAttribs(a.edges, a.geoms)) /\ Comes(<<t, "geom">>, StoreGraphGeom(a.edges, a.geoms))
        BY <1>1, <2>4, <4>1 DEF IInv, Building
      <4>3. \A w \in {one, two} : w.file # <<t, "attrib">> /\ w.file # <<t, "geom">>
        BY <1>6, <3>2
      <4> QED
        BY <1>1, <1>5, <2>1, <4>2, <4>3 DEF Comes, FilesIn
    <3> QED
      BY <3>1, <3>2
  <2> QED
    BY <1>1, <2>2, <2>3, <2>4 DEF Building
<1> QED
  BY <1>1, <1>7, <1>8 DEF IInv, Loading, CompleteBuildsLoad

LEMMA StoreMetaKeeps == ASSUME IInv, StoreMeta PROVE IInv'
<1>1. /\ place = "building" /\ todo = {} /\ writing = <<>> /\ place' = "serving" /\ writing' = writing
      /\ exists' = exists /\ written' = IF exists THEN config ELSE Nothing
  BY DEF StoreMeta, Built
<1>2. CASE ~exists
  <2>1. dir' = dir /\ written' = Nothing
    BY <1>1, <1>2 DEF StoreMeta
  <2> QED
    BY <1>1, <2>1 DEF IInv, Writing, Empty, MetaIsMet, BuildIsWhole, Building, Loading, CompleteBuildsLoad
<1>3. CASE exists
  <2>1. PICK meta : meta = [profiles |-> [n \in DOMAIN profiles |-> MetaOf(profiles[n])], attributes |-> DOMAIN attributes]
    OBVIOUS
  <2>2. dir' = Put(dir, META, meta)
    BY <1>3, <2>1 DEF StoreMeta
  <2>3. /\ DOMAIN dir' = DOMAIN dir \cup {META} /\ dir'[META] = meta
        /\ \A x \in DOMAIN dir : x # META => dir'[x] = dir[x]
    BY <2>2 DEF Put
  <2>4. FilesIn(writing) = {} /\ ToSet(writing) = {}
    BY <1>1, NothingIsWritten
  <2>5. \A n \in DOMAIN meta.profiles : \A s \in ToSet(FilesOf(meta.profiles[n])) : <<n, s>> \in DOMAIN dir
    <3> SUFFICES ASSUME NEW n \in DOMAIN meta.profiles, NEW s \in ToSet(FilesOf(meta.profiles[n]))
                 PROVE  <<n, s>> \in DOMAIN dir
      OBVIOUS
    <3>1. n \in DOMAIN profiles /\ meta.profiles[n] = MetaOf(profiles[n])
      BY <2>1
    <3>2. FilesOf(MetaOf(profiles[n])) = FilesOf(profiles[n])
      BY DEF MetaOf, FilesOf
    <3> QED
      BY <1>1, <1>3, <2>4, <3>1, <3>2 DEF IInv, Building
  <2>6. ASSUME NEW t \in meta.attributes
        PROVE  /\ <<t, "attrib">> \in DOMAIN dir /\ <<t, "geom">> \in DOMAIN dir
               /\ ~GeomIsShort(dir[<<t, "attrib">>], dir[<<t, "geom">>])
    <3>1. PICK a : a = attributes[t]
      OBVIOUS
    <3>2. t \in DOMAIN attributes
      BY <2>1
    <3>3. Comes(<<t, "attrib">>, StoreAttribs(a.edges, a.geoms)) /\ Comes(<<t, "geom">>, StoreGraphGeom(a.edges, a.geoms))
      BY <1>1, <1>3, <3>1, <3>2 DEF IInv, Building
    <3>4. /\ <<t, "attrib">> \in DOMAIN dir /\ dir[<<t, "attrib">>] = StoreAttribs(a.edges, a.geoms)
          /\ <<t, "geom">> \in DOMAIN dir /\ dir[<<t, "geom">>] = StoreGraphGeom(a.edges, a.geoms)
      BY <2>4, <3>3 DEF Comes
    <3>5. config \in Configs /\ a = Parsed(Extracts[config.source].osm).attributes
      BY <1>1, <3>1, <3>2 DEF IInv, Building
    <3>6. a.geoms \in Seq(Int) /\ a.edges \in Seq(Edge)
      BY <3>5, ManagerAssumption, ParserAssumption DEF Edge
    <3> QED
      BY <3>4, <3>6, StoredTogether
  <2>7. \A t \in meta.attributes : dir'[<<t, "attrib">>] = dir[<<t, "attrib">>] /\ dir'[<<t, "geom">>] = dir[<<t, "geom">>]
    BY <2>3, <2>6, OtherFiles
  <2>8. MetaIsMet'
    BY <2>3, <2>5, <2>6 DEF MetaIsMet
  <2>9. BuildIsWhole'
    BY <2>3, <2>6, <2>7 DEF BuildIsWhole
  <2> QED
    BY <1>1, <2>8, <2>9 DEF IInv, Writing, Empty, Building, Loading, CompleteBuildsLoad
<1> QED
  BY <1>2, <1>3

LEMMA LoadProfileKeeps == ASSUME IInv, NEW name, LoadProfile(name) PROVE IInv'
<1>1. /\ place = "loading" /\ <<name, "profile">> \in todo
      /\ dir' = dir /\ writing' = writing /\ written' = written
  BY DEF LoadProfile
<1>2. META \in DOMAIN dir /\ dir[META] # Torn /\ name \in DOMAIN dir[META].profiles
  BY <1>1 DEF IInv, Loading
<1>3. \A s \in ToSet(FilesOf(dir[META].profiles[name])) : <<name, s>> \in DOMAIN dir
  BY <1>2 DEF IInv, MetaIsMet
<1>4. todo' = todo \ {<<name, "profile">>} /\ place' = IF todo' = {} THEN "serving" ELSE "loading"
  BY <1>3 DEF LoadProfile
<1> QED
  BY <1>1, <1>4 DEF IInv, Writing, Empty, MetaIsMet, BuildIsWhole, Building, Loading, CompleteBuildsLoad

LEMMA LoadAttributesKeeps == ASSUME IInv, NEW typ, LoadAttributes(typ) PROVE IInv'
<1>1. /\ place = "loading" /\ <<typ, "attributes">> \in todo
      /\ dir' = dir /\ writing' = writing /\ written' = written
  BY DEF LoadAttributes
<1>2. META \in DOMAIN dir /\ dir[META] # Torn /\ typ \in dir[META].attributes
  BY <1>1 DEF IInv, Loading
<1>3. <<typ, "attrib">> \in DOMAIN dir /\ <<typ, "geom">> \in DOMAIN dir
  BY <1>2 DEF IInv, MetaIsMet
<1>4. Writing' /\ MetaIsMet' /\ BuildIsWhole'
  <2>1. place' \in {"serving", "loading", "panicked"}
    BY DEF LoadAttributes
  <2> QED
    BY <1>1, <2>1 DEF IInv, Writing, MetaIsMet, BuildIsWhole
<1>5. CASE todo' = todo \ {<<typ, "attributes">>} /\ place' = IF todo' = {} THEN "serving" ELSE "loading"
  BY <1>1, <1>4, <1>5 DEF IInv, Empty, Building, Loading, CompleteBuildsLoad
<1>6. CASE place' = "panicked" /\ GeomIsShort(dir[<<typ, "attrib">>], dir[<<typ, "geom">>])
  <2>1. written = Nothing
    BY <1>2, <1>6 DEF IInv, BuildIsWhole
  <2>2. \A n \in DOMAIN dir[META].profiles : \A s \in ToSet(FilesOf(dir[META].profiles[n])) : <<n, s>> \in DOMAIN dir
    BY <1>2 DEF IInv, MetaIsMet
  <2>3. CompleteBuildsLoad'
    BY <1>1, <1>2, <1>3, <1>6, <2>1, <2>2 DEF CompleteBuildsLoad
  <2> QED
    BY <1>4, <1>6, <2>3 DEF IInv, Empty, Building, Loading
<1> QED
  BY <1>3, <1>5, <1>6 DEF LoadAttributes

LEMMA CrashKeeps == ASSUME IInv, Crash PROVE IInv'
<1>1. /\ place' = "down" /\ writing' = <<>> /\ exists' = exists
      /\ prep_cache' = NoFunction /\ profiles' = NoFunction /\ attributes' = NoFunction
  BY DEF Crash
<1>2. Writing' /\ Empty' /\ Building' /\ Loading' /\ CompleteBuildsLoad'
  BY <1>1, NothingIsWritten DEF Writing, Empty, Building, Loading, CompleteBuildsLoad
<1>3. CASE dir' = dir /\ written' = written
  BY <1>2, <1>3 DEF IInv, MetaIsMet, BuildIsWhole
<1>4. CASE /\ written' = Nothing
           /\ \E file, content : file # META /\ dir' = Put(dir, file, content)
  <2>1. MetaIsMet'
    BY <1>4, MetaStaysMet DEF IInv
  <2> QED
    BY <1>2, <1>4, <2>1 DEF IInv, BuildIsWhole
<1>5. CASE written' = Nothing /\ dir' = Put(dir, META, Torn)
  <2>1. dir'[META] = Torn
    BY <1>5 DEF Put
  <2> QED
    BY <1>2, <1>5, <2>1 DEF IInv, MetaIsMet, BuildIsWhole
<1>6. ASSUME NEW part, dir' = Put(dir, part.file, part.content), written' = Nothing,
             \/ writing # <<>> /\ part \in CutOff(writing)
             \/ part = [file |-> META, content |-> Torn]
      PROVE  IInv'
  <2>1. CASE writing # <<>> /\ part \in CutOff(writing)
    <3>1. part.file = Head(writing).file
      <4>1. \E content : part = [file |-> Head(writing).file, content |-> content]
        BY <2>1, Zenon DEF CutOff
      <4> QED
        BY <4>1
    <3>2. Head(writing) \in ToSet(writing)
      <4>1. writing \in Seq(ToSet(writing))
        BY DEF IInv, Writing
      <4> QED
        BY <2>1, <4>1
    <3>3. part.file # META
      BY <3>1, <3>2 DEF IInv, Writing, FilesIn
    <3> QED
      BY <1>4, <1>6, <3>3
  <2>2. CASE part = [file |-> META, content |-> Torn]
    BY <1>5, <1>6, <2>2
  <2> QED
    BY <1>6, <2>1, <2>2
<1> QED
  BY <1>3, <1>6 DEF Crash

LEMMA InvStep == IInv /\ [Next]_vars => IInv'
<1> SUFFICES ASSUME IInv, [Next]_vars PROVE IInv'
  OBVIOUS
<1>1. CASE Start
  BY <1>1, StartKeeps
<1>2. CASE WriteFile
  BY <1>2, WriteFileKeeps
<1>3. CASE StoreMeta
  BY <1>3, StoreMetaKeeps
<1>4. CASE Crash
  BY <1>4, CrashKeeps
<1>5. CASE \E x \in todo : BuildProfile(x[1])
  BY <1>5, BuildProfileKeeps
<1>6. CASE \E t \in DOMAIN prep_cache : StoreAttributes(t)
  BY <1>6, StoreAttributesKeeps
<1>7. CASE \E x \in todo : LoadProfile(x[1]) \/ LoadAttributes(x[1])
  BY <1>7, LoadProfileKeeps, LoadAttributesKeeps
<1>8. CASE UNCHANGED vars
  BY <1>8 DEF vars, memory, IInv, Writing, Empty, MetaIsMet, BuildIsWhole, Building, Comes, Loading, CompleteBuildsLoad
<1> QED
  BY <1>1, <1>2, <1>3, <1>4, <1>5, <1>6, <1>7, <1>8 DEF Next

\* The invariant holds of every start, build, write, load and crash of manager.go
\* and profile.go.
THEOREM Invariance == Spec => []IInv
<1>1. Init => IInv
  BY InvInit
<1>2. IInv /\ [Next]_vars => IInv'
  BY InvStep
<1> QED
  BY <1>1, <1>2, PTL DEF Spec

\* NewRoutingManager panics at a directory without a "meta", or where the files of
\* several builds lie under it: never for a file that is not there, and never
\* after one complete build.
THEOREM CompleteBuildsAlwaysLoad == Spec => []CompleteBuildsLoad
<1>1. IInv => CompleteBuildsLoad
  BY DEF IInv
<1> QED
  BY <1>1, Invariance, PTL
=============================================================================
