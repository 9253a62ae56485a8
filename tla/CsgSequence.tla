---------------------------- MODULE CsgSequence ------------------------------
(***************************************************************************)
(* Subtraction sequences.  Sequenced convex subtraction draws the          *)
(* subtracted objects of a product one after the other; an object whose    *)
(* hole only opens once another has been cut has to come after that one,   *)
(* and as the order depends on the pixel, objects come several times.      *)
(*                                                                         *)
(* Objects are numbers from 1, a sequence is a tuple of them.  A graph is  *)
(* a function from the objects that are left to the sets of objects they   *)
(* touch; the code's `processed' flags and erased rows are the objects no  *)
(* longer in its domain.                                                   *)
(***************************************************************************)
EXTENDS Naturals, FiniteSets, SequencesExt

-----------------------------------------------------------------------------
(* Any k of n objects in any order. *)

(* The best known sequences, by n and then by k. *)
BestSequences ==
  << << <<1>> >>,
     << <<1, 2>>, <<1, 2, 1>> >>,
     << <<1, 2, 3>>, <<1, 2, 3, 1, 2>>, <<1, 2, 3, 1, 2, 1, 3>> >>,
     << <<1, 2, 3, 4>>, <<1, 2, 3, 4, 1, 2, 3>>, <<1, 2, 3, 4, 1, 2, 3, 1, 2, 4>>,
        <<1, 2, 3, 4, 1, 2, 3, 1, 4, 2, 1, 3>> >>,
     << <<1, 2, 3, 4, 5>>, <<1, 2, 3, 4, 5, 1, 2, 3, 4>>,
        <<1, 2, 3, 4, 5, 1, 2, 3, 4, 1, 2, 3, 5>>,
        <<1, 2, 3, 4, 5, 1, 2, 3, 4, 1, 2, 5, 3, 1, 2, 4>>,
        <<1, 2, 3, 4, 5, 1, 2, 3, 4, 1, 5, 2, 3, 1, 4, 2, 3, 5, 1>> >>,
     << <<1, 2, 3, 4, 5, 6>>, <<1, 2, 3, 4, 5, 6, 1, 2, 3, 4, 5>>,
        <<1, 2, 3, 4, 5, 6, 1, 2, 3, 4, 5, 6, 1, 2, 3, 4>> >>,
     << <<1, 2, 3, 4, 5, 6, 7>>, <<1, 2, 3, 4, 5, 6, 7, 1, 2, 3, 4, 5, 6>> >> >>

Run(from, to) == [q \in 1..(to - from + 1) |-> from + q - 1]

(* gscsSequenceGalbiati: 2 1 3, then n - 1 times the objects from 5 on and   *)
(* two of 2, 3, 4 in turn around object 1.                                   *)
gscsSequenceGalbiati(n) ==
  LET V(q) == <<2, 3, 4>>[(q % 3) + 1]
  IN  <<2, 1, 3>>
        \o FlattenSeq([i \in 1..(n - 1) |-> Run(5, n) \o <<V(2 * i), 1, V(2 * i + 1)>>])

(* gscsSequenceSavage: the first k - 1 objects over and over, with the       *)
(* others (B) at both ends and once after each of k-1, k-2 ... 2, from round *)
(* to round.                                                                 *)
gscsSequenceSavage(n, k) ==
  LET B == Run(k, n)
      Entry(i) ==
        LET j == ((i - 1) % (k - 1)) + 1
            round == (i - 1) \div (k - 1)
        IN  IF j = k - 1 - round /\ j > 1 THEN <<j>> \o B ELSE <<j>>
  IN  B \o FlattenSeq([i \in 1..(k * k - 3 * k + 4) |-> Entry(i)]) \o B

(* Otherwise: forwards and backwards, k times. *)
BackAndForth(n, k) ==
  FlattenSeq([i \in 1..k |->
    LET way == IF i % 2 = 1 THEN Run(1, n) ELSE Reverse(Run(1, n))
    IN  IF i = 1 THEN way ELSE Tail(way)])

(* Mistake: the table's rows are for k - 1. *)
gscsSequenceShort(n, k) ==
  IF k > 0 /\ n \in DOMAIN BestSequences /\ k \in DOMAIN BestSequences[n]
    THEN BestSequences[n][IF k > 1 THEN k - 1 ELSE k]
  ELSE BackAndForth(n, k)

(* gscsSequence(n,k) *)
gscsSequence(n, k) ==
  IF n \in DOMAIN BestSequences /\ k \in DOMAIN BestSequences[n] THEN BestSequences[n][k]
  ELSE IF n >= 4 /\ k = n THEN gscsSequenceGalbiati(n)
  ELSE IF n >= 3 /\ k >= 3 THEN gscsSequenceSavage(n, k)
  ELSE BackAndForth(n, k)

-----------------------------------------------------------------------------
(* A ring of n objects, in the order of the ring. *)

RingTable ==
  << <<1>>, <<1, 2, 1>>, <<1, 2, 3, 1, 2, 3, 1>>,
     <<1, 2, 3, 4, 3, 2, 1, 4, 2, 3>>,
     <<1, 2, 3, 4, 5, 4, 3, 2, 1, 5, 4, 2, 3, 4>>,
     <<1, 2, 3, 2, 4, 1, 5, 6, 4, 3, 5, 2, 1, 2, 5, 3, 4, 6>>,
     <<1, 2, 3, 4, 2, 1, 5, 6, 7, 6, 5, 4, 1, 2, 3, 2, 1, 4, 6, 5, 7, 6>>,
     <<1, 2, 3, 4, 5, 4, 3, 2, 1, 6, 7, 8, 1, 7, 4, 6, 2, 3, 5, 4, 3, 2, 6, 1, 8, 7>>,
     <<1, 2, 3, 4, 5, 6, 7, 5, 4, 3, 2, 8, 9, 1, 9, 2, 8, 3, 7, 4, 6, 5, 4, 3, 2, 6,
       7, 1, 9, 8>>,
     <<1, 2, 3, 4, 5, 6, 7, 8, 7, 6, 9, 5, 4, 3, 2, 1, 10, 1, 9, 7, 8, 6, 5, 4, 3, 2,
       1, 3, 4, 10, 5, 6, 8, 7, 9>> >>

(* gscsSequenceRing: beyond the table, almost twice around and almost twice  *)
(* back.                                                                     *)
gscsSequenceRing(n) ==
  IF n \in DOMAIN RingTable THEN RingTable[n]
  ELSE [q \in 1..(2 * n - 1) |-> ((q - 1) % n) + 1]
         \o [q \in 1..(2 * n - 4) |-> ((2 * n - 2 - q) % n) + 1]

-----------------------------------------------------------------------------
(* CsgOverlapGraph. *)

Least(S) == CHOOSE x \in S : \A y \in S : x <= y

Ascending(S) ==
  [q \in 1..Cardinality(S) |-> CHOOSE x \in S : Cardinality({y \in S : y < x}) = q - 1]

Without(graph, gone) == [i \in DOMAIN graph \ gone |-> graph[i] \ gone]

(* leafNodes *)
LeafNodes(graph) == {i \in DOMAIN graph : Cardinality(graph[i]) = 1}

(* The leaves, from the outside to the inside, pass after pass. *)
RECURSIVE LeafOrder(_)
LeafOrder(graph) ==
  IF LeafNodes(graph) = {} THEN <<>>
  ELSE Ascending(LeafNodes(graph)) \o LeafOrder(Without(graph, LeafNodes(graph)))

(* Go on from one object with two neighbours to the next, until the first    *)
(* returns; no ring otherwise.                                               *)
RECURSIVE Walk(_, _)
Walk(graph, ring) ==
  IF Cardinality(graph[Last(ring)]) # 2 THEN <<>>
  ELSE LET on == Least(graph[Last(ring)] \ {ring[Len(ring) - 1]})
       IN  IF on = ring[1] THEN ring ELSE Walk(graph, Append(ring, on))

(* ringSubgraph, from one object. *)
RingFrom(graph, i) ==
  IF Cardinality(graph[i]) = 2 THEN Walk(graph, <<i, Least(graph[i])>>) ELSE <<>>

RECURSIVE Rings(_)
Rings(graph) ==
  LET starts == {i \in DOMAIN graph : RingFrom(graph, i) # <<>>}
  IN  IF starts = {} THEN <<>>
      ELSE LET ring == RingFrom(graph, Least(starts))
           IN  <<ring>> \o Rings(Without(graph, ToSet(ring)))

(* subgraph: everything connected, breadth first. *)
RECURSIVE Breadth(_, _, _)
Breadth(graph, pending, nodes) ==
  IF pending = <<>> THEN nodes
  ELSE LET j == Head(pending) IN
    IF j \in ToSet(nodes) THEN Breadth(graph, Tail(pending), nodes)
    ELSE Breadth(graph,
                 Tail(pending) \o Ascending(graph[j] \ ToSet(nodes)),
                 Append(nodes, j))

RECURSIVE Subgraphs(_)
Subgraphs(graph) ==
  IF DOMAIN graph = {} THEN <<>>
  ELSE LET nodes == Breadth(graph, <<Least(DOMAIN graph)>>, <<>>)
       IN  <<nodes>> \o Subgraphs(Without(graph, ToSet(nodes)))

-----------------------------------------------------------------------------
(* Sequences for a graph. *)

(* gscsRemapSequence *)
Remap(seq, objects) == [q \in DOMAIN seq |-> objects[seq[q]]]

(* gscsSequenceOptimise: an object is not drawn twice in a row. *)
WithoutRepeats(seq) ==
  LET kept == {q \in DOMAIN seq : q = 1 \/ seq[q] # seq[q - 1]}
  IN  Remap(Ascending(kept), seq)

(* Mistake: the leaves come in the same order at the end. *)
CombineLeavesTwice(leaves, middle) == WithoutRepeats(leaves \o middle \o leaves)

(* The leaves go around the rest, outside to inside and back. *)
Combine(leaves, middle) == WithoutRepeats(leaves \o middle \o Reverse(leaves))

(* gscsSequence(prod,...) once the graph is prepared; "depth" is the depth    *)
(* complexity sampled for each set of objects.                               *)
SequenceOf(graph, depth) ==
  LET leaves == LeafOrder(graph)
      inner  == Without(graph, ToSet(leaves))
      rings  == Rings(inner)
      rest   == Without(inner, UNION {ToSet(rings[r]) : r \in DOMAIN rings})
      subs   == Subgraphs(rest)
      ForSub(objects) ==
        LET n == Len(objects)
        IN  Remap(gscsSequence(n, IF n = 1 THEN 1 ELSE depth[ToSet(objects)]), objects)
  IN  Combine(leaves,
        FlattenSeq([r \in DOMAIN rings |-> Remap(gscsSequenceRing(Len(rings[r])), rings[r])])
          \o FlattenSeq([s \in DOMAIN subs |-> ForSub(subs[s])]))

=============================================================================
