----------------------------- MODULE CsgPicture ------------------------------
(***************************************************************************)
(* What becomes of a normalised CSG tree on the screen: sequenced convex   *)
(* subtraction draws the products of the sum one after the other, with     *)
(* nothing but depth and stencil tests, and merges their depth buffers.    *)
(* The two Goldfeather renderers draw the same sum, a face at a time.      *)
(*                                                                         *)
(* One pixel is followed.  A convex shape is hit by its ray along one      *)
(* interval, or missed; every depth on the ray is different, and the       *)
(* camera is outside of all shapes.  The overlap graph is that of the      *)
(* bounding boxes: it has every pair that overlaps on the ray, and may     *)
(* have others.                                                            *)
(*                                                                         *)
(* Options as in the renderer's default: subtraction and clipping on, any  *)
(* number of subtractions, the z-buffer kept in memory.                    *)
(***************************************************************************)
EXTENDS CsgNormalise, CsgSequence

CONSTANTS
  Views(_),     \* the views a tree is drawn from
  StencilMask,  \* the largest value of the stencil buffer
  ZFar          \* the depth a pixel is cleared to

VARIABLES
  view,      \* the ray's intervals, the overlapping pairs of shapes, whether
             \* the option to use them is on, and the renderer
  drawn,     \* the products that have been drawn
  z,         \* the depth buffer at the pixel
  saved,     \* what the CsgDepthBufferHelper holds: nothing, or one depth
  sequence,  \* the subtraction sequence of the next product
  sampled    \* by how much the depth complexity sampled for the whole
             \* picture exceeds the one at this pixel

pictureVars == <<view, drawn, z, saved, sequence, sampled>>

-----------------------------------------------------------------------------
(* The next product; its objects are named by their places in it. *)

Product == sum[drawn + 1]

Intersected == {i \in DOMAIN Product : Product[i].positive}
Subtracted  == DOMAIN Product \ Intersected

OnRay(objects) == {i \in objects : Product[i].shape \in DOMAIN view.ray}
FrontOf(i) == view.ray[Product[i].shape].front
BackOf(i)  == view.ray[Product[i].shape].back

Touching(i, j) ==
  LET pair == {Product[i].shape, Product[j].shape} IN
    pair \in view.graph \/ Cardinality(pair) = 1

-----------------------------------------------------------------------------
(* csgRenderSubtractionSequence *)

(* An intersection of objects that do not all touch is empty. *)
IntersectedTouch == \A i, j \in Intersected : i # j => Touching(i, j)

(* Objects that do not touch all of the intersected ones are left out. *)
Relevant == {i \in Subtracted : \A j \in Intersected : Touching(i, j)}

Graph == [i \in Relevant |-> {j \in Relevant \ {i} : Touching(i, j)}]

(* csgSampleK and its clamp: as many of the objects as some pixel shows. *)
DepthOf(objects, more) ==
  Least({Cardinality(objects), Cardinality(OnRay(objects)) + more})

SequenceWithGraph(more) ==
  IF IntersectedTouch
    THEN SequenceOf(Graph, [objects \in SUBSET Relevant |-> DepthOf(objects, more)])
    ELSE <<>>

SequenceWithoutGraph(more) ==
  Remap(gscsSequence(Cardinality(Subtracted), DepthOf(Subtracted, more)),
        Ascending(Subtracted))

EncodeSequence ==
  /\ phase = "drawing" /\ view.renderer = "scs"
  /\ \E more \in 0..Cardinality(Subtracted) :
       /\ sampled' = more
       /\ sequence' = IF view.overlapGraph THEN SequenceWithGraph(more)
                                           ELSE SequenceWithoutGraph(more)
  /\ phase' = "encoded"
  /\ UNCHANGED <<heap, stack, sum, origin, view, drawn, z, saved>>

-----------------------------------------------------------------------------
(* Drawing a product. *)

(* csgRenderConvexIntersection: the furthest front face, unless some object  *)
(* ends before it.  The buffer is not cleared for a single object.           *)
Intersection ==
  LET fronts  == {FrontOf(i) : i \in OnRay(Intersected)}
      nearest == CHOOSE d \in fronts \cup {0} : \A e \in fronts : e <= d
      behind  == Cardinality({i \in OnRay(Intersected) : BackOf(i) > nearest})
      n       == Cardinality(Intersected)
  IN  IF n > 1
        THEN IF Least({behind, StencilMask}) = Least({n, StencilMask}) THEN nearest ELSE ZFar
        ELSE IF fronts = {} THEN z ELSE nearest

(* Mistake: the stencil buffer keeps its old marks when the codes start      *)
(* again.                                                                    *)
SubtractUncleared(pixel, i) ==
  LET code   == IF pixel.code = StencilMask THEN 1 ELSE pixel.code + 1
      hit    == i \in OnRay({i})
      marked == IF hit /\ FrontOf(i) <= pixel.z THEN code ELSE pixel.stencil
  IN  [code |-> code, stencil |-> marked,
       z |-> IF hit /\ marked = code /\ BackOf(i) >= pixel.z THEN BackOf(i) ELSE pixel.z]

(* One object of the sequence: where its front face is not behind the        *)
(* surface, its back face becomes the surface.  The stencil is cleared when  *)
(* its values have all been used.                                            *)
Subtract(pixel, i) ==
  LET full   == pixel.code = StencilMask
      code   == IF full THEN 1 ELSE pixel.code + 1
      hit    == i \in OnRay({i})
      marked == IF hit /\ FrontOf(i) <= pixel.z THEN code
                ELSE IF full THEN 0 ELSE pixel.stencil
  IN  [code |-> code, stencil |-> marked,
       z |-> IF hit /\ marked = code /\ BackOf(i) >= pixel.z THEN BackOf(i) ELSE pixel.z]

(* csgRenderConvexSubtraction *)
Subtraction(depth) ==
  FoldLeft(Subtract, [code |-> 0, stencil |-> 0, z |-> depth], sequence).z

(* Mistake: the clipping pass is left out. *)
ClipNot(depth) == depth

(* csgRenderClipZBuffer: no surface behind the end of an intersected object. *)
Clip(depth) ==
  IF \E i \in OnRay(Intersected) : BackOf(i) < depth THEN ZFar ELSE depth

(* The product, the products of one object that follow, and what was saved   *)
(* are merged; the result is saved if products are left.                     *)
DrawProduct ==
  /\ phase = "encoded"
  /\ LET surface == IF sequence = <<>> THEN Intersection ELSE Clip(Subtraction(Intersection))
         larger  == {p \in (drawn + 2)..Len(sum) : Len(sum[p]) # 1}
         next    == Least(larger \cup {Len(sum) + 1})
         singles == {sum[p][1].shape : p \in (drawn + 2)..(next - 1)} \cap DOMAIN view.ray
         merged  == Least({surface} \cup {view.ray[s].front : s \in singles} \cup saved)
     IN  /\ z' = merged
         /\ drawn' = next - 1
         /\ saved' = IF next <= Len(sum) THEN {merged} ELSE saved
         /\ phase' = IF next <= Len(sum) THEN "drawing" ELSE "drawn"
  /\ sequence' = <<>>
  /\ sampled' = 0
  /\ UNCHANGED <<heap, stack, sum, origin, view>>

-----------------------------------------------------------------------------
(* csgRenderGoldfeather, csgRenderGoldfeatherLayered *)

(* The face of an object that can be seen: the front of an intersected one,  *)
(* the back of a subtracted one.                                             *)
FaceOf(i) == IF Product[i].positive THEN FrontOf(i) ELSE BackOf(i)

(* The faces of a product in the order they are clipped.  Objects elsewhere  *)
(* on the screen have a turn too in csgRenderGoldfeather; the layers beyond  *)
(* those of this pixel are left out of the other one.                        *)
Faces ==
  IF view.renderer = "goldfeather"
    THEN Ascending(DOMAIN Product)
    ELSE Ascending(OnRay(Intersected)) \o Ascending(OnRay(Subtracted))

(* parityTest: whether a depth has an odd number of the object's faces in    *)
(* front of it; those at the depth itself count in the layered renderer.     *)
Odd(j, depth) ==
  LET inFront(f) == f < depth \/ (view.renderer = "layered" /\ f = depth)
  IN  Cardinality({f \in {FrontOf(j), BackOf(j)} : inFront(f)}) = 1

(* The objects a face is clipped against. *)
Clippers(i) ==
  IF view.renderer = "goldfeather" THEN DOMAIN Product \ {i} ELSE DOMAIN Product

(* A depth is reset if a parity is wrong.  How many parities the stencil     *)
(* takes at once does not matter: a pixel that is reset stays so.            *)
ClipAgainst(objects, depth) ==
  IF \A j \in objects : Product[j].positive = (j \in OnRay({j}) /\ Odd(j, depth))
    THEN depth
    ELSE ZFar

(* One face is drawn and clipped, and what was there before is merged back.  *)
(* There is nothing to merge the first time.  A merge leaves the depth test  *)
(* at GL_LESS: only the layered renderer draws over what is nearer again.    *)
ClipFace(buffer, i) ==
  LET over    == view.renderer = "layered" \/ buffer.turns < 2
      drawing == i \in OnRay({i}) /\ (over \/ FaceOf(i) < buffer.z)
      clipped == ClipAgainst(Clippers(i), IF drawing THEN FaceOf(i) ELSE buffer.z)
      before  == IF buffer.turns = 0 THEN {} ELSE {buffer.z}
  IN  [z |-> Least({clipped} \cup before), turns |-> Least({2, buffer.turns + 1})]

(* The products of several objects, in turn; `saved' says if there was one. *)
ClipProduct ==
  /\ phase = "drawing" /\ view.renderer # "scs"
  /\ IF Len(Product) > 1 /\ Faces # <<>>
       THEN LET first == [z |-> z, turns |-> IF saved = {} THEN 0 ELSE 2]
            IN  z' = FoldLeft(ClipFace, first, Faces).z /\ saved' = {z'}
       ELSE UNCHANGED <<z, saved>>
  /\ drawn' = drawn + 1
  /\ phase' = IF drawn' = Len(sum) THEN "clipped" ELSE "drawing"
  /\ UNCHANGED <<heap, stack, sum, origin, view, sequence, sampled>>

(* Then the products of one object, which need no clipping. *)
DrawSingles ==
  /\ phase = "clipped"
  /\ LET single  == {p \in DOMAIN sum : Len(sum[p]) = 1}
         singles == {sum[p][1].shape : p \in single} \cap DOMAIN view.ray
     IN  z' = Least({z} \cup {view.ray[s].front : s \in singles})
  /\ phase' = "drawn"
  /\ UNCHANGED <<heap, stack, sum, origin, view, drawn, saved, sequence, sampled>>

-----------------------------------------------------------------------------

(* The camera is placed; the depth buffer has been cleared. *)
ChooseView ==
  /\ phase = "optimised"
  /\ view' \in Views(origin)
  /\ phase' = IF sum = <<>> THEN "drawn" ELSE "drawing"
  /\ UNCHANGED <<heap, stack, sum, origin, drawn, z, saved, sequence, sampled>>

PictureInit ==
  /\ Init
  /\ view = [ray |-> <<>>, graph |-> {}, overlapGraph |-> FALSE,
             renderer |-> "scs"]
  /\ drawn = 0
  /\ z = ZFar
  /\ saved = {}
  /\ sequence = <<>>
  /\ sampled = 0

PictureNext ==
  \/ Next /\ UNCHANGED pictureVars
  \/ ChooseView \/ EncodeSequence \/ DrawProduct \/ ClipProduct \/ DrawSingles

PictureSpec ==
  PictureInit /\ [][PictureNext]_<<csgVars, pictureVars>> /\ WF_csgVars(Next)

-----------------------------------------------------------------------------
(* Properties. *)

(* The first point of the object on the ray. *)
FirstSolid ==
  LET shapes == DOMAIN view.ray
      depths == {view.ray[s].front : s \in shapes} \cup {view.ray[s].back : s \in shapes}
      inside(d) == {s \in shapes : view.ray[s].front <= d /\ d < view.ray[s].back}
  IN  Least({d \in depths : inside(d) \in Solid(heap, {inside(d)})} \cup {ZFar})

(* What the depth buffer holds in the end is the visible surface of the CSG  *)
(* tree, for every order and overlap of its shapes along the ray, however    *)
(* the sequence was found, and with the stencil used up on the way; and      *)
(* Goldfeather's parities find the same surface.  The sum that is drawn has  *)
(* to be the right one (Optimisable).                                        *)
PictureIsTheTree ==
  phase = "drawn" /\ Optimisable(Normalised[1]) => z = FirstSolid

(* Object i and then any chain of objects, each touching the one before, can *)
(* be found in the sequence from place `from' on; `before' have been cut.    *)
RECURSIVE Serves(_, _, _)
Serves(i, from, before) ==
  LET places == {q \in from..Len(sequence) : sequence[q] = i} IN
    /\ places # {}
    /\ Cardinality(before) + 1 < sampled =>
         \A j \in Graph[i] \ before : Serves(j, Least(places) + 1, before \cup {i})

(* A sequence has been found where holes can open one behind the other.      *)
HolesToChain == phase = "encoded" /\ IntersectedTouch /\ sampled > 0

(* Each chain of touching objects, of any order and as long as the depth     *)
(* complexity, is part of the sequence.                                      *)
ChainsAreServed == \A i \in Relevant : Serves(i, 1, {})

(* The rings that are encoded as such, once the leaves are off.              *)
EncodedRings ==
  IF view.overlapGraph
    THEN LET rings == Rings(Without(Graph, ToSet(LeafOrder(Graph))))
         IN  {Len(rings[r]) : r \in DOMAIN rings}
    ELSE {}

(* The rows of the table of rings that miss chains (scsseq.cpp, 339-343).    *)
FaultyRings == {6, 7, 8, 10}

(* Holes open one behind the other along a chain of touching objects.  The   *)
(* sequence serves them all, though leaves, rings and subgraphs are encoded  *)
(* apart, if none of the rings is of 6, 7, 8 or 10 objects.                  *)
EveryChainIsSubtracted ==
  HolesToChain /\ EncodedRings \cap FaultyRings = {} => ChainsAreServed

(* The same with any ring.  The code breaks it.                              *)
EveryChainIsAlwaysSubtracted == HolesToChain => ChainsAreServed

=============================================================================
