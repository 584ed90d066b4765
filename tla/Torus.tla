--------------------------------- MODULE Torus ---------------------------------
(***************************************************************************)
(* The torus of nodes: mt-core/src/topology/{torus,hybrid}.rs and the      *)
(* placement of pipeline stages on it, mt-pipeline/src/placement.rs.       *)
(*                                                                         *)
(* TorusDimensions is the sequence of its sizes, <<width, height>> or      *)
(* <<width, height, depth>>, and TorusCoordinates a sequence as long: the  *)
(* Option of the code is the length.  Axis a of the code is index a + 1.   *)
(***************************************************************************)
EXTENDS Integers, Sequences

\* TorusDimensions::total_nodes, and axis_count as a set of axes.
total_nodes(dims) == dims[1] * dims[2] * (IF Len(dims) = 3 THEN dims[3] ELSE 1)
Axes(dims) == 0 .. Len(dims) - 1

\* MeshTorusHybrid::new_2d and new_3d refuse a size of zero.
IsTorus(dims) == Len(dims) \in {2, 3} /\ \A i \in 1 .. Len(dims) : dims[i] > 0

Coordinates(dims) ==
  LET along(i) == 0 .. dims[i] - 1
  IN  IF Len(dims) = 3 THEN along(1) \X along(2) \X along(3)
      ELSE along(1) \X along(2)

\* Faulty: rows as long as the torus is high.
linear_index_by_height(c, dims) ==
  (IF Len(c) = 3 THEN c[3] * dims[1] * dims[2] ELSE 0) + c[2] * dims[2] + c[1]

linear_index(c, dims) ==
  (IF Len(c) = 3 THEN c[3] * dims[1] * dims[2] ELSE 0) + c[2] * dims[1] + c[1]

\* The depth is wrapped around, the height of a flat torus is not.
from_linear(index, dims) ==
  LET plane == dims[1] * dims[2]
      rem == index % plane
  IN  IF Len(dims) = 3
        THEN <<rem % dims[1], rem \div dims[1], (index \div plane) % dims[3]>>
        ELSE <<index % dims[1], index \div dims[1]>>

\* Faulty: no way around at the upper end.
wrap_neighbor_beyond(current, size, positive) ==
  IF positive THEN current + 1 ELSE (current + size - 1) % size

wrap_neighbor(current, size, positive) ==
  IF positive THEN (current + 1) % size ELSE (current + size - 1) % size

\* On a flat torus the third axis has one place, where the node itself is.
neighbor(c, dims, axis, positive) ==
  IF axis = Len(c) THEN Append(c, wrap_neighbor(0, 1, positive))
  ELSE [c EXCEPT ![axis + 1] = wrap_neighbor(@, dims[axis + 1], positive)]

\* TorusCoordinates::neighbors: both ways along each axis, in this order.
neighbors(c, dims) ==
  [k \in 1 .. 2 * Len(c) |-> neighbor(c, dims, (k - 1) \div 2, k % 2 = 1)]

\* torus_distance and compute_hop_distance.
torus_distance(a, b, size) ==
  LET forward == IF a < b THEN b - a ELSE a - b
      backward == size - forward
  IN  IF forward < backward THEN forward ELSE backward

compute_hop_distance(from, to, dims) ==
  torus_distance(from[1], to[1], dims[1]) + torus_distance(from[2], to[2], dims[2]) +
    (IF Len(dims) = 3 THEN torus_distance(from[3], to[3], dims[3]) ELSE 0)

\* topology_aware_placement: where each stage goes.
topology_aware_placement(num_stages, dims) ==
  [stage_id \in 0 .. num_stages - 1 |-> from_linear(stage_id, dims)]
==============================================================================
