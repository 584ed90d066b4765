------------------------------ MODULE MCTorusWalk ------------------------------
(***************************************************************************)
(* TorusWalk for TLC: flat and deep tori, with axes of one and two nodes   *)
(* and of odd and even length; every walk of up to 6 hops, which is more   *)
(* than the diameter of each of them.  Meshes of one and two devices, and  *)
(* one node of another: fewer, more, ids twice, too large, or none.        *)
(***************************************************************************)
EXTENDS TorusWalk

MCDimensions ==
  {<<1, 1>>, <<4, 1>>, <<2, 2>>, <<3, 5>>, <<5, 4>>, <<1, 1, 3>>, <<3, 1, 2>>, <<3, 2, 4>>}
MCMaxHops == 6
MCDevicesPerNode == 1 .. 2
MCDeviceLists ==
  {<<>>, <<simple(0, 1)>>, <<simple(1, 2), simple(0, 2)>>, <<simple(0, 2), simple(0, 2)>>,
   <<simple(0, 2), simple(2, 3)>>}
MCDiscoveryConfigs ==
  [assume_full_mesh : {TRUE}, num_devices_override : {<<0>>, <<3>>}]

NeighborSet(c, d) == {neighbors(c, d)[k] : k \in 1 .. 2 * Len(d)}

\* A node is a neighbour of each of its neighbours, also where an axis is so
\* short that both ways along it lead to the same node: what one node sends in
\* a neighbour exchange, the other looks for.
ASSUME NeighborsMutual ==
  \A d \in MCDimensions : \A c \in Coordinates(d) :
    \A n \in NeighborSet(c, d) : c \in NeighborSet(n, d)

\* A pipeline as long as the torus gets a node of its own for each stage.
ASSUME PlacementFits ==
  \A d \in MCDimensions :
    LET placed == topology_aware_placement(total_nodes(d), d)
    IN  \A i, j \in DOMAIN placed :
          /\ placed[i] \in Coordinates(d)
          /\ i # j => placed[i] # placed[j]

\* A longer pipeline is not refused: on a flat torus its further stages go to
\* places that do not exist, to which a hop distance is 0 or would be below it,
\* and on a deep one they share the nodes of the first.
ASSUME PlacementBeyond ==
  \A d \in MCDimensions, more \in 1 .. 8 :
    LET n == total_nodes(d)
        placed == topology_aware_placement(n + more, d)
        last == placed[n + more - 1]
    IN  IF Len(d) = 3 THEN last = placed[(n + more - 1) % n]
        ELSE /\ last \notin Coordinates(d)
             /\ \E c \in Coordinates(d) : torus_distance(c[2], last[2], d[2]) <= 0

\* Discovery finds a full mesh of as many devices as it is told, 8 by default,
\* and refuses none; an even number of them is halved between two NUMA nodes,
\* but the last of an odd number (from three on) gets a third.
ASSUME Discovered ==
  \A full \in BOOLEAN, override \in {<<n>> : n \in 0 .. 9} \cup {<<>>} :
    LET count == unwrap_or(override, 8)
        mesh == discover_mesh([assume_full_mesh |-> full, num_devices_override |-> override])
        numa == {mesh[1][k].numa_node[1] : k \in DOMAIN mesh[1]}
    IN  IF count = 0 THEN mesh = <<>>
        ELSE /\ Len(mesh[1]) = count /\ all_pairs_nvlinked(mesh[1])
             /\ numa = 0 .. (IF count = 1 THEN 0 ELSE IF count % 2 = 0 THEN 1 ELSE 2)

\* A node with more devices than the first shares a number with the next node.
ASSUME MoreThanTheFirst ==
  LET nodes_of(first, second) == [rank \in 0 .. 2 |-> full_mesh(IF rank = 1 THEN second ELSE first)[1]]
      id(ns, rank, local) == global_device_id(ns, <<rank, 0>>, local, <<3, 1>>)
  IN  \A first, second \in 1 .. 3 :
        (id(nodes_of(first, second), 1, second - 1) >= id(nodes_of(first, second), 2, 0))
          = (second > first)
==============================================================================
