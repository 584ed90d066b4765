------------------------------- MODULE TorusWalk -------------------------------
(***************************************************************************)
(* What the torus is used for: its nodes are given devices, and then a     *)
(* message walks from node to node over neighbor(); the distances, ranks   *)
(* and neighbour lists computed on the way must agree with the walk, and   *)
(* the numbers of the devices must tell them apart.                        *)
(***************************************************************************)
EXTENDS DeviceMesh

CONSTANTS
  Dimensions,         \* the tori considered
  DevicesPerNode,     \* what new_2d and new_3d are called with
  DeviceLists,        \* what IntraNodeMesh::new is called with
  DiscoveryConfigs,   \* what discover_mesh is called with
  MaxHops             \* bound of the model: the length of a walk

ASSUME TorusWalkAssumption ==
  /\ \A d \in Dimensions : d \in Seq(Nat) /\ IsTorus(d)
  /\ DevicesPerNode \subseteq Nat \ {0}
  /\ DeviceLists \subseteq Seq(Device)
  /\ DiscoveryConfigs \subseteq [assume_full_mesh : BOOLEAN, num_devices_override : Seq(Nat)]
  /\ MaxHops \in Nat

VARIABLES
  dims, nodes,        \* MeshTorusHybrid
  origin, at, hops    \* the walk

vars == <<dims, nodes, origin, at, hops>>

TypeOK ==
  /\ dims \in Dimensions
  /\ DOMAIN nodes = 0 .. total_nodes(dims) - 1
  /\ \A rank \in DOMAIN nodes : Len(nodes[rank]) > 0
  /\ origin \in Coordinates(dims)
  /\ at \in Coordinates(dims)
  /\ hops \in 0 .. MaxHops

Init ==
  /\ dims \in Dimensions
  /\ \E per_node \in DevicesPerNode : nodes = NewHybrid(dims, per_node)[1]
  /\ origin \in Coordinates(dims)
  /\ at = origin
  /\ hops = 0

\* node_at_mut: a node is given another mesh, built by hand or discovered.  Bound
\* of the model: before the walk, and at its origin only.
Equip ==
  /\ hops = 0
  /\ \E mesh \in {NewMesh(devices) : devices \in DeviceLists} \cup
                 {discover_mesh(config) : config \in DiscoveryConfigs} :
       /\ mesh # <<>>
       /\ nodes' = [nodes EXCEPT ![linear_index(at, dims)] = mesh[1]]
  /\ UNCHANGED <<dims, origin, at, hops>>

\* Faulty: no way around at the upper end.
StepBeyond(axis, positive) ==
  /\ hops < MaxHops
  /\ at' = [at EXCEPT ![axis + 1] = wrap_neighbor_beyond(@, dims[axis + 1], positive)]
  /\ hops' = hops + 1
  /\ UNCHANGED <<dims, nodes, origin>>

Step(axis, positive) ==
  /\ hops < MaxHops
  /\ at' = neighbor(at, dims, axis, positive)
  /\ hops' = hops + 1
  /\ UNCHANGED <<dims, nodes, origin>>

Next == Equip \/ \E axis \in Axes(dims), positive \in BOOLEAN : Step(axis, positive)

Spec == Init /\ [][Next]_vars
------------------------------------------------------------------------------
\* compute_hop_distance is the length of the shortest walk: no walk arrives in
\* fewer hops, and from everywhere some neighbour, one that node_neighbors finds,
\* is one hop nearer.
HopDistanceIsShortest ==
  /\ compute_hop_distance(origin, at, dims) <= hops
  /\ at # origin =>
       \E found \in node_neighbors(nodes, at, dims) :
         compute_hop_distance(origin, found[1], dims) = compute_hop_distance(origin, at, dims) - 1

\* Ranks number the nodes 0 .. total_nodes - 1: two nodes never share one, and
\* rank_to_coords undoes node_rank.
RanksNumberNodes ==
  /\ linear_index(at, dims) \in 0 .. total_nodes(dims) - 1
  /\ from_linear(linear_index(at, dims), dims) = at
  /\ at # origin => linear_index(at, dims) # linear_index(origin, dims)

\* global_device_id tells all devices of the torus apart if no node has more
\* devices than the first, and the devices of a node have different ids (which
\* IntraNodeMesh::new does not ask for); if all nodes have as many, it numbers
\* them 0 .. total_devices - 1.
Distinct(mesh) == \A k, l \in DOMAIN mesh : k # l => mesh[k].id # mesh[l].id
DevicesNumbered ==
  LET mesh_at(c) == nodes[linear_index(c, dims)]
      ids == UNION {{global_device_id(nodes, c, mesh_at(c)[k].id, dims) : k \in DOMAIN mesh_at(c)} :
                      c \in Coordinates(dims)}
      even == \A rank \in DOMAIN nodes : Len(nodes[rank]) = devices_per_node(nodes)
  IN  (\A rank \in DOMAIN nodes : Distinct(nodes[rank]) /\ Len(nodes[rank]) <= devices_per_node(nodes)) =>
        /\ Cardinality(ids) = total_devices(nodes)
        /\ even => ids = 0 .. total_devices(nodes) - 1
==============================================================================
