------------------------------ MODULE DeviceMesh ------------------------------
(***************************************************************************)
(* The devices of the nodes: device.rs, mesh.rs, discovery.rs and          *)
(* hybrid.rs of mt-core/src/topology.                                      *)
(*                                                                         *)
(* A mesh is the sequence of its devices.  A result is <<value>>, and <<>> *)
(* where the code returns an error or a None.                              *)
(***************************************************************************)
EXTENDS Torus, FiniteSetsExt

GPUDevice(id, numa_node, nvlink_peers) ==
  [id |-> id, numa_node |-> numa_node, nvlink_peers |-> nvlink_peers]
Nowhere == <<>>       \* a numa_node of None
Device == [id : Nat, numa_node : Seq(Nat), nvlink_peers : SUBSET Nat]

Others(id, count) == (0 .. count - 1) \ {id}

\* GPUDevice::simple, and the devices of IntraNodeMesh::full_mesh.
simple(id, count) == GPUDevice(id, Nowhere, Others(id, count))

\* Faulty: an id may be as large.
NewMeshAbove(devices) ==
  IF Len(devices) = 0 \/ \E k \in DOMAIN devices : devices[k].id > Len(devices)
    THEN <<>> ELSE <<devices>>

\* IntraNodeMesh::new: no id may be as large as the number of devices.
NewMesh(devices) ==
  IF Len(devices) = 0 \/ \E k \in DOMAIN devices : devices[k].id >= Len(devices)
    THEN <<>> ELSE <<devices>>

full_mesh(device_count) ==
  IF device_count = 0 THEN <<>> ELSE <<[k \in 1 .. device_count |-> simple(k - 1, device_count)]>>

\* IntraNodeMesh::device: the first of that id.
DevicesOf(mesh, id) == {k \in DOMAIN mesh : mesh[k].id = id}
device(mesh, id) ==
  LET found == DevicesOf(mesh, id)
  IN  IF found = {} THEN <<>> ELSE <<mesh[CHOOSE k \in found : \A l \in found : k <= l]>>

are_nvlinked(mesh, a, b) == device(mesh, a) # <<>> /\ b \in device(mesh, a)[1].nvlink_peers
all_pairs_nvlinked(mesh) ==
  \A i, j \in 0 .. Len(mesh) - 1 : i # j => are_nvlinked(mesh, i, j)

\* discover_manual: 8 devices unless the configuration says otherwise, the first
\* half of them on NUMA node 0.
unwrap_or(option, default) == IF option = <<>> THEN default ELSE option[1]
discover_manual(config) ==
  LET count == unwrap_or(config.num_devices_override, 8)
      half == IF count \div 2 > 1 THEN count \div 2 ELSE 1
  IN  [k \in 1 .. count |-> GPUDevice(k - 1, <<(k - 1) \div half>>, Others(k - 1, count))]

\* discover_mesh, in a build without the feature "discovery".
discover_mesh(config) ==
  LET devices == discover_manual(config)
  IN  NewMesh(IF config.assume_full_mesh
                THEN [k \in DOMAIN devices |->
                       [devices[k] EXCEPT !.nvlink_peers = Others(devices[k].id, Len(devices))]]
                ELSE devices)
------------------------------------------------------------------------------
\* MeshTorusHybrid::new_2d and new_3d: the same mesh at every node.
NewHybrid(dims, per_node) ==
  IF IsTorus(dims) /\ per_node > 0
    THEN <<[rank \in 0 .. total_nodes(dims) - 1 |-> full_mesh(per_node)[1]]>>
    ELSE <<>>

devices_per_node(nodes) == Len(nodes[0])
total_devices(nodes) == MapThenSumSet(LAMBDA rank : Len(nodes[rank]), DOMAIN nodes)

\* node_at, on a torus that is as large as there are nodes.
node_at(nodes, c, dims) ==
  IF linear_index(c, dims) \in DOMAIN nodes THEN <<nodes[linear_index(c, dims)]>> ELSE <<>>

\* node_neighbors, of which the order is left out.
node_neighbors(nodes, c, dims) ==
  LET around == {neighbors(c, dims)[k] : k \in 1 .. 2 * Len(c)}
  IN  {<<n, node_at(nodes, n, dims)[1]>> : n \in {n \in around : node_at(nodes, n, dims) # <<>>}}

\* Every node counts for as many devices as the first has.
global_device_id(nodes, c, local_id, dims) ==
  linear_index(c, dims) * devices_per_node(nodes) + local_id
==============================================================================
