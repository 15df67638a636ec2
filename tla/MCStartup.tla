----------------------------- MODULE MCStartup ------------------------------
(* A device of each kind that the loops tell apart.                        *)
EXTENDS Startup

MCCudaDevices ==
  [opens : {TRUE}, major : {6, 7}, minor : {0, 1}, integrated : {0, 1}]
    \union {[opens |-> TRUE, major |-> 5, minor |-> 2, integrated |-> 0],
            [opens |-> TRUE, major |-> 7, minor |-> 5, integrated |-> 2],
            [opens |-> FALSE, major |-> 7, minor |-> 5, integrated |-> 0]}

MCVulkanDevices ==
  {d \in [type : {"discrete", "integrated", "cpu"}, amd : BOOLEAN,
          int64 : BOOLEAN, limits : BOOLEAN, compute : BOOLEAN] :
     Cardinality({f \in {"int64", "limits", "compute"} : ~ d[f]}) <= 1}
=============================================================================
