--------------------------- MODULE MCGrpcService ---------------------------
(***************************************************************************)
(* GrpcService for TLC: two paths; lists of endpoints that are accepted,   *)
(* that repeat a path and that hold something which is no function.        *)
(***************************************************************************)
EXTENDS GrpcService

CONSTANTS m1, m2, c1, k1, k2

E(p, k, m) == [path |-> p, kind |-> k, inMap |-> m]

Lists(how, lists) == [how : {how}, list : lists]

MCEndpointLists ==
  Lists("descriptors",
        { <<E(m1, "func", FALSE), E(m1, "stream", FALSE), E(m2, "stream", FALSE)>>,
          <<E(m1, "func", FALSE), E(m1, "func", FALSE)>>,
          <<E(m1, "stream", FALSE), E(m1, "stream", FALSE)>>,
          <<E(m2, "invalid", FALSE), E(m1, "func", FALSE)>> })
  \cup
  Lists("structs",
        { <<E(m1, "func", FALSE), E(m1, "func", TRUE), E(m2, "stream", TRUE)>>,
          <<E(m1, "func", TRUE), E(m1, "func", FALSE)>>,
          <<E(m1, "stream", FALSE), E(m2, "invalid", FALSE)>> })

=============================================================================
