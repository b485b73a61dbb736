--------------------------- MODULE MCGraphCompute ---------------------------
(* Two products with a node in between that does nothing, and one plain node. *)
EXTENDS GraphCompute

MCNodes == << [op |-> "matmul", chunks |-> 9], [op |-> "empty", chunks |-> 0],
              [op |-> "matmul", chunks |-> 3], [op |-> "plain", chunks |-> 0] >>
=============================================================================
