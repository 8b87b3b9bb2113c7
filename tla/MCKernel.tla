------------------------------ MODULE MCKernel ------------------------------
(* Three components, with all dependencies there can be among them. *)
EXTENDS Kernel

CONSTANTS n1, n2, n3

MCNames == {n1, n2, n3}
MCAppLists == {<<n1>>, <<n1, n2>>, <<n2, n3, n1>>}
\* (Only n1 may depend on itself.)
MCGraphs == {g \in [MCNames -> SUBSET MCNames] : \A n \in MCNames \ {n1} : n \notin g[n]}
MCFlaws == [MCNames -> {"no", "fails", "missing"}]
=============================================================================
