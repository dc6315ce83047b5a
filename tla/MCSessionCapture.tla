--------------------------- MODULE MCSessionCapture ---------------------------
EXTENDS SessionCapture

MCNames == << "a", "b" >>
MCOneName == << "a" >>

(* Two objects, the second one derived from the first.                          *)
MCObjs == {"o1", "o2"}
MCRefs == [o1 |-> "features", o2 |-> "graph"]
MCParents == [o1 |-> {}, o2 |-> {"features"}]

(* One object that nothing is derived from.                                    *)
MCOneObj == {"o1"}
MCOneRef == [o1 |-> "features"]
MCNoParents == [o1 |-> {}]

Symmetric == Permutations(Shells)
===============================================================================
