------------------------ MODULE MCOrphanCollection ------------------------
(* Values for model checking OrphanCollection.                             *)
EXTENDS OrphanCollection

CONSTANTS g1, g2, c0, c1, c2, o1
=============================================================================
