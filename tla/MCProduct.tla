------------------------------ MODULE MCProduct ------------------------------
(* Small instances of Product: every sibling installed, and the sketches   *)
(* that differ in which call comes last in a pass.                         *)
EXTENDS Product

MCSketches == {Siblings, {"net", "ota"}, {"dash", "serial"}, {}}
=============================================================================
