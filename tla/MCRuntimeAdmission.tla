------------------------- MODULE MCRuntimeAdmission -------------------------
(* Small machines for RuntimeAdmission: one unit is the peak of a helper,    *)
(* two the peak of a role, zero a parked container.                         *)
EXTENDS RuntimeAdmission

CONSTANTS A1, A2, W1

ResourceNames == {"cpu", "memory"}
Peak(c, m) == [r \in ResourceNames |-> IF r = "cpu" THEN c ELSE m]
TwoResources == Peak(3, 2)
UnitBaseline == Peak(1, 0)
RoleStages == {Peak(0, 0), Peak(1, 1), Peak(2, 1)}
ThreeOwners == {A1, A2, W1}
=============================================================================
