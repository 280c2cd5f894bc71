------------------------ MODULE MCStorageController -------------------------
(* Model checking instance of StorageController.                           *)
EXTENDS StorageController, TLC
Symmetry == Permutations(Tasks) \cup Permutations(Offsets \ Outside)
=============================================================================
