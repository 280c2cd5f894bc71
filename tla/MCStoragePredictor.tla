-------------------------- MODULE MCStoragePredictor ------------------------
(* Flash drives of two blocks in every state of wear.                      *)
EXTENDS StoragePredictor, TLC

MCDrives == [erases : {<<a, b>> : a, b \in 0 .. MAX_ENDURANCE}, bad : 0 .. 2,
             utilization : {90, 91}, runs : {0, 1, 3}, reclaimed : {0, 1, 2}]
VolumeSymmetry == Permutations(Vols)
=============================================================================
