-------------------------- MODULE MCVolumeService ---------------------------
(* Model checking instance of VolumeService.                               *)
EXTENDS VolumeService
=============================================================================
