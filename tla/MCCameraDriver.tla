--------------------------- MODULE MCCameraDriver ---------------------------
(***************************************************************************)
(* The small instance of CameraDriver.                                     *)
(***************************************************************************)
EXTENDS CameraDriver

\* A correct driver loses no handle: one is enough to see that it did.
MCOrphans == 1
=============================================================================
