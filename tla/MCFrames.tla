------------------------------ MODULE MCFrames ------------------------------
(* Small instances of Frames: two threads that may draw.                     *)
EXTENDS Frames

CONSTANTS platform, raster
=============================================================================
