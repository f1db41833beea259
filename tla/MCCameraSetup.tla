----------------------------- MODULE MCCameraSetup -----------------------------
(* Model checking CameraSetup with the formats of the source and YUYV,     *)
(* which RGA is not asked to convert.                                      *)
EXTENDS CameraSetup

MCFormats == {"NV12", "NV16", "BGR24", "YUYV"}
MCPrefs == <<"NV12", "NV16", "BGR24">>
================================================================================
