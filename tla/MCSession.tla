------------------------------- MODULE MCSession -------------------------------
(* Model checking Session on a small camera and two small libraries.       *)
EXTENDS Session

MCLibs == {"mpp", "rga"}
MCSymbols == [lib \in MCLibs |-> {"s1", "s2"}]
MCFormats == {"NV12", "NV16", "YUYV"}
MCPrefs == <<"NV12", "NV16">>
MCFrameCounts == {-1, 0, 2}
================================================================================
