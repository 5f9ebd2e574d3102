----------------------------- MODULE MCSendPath -----------------------------
(* SendPath with a ring of four cells (three bytes), a kernel that buffers *)
(* two, packets that fit, that fill the ring and that never fit.           *)
EXTENDS SendPath
=============================================================================
