------------------------------ MODULE MCLiveView ------------------------------
(* Instances of LiveView for TLC.                                          *)
EXTENDS LiveView

MCFaults == {"crash", "drop", "hang", "poll", "socket", "list", "fetch", "reply"}
=============================================================================
