----------------------------- MODULE MCUrlHandoff ----------------------------
(* Three IP frames: enough for a URL to be conflated with the next one, for *)
(* a line to be torn between two, and for a frame without a URL between.   *)
EXTENDS UrlHandoff
==============================================================================
