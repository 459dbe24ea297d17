----------------------------- MODULE MCSidebar ------------------------------
(* Sidebar for TLC: two runs, two calls under way. *)
EXTENDS Sidebar
=============================================================================
