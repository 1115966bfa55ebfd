-------------------------- MODULE MCForwardRelease --------------------------
(* Two deliveries of one project and a release contract of two repositories. *)
EXTENDS ForwardRelease

CONSTANTS d1, d2
=============================================================================
