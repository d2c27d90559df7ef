--------------------------- MODULE MCContainerUse ---------------------------
(* ContainerUse on a small instance: as many delegates as keys. *)
EXTENDS ContainerUse
=============================================================================
