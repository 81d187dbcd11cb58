--------------------------- MODULE MCDiskLibrary ---------------------------
(***************************************************************************)
(* One image, two drives that may ask for it, and two downloads, which may *)
(* be of it both.                                                          *)
(***************************************************************************)
EXTENDS DiskLibrary

CONSTANTS a, c, disk

MCDefault == [d \in Drives |-> IF d = a THEN disk ELSE Nothing]
=============================================================================
