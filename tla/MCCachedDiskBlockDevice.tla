---------------------- MODULE MCCachedDiskBlockDevice ----------------------
(***************************************************************************)
(* A hole of two sectors, and a last block cut by the end of the disk.     *)
(***************************************************************************)
EXTENDS CachedDiskBlockDevice

MCSource == [x \in Sectors |-> IF BlockOf(x) \in Holes THEN Zero ELSE "src"]
MCSpans == {<<1, 2>>}
============================================================================
