------------------------------- MODULE MCSlub -------------------------------
(* Instances of Slub for TLC *)
EXTENDS Slub, TLC

(* As on the machine, where RAM begins at 2 GB, no address in RAM is the   *)
(* number of a page of RAM.                                                *)
ASSUME \A f, g \in Frames : f * PAGE_SIZE > g

TwoObjects == [c \in Caches |-> 2]
SlubSymmetry == Permutations(Caches)
=============================================================================
