---------------------------- MODULE MCFileService ----------------------------
(* The instances of the .cfg files: who runs, which requests are served, and *)
(* the bounds.  Requesters are interchangeable where no liveness is checked. *)
EXTENDS FileService, TLC

Symmetric == Permutations(Requesters)
==============================================================================
