--------------------------- MODULE MCUploadStudio ---------------------------
(* Values for model checking UploadStudio.  The choices of metadata are *)
(* interchangeable.                                                     *)
EXTENDS UploadStudio, TLC

MCContents == [s \in Slots |-> {s}]

Symmetry == Permutations(Metas)
=============================================================================
