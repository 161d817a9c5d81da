--------------------------- MODULE MCBinderObject ---------------------------
(* Small instances of BinderObject: handles are interchangeable.           *)
EXTENDS BinderObject, TLC

HandleSymmetry == Permutations(Handles)
=============================================================================
