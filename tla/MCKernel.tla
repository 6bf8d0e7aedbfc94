------------------------------ MODULE MCKernel ------------------------------
(***************************************************************************)
(* Instances of Kernel with the two templates the code has built in.       *)
(***************************************************************************)
EXTENDS Kernel

BuiltIn == {Coding, Generic}
=============================================================================
