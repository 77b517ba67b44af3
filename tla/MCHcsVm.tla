------------------------------ MODULE MCHcsVm ------------------------------
(* Instances of HcsVm for TLC.                                             *)
EXTENDS HcsVm, TLC

\* VMs are interchangeable where no temporal property is checked.
VmSymmetry == Permutations(VM)
=============================================================================
