----------------------------- MODULE MCFifoSpsc -----------------------------
(* FifoSpsc on a ring of four elements whose pointers wrap at eight. *)
EXTENDS FifoSpsc
=============================================================================
