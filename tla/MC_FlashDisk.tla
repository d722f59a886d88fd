----------------------------- MODULE MC_FlashDisk -----------------------------
(* Two pages of two sectors, and two kinds of write blocks. *)
EXTENDS FlashDisk

MCBytes == {"erased", "host"}
=============================================================================
