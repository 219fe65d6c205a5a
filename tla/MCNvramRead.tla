----------------------------- MODULE MCNvramRead -----------------------------
(***************************************************************************)
(* Chunks of 4 bytes stand for 512.  nbytes is 0 (the first word of an     *)
(* 8-byte #bytes property), 6 (not a multiple of the chunk) or the         *)
(* DEFAULT_NVRAM_SZ guess 12.                                              *)
(***************************************************************************)
EXTENDS NvramRead

\* Devices larger than the nbytes main allocated: the device tree (or its
\* byte order) gave too small a size.
MCDevSizesLarge == [nb \in {0, 6, 12} |-> {nb + 2, nb + 5}]
=============================================================================
