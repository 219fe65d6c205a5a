------------------------- MODULE MCNvramPartitions -------------------------
(***************************************************************************)
(* Images of four blocks (64 bytes): every split into one to four          *)
(* partitions of one to three blocks, named "common" or "of-config", with  *)
(* signature 0x70 or 0x50 and a right or wrong checksum.  Two partitions   *)
(* of the same name and signature occur, so resumed searches matter.      *)
(***************************************************************************)
EXTENDS NvramPartitions

NBlocks == 4

Headers == [sig : {112, 80}, len : 1..3, name : {"common", "of-config"},
            csum_ok : BOOLEAN]

Images ==
    UNION {[1..k -> Headers] : k \in 1..4}

SumLen(d) == FoldLeft(LAMBDA acc, h : acc + h.len, 0, d)

\* Images that fill the buffer exactly.
MCDevSet == {d \in Images : SumLen(d) = NBlocks}

\* An image with a header of length 0 (a torn or erased header).
MCZeroDevSet ==
    { << [sig |-> 112, len |-> 2, name |-> "common", csum_ok |-> TRUE],
         [sig |-> 112, len |-> 0, name |-> "of-config", csum_ok |-> FALSE] >> }

\* An image whose last header claims more blocks than the buffer holds.
MCLongDevSet ==
    { << [sig |-> 112, len |-> 2, name |-> "common", csum_ok |-> TRUE],
         [sig |-> 112, len |-> 4, name |-> "of-config", csum_ok |-> TRUE] >> }

\* Both malformed images.
MCBadDevSet == MCZeroDevSet \cup MCLongDevSet
=============================================================================
