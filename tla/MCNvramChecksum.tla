-------------------------- MODULE MCNvramChecksum --------------------------
(***************************************************************************)
(* Checks checksum() against the end-around-carry byte sum over a bounded  *)
(* set of headers: the signatures nvram.c and the firmware use, the        *)
(* 12-byte names of real partitions as six big-endian words, and lengths   *)
(* around the points where the 16-bit sum carries out of bit 16.           *)
(***************************************************************************)
EXTENDS Integers, NvramChecksum

\* NVRAM_SIG_SP, NVRAM_SIG_OF (common, of-config), NVRAM_SIG_FREE, NVRAM_SIG_HW
Signatures == {80, 112, 127, 2}

\* "common", "of-config", "wwwwwwwwwwww" (the free-space partition)
NameWordSet ==
    { <<25455, 28013, 28526, 0, 0, 0>>,
      <<28518, 11619, 28526, 26217, 26368, 0>>,
      <<30583, 30583, 30583, 30583, 30583, 30583>> }

\* Lengths (in blocks) around the carry points of these names, plus the
\* small lengths of ordinary partitions.
Lengths == (1..8) \cup (48832..48840) \cup (9695..9700) \cup (12993..12998)

VARIABLE hdr

Init == hdr \in [sig : Signatures, len : Lengths, words : NameWordSet]

\* The check is about one header at a time: no step changes it.
Next == UNCHANGED hdr

Spec == Init /\ [][Next]_hdr

TypeOK == hdr.sig \in 0..255 /\ hdr.len \in 1..65535

(***************************************************************************)
(* checksum() computes the firmware's checksum: the end-around-carry sum   *)
(* of the header bytes.  The comment at line 450 claims the folded sum     *)
(* "cannot exceed 2 bytes"; the mask at line 448 drops the carry when it   *)
(* does.                                                                   *)
(***************************************************************************)
ChecksumIsByteSum ==
    Checksum(hdr.sig, hdr.len, hdr.words)
        = ByteSumChecksum(hdr.sig, hdr.len, hdr.words)
=============================================================================
