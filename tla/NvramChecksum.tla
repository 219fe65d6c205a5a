--------------------------- MODULE NvramChecksum ---------------------------
(***************************************************************************)
(* The partition-header checksum of nvram.c (checksum(), lines 438-455).   *)
(*                                                                         *)
(* A header is 16 bytes: signature (1), checksum (1), length (2, big       *)
(* endian, in 16-byte blocks) and a 12-byte name.  The code adds the       *)
(* signature, the length and the name read as six 16-bit words, folds the  *)
(* bits above bit 16 back once, masks to 16 bits and then folds the two    *)
(* bytes into one.                                                         *)
(*                                                                         *)
(* The firmware and the kernel define the checksum as the byte-wise sum    *)
(* with end-around carry of the signature, length and name bytes.  The     *)
(* module states both and lets TLC compare them over headers whose sums    *)
(* reach the carry boundary.                                               *)
(***************************************************************************)
EXTENDS Integers, Sequences, SequencesExt

\* c_sum = p->signature + p->length + sp[0] + ... + sp[5]  (line 444)
RawSum(sig, len, words) == sig + len + FoldLeft(+, 0, words)

\* c_sum = ((c_sum & 0xffff) + (c_sum >> 16)) & 0xffff  (line 448):
\* a single fold whose own carry out of bit 16 is masked away.
Fold16(s) == ((s % 65536) + (s \div 65536)) % 65536

\* Mutant: the final "& 0xff" is left out.
Fold8NoMask(c) == (c + ((c \div 256) + c * 256)) \div 256

\* c_sum2 = (c_sum >> 8) + (c_sum << 8);
\* c_sum = ((c_sum + c_sum2) >> 8) & 0xff  (lines 451-452).  c_sum2 is an
\* unsigned int, so c_sum << 8 keeps all 24 bits.
Fold8(c) == ((c + ((c \div 256) + c * 256)) \div 256) % 256

\* checksum(p), the value nvram.c compares with and stores in p->checksum.
Checksum(sig, len, words) == Fold8(Fold16(RawSum(sig, len, words)))

(***************************************************************************)
(* Reference: the 14 checksummed header bytes and their end-around-carry   *)
(* byte sum.  A sum above 0xff has 0x100 subtracted and 1 added after      *)
(* every byte.                                                             *)
(***************************************************************************)
WordBytes(w) == << w \div 256, w % 256 >>

HeaderBytes(sig, len, words) ==
    << sig >> \o WordBytes(len)
        \o FlattenSeq([k \in 1..Len(words) |-> WordBytes(words[k])])

AddWithCarry(acc, b) == IF acc + b > 255 THEN acc + b - 255 ELSE acc + b

ByteSumChecksum(sig, len, words) ==
    FoldLeft(AddWithCarry, 0, HeaderBytes(sig, len, words))
=============================================================================
