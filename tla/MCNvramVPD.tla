------------------------------ MODULE MCNvramVPD ------------------------------
(***************************************************************************)
(* ibm,vpd partitions of 32 data bytes, written as the firmware lays out  *)
(* VPD: an identification string (tag 0x82, two-byte little-endian length) *)
(* then keyword blocks (tag 0x84, two-byte length, fields of a two-byte   *)
(* key, a one-byte length and the value), the end tag 0x79 and a checksum *)
(* byte.  Keys "PN" and "SN" are in descs[], "ZZ" is not.                  *)
(***************************************************************************)
EXTENDS NvramVPD

PN == << 80, 78 >>
SN == << 83, 78 >>
ZZ == << 90, 90 >>

MCKnown == { PN, SN }

LE16(n) == << n % 256, n \div 256 >>

FieldBytes(f) == f.key \o << Len(f.val) >> \o f.val

BlockBytes(fs) ==
    LET b == FlattenSeq([k \in DOMAIN fs |-> FieldBytes(fs[k])])
    IN << 132 >> \o LE16(Len(b)) \o b

Pad(b) == b \o [k \in 1..(32 - Len(b)) |-> 0]

\* A description: the id string and the fields of each keyword block.
Encode(id, blocks) ==
    [bytes  |-> Pad(<< TAG_ID >> \o LE16(Len(id)) \o id
                    \o FlattenSeq([k \in DOMAIN blocks |-> BlockBytes(blocks[k])])
                    \o << TAG_END, 55 >>),
     fields |-> << [key |-> IdKey, val |-> id] >>
                \o FlattenSeq(blocks)]

F(key, val) == [key |-> key, val |-> val]

MCImages ==
    { Encode(<< 73, 68 >>, << >>),
      Encode(<< 73 >>, << << F(PN, << 49, 50 >>), F(ZZ, << >>) >> >>),
      Encode(<< 73, 68 >>, << << F(PN, << 57 >>), F(ZZ, << 56 >>) >>, << F(SN, << 51 >>), F(PN, << >>) >> >>),
      Encode(<< >>, << << >>, << F(SN, << 52, 53, 54 >>) >> >>),
      Encode(<< 73, 68, 69 >>, << << F(PN, << 50 >>), F(SN, << >>), F(PN, << 51, 52 >>) >> >>),
      Encode(<< 68 >>, << << F(SN, << 55 >>), F(ZZ, << 49, 50, 51 >>) >>, << F(ZZ, << >>) >>, << >> >>),
      [bytes |-> Pad(<< 144, 1, 0 >>), fields |-> NONE] }

\* Corrupt and edge partitions: an identification string whose length runs
\* past the partition (getvalue at 780), a keyword block whose length does
\* (887-890), and a well-formed VPD that fills all 32 bytes, so that the
\* outer loop reads *p at p_end before comparing p (877).
MCImagesCorrupt ==
    MCImages \cup
    { [bytes |-> Pad(<< TAG_ID, 200, 0, 73 >>), fields |-> NONE],
      [bytes |-> Pad(<< TAG_ID, 1, 0, 73, 132, 100, 0, 80, 78, 1, 49, TAG_END, 55 >>),
       fields |-> NONE],
      Encode([k \in 1..27 |-> 65], << >>) }

\* A partition starting with a byte that is neither 0x82 nor 0 (also the
\* last member of MCImages).
MCUnknownTag == { [bytes |-> Pad(<< 144, 1, 0 >>), fields |-> NONE] }
=============================================================================
